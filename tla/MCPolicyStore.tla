--------------------------- MODULE MCPolicyStore ---------------------------
(* An instance of PolicyStore: one policy allows the call, one denies it.   *)
(* No action tells one thread from another, and no property.                *)
EXTENDS PolicyStore, TLC

OneAllows == [p \in PolicyTexts |-> IF p = First THEN "allow" ELSE "deny"]

AnyThread == Permutations(Threads)
=============================================================================

------------------------- MODULE MCRateLimitStore -------------------------
(* Instances of RateLimitStore: rules of one and of two window lengths,    *)
(* policy stores built together and one after the other.                   *)
EXTENDS RateLimitStore

SameWindow == [k \in Keys |-> 2]
TwoWindows == [k \in Keys |-> IF k = "long" THEN 4 ELSE 2]
MixedQuota == [k \in Keys |-> IF k = "a" THEN 2 ELSE 1]
QuotaOne == [k \in Keys |-> 1]
Together == [t \in Callers |-> 0]
OneLater == [t \in Callers |-> IF t = "t2" THEN 1 ELSE 0]
=============================================================================

----------------------------- MODULE DurableLog -----------------------------
(***************************************************************************)
(* What the audit log promises someone who reads it, without files, tails, *)
(* manifests or syncs: records, numbered in the order of their appends,    *)
(* that are added at the new end, cut by retention at the old end, and in  *)
(* a power loss stay if they are acknowledged and retention had not cut    *)
(* them.  Where processes keep different numbers of backups or prune by    *)
(* age, retention may also cut between two records that stay.              *)
(***************************************************************************)
EXTENDS Integers

CONSTANT Contiguous  \* retention cuts at the old end only

VARIABLES
  log,     \* the records a reader finds
  fading,  \* records retention has cut that a power loss may bring back
  issued,  \* the number of the newest append
  acked    \* the records whose append succeeded

vars == <<log, fading, issued, acked>>

Init == log = {} /\ fading = {} /\ issued = 0 /\ acked = {}

Issue == issued' = issued + 1 /\ UNCHANGED <<log, fading, acked>>

Write ==
  /\ \A r \in log \cup fading : r < issued
  /\ log' = log \cup {issued}
  /\ UNCHANGED <<fading, issued, acked>>

\* Only the newest record can be acknowledged, and it is in the log.
Acknowledge ==
  /\ issued \in log
  /\ acked' = acked \cup {issued}
  /\ UNCHANGED <<log, fading, issued>>

\* Where retention is contiguous, what goes is older than what stays.
Cut ==
  /\ log' \subseteq log
  /\ Contiguous => \A r \in log \ log', q \in log' : r < q
  /\ fading' = fading \cup (log \ log')
  /\ UNCHANGED <<issued, acked>>

\* What was cut is gone for good.
Settle == fading' \subseteq fading /\ UNCHANGED <<log, issued, acked>>

\* An acknowledged record of the log stays; of what was cut some may come back,
\* where retention is contiguous the newest.
PowerLoss ==
  /\ log' \subseteq log \cup fading
  /\ log \cap acked \subseteq log'
  /\ Contiguous => \A r \in log', q \in (log \cup fading) \cap acked : r < q => q \in log'
  /\ fading' = {}
  /\ UNCHANGED <<issued, acked>>

Next == Issue \/ Write \/ Acknowledge \/ Cut \/ Settle \/ PowerLoss

Spec == Init /\ [][Next]_vars
=============================================================================

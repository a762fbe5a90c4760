--------------------------- MODULE AtomicRotation ---------------------------
(***************************************************************************)
(* What the rotation transaction promises a reader of the audit log: the   *)
(* retained files form one layout of an active file and numbered backups,  *)
(* a rotation shifts it in one step, and a power loss leaves the layout    *)
(* before or after a step, never one in between.  No manifest, staging     *)
(* name or sync is visible here.                                           *)
(***************************************************************************)
EXTENDS Integers

CONSTANTS MaxSlots, Limits, MaxFiles

NoFile == 0
Active == 0
Slots == 0..MaxSlots

VARIABLES
  layout,    \* the file in each slot
  possible,  \* the layouts a power loss may leave
  created    \* the number of the newest file

vars == <<layout, possible, created>>

EmptyLayout == [i \in Slots |-> NoFile]

\* What a completed rotation with n backups makes of a layout.
Shifted(l, n) ==
  [i \in Slots |-> CASE i = Active -> NoFile
                     [] i \in 1..n -> l[i - 1]
                     [] OTHER      -> l[i]]

Become(l) == layout' = l /\ possible' = possible \cup {l}

Init == layout = EmptyLayout /\ possible = {EmptyLayout} /\ created = 0

Create ==
  /\ layout[Active] = NoFile /\ created < MaxFiles
  /\ created' = created + 1
  /\ Become([layout EXCEPT ![Active] = created + 1])

Rotate ==
  /\ layout[Active] # NoFile
  /\ \E n \in Limits : Become(Shifted(layout, n))
  /\ UNCHANGED created

Expire ==
  /\ \E i \in Slots \ {Active} : Become([layout EXCEPT ![i] = NoFile])
  /\ UNCHANGED created

Sync == possible' = {layout} /\ UNCHANGED <<layout, created>>

PowerLoss == layout' \in possible /\ possible' = {layout'} /\ UNCHANGED created

Next == Create \/ Rotate \/ Expire \/ Sync \/ PowerLoss

Spec == Init /\ [][Next]_vars
=============================================================================

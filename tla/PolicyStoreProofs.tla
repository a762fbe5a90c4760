------------------------- MODULE PolicyStoreProofs -------------------------
(***************************************************************************)
(* Proofs about PolicyStore, for any number of threads, policies, calls    *)
(* and failing appends.                                                    *)
(*                                                                         *)
(* The argument: whoever decides or reloads holds the lock of the store    *)
(* from the reading of the policy to the end of the operation (Guarded).   *)
(* So the last successful activation in the log names the active policy,   *)
(* but for the moment between a reload's append and its replacement of the *)
(* policy (InStep), and no decision is made in that moment.  The two locks *)
(* are only ever taken in one order (LocksInv), so someone can go on.      *)
(***************************************************************************)
EXTENDS PolicyStore, TLAPS

Exclusive == Deciding \cup {"activation"}
Appending == Deciding \cup {"outcome", "activation"}
Locations == {"idle", "enter", "append", "write", "finish"}

Payload == [call : Nat, policy : PolicyTexts, decision : {"allow", "deny"}]

Operations ==
  /\ op \in [Threads -> [kind : Kinds, auth : Payload]]
  /\ \A t \in Threads :
       /\ op[t].kind \in Deciding \cup {"outcome"} => op[t].auth \in Authorizations
       /\ op[t].kind = "activation" => \E p \in PolicyTexts : op[t].auth = Activation(p)
       /\ op[t].kind = "none" => place[t] = "idle"

Guarded ==
  \A t \in Threads :
    place[t] \in {"append", "write", "finish"} /\ op[t].kind \in Exclusive => storeLock = t

-----------------------------------------------------------------------------
(* The last successful activation of a log. *)

Activates(l, i) == l[i].event = "activation" /\ l[i].acked

Named(l, n) ==
  LET activations == {i \in 1..n : Activates(l, i)} IN
  IF activations = {} THEN NoPolicy ELSE l[Max(activations)].auth.policy

IsLast(l, n, m) ==
  m \in 1..n /\ Activates(l, m) /\ \A i \in (m + 1)..n : ~Activates(l, i)

NoneIn(l, n) == \A i \in 1..n : ~Activates(l, i)

\* Every part of the log has one, or no activation at all.
Settled(l, n) == NoneIn(l, n) \/ \E m \in 1..n : IsLast(l, n, m)
Begun(l) == \A n \in 0..Len(l) : Settled(l, n)

LEMMA NamedByLast ==
  ASSUME NEW l, NEW n \in Nat, NEW m \in 1..n, IsLast(l, n, m)
  PROVE  Named(l, n) = l[m].auth.policy
<1> DEFINE S == {i \in 1..n : Activates(l, i)}
<1>1. m \in S /\ \A i \in S : i \in Int /\ m >= i
  BY DEF IsLast
<1>2. Max(S) = m
  <2>1. Max(S) \in S /\ \A y \in S : Max(S) >= y
    BY <1>1, Zenon DEF Max
  <2> QED
    BY <2>1, <1>1
<1> QED
  BY <1>1, <1>2 DEF Named

LEMMA NamedByNone ==
  ASSUME NEW l, NEW n \in Nat, NoneIn(l, n)
  PROVE  Named(l, n) = NoPolicy
  BY DEF NoneIn, Named

\* Logs that agree on 1..n name the same policy at n.
LEMMA NamedAgrees ==
  ASSUME NEW l, NEW k, NEW n \in Nat, Settled(l, n), \A i \in 1..n : k[i] = l[i]
  PROVE  Settled(k, n) /\ Named(k, n) = Named(l, n)
<1>1. CASE NoneIn(l, n)
  <2>1. NoneIn(k, n)
    BY <1>1 DEF NoneIn, Activates
  <2> QED
    BY <1>1, <2>1, NamedByNone DEF Settled
<1>2. ASSUME NEW m \in 1..n, IsLast(l, n, m) PROVE Settled(k, n) /\ Named(k, n) = Named(l, n)
  <2>1. IsLast(k, n, m)
    BY <1>2 DEF IsLast, Activates
  <2> QED
    BY <1>2, <2>1, NamedByLast DEF Settled
<1> QED
  BY <1>1, <1>2 DEF Settled

\* A record more: the policy in force is the one it activates, or stays.
LEMMA NamedAfter ==
  ASSUME NEW k, NEW n \in Nat, Settled(k, n)
  PROVE  /\ Settled(k, n + 1)
         /\ Named(k, n + 1) =
              IF Activates(k, n + 1) THEN k[n + 1].auth.policy ELSE Named(k, n)
<1>0. n + 1 \in Nat /\ n + 1 \in 1..(n + 1)
  OBVIOUS
<1>1. CASE Activates(k, n + 1)
  <2>1. IsLast(k, n + 1, n + 1)
    BY <1>1 DEF IsLast
  <2> QED
    BY <1>0, <1>1, <2>1, NamedByLast DEF Settled
<1>2. CASE ~Activates(k, n + 1) /\ NoneIn(k, n)
  <2>1. NoneIn(k, n + 1)
    BY <1>2 DEF NoneIn
  <2> QED
    BY <1>0, <1>2, <2>1, NamedByNone DEF Settled
<1>3. ASSUME ~Activates(k, n + 1), NEW m \in 1..n, IsLast(k, n, m)
      PROVE  Settled(k, n + 1) /\ Named(k, n + 1) = Named(k, n)
  <2>1. m \in 1..(n + 1) /\ IsLast(k, n + 1, m)
    BY <1>3 DEF IsLast
  <2>2. Named(k, n + 1) = k[m].auth.policy
    BY <1>0, <2>1, NamedByLast
  <2>3. Named(k, n) = k[m].auth.policy
    BY <1>3, NamedByLast
  <2> QED
    BY <2>1, <2>2, <2>3 DEF Settled
<1> QED
  BY <1>1, <1>2, <1>3 DEF Settled

\* What is appended does not change what was in force before; at its end the
\* longer log names the policy of the record, or the policy named before.
LEMMA NamedOfAppend ==
  ASSUME NEW l \in Seq(Record), Begun(l), NEW r \in Record
  PROVE  /\ Begun(Append(l, r))
         /\ \A n \in 1..Len(l) : Named(Append(l, r), n) = Named(l, n)
         /\ Named(Append(l, r), Len(l) + 1) =
              IF r.event = "activation" /\ r.acked THEN r.auth.policy ELSE Named(l, Len(l))
<1> DEFINE k == Append(l, r)
           len == Len(l)
<1>1. len \in Nat /\ Len(k) = len + 1 /\ k[len + 1] = r /\ \A i \in 1..len : k[i] = l[i]
  OBVIOUS
<1>2. ASSUME NEW n \in 0..len PROVE Settled(k, n) /\ Named(k, n) = Named(l, n)
  <2>1. n \in Nat /\ Settled(l, n) /\ \A i \in 1..n : k[i] = l[i]
    BY <1>1 DEF Begun
  <2> HIDE DEF k
  <2> QED
    BY <2>1, NamedAgrees
<1>3. Activates(k, len + 1) <=> (r.event = "activation" /\ r.acked)
  BY <1>1 DEF Activates
<1> HIDE DEF k, len
<1>4. Settled(k, len) /\ Named(k, len) = Named(l, len)
  BY <1>1, <1>2
<1>5. Settled(k, len + 1) /\ Named(k, len + 1) =
        IF r.event = "activation" /\ r.acked THEN r.auth.policy ELSE Named(l, len)
  BY <1>1, <1>3, <1>4, NamedAfter
<1>6. Begun(k)
  <2>1. \A n \in 0..Len(k) : n \in 0..len \/ n = len + 1
    BY <1>1
  <2> QED
    BY <1>2, <1>5, <2>1 DEF Begun
<1> QED
  BY <1>1, <1>2, <1>5, <1>6 DEF k, len

-----------------------------------------------------------------------------
(* Type correctness. *)

TypeInv == StoreTypeOK /\ Operations

LEMMA ActivationIsPayload ==
  ASSUME NEW p \in PolicyTexts
  PROVE  Activation(p) \in Payload /\ Activation(p).policy = p
  BY TextsAssumption DEF Activation, NoAuthorization, Payload

LEMMA AuthorizationIsPayload == Authorizations \subseteq Payload
  BY StoreBoundsAssumption DEF Authorizations, Payload, CallIds

LEMMA IdleIsTyped == NoAuthorization \in Payload /\ Idle \in [kind : Kinds, auth : Payload]
  BY TextsAssumption DEF NoAuthorization, Payload, Idle, Kinds

LEMMA ShortLogs == ASSUME NEW S PROVE <<>> \in Seq(S) /\ \A r \in S : <<r>> \in Seq(S)
  OBVIOUS

LEMMA InitType == StoreInit => TypeInv
<1> SUFFICES ASSUME StoreInit PROVE TypeInv
  OBVIOUS
<1>1. log \in Seq(Record) /\ active \in PolicyTexts \cup {NoPolicy}
  <2>1. [event |-> "activation", auth |-> Activation(First), acked |-> TRUE] \in Record
    BY TextsAssumption DEF Record
  <2>2. log = <<>> \/ \E r \in Record : log = <<r>>
    BY <2>1 DEF StoreInit
  <2>3. active \in {First, NoPolicy}
    BY DEF StoreInit
  <2>4. log \in Seq(Record)
    BY <2>2, ShortLogs
  <2> QED
    BY <2>3, <2>4, TextsAssumption
<1>2. Operations
  BY IdleIsTyped DEF StoreInit, Operations, Idle, Deciding
<1>3. \A t \in Threads : op[t].kind \in Kinds
  BY <1>2 DEF Operations
<1>4. calls \in 0..MaxCalls /\ faults \in 0..MaxFaults
  BY StoreBoundsAssumption DEF StoreInit
<1>5. StoreTypeOK
  BY <1>1, <1>3, <1>4, TextsAssumption DEF StoreInit, StoreTypeOK
<1> QED
  BY <1>2, <1>5 DEF TypeInv

\* An operation begins with a payload of its kind.
LEMMA BeginType ==
  ASSUME TypeInv, NEW t \in Threads, NEW kind \in Kinds \ {"none"}, NEW auth \in Payload,
         NEW location \in {"enter", "append"}, Begin(t, kind, auth, location),
         kind \in Deciding \cup {"outcome"} => auth \in Authorizations,
         kind = "activation" => \E p \in PolicyTexts : auth = Activation(p)
  PROVE  TypeInv'
<1>1. calls' \in 0..MaxCalls
  BY StoreBoundsAssumption DEF Begin, TypeInv, StoreTypeOK
<1>2. place' = [place EXCEPT ![t] = location] /\ op' = [op EXCEPT ![t] = [kind |-> kind, auth |-> auth]]
  BY DEF Begin
<1>3. op'[t] = [kind |-> kind, auth |-> auth] /\ \A u \in Threads : u # t => op'[u] = op[u] /\ place'[u] = place[u]
  BY <1>2 DEF TypeInv, StoreTypeOK, Operations
<1>4. op' \in [Threads -> [kind : Kinds, auth : Payload]]
  BY <1>2 DEF TypeInv, Operations
<1>5. Operations'
  BY <1>3, <1>4 DEF TypeInv, Operations
<1>6. StoreTypeOK'
  BY <1>1, <1>2, <1>4 DEF Begin, TypeInv, StoreTypeOK, locks, returned
<1> QED
  BY <1>5, <1>6 DEF TypeInv

LEMMA EntryType ==
  ASSUME TypeInv, NEW t \in Threads, NEW ok \in BOOLEAN,
         place[t] = "write", op[t].kind # "close"
  PROVE  /\ Entry(t, ok) \in Record
         /\ op[t].kind \in Appending
         /\ Append(log, Entry(t, ok)) \in Seq(Record)
<1>1. op[t].kind \in Appending
  BY DEF TypeInv, StoreTypeOK, Operations, Appending, Deciding, Kinds
<1>2. CASE op[t].kind = "activation"
  <2>1. op[t].auth \in {Activation(p) : p \in PolicyTexts}
    BY <1>2 DEF TypeInv, Operations
  <2> QED
    BY <1>1, <1>2, <2>1 DEF Entry, EventOf, Deciding, Record, TypeInv, StoreTypeOK
<1>3. CASE op[t].kind # "activation"
  <2>1. op[t].auth \in Authorizations /\ EventOf(op[t].kind) \in {"authorization", "outcome"}
    BY <1>1, <1>3 DEF TypeInv, Operations, Appending, EventOf, Deciding
  <2> QED
    BY <1>1, <2>1 DEF Entry, Record, TypeInv, StoreTypeOK
<1> QED
  BY <1>2, <1>3

\* Back to idle, or on to another location: the other threads stay.
LEMMA MoveType ==
  ASSUME TypeInv, NEW t \in Threads,
         \/ place' = [place EXCEPT ![t] = "idle"] /\ op' = [op EXCEPT ![t] = Idle]
         \/ /\ op' = op /\ place[t] # "idle" /\ op[t].kind # "none"
            /\ \E l \in Locations : place' = [place EXCEPT ![t] = l]
  PROVE  Operations' /\ place' \in [Threads -> Locations] /\ \A u \in Threads : op'[u].kind \in Kinds
<1>1. place' \in [Threads -> Locations]
  BY DEF TypeInv, StoreTypeOK, Locations
<1>2. op' \in [Threads -> [kind : Kinds, auth : Payload]]
  BY IdleIsTyped DEF TypeInv, Operations
<1>3. \A u \in Threads : u # t => op'[u] = op[u] /\ place'[u] = place[u]
  BY DEF TypeInv, StoreTypeOK, Operations
<1>4. \/ op'[t] = Idle /\ place'[t] = "idle"
      \/ op'[t] = op[t] /\ op[t].kind # "none"
  BY DEF TypeInv, StoreTypeOK, Operations
<1>5. Operations'
  BY <1>2, <1>3, <1>4 DEF TypeInv, Operations, Idle, Deciding
<1> QED
  BY <1>1, <1>2, <1>5

LEMMA StepType == TypeInv /\ [StoreNext]_storeVars => TypeInv'
<1> SUFFICES ASSUME TypeInv, [StoreNext]_storeVars PROVE TypeInv'
  OBVIOUS
<1>1. CASE UNCHANGED storeVars
  BY <1>1 DEF TypeInv, StoreTypeOK, Operations, storeVars
<1>2. ASSUME NEW t \in Threads, Start(t) PROVE TypeInv'
  <2>1. [NoAuthorization EXCEPT !.call = calls + 1] \in Authorizations \/ calls = MaxCalls
    BY TextsAssumption, StoreBoundsAssumption
       DEF NoAuthorization, Authorizations, CallIds, TypeInv, StoreTypeOK
  <2>2. CASE StartAuthorize(t)
    <3>1. PICK kind \in Deciding :
            Begin(t, kind, [NoAuthorization EXCEPT !.call = calls + 1], "enter")
      BY <2>2 DEF StartAuthorize, Deciding
    <3>2. [NoAuthorization EXCEPT !.call = calls + 1] \in Authorizations
      BY <2>1, <3>1, StoreBoundsAssumption DEF Begin
    <3>3. kind \in Kinds \ {"none"} /\ kind # "activation"
      BY DEF Deciding, Kinds
    <3> QED
      BY <3>1, <3>2, <3>3, AuthorizationIsPayload, BeginType
  <2>3. CASE StartReload(t)
    <3>1. PICK p \in PolicyTexts : Begin(t, "activation", Activation(p), "enter")
      BY <2>3 DEF StartReload
    <3> QED
      BY <3>1, ActivationIsPayload, BeginType DEF Kinds, Deciding
  <2>4. CASE StartOutcome(t)
    <3>1. PICK a \in granted : Begin(t, "outcome", a, "append")
      BY <2>4 DEF StartOutcome
    <3>2. a \in Authorizations
      BY DEF TypeInv, StoreTypeOK
    <3> QED
      BY <3>1, <3>2, AuthorizationIsPayload, BeginType DEF Kinds
  <2>5. CASE StartClose(t)
    BY <2>5, IdleIsTyped, BeginType DEF StartClose, Kinds, Deciding
  <2> QED
    BY <1>2, <2>2, <2>3, <2>4, <2>5 DEF Start
<1>3. ASSUME NEW t \in Threads, Enter(t) PROVE TypeInv'
  <2>1. op[t].kind # "none" /\ op[t] \in [kind : Kinds, auth : Payload]
    BY <1>3 DEF Enter, TypeInv, StoreTypeOK, Operations
  <2>2. op' = op \/ /\ op[t].kind \in Deciding
                    /\ op' = [op EXCEPT ![t].auth.policy = active, ![t].auth.decision = Verdict[active]]
    BY <1>3 DEF Enter, Deciding
  <2>3. op[t].kind \in Deciding => active \in PolicyTexts /\ Verdict[active] \in {"allow", "deny"}
    BY <1>3, TextsAssumption DEF Enter, Unready, TypeInv, StoreTypeOK
  <2>4. op'[t].kind = op[t].kind /\ \A u \in Threads : u # t => op'[u] = op[u]
    BY <2>2 DEF TypeInv, Operations
  <2>5. ASSUME op[t].kind \in Deciding
        PROVE  /\ op'[t] \in [kind : Kinds, auth : Payload]
               /\ op'[t].auth \in Authorizations
    BY <1>3, <2>1, <2>3, <2>5 DEF Enter, TypeInv, Operations, Authorizations, Payload, Deciding
  <2>6. op' \in [Threads -> [kind : Kinds, auth : Payload]]
    <3>1. CASE op' = op
      BY <3>1 DEF TypeInv, Operations
    <3>2. CASE op' # op
      <4>1. op'[t] \in [kind : Kinds, auth : Payload]
        BY <2>2, <2>5, <3>2
      <4>2. \A u \in Threads : op'[u] \in [kind : Kinds, auth : Payload]
        BY <2>4, <4>1 DEF TypeInv, Operations
      <4>3. op' = [u \in Threads |-> op'[u]]
        BY <2>2, <3>2 DEF TypeInv, Operations
      <4> QED
        BY <4>2, <4>3
    <3> QED
      BY <3>1, <3>2
  <2>7. place' = [place EXCEPT ![t] = "append"]
    BY <1>3 DEF Enter
  <2>8. Operations'
    <3>1. \A u \in Threads : u # t => op'[u] = op[u] /\ place'[u] = place[u]
      BY <2>4, <2>7 DEF TypeInv, StoreTypeOK
    <3>2. op'[t].kind \in Deciding \cup {"outcome"} => op'[t].auth \in Authorizations
      BY <2>2, <2>4, <2>5 DEF TypeInv, Operations
    <3>3. op'[t].kind = "activation" => \E p \in PolicyTexts : op'[t].auth = Activation(p)
      BY <2>2, <2>4 DEF TypeInv, Operations, Deciding
    <3> QED
      BY <2>1, <2>4, <2>6, <3>1, <3>2, <3>3 DEF TypeInv, Operations
  <2>9. StoreTypeOK'
    BY <1>3, <2>6, <2>7 DEF Enter, TypeInv, StoreTypeOK, returned
  <2> QED
    BY <2>8, <2>9 DEF TypeInv
<1>4. ASSUME NEW t \in Threads, LockLog(t) \/ Close(t) PROVE TypeInv'
  <2>1. op[t].kind # "none" /\ place[t] # "idle"
    BY <1>4 DEF LockLog, Close, TypeInv, Operations
  <2>2. Operations' /\ place' \in [Threads -> Locations] /\ \A u \in Threads : op'[u].kind \in Kinds
    BY <1>4, <2>1, MoveType DEF LockLog, Close, Locations
  <2>3. StoreTypeOK'
    BY <1>4, <2>2 DEF LockLog, Close, TypeInv, StoreTypeOK, Locations, returned
  <2> QED
    BY <2>2, <2>3 DEF TypeInv
<1>5. ASSUME NEW t \in Threads, AppendOk(t) PROVE TypeInv'
  <2>1. op[t].kind # "none" /\ place[t] # "idle" /\ log' \in Seq(Record)
    BY <1>5, EntryType DEF AppendOk, TypeInv, Operations
  <2>2. Operations' /\ place' \in [Threads -> Locations] /\ \A u \in Threads : op'[u].kind \in Kinds
    BY <1>5, <2>1, MoveType DEF AppendOk, Locations
  <2>3. StoreTypeOK'
    BY <1>5, <2>1, <2>2 DEF AppendOk, TypeInv, StoreTypeOK, Locations, returned
  <2> QED
    BY <2>2, <2>3 DEF TypeInv
<1>6. ASSUME NEW t \in Threads, AppendClosed(t) \/ AppendFails(t) PROVE TypeInv'
  <2>1. log' \in Seq(Record) /\ faults' \in 0..MaxFaults /\ Raise(t)
    <3>1. CASE AppendClosed(t)
      BY <3>1 DEF AppendClosed, TypeInv, StoreTypeOK
    <3>2. CASE AppendFails(t)
      <4>1. log' \in Seq(Record)
        BY <3>2, EntryType DEF AppendFails, TypeInv, StoreTypeOK
      <4>2. faults' \in 0..MaxFaults
        BY <3>2, StoreBoundsAssumption DEF AppendFails, TypeInv, StoreTypeOK
      <4> QED
        BY <3>2, <4>1, <4>2 DEF AppendFails
    <3> QED
      BY <1>6, <3>1, <3>2
  <2>2. Operations' /\ place' \in [Threads -> Locations] /\ \A u \in Threads : op'[u].kind \in Kinds
    BY <2>1, MoveType DEF Raise
  <2>3. StoreTypeOK'
    BY <2>1, <2>2 DEF Raise, Release, TypeInv, StoreTypeOK, Locations, returned
  <2> QED
    BY <2>2, <2>3 DEF TypeInv
<1>7. ASSUME NEW t \in Threads, RefuseUnready(t) PROVE TypeInv'
  <2>1. Operations' /\ place' \in [Threads -> Locations] /\ \A u \in Threads : op'[u].kind \in Kinds
    BY <1>7, MoveType DEF RefuseUnready
  <2>2. StoreTypeOK'
    BY <1>7, <2>1 DEF RefuseUnready, TypeInv, StoreTypeOK, Locations, locks, returned
  <2> QED
    BY <2>1, <2>2 DEF TypeInv
<1>8. ASSUME NEW t \in Threads, Finish(t) PROVE TypeInv'
  <2>1. Operations' /\ place' \in [Threads -> Locations] /\ \A u \in Threads : op'[u].kind \in Kinds
    BY <1>8, MoveType DEF Finish
  <2>2. active' \in PolicyTexts \cup {NoPolicy}
    BY <1>8 DEF Finish, TypeInv, StoreTypeOK, Operations, Payload
  <2>3. granted' \subseteq Authorizations /\ effects' \subseteq Authorizations
    BY <1>8 DEF Finish, TypeInv, StoreTypeOK, Operations, Deciding
  <2>4. StoreTypeOK'
    BY <1>8, <2>1, <2>2, <2>3 DEF Finish, Release, TypeInv, StoreTypeOK, Locations
  <2> QED
    BY <2>1, <2>4 DEF TypeInv
<1> QED
  BY <1>1, <1>2, <1>3, <1>4, <1>5, <1>6, <1>7, <1>8 DEF StoreNext, Step

\* The store, its log and every operation under way keep their types.
THEOREM TypeCorrect == StoreSpec => []StoreTypeOK
<1>1. TypeInv => StoreTypeOK
  BY DEF TypeInv
<1> QED BY <1>1, InitType, StepType, PTL DEF StoreSpec

-----------------------------------------------------------------------------
(* The invariant. *)

Installing(t) == place[t] = "finish" /\ op[t].kind = "activation"

\* Between a reload's append and its replacement of the policy the log is ahead.
InStep ==
  /\ (\A t \in Threads : ~Installing(t)) => active = Named(log, Len(log))
  /\ \A t \in Threads : Installing(t) => op[t].auth.policy = Named(log, Len(log))

\* A decision under way is that of the active policy.
Decided ==
  \A t \in Threads : place[t] \in {"append", "write"} /\ op[t].kind \in Deciding =>
    op[t].auth.policy = active /\ op[t].auth.decision = Verdict[active]

Logged(a) == \E i \in DOMAIN log :
  log[i].event = "authorization" /\ log[i].auth = a /\ log[i].acked

\* What is about to be returned is in the log, and so is what an outcome is about.
Audited == \A t \in Threads : place[t] = "finish" /\ op[t].kind \in Deciding => Logged(op[t].auth)
Grounded == \A t \in Threads : op[t].kind = "outcome" => Logged(op[t].auth)

OrderInv == TypeInv /\ Guarded /\ Begun(log) /\ InStep /\ Decided /\ DecidedByPolicyInForce

AuditInv == TypeInv /\ Audited /\ Grounded /\ AuditedBeforeReturn /\ OutcomesFollow

LEMMA InForceIsNamed == \A n : InForce(n) = Named(log, n)
  BY DEF InForce, Named, Activates

\* A step leaves the log alone or appends the entry of a thread that writes.
Grows(t, ok) ==
  /\ place[t] = "write" /\ op[t].kind # "close"
  /\ log' = Append(log, Entry(t, ok))

LEMMA LogGrows ==
  ASSUME TypeInv, StoreNext
  PROVE  log' = log \/ \E t \in Threads, ok \in BOOLEAN : Grows(t, ok)
<1>1. PICK t \in Threads : Start(t) \/ Step(t)
  BY DEF StoreNext
<1>2. CASE AppendOk(t)
  BY <1>2 DEF AppendOk, Grows
<1>3. CASE AppendFails(t)
  BY <1>3 DEF AppendFails, Grows
<1>4. CASE ~AppendOk(t) /\ ~AppendFails(t)
  BY <1>1, <1>4 DEF Start, StartAuthorize, StartReload, StartOutcome, StartClose, Begin,
     Step, RefuseUnready, Enter, LockLog, AppendClosed, Close, Finish
<1> QED
  BY <1>2, <1>3, <1>4

\* Nothing in the log is lost.
LEMMA LoggedStays ==
  ASSUME TypeInv, [StoreNext]_storeVars, NEW a, Logged(a)
  PROVE  Logged(a)'
<1>1. PICK i \in DOMAIN log : log[i].event = "authorization" /\ log[i].auth = a /\ log[i].acked
  BY DEF Logged
<1>2. i \in DOMAIN log' /\ log'[i] = log[i]
  <2>1. CASE log' = log
    BY <2>1
  <2>2. ASSUME NEW t \in Threads, NEW ok \in BOOLEAN, Grows(t, ok)
        PROVE  i \in DOMAIN log' /\ log'[i] = log[i]
    BY <2>2, EntryType DEF Grows, TypeInv, StoreTypeOK
  <2>3. UNCHANGED storeVars => log' = log
    BY DEF storeVars
  <2> QED
    BY <2>1, <2>2, <2>3, LogGrows
<1> QED
  BY <1>1, <1>2 DEF Logged

-----------------------------------------------------------------------------
(* What leaves the store has been logged. *)

LEMMA InitAudit == StoreInit => AuditInv
<1> SUFFICES ASSUME StoreInit PROVE AuditInv
  OBVIOUS
<1>1. Audited /\ Grounded
  BY DEF StoreInit, Audited, Grounded, Idle
<1>2. AuditedBeforeReturn /\ OutcomesFollow
  BY DEF StoreInit, AuditedBeforeReturn, OutcomesFollow
<1> QED
  BY <1>1, <1>2, InitType DEF AuditInv

\* Where the operations of a thread come from.
LEMMA OperationSteps ==
  ASSUME TypeInv, StoreNext, NEW u \in Threads
  PROVE  /\ place'[u] = "finish" /\ op'[u].kind \in Deciding =>
              op'[u] = op[u] /\ (place[u] = "finish" \/ AppendOk(u))
         /\ op'[u].kind = "outcome" => op'[u] = op[u] \/ op'[u].auth \in granted
<1>1. PICK t \in Threads : Start(t) \/ Step(t)
  BY DEF StoreNext
<1>2. CASE Start(t)
  <2>1. /\ place'[t] \in {"enter", "append"} /\ (u # t => op'[u] = op[u] /\ place'[u] = place[u])
        /\ op'[t].kind = "outcome" => op'[t].auth \in granted
    <3>1. CASE StartAuthorize(t)
      BY <3>1 DEF StartAuthorize, Begin, TypeInv, StoreTypeOK, Operations, Deciding
    <3>2. CASE StartReload(t)
      BY <3>2 DEF StartReload, Begin, TypeInv, StoreTypeOK, Operations
    <3>3. CASE StartOutcome(t)
      BY <3>3 DEF StartOutcome, Begin, TypeInv, StoreTypeOK, Operations
    <3>4. CASE StartClose(t)
      BY <3>4 DEF StartClose, Begin, TypeInv, StoreTypeOK, Operations
    <3> QED
      BY <1>2, <3>1, <3>2, <3>3, <3>4 DEF Start
  <2> QED
    BY <2>1
<1>3. CASE Enter(t)
  <2>1. place'[t] = "append" /\ op'[t].kind = op[t].kind
    BY <1>3 DEF Enter, TypeInv, StoreTypeOK, Operations
  <2>2. u # t => op'[u] = op[u] /\ place'[u] = place[u]
    BY <1>3 DEF Enter, TypeInv, StoreTypeOK, Operations
  <2>3. op[t].kind = "outcome" => op' = op
    BY <1>3 DEF Enter, Deciding
  <2> QED
    BY <2>1, <2>2, <2>3
<1>4. CASE LockLog(t) \/ AppendOk(t) \/ Close(t)
  <2>1. op' = op /\ (u # t => place'[u] = place[u])
    BY <1>4 DEF LockLog, AppendOk, Close, TypeInv, StoreTypeOK
  <2>2. place'[t] = "write" \/ AppendOk(t) \/ op[t].kind = "close"
    BY <1>4 DEF LockLog, Close, TypeInv, StoreTypeOK
  <2> QED
    BY <2>1, <2>2 DEF Deciding
<1>5. CASE RefuseUnready(t) \/ AppendClosed(t) \/ AppendFails(t) \/ Finish(t)
  <2>1. place' = [place EXCEPT ![t] = "idle"] /\ op' = [op EXCEPT ![t] = Idle]
    BY <1>5 DEF RefuseUnready, AppendClosed, AppendFails, Raise, Finish
  <2>2. place'[t] = "idle" /\ op'[t].kind = "none" /\ (u # t => op'[u] = op[u] /\ place'[u] = place[u])
    BY <2>1 DEF TypeInv, StoreTypeOK, Operations, Idle
  <2> QED
    BY <2>2
<1> QED
  BY <1>1, <1>2, <1>3, <1>4, <1>5 DEF Step

LEMMA StepAudit == AuditInv /\ [StoreNext]_storeVars => AuditInv'
<1> SUFFICES ASSUME AuditInv, [StoreNext]_storeVars PROVE AuditInv'
  OBVIOUS
<1>0. TypeInv /\ TypeInv'
  BY StepType DEF AuditInv
<1>1. CASE UNCHANGED storeVars
  BY <1>0, <1>1 DEF AuditInv, storeVars, Audited, Grounded, Logged, AuditedBeforeReturn, OutcomesFollow
<1>2. CASE StoreNext
  <2>1. ASSUME NEW u \in Threads, place'[u] = "finish", op'[u].kind \in Deciding
        PROVE  Logged(op[u].auth)' /\ op'[u] = op[u]
    <3>1. op'[u] = op[u] /\ (place[u] = "finish" \/ AppendOk(u))
      BY <1>0, <1>2, <2>1, OperationSteps
    <3> DEFINE a == op[u].auth
    <3>2. CASE place[u] = "finish"
      BY <1>0, <2>1, <3>1, <3>2, LoggedStays DEF AuditInv, Audited
    <3>3. CASE AppendOk(u)
      <4> DEFINE e == Entry(u, TRUE)
      <4>1. e.event = "authorization" /\ e.auth = op[u].auth /\ e.acked
        BY <2>1, <3>1 DEF Entry, EventOf, Deciding
      <4>2. place[u] = "write" /\ op[u].kind # "close" /\ log' = Append(log, e)
        BY <3>3 DEF AppendOk
      <4>3. e \in Record /\ log \in Seq(Record)
        BY <1>0, <4>2, EntryType DEF TypeInv, StoreTypeOK
      <4> HIDE DEF e
      <4>4. Len(log) + 1 \in DOMAIN log' /\ log'[Len(log) + 1] = e
        BY <4>2, <4>3
      <4> QED
        BY <3>1, <4>1, <4>4 DEF Logged
    <3> QED
      BY <3>1, <3>2, <3>3
  <2>2. Audited'
    BY <2>1 DEF Audited, Logged
  <2>3. \A a \in granted : Logged(a)
    BY DEF AuditInv, AuditedBeforeReturn, Logged
  <2>4. ASSUME NEW u \in Threads, op'[u].kind = "outcome"
        PROVE  \/ op'[u] = op[u] /\ Logged(op[u].auth)'
               \/ \E a \in granted : op'[u].auth = a /\ Logged(a)'
    <3>1. op'[u] = op[u] \/ op'[u].auth \in granted
      BY <1>0, <1>2, <2>4, OperationSteps
    <3> QED
      BY <1>0, <2>3, <2>4, <3>1, LoggedStays DEF AuditInv, Grounded
  <2>5. Grounded'
    BY <2>4 DEF Grounded, Logged
  <2>6. AuditedBeforeReturn'
    <3>1. ASSUME NEW b \in granted' \cup effects'
          PROVE  \/ b \in granted \cup effects
                 \/ \E t \in Threads : place[t] = "finish" /\ op[t].kind \in Deciding /\ b = op[t].auth
      <4>1. CASE \E t \in Threads : Finish(t)
        BY <4>1, <3>1 DEF Finish, Deciding
      <4>2. CASE ~\E t \in Threads : Finish(t)
        BY <1>2, <4>2, <3>1 DEF StoreNext, Start, StartAuthorize, StartReload, StartOutcome, StartClose,
           Begin, Step, RefuseUnready, Enter, LockLog, AppendClosed, AppendOk, AppendFails, Raise, Close, returned
      <4> QED
        BY <4>1, <4>2
    <3>2. \A a \in granted \cup effects : Logged(a)
      BY DEF AuditInv, AuditedBeforeReturn, Logged
    <3>3. ASSUME NEW b \in granted' \cup effects' PROVE \E i \in DOMAIN log' :
            log'[i].event = "authorization" /\ log'[i].auth = b /\ log'[i].acked
      <4>1. \/ b \in granted \cup effects
            \/ \E t \in Threads : place[t] = "finish" /\ op[t].kind \in Deciding /\ b = op[t].auth
        BY <3>1
      <4>2. Logged(b)
        BY <3>2, <4>1 DEF AuditInv, Audited
      <4>3. Logged(b)'
        BY <1>0, <1>2, <4>2, LoggedStays
      <4> QED
        BY ONLY <4>3 DEF Logged
    <3> QED
      BY <3>3 DEF AuditedBeforeReturn
  <2>7. OutcomesFollow'
    <3>1. CASE log' = log
      BY <3>1 DEF AuditInv, OutcomesFollow
    <3>2. ASSUME NEW t \in Threads, NEW ok \in BOOLEAN, Grows(t, ok) PROVE OutcomesFollow'
      <4>1. /\ log \in Seq(Record) /\ Entry(t, ok) \in Record
            /\ log' = Append(log, Entry(t, ok)) /\ Len(log) \in Nat
        BY <1>0, <3>2, EntryType DEF Grows, TypeInv, StoreTypeOK
      <4>2. DOMAIN log' = 1..(Len(log) + 1) /\ \A i \in 1..Len(log) : log'[i] = log[i]
        BY <4>1
      <4>3. log'[Len(log) + 1] = Entry(t, ok)
        BY <4>1
      <4>4. ASSUME Entry(t, ok).event = "outcome"
            PROVE  \E j \in 1..Len(log) : /\ log[j].event = "authorization" /\ log[j].acked
                                          /\ log[j].auth = Entry(t, ok).auth
        <5>1. op[t].kind = "outcome" /\ Entry(t, ok).auth = op[t].auth
          BY <1>0, <3>2, <4>4, EntryType DEF Grows, Entry, EventOf, Appending, Deciding
        <5> QED
          BY <4>1, <5>1 DEF AuditInv, Grounded, Logged
      <4>5. ASSUME NEW i \in DOMAIN log', log'[i].event = "outcome"
            PROVE  \E j \in 1..(i - 1) : /\ log'[j].event = "authorization" /\ log'[j].acked
                                         /\ log'[j].auth = log'[i].auth
        <5>1. CASE i \in 1..Len(log)
          <6>1. \E j \in 1..(i - 1) : /\ log[j].event = "authorization" /\ log[j].acked
                                      /\ log[j].auth = log[i].auth
            BY <4>1, <4>2, <4>5, <5>1 DEF AuditInv, OutcomesFollow
          <6> QED
            BY <4>1, <4>2, <5>1, <6>1
        <5>2. CASE i = Len(log) + 1
          BY <4>1, <4>2, <4>3, <4>4, <4>5, <5>2
        <5> QED
          BY <4>1, <4>2, <5>1, <5>2
      <4> QED
        BY <4>5 DEF OutcomesFollow
    <3> QED
      BY <1>0, <1>2, <3>1, <3>2, LogGrows
  <2> QED
    BY <1>0, <2>2, <2>5, <2>6, <2>7 DEF AuditInv
<1> QED
  BY <1>1, <1>2

\* AuditedPolicyStore.authorize and the adapter: no decision and no effect is
\* returned before its authorization is in the log, whatever the interleaving
\* of threads, reloads, closes and failing appends.
THEOREM AuditComesFirst == StoreSpec => []AuditedBeforeReturn
<1>1. StoreInit => AuditInv
  BY InitAudit
<1>2. AuditInv /\ [StoreNext]_storeVars => AuditInv'
  BY StepAudit
<1>3. AuditInv => AuditedBeforeReturn
  BY DEF AuditInv
<1> QED BY <1>1, <1>2, <1>3, PTL DEF StoreSpec

\* record_outcome: an outcome stands behind the authorization it is about.
THEOREM OutcomesComeAfter == StoreSpec => []OutcomesFollow
<1>1. StoreInit => AuditInv
  BY InitAudit
<1>2. AuditInv /\ [StoreNext]_storeVars => AuditInv'
  BY StepAudit
<1>3. AuditInv => OutcomesFollow
  BY DEF AuditInv
<1> QED BY <1>1, <1>2, <1>3, PTL DEF StoreSpec

-----------------------------------------------------------------------------
(* The log tells which policy decided. *)

LEMMA InitOrder == StoreInit => OrderInv
<1> SUFFICES ASSUME StoreInit PROVE OrderInv
  OBVIOUS
<1>1. ASSUME log = <<>>, active = NoPolicy PROVE Begun(log) /\ active = Named(log, Len(log))
  <2>1. Len(log) = 0 /\ 0 \in Nat
    BY <1>1
  <2>2. NoneIn(log, 0)
    BY DEF NoneIn
  <2>3. Named(log, 0) = NoPolicy
    BY <2>1, <2>2, NamedByNone
  <2>4. Begun(log)
    BY <2>1, <2>2 DEF Begun, Settled
  <2> QED
    BY <1>1, <2>1, <2>3, <2>4
<1>2. ASSUME log = <<[event |-> "activation", auth |-> Activation(First), acked |-> TRUE]>>,
             active = First
      PROVE  Begun(log) /\ active = Named(log, Len(log))
  <2>1. Len(log) = 1 /\ Activates(log, 1) /\ log[1].auth.policy = First
    BY <1>2 DEF Activates, Activation, NoAuthorization
  <2>2. IsLast(log, 1, 1) /\ NoneIn(log, 0)
    BY <2>1 DEF IsLast, NoneIn
  <2>3. Begun(log)
    <3>1. \A n \in 0..1 : n = 0 \/ n = 1
      OBVIOUS
    <3>2. Settled(log, 0) /\ Settled(log, 1)
      BY <2>2 DEF Settled
    <3> QED
      BY <2>1, <3>1, <3>2 DEF Begun
  <2>4. Named(log, 1) = First
    BY <2>1, <2>2, NamedByLast
  <2> QED
    BY <1>2, <2>1, <2>3, <2>4
<1>3. Begun(log) /\ active = Named(log, Len(log))
  BY <1>1, <1>2 DEF StoreInit
<1>4. InStep
  BY <1>3 DEF StoreInit, InStep, Installing
<1>5. Guarded /\ Decided
  BY DEF StoreInit, Guarded, Decided
<1>6. DecidedByPolicyInForce
  <2>1. \A i \in DOMAIN log : log[i].event # "authorization"
    BY DEF StoreInit
  <2> QED
    BY <2>1 DEF DecidedByPolicyInForce
<1> QED
  BY <1>3, <1>4, <1>5, <1>6, InitType DEF OrderInv

\* Only the holder of the lock of the store installs a policy.
LEMMA OneInstalls ==
  ASSUME Guarded, NEW t \in Threads, NEW u \in Threads, Installing(t),
         place[u] \in {"append", "write", "finish"}, op[u].kind \in Exclusive
  PROVE  u = t
  BY DEF Guarded, Installing, Exclusive

LEMMA StepGuarded == TypeInv /\ Guarded /\ [StoreNext]_storeVars => Guarded'
<1> SUFFICES ASSUME TypeInv, Guarded, [StoreNext]_storeVars PROVE Guarded'
  OBVIOUS
<1>1. CASE UNCHANGED storeVars
  BY <1>1 DEF Guarded, storeVars
<1>2. ASSUME NEW t \in Threads, Start(t) PROVE Guarded'
  <2>1. /\ storeLock' = storeLock
        /\ \A u \in Threads : u # t => op'[u] = op[u] /\ place'[u] = place[u]
        /\ place'[t] = "enter" \/ op'[t].kind \notin Exclusive
    <3>1. CASE StartAuthorize(t)
      BY <3>1 DEF StartAuthorize, Begin, locks, TypeInv, StoreTypeOK, Operations
    <3>2. CASE StartReload(t)
      BY <3>2 DEF StartReload, Begin, locks, TypeInv, StoreTypeOK, Operations
    <3>3. CASE StartOutcome(t)
      BY <3>3 DEF StartOutcome, Begin, locks, TypeInv, StoreTypeOK, Operations, Exclusive, Deciding
    <3>4. CASE StartClose(t)
      BY <3>4 DEF StartClose, Begin, locks, TypeInv, StoreTypeOK, Operations, Exclusive, Deciding
    <3> QED
      BY <1>2, <3>1, <3>2, <3>3, <3>4 DEF Start
  <2> QED
    BY <2>1 DEF Guarded
<1>3. ASSUME NEW t \in Threads, Enter(t) PROVE Guarded'
  <2>1. storeLock = NoOne /\ storeLock' = t
    BY <1>3 DEF Enter
  <2>2. \A u \in Threads : u # t => op'[u] = op[u] /\ place'[u] = place[u]
    BY <1>3 DEF Enter, TypeInv, StoreTypeOK, Operations
  <2> QED
    BY <2>1, <2>2, ThreadsAssumption DEF Guarded
<1>4. ASSUME NEW t \in Threads, LockLog(t) \/ AppendOk(t) \/ Close(t) PROVE Guarded'
  <2>1. storeLock' = storeLock /\ op' = op /\ place[t] \in {"append", "write"}
    BY <1>4 DEF LockLog, AppendOk, Close
  <2>2. \A u \in Threads : u # t => place'[u] = place[u]
    BY <1>4 DEF LockLog, AppendOk, Close, TypeInv, StoreTypeOK
  <2> QED
    BY <2>1, <2>2 DEF Guarded
<1>5. ASSUME NEW t \in Threads, AppendClosed(t) \/ AppendFails(t) \/ Finish(t) \/ RefuseUnready(t)
      PROVE  Guarded'
  <2>1. /\ storeLock' \in {storeLock, Release(storeLock, t)}
        /\ place' = [place EXCEPT ![t] = "idle"] /\ op' = [op EXCEPT ![t] = Idle]
    BY <1>5 DEF AppendClosed, AppendFails, Raise, Finish, RefuseUnready, locks
  <2>2. place'[t] = "idle" /\ \A u \in Threads : u # t => op'[u] = op[u] /\ place'[u] = place[u]
    BY <2>1 DEF TypeInv, StoreTypeOK, Operations
  <2> QED
    BY <2>1, <2>2 DEF Guarded, Release
<1> QED
  BY <1>1, <1>2, <1>3, <1>4, <1>5 DEF StoreNext, Step

\* What an appended entry does to the policy in force.
LEMMA NamedGrows ==
  ASSUME TypeInv, Begun(log), NEW t \in Threads, NEW ok \in BOOLEAN, Grows(t, ok)
  PROVE  /\ Begun(log') /\ Len(log') = Len(log) + 1 /\ Len(log) \in Nat
         /\ log'[Len(log) + 1] = Entry(t, ok)
         /\ \A n \in 1..Len(log) : log'[n] = log[n] /\ Named(log', n) = Named(log, n)
         /\ Named(log', Len(log')) =
              IF op[t].kind = "activation" /\ ok THEN op[t].auth.policy ELSE Named(log, Len(log))
<1> DEFINE e == Entry(t, ok)
<1>1. log \in Seq(Record) /\ e \in Record /\ log' = Append(log, e) /\ op[t].kind \in Appending
  BY EntryType DEF Grows, TypeInv, StoreTypeOK
<1>2. e.auth = op[t].auth /\ (e.acked <=> ok) /\ (e.event = "activation" <=> op[t].kind = "activation")
  BY <1>1 DEF Entry, EventOf, Appending, Deciding
<1> HIDE DEF e
<1>3. Len(log') = Len(log) + 1 /\ Len(log) \in Nat /\ log'[Len(log) + 1] = e
  BY <1>1
<1>4. \A n \in 1..Len(log) : log'[n] = log[n]
  BY <1>1
<1>5. /\ Begun(log') /\ \A n \in 1..Len(log) : Named(log', n) = Named(log, n)
      /\ Named(log', Len(log) + 1) =
           IF op[t].kind = "activation" /\ ok THEN op[t].auth.policy ELSE Named(log, Len(log))
  BY <1>1, <1>2, NamedOfAppend
<1> QED
  BY <1>3, <1>4, <1>5 DEF e

LEMMA StepBegun == TypeInv /\ Begun(log) /\ [StoreNext]_storeVars => Begun(log')
<1> SUFFICES ASSUME TypeInv, Begun(log), [StoreNext]_storeVars PROVE Begun(log')
  OBVIOUS
<1>1. CASE log' = log
  BY <1>1
<1>2. CASE \E t \in Threads, ok \in BOOLEAN : Grows(t, ok)
  BY <1>2, NamedGrows
<1> QED
  BY <1>1, <1>2, LogGrows DEF storeVars

LEMMA StepDecided == TypeInv /\ Guarded /\ Decided /\ [StoreNext]_storeVars => Decided'
<1> SUFFICES ASSUME TypeInv, Guarded, Decided, [StoreNext]_storeVars PROVE Decided'
  OBVIOUS
<1>1. CASE UNCHANGED storeVars
  BY <1>1 DEF Decided, storeVars
<1>2. ASSUME NEW t \in Threads, Start(t) PROVE Decided'
  <2>1. /\ active' = active
        /\ \A u \in Threads : u # t => op'[u] = op[u] /\ place'[u] = place[u]
        /\ place'[t] = "enter" \/ op'[t].kind \notin Deciding
    <3>1. CASE StartAuthorize(t)
      BY <3>1 DEF StartAuthorize, Begin, TypeInv, StoreTypeOK, Operations
    <3>2. CASE StartReload(t)
      BY <3>2 DEF StartReload, Begin, TypeInv, StoreTypeOK, Operations
    <3>3. CASE StartOutcome(t)
      BY <3>3 DEF StartOutcome, Begin, TypeInv, StoreTypeOK, Operations, Deciding
    <3>4. CASE StartClose(t)
      BY <3>4 DEF StartClose, Begin, TypeInv, StoreTypeOK, Operations, Deciding
    <3> QED
      BY <1>2, <3>1, <3>2, <3>3, <3>4 DEF Start
  <2> QED
    BY <2>1 DEF Decided
<1>3. ASSUME NEW t \in Threads, Enter(t) PROVE Decided'
  <2>1. active' = active /\ \A u \in Threads : u # t => op'[u] = op[u] /\ place'[u] = place[u]
    BY <1>3 DEF Enter, TypeInv, StoreTypeOK, Operations
  <2>2. op'[t].kind = op[t].kind
    BY <1>3 DEF Enter, TypeInv, Operations
  <2>3. op[t].kind \in Deciding => op'[t].auth.policy = active /\ op'[t].auth.decision = Verdict[active]
    BY <1>3 DEF Enter, TypeInv, Operations, Payload, Deciding
  <2> QED
    BY <2>1, <2>2, <2>3 DEF Decided
<1>4. ASSUME NEW t \in Threads, LockLog(t) \/ AppendOk(t) \/ Close(t) PROVE Decided'
  <2>1. op' = op /\ active' = active /\ \A u \in Threads : u # t => place'[u] = place[u]
    BY <1>4 DEF LockLog, AppendOk, Close, TypeInv, StoreTypeOK
  <2>2. place'[t] = "finish" \/ place[t] = "append"
    BY <1>4 DEF LockLog, AppendOk, Close, TypeInv, StoreTypeOK
  <2> QED
    BY <2>1, <2>2 DEF Decided
<1>5. ASSUME NEW t \in Threads, AppendClosed(t) \/ AppendFails(t) \/ Finish(t) \/ RefuseUnready(t)
      PROVE  Decided'
  <2>1. /\ place' = [place EXCEPT ![t] = "idle"] /\ op' = [op EXCEPT ![t] = Idle]
        /\ active' = active \/ Installing(t)
    BY <1>5 DEF AppendClosed, AppendFails, Raise, Finish, RefuseUnready, Installing
  <2>2. place'[t] = "idle" /\ \A u \in Threads : u # t => op'[u] = op[u] /\ place'[u] = place[u]
    BY <2>1 DEF TypeInv, StoreTypeOK, Operations
  <2>3. CASE active' = active
    BY <2>2, <2>3 DEF Decided
  <2>4. CASE Installing(t)
    BY <2>2, <2>4, OneInstalls DEF Decided, Exclusive
  <2> QED
    BY <2>1, <2>3, <2>4
<1> QED
  BY <1>1, <1>2, <1>3, <1>4, <1>5 DEF StoreNext, Step

\* Steps after which the same threads install the same policies.
LEMMA CalmSteps ==
  ASSUME TypeInv, InStep, active' = active,
         Named(log', Len(log')) = Named(log, Len(log)),
         \A u \in Threads : /\ Installing(u)' <=> Installing(u)
                            /\ Installing(u) => op'[u] = op[u]
  PROVE  InStep'
  BY DEF InStep

LEMMA StepInStep == TypeInv /\ Guarded /\ Begun(log) /\ InStep /\ [StoreNext]_storeVars => InStep'
<1> SUFFICES ASSUME TypeInv, Guarded, Begun(log), InStep, [StoreNext]_storeVars PROVE InStep'
  OBVIOUS
<1>1. CASE UNCHANGED storeVars
  BY <1>1, CalmSteps DEF storeVars, Installing
<1>2. ASSUME NEW t \in Threads, Start(t) PROVE InStep'
  <2>1. /\ active' = active /\ log' = log /\ place[t] = "idle" /\ place'[t] \in {"enter", "append"}
        /\ \A u \in Threads : u # t => op'[u] = op[u] /\ place'[u] = place[u]
    BY <1>2 DEF Start, StartAuthorize, StartReload, StartOutcome, StartClose, Begin,
       TypeInv, StoreTypeOK, Operations
  <2> QED
    BY <2>1, CalmSteps DEF Installing
<1>3. ASSUME NEW t \in Threads, Enter(t) PROVE InStep'
  <2>1. /\ active' = active /\ log' = log /\ place[t] = "enter" /\ place'[t] = "append"
        /\ \A u \in Threads : u # t => op'[u] = op[u] /\ place'[u] = place[u]
    BY <1>3 DEF Enter, TypeInv, StoreTypeOK, Operations
  <2> QED
    BY <2>1, CalmSteps DEF Installing
<1>4. ASSUME NEW t \in Threads, LockLog(t) \/ Close(t) PROVE InStep'
  <2>1. /\ active' = active /\ log' = log /\ op' = op /\ place[t] # "finish"
        /\ place'[t] # "finish" \/ op[t].kind = "close"
        /\ \A u \in Threads : u # t => place'[u] = place[u]
    BY <1>4 DEF LockLog, Close, TypeInv, StoreTypeOK
  <2> QED
    BY <2>1, CalmSteps DEF Installing
<1>5. ASSUME NEW t \in Threads, AppendOk(t) PROVE InStep'
  <2>1. /\ active' = active /\ op' = op /\ place[t] = "write" /\ place'[t] = "finish"
        /\ \A u \in Threads : u # t => place'[u] = place[u]
    BY <1>5 DEF AppendOk, TypeInv, StoreTypeOK
  <2>2. PICK ok \in BOOLEAN : ok /\ Grows(t, ok)
    BY <1>5 DEF AppendOk, Grows
  <2>3. CASE op[t].kind = "activation"
    <3>1. Named(log', Len(log')) = op[t].auth.policy
      BY <2>2, <2>3, NamedGrows
    <3>2. \A u \in Threads : Installing(u)' => u = t
      BY <2>1, <2>3, OneInstalls DEF Installing, Exclusive
    <3>3. Installing(t)'
      BY <2>1, <2>3 DEF Installing
    <3> QED
      BY <2>1, <3>1, <3>2, <3>3 DEF InStep
  <2>4. CASE op[t].kind # "activation"
    <3>1. Named(log', Len(log')) = Named(log, Len(log))
      BY <2>2, <2>4, NamedGrows
    <3> QED
      BY <2>1, <2>4, <3>1, CalmSteps DEF Installing
  <2> QED
    BY <2>3, <2>4
<1>6. ASSUME NEW t \in Threads, AppendClosed(t) \/ AppendFails(t) \/ RefuseUnready(t) PROVE InStep'
  <2>1. /\ active' = active /\ place[t] # "finish" /\ place' = [place EXCEPT ![t] = "idle"]
        /\ op' = [op EXCEPT ![t] = Idle]
    BY <1>6 DEF AppendClosed, AppendFails, Raise, RefuseUnready
  <2>2. place'[t] = "idle" /\ \A u \in Threads : u # t => op'[u] = op[u] /\ place'[u] = place[u]
    BY <2>1 DEF TypeInv, StoreTypeOK, Operations
  <2>3. Named(log', Len(log')) = Named(log, Len(log))
    <3>1. log' = log \/ \E ok \in BOOLEAN : ~ok /\ Grows(t, ok)
      BY <1>6 DEF AppendClosed, AppendFails, RefuseUnready, Grows
    <3> QED
      BY <3>1, NamedGrows
  <2> QED
    BY <2>1, <2>2, <2>3, CalmSteps DEF Installing
<1>7. ASSUME NEW t \in Threads, Finish(t) PROVE InStep'
  <2>1. /\ log' = log /\ place[t] = "finish" /\ place' = [place EXCEPT ![t] = "idle"]
        /\ op' = [op EXCEPT ![t] = Idle]
        /\ active' = IF Installing(t) THEN op[t].auth.policy ELSE active
    BY <1>7 DEF Finish, Installing
  <2>2. place'[t] = "idle" /\ \A u \in Threads : u # t => op'[u] = op[u] /\ place'[u] = place[u]
    BY <2>1 DEF TypeInv, StoreTypeOK, Operations
  <2>3. CASE Installing(t)
    <3>1. \A u \in Threads : ~Installing(u)'
      BY <2>2, <2>3, OneInstalls DEF Installing, Exclusive
    <3>2. active' = Named(log', Len(log'))
      BY <2>1, <2>3 DEF InStep
    <3> QED
      BY <3>1, <3>2 DEF InStep
  <2>4. CASE ~Installing(t)
    BY <2>1, <2>2, <2>4, CalmSteps DEF Installing
  <2> QED
    BY <2>3, <2>4
<1> QED
  BY <1>1, <1>2, <1>3, <1>4, <1>5, <1>6, <1>7 DEF StoreNext, Step

LEMMA StepDecidedBy == OrderInv /\ [StoreNext]_storeVars => DecidedByPolicyInForce'
<1> SUFFICES ASSUME OrderInv, [StoreNext]_storeVars PROVE DecidedByPolicyInForce'
  OBVIOUS
<1>0. DecidedByPolicyInForce' <=>
        \A i \in DOMAIN log' : log'[i].event = "authorization" =>
          log'[i].auth.policy = Named(log', i) /\ log'[i].auth.decision = Verdict[Named(log', i)]
  BY DEF DecidedByPolicyInForce, InForce, Named, Activates
<1>1. \A i \in DOMAIN log : log[i].event = "authorization" =>
        log[i].auth.policy = Named(log, i) /\ log[i].auth.decision = Verdict[Named(log, i)]
  BY InForceIsNamed DEF OrderInv, DecidedByPolicyInForce
<1>2. CASE log' = log
  BY <1>0, <1>1, <1>2
<1>3. ASSUME NEW t \in Threads, NEW ok \in BOOLEAN, Grows(t, ok) PROVE DecidedByPolicyInForce'
  <2>1. /\ Len(log') = Len(log) + 1 /\ Len(log) \in Nat
        /\ log'[Len(log) + 1] = Entry(t, ok)
        /\ \A n \in 1..Len(log) : log'[n] = log[n] /\ Named(log', n) = Named(log, n)
        /\ op[t].kind # "activation" => Named(log', Len(log')) = Named(log, Len(log))
    BY <1>3, NamedGrows DEF OrderInv
  <2>2. log \in Seq(Record) /\ log' \in Seq(Record) /\ place[t] = "write"
    BY <1>3, EntryType DEF OrderInv, Grows, TypeInv, StoreTypeOK
  <2>3. ASSUME NEW i \in DOMAIN log', log'[i].event = "authorization"
        PROVE  log'[i].auth.policy = Named(log', i) /\ log'[i].auth.decision = Verdict[Named(log', i)]
    <3>1. CASE i \in 1..Len(log)
      BY <1>1, <2>1, <2>2, <2>3, <3>1
    <3>2. CASE i = Len(log) + 1
      <4>1. op[t].kind \in Deciding /\ log'[i].auth = op[t].auth
        BY <1>3, <2>1, <2>3, <3>2, EntryType
           DEF OrderInv, Grows, Entry, EventOf, Appending, Deciding
      <4>2. op[t].auth.policy = active /\ op[t].auth.decision = Verdict[active]
        BY <2>2, <4>1 DEF OrderInv, Decided
      <4>3. \A u \in Threads : ~Installing(u)
        BY <2>2, <4>1, OneInstalls DEF OrderInv, Installing, Exclusive, Deciding
      <4>4. active = Named(log, Len(log))
        BY <4>3 DEF OrderInv, InStep
      <4>5. Named(log', i) = active
        BY <2>1, <3>2, <4>1, <4>4 DEF Deciding
      <4> QED
        BY <4>1, <4>2, <4>5
    <3> QED
      BY <2>1, <2>2, <3>1, <3>2
  <2> QED
    BY <1>0, <2>3
<1> QED
  BY <1>2, <1>3, LogGrows DEF OrderInv, storeVars

LEMMA StepOrder == OrderInv /\ [StoreNext]_storeVars => OrderInv'
<1> SUFFICES ASSUME OrderInv, [StoreNext]_storeVars PROVE OrderInv'
  OBVIOUS
<1>1. TypeInv' /\ Guarded' /\ Decided' /\ InStep'
  BY StepType, StepGuarded, StepDecided, StepInStep DEF OrderInv
<1>2. Begun(log)' <=> Begun(log')
  BY DEF Begun, Settled, NoneIn, IsLast, Activates
<1>3. Begun(log')
  BY StepBegun DEF OrderInv
<1> QED
  BY <1>1, <1>2, <1>3, StepDecidedBy DEF OrderInv

\* reload: activation records and replacements of the policy happen in one
\* order, so that between operations the last successful one is in force.
THEOREM ActivationsAreOrdered == StoreSpec => []ActivationsInOrder
<1>1. StoreInit => OrderInv
  BY InitOrder
<1>2. OrderInv /\ [StoreNext]_storeVars => OrderInv'
  BY StepOrder
<1>3. OrderInv => ActivationsInOrder
  <2> SUFFICES ASSUME OrderInv, storeLock = NoOne PROVE active = InForce(Len(log))
    BY DEF ActivationsInOrder
  <2>1. \A t \in Threads : ~Installing(t)
    BY ThreadsAssumption DEF OrderInv, Guarded, Installing, Exclusive
  <2> QED
    BY <2>1, InForceIsNamed DEF OrderInv, InStep
<1> QED BY <1>1, <1>2, <1>3, PTL DEF StoreSpec

\* authorize: every authorization in the log names the policy, and carries the
\* decision of the policy, of the last successful activation before it.
THEOREM LogTellsThePolicy == StoreSpec => []DecidedByPolicyInForce
<1>1. StoreInit => OrderInv
  BY InitOrder
<1>2. OrderInv /\ [StoreNext]_storeVars => OrderInv'
  BY StepOrder
<1>3. OrderInv => DecidedByPolicyInForce
  BY DEF OrderInv
<1> QED BY <1>1, <1>2, <1>3, PTL DEF StoreSpec

-----------------------------------------------------------------------------
(* The two locks.                                                          *)

\* Once the log is closed, no step of any thread adds to it: _closed is looked at
\* under the lock the record is written under (append, close).
THEOREM CloseCutsTheLog == StoreSpec => ClosedStaysSilent
<1>1. [StoreNext]_storeVars => [closed => log' = log]_storeVars
  <2> SUFFICES ASSUME StoreNext, closed PROVE log' = log
    OBVIOUS
  <2>1. PICK t \in Threads : Start(t) \/ Step(t)
    BY DEF StoreNext
  <2>2. CASE Start(t)
    BY <2>2 DEF Start, StartAuthorize, StartReload, StartOutcome, StartClose, Begin
  <2>3. CASE Step(t)
    BY <2>3 DEF Step, RefuseUnready, Enter, LockLog, AppendClosed, AppendOk, AppendFails,
                Close, Finish
  <2> QED
    BY <2>1, <2>2, <2>3
<1> QED
  BY <1>1, PTL DEF StoreSpec, ClosedStaysSilent

\* Who holds the lock of the store is past asking for it, and who holds the lock of
\* the log is writing.
LocksInv ==
  /\ TypeInv
  /\ \A t \in Threads : storeLock = t => place[t] \in {"append", "write", "finish"}
  /\ \A t \in Threads : logLock = t <=> place[t] = "write"

\* A thread a step of which nobody bars: the lock it asks for is free, or it asks
\* for none.
Free(t) ==
  \/ place[t] = "enter" /\ storeLock = NoOne
  \/ place[t] = "append" /\ logLock = NoOne
  \/ place[t] \in {"write", "finish"}

LEMMA InitLocks == StoreInit => LocksInv
<1> SUFFICES ASSUME StoreInit PROVE LocksInv
  OBVIOUS
<1>1. TypeInv
  BY InitType
<1> QED
  BY <1>1, ThreadsAssumption DEF StoreInit, LocksInv

LEMMA StepLocks == LocksInv /\ [StoreNext]_storeVars => LocksInv'
<1> SUFFICES ASSUME LocksInv, [StoreNext]_storeVars PROVE LocksInv'
  OBVIOUS
<1>1. TypeInv'
  BY StepType DEF LocksInv
<1>2. /\ place \in [Threads -> Locations] /\ NoOne \notin Threads
      /\ \A u \in Threads : storeLock = u => place[u] \in {"append", "write", "finish"}
      /\ \A u \in Threads : logLock = u <=> place[u] = "write"
  BY ThreadsAssumption DEF LocksInv, TypeInv, StoreTypeOK, Locations
<1>3. CASE UNCHANGED storeVars
  BY <1>1, <1>2, <1>3 DEF LocksInv, storeVars
<1>4. ASSUME NEW t \in Threads, Start(t) PROVE LocksInv'
  <2>1. PICK l \in {"enter", "append"} :
          place[t] = "idle" /\ place' = [place EXCEPT ![t] = l] /\ UNCHANGED locks
    BY <1>4 DEF Start, StartAuthorize, StartReload, StartOutcome, StartClose, Begin
  <2>2. place'[t] = l /\ \A u \in Threads : u # t => place'[u] = place[u]
    BY <1>2, <2>1
  <2> QED
    BY <1>1, <1>2, <2>1, <2>2 DEF LocksInv, locks
<1>5. ASSUME NEW t \in Threads, Enter(t) PROVE LocksInv'
  <2>1. /\ place[t] = "enter" /\ storeLock = NoOne /\ storeLock' = t /\ logLock' = logLock
        /\ place'[t] = "append" /\ \A u \in Threads : u # t => place'[u] = place[u]
    BY <1>2, <1>5 DEF Enter
  <2> QED
    BY <1>1, <1>2, <2>1 DEF LocksInv
<1>6. ASSUME NEW t \in Threads, LockLog(t) PROVE LocksInv'
  <2>1. /\ place[t] = "append" /\ logLock = NoOne /\ logLock' = t /\ storeLock' = storeLock
        /\ place'[t] = "write" /\ \A u \in Threads : u # t => place'[u] = place[u]
    BY <1>2, <1>6 DEF LockLog
  <2> QED
    BY <1>1, <1>2, <2>1 DEF LocksInv
<1>7. ASSUME NEW t \in Threads, AppendOk(t) \/ Close(t) PROVE LocksInv'
  <2>1. /\ place[t] = "write" /\ logLock' = NoOne /\ storeLock' = storeLock
        /\ place'[t] = "finish" /\ \A u \in Threads : u # t => place'[u] = place[u]
    BY <1>2, <1>7 DEF AppendOk, Close
  <2> QED
    BY <1>1, <1>2, <2>1 DEF LocksInv
<1>8. ASSUME NEW t \in Threads, AppendClosed(t) \/ AppendFails(t) PROVE LocksInv'
  <2>1. /\ place[t] = "write" /\ logLock' = NoOne /\ storeLock' = Release(storeLock, t)
        /\ place'[t] = "idle" /\ \A u \in Threads : u # t => place'[u] = place[u]
    BY <1>2, <1>8 DEF AppendClosed, AppendFails, Raise
  <2> QED
    BY <1>1, <1>2, <2>1 DEF LocksInv, Release
<1>9. ASSUME NEW t \in Threads, Finish(t) PROVE LocksInv'
  <2>1. /\ place[t] = "finish" /\ logLock' = logLock /\ storeLock' = Release(storeLock, t)
        /\ place'[t] = "idle" /\ \A u \in Threads : u # t => place'[u] = place[u]
    BY <1>2, <1>9 DEF Finish
  <2> QED
    BY <1>1, <1>2, <2>1 DEF LocksInv, Release
<1>10. ASSUME NEW t \in Threads, RefuseUnready(t) PROVE LocksInv'
  <2>1. /\ place[t] = "enter" /\ UNCHANGED locks
        /\ place'[t] = "idle" /\ \A u \in Threads : u # t => place'[u] = place[u]
    BY <1>2, <1>10 DEF RefuseUnready
  <2> QED
    BY <1>1, <1>2, <2>1 DEF LocksInv, locks
<1> QED
  BY <1>3, <1>4, <1>5, <1>6, <1>7, <1>8, <1>9, <1>10 DEF StoreNext, Step

\* The threads inside an operation never all wait for a lock: the log's is held only by
\* a thread that writes, the store's only by one that is past it and at most asks for the
\* log's (authorize, reload, record_outcome and close in whatever mix).
THEOREM SomeoneIsFree ==
  StoreSpec => []((\E t \in Threads : place[t] # "idle") => \E t \in Threads : Free(t))
<1>1. LocksInv => ((\E t \in Threads : place[t] # "idle") => \E t \in Threads : Free(t))
  <2> SUFFICES ASSUME LocksInv, NEW t \in Threads, place[t] # "idle"
               PROVE  \E u \in Threads : Free(u)
    OBVIOUS
  <2>1. /\ place[t] \in {"enter", "append", "write", "finish"}
        /\ storeLock \in Threads \cup {NoOne} /\ logLock \in Threads \cup {NoOne}
    BY DEF LocksInv, TypeInv, StoreTypeOK
  <2>2. CASE logLock # NoOne
    BY <2>1, <2>2 DEF LocksInv, Free
  <2>3. CASE logLock = NoOne /\ storeLock # NoOne
    BY <2>1, <2>3 DEF LocksInv, Free
  <2>4. CASE logLock = NoOne /\ storeLock = NoOne
    BY <2>1, <2>4 DEF Free
  <2> QED
    BY <2>2, <2>3, <2>4
<1> QED
  BY <1>1, InitLocks, StepLocks, PTL DEF StoreSpec
=============================================================================

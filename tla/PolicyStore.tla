---------------------------- MODULE PolicyStore ----------------------------
(***************************************************************************)
(* The audited policy store and the inline adapter in front of it          *)
(* (src/src/hp_guard/audit.py, src/src/hp_guard/adapter.py; the Rust store *)
(* takes &mut self, so its callers hold one lock around each call).  Host  *)
(* threads authorize calls, record outcomes, reload the policy and close   *)
(* the store.  Two locks are taken, always in this order: the lock of the  *)
(* store, then the lock of the audit log.                                  *)
(*                                                                         *)
(* The audit log is what module AuditLog promises of an append: one line,  *)
(* or an error after which the line may be there or not.                   *)
(***************************************************************************)
EXTENDS Integers, Sequences, FiniteSetsExt

CONSTANTS Threads,
          PolicyTexts,   \* the valid policy texts hosts load
          First,      \* the one a store is built with
          Verdict,    \* what each policy decides about the call
          MaxCalls,   \* bound: operations begun
          MaxFaults   \* bound: appends that fail

NoPolicy == "no policy"
ASSUME TextsAssumption ==
  /\ First \in PolicyTexts /\ NoPolicy \notin PolicyTexts
  /\ Verdict \in [PolicyTexts -> {"allow", "deny"}]
ASSUME StoreBoundsAssumption == MaxCalls \in Nat /\ MaxFaults \in Nat

NoOne == "no thread"
ASSUME ThreadsAssumption == NoOne \notin Threads

CallIds == 1..MaxCalls

\* The identity, policy and decision an authorization carries.
Authorizations == [call : CallIds, policy : PolicyTexts, decision : {"allow", "deny"}]
NoAuthorization == [call |-> 0, policy |-> First, decision |-> "deny"]

\* "authorize" is the store's method, "enforce" the adapter's around it.
Deciding == {"authorize", "enforce"}
Kinds == Deciding \cup {"none", "outcome", "activation", "close"}
Idle == [kind |-> "none", auth |-> NoAuthorization]

VARIABLES
  log,        \* the audit records, and which of their appends succeeded
  closed,     \* the audit log's _closed
  active,     \* _active_policy; the Rust store may have none yet
  storeLock, logLock,
  place, op,     \* per thread: where it is, and in which operation
  granted,    \* the Authorization objects the store has returned
  effects,    \* the EffectRequests the adapter has returned
  calls, faults

locks == <<storeLock, logLock>>
returned == <<granted, effects>>
storeVars == <<log, closed, active, storeLock, logLock, place, op, granted, effects, calls, faults>>

Activation(p) == [NoAuthorization EXCEPT !.policy = p]

Record == [event : {"activation"}, auth : {Activation(p) : p \in PolicyTexts}, acked : BOOLEAN]
   \cup [event : {"authorization", "outcome"}, auth : Authorizations, acked : BOOLEAN]

EventOf(kind) == IF kind \in Deciding THEN "authorization" ELSE kind

Entry(t, ok) == [event |-> EventOf(op[t].kind), auth |-> op[t].auth, acked |-> ok]

-----------------------------------------------------------------------------
\* __init__ has appended the first activation; the Rust store's new has not.
StoreInit ==
  /\ \/ /\ log = <<[event |-> "activation", auth |-> Activation(First), acked |-> TRUE]>>
        /\ active = First
     \/ log = <<>> /\ active = NoPolicy
  /\ closed = FALSE
  /\ storeLock = NoOne /\ logLock = NoOne
  /\ place = [t \in Threads |-> "idle"] /\ op = [t \in Threads |-> Idle]
  /\ granted = {} /\ effects = {}
  /\ calls = 0 /\ faults = 0

Begin(t, kind, auth, location) ==
  /\ place[t] = "idle" /\ calls < MaxCalls
  /\ calls' = calls + 1
  /\ place' = [place EXCEPT ![t] = location]
  /\ op' = [op EXCEPT ![t] = [kind |-> kind, auth |-> auth]]
  /\ UNCHANGED <<log, closed, active, locks, returned, faults>>

\* The adapter has checked the deadline, before any lock; a late request
\* returns from there.
StartAuthorize(t) ==
  \E kind \in Deciding :
    Begin(t, kind, [NoAuthorization EXCEPT !.call = calls + 1], "enter")

\* Mutant of StartReload: the activation is appended and the policy replaced
\* without the lock of the store.
StartReloadUnlocked(t) ==
  \E p \in PolicyTexts : Begin(t, "activation", Activation(p), "append")

\* The candidate is parsed and validated before the lock is asked for.
StartReload(t) == \E p \in PolicyTexts : Begin(t, "activation", Activation(p), "enter")

\* Mutants of StartOutcome: the record loses the identity of its call; it names
\* the policy active now.
StartOutcomeBlank(t) == granted # {} /\ Begin(t, "outcome", NoAuthorization, "append")
StartOutcomeRestamped(t) ==
  \E a \in granted : Begin(t, "outcome", [a EXCEPT !.policy = active], "append")

\* record_outcome does not take the lock of the store.
StartOutcome(t) == \E a \in granted : Begin(t, "outcome", a, "append")

\* The store closes under its own lock, the audit log without it.
StartClose(t) ==
  \E location \in {"enter", "append"} : Begin(t, "close", NoAuthorization, location)

\* A call to decide before any policy has been loaded.
Unready(t) == op[t].kind \in Deciding /\ active = NoPolicy

\* NoActivePolicy is returned; nothing is appended.
RefuseUnready(t) ==
  /\ place[t] = "enter" /\ storeLock = NoOne /\ Unready(t)
  /\ place' = [place EXCEPT ![t] = "idle"] /\ op' = [op EXCEPT ![t] = Idle]
  /\ UNCHANGED <<log, closed, active, locks, returned, calls, faults>>

\* Mutant of Enter: the active policy is read while a reload is under way.
EnterUnlocked(t) ==
  /\ place[t] = "enter" /\ ~Unready(t)
  /\ storeLock' = t
  /\ op' = IF op[t].kind \in Deciding
             THEN [op EXCEPT ![t].auth.policy = active,
                             ![t].auth.decision = Verdict[active]]
             ELSE op
  /\ place' = [place EXCEPT ![t] = "append"]
  /\ UNCHANGED <<log, closed, active, logLock, returned, calls, faults>>

\* The store's lock is taken; an authorization is decided by the active policy.
Enter(t) ==
  /\ place[t] = "enter" /\ storeLock = NoOne /\ ~Unready(t)
  /\ storeLock' = t
  /\ op' = IF op[t].kind \in Deciding
             THEN [op EXCEPT ![t].auth.policy = active,
                             ![t].auth.decision = Verdict[active]]
             ELSE op
  /\ place' = [place EXCEPT ![t] = "append"]
  /\ UNCHANGED <<log, closed, active, logLock, returned, calls, faults>>

Release(lock, t) == IF lock = t THEN NoOne ELSE lock

LockLog(t) ==
  /\ place[t] = "append" /\ logLock = NoOne
  /\ logLock' = t
  /\ place' = [place EXCEPT ![t] = "write"]
  /\ UNCHANGED <<log, closed, active, storeLock, op, returned, calls, faults>>

\* Mutant of Raise: the lock of the store is kept.
RaiseHolding(t) ==
  /\ logLock' = NoOne
  /\ place' = [place EXCEPT ![t] = "idle"] /\ op' = [op EXCEPT ![t] = Idle]
  /\ UNCHANGED <<storeLock, closed, active, returned, calls>>

\* The append raises: no decision is returned and no policy replaced.
Raise(t) ==
  /\ storeLock' = Release(storeLock, t) /\ logLock' = NoOne
  /\ place' = [place EXCEPT ![t] = "idle"] /\ op' = [op EXCEPT ![t] = Idle]
  /\ UNCHANGED <<closed, active, returned, calls>>

AppendClosed(t) ==
  /\ place[t] = "write" /\ op[t].kind # "close" /\ closed
  /\ Raise(t) /\ UNCHANGED <<log, faults>>

\* Mutant of AppendOk: _closed was looked at before the lock was taken.
AppendOkClosed(t) ==
  /\ place[t] = "write" /\ op[t].kind # "close"
  /\ log' = Append(log, Entry(t, TRUE))
  /\ logLock' = NoOne
  /\ place' = [place EXCEPT ![t] = "finish"]
  /\ UNCHANGED <<closed, active, storeLock, op, returned, calls, faults>>

AppendOk(t) ==
  /\ place[t] = "write" /\ op[t].kind # "close" /\ ~closed
  /\ log' = Append(log, Entry(t, TRUE))
  /\ logLock' = NoOne
  /\ place' = [place EXCEPT ![t] = "finish"]
  /\ UNCHANGED <<closed, active, storeLock, op, returned, calls, faults>>

\* Mutant of AppendFails: the error is swallowed.
AppendFailsSilently(t) ==
  /\ place[t] = "write" /\ op[t].kind # "close" /\ ~closed
  /\ faults < MaxFaults /\ faults' = faults + 1
  /\ logLock' = NoOne
  /\ place' = [place EXCEPT ![t] = "finish"]
  /\ UNCHANGED <<log, closed, active, storeLock, op, returned, calls>>

\* The line may have reached the file when the append fails.
AppendFails(t) ==
  /\ place[t] = "write" /\ op[t].kind # "close" /\ ~closed
  /\ faults < MaxFaults /\ faults' = faults + 1
  /\ log' \in {log, Append(log, Entry(t, FALSE))}
  /\ Raise(t)

Close(t) ==
  /\ place[t] = "write" /\ op[t].kind = "close"
  /\ closed' = TRUE
  /\ logLock' = NoOne
  /\ place' = [place EXCEPT ![t] = "finish"]
  /\ UNCHANGED <<log, active, storeLock, op, returned, calls, faults>>

\* After the append: the policy is replaced, the lock released, the result
\* returned; the adapter adds the effect of an allowed call.
Finish(t) ==
  LET a == op[t].auth IN
  /\ place[t] = "finish"
  /\ active' = IF op[t].kind = "activation" THEN a.policy ELSE active
  /\ granted' = granted \cup (IF op[t].kind = "authorize" THEN {a} ELSE {})
  /\ effects' = effects \cup (IF op[t].kind = "enforce" /\ a.decision = "allow" THEN {a} ELSE {})
  /\ storeLock' = Release(storeLock, t)
  /\ place' = [place EXCEPT ![t] = "idle"] /\ op' = [op EXCEPT ![t] = Idle]
  /\ UNCHANGED <<log, closed, logLock, calls, faults>>

Start(t) == StartAuthorize(t) \/ StartReload(t) \/ StartOutcome(t) \/ StartClose(t)

Step(t) ==
  \/ RefuseUnready(t) \/ Enter(t) \/ LockLog(t) \/ AppendClosed(t) \/ AppendOk(t)
  \/ AppendFails(t) \/ Close(t) \/ Finish(t)

StoreNext == \E t \in Threads : Start(t) \/ Step(t)

StoreSpec == StoreInit /\ [][StoreNext]_storeVars

-----------------------------------------------------------------------------
(* Properties. *)

StoreTypeOK ==
  /\ log \in Seq(Record) /\ closed \in BOOLEAN /\ active \in PolicyTexts \cup {NoPolicy}
  /\ storeLock \in Threads \cup {NoOne} /\ logLock \in Threads \cup {NoOne}
  /\ place \in [Threads -> {"idle", "enter", "append", "write", "finish"}]
  /\ \A t \in Threads : op[t].kind \in Kinds
  /\ granted \subseteq Authorizations /\ effects \subseteq Authorizations
  /\ calls \in 0..MaxCalls /\ faults \in 0..MaxFaults

\* The policy of the last activation among the first n records whose append
\* succeeded, which the store knows and the file does not say.
InForce(n) ==
  LET activations == {k \in 1..n : log[k].event = "activation" /\ log[k].acked} IN
  IF activations = {} THEN NoPolicy ELSE log[Max(activations)].auth.policy

\* Activation records and replacements of the policy happen in the same order:
\* whenever no operation holds the store, the last successful activation names
\* its policy.
ActivationsInOrder == storeLock = NoOne => active = InForce(Len(log))

\* An authorization names the policy of the last successful activation before it,
\* and carries what that policy decides, whatever reloads came in between.
DecidedByPolicyInForce ==
  \A k \in DOMAIN log : log[k].event = "authorization" =>
    /\ log[k].auth.policy = InForce(k)
    /\ log[k].auth.decision = Verdict[InForce(k)]

\* durable-audit-and-policy-lifecycle.md: a decision leaves the store, and an
\* effect the adapter, only after its authorization is durably in the log.
AuditedBeforeReturn ==
  \A a \in granted \cup effects : \E k \in DOMAIN log :
    log[k].event = "authorization" /\ log[k].auth = a /\ log[k].acked

\* An outcome comes after the authorization it is about and names its policy,
\* whatever was reloaded in between.
OutcomesFollow ==
  \A k \in DOMAIN log : log[k].event = "outcome" =>
    \E j \in 1..(k - 1) : /\ log[j].event = "authorization" /\ log[j].acked
                          /\ log[j].auth = log[k].auth

\* A close cuts the log: no operation that was already under way adds to it.
ClosedStaysSilent == [][closed => log' = log]_storeVars

\* The threads inside an operation never all wait for each other's locks.
NoDeadlock ==
  (\E t \in Threads : place[t] # "idle") => \E t \in Threads : ENABLED Step(t)
=============================================================================

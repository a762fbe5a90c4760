--------------------------- MODULE RateLimitStore ---------------------------
(***************************************************************************)
(* The in-memory fixed-window quota store and the calls that resolve       *)
(* through it (src/src/state.rs, src/src/hp_guard/state.py).  Threads call *)
(* resolve; each reads the clock of its policy store first and takes the   *)
(* lock of the quota store afterwards.  A key stands for a policy digest,  *)
(* a rule and an identity, so it fixes the limit that applies.             *)
(***************************************************************************)
EXTENDS Integers, FiniteSets

CONSTANTS Callers,
          Keys,
          Window,    \* window_seconds of the rule of each key
          Quota,     \* max_calls of the rule of each key
          Anchor,    \* when the policy store each thread calls was built
          MaxKeys,   \* capacity of the quota store
          MaxTime    \* bound: seconds the host clock runs

ASSUME KeysAssumption == "none" \notin Keys
ASSUME LimitsAssumption == /\ Window \in [Keys -> Nat \ {0}]
                           /\ Quota \in [Keys -> Nat \ {0}]
ASSUME ClockAssumption == MaxTime \in Nat /\ Anchor \in [Callers -> 0..MaxTime]
ASSUME CapacityAssumption == MaxKeys \in Nat \ {0}

Time == 0..MaxTime
NeverRead == -1
NoKey == "none"

VARIABLES
  now,      \* the host clock
  lastNow,  \* last_now: the latest time the quota store was given
  buckets,  \* window start and count of each key that has one
  reading,  \* per thread: the key it resolves, and the time it read
  result,   \* per thread: what its last resolve returned
  grants    \* history: calls allowed, by key and window start

quotaVars == <<now, lastNow, buckets, reading, result, grants>>

Bucket == [start : Time, count : Nat]
NoReading == [key |-> NoKey, at |-> 0]
Results == {"none", "allow", "throttle", "regressed", "full"}

\* Mutant of WindowStart: the end of the window is taken for its start.
WindowEnd(k, t) == t - (t % Window[k]) + Window[k]

WindowStart(k, t) == t - (t % Window[k])

\* The count a bucket contributes to the window that starts at w.
CountIn(k, w) ==
  IF k \in DOMAIN buckets /\ buckets[k].start = w THEN buckets[k].count ELSE 0

Put(b, k, w, n) ==
  [q \in DOMAIN b \cup {k} |-> IF q = k THEN [start |-> w, count |-> n] ELSE b[q]]

NoRoom(b, k) == k \notin DOMAIN b /\ Cardinality(DOMAIN b) >= MaxKeys

\* Mutant of Pruned: nothing is stale.
PrunedNothing(b, w) == b

\* retain(start == window_start): the buckets of any other window go.
Pruned(b, w) == [k \in {q \in DOMAIN b : b[q].start = w} |-> b[k]]

-----------------------------------------------------------------------------
QuotaInit ==
  /\ now = 0 /\ lastNow = NeverRead
  /\ buckets = [k \in {} |-> [start |-> 0, count |-> 0]]
  /\ reading = [t \in Callers |-> NoReading]
  /\ result = [t \in Callers |-> "none"]
  /\ grants = [k \in Keys |-> [w \in Time |-> 0]]

ClockTick == now < MaxTime /\ now' = now + 1 /\ UNCHANGED <<lastNow, buckets, reading, result, grants>>

\* The winning rule is an allow rule with a limit: the key is built and the
\* clock read, before the lock is taken.
StartResolve(t, k) ==
  /\ reading[t] = NoReading /\ now >= Anchor[t]
  /\ reading' = [reading EXCEPT ![t] = [key |-> k, at |-> now - Anchor[t]]]
  /\ result' = [result EXCEPT ![t] = "none"]
  /\ UNCHANGED <<now, lastNow, buckets, grants>>

Answer(t, r) ==
  /\ reading' = [reading EXCEPT ![t] = NoReading]
  /\ result' = [result EXCEPT ![t] = r]
  /\ UNCHANGED now

\* Mutant of Regress: a second call within the same second is refused.
RegressSameSecond(t, s) ==
  /\ s <= lastNow
  /\ Answer(t, "regressed") /\ UNCHANGED <<lastNow, buckets, grants>>

\* check_and_consume, in one critical section, for the key k at time s.
Regress(t, s) ==
  /\ s < lastNow
  /\ Answer(t, "regressed") /\ UNCHANGED <<lastNow, buckets, grants>>

\* Mutant of Throttle: the count of the window before is not forgotten.
ThrottleUnreset(t, k, s) ==
  LET w == WindowStart(k, s) IN
  /\ s >= lastNow /\ k \in DOMAIN buckets /\ buckets[k].count >= Quota[k]
  /\ lastNow' = s /\ buckets' = Put(buckets, k, w, buckets[k].count)
  /\ Answer(t, "throttle") /\ UNCHANGED grants

Throttle(t, k, s) ==
  LET w == WindowStart(k, s) IN
  /\ s >= lastNow /\ CountIn(k, w) >= Quota[k]
  /\ lastNow' = s /\ buckets' = Put(buckets, k, w, CountIn(k, w))
  /\ Answer(t, "throttle") /\ UNCHANGED grants

\* Mutant of Allow: the quota is compared before the slot is taken.
AllowOneMore(t, k, s) ==
  LET w == WindowStart(k, s)
      room == IF NoRoom(buckets, k) THEN Pruned(buckets, w) ELSE buckets IN
  /\ s >= lastNow /\ CountIn(k, w) <= Quota[k] /\ ~NoRoom(room, k)
  /\ lastNow' = s /\ buckets' = Put(room, k, w, CountIn(k, w) + 1)
  /\ grants' = [grants EXCEPT ![k][w] = @ + 1]
  /\ Answer(t, "allow")

Allow(t, k, s) ==
  LET w == WindowStart(k, s)
      room == IF NoRoom(buckets, k) THEN Pruned(buckets, w) ELSE buckets IN
  /\ s >= lastNow /\ CountIn(k, w) < Quota[k] /\ ~NoRoom(room, k)
  /\ lastNow' = s /\ buckets' = Put(room, k, w, CountIn(k, w) + 1)
  /\ grants' = [grants EXCEPT ![k][w] = @ + 1]
  /\ Answer(t, "allow")

Full(t, k, s) ==
  LET w == WindowStart(k, s) IN
  /\ s >= lastNow /\ CountIn(k, w) < Quota[k]
  /\ NoRoom(buckets, k) /\ NoRoom(Pruned(buckets, w), k)
  /\ lastNow' = s /\ buckets' = Pruned(buckets, w)
  /\ Answer(t, "full") /\ UNCHANGED grants

Consume(t) ==
  /\ reading[t] # NoReading
  /\ LET k == reading[t].key
         s == reading[t].at
     IN Regress(t, s) \/ Throttle(t, k, s) \/ Allow(t, k, s) \/ Full(t, k, s)

QuotaNext ==
  \/ ClockTick
  \/ \E t \in Callers : Consume(t) \/ \E k \in Keys : StartResolve(t, k)

QuotaSpec == QuotaInit /\ [][QuotaNext]_quotaVars

-----------------------------------------------------------------------------
QuotaTypeOK ==
  /\ now \in Time /\ lastNow \in Time \cup {NeverRead}
  /\ DOMAIN buckets \subseteq Keys
  /\ \A k \in DOMAIN buckets : buckets[k] \in Bucket
  /\ reading \in [Callers -> [key : Keys, at : Time] \cup {NoReading}]
  /\ result \in [Callers -> Results]
  /\ grants \in [Keys -> [Time -> Nat]]

\* v2-fixed-window-rate-limits.md: in a fixed window the first max_calls
\* selected calls are allowed and no more, whatever the callers' interleaving.
QuotaHeld == \A k \in Keys, w \in Time : grants[k][w] <= Quota[k]

\* A caller is throttled only when the window it is in has granted the quota:
\* exactly that where QuotaHeld holds too.
ThrottledOnlyWhenSpent ==
  [][\A t \in Callers : reading[t] # NoReading /\ result'[t] = "throttle"
       => LET k == reading[t].key IN
          grants[k][WindowStart(k, reading[t].at)] >= Quota[k]]_quotaVars

\* The store is full only when as many keys as it may hold have been granted a
\* call in the current window: stale ones never keep a caller out.
FullOnlyWithActiveKeys ==
  [][\A t \in Callers : reading[t] # NoReading /\ result'[t] = "full"
       => LET k == reading[t].key
              w == WindowStart(k, reading[t].at)
          IN  Cardinality({q \in Keys : grants[q][w] > 0}) >= MaxKeys]_quotaVars

\* v2-fixed-window-rate-limits.md, a clock that goes backwards fails closed: a
\* caller is refused for it only when another caller's clock is ahead of what it
\* read, because the other read later and took the lock first or counts from an
\* earlier start.  A caller alone is never refused.
RefusedOnlyBehindOther ==
  [][\A t \in Callers : reading[t] # NoReading /\ result'[t] = "regressed"
       => \E u \in Callers \ {t} : now - Anchor[u] > reading[t].at]_quotaVars
=============================================================================

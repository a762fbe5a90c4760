--------------------------- MODULE RateLimitProofs ---------------------------
(**************************************************************************)
(* Proofs about RateLimitStore, for any number of threads, keys and       *)
(* seconds, any quotas and any capacity.  QuotaIsHeld asks that every rule *)
(* that shares the store has the same window_seconds, or that the store has*)
(* room for a bucket of every key (with neither, QuotaHeld fails:          *)
(* RateLimitWindows.cfg); the others hold for any windows and capacity.    *)
(*                                                                        *)
(* The argument: at the time of the latest call or later, what a bucket   *)
(* counts for the window is exactly what was granted in it (Ledger), and  *)
(* so a bucket that is reset or evicted belongs to a window that is over. *)
(* Whatever the windows, a bucket stands for a grant of its own window    *)
(* (Earned), so that a full store is full of keys in use.                 *)
(**************************************************************************)
EXTENDS RateLimitStore, FiniteSetTheorems, TLAPS

SameWindows == \A k, q \in Keys : Window[k] = Window[q]
Roomy == IsFiniteSet(Keys) /\ Cardinality(Keys) <= MaxKeys

\* No bucket whose window may still count is ever evicted: an eviction that
\* looks at one key's window sees them all, or there never is one.
NothingForgotten == SameWindows \/ Roomy

\* A bucket was opened at a time the store has been given.
BucketsPast ==
  \A k \in DOMAIN buckets :
    \E t \in Time : t <= lastNow /\ buckets[k].start = WindowStart(k, t)

\* From the latest call on, the buckets know all that was granted.
Ledger ==
  \A k \in Keys, s \in Time :
    s >= lastNow => grants[k][WindowStart(k, s)] = CountIn(k, WindowStart(k, s))

\* A caller that waits for its answer has none.
Pending == \A t \in Callers : reading[t] # NoReading => result[t] = "none"

QuotaInv == QuotaTypeOK /\ BucketsPast /\ Ledger /\ Pending /\ QuotaHeld

-----------------------------------------------------------------------------
(* Arithmetic of windows. *)

LEMMA Division ==
  ASSUME NEW L \in Nat \ {0}, NEW a \in Nat
  PROVE  /\ a % L \in 0..(L - 1) /\ a % L <= a
         /\ a = L * (a \div L) + (a % L) /\ (a \div L) \in Nat
  BY Z3

\* A later second is not in an earlier window.
LEMMA StartsAscend ==
  ASSUME NEW L \in Nat \ {0}, NEW a \in Nat, NEW b \in Nat, a <= b
  PROVE  a - (a % L) <= b - (b % L)
<1> DEFINE p == a \div L
           q == b \div L
<1>1. a % L \in 0..(L - 1) /\ a = L * p + (a % L) /\ p \in Nat
  BY Division
<1>2. b % L \in 0..(L - 1) /\ b = L * q + (b % L) /\ q \in Nat
  BY Division
<1> HIDE DEF p, q
<1>3. CASE p <= q
  <2>1. L * p <= L * q
    BY <1>1, <1>2, <1>3, SMTT(20)
  <2> QED
    BY <2>1, <1>1, <1>2
<1>4. CASE q < p
  <2>1. L * (q + 1) <= L * p
    BY <1>1, <1>2, <1>4, SMTT(20)
  <2>2. L * (q + 1) = L * q + L
    BY <1>2, SMTT(20)
  <2> QED
    BY <2>1, <2>2, <1>1, <1>2
<1> QED
  BY <1>1, <1>2, <1>3, <1>4

LEMMA StartInTime ==
  ASSUME NEW k \in Keys, NEW s \in Time
  PROVE  WindowStart(k, s) \in Time /\ WindowStart(k, s) <= s
<1>1. Window[k] \in Nat \ {0} /\ s \in Nat /\ MaxTime \in Nat
  BY LimitsAssumption, ClockAssumption DEF Time
<1>2. s % Window[k] \in 0..(Window[k] - 1) /\ s % Window[k] <= s
  BY <1>1, Division
<1> QED
  BY <1>1, <1>2 DEF WindowStart, Time

LEMMA WindowsAscend ==
  ASSUME NEW k \in Keys, NEW r \in Time, NEW s \in Time, r <= s
  PROVE  WindowStart(k, r) <= WindowStart(k, s)
<1>1. Window[k] \in Nat \ {0} /\ r \in Nat /\ s \in Nat
  BY LimitsAssumption, ClockAssumption DEF Time
<1> QED
  BY <1>1, StartsAscend DEF WindowStart

\* A bucket found in the window of a later second is in the window of every
\* second since the latest call.
LEMMA BucketIsCurrent ==
  ASSUME QuotaTypeOK, BucketsPast, NEW k \in DOMAIN buckets,
         NEW s \in Time, NEW r \in Time, lastNow <= s, s <= r,
         buckets[k].start = WindowStart(k, r)
  PROVE  WindowStart(k, r) = WindowStart(k, s)
<1>1. k \in Keys /\ lastNow \in Time \cup {NeverRead}
  BY DEF QuotaTypeOK
<1>2. PICK t \in Time : t <= lastNow /\ buckets[k].start = WindowStart(k, t)
  BY DEF BucketsPast
<1>3. t <= s
  BY <1>1, <1>2, ClockAssumption DEF Time, NeverRead
<1>4. WindowStart(k, t) <= WindowStart(k, s) /\ WindowStart(k, s) <= WindowStart(k, r)
  BY <1>1, <1>3, WindowsAscend
<1>5. WindowStart(k, t) \in Int /\ WindowStart(k, s) \in Int /\ WindowStart(k, r) \in Int
  BY <1>1, StartInTime, ClockAssumption DEF Time
<1> QED
  BY <1>2, <1>4, <1>5


\* A bucket of another window than the one of second s counts for no window
\* that s or a later second is in.
LEMMA OutOfWindow ==
  ASSUME SameWindows, QuotaTypeOK, BucketsPast,
         NEW k \in Keys, NEW q \in DOMAIN buckets, NEW s \in Time, NEW r \in Time,
         lastNow <= s, s <= r, buckets[q].start # WindowStart(k, s)
  PROVE  CountIn(q, WindowStart(q, r)) = 0
<1>1. q \in Keys /\ WindowStart(q, s) = WindowStart(k, s)
  BY DEF QuotaTypeOK, SameWindows, WindowStart
<1>2. buckets[q].start # WindowStart(q, r)
  BY <1>1, BucketIsCurrent
<1> QED
  BY <1>2 DEF CountIn

\* A store that holds every key never lacks room for one.
LEMMA NothingEvicted ==
  ASSUME Roomy, QuotaTypeOK, NEW k \in Keys
  PROVE  ~NoRoom(buckets, k)
<1> SUFFICES ASSUME k \notin DOMAIN buckets, Cardinality(DOMAIN buckets) >= MaxKeys
             PROVE  FALSE
  BY DEF NoRoom
<1> DEFINE D == DOMAIN buckets
<1>1. D \in SUBSET Keys /\ IsFiniteSet(Keys) /\ Cardinality(Keys) <= MaxKeys /\ D # Keys
  BY DEF QuotaTypeOK, Roomy
<1>2. IsFiniteSet(D) /\ Cardinality(D) <= Cardinality(Keys) /\ Cardinality(D) # Cardinality(Keys)
  BY <1>1, FS_Subset
<1>3. Cardinality(D) \in Nat /\ Cardinality(Keys) \in Nat
  BY <1>1, <1>2, FS_CardinalityType
<1> QED
  BY <1>1, <1>2, <1>3, CapacityAssumption

\* Taking a bucket for the window of s, after the buckets of other windows may
\* have been evicted, leaves every other count of that window or later alone.
LEMMA PutKeepsCounts ==
  ASSUME QuotaTypeOK, BucketsPast,
         NEW k \in Keys, NEW s \in Time, lastNow <= s, NEW n \in Nat,
         NEW room, room \in {buckets, Pruned(buckets, WindowStart(k, s))},
         room = buckets \/ SameWindows,
         buckets' = Put(room, k, WindowStart(k, s), n)
  PROVE  /\ DOMAIN buckets' = DOMAIN room \cup {k}
         /\ \A q \in DOMAIN buckets' : buckets'[q] \in Bucket
         /\ \A q \in DOMAIN buckets' : \E t \in Time :
              t <= s /\ buckets'[q].start = WindowStart(q, t)
         /\ CountIn(k, WindowStart(k, s))' = n
         /\ \A q \in Keys, r \in Time :
              s <= r /\ (q # k \/ WindowStart(q, r) # WindowStart(k, s))
                => CountIn(q, WindowStart(q, r))' = CountIn(q, WindowStart(q, r))
<1> DEFINE w == WindowStart(k, s)
<1>1. /\ DOMAIN room \subseteq DOMAIN buckets
      /\ \A q \in DOMAIN room : room[q] = buckets[q]
      /\ \A q \in DOMAIN buckets \ DOMAIN room : buckets[q].start # w
  BY DEF Pruned
<1>2. /\ DOMAIN buckets' = DOMAIN room \cup {k}
      /\ buckets'[k] = [start |-> w, count |-> n]
      /\ \A q \in DOMAIN room : q # k => buckets'[q] = buckets[q]
  BY <1>1 DEF Put
<1>3. w \in Time
  BY StartInTime
<1>4. \A q \in DOMAIN buckets' : buckets'[q] \in Bucket
  BY <1>1, <1>2, <1>3 DEF QuotaTypeOK, Bucket
<1>5. ASSUME NEW q \in DOMAIN buckets'
      PROVE  \E t \in Time : t <= s /\ buckets'[q].start = WindowStart(q, t)
  <2>1. CASE q = k
    BY <2>1, <1>2, ClockAssumption DEF Time
  <2>2. CASE q # k
    <3>1. q \in DOMAIN buckets /\ buckets'[q] = buckets[q]
      BY <2>2, <1>1, <1>2
    <3>2. PICK t \in Time : t <= lastNow /\ buckets[q].start = WindowStart(q, t)
      BY <3>1 DEF BucketsPast
    <3>3. t <= s
      BY <3>2, ClockAssumption DEF QuotaTypeOK, Time, NeverRead
    <3> QED
      BY <3>1, <3>2, <3>3
  <2> QED
    BY <2>1, <2>2
<1>6. CountIn(k, w)' = n
  BY <1>2 DEF CountIn
<1>7. ASSUME NEW q \in Keys, NEW r \in Time, s <= r, q # k \/ WindowStart(q, r) # w
      PROVE  CountIn(q, WindowStart(q, r))' = CountIn(q, WindowStart(q, r))
  <2> DEFINE v == WindowStart(q, r)
  <2>1. CASE q = k
    <3>1. CountIn(k, v)' = 0
      BY <2>1, <1>2, <1>7 DEF CountIn
    <3>2. CountIn(k, v) = 0
      BY <2>1, <1>7, BucketIsCurrent DEF CountIn
    <3> QED
      BY <2>1, <3>1, <3>2
  <2>2. CASE q # k /\ q \in DOMAIN room
    BY <2>2, <1>1, <1>2 DEF CountIn
  <2>3. CASE q # k /\ q \notin DOMAIN room
    <3>1. CountIn(q, v)' = 0
      BY <2>3, <1>2 DEF CountIn
    <3>2. CountIn(q, v) = 0
      BY <2>3, <1>1, <1>7, OutOfWindow DEF CountIn
    <3> QED
      BY <3>1, <3>2
  <2> QED
    BY <2>1, <2>2, <2>3
<1> QED
  BY <1>2, <1>4, <1>5, <1>6, <1>7

-----------------------------------------------------------------------------
(* The invariant. *)

LEMMA CountIsNat ==
  ASSUME QuotaTypeOK, NEW k, NEW w
  PROVE  CountIn(k, w) \in Nat
  BY DEF QuotaTypeOK, Bucket, CountIn

LEMMA Room ==
  ASSUME NEW k, NEW w
  PROVE  (IF NoRoom(buckets, k) THEN Pruned(buckets, w) ELSE buckets)
            \in {buckets, Pruned(buckets, w)}
  OBVIOUS

LEMMA QuotaInvInit == QuotaInit => QuotaInv
<1> SUFFICES ASSUME QuotaInit PROVE QuotaInv
  OBVIOUS
<1>1. QuotaTypeOK
  BY ClockAssumption DEF QuotaInit, QuotaTypeOK, Time, NeverRead, NoReading, Results
<1>2. BucketsPast /\ Ledger /\ Pending
  BY StartInTime DEF QuotaInit, BucketsPast, Ledger, Pending, CountIn
<1>3. QuotaHeld
  BY LimitsAssumption DEF QuotaInit, QuotaHeld
<1> QED
  BY <1>1, <1>2, <1>3 DEF QuotaInv

\* Steps that take no quota leave buckets and grants alone.
LEMMA OtherSteps ==
  ASSUME QuotaInv,
         \/ ClockTick
         \/ \E t \in Callers, k \in Keys : StartResolve(t, k)
         \/ \E t \in Callers : reading[t] # NoReading /\ Regress(t, reading[t].at)
         \/ UNCHANGED quotaVars
  PROVE  QuotaInv'
<1>1. UNCHANGED <<lastNow, buckets, grants>>
  BY DEF ClockTick, StartResolve, Regress, quotaVars
<1>2. QuotaTypeOK'
  <2>1. CASE ClockTick
    BY <2>1, ClockAssumption DEF QuotaInv, QuotaTypeOK, ClockTick, Time
  <2>2. CASE \E t \in Callers, k \in Keys : StartResolve(t, k)
    <3>1. PICK t \in Callers, k \in Keys : StartResolve(t, k)
      BY <2>2
    <3>2. now - Anchor[t] \in Time
      <4>1. now \in Time /\ Anchor[t] \in Time /\ now >= Anchor[t] /\ MaxTime \in Nat
        BY <3>1, ClockAssumption DEF StartResolve, QuotaInv, QuotaTypeOK, Time
      <4> QED
        BY <4>1 DEF Time
    <3>3. reading' \in [Callers -> [key : Keys, at : Time] \cup {NoReading}]
      BY <3>1, <3>2 DEF StartResolve, QuotaInv, QuotaTypeOK
    <3>4. result' \in [Callers -> Results]
      BY <3>1 DEF StartResolve, QuotaInv, QuotaTypeOK, Results
    <3> QED
      BY <3>1, <3>3, <3>4, <1>1 DEF StartResolve, QuotaInv, QuotaTypeOK
  <2>3. CASE \E t \in Callers : reading[t] # NoReading /\ Regress(t, reading[t].at)
    BY <2>3, <1>1 DEF Regress, Answer, QuotaInv, QuotaTypeOK, Results
  <2>4. CASE UNCHANGED quotaVars
    BY <2>4 DEF quotaVars, QuotaInv, QuotaTypeOK
  <2> QED
    BY <2>1, <2>2, <2>3, <2>4
<1>3. Pending'
  BY DEF ClockTick, StartResolve, Regress, Answer, quotaVars, QuotaInv, QuotaTypeOK, Pending
<1>4. BucketsPast' /\ Ledger' /\ QuotaHeld'
  BY <1>1 DEF QuotaInv, BucketsPast, Ledger, QuotaHeld, CountIn
<1> QED
  BY <1>2, <1>3, <1>4 DEF QuotaInv

LEMMA ThrottleKeeps ==
  ASSUME QuotaInv, NEW t \in Callers, NEW k \in Keys, NEW s \in Time,
         Throttle(t, k, s)
  PROVE  QuotaInv'
<1> DEFINE w == WindowStart(k, s)
<1>1. lastNow <= s /\ lastNow' = s
  BY ClockAssumption DEF QuotaInv, QuotaTypeOK, Throttle, Time, NeverRead
<1>2. /\ w \in Time /\ CountIn(k, w) \in Nat
      /\ grants[k][w] = CountIn(k, w)
  BY <1>1, StartInTime, CountIsNat DEF QuotaInv, Ledger
<1>3. buckets' = Put(buckets, k, w, CountIn(k, w)) /\ UNCHANGED <<grants, now>>
  BY DEF Throttle, Answer
<1>4. /\ DOMAIN buckets' = DOMAIN buckets \cup {k}
      /\ \A q \in DOMAIN buckets' : buckets'[q] \in Bucket
      /\ \A q \in DOMAIN buckets' : \E z \in Time :
           z <= s /\ buckets'[q].start = WindowStart(q, z)
      /\ CountIn(k, w)' = CountIn(k, w)
      /\ \A q \in Keys, r \in Time : s <= r /\ (q # k \/ WindowStart(q, r) # w)
           => CountIn(q, WindowStart(q, r))' = CountIn(q, WindowStart(q, r))
  BY <1>1, <1>2, <1>3, PutKeepsCounts DEF QuotaInv
<1>5. reading' \in [Callers -> [key : Keys, at : Time] \cup {NoReading}] /\ result' \in [Callers -> Results]
  BY DEF Throttle, Answer, QuotaInv, QuotaTypeOK, Results
<1>6. QuotaTypeOK'
  BY <1>1, <1>3, <1>4, <1>5 DEF QuotaInv, QuotaTypeOK
<1>7. BucketsPast' /\ Pending'
  BY <1>1, <1>4 DEF QuotaInv, BucketsPast, Pending, QuotaTypeOK, Throttle, Answer
<1>8. Ledger'
  <2> SUFFICES ASSUME NEW q \in Keys, NEW r \in Time, s <= r
               PROVE  grants[q][WindowStart(q, r)] = CountIn(q, WindowStart(q, r))'
    BY <1>1, <1>3 DEF Ledger
  <2>1. lastNow <= r
    BY <1>1, ClockAssumption DEF QuotaInv, QuotaTypeOK, Time, NeverRead
  <2>2. grants[q][WindowStart(q, r)] = CountIn(q, WindowStart(q, r))
    BY <2>1 DEF QuotaInv, Ledger
  <2> QED
    BY <2>2, <1>2, <1>4
<1>9. QuotaHeld'
  BY <1>3 DEF QuotaInv, QuotaHeld
<1> QED
  BY <1>6, <1>7, <1>8, <1>9 DEF QuotaInv

LEMMA AllowKeeps ==
  ASSUME NothingForgotten, QuotaInv, NEW t \in Callers, NEW k \in Keys, NEW s \in Time,
         Allow(t, k, s)
  PROVE  QuotaInv'
<1> DEFINE w == WindowStart(k, s)
           room == IF NoRoom(buckets, k) THEN Pruned(buckets, w) ELSE buckets
<1>1. lastNow <= s /\ lastNow' = s /\ CountIn(k, w) < Quota[k] /\ UNCHANGED now
  BY ClockAssumption DEF QuotaInv, QuotaTypeOK, Allow, Answer, Time, NeverRead
<1>2. /\ w \in Time /\ CountIn(k, w) \in Nat /\ Quota[k] \in Nat
      /\ grants[k][w] = CountIn(k, w)
  BY <1>1, StartInTime, CountIsNat, LimitsAssumption DEF QuotaInv, Ledger
<1>3. /\ buckets' = Put(room, k, w, CountIn(k, w) + 1)
      /\ grants' = [grants EXCEPT ![k][w] = @ + 1]
  BY DEF Allow
<1>4. /\ DOMAIN buckets' = DOMAIN room \cup {k}
      /\ \A q \in DOMAIN buckets' : buckets'[q] \in Bucket
      /\ \A q \in DOMAIN buckets' : \E z \in Time :
           z <= s /\ buckets'[q].start = WindowStart(q, z)
      /\ CountIn(k, w)' = CountIn(k, w) + 1
      /\ \A q \in Keys, r \in Time : s <= r /\ (q # k \/ WindowStart(q, r) # w)
           => CountIn(q, WindowStart(q, r))' = CountIn(q, WindowStart(q, r))
  <2>1. room \in {buckets, Pruned(buckets, w)} /\ CountIn(k, w) + 1 \in Nat
    BY <1>2, Room
  <2>2. QuotaTypeOK /\ BucketsPast
    BY DEF QuotaInv
  <2>3. room = buckets \/ SameWindows
    BY <2>2, NothingEvicted DEF NothingForgotten
  <2> HIDE DEF room
  <2> QED
    BY ONLY <2>1, <2>2, <2>3, <1>1, <1>3, PutKeepsCounts
<1>5. /\ grants' \in [Keys -> [Time -> Nat]]
      /\ grants'[k][w] = grants[k][w] + 1
      /\ \A q \in Keys, v \in Time : q # k \/ v # w => grants'[q][v] = grants[q][v]
  <2>1. grants \in [Keys -> [Time -> Nat]]
    BY DEF QuotaInv, QuotaTypeOK
  <2> QED
    BY <2>1, <1>2, <1>3
<1>6. DOMAIN room \subseteq Keys
  BY DEF QuotaInv, QuotaTypeOK, Pruned
<1>7. reading' \in [Callers -> [key : Keys, at : Time] \cup {NoReading}] /\ result' \in [Callers -> Results]
  BY DEF Allow, Answer, QuotaInv, QuotaTypeOK, Results
<1>8. QuotaTypeOK'
  BY <1>1, <1>4, <1>5, <1>6, <1>7 DEF QuotaInv, QuotaTypeOK
<1>9. BucketsPast' /\ Pending'
  <2>1. BucketsPast'
    BY <1>1, <1>4 DEF BucketsPast
  <2>2. Pending'
    BY DEF QuotaInv, Pending, QuotaTypeOK, Allow, Answer
  <2> QED
    BY <2>1, <2>2
<1>10. Ledger'
  <2> SUFFICES ASSUME NEW q \in Keys, NEW r \in Time, s <= r
               PROVE  grants'[q][WindowStart(q, r)] = CountIn(q, WindowStart(q, r))'
    BY <1>1 DEF Ledger
  <2>1. lastNow <= r
    BY <1>1, ClockAssumption DEF QuotaInv, QuotaTypeOK, Time, NeverRead
  <2>2. grants[q][WindowStart(q, r)] = CountIn(q, WindowStart(q, r)) /\ WindowStart(q, r) \in Time
    BY <2>1, StartInTime DEF QuotaInv, Ledger
  <2>3. CASE q = k /\ WindowStart(q, r) = w
    BY <2>3, <1>2, <1>4, <1>5
  <2>4. CASE q # k \/ WindowStart(q, r) # w
    BY <2>2, <2>4, <1>4, <1>5
  <2> QED
    BY <2>3, <2>4
<1>11. QuotaHeld'
  <2> SUFFICES ASSUME NEW q \in Keys, NEW v \in Time PROVE grants'[q][v] <= Quota[q]
    BY DEF QuotaHeld
  <2>1. CASE q = k /\ v = w
    BY <2>1, <1>1, <1>2, <1>5
  <2>2. CASE q # k \/ v # w
    BY <2>2, <1>5 DEF QuotaInv, QuotaHeld
  <2> QED
    BY <2>1, <2>2
<1> QED
  BY <1>8, <1>9, <1>10, <1>11 DEF QuotaInv

LEMMA FullKeeps ==
  ASSUME NothingForgotten, QuotaInv, NEW t \in Callers, NEW k \in Keys, NEW s \in Time,
         Full(t, k, s)
  PROVE  QuotaInv'
<1> DEFINE w == WindowStart(k, s)
<1>0. SameWindows
  BY NothingEvicted DEF NothingForgotten, QuotaInv, Full
<1>1. /\ lastNow <= s /\ lastNow' = s /\ UNCHANGED <<now, grants>>
      /\ buckets' = Pruned(buckets, w)
  BY ClockAssumption DEF QuotaInv, QuotaTypeOK, Full, Answer, Time, NeverRead
<1>2. /\ DOMAIN buckets' \subseteq DOMAIN buckets
      /\ \A q \in DOMAIN buckets' : buckets'[q] = buckets[q]
      /\ \A q \in DOMAIN buckets \ DOMAIN buckets' : buckets[q].start # w
  BY <1>1 DEF Pruned
<1>3. QuotaTypeOK' /\ Pending'
  BY <1>1, <1>2 DEF Full, Answer, QuotaInv, QuotaTypeOK, Pending, Results
<1>4. BucketsPast'
  <2> SUFFICES ASSUME NEW q \in DOMAIN buckets'
               PROVE  \E z \in Time : z <= s /\ buckets'[q].start = WindowStart(q, z)
    BY <1>1 DEF BucketsPast
  <2>1. PICK z \in Time : z <= lastNow /\ buckets[q].start = WindowStart(q, z)
    BY <1>2 DEF QuotaInv, BucketsPast
  <2>2. z <= s
    BY <2>1, <1>1, ClockAssumption DEF QuotaInv, QuotaTypeOK, Time, NeverRead
  <2> QED
    BY <2>1, <2>2, <1>2
<1>5. Ledger'
  <2> SUFFICES ASSUME NEW q \in Keys, NEW r \in Time, s <= r
               PROVE  grants[q][WindowStart(q, r)] = CountIn(q, WindowStart(q, r))'
    BY <1>1 DEF Ledger
  <2>1. lastNow <= r
    BY <1>1, ClockAssumption DEF QuotaInv, QuotaTypeOK, Time, NeverRead
  <2>2. grants[q][WindowStart(q, r)] = CountIn(q, WindowStart(q, r))
    BY <2>1 DEF QuotaInv, Ledger
  <2>3. CASE q \in DOMAIN buckets' \/ q \notin DOMAIN buckets
    BY <2>2, <2>3, <1>2 DEF CountIn
  <2>4. CASE q \in DOMAIN buckets \ DOMAIN buckets'
    <3>1. CountIn(q, WindowStart(q, r)) = 0
      BY <2>4, <1>0, <1>1, <1>2, OutOfWindow DEF QuotaInv
    <3>2. CountIn(q, WindowStart(q, r))' = 0
      BY <2>4 DEF CountIn
    <3> QED
      BY <2>2, <3>1, <3>2
  <2> QED
    BY <2>3, <2>4
<1>6. QuotaHeld'
  BY <1>1 DEF QuotaInv, QuotaHeld
<1> QED
  BY <1>3, <1>4, <1>5, <1>6 DEF QuotaInv

LEMMA QuotaInvNext ==
  ASSUME NothingForgotten, QuotaInv, [QuotaNext]_quotaVars
  PROVE  QuotaInv'
<1>1. CASE \E t \in Callers : Consume(t)
  <2>1. PICK t \in Callers : Consume(t)
    BY <1>1
  <2> DEFINE k == reading[t].key
             s == reading[t].at
  <2>2. reading[t] # NoReading /\ k \in Keys /\ s \in Time
    BY <2>1 DEF Consume, QuotaInv, QuotaTypeOK
  <2>3. Regress(t, s) \/ Throttle(t, k, s) \/ Allow(t, k, s) \/ Full(t, k, s)
    BY <2>1 DEF Consume
  <2>4. CASE Regress(t, s)
    BY <2>2, <2>4, OtherSteps
  <2> HIDE DEF k, s
  <2>5. CASE Throttle(t, k, s)
    BY <2>2, <2>5, ThrottleKeeps
  <2>6. CASE Allow(t, k, s)
    BY <2>2, <2>6, AllowKeeps
  <2>7. CASE Full(t, k, s)
    BY <2>2, <2>7, FullKeeps
  <2> QED
    BY <2>3, <2>4, <2>5, <2>6, <2>7
<1>2. CASE ClockTick \/ (\E t \in Callers, k \in Keys : StartResolve(t, k)) \/ UNCHANGED quotaVars
  BY <1>2, OtherSteps
<1> QED
  BY <1>1, <1>2 DEF QuotaNext

-----------------------------------------------------------------------------
(* The quota. *)

\* When all rules share one window length, or the store has room for every key,
\* no window of any key is ever granted more calls than its quota, whatever the
\* interleaving of the callers and whatever the capacity evicts.
THEOREM QuotaIsHeld ==
  ASSUME NothingForgotten
  PROVE  QuotaSpec => []QuotaHeld
<1>1. QuotaInit => QuotaInv
  BY QuotaInvInit
<1>2. QuotaInv /\ [QuotaNext]_quotaVars => QuotaInv'
  BY QuotaInvNext
<1>3. QuotaInv => QuotaHeld
  BY DEF QuotaInv
<1> QED
  BY <1>1, <1>2, <1>3, PTL DEF QuotaSpec

-----------------------------------------------------------------------------
(* Types and the clock: for any windows, also of different lengths. *)

\* What a caller read is not ahead of its clock.
ReadInPast == \A t \in Callers : reading[t] # NoReading => reading[t].at <= now - Anchor[t]

\* The latest time the store was given is that of a caller whose next time
\* will not be earlier.
LatestHasOwner ==
  lastNow # NeverRead =>
    \E u \in Callers : lastNow <= now - Anchor[u] /\ (reading[u] = NoReading \/ lastNow <= reading[u].at)

ClockInv == QuotaTypeOK /\ Pending /\ ReadInPast /\ LatestHasOwner

LEMMA Numbers ==
  /\ MaxTime \in Nat /\ NeverRead \in Int /\ NeverRead < 0
  /\ \A x \in Time : x \in Nat
  /\ \A t \in Callers : Anchor[t] \in Nat
BY ClockAssumption DEF Time, NeverRead

LEMMA PutTyped ==
  ASSUME QuotaTypeOK, NEW k \in Keys, NEW w \in Time, NEW n \in Nat,
         NEW room, room \in {buckets, Pruned(buckets, w)},
         buckets' = Put(room, k, w, n)
  PROVE  DOMAIN buckets' \subseteq Keys /\ \A q \in DOMAIN buckets' : buckets'[q] \in Bucket
<1>1. DOMAIN room \subseteq DOMAIN buckets /\ \A q \in DOMAIN room : room[q] = buckets[q]
  BY DEF Pruned
<1>2. DOMAIN buckets' = DOMAIN room \cup {k}
  BY DEF Put
<1>3. ASSUME NEW q \in DOMAIN buckets' PROVE buckets'[q] \in Bucket
  <2>1. CASE q = k
    BY <2>1 DEF Put, Bucket
  <2>2. CASE q # k
    BY <2>2, <1>1, <1>2 DEF Put, QuotaTypeOK
  <2> QED
    BY <2>1, <2>2
<1> QED
  BY <1>1, <1>2, <1>3 DEF QuotaTypeOK

\* An answer makes its caller idle and leaves the other callers alone.
LEMMA Answered ==
  ASSUME ClockInv, NEW t \in Callers, NEW r \in Results, Answer(t, r)
  PROVE  /\ reading' \in [Callers -> [key : Keys, at : Time] \cup {NoReading}]
         /\ result' \in [Callers -> Results] /\ now' \in Time
         /\ Pending' /\ ReadInPast'
         /\ reading'[t] = NoReading /\ now' = now
         /\ \A u \in Callers : u # t => reading'[u] = reading[u]
BY DEF Answer, ClockInv, QuotaTypeOK, Pending, ReadInPast

\* The caller whose time is the latest becomes its owner.
LEMMA TakerOwns ==
  ASSUME ClockInv, NEW t \in Callers, reading[t] # NoReading,
         lastNow' = reading[t].at, now' = now, reading'[t] = NoReading
  PROVE  LatestHasOwner'
<1>1. reading[t].at <= now - Anchor[t]
  BY DEF ClockInv, ReadInPast
<1> QED
  BY <1>1 DEF LatestHasOwner

LEMMA ClockInvInit == QuotaInit => ClockInv
<1> SUFFICES ASSUME QuotaInit PROVE ClockInv
  OBVIOUS
<1>1. QuotaTypeOK
  BY ClockAssumption DEF QuotaInit, QuotaTypeOK, Time, NeverRead, NoReading, Results
<1> QED
  BY <1>1 DEF QuotaInit, ClockInv, Pending, ReadInPast, LatestHasOwner

LEMMA ResolveKeepsClock ==
  ASSUME ClockInv, NEW t \in Callers, NEW k \in Keys, StartResolve(t, k)
  PROVE  ClockInv'
<1>1. now \in Nat /\ Anchor[t] \in Nat /\ now >= Anchor[t] /\ now <= MaxTime /\ MaxTime \in Nat
  BY Numbers DEF ClockInv, QuotaTypeOK, StartResolve, Time
<1>2. now - Anchor[t] \in Time
  BY <1>1 DEF Time
<1>3. /\ reading' \in [Callers -> [key : Keys, at : Time] \cup {NoReading}]
      /\ reading'[t] = [key |-> k, at |-> now - Anchor[t]]
      /\ \A u \in Callers : u # t => reading'[u] = reading[u]
      /\ result' \in [Callers -> Results] /\ result'[t] = "none"
      /\ \A u \in Callers : u # t => result'[u] = result[u]
      /\ UNCHANGED <<now, lastNow, buckets, grants>>
  BY <1>2 DEF StartResolve, ClockInv, QuotaTypeOK, Results
<1>4. QuotaTypeOK'
  BY <1>3 DEF ClockInv, QuotaTypeOK
<1>5. Pending'
  BY <1>3 DEF ClockInv, Pending
<1>6. ReadInPast'
  BY <1>1, <1>3 DEF ClockInv, ReadInPast
<1>7. LatestHasOwner'
  <2> SUFFICES ASSUME lastNow # NeverRead
               PROVE  \E u \in Callers : lastNow <= now - Anchor[u]
                        /\ (reading'[u] = NoReading \/ lastNow <= reading'[u].at)
    BY <1>3 DEF LatestHasOwner
  <2>1. PICK u \in Callers : lastNow <= now - Anchor[u] /\ (reading[u] = NoReading \/ lastNow <= reading[u].at)
    BY DEF ClockInv, LatestHasOwner
  <2>2. CASE u = t
    BY <2>1, <2>2, <1>3
  <2>3. CASE u # t
    BY <2>1, <2>3, <1>3
  <2> QED
    BY <2>2, <2>3
<1> QED
  BY <1>4, <1>5, <1>6, <1>7 DEF ClockInv

LEMMA TickKeepsClock ==
  ASSUME ClockInv, ClockTick
  PROVE  ClockInv'
<1>1. now \in Nat /\ now' = now + 1 /\ now < MaxTime /\ MaxTime \in Nat
  BY Numbers DEF ClockInv, QuotaTypeOK, ClockTick, Time
<1>2. now' \in Time
  BY <1>1 DEF Time
<1>3. UNCHANGED <<lastNow, buckets, reading, result, grants>>
  BY DEF ClockTick
<1>4. QuotaTypeOK' /\ Pending'
  BY <1>2, <1>3 DEF ClockInv, QuotaTypeOK, Pending
<1>5. \A u \in Callers : \A x \in Int : x <= now - Anchor[u] => x <= now' - Anchor[u]
  BY <1>1, Numbers
<1>6. lastNow \in Int /\ \A u \in Callers : reading[u] # NoReading => reading[u].at \in Int
  BY Numbers DEF ClockInv, QuotaTypeOK
<1>7. ReadInPast'
  BY <1>3, <1>5, <1>6 DEF ClockInv, ReadInPast
<1>8. LatestHasOwner'
  BY <1>3, <1>5, <1>6 DEF ClockInv, LatestHasOwner
<1> QED
  BY <1>4, <1>7, <1>8 DEF ClockInv

LEMMA ConsumeKeepsClock ==
  ASSUME ClockInv, NEW t \in Callers, Consume(t)
  PROVE  ClockInv'
<1> DEFINE k == reading[t].key
           s == reading[t].at
           w == WindowStart(k, s)
<1>1. reading[t] # NoReading /\ k \in Keys /\ s \in Time
  BY DEF Consume, ClockInv, QuotaTypeOK
<1>2. w \in Time /\ CountIn(k, w) \in Nat
  BY <1>1, StartInTime, CountIsNat DEF ClockInv
<1>3. Regress(t, s) \/ Throttle(t, k, s) \/ Allow(t, k, s) \/ Full(t, k, s)
  BY DEF Consume
<1>4. CASE Regress(t, s)
  <2>1. Answer(t, "regressed") /\ UNCHANGED <<lastNow, buckets, grants>> /\ s < lastNow
    BY <1>4 DEF Regress
  <2>2. "regressed" \in Results
    BY DEF Results
  <2>3. LatestHasOwner'
    <3> SUFFICES ASSUME lastNow # NeverRead
                 PROVE  \E u \in Callers : lastNow <= now' - Anchor[u]
                          /\ (reading'[u] = NoReading \/ lastNow <= reading'[u].at)
      BY <2>1 DEF LatestHasOwner
    <3>1. PICK u \in Callers : lastNow <= now - Anchor[u] /\ (reading[u] = NoReading \/ lastNow <= reading[u].at)
      BY DEF ClockInv, LatestHasOwner
    <3> QED
      BY <3>1, <2>1, <2>2, Answered
  <2> QED
    BY <2>1, <2>2, <2>3, Answered DEF ClockInv, QuotaTypeOK
<1>5. CASE Throttle(t, k, s)
  <2>1. /\ Answer(t, "throttle") /\ UNCHANGED grants /\ lastNow' = s
        /\ buckets' = Put(buckets, k, w, CountIn(k, w))
    BY <1>5 DEF Throttle
  <2>2. "throttle" \in Results
    BY DEF Results
  <2>3. DOMAIN buckets' \subseteq Keys /\ \A q \in DOMAIN buckets' : buckets'[q] \in Bucket
    BY <2>1, <1>1, <1>2, PutTyped DEF ClockInv
  <2>4. LatestHasOwner'
    BY <2>1, <2>2, <1>1, Answered, TakerOwns
  <2> QED
    BY <2>1, <2>2, <2>3, <2>4, <1>1, Answered DEF ClockInv, QuotaTypeOK
<1>6. CASE Allow(t, k, s)
  <2> DEFINE room == IF NoRoom(buckets, k) THEN Pruned(buckets, w) ELSE buckets
  <2>1. /\ Answer(t, "allow") /\ grants' = [grants EXCEPT ![k][w] = @ + 1] /\ lastNow' = s
        /\ buckets' = Put(room, k, w, CountIn(k, w) + 1)
    BY <1>6 DEF Allow
  <2>2. "allow" \in Results
    BY DEF Results
  <2>3. DOMAIN buckets' \subseteq Keys /\ \A q \in DOMAIN buckets' : buckets'[q] \in Bucket
    <3>1. room \in {buckets, Pruned(buckets, w)} /\ CountIn(k, w) + 1 \in Nat
      BY <1>2, Room
    <3> HIDE DEF room
    <3> QED
      BY <2>1, <3>1, <1>1, <1>2, PutTyped DEF ClockInv
  <2>4. LatestHasOwner'
    BY <2>1, <2>2, <1>1, Answered, TakerOwns
  <2>5. grants' \in [Keys -> [Time -> Nat]]
    <3>1. grants \in [Keys -> [Time -> Nat]]
      BY DEF ClockInv, QuotaTypeOK
    <3> QED
      BY <3>1, <2>1, <1>1, <1>2
  <2> HIDE DEF room
  <2> QED
    BY <2>1, <2>2, <2>3, <2>4, <2>5, <1>1, Answered DEF ClockInv, QuotaTypeOK
<1>7. CASE Full(t, k, s)
  <2>1. /\ Answer(t, "full") /\ UNCHANGED grants /\ lastNow' = s
        /\ buckets' = Pruned(buckets, w)
    BY <1>7 DEF Full
  <2>2. "full" \in Results
    BY DEF Results
  <2>3. DOMAIN buckets' \subseteq Keys /\ \A q \in DOMAIN buckets' : buckets'[q] \in Bucket
    BY <2>1 DEF Pruned, ClockInv, QuotaTypeOK
  <2>4. LatestHasOwner'
    BY <2>1, <2>2, <1>1, Answered, TakerOwns
  <2> QED
    BY <2>1, <2>2, <2>3, <2>4, <1>1, Answered DEF ClockInv, QuotaTypeOK
<1> QED
  BY <1>3, <1>4, <1>5, <1>6, <1>7

LEMMA ClockInvNext ==
  ASSUME ClockInv, [QuotaNext]_quotaVars
  PROVE  ClockInv'
<1>1. CASE UNCHANGED quotaVars
  BY <1>1 DEF quotaVars, ClockInv, QuotaTypeOK, Pending, ReadInPast, LatestHasOwner
<1> QED
  BY <1>1, TickKeepsClock, ResolveKeepsClock, ConsumeKeepsClock DEF QuotaNext

\* The quota store and its callers keep their types, whatever the windows,
\* the capacity and the clocks.
THEOREM TypeCorrect == QuotaSpec => []QuotaTypeOK
<1>1. ClockInv => QuotaTypeOK
  BY DEF ClockInv
<1> QED
  BY <1>1, ClockInvInit, ClockInvNext, PTL DEF QuotaSpec

\* Whatever the windows, a caller is refused for a clock that goes backwards
\* only when the clock of another caller is ahead of what it read.
THEOREM RefusalIsJustified == QuotaSpec => RefusedOnlyBehindOther
<1> DEFINE Justified ==
      \A t \in Callers : reading[t] # NoReading /\ result'[t] = "regressed"
        => \E u \in Callers \ {t} : now - Anchor[u] > reading[t].at
<1>1. ClockInv /\ [QuotaNext]_quotaVars => [Justified]_quotaVars
  <2> SUFFICES ASSUME ClockInv, QuotaNext, NEW t \in Callers,
                      reading[t] # NoReading, result'[t] = "regressed"
               PROVE  \E u \in Callers \ {t} : now - Anchor[u] > reading[t].at
    OBVIOUS
  <2>1. reading[t].at \in Time /\ result[t] = "none" /\ t \in DOMAIN result
    BY DEF ClockInv, QuotaTypeOK, Pending
  <2>2. ASSUME NEW u \in Callers, u # t, Consume(u) PROVE FALSE
    <3>1. result'[t] = result[t]
      BY <2>1, <2>2 DEF Consume, Regress, Throttle, Allow, Full, Answer
    <3> QED
      BY <2>1, <3>1
  <2>3. ~ClockTick /\ ~(\E u \in Callers, q \in Keys : StartResolve(u, q))
    BY <2>1 DEF ClockTick, StartResolve, ClockInv, QuotaTypeOK
  <2>4. Consume(t)
    BY <2>2, <2>3 DEF QuotaNext
  <2>5. reading[t].at < lastNow
    <3>1. \A a \in Results : Answer(t, a) => result'[t] = a
      BY <2>1 DEF Answer
    <3> QED
      BY <2>4, <3>1 DEF Consume, Regress, Throttle, Allow, Full, Results
  <2>6. PICK u \in Callers : lastNow <= now - Anchor[u] /\ (reading[u] = NoReading \/ lastNow <= reading[u].at)
    BY <2>1, <2>5, Numbers DEF ClockInv, LatestHasOwner
  <2>7. lastNow \in Int /\ reading[t].at \in Int /\ now \in Int /\ Anchor[u] \in Int
    BY <2>1, Numbers DEF ClockInv, QuotaTypeOK
  <2>8. u # t
    BY <2>5, <2>6, <2>7
  <2> QED
    BY <2>5, <2>6, <2>7, <2>8
<1> QED
  BY <1>1, ClockInvInit, ClockInvNext, PTL DEF QuotaSpec, RefusedOnlyBehindOther

-----------------------------------------------------------------------------
(* What a bucket counts was granted: for any windows and capacity.         *)

\* A bucket is there because of a call granted in its window, and counts no more
\* than were granted.
Earned(b, g) ==
  \A q \in DOMAIN b : b[q].count >= 1 /\ b[q].count <= g[q][b[q].start]

\* Finitely many keys have been granted a call so far.
Granted == {q \in Keys : \E v \in Time : grants[q][v] > 0}

CapacityInv == ClockInv /\ Earned(buckets, grants) /\ IsFiniteSet(Granted)

LEMMA EarnedByCount ==
  ASSUME ClockInv, Earned(buckets, grants), NEW k \in Keys, NEW w \in Time
  PROVE  CountIn(k, w) \in Nat /\ CountIn(k, w) <= grants[k][w] /\ grants[k][w] \in Nat
<1>1. grants[k][w] \in Nat /\ QuotaTypeOK
  BY DEF ClockInv, QuotaTypeOK
<1>2. CountIn(k, w) \in Nat
  BY <1>1, CountIsNat
<1>3. CASE k \in DOMAIN buckets /\ buckets[k].start = w
  BY <1>1, <1>2, <1>3 DEF CountIn, Earned
<1>4. CASE ~(k \in DOMAIN buckets /\ buckets[k].start = w)
  BY <1>1, <1>4 DEF CountIn
<1> QED
  BY <1>1, <1>2, <1>3, <1>4

\* The bucket of the caller is earned by what it counts, the others are those
\* that were there.
LEMMA PutEarned ==
  ASSUME NEW g, NEW k, NEW w, NEW n \in Nat, n >= 1, n <= g[k][w],
         NEW room, DOMAIN room \subseteq DOMAIN buckets,
         \A q \in DOMAIN room : room[q] = buckets[q],
         \A q \in DOMAIN buckets : q # k =>
           buckets[q].count >= 1 /\ buckets[q].count <= g[q][buckets[q].start]
  PROVE  Earned(Put(room, k, w, n), g)
<1> SUFFICES ASSUME NEW q \in DOMAIN room \cup {k}
             PROVE  LET b == IF q = k THEN [start |-> w, count |-> n] ELSE room[q]
                    IN  b.count >= 1 /\ b.count <= g[q][b.start]
  BY DEF Earned, Put
<1>1. CASE q = k
  BY <1>1
<1>2. CASE q # k
  <2>1. q \in DOMAIN room /\ q \in DOMAIN buckets /\ room[q] = buckets[q]
    BY <1>2
  <2>2. buckets[q].count >= 1 /\ buckets[q].count <= g[q][buckets[q].start]
    BY <1>2, <2>1
  <2> QED
    BY <1>2, <2>1, <2>2
<1> QED
  BY <1>1, <1>2

LEMMA ConsumeKeepsCapacity ==
  ASSUME CapacityInv, NEW t \in Callers, Consume(t)
  PROVE  Earned(buckets', grants') /\ IsFiniteSet(Granted')
<1> DEFINE k == reading[t].key
           s == reading[t].at
           w == WindowStart(k, s)
<1>1. ClockInv /\ Earned(buckets, grants) /\ IsFiniteSet(Granted)
  BY DEF CapacityInv
<1>2. reading[t] # NoReading /\ k \in Keys /\ s \in Time
  BY <1>1 DEF Consume, ClockInv, QuotaTypeOK
<1>3. w \in Time /\ CountIn(k, w) \in Nat /\ CountIn(k, w) <= grants[k][w] /\ grants[k][w] \in Nat
      /\ Quota[k] \in Nat \ {0} /\ Time' = Time
  BY <1>1, <1>2, StartInTime, EarnedByCount, LimitsAssumption
<1>4. Regress(t, s) \/ Throttle(t, k, s) \/ Allow(t, k, s) \/ Full(t, k, s)
  BY DEF Consume
<1>5. grants' = grants => IsFiniteSet(Granted')
  BY <1>1 DEF Granted
<1>6. \A q \in DOMAIN buckets :
        buckets[q].count >= 1 /\ buckets[q].count <= grants[q][buckets[q].start]
  BY <1>1 DEF Earned
<1> HIDE DEF k, s, w
<1>7. CASE Regress(t, s)
  BY <1>1, <1>5, <1>7 DEF Regress
<1>8. CASE Throttle(t, k, s)
  <2>1. grants' = grants /\ buckets' = Put(buckets, k, w, CountIn(k, w)) /\ CountIn(k, w) >= 1
    <3>1. CountIn(k, w) >= Quota[k]
      BY <1>8 DEF Throttle, w
    <3>2. CountIn(k, w) >= 1
      BY <1>3, <3>1
    <3> QED
      BY <1>8, <3>2 DEF Throttle, w
  <2>2. Earned(Put(buckets, k, w, CountIn(k, w)), grants)
    BY <1>3, <1>6, <2>1, PutEarned
  <2> QED
    BY <1>5, <2>1, <2>2
<1>9. CASE Allow(t, k, s)
  <2> DEFINE room == IF NoRoom(buckets, k) THEN Pruned(buckets, w) ELSE buckets
             more == [grants EXCEPT ![k][w] = @ + 1]
  <2>1. grants' = more /\ buckets' = Put(room, k, w, CountIn(k, w) + 1)
    BY <1>9 DEF Allow, w
  <2>2. DOMAIN room \subseteq DOMAIN buckets /\ \A q \in DOMAIN room : room[q] = buckets[q]
    BY DEF Pruned
  <2>3. /\ grants \in [Keys -> [Time -> Nat]] /\ more[k][w] = grants[k][w] + 1
        /\ \A q \in Keys : q # k => more[q] = grants[q]
        /\ \A q \in Keys \ {k} : more[q] = grants[q]
    BY <1>1, <1>2, <1>3 DEF ClockInv, QuotaTypeOK
  <2>4. DOMAIN buckets \subseteq Keys
    BY <1>1 DEF ClockInv, QuotaTypeOK
  <2> HIDE DEF room, more
  <2>5. Earned(Put(room, k, w, CountIn(k, w) + 1), more)
    <3>1. CountIn(k, w) + 1 \in Nat /\ CountIn(k, w) + 1 >= 1 /\ CountIn(k, w) + 1 <= more[k][w]
      BY <1>3, <2>3
    <3>2. \A q \in DOMAIN buckets : q # k =>
            buckets[q].count >= 1 /\ buckets[q].count <= more[q][buckets[q].start]
      BY <1>6, <2>3, <2>4
    <3> QED
      BY <2>2, <3>1, <3>2, PutEarned
  <2>6. Granted' \subseteq Granted \cup {k}
    BY <1>3, <2>1, <2>3 DEF Granted
  <2>7. IsFiniteSet(Granted')
    BY <1>1, <2>6, FS_AddElement, FS_Subset
  <2> QED
    BY <2>1, <2>5, <2>7
<1>10. CASE Full(t, k, s)
  <2>1. grants' = grants /\ buckets' = Pruned(buckets, w)
    BY <1>10 DEF Full, w
  <2>2. Earned(Pruned(buckets, w), grants)
    BY <1>6 DEF Pruned, Earned
  <2> QED
    BY <1>5, <2>1, <2>2
<1> QED
  BY <1>4, <1>7, <1>8, <1>9, <1>10

LEMMA CapacityInvInit == QuotaInit => CapacityInv
<1> SUFFICES ASSUME QuotaInit PROVE CapacityInv
  OBVIOUS
<1>1. Earned(buckets, grants)
  BY DEF QuotaInit, Earned
<1>2. Granted = {}
  BY DEF QuotaInit, Granted
<1> QED
  BY <1>1, <1>2, ClockInvInit, FS_EmptySet DEF CapacityInv

LEMMA CapacityInvNext ==
  ASSUME CapacityInv, [QuotaNext]_quotaVars
  PROVE  CapacityInv'
<1>1. ClockInv'
  BY ClockInvNext DEF CapacityInv
<1>2. Earned(buckets', grants') /\ IsFiniteSet(Granted')
  <2>1. CASE \E t \in Callers : Consume(t)
    BY <2>1, ConsumeKeepsCapacity
  <2>2. CASE ~(\E t \in Callers : Consume(t))
    <3>1. UNCHANGED <<buckets, grants>>
      BY <2>2 DEF QuotaNext, quotaVars, ClockTick, StartResolve
    <3>2. Granted' = Granted
      BY <3>1 DEF Granted
    <3> QED
      BY <3>1, <3>2 DEF CapacityInv
  <2> QED
    BY <2>1, <2>2
<1> QED
  BY <1>1, <1>2 DEF CapacityInv, Earned

\* Whatever the windows, a caller is turned away from a full store only when as
\* many keys as it holds have been granted a call in the caller's window: making
\* room (check_and_consume) has removed every bucket of another one, and no
\* bucket is there that was not earned.
THEOREM FullIsEarned == QuotaSpec => FullOnlyWithActiveKeys
<1> DEFINE Crowded ==
      \A t \in Callers : reading[t] # NoReading /\ result'[t] = "full"
        => LET k == reading[t].key
               w == WindowStart(k, reading[t].at)
           IN  Cardinality({q \in Keys : grants[q][w] > 0}) >= MaxKeys
<1>1. CapacityInv /\ [QuotaNext]_quotaVars => [Crowded]_quotaVars
  <2> SUFFICES ASSUME CapacityInv, QuotaNext, NEW t \in Callers,
                      reading[t] # NoReading, result'[t] = "full"
               PROVE  LET k == reading[t].key
                          w == WindowStart(k, reading[t].at)
                      IN  Cardinality({q \in Keys : grants[q][w] > 0}) >= MaxKeys
    OBVIOUS
  <2> DEFINE k == reading[t].key
             w == WindowStart(k, reading[t].at)
             Busy == {q \in Keys : grants[q][w] > 0}
             Kept == DOMAIN Pruned(buckets, w)
  <2>1. /\ ClockInv /\ result[t] = "none" /\ t \in DOMAIN result
        /\ k \in Keys /\ reading[t].at \in Time
    BY DEF CapacityInv, ClockInv, QuotaTypeOK, Pending
  <2>2. ASSUME NEW u \in Callers, u # t, Consume(u) PROVE FALSE
    <3>1. result'[t] = result[t]
      BY <2>1, <2>2 DEF Consume, Regress, Throttle, Allow, Full, Answer
    <3> QED
      BY <2>1, <3>1
  <2>3. ~ClockTick /\ ~(\E u \in Callers, q \in Keys : StartResolve(u, q))
    BY <2>1 DEF ClockTick, StartResolve, ClockInv, QuotaTypeOK
  <2>4. Consume(t)
    BY <2>2, <2>3 DEF QuotaNext
  <2>5. NoRoom(Pruned(buckets, w), k)
    <3>1. \A a \in Results : Answer(t, a) => result'[t] = a
      BY <2>1 DEF Answer
    <3> QED
      BY <2>4, <3>1 DEF Consume, Regress, Throttle, Allow, Full, Results
  <2>6. w \in Time
    BY <2>1, StartInTime
  <2>7. Kept \subseteq Busy
    <3> SUFFICES ASSUME NEW q \in Kept PROVE q \in Keys /\ grants[q][w] > 0
      OBVIOUS
    <3>1. q \in DOMAIN buckets /\ buckets[q].start = w
      BY DEF Pruned
    <3>2. q \in Keys /\ buckets[q].count \in Nat
      BY <2>1, <3>1 DEF ClockInv, QuotaTypeOK, Bucket
    <3>3. buckets[q].count >= 1 /\ buckets[q].count <= grants[q][w]
      BY <3>1 DEF CapacityInv, Earned
    <3>4. grants[q][w] \in Nat
      BY <2>1, <2>6, <3>2 DEF ClockInv, QuotaTypeOK
    <3> HIDE DEF w
    <3> QED
      BY <3>2, <3>3, <3>4
  <2>8. IsFiniteSet(Busy)
    <3>1. Busy \subseteq Granted
      BY <2>6 DEF Granted
    <3> HIDE DEF Busy
    <3> QED
      BY <3>1, FS_Subset DEF CapacityInv
  <2>9. Cardinality(Kept) >= MaxKeys
    BY <2>5 DEF NoRoom
  <2> HIDE DEF Kept, Busy
  <2>10. /\ Cardinality(Kept) <= Cardinality(Busy) /\ Cardinality(Kept) \in Nat
         /\ Cardinality(Busy) \in Nat
    BY <2>7, <2>8, FS_Subset, FS_CardinalityType
  <2>11. Cardinality(Busy) >= MaxKeys
    BY <2>9, <2>10, CapacityAssumption
  <2> QED
    BY <2>11 DEF Busy
<1> QED
  BY <1>1, CapacityInvInit, CapacityInvNext, PTL DEF QuotaSpec, FullOnlyWithActiveKeys

\* Whatever the windows and the capacity, a caller is throttled only when its
\* window has granted the quota: no late call, eviction or reset costs anybody a
\* slot.  Where QuotaHeld holds too, it has granted exactly that.
THEOREM ThrottleIsEarned == QuotaSpec => ThrottledOnlyWhenSpent
<1> DEFINE Spent ==
      \A t \in Callers : reading[t] # NoReading /\ result'[t] = "throttle"
        => LET k == reading[t].key IN
           grants[k][WindowStart(k, reading[t].at)] >= Quota[k]
<1>1. CapacityInv /\ [QuotaNext]_quotaVars => [Spent]_quotaVars
  <2> SUFFICES ASSUME CapacityInv, QuotaNext, NEW t \in Callers,
                      reading[t] # NoReading, result'[t] = "throttle"
               PROVE  grants[reading[t].key][WindowStart(reading[t].key, reading[t].at)]
                        >= Quota[reading[t].key]
    OBVIOUS
  <2> DEFINE k == reading[t].key
             s == reading[t].at
  <2>1. /\ ClockInv /\ Earned(buckets, grants) /\ result[t] = "none" /\ t \in DOMAIN result
        /\ k \in Keys /\ s \in Time
    BY DEF CapacityInv, ClockInv, QuotaTypeOK, Pending
  <2>2. ASSUME NEW u \in Callers, u # t, Consume(u) PROVE FALSE
    <3>1. result'[t] = result[t]
      BY <2>1, <2>2 DEF Consume, Regress, Throttle, Allow, Full, Answer
    <3> QED
      BY <2>1, <3>1
  <2>3. ~ClockTick /\ ~(\E u \in Callers, q \in Keys : StartResolve(u, q))
    BY <2>1 DEF ClockTick, StartResolve, ClockInv, QuotaTypeOK
  <2>4. Consume(t)
    BY <2>2, <2>3 DEF QuotaNext
  <2>5. CountIn(k, WindowStart(k, s)) >= Quota[k]
    <3>1. \A a \in Results : Answer(t, a) => result'[t] = a
      BY <2>1 DEF Answer
    <3> QED
      BY <2>4, <3>1 DEF Consume, Regress, Throttle, Allow, Full, Results
  <2>6. Quota[k] \in Nat /\ WindowStart(k, s) \in Time
    BY <2>1, StartInTime, LimitsAssumption
  <2> HIDE DEF k, s
  <2>7. grants[k][WindowStart(k, s)] >= Quota[k]
    <3> DEFINE w == WindowStart(k, s)
    <3>1. CountIn(k, w) \in Nat /\ CountIn(k, w) <= grants[k][w] /\ grants[k][w] \in Nat
      BY <2>1, <2>6, EarnedByCount
    <3> QED
      BY <2>5, <2>6, <3>1
  <2> QED
    BY <2>7 DEF k, s
<1> QED
  BY <1>1, CapacityInvInit, CapacityInvNext, PTL DEF QuotaSpec, ThrottledOnlyWhenSpent
=============================================================================

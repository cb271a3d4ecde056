---------------------------- MODULE FetcherProofs ----------------------------
(***************************************************************************)
(* Theorems about the fetcher and its two parts: CircuitBreaker,           *)
(* TokenBucket with its rate, and ResilientFetcher, which composes them.   *)
(* They hold for any set of callers, any fail_max and reset_timeout, any   *)
(* token cost and burst, and any number of attempts.                       *)
(***************************************************************************)
EXTENDS ResilientFetcher, SequenceTheorems, TLAPS

-----------------------------------------------------------------------------
(* The circuit breaker                                                      *)

(* ClosedBelowThreshold and the quiet period are not inductive by           *)
(* themselves.  The quiet period needs to know that the stamp is never      *)
(* older than the trip (late failures only make it younger) and that the    *)
(* breaker stays OPEN while the trip is recent.                             *)
StampNotOlderThanTrip == openAge # NoStamp => openAge <= sinceTrip
RecentTripIsOpen == sinceTrip < ResetTimeout => state = "open"

BreakerInv == /\ TypeOK
              /\ ClosedBelowThreshold
              /\ HalfOpenKeepsStamp
              /\ StampNotOlderThanTrip
              /\ RecentTripIsOpen

(* A saturating counter stays within its cap.                               *)
LEMMA UptoRange ==
    ASSUME NEW n \in Nat, NEW cap \in Nat
    PROVE  /\ Upto(n, cap) \in 0..cap
           /\ Upto(n, cap) < cap => Upto(n, cap) = n
  BY DEF Upto

\* A new breaker satisfies the inductive invariant.
LEMMA BreakerInitially == Init => BreakerInv
  BY BreakerAssumption DEF Init, BreakerInv, TypeOK, ClosedBelowThreshold,
     HalfOpenKeepsStamp, StampNotOlderThanTrip, RecentTripIsOpen,
     NoStamp, States

\* Every step of a caller and of the clock preserves it.
LEMMA BreakerStep == BreakerInv /\ [Next]_vars => BreakerInv'
<1> SUFFICES ASSUME BreakerInv, [Next]_vars PROVE BreakerInv'
  OBVIOUS
<1> USE BreakerAssumption DEF BreakerInv, TypeOK, ClosedBelowThreshold,
     HalfOpenKeepsStamp, StampNotOlderThanTrip, RecentTripIsOpen,
     NoStamp, States
<1>1. ASSUME NEW c \in Callers, Admit(c) PROVE BreakerInv'
  <2>1. state' \in {"closed", "half_open"}
    BY <1>1 DEF Admit
  <2>2. phase' \in [Callers -> {"idle", "closed", "half_open"}]
    BY <1>1, <2>1 DEF Admit
  <2>3. state = "open" => openAge = ResetTimeout /\ sinceTrip = ResetTimeout
    BY <1>1 DEF Admit, Elapsed
  <2> QED
    BY <1>1, <2>1, <2>2, <2>3 DEF Admit
<1>2. ASSUME NEW c \in Callers, Reject(c) \/ AssertFails(c) PROVE BreakerInv'
  BY <1>2 DEF Reject, AssertFails, vars
<1>3. ASSUME NEW c \in Callers, OnSuccess(c) PROVE BreakerInv'
  <2>1. phase' \in [Callers -> {"idle", "closed", "half_open"}]
    BY <1>3 DEF OnSuccess
  <2> QED
    BY <1>3, <2>1 DEF OnSuccess, ClearedCount
<1>4. ASSUME NEW c \in Callers, OnFailure(c) PROVE BreakerInv'
  <2>1. phase' \in [Callers -> {"idle", "closed", "half_open"}]
    BY <1>4 DEF OnFailure
  <2>2. failCount' \in 0..FailMax
    BY <1>4, UptoRange DEF OnFailure
  <2>3. CASE Trips(failCount')
    BY <1>4, <2>1, <2>2, <2>3 DEF OnFailure, Stamp
  <2>4. CASE ~Trips(failCount')
    BY <1>4, <2>1, <2>2, <2>4 DEF OnFailure, Trips
  <2> QED
    BY <2>3, <2>4
<1>5. ASSUME NEW c \in Callers, Cancel(c) PROVE BreakerInv'
  <2>1. phase' \in [Callers -> {"idle", "closed", "half_open"}]
    BY <1>5 DEF Cancel
  <2> QED
    BY <1>5, <2>1 DEF Cancel
<1>6. CASE Tick
  BY <1>6 DEF Tick, Upto
<1>7. CASE UNCHANGED vars
  BY <1>7 DEF vars
<1> QED
  BY <1>1, <1>2, <1>3, <1>4, <1>5, <1>6, <1>7 DEF Next, Enter, Leave

\* The inductive invariant holds in every state of the breaker.
THEOREM BreakerInvariance == Spec => []BreakerInv
  BY BreakerInitially, BreakerStep, PTL DEF Spec

\* The variables of the breaker keep their types.
THEOREM TypeCorrect == Spec => []TypeOK
<1>1. BreakerInv => TypeOK
  BY DEF BreakerInv
<1> QED
  BY <1>1, BreakerInvariance, PTL

\* A CLOSED breaker is below its threshold, for every number of overlapping
\* callers: _on_failure trips exactly at fail_max.
THEOREM ThresholdSafe == Spec => []ClosedBelowThreshold
<1>1. BreakerInv => ClosedBelowThreshold
  BY DEF BreakerInv
<1> QED
  BY <1>1, BreakerInvariance, PTL

\* For reset_timeout after a trip no call is admitted, whatever late verdicts
\* arrive at _on_success and _on_failure.
THEOREM QuietPeriod == Spec => QuietAfterTrip
<1>1. BreakerInv /\ [Next]_vars
          => [sinceTrip < ResetTimeout => InFlight' \subseteq InFlight]_vars
  <2> SUFFICES ASSUME BreakerInv, Next, sinceTrip < ResetTimeout
               PROVE  InFlight' \subseteq InFlight
    OBVIOUS
  <2> USE BreakerAssumption DEF BreakerInv, TypeOK, StampNotOlderThanTrip,
          RecentTripIsOpen, InFlight, NoStamp
  <2>1. ASSUME NEW c \in Callers, Admit(c) PROVE FALSE
    BY <2>1 DEF Admit, Elapsed
  <2>2. ASSUME NEW c \in Callers, Reject(c) \/ AssertFails(c)
        PROVE InFlight' \subseteq InFlight
    BY <2>2 DEF Reject, AssertFails, vars
  <2>3. ASSUME NEW c \in Callers, Leave(c)
        PROVE  InFlight' \subseteq InFlight
    <3>1. phase' = [phase EXCEPT ![c] = "idle"]
      BY <2>3 DEF Leave, OnSuccess, OnFailure, Cancel
    <3> QED
      BY <3>1
  <2>4. CASE Tick
    BY <2>4 DEF Tick
  <2> QED
    BY <2>1, <2>2, <2>3, <2>4 DEF Next, Enter
<1> QED
  BY <1>1, BreakerInvariance, PTL DEF Spec, QuietAfterTrip

\* An OPEN breaker without a stamp and without calls in flight never leaves that
\* state: every later call() fails its assertion.
THEOREM WedgeIsFinal == Spec => WedgedIsFinal
<1>1. BreakerInv /\ [Next]_vars
          => [Wedged => Wedged']_vars
  <2> SUFFICES ASSUME BreakerInv, Next, Wedged PROVE Wedged'
    OBVIOUS
  <2> USE DEF Wedged, InFlight, NoStamp
  <2>1. ASSUME NEW c \in Callers, Enter(c) PROVE Wedged'
    BY <2>1 DEF Enter, Admit, Elapsed, Reject,
                AssertFails, vars
  <2>2. ASSUME NEW c \in Callers, Leave(c) PROVE FALSE
    BY <2>2 DEF Leave, OnSuccess, OnFailure, Cancel
  <2>3. CASE Tick
    BY <2>3 DEF Tick
  <2> QED
    BY <2>1, <2>2, <2>3 DEF Next
<1> QED
  BY <1>1, BreakerInvariance, PTL DEF Spec, WedgedIsFinal

(* Without overlap, nobody is in flight while the breaker is OPEN: the call *)
(* whose failure tripped it was the only one.                               *)
OpenIsQuiet == state = "open" => openAge # NoStamp /\ InFlight = {}

\* The assertion of call() holds whenever calls do not overlap: the wedge of an
\* OPEN breaker needs a success that is older than the trip.
THEOREM SequentialIsStamped == Spec /\ []Sequential => []OpenIsStamped
<1>1. Init => OpenIsQuiet
  BY DEF Init, OpenIsQuiet
<1>2. BreakerInv /\ Sequential /\ OpenIsQuiet /\ [Next]_vars
          => OpenIsQuiet'
  <2> SUFFICES ASSUME BreakerInv, Sequential, OpenIsQuiet, [Next]_vars
               PROVE  OpenIsQuiet'
    OBVIOUS
  <2> USE DEF OpenIsQuiet, InFlight, NoStamp, Sequential, BreakerInv,
              TypeOK
  <2>1. ASSUME NEW c \in Callers, Enter(c) PROVE OpenIsQuiet'
    BY <2>1 DEF Enter, Admit, Reject, AssertFails, vars
  <2>2. ASSUME NEW c \in Callers, Leave(c) PROVE OpenIsQuiet'
    <3>1. phase' = [phase EXCEPT ![c] = "idle"] /\ c \in InFlight
      BY <2>2 DEF Leave, OnSuccess, OnFailure, Cancel
    <3>2. InFlight = {c} /\ InFlight' = {}
      BY <3>1
    <3>3. state # "open"
      BY <3>1
    <3> QED
      BY <2>2, <3>2, <3>3, BreakerAssumption
         DEF Leave, OnSuccess, OnFailure, Cancel, Stamp
  <2>3. CASE Tick
    BY <2>3, BreakerAssumption DEF Tick, Upto
  <2>4. CASE UNCHANGED vars
    BY <2>4 DEF vars
  <2> QED
    BY <2>1, <2>2, <2>3, <2>4 DEF Next
<1>3. OpenIsQuiet => OpenIsStamped
  BY DEF OpenIsQuiet, OpenIsStamped
<1> QED
  BY <1>1, <1>2, <1>3, BreakerInvariance, PTL DEF Spec

-----------------------------------------------------------------------------
(* The token bucket                                                         *)

TBInv == TBTypeOK /\ SleepCoversDeficit /\ SleeperHoldsLock

(* Removing one element of a sequence; it empties the sequence only when    *)
(* that element was the first and only one.                                 *)
LEMMA RemoveAtType ==
    ASSUME NEW S, NEW s \in Seq(S), NEW i \in DOMAIN s
    PROVE  /\ RemoveAt(s, i) \in Seq(S)
           /\ RemoveAt(s, i) = <<>> => i = 1
<1>1. Len(s) \in Nat /\ i \in 1..Len(s)
  BY LenProperties
<1>2. SubSeq(s, 1, i-1) \in Seq(S) /\ SubSeq(s, i+1, Len(s)) \in Seq(S)
  BY <1>1
<1>3. Len(SubSeq(s, 1, i-1)) = i - 1
  BY <1>1
<1>4. Len(RemoveAt(s, i)) >= i - 1 /\ RemoveAt(s, i) \in Seq(S)
  BY <1>1, <1>2, <1>3, ConcatProperties DEF RemoveAt
<1>5. RemoveAt(s, i) = <<>> => Len(RemoveAt(s, i)) = 0
  BY EmptySeq
<1> QED
  BY <1>1, <1>4, <1>5

\* Every step of acquire() and of the clock preserves the bucket's invariant.
LEMMA BucketStep ==
    ASSUME TBInv, TBNext \/ UNCHANGED bucketVars
    PROVE  TBInv'
<1> USE BucketAssumption DEF TBInv, TBTypeOK, SleepCoversDeficit,
        SleeperHoldsLock, Awake
<1>1. ASSUME NEW c \in Callers, Request(c) PROVE TBInv'
  <2>1. queue' \in Seq(Callers) /\ queue' # <<>>
    BY <1>1, AppendProperties DEF Request
  <2> QED
    BY <1>1, <2>1 DEF Request
<1>2. Refilled \in 0..Burst
  BY DEF Refilled, Least
<1>3. ASSUME NEW c \in Callers, IsHolder(c) PROVE Tail(queue) \in Seq(Callers)
  BY <1>3, HeadTailProperties DEF IsHolder
<1>4. ASSUME NEW c \in Callers, TakeNow(c) PROVE TBInv'
  BY <1>2, <1>3, <1>4 DEF TakeNow
<1>5. ASSUME NEW c \in Callers, StartSleep(c) PROVE TBInv'
  BY <1>2, <1>5 DEF StartSleep, IsHolder, SleepFor
<1>6. ASSUME NEW c \in Callers, WakeUp(c) PROVE TBInv'
  BY <1>3, <1>6 DEF WakeUp
<1>7. ASSUME NEW c \in Callers, CancelAcquire(c) PROVE TBInv'
  <2>1. PICK i \in DOMAIN queue :
            /\ queue' = RemoveAt(queue, i)
            /\ sleepLeft' = IF i = 1 THEN Awake ELSE sleepLeft
            /\ UNCHANGED <<tokens, sinceLast, slack>>
    BY <1>7 DEF CancelAcquire
  <2>2. queue' \in Seq(Callers) /\ (queue' = <<>> => i = 1)
    BY <2>1, RemoveAtType
  <2> QED
    BY <2>1, <2>2
<1>8. CASE BucketTick
  BY <1>8 DEF BucketTick, Least
<1>9. CASE UNCHANGED bucketVars
  BY <1>9 DEF bucketVars
<1> QED
  BY <1>1, <1>4, <1>5, <1>6, <1>7, <1>8, <1>9 DEF TBNext

\* A new bucket satisfies it.
LEMMA BucketInit == TBInit => TBInv
  BY BucketAssumption, EmptySeq DEF TBInit, TBInv, TBTypeOK,
     SleepCoversDeficit, SleeperHoldsLock, Awake

\* The bucket holds between zero and its capacity, a sleep covers the deficit it
\* was started for, and only a lock holder sleeps: for acquire() under any
\* interleaving of requests, wake-ups and cancellations.
THEOREM BucketSafe ==
    TBSpec => [](TBTypeOK /\ SleepCoversDeficit /\ SleeperHoldsLock)
<1>1. TBInv /\ [TBNext]_bucketVars => TBInv'
  BY BucketStep
<1> QED
  BY <1>1, BucketInit, PTL DEF TBSpec, TBInv

-----------------------------------------------------------------------------
(* The rate of the token bucket                                             *)

(* What makes TwiceTheRate inductive: the meter can pay for all that the     *)
(* bucket could grant now.  Each tick may be credited once through `last`    *)
(* and once through a sleep; while the holder sleeps, the time since `last`  *)
(* has not been credited in either way.                                      *)
MeterCovers ==
    slack >= IF sleepLeft = Awake THEN Refilled
                                  ELSE Least(Burst + Cost, tokens + 2 * sinceLast)

\* No step grants more than the meter allows.
LEMMA MeterStep == TBInv /\ MeterCovers /\ [TBNext]_bucketVars => MeterCovers'
<1> SUFFICES ASSUME TBInv, MeterCovers, [TBNext]_bucketVars PROVE MeterCovers'
  OBVIOUS
<1> USE BucketAssumption
    DEF TBInv, TBTypeOK, SleepCoversDeficit, Awake, MeterCovers, Refilled, Least
<1>1. ASSUME NEW c \in Callers, TakeNow(c) PROVE MeterCovers'
  BY <1>1 DEF TakeNow
<1>2. ASSUME NEW c \in Callers, WakeUp(c) PROVE MeterCovers'
  BY <1>2 DEF WakeUp
<1>3. ASSUME NEW c \in Callers, Request(c) PROVE MeterCovers'
  BY <1>3 DEF Request
<1>4. ASSUME NEW c \in Callers, StartSleep(c) PROVE MeterCovers'
  BY <1>4 DEF StartSleep, SleepFor
<1>5. ASSUME NEW c \in Callers, CancelAcquire(c) PROVE MeterCovers'
  BY <1>5 DEF CancelAcquire
<1>6. CASE BucketTick
  BY <1>6 DEF BucketTick
<1>7. CASE UNCHANGED bucketVars
  BY <1>7 DEF bucketVars
<1> QED
  BY <1>1, <1>2, <1>3, <1>4, <1>5, <1>6, <1>7 DEF TBNext

\* acquire() never lets through more, in any stretch of time, than the burst and one
\* token plus twice the refill of that time, whatever the number of callers, the cost
\* of a token and the burst.
THEOREM RateIsAtMostTwice == TBSpec => []TwiceTheRate
<1>1. TBInit => MeterCovers
  BY BucketAssumption DEF TBInit, MeterCovers, Refilled, Least, Awake
<1>2. TBInv /\ MeterCovers => TwiceTheRate
  BY BucketAssumption DEF TBInv, TBTypeOK, MeterCovers, TwiceTheRate, Refilled, Least, Awake
<1>3. TBInv /\ [TBNext]_bucketVars => TBInv'
  BY BucketStep
<1> QED
  BY <1>1, <1>2, <1>3, BucketInit, MeterStep, PTL DEF TBSpec

-----------------------------------------------------------------------------
(* The fetcher: its inductive invariant                                     *)

FetcherType ==
    /\ pc \in [Callers -> {"idle", "acquiring", "sending", "backoff"}]
    /\ attempt \in [Callers -> 0..MaxAttempts]
    /\ result \in [Callers -> Results]
    /\ blamed \subseteq Callers
    /\ culprits \in 0..2

\* A fetch in progress is at its first attempt or later, and waits for another one only
\* while it has one left.
AttemptsAreCounted == \A c \in Callers : /\ pc[c] # "idle" => attempt[c] >= 1
                                         /\ pc[c] = "backoff" => attempt[c] < MaxAttempts

\* No task waits twice in the bucket's queue.
Distinct(s) == \A i, j \in DOMAIN s : s[i] = s[j] => i = j

\* The attempts of the current fetch of c that are over.
AttemptsOver(c) == IF pc[c] \in {"acquiring", "sending"} THEN attempt[c] - 1 ELSE attempt[c]

\* As long as one fetch is to blame for the run of failures, the run is no longer than
\* the attempts that fetch has behind it.
RunIsBlamed ==
    /\ culprits = 0 => blamed = {} /\ failCount = 0
    /\ culprits = 1 => /\ failCount <= MaxAttempts
                       /\ \A c \in blamed : failCount <= AttemptsOver(c)
                       /\ \A c, d \in blamed : c = d

FetcherInv == /\ TBInv /\ BreakerInv
              /\ FetcherType /\ AttemptsAreCounted /\ Distinct(queue) /\ NoOrphans
              /\ RunIsBlamed

-----------------------------------------------------------------------------
(* Queues of distinct tasks                                                 *)

\* A task that joins the queue is new in it.
LEMMA JoinQueue ==
    ASSUME NEW s \in Seq(Callers), NEW c \in Callers, Distinct(s), c \notin Range(s)
    PROVE  /\ Distinct(Append(s, c))
           /\ Range(Append(s, c)) = Range(s) \cup {c}
<1> DEFINE t == Append(s, c)
           m == Len(s)
<1>1. m \in Nat /\ DOMAIN s = 1..m
  BY LenProperties
<1>2. t \in Seq(Callers) /\ Len(t) = m + 1 /\ (\A i \in 1..m : t[i] = s[i]) /\ t[m + 1] = c
  BY AppendProperties
<1>3. DOMAIN t = 1..(m + 1)
  BY <1>2, LenProperties
<1>4. \A i \in 1..m : s[i] # c
  BY <1>1 DEF Range
<1> HIDE DEF t, m
<1>5. 1..(m + 1) = (1..m) \cup {m + 1}
  BY <1>1
<1>6. Distinct(t)
  BY <1>1, <1>2, <1>3, <1>4, <1>5 DEF Distinct
<1>7. Range(t) = Range(s) \cup {c}
  BY <1>1, <1>2, <1>3, <1>5 DEF Range
<1> QED
  BY <1>6, <1>7 DEF t

\* The elements of a queue from which place i was removed.
LEMMA RemoveAtElements ==
    ASSUME NEW s \in Seq(Callers), NEW i \in DOMAIN s
    PROVE  LET t == RemoveAt(s, i)
           IN /\ DOMAIN t = 1..(Len(s) - 1)
              /\ \A k \in 1..(Len(s) - 1) : t[k] = IF k < i THEN s[k] ELSE s[k + 1]
<1> DEFINE a == SubSeq(s, 1, i - 1)
           b == SubSeq(s, i + 1, Len(s))
           t == RemoveAt(s, i)
           m == Len(s)
<1>1. m \in Nat /\ DOMAIN s = 1..m /\ i \in 1..m /\ \A k \in 1..m : s[k] \in Callers
  BY LenProperties, ElementOfSeq
<1>2. /\ a \in Seq(Callers) /\ Len(a) = i - 1
      /\ \A k \in 1..(i - 1) : a[k] = s[k]
  <2>1. \A k \in 1..(i - 1) : s[k] \in Callers
    BY <1>1
  <2>2. /\ a \in Seq(Callers) /\ Len(a) = IF 1 <= i - 1 THEN i - 1 - 1 + 1 ELSE 0
        /\ \A k \in 1..(i - 1 - 1 + 1) : a[k] = s[1 + k - 1]
    BY <1>1, <2>1, SubSeqProperties
  <2> HIDE DEF a
  <2> QED
    BY <1>1, <2>2
<1>3. /\ b \in Seq(Callers) /\ Len(b) = m - i
      /\ \A k \in 1..(m - i) : b[k] = s[i + k]
  <2>1. \A k \in (i + 1)..m : s[k] \in Callers
    BY <1>1
  <2>2. /\ b \in Seq(Callers) /\ Len(b) = IF i + 1 <= m THEN m - (i + 1) + 1 ELSE 0
        /\ \A k \in 1..(m - (i + 1) + 1) : b[k] = s[i + 1 + k - 1]
    BY <1>1, <2>1, SubSeqProperties
  <2> HIDE DEF b, m
  <2>3. Len(b) = m - i
    BY <1>1, <2>2
  <2>4. m - (i + 1) + 1 = m - i /\ \A k \in 1..(m - i) : i + 1 + k - 1 = i + k
    BY <1>1
  <2> QED
    BY <2>2, <2>3, <2>4
<1>4. t = a \o b
  BY DEF RemoveAt
<1> HIDE DEF a, b, m
<1>5. /\ a \o b \in Seq(Callers) /\ Len(a \o b) = Len(a) + Len(b)
      /\ \A k \in 1..(Len(a) + Len(b)) : (a \o b)[k] = IF k <= Len(a) THEN a[k] ELSE b[k - Len(a)]
  BY <1>2, <1>3, ConcatProperties
<1> HIDE DEF t
<1>6. t \in Seq(Callers) /\ Len(t) = m - 1
  BY <1>1, <1>2, <1>3, <1>4, <1>5
<1>7. DOMAIN t = 1..(m - 1)
  BY <1>6, LenProperties
<1>8. ASSUME NEW k \in 1..(m - 1) PROVE t[k] = IF k < i THEN s[k] ELSE s[k + 1]
  <2>1. t[k] = IF k <= i - 1 THEN a[k] ELSE b[k - (i - 1)]
    BY <1>1, <1>2, <1>3, <1>4, <1>5
  <2>2. CASE k < i
    BY <1>1, <1>2, <2>1, <2>2
  <2>3. CASE ~(k < i)
    <3>1. k - (i - 1) \in 1..(m - i) /\ i + (k - (i - 1)) = k + 1
      BY <1>1, <2>3
    <3>2. b[k - (i - 1)] = s[k + 1]
      BY <1>3, <3>1
    <3> QED
      BY <1>1, <2>1, <2>3, <3>2
  <2> QED
    BY <2>2, <2>3
<1> QED
  BY <1>7, <1>8 DEF t, m

\* A task that leaves the queue, from whatever place, is not in it any more.
LEMMA LeaveQueue ==
    ASSUME NEW s \in Seq(Callers), NEW i \in DOMAIN s, Distinct(s)
    PROVE  /\ Distinct(RemoveAt(s, i))
           /\ Range(RemoveAt(s, i)) = Range(s) \ {s[i]}
<1> DEFINE t == RemoveAt(s, i)
           m == Len(s)
<1>1. m \in Nat /\ DOMAIN s = 1..m /\ i \in 1..m
  BY LenProperties
<1>2. /\ DOMAIN t = 1..(m - 1)
      /\ \A k \in 1..(m - 1) : t[k] = IF k < i THEN s[k] ELSE s[k + 1]
  BY RemoveAtElements
<1> DEFINE From(k) == IF k < i THEN k ELSE k + 1
<1> HIDE DEF t, m
<1>3. \A k \in 1..(m - 1) : From(k) \in 1..m /\ From(k) # i /\ t[k] = s[From(k)]
  BY <1>1, <1>2
<1>4. \A k, l \in 1..(m - 1) : From(k) = From(l) => k = l
  BY <1>1
<1>5. \A n \in 1..m : n # i => \E k \in 1..(m - 1) : From(k) = n
  <2> SUFFICES ASSUME NEW n \in 1..m, n # i PROVE \E k \in 1..(m - 1) : From(k) = n
    OBVIOUS
  <2>1. CASE n < i
    <3>1. n \in 1..(m - 1) /\ From(n) = n
      BY <1>1, <2>1
    <3> QED
      BY <3>1
  <2>2. CASE n > i
    <3>1. n - 1 \in 1..(m - 1) /\ From(n - 1) = n
      BY <1>1, <2>2
    <3> QED
      BY <3>1
  <2> QED
    BY <1>1, <2>1, <2>2
<1> HIDE DEF From
<1>6. Distinct(t)
  BY <1>1, <1>2, <1>3, <1>4 DEF Distinct
<1>7. ASSUME NEW e \in Range(t) PROVE e \in Range(s) \ {s[i]}
  <2>1. PICK k \in 1..(m - 1) : e = t[k]
    BY <1>2, <1>7 DEF Range
  <2>2. From(k) \in 1..m /\ From(k) # i /\ e = s[From(k)]
    BY <1>3, <2>1
  <2>3. s[From(k)] # s[i]
    BY <1>1, <2>2 DEF Distinct
  <2> QED
    BY <1>1, <2>2, <2>3 DEF Range
<1>8. ASSUME NEW e \in Range(s) \ {s[i]} PROVE e \in Range(t)
  <2>1. PICK n \in 1..m : e = s[n] /\ n # i
    BY <1>1, <1>8 DEF Range
  <2>2. PICK k \in 1..(m - 1) : From(k) = n
    BY <1>5, <2>1
  <2>3. e = t[k] /\ k \in DOMAIN t
    BY <1>2, <1>3, <2>1, <2>2
  <2> QED
    BY <2>3 DEF Range
<1>9. Range(t) = Range(s) \ {s[i]}
  BY <1>7, <1>8
<1> QED
  BY <1>6, <1>9 DEF t

\* The holder leaves the queue at its head.
LEMMA PopQueue ==
    ASSUME NEW s \in Seq(Callers), s # <<>>, Distinct(s)
    PROVE  /\ Distinct(Tail(s))
           /\ Range(Tail(s)) = Range(s) \ {Head(s)}
<1>1. Len(s) \in Nat \ {0} /\ DOMAIN s = 1..Len(s) /\ s[1] = Head(s)
  BY LenProperties, EmptySeq
<1>2. 1 \in DOMAIN s
  BY <1>1
<1> DEFINE t == Tail(s)
           u == RemoveAt(s, 1)
<1>3. t \in Seq(Callers) /\ Len(t) = Len(s) - 1 /\ \A k \in 1..Len(t) : t[k] = s[k + 1]
  BY HeadTailProperties
<1>4. /\ DOMAIN u = 1..(Len(s) - 1)
      /\ \A k \in 1..(Len(s) - 1) : u[k] = s[k + 1]
  BY <1>1, <1>2, RemoveAtElements
<1>5. DOMAIN t = 1..(Len(s) - 1)
  BY <1>3, LenProperties
<1>6. Distinct(u) /\ Range(u) = Range(s) \ {Head(s)}
  BY <1>1, <1>2, LeaveQueue
<1>7. DOMAIN t = DOMAIN u /\ \A k \in DOMAIN t : t[k] = u[k]
  BY <1>3, <1>4, <1>5
<1> HIDE DEF t, u
<1>8. Distinct(t) /\ Range(t) = Range(u)
  BY <1>6, <1>7 DEF Distinct, Range
<1> QED
  BY <1>6, <1>8 DEF t

-----------------------------------------------------------------------------
(* The fetcher is a user of the breaker and of the bucket                   *)

\* Whatever fetch() does is a step of the breaker, or leaves it alone.
LEMMA StepIsBreakerStep == [FNext]_allVars => [Next]_vars
<1> SUFFICES ASSUME [FNext]_allVars PROVE [Next]_vars
  OBVIOUS
<1> USE DEF breakerVars, vars, Next, Enter, Leave
<1>1. CASE FTick
  BY <1>1 DEF FTick
<1>2. ASSUME NEW c \in Callers, Attempt(c) \/ Throttle(c) PROVE UNCHANGED vars
  BY <1>2 DEF Attempt, Throttle
<1>3. ASSUME NEW c \in Callers, Send(c) \/ Refuse(c) \/ Wedge(c) PROVE Next
  BY <1>3 DEF Send, Refuse, Wedge
<1>4. ASSUME NEW c \in Callers, NEW r, Respond(c, r) \/ Raise(c, r) PROVE Next
  BY <1>4 DEF Respond, Raise
<1>5. ASSUME NEW c \in Callers, Abort(c) PROVE [Next]_vars
  BY <1>5 DEF Abort
<1>6. CASE UNCHANGED allVars
  BY <1>6 DEF allVars
<1> QED
  BY <1>1, <1>2, <1>3, <1>4, <1>5, <1>6 DEF FNext

\* Whatever fetch() does is a step of the bucket, or leaves it alone.
LEMMA StepIsBucketStep == [FNext]_allVars => [TBNext]_bucketVars
<1> SUFFICES ASSUME [FNext]_allVars PROVE [TBNext]_bucketVars
  OBVIOUS
<1> USE DEF bucketVars, TBNext
<1>1. CASE FTick
  BY <1>1 DEF FTick
<1>2. ASSUME NEW c \in Callers, Attempt(c) \/ Throttle(c) PROVE TBNext
  BY <1>2 DEF Attempt, Throttle
<1>3. ASSUME NEW c \in Callers, Send(c) \/ Refuse(c) \/ Wedge(c) PROVE TBNext
  BY <1>3 DEF Send, Refuse, Wedge, Granted
<1>4. ASSUME NEW c \in Callers, NEW r, Respond(c, r) \/ Raise(c, r)
      PROVE  UNCHANGED bucketVars
  BY <1>4 DEF Respond, Raise
<1>5. ASSUME NEW c \in Callers, Abort(c) PROVE [TBNext]_bucketVars
  BY <1>5 DEF Abort
<1>6. CASE UNCHANGED allVars
  BY <1>6 DEF allVars
<1> QED
  BY <1>1, <1>2, <1>3, <1>4, <1>5, <1>6 DEF FNext

\* Behind the retry loop the breaker behaves as CircuitBreaker says.
THEOREM FetcherUsesBreaker == FSpec => Spec
<1>1. FInit => Init
  BY DEF FInit
<1> QED
  BY <1>1, StepIsBreakerStep, PTL DEF FSpec, Spec

\* Behind the retry loop the bucket behaves as TokenBucket says.
THEOREM FetcherUsesBucket == FSpec => TBSpec
<1>1. FInit => TBInit
  BY DEF FInit
<1> QED
  BY <1>1, StepIsBucketStep, PTL DEF FSpec, TBSpec

\* So the quiet period after a trip holds for everything fetch() does, retries included.
THEOREM FetcherKeepsQuiet == FSpec => QuietAfterTrip
BY FetcherUsesBreaker, QuietPeriod, PTL

-----------------------------------------------------------------------------
(* The fetcher: its invariant is inductive                                  *)

\* Nobody fetches yet.
LEMMA FetcherInitially == FInit => FetcherInv
<1> SUFFICES ASSUME FInit PROVE FetcherInv
  OBVIOUS
<1>1. TBInv /\ BreakerInv
  BY BucketInit, BreakerInitially DEF FInit
<1>2. queue = <<>> /\ Range(queue) = {} /\ Distinct(queue)
  BY EmptySeq DEF FInit, TBInit, Range, Distinct
<1>3. FetcherType
  BY FetcherAssumption, BreakerAssumption DEF FInit, FetcherType, Results
<1>4. NoOrphans
  BY <1>2 DEF FInit, NoOrphans, Init
<1>5. AttemptsAreCounted /\ RunIsBlamed
  BY DEF FInit, AttemptsAreCounted, RunIsBlamed, Init
<1> QED
  BY <1>1, <1>2, <1>3, <1>4, <1>5 DEF FetcherInv

\* What the end of an attempt does to pc and result.
LEMMA ConcludeStep ==
    ASSUME FetcherType, NEW c \in Callers, NEW r \in Results, Conclude(c, r)
    PROVE  /\ pc' = [pc EXCEPT ![c] = "backoff"] \/ pc' = [pc EXCEPT ![c] = "idle"]
           /\ pc'[c] = "backoff" => attempt[c] < MaxAttempts
           /\ result' \in [Callers -> Results]
<1> DEFINE again == r \in Retryable /\ ~Exhausted(c)
<1>1. /\ pc' = [pc EXCEPT ![c] = IF again THEN "backoff" ELSE "idle"]
      /\ result' = IF again THEN result ELSE [result EXCEPT ![c] = r]
  BY DEF Conclude
<1>2. attempt[c] \in Nat /\ MaxAttempts \in Nat
  BY FetcherAssumption, BreakerAssumption DEF FetcherType
<1>3. again => attempt[c] < MaxAttempts
  BY <1>2 DEF Exhausted
<1> HIDE DEF again
<1>4. pc'[c] = IF again THEN "backoff" ELSE "idle"
  BY <1>1 DEF FetcherType
<1>5. result' \in [Callers -> Results]
  BY <1>1 DEF FetcherType
<1>6. CASE again
  BY <1>1, <1>3, <1>5, <1>6
<1>7. CASE ~again
  BY <1>1, <1>4, <1>5, <1>7
<1> QED
  BY <1>6, <1>7

\* Types, and attempts that do not run past their number.
LEMMA FetcherTypeStep ==
    FetcherInv /\ [FNext]_allVars => (FetcherType /\ AttemptsAreCounted)'
<1> DEFINE Goal == FetcherType /\ AttemptsAreCounted
<1> SUFFICES ASSUME FetcherInv, [FNext]_allVars PROVE Goal'
  OBVIOUS
<1>t. FetcherType /\ AttemptsAreCounted
  BY DEF FetcherInv
<1>r. /\ {"transient", "assertion", "cancelled", "pending", "other", "unavailable"} \subseteq Results
      /\ Statuses \subseteq Results
  BY DEF Results, Retryable, Final, Statuses
<1> USE FetcherAssumption, BreakerAssumption DEF FetcherType, AttemptsAreCounted
<1>1. CASE FTick
  BY <1>1, <1>t DEF FTick, fetchVars, historyVars
<1>2. ASSUME NEW c \in Callers, Attempt(c) PROVE Goal'
  <2>1. /\ pc' = [pc EXCEPT ![c] = "acquiring"] /\ result' = [result EXCEPT ![c] = "pending"]
        /\ attempt' = [attempt EXCEPT ![c] = IF pc[c] = "idle" THEN 1 ELSE attempt[c] + 1]
        /\ blamed' \subseteq blamed /\ culprits' = culprits
        /\ pc[c] # "idle" => pc[c] = "backoff"
    BY <1>2 DEF Attempt
  <2>2. (IF pc[c] = "idle" THEN 1 ELSE attempt[c] + 1) \in 1..MaxAttempts
    BY <1>t, <2>1
  <2>3. attempt' \in [Callers -> 0..MaxAttempts] /\ attempt'[c] >= 1
    BY <1>t, <2>1, <2>2
  <2>4. \A d \in Callers : d # c => attempt'[d] = attempt[d] /\ pc'[d] = pc[d]
    BY <1>t, <2>1
  <2>5. pc'[c] = "acquiring"
    BY <1>t, <2>1
  <2>6. FetcherType'
    BY <1>t, <1>r, <2>1, <2>3
  <2>7. AttemptsAreCounted'
    BY <1>t, <2>3, <2>4, <2>5
  <2> QED
    BY <2>6, <2>7
<1>3. ASSUME NEW c \in Callers, Throttle(c) PROVE Goal'
  BY <1>3, <1>t DEF Throttle, fetchVars, historyVars
<1>4. ASSUME NEW c \in Callers, Send(c) PROVE Goal'
  BY <1>4, <1>t DEF Send, Granted, historyVars
<1>5. ASSUME NEW c \in Callers, NEW r \in Results, Conclude(c, r), pc[c] # "idle",
             attempt' = attempt, blamed' \subseteq Callers, culprits' \in 0..2
      PROVE  Goal'
  <2>1. /\ pc' = [pc EXCEPT ![c] = "backoff"] \/ pc' = [pc EXCEPT ![c] = "idle"]
        /\ pc'[c] = "backoff" => attempt[c] < MaxAttempts
        /\ result' \in [Callers -> Results]
    BY <1>5, <1>t, ConcludeStep
  <2> QED
    BY <1>5, <1>t, <2>1
<1>6. ASSUME NEW c \in Callers, Refuse(c) \/ Wedge(c) PROVE Goal'
  BY <1>5, <1>6, <1>t, <1>r DEF Refuse, Wedge, Granted, historyVars
<1>7. ASSUME NEW c \in Callers, NEW r \in Statuses, Respond(c, r) PROVE Goal'
  BY <1>5, <1>7, <1>r DEF Respond
<1>8. ASSUME NEW c \in Callers, NEW r \in {"unavailable", "other"}, Raise(c, r) PROVE Goal'
  <2>1. blamed' \subseteq Callers /\ culprits' \in 0..2
    BY <1>8, <1>t DEF Raise
  <2> QED
    BY <1>5, <1>8, <1>r, <2>1 DEF Raise
<1>9. ASSUME NEW c \in Callers, Abort(c) PROVE Goal'
  BY <1>9, <1>t, <1>r DEF Abort, historyVars
<1>10. CASE UNCHANGED allVars
  BY <1>10, <1>t DEF allVars, fetchVars, historyVars
<1> QED
  BY <1>1, <1>2, <1>3, <1>4, <1>6, <1>7, <1>8, <1>9, <1>10 DEF FNext

\* The queue of the bucket and the calls of the breaker are the fetches that wait and
\* that send.
LEMMA OrphanStep == FetcherInv /\ [FNext]_allVars => (Distinct(queue) /\ NoOrphans)'
<1> DEFINE Goal == Distinct(queue) /\ NoOrphans
<1> SUFFICES ASSUME FetcherInv, [FNext]_allVars PROVE Goal'
  OBVIOUS
<1>t. /\ FetcherType /\ Distinct(queue) /\ NoOrphans
      /\ queue \in Seq(Callers) /\ phase \in [Callers -> {"idle", "closed", "half_open"}]
  BY DEF FetcherInv, TBInv, BreakerInv, TBTypeOK, TypeOK
<1> USE DEF NoOrphans, FetcherType
\* A task leaves the bucket when it is granted its token.
<1>g. ASSUME NEW c \in Callers, Granted(c)
      PROVE  /\ Distinct(queue') /\ Range(queue') = Range(queue) \ {c}
             /\ pc[c] = "acquiring"
  <2>1. queue # <<>> /\ Head(queue) = c /\ queue' = Tail(queue) /\ pc[c] = "acquiring"
    BY <1>g DEF Granted, TakeNow, WakeUp, IsHolder
  <2> QED
    BY <1>t, <2>1, PopQueue
\* A task whose attempt is over is in neither.
<1>c. ASSUME NEW c \in Callers, NEW r, Conclude(c, r)
      PROVE  \E p \in {"backoff", "idle"} : pc' = [pc EXCEPT ![c] = p]
  BY <1>c DEF Conclude
<1>1. CASE FTick
  BY <1>1, <1>t DEF FTick, fetchVars, Tick, BucketTick
<1>2. ASSUME NEW c \in Callers, Attempt(c) PROVE Goal'
  <2>1. queue' = Append(queue, c) /\ c \notin Range(queue) /\ phase' = phase
        /\ pc' = [pc EXCEPT ![c] = "acquiring"] /\ pc[c] # "sending"
    BY <1>2 DEF Attempt, Request, breakerVars
  <2>2. Distinct(queue') /\ Range(queue') = Range(queue) \cup {c}
    BY <1>t, <2>1, JoinQueue
  <2> QED
    BY <1>t, <2>1, <2>2
<1>3. ASSUME NEW c \in Callers, Throttle(c) PROVE Goal'
  BY <1>3, <1>t DEF Throttle, StartSleep, breakerVars, fetchVars
<1>4. ASSUME NEW c \in Callers, Send(c) PROVE Goal'
  <2>1. /\ pc' = [pc EXCEPT ![c] = "sending"] /\ phase' = [phase EXCEPT ![c] = state']
        /\ state' # "idle"
    BY <1>4 DEF Send, Admit, FetcherInv, BreakerInv, TypeOK, States
  <2>2. Distinct(queue') /\ Range(queue') = Range(queue) \ {c}
    BY <1>4, <1>g DEF Send
  <2> QED
    BY <1>t, <2>1, <2>2
<1>5. ASSUME NEW c \in Callers, Refuse(c) \/ Wedge(c) PROVE Goal'
  <2>1. \E p \in {"backoff", "idle"} : pc' = [pc EXCEPT ![c] = p]
    BY <1>5, <1>c DEF Refuse, Wedge
  <2>2. phase' = phase
    BY <1>5 DEF Refuse, Wedge, Reject, AssertFails, vars
  <2>3. /\ Distinct(queue') /\ Range(queue') = Range(queue) \ {c}
        /\ pc[c] = "acquiring"
    BY <1>5, <1>g DEF Refuse, Wedge
  <2> QED
    BY <1>t, <2>1, <2>2, <2>3
<1>6. ASSUME NEW c \in Callers, NEW r, Respond(c, r) \/ Raise(c, r) PROVE Goal'
  <2>1. \E p \in {"backoff", "idle"} : pc' = [pc EXCEPT ![c] = p]
    BY <1>6, <1>c DEF Respond, Raise
  <2>2. phase' = [phase EXCEPT ![c] = "idle"] /\ queue' = queue /\ pc[c] = "sending"
    BY <1>6 DEF Respond, Raise, OnSuccess, OnFailure, bucketVars
  <2> QED
    BY <1>t, <2>1, <2>2
<1>7. ASSUME NEW c \in Callers, Abort(c) PROVE Goal'
  <2>1. pc' = [pc EXCEPT ![c] = "idle"]
    BY <1>7 DEF Abort
  <2>2. phase'[c] = "idle" /\ \A d \in Callers : d # c => phase'[d] = phase[d]
    BY <1>7, <1>t DEF Abort, Cancel, breakerVars
  <2>3. Distinct(queue') /\ Range(queue') = Range(queue) \ {c}
    <3>1. CASE pc[c] = "acquiring"
      <4>1. PICK i \in DOMAIN queue : queue[i] = c /\ queue' = RemoveAt(queue, i)
        BY <1>7, <3>1 DEF Abort, CancelAcquire
      <4> QED
        BY <1>t, <4>1, LeaveQueue
    <3>2. CASE pc[c] # "acquiring"
      <4>1. queue' = queue /\ c \notin Range(queue)
        BY <1>7, <1>t, <3>2 DEF Abort, bucketVars
      <4> QED
        BY <1>t, <4>1
    <3> QED
      BY <3>1, <3>2
  <2> QED
    BY <1>t, <2>1, <2>2, <2>3
<1>8. CASE UNCHANGED allVars
  BY <1>8, <1>t DEF allVars, breakerVars, bucketVars, fetchVars
<1> QED
  BY <1>1, <1>2, <1>3, <1>4, <1>5, <1>6, <1>7, <1>8 DEF FNext

\* The run of failures and the fetches to blame for it.
LEMMA BlameStep == FetcherInv /\ [FNext]_allVars => RunIsBlamed'
<1> SUFFICES ASSUME FetcherInv, [FNext]_allVars PROVE RunIsBlamed'
  OBVIOUS
<1>t. /\ FetcherType /\ AttemptsAreCounted /\ RunIsBlamed
      /\ failCount \in 0..FailMax
  BY DEF FetcherInv, BreakerInv, TypeOK
<1> USE FetcherAssumption, BreakerAssumption DEF FetcherType
\* No step but a verdict changes the run; no fetch in the blame loses attempts.
<1>s. ASSUME failCount' = failCount, culprits' = culprits, blamed' \subseteq blamed,
             \A c \in blamed' : AttemptsOver(c) <= AttemptsOver(c)'
      PROVE  RunIsBlamed'
  <2>1. \A c \in Callers : AttemptsOver(c) \in Int
    BY <1>t DEF AttemptsOver
  <2>2. \A c \in Callers : AttemptsOver(c)' \in Int
    BY <1>t, FetcherTypeStep DEF AttemptsOver
  <2> HIDE DEF AttemptsOver
  <2>3. \A c \in blamed' : failCount <= AttemptsOver(c) => failCount <= AttemptsOver(c)'
    BY <1>s, <1>t, <2>1, <2>2
  <2> QED
    BY <1>s, <1>t, <2>3 DEF RunIsBlamed
<1>1. CASE FTick
  BY <1>1, <1>s, <1>t DEF FTick, Tick, fetchVars, historyVars, AttemptsOver
<1>2. ASSUME NEW c \in Callers, Attempt(c) PROVE RunIsBlamed'
  <2>1. /\ pc' = [pc EXCEPT ![c] = "acquiring"] /\ pc[c] \in {"idle", "backoff"}
        /\ attempt' = [attempt EXCEPT ![c] = IF pc[c] = "idle" THEN 1 ELSE attempt[c] + 1]
        /\ blamed' = IF pc[c] = "idle" THEN blamed \ {c} ELSE blamed
        /\ culprits' = culprits /\ failCount' = failCount
    BY <1>2 DEF Attempt, breakerVars
  <2>2. ASSUME NEW d \in blamed' PROVE AttemptsOver(d) <= AttemptsOver(d)'
    <3>1. CASE d = c
      BY <1>t, <2>1, <2>2, <3>1 DEF AttemptsOver
    <3>2. CASE d # c
      BY <1>t, <2>1, <2>2, <3>2 DEF AttemptsOver
    <3> QED
      BY <3>1, <3>2
  <2> QED
    BY <1>s, <2>1, <2>2
<1>3. ASSUME NEW c \in Callers, Throttle(c) PROVE RunIsBlamed'
  BY <1>3, <1>s, <1>t DEF Throttle, breakerVars, fetchVars, historyVars, AttemptsOver
<1>4. ASSUME NEW c \in Callers, Send(c) \/ Refuse(c) \/ Wedge(c) \/ Abort(c) PROVE RunIsBlamed'
  <2>1. /\ failCount' = failCount /\ culprits' = culprits /\ blamed' = blamed
        /\ attempt' = attempt
    BY <1>4 DEF Send, Refuse, Wedge, Abort, Admit, Reject, AssertFails,
                Cancel, vars, breakerVars, historyVars
  <2>2. \/ pc[c] = "acquiring" /\ pc' = [pc EXCEPT ![c] = "sending"]
        \/ \E p \in {"backoff", "idle"} : pc' = [pc EXCEPT ![c] = p]
    BY <1>4 DEF Send, Refuse, Wedge, Abort, Granted, Conclude
  <2>3. ASSUME NEW d \in blamed PROVE AttemptsOver(d) <= AttemptsOver(d)'
    BY <1>t, <2>1, <2>2, <2>3 DEF AttemptsOver
  <2> QED
    BY <1>s, <2>1, <2>3
<1>5. ASSUME NEW c \in Callers, NEW r, Respond(c, r) PROVE RunIsBlamed'
  BY <1>5 DEF Respond, OnSuccess, ClearedCount, RunIsBlamed
<1>6. ASSUME NEW c \in Callers, NEW r, Raise(c, r) PROVE RunIsBlamed'
  <2>1. /\ failCount' \in 0..FailMax /\ failCount' <= failCount + 1
        /\ blamed' = blamed \cup {c} /\ attempt' = attempt /\ pc[c] = "sending"
        /\ culprits' = IF c \in blamed \/ culprits = 2 THEN culprits ELSE culprits + 1
    BY <1>6, <1>t DEF Raise, OnFailure, Upto
  <2>2. \E p \in {"backoff", "idle"} : pc' = [pc EXCEPT ![c] = p]
    BY <1>6 DEF Raise, Conclude
  <2>3. AttemptsOver(c) = attempt[c] - 1 /\ AttemptsOver(c)' = attempt[c]
    BY <1>t, <2>1, <2>2 DEF AttemptsOver
  <2>4. attempt[c] \in 1..MaxAttempts
    BY <1>t, <2>1 DEF AttemptsAreCounted
  <2>5. CASE c \in blamed /\ culprits = 1
    <3>1. failCount <= attempt[c] - 1 /\ blamed = {c}
      BY <1>t, <2>3, <2>5 DEF RunIsBlamed
    <3>2. failCount' <= attempt[c]
      BY <1>t, <2>1, <2>4, <3>1
    <3>3. failCount' <= MaxAttempts
      BY <2>1, <2>4, <3>2
    <3> QED
      BY <2>1, <2>3, <2>5, <3>1, <3>2, <3>3 DEF RunIsBlamed
  <2>6. CASE culprits = 0
    <3>1. blamed = {} /\ failCount = 0
      BY <1>t, <2>6 DEF RunIsBlamed
    <3>2. failCount' <= 1
      BY <2>1, <3>1
    <3>3. failCount' <= attempt[c] /\ failCount' <= MaxAttempts
      BY <2>1, <2>4, <3>2
    <3>4. culprits' = 1 /\ blamed' = {c}
      BY <2>1, <2>6, <3>1
    <3> QED
      BY <2>3, <3>3, <3>4 DEF RunIsBlamed
  <2>7. CASE culprits = 2 \/ (culprits = 1 /\ c \notin blamed)
    <3>1. culprits' = 2
      BY <2>1, <2>7
    <3> QED
      BY <3>1 DEF RunIsBlamed
  <2> QED
    BY <1>t, <2>5, <2>6, <2>7
<1>7. CASE UNCHANGED allVars
  BY <1>7, <1>s, <1>t DEF allVars, breakerVars, fetchVars, historyVars, AttemptsOver
<1> QED
  BY <1>1, <1>2, <1>3, <1>4, <1>5, <1>6, <1>7 DEF FNext

\* The invariant of the fetcher, with those of its parts.
THEOREM FetcherInvariance == FSpec => []FetcherInv
<1>1. FetcherInv /\ [FNext]_allVars => FetcherInv'
  <2>1. TBInv /\ [TBNext]_bucketVars => TBInv'
    BY BucketStep
  <2> QED
    BY <2>1, BreakerStep, StepIsBreakerStep, StepIsBucketStep, FetcherTypeStep, OrphanStep,
       BlameStep DEF FetcherInv
<1> QED
  BY <1>1, FetcherInitially, PTL DEF FSpec

\* No path out of fetch() leaves a task behind in the bucket or in the breaker, for any
\* number of callers, retries and cancellations.
THEOREM NobodyIsLeftBehind == FSpec => []NoOrphans
<1>1. FetcherInv => NoOrphans
  BY DEF FetcherInv
<1> QED
  BY <1>1, FetcherInvariance, PTL

\* With fewer attempts than fail_max, as in the code (4 and 5), one fetch alone cannot
\* trip the breaker that all sources share.
THEOREM OneFetchCannotTrip ==
    ASSUME MaxAttempts < FailMax
    PROVE  FSpec => TripNeedsTwoFetches
<1>1. FetcherInv /\ FetcherInv' /\ [FNext]_allVars =>
          [state = "closed" /\ state' = "open" => culprits' >= 2]_allVars
  <2> SUFFICES ASSUME FetcherInv, FetcherInv', FNext, state = "closed", state' = "open"
               PROVE  culprits' >= 2
    OBVIOUS
  <2>1. failCount' >= FailMax
    <3>1. [Next]_vars
      BY StepIsBreakerStep
    <3>2. \E c \in Callers : OnFailure(c)
      BY <3>1 DEF Next, Enter, Leave, vars, Tick,
                  Admit, Reject, AssertFails, OnSuccess,
                  Cancel
    <3> QED
      BY <3>2 DEF OnFailure, Trips
  <2>2. culprits' \in 0..2 /\ (culprits' = 0 => failCount' = 0)
        /\ (culprits' = 1 => failCount' <= MaxAttempts)
    BY DEF FetcherInv, FetcherType, RunIsBlamed
  <2>3. failCount' \in Nat
    BY DEF FetcherInv, BreakerInv, TypeOK
  <2> QED
    BY <2>1, <2>2, <2>3, FetcherAssumption, BreakerAssumption
<1> QED
  BY <1>1, FetcherInvariance, PTL DEF FSpec, TripNeedsTwoFetches
=============================================================================

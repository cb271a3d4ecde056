----------------------------- MODULE TokenBucket -----------------------------
(***************************************************************************)
(* TokenBucket.acquire (infrastructure/resilience/rate_limiter.py).        *)
(*                                                                         *)
(* The unit of tokens and of time is chosen so that one tick of the clock  *)
(* refills one unit: a token costs Cost units (60 / rate_per_min seconds)  *)
(* and the bucket holds at most Burst units.  The float `tokens` is then   *)
(* an integer number of units.  `last` is kept as the age now - last,      *)
(* which saturates at Burst, where the refill's min() makes it irrelevant. *)
(*                                                                         *)
(* asyncio.Lock wakes its waiters first come first served, and acquire()   *)
(* holds the lock across its sleep: the lock and its waiters are one       *)
(* queue, whose head is the holder.                                        *)
(***************************************************************************)
EXTENDS Integers, Sequences, SequencesExt, FetchTasks

CONSTANTS Cost,     \* units of one token = ticks that refill one token
          Burst     \* capacity, in units

ASSUME BucketAssumption == /\ Cost \in Nat \ {0}
                           /\ Burst \in Nat
                           /\ Cost <= Burst

VARIABLES tokens,     \* self.tokens, in units
          sinceLast,  \* now - self.last, saturated at Burst
          queue,      \* holder of _lock followed by its waiters
          sleepLeft,  \* ticks the holder still sleeps, or Awake
          slack       \* history: what a meter that fills at twice the rate, and holds
                      \* one token more, would still let through

bucketVars == <<tokens, sinceLast, queue, sleepLeft, slack>>

Awake == -1
Least(m, n) == IF m <= n THEN m ELSE n

TBInit == /\ tokens = Burst
          /\ sinceLast = 0
          /\ queue = <<>>
          /\ sleepLeft = Awake
          /\ slack = Burst

-----------------------------------------------------------------------------
\* `async with self._lock`: the caller becomes the holder or waits its turn.  A
\* caller that finds the lock free goes on at once; that others may run before
\* its next step here only adds behaviours.
Request(c) ==
    /\ c \notin Range(queue)
    /\ queue' = Append(queue, c)
    /\ UNCHANGED <<tokens, sinceLast, sleepLeft, slack>>

IsHolder(c) == queue # <<>> /\ Head(queue) = c

\* tokens after `min(capacity, tokens + elapsed * refill_rate)`
Refilled == Least(Burst, tokens + sinceLast)

\* The holder finds a whole token and takes it: no await, the lock is released.
TakeNow(c) ==
    /\ IsHolder(c) /\ sleepLeft = Awake
    /\ Refilled >= Cost
    /\ tokens' = Refilled - Cost
    /\ sinceLast' = 0
    /\ queue' = Tail(queue)
    /\ slack' = slack - Cost
    /\ UNCHANGED sleepLeft

\* (mutant) the sleep is one tick short
M_SleepFor(units) == Cost - units - 1

\* sleep_for = (1 - tokens) / refill_rate
SleepFor(units) == Cost - units

\* The holder finds less than a token: it sleeps for the deficit, lock held.
StartSleep(c) ==
    /\ IsHolder(c) /\ sleepLeft = Awake
    /\ Refilled < Cost
    /\ tokens' = Refilled
    /\ sinceLast' = 0
    /\ sleepLeft' = SleepFor(Refilled)
    /\ UNCHANGED <<queue, slack>>

\* The sleep is over: `tokens = 0.0`; `last` keeps the time before the sleep.
WakeUp(c) ==
    /\ IsHolder(c) /\ sleepLeft = 0
    /\ tokens' = 0
    /\ sleepLeft' = Awake
    /\ queue' = Tail(queue)
    /\ slack' = slack - Cost
    /\ UNCHANGED sinceLast

\* The task is cancelled while it waits or sleeps: the lock is passed on, and
\* tokens and `last` stay as the refill left them.
CancelAcquire(c) ==
    \E i \in DOMAIN queue :
        /\ queue[i] = c
        /\ queue' = RemoveAt(queue, i)
        /\ sleepLeft' = IF i = 1 THEN Awake ELSE sleepLeft
        /\ UNCHANGED <<tokens, sinceLast, slack>>

\* The clock advances; an expired sleep may be overslept.
BucketTick ==
    /\ sinceLast' = Least(Burst, sinceLast + 1)
    /\ sleepLeft' = IF sleepLeft > 0 THEN sleepLeft - 1 ELSE sleepLeft
    /\ slack' = Least(Burst + Cost, slack + 2)
    /\ UNCHANGED <<tokens, queue>>

TBNext == \/ BucketTick
          \/ \E c \in Callers : \/ Request(c) \/ TakeNow(c) \/ StartSleep(c)
                                \/ WakeUp(c) \/ CancelAcquire(c)

TBSpec == TBInit /\ [][TBNext]_bucketVars
-----------------------------------------------------------------------------
TBTypeOK ==
    /\ tokens \in 0..Burst
    /\ sinceLast \in 0..Burst
    /\ queue \in Seq(Callers)
    /\ sleepLeft \in {Awake} \cup 0..Cost
    /\ slack \in Int

\* A sleeper pays for its token: what the bucket held when it went to sleep plus
\* the time it has slept and still has to sleep covers one token, also when
\* earlier holders were cancelled in their sleep.
SleepCoversDeficit ==
    sleepLeft # Awake => /\ tokens < Cost
                         /\ tokens + sinceLast + sleepLeft >= Cost

\* Only a lock holder sleeps: no cancellation leaves a sleep behind that would
\* hold up the next waiter.
SleeperHoldsLock == queue = <<>> => sleepLeft = Awake

\* The rate acquire() really keeps: in any stretch of time the tokens granted are at
\* most the burst and one token plus TWICE the refill of that time, since the start
\* the burst plus twice the refill.  Time slept pays for the sleeper's token and,
\* because `last` is not moved, is credited to the next holder again.
TwiceTheRate == slack >= 0

=============================================================================

-------------------------- MODULE ResilientFetcher --------------------------
(***************************************************************************)
(* ResilientHTTPFetcher.fetch (infrastructure/http/client.py): the retry   *)
(* loop of tenacity around one token of the bucket and one call of the     *)
(* breaker.  One fetcher serves the whole application, so the health tick  *)
(* and every crawl request are Callers of the same bucket and breaker.     *)
(*                                                                         *)
(* acquire() returns straight into the prologue of breaker.call(): no      *)
(* await lies between them, so the grant and the prologue are one step.    *)
(* The length of tenacity's exponential wait is abstracted: a caller that  *)
(* backs off may resume at any later time.                                 *)
(*                                                                         *)
(* Init, Next and Spec are those of the breaker, TBInit, TBNext and TBSpec *)
(* those of the bucket; the fetcher's own begin with F.                    *)
(***************************************************************************)
EXTENDS CircuitBreaker, TokenBucket

CONSTANT MaxAttempts    \* stop_after_attempt(4)

ASSUME FetcherAssumption == MaxAttempts \in Nat \ {0}

VARIABLES pc,        \* per caller: where its fetch() is
          attempt,   \* per caller: number of the current attempt
          result,    \* per caller: how its last fetch() ended
          blamed,    \* history: callers whose current fetch is in the failure run
          culprits   \* history: fetches that share the current run of failures

breakerVars == <<state, failCount, openAge, phase, sinceTrip>>
fetchVars == <<pc, attempt, result>>
historyVars == <<blamed, culprits>>
allVars == <<breakerVars, bucketVars, fetchVars, historyVars>>

\* What fetch() can end with: a FetchResult or one of its exceptions.
Retryable == {"rate_limit", "unavailable"}
Final == {"ok", "auth", "permanent", "other", "transient", "assertion", "cancelled"}
Results == {"pending"} \cup Retryable \cup Final

FInit == /\ Init
         /\ TBInit
         /\ pc = [c \in Callers |-> "idle"]
         /\ attempt = [c \in Callers |-> 0]
         /\ result = [c \in Callers |-> "pending"]
         /\ blamed = {}
         /\ culprits = 0

-----------------------------------------------------------------------------
\* (mutant) one attempt too many
M_Exhausted(c) == attempt[c] > MaxAttempts

Exhausted(c) == attempt[c] >= MaxAttempts

\* The attempt of c ended with r: leave fetch() or wait for the next attempt.
Conclude(c, r) ==
    LET again == r \in Retryable /\ ~Exhausted(c)
    IN  /\ pc' = [pc EXCEPT ![c] = IF again THEN "backoff" ELSE "idle"]
        /\ result' = IF again THEN result ELSE [result EXCEPT ![c] = r]

\* (mutant) a retry is not counted
M_Attempt(c) ==
    /\ pc[c] \in {"idle", "backoff"}
    /\ attempt' = [attempt EXCEPT ![c] = 1]
    /\ pc' = [pc EXCEPT ![c] = "acquiring"]
    /\ blamed' = IF pc[c] = "idle" THEN blamed \ {c} ELSE blamed
    /\ result' = [result EXCEPT ![c] = "pending"]
    /\ Request(c)
    /\ UNCHANGED <<breakerVars, culprits>>

\* fetch() is called, or its back-off is over: it queues for a token.
Attempt(c) ==
    /\ pc[c] \in {"idle", "backoff"}
    /\ attempt' = [attempt EXCEPT ![c] = IF pc[c] = "idle" THEN 1 ELSE @ + 1]
    /\ pc' = [pc EXCEPT ![c] = "acquiring"]
    /\ blamed' = IF pc[c] = "idle" THEN blamed \ {c} ELSE blamed
    /\ result' = [result EXCEPT ![c] = "pending"]
    /\ Request(c)
    /\ UNCHANGED <<breakerVars, culprits>>

\* The holder of the bucket's lock finds no whole token and sleeps.
Throttle(c) ==
    /\ pc[c] = "acquiring"
    /\ StartSleep(c)
    /\ UNCHANGED <<breakerVars, fetchVars, historyVars>>

Granted(c) == pc[c] = "acquiring" /\ (TakeNow(c) \/ WakeUp(c))

\* A token, and the breaker lets the request out.
Send(c) ==
    /\ Granted(c)
    /\ Admit(c)
    /\ pc' = [pc EXCEPT ![c] = "sending"]
    /\ UNCHANGED <<attempt, result, historyVars>>

\* A token, and the breaker raises TransientError, which is not retried.
Refuse(c) ==
    /\ Granted(c)
    /\ Reject(c)
    /\ Conclude(c, "transient")
    /\ UNCHANGED <<attempt, historyVars>>

\* A token, and the breaker's assertion fails, which is not retried either.
Wedge(c) ==
    /\ Granted(c)
    /\ AssertFails(c)
    /\ Conclude(c, "assertion")
    /\ UNCHANGED <<attempt, historyVars>>

\* The status code of a response, as the exception it is turned into.
Statuses == {"ok", "rate_limit", "auth", "unavailable", "permanent"}

\* client.get returned: to the breaker every response is a success, whatever
\* its status; only then the status is mapped.
Respond(c, status) ==
    /\ pc[c] = "sending"
    /\ OnSuccess(c)
    /\ Conclude(c, status)
    /\ blamed' = {} /\ culprits' = 0
    /\ UNCHANGED <<bucketVars, attempt>>

\* client.get raised: TransportError becomes SourceUnavailableError, any other
\* Exception passes through fetch() as it is.
Raise(c, error) ==
    /\ pc[c] = "sending"
    /\ OnFailure(c)
    /\ Conclude(c, error)
    /\ blamed' = blamed \cup {c}
    /\ culprits' = IF c \in blamed \/ culprits = 2 THEN culprits ELSE culprits + 1
    /\ UNCHANGED <<bucketVars, attempt>>

\* (mutant) a task cancelled in the bucket's queue stays there
M_Abort(c) ==
    /\ pc[c] # "idle"
    /\ IF pc[c] = "sending" THEN Cancel(c) ELSE UNCHANGED breakerVars
    /\ pc' = [pc EXCEPT ![c] = "idle"]
    /\ result' = [result EXCEPT ![c] = "cancelled"]
    /\ UNCHANGED <<bucketVars, attempt, historyVars>>

\* The task is cancelled while it waits for the bucket, the network or the
\* next attempt.
Abort(c) ==
    /\ pc[c] # "idle"
    /\ IF pc[c] = "acquiring" THEN CancelAcquire(c) ELSE UNCHANGED bucketVars
    /\ IF pc[c] = "sending" THEN Cancel(c) ELSE UNCHANGED breakerVars
    /\ pc' = [pc EXCEPT ![c] = "idle"]
    /\ result' = [result EXCEPT ![c] = "cancelled"]
    /\ UNCHANGED <<attempt, historyVars>>

\* The one clock that the breaker, the bucket and its sleeper read.
FTick == Tick /\ BucketTick /\ UNCHANGED <<fetchVars, historyVars>>

FNext == \/ FTick
         \/ \E c \in Callers :
               \/ Attempt(c) \/ Throttle(c) \/ Send(c) \/ Refuse(c) \/ Wedge(c)
               \/ \E s \in Statuses : Respond(c, s)
               \/ \E e \in {"unavailable", "other"} : Raise(c, e)
               \/ Abort(c)

\* One step of a fetch() in progress, as opposed to the start of one.
Progress(c) == \/ pc[c] = "backoff" /\ Attempt(c)
               \/ Throttle(c) \/ Send(c) \/ Refuse(c) \/ Wedge(c)
               \/ \E s \in Statuses : Respond(c, s)
               \/ \E e \in {"unavailable", "other"} : Raise(c, e)

(* Ready tasks run, timers fire, and httpx's timeout ends every request.    *)
(* Nobody is obliged to start or to cancel a fetch.                         *)
FFairness == /\ WF_allVars(FTick)
             /\ \A c \in Callers : WF_allVars(Progress(c))

FSpec == FInit /\ [][FNext]_allVars
FFairSpec == FSpec /\ FFairness

-----------------------------------------------------------------------------
\* The fetches, the waiters of the bucket and the calls inside the breaker are
\* the same tasks: no path out of fetch() leaves a caller behind in either,
\* where it would hold the bucket's lock or count as a request in flight.
NoOrphans ==
    \A c \in Callers :
        /\ pc[c] = "acquiring" <=> c \in Range(queue)
        /\ pc[c] = "sending" <=> phase[c] # "idle"

\* A source that is down cannot trip the shared breaker with one fetch: its four
\* attempts stay below fail_max = 5.  A breaker that leaves CLOSED has seen
\* failures of at least two fetches since the last response.
TripNeedsTwoFetches ==
    [][state = "closed" /\ state' = "open" => culprits' >= 2]_allVars

\* fetch() returns: neither the bucket's queue nor the breaker nor the retry loop
\* holds a caller for ever.
FetchReturns == \A c \in Callers : pc[c] # "idle" ~> pc[c] = "idle"

\* As long as fetches get as far as the breaker, an OPEN breaker is probed again unless
\* a late success wedges it: restamping by late failures cannot postpone the probe for
\* ever, and there is no third way to get stuck.
OpenIsProbedOrWedged ==
    []<><<\E c \in Callers : Granted(c)>>_allVars
        => (state = "open" ~> (state = "half_open" \/ Wedged))

=============================================================================

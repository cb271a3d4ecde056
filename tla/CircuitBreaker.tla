--------------------------- MODULE CircuitBreaker ---------------------------
(***************************************************************************)
(* AsyncCircuitBreaker (infrastructure/resilience/circuit_breaker.py).     *)
(*                                                                         *)
(* The two locked regions of call() and of the verdicts hold no await, so  *)
(* on the one event loop each of them is a single atomic step; between     *)
(* them the caller is inside `await func(...)` with no lock held, and any  *)
(* other caller may be admitted, rejected, or deliver its verdict.         *)
(*                                                                         *)
(* Two abstractions of data, both exact.  _opened_at is kept as the age    *)
(* now - _opened_at, which saturates at ResetTimeout: call() only asks     *)
(* whether the age has reached it.  _fail_count saturates at FailMax for   *)
(* the same reason.                                                        *)
(***************************************************************************)
EXTENDS Integers, FetchTasks

CONSTANTS FailMax,       \* fail_max
          ResetTimeout   \* reset_timeout, in ticks of the clock

ASSUME BreakerAssumption == /\ FailMax \in Nat \ {0}
                            /\ ResetTimeout \in Nat \ {0}

VARIABLES state,      \* _state
          failCount,  \* _fail_count, saturated at FailMax
          openAge,    \* now - _opened_at, or NoStamp when _opened_at is None
          phase,      \* per caller: outside call(), or the state that admitted it
          sinceTrip   \* history: ticks since _state last became OPEN, saturated

vars == <<state, failCount, openAge, phase, sinceTrip>>

NoStamp == -1
States == {"closed", "open", "half_open"}
Upto(n, cap) == IF n >= cap THEN cap ELSE n

InFlight == {c \in Callers : phase[c] # "idle"}

Init == /\ state = "closed"
        /\ failCount = 0
        /\ openAge = NoStamp
        /\ phase = [c \in Callers |-> "idle"]
        /\ sinceTrip = ResetTimeout

-----------------------------------------------------------------------------
(* The locked prologue of call(): it admits, it rejects with               *)
(* TransientError, or its assertion fails.                                 *)

\* (mutant) a missing stamp counts as long ago
M_Elapsed == openAge = NoStamp \/ openAge >= ResetTimeout

Elapsed == openAge # NoStamp /\ openAge >= ResetTimeout

\* call() goes on to `await func()`; an elapsed OPEN becomes HALF_OPEN first.
Admit(c) ==
    /\ phase[c] = "idle"
    /\ state = "open" => Elapsed
    /\ state' = IF state = "open" THEN "half_open" ELSE state
    /\ phase' = [phase EXCEPT ![c] = state']
    /\ UNCHANGED <<failCount, openAge, sinceTrip>>

\* (mutant) every rejected call renews the stamp
M_Reject(c) ==
    /\ phase[c] = "idle"
    /\ state = "open" /\ openAge # NoStamp /\ ~Elapsed
    /\ openAge' = 0
    /\ UNCHANGED <<state, failCount, phase, sinceTrip>>

\* raise TransientError: nothing changes.
Reject(c) ==
    /\ phase[c] = "idle"
    /\ state = "open" /\ openAge # NoStamp /\ ~Elapsed
    /\ UNCHANGED vars

\* `assert self._opened_at is not None` raises AssertionError.
AssertFails(c) ==
    /\ phase[c] = "idle"
    /\ state = "open" /\ openAge = NoStamp
    /\ UNCHANGED vars

ClearedCount == 0

\* func() returned: _on_success.
OnSuccess(c) ==
    /\ phase[c] # "idle"
    /\ state' = IF state = "half_open" THEN "closed" ELSE state
    /\ failCount' = ClearedCount
    /\ openAge' = NoStamp
    /\ phase' = [phase EXCEPT ![c] = "idle"]
    /\ UNCHANGED sinceTrip

\* (mutant) off by one: more than fail_max failures
M_Trips(count) == state = "half_open" \/ count > FailMax

Trips(count) == state = "half_open" \/ count >= FailMax

\* _opened_at = time.monotonic()
Stamp == 0

\* func() raised an Exception: _on_failure, then the exception goes on.
OnFailure(c) ==
    /\ phase[c] # "idle"
    /\ failCount' = Upto(failCount + 1, FailMax)
    /\ phase' = [phase EXCEPT ![c] = "idle"]
    /\ IF Trips(failCount')
       THEN /\ state' = "open"
            /\ openAge' = Stamp
            /\ sinceTrip' = IF state = "open" THEN sinceTrip ELSE 0
       ELSE UNCHANGED <<state, openAge, sinceTrip>>

\* CancelledError is no Exception: call() ends without a verdict.
Cancel(c) ==
    /\ phase[c] # "idle"
    /\ phase' = [phase EXCEPT ![c] = "idle"]
    /\ UNCHANGED <<state, failCount, openAge, sinceTrip>>

\* time.monotonic() advances.
Tick ==
    /\ openAge' = IF openAge = NoStamp THEN NoStamp
                                       ELSE Upto(openAge + 1, ResetTimeout)
    /\ sinceTrip' = Upto(sinceTrip + 1, ResetTimeout)
    /\ UNCHANGED <<state, failCount, phase>>

Enter(c) == Admit(c) \/ Reject(c) \/ AssertFails(c)
Leave(c) == OnSuccess(c) \/ OnFailure(c) \/ Cancel(c)

Next == \/ Tick
        \/ \E c \in Callers : Enter(c) \/ Leave(c)

Spec == Init /\ [][Next]_vars

-----------------------------------------------------------------------------
(* Properties                                                               *)

TypeOK ==
    /\ state \in States
    /\ failCount \in 0..FailMax
    /\ openAge \in {NoStamp} \cup 0..ResetTimeout
    /\ phase \in [Callers -> {"idle", "closed", "half_open"}]
    /\ sinceTrip \in 0..ResetTimeout

\* A CLOSED breaker has not yet seen fail_max failures in a row, whatever the
\* order in which overlapping calls deliver their verdicts: there is no way
\* back to CLOSED that forgets to clear the count.
ClosedBelowThreshold == state = "closed" => failCount < FailMax

\* Once the breaker trips, no call reaches func() for reset_timeout, whatever
\* late verdicts of calls admitted before the trip still arrive: they may
\* restamp or even erase _opened_at, never shorten the quiet period.
QuietAfterTrip == [][sinceTrip < ResetTimeout => InFlight' \subseteq InFlight]_vars

\* HALF_OPEN keeps the stamp of the OPEN it came from: no step can leave the
\* breaker HALF_OPEN with _opened_at erased or renewed, so the only ways on are
\* the two verdicts.
HalfOpenKeepsStamp == state = "half_open" => openAge = ResetTimeout

\* `assert self._opened_at is not None`: an OPEN breaker carries its stamp.
OpenIsStamped == state = "open" => openAge # NoStamp

\* What it costs when that fails: OPEN without a stamp and with no call still
\* in flight is final, since no caller is ever admitted again.
Wedged == state = "open" /\ openAge = NoStamp /\ InFlight = {}
WedgedIsFinal == [][Wedged => Wedged']_vars

\* At most one caller is inside call() at a time.
Sequential == \A c, d \in InFlight : c = d

=============================================================================

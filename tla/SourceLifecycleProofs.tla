----------------------- MODULE SourceLifecycleProofs -----------------------
(***************************************************************************)
(* The safety properties of SourceLifecycle, for every number of sources   *)
(* and of concurrent admin requests, every threshold, and any number of    *)
(* database errors and creations.                                          *)
(***************************************************************************)
EXTENDS SourceLifecycle, TLAPS

-----------------------------------------------------------------------------
(* The inductive invariant                                                  *)

\* A request holds the object it will write and, from update() on, its second read.
Works == [op : {"enable", "disable", "put"}, at : {"update", "commit"}, source : Sources,
          target : Rows, base : Rows \cup {NoRow}]

LifecycleType ==
    /\ row \in [Sources -> Rows \cup {NoRow}]
    /\ streak \in [Sources -> 0..Threshold]
    /\ tick \in {"idle", "running"}
    /\ todo \subseteq Sources
    /\ snap \in [Sources -> Rows \cup {NoRow}]
    /\ counted \in [Sources -> {NoCount} \cup 0..Threshold]
    /\ dirty \subseteq Sources /\ locked \subseteq Sources
    /\ reread \in [Sources -> Rows \cup {NoRow}]
    /\ req \in [Requests -> Works \cup {IdleReq}]
    /\ failRun \in [Sources -> 0..Threshold]
    /\ undone \subseteq Sources

\* A session that is closed holds nothing.
IdleHoldsNothing == tick = "idle" => /\ todo = {} /\ counted = NoCounts
                                     /\ dirty = {} /\ locked = {}

\* A source that waits for its check has not been counted, and the tick has a copy of it.
WaitingIsUncounted == \A s \in todo : counted[s] = NoCount /\ snap[s] \in Rows

\* A row the tick writes reached the threshold in this very tick.
WritesAreCounted == \A s \in dirty \cup locked : counted[s] = Threshold /\ snap[s] \in Rows

\* A row the tick has flushed is locked, so no request can delete it.
LockedRowsExist == \A s \in locked : Exists(s)

\* What the tick reads as the fail_streak of a source is its run of failures, unless a
\* rollback has undone a check of it; a reset ends the run in any case.
CountIsExact ==
    \A s \in Sources : /\ s \notin undone => Streak(s) = failRun[s]
                       /\ counted[s] = 0 => failRun[s] = 0

LifecycleInv == /\ LifecycleType /\ IdleHoldsNothing /\ WaitingIsUncounted
                /\ WritesAreCounted /\ LockedRowsExist /\ CountIsExact

-----------------------------------------------------------------------------
(* Lemmas on the operators                                                  *)

\* Writing an object back on top of a row gives a row, and a row is not NoRow.
LEMMA MergedIsRow ==
    ASSUME NEW s \in Sources, row[s] \in Rows, NEW target \in Rows, NEW base
    PROVE  Merged(s, base, target) \in Rows
BY DEF Merged, Rows

LEMMA RowIsNotNoRow == \A r \in Rows : r # NoRow
BY DEF Rows, NoRow

\* The object a handler has edited is a row again.
LEMMA EditedIsRow ==
    ASSUME NEW r \in Rows, NEW op \in {"enable", "disable", "put"}, NEW c \in Configs
    PROVE  Edited(r, op, c) \in Rows
<1>1. CASE op = "enable"
  BY <1>1 DEF Edited, Rows
<1>2. CASE op = "disable"
  BY <1>2 DEF Edited, Rows
<1>3. CASE op = "put"
  BY <1>3 DEF Edited, Rows
<1> QED
  BY <1>1, <1>2, <1>3

\* The saturated counter stays in its range, and reaches the threshold exactly when the
\* tick must pause the source.
LEMMA SaturatedRange ==
    ASSUME NEW n \in 0..Threshold
    PROVE  /\ Saturated(n + 1) \in 1..Threshold
           /\ MustPause(Saturated(n + 1)) => Saturated(n + 1) = Threshold
BY LifecycleAssumption DEF Saturated, MustPause

\* What the tick reads as fail_streak is a count.
LEMMA StreakRange ==
    ASSUME LifecycleType, NEW s \in Sources
    PROVE  Streak(s) \in 0..Threshold
BY LifecycleAssumption DEF LifecycleType, Streak, NoCount

\* The requests leave the tick, its counts and the history alone.
RequestStep ==
    \/ \E a \in Requests : ReqStep(a)
    \/ \E a \in Requests, s \in Sources, op \in Ops, c \in Configs : ReqRead(a, s, op, c)
    \/ \E s \in Sources : Delete(s) \/ \E c \in Configs : Create(s, c)

LEMMA RequestFrame == RequestStep => UNCHANGED <<streak, tickVars, history>>
BY DEF RequestStep, ReqStep, ReqRead, ReqReread, ReqCommit, Delete, Create, rowVars,
       tickVars, history

-----------------------------------------------------------------------------
(* The invariant is inductive                                               *)

\* Every source active, nothing counted, nothing held.
LEMMA LifecycleInitially == Init => LifecycleInv
<1> SUFFICES ASSUME Init PROVE LifecycleInv
  OBVIOUS
<1>1. LifecycleType
  BY LifecycleAssumption DEF Init, LifecycleType, NoRows, NoCounts, NoCount
<1>2. CountIsExact
  BY DEF Init, CountIsExact, Streak, NoCounts, NoCount
<1> QED
  BY <1>1, <1>2 DEF Init, LifecycleInv, IdleHoldsNothing, WaitingIsUncounted,
                    WritesAreCounted, LockedRowsExist

\* Types.
LEMMA LifecycleTypeStep == LifecycleInv /\ [Next]_vars => LifecycleType'
<1> SUFFICES ASSUME LifecycleInv, [Next]_vars PROVE LifecycleType'
  OBVIOUS
<1>t. LifecycleType
  BY DEF LifecycleInv
<1>n. NoRows \in [Sources -> Rows \cup {NoRow}] /\ NoCounts \in [Sources -> {NoCount} \cup 0..Threshold]
  BY DEF NoRows, NoCounts
<1>1. CASE TickStart
  BY <1>1, <1>t DEF TickStart, LifecycleType, rowVars, history
<1>2. ASSUME NEW s \in Sources, CheckAlive(s) PROVE LifecycleType'
  <2>1. 0 \in 0..Threshold
    BY LifecycleAssumption
  <2> QED
    BY <1>2, <1>t, <2>1 DEF CheckAlive, ResetTo, Flushed, LifecycleType, rowVars
<1>3. ASSUME NEW s \in Sources, CheckDead(s) PROVE LifecycleType'
  <2>1. Saturated(Streak(s) + 1) \in 0..Threshold /\ Saturated(failRun[s] + 1) \in 0..Threshold
    <3>1. failRun[s] \in 0..Threshold
      BY <1>t DEF LifecycleType
    <3> QED
      BY <1>t, <3>1, SaturatedRange, StreakRange, LifecycleAssumption
  <2> QED
    BY <1>3, <1>t, <2>1 DEF CheckDead, Flushed, LifecycleType, rowVars
<1>4. CASE TickCommit
  <2>1. \A s \in Flushed : s \in Sources /\ row[s] \in Rows /\ snap[s] \in Rows
    BY <1>4, <1>t DEF TickCommit, CanFlush, Flushed, Exists, LifecycleInv, LifecycleType,
                      LockedRowsExist, WritesAreCounted
  <2>2. \A s \in Flushed : Paused(s) \in Rows
    BY <2>1 DEF Paused, Rows
  <2>3. \A s \in Flushed : Merged(s, reread[s], Paused(s)) \in Rows
    BY <2>1, <2>2, MergedIsRow
  <2>4. row' \in [Sources -> Rows \cup {NoRow}]
    BY <1>4, <1>t, <2>3 DEF TickCommit, LifecycleType
  <2>5. streak' \in [Sources -> 0..Threshold]
    BY <1>4, <1>t, StreakRange DEF TickCommit, CommittedStreak
  <2> QED
    BY <1>4, <1>t, <1>n, <2>4, <2>5 DEF TickCommit, TickOver, LifecycleType
<1>5. CASE TickStale \/ TickFault
  BY <1>5, <1>t, <1>n DEF TickStale, TickFault, TickOver, Undo, LifecycleType, rowVars
<1>6. ASSUME NEW a \in Requests, NEW s \in Sources, NEW op \in Ops, NEW c \in Configs,
             ReqRead(a, s, op, c)
      PROVE  LifecycleType'
  <2>1. op \in {"enable", "disable", "put"} /\ row[s] \in Rows
    BY <1>6, <1>t DEF ReqRead, Exists, LifecycleType
  <2>2. Edited(row[s], op, c) \in Rows
    BY <2>1, EditedIsRow
  <2>3. [op |-> op, at |-> "update", source |-> s, target |-> Edited(row[s], op, c),
         base |-> NoRow] \in Works
    BY <2>1, <2>2 DEF Works
  <2> QED
    BY <1>6, <1>t, <2>3 DEF ReqRead, LifecycleType, rowVars, tickVars, history
<1>7. ASSUME NEW a \in Requests, ReqReread(a) PROVE LifecycleType'
  <2>1. req[a] \in Works
    BY <1>7, <1>t DEF ReqReread, LifecycleType
  <2>2. row[req[a].source] \in Rows \cup {NoRow}
    BY <1>t, <2>1 DEF Works, LifecycleType
  <2>3. [req[a] EXCEPT !.at = "commit", !.base = row[req[a].source]] \in Works
    BY <2>1, <2>2 DEF Works
  <2> QED
    BY <1>7, <1>t, <2>3 DEF ReqReread, LifecycleType, rowVars, tickVars, history
<1>8. ASSUME NEW a \in Requests, ReqCommit(a) PROVE LifecycleType'
  <2>1. req[a] \in Works
    BY <1>8, <1>t DEF ReqCommit, LifecycleType
  <2>2. req[a].source \in Sources /\ req[a].target \in Rows
    BY <2>1 DEF Works
  <2>3. Exists(req[a].source) =>
            Merged(req[a].source, req[a].base, req[a].target) \in Rows
    BY <1>t, <2>2, MergedIsRow DEF Exists, LifecycleType
  <2> QED
    BY <1>8, <1>t, <2>2, <2>3 DEF ReqCommit, LifecycleType, tickVars, history
<1>9. ASSUME NEW s \in Sources, Delete(s) PROVE LifecycleType'
  BY <1>9, <1>t DEF Delete, LifecycleType, tickVars, history
<1>10. ASSUME NEW s \in Sources, NEW c \in Configs, Create(s, c) PROVE LifecycleType'
  <2>1. [status |-> "active", config |-> c] \in Rows
    BY DEF Rows
  <2> QED
    BY <1>10, <1>t, <2>1 DEF Create, LifecycleType, tickVars, history
<1>11. CASE UNCHANGED vars
  BY <1>11, <1>t DEF vars, LifecycleType
<1> QED
  BY <1>1, <1>2, <1>3, <1>4, <1>5, <1>6, <1>7, <1>8, <1>9, <1>10, <1>11
  DEF Next, TickStep, ReqStep

\* What the tick holds: a source is counted once, and written at the threshold only.
LEMMA TickHoldsStep ==
    LifecycleInv /\ [Next]_vars => (IdleHoldsNothing /\ WaitingIsUncounted /\ WritesAreCounted)'
<1> DEFINE Goal == IdleHoldsNothing /\ WaitingIsUncounted /\ WritesAreCounted
<1> SUFFICES ASSUME LifecycleInv, [Next]_vars PROVE Goal'
  OBVIOUS
<1>t. LifecycleType /\ IdleHoldsNothing /\ WaitingIsUncounted /\ WritesAreCounted
  BY DEF LifecycleInv
<1> USE DEF IdleHoldsNothing, WaitingIsUncounted, WritesAreCounted
<1>1. CASE TickStart
  <2>1. \A s \in todo' : s \in Sources /\ row[s].status = "active" /\ snap'[s] = row[s]
    BY <1>1 DEF TickStart
  <2>2. \A s \in Sources : row[s].status = "active" => row[s] \in Rows
    BY <1>t DEF LifecycleType, NoRow
  <2>3. \A s \in Sources : counted[s] = NoCount
    BY <1>1, <1>t DEF TickStart, NoCounts
  <2> QED
    BY <1>1, <1>t, <2>1, <2>2, <2>3 DEF TickStart
<1>2. ASSUME NEW s \in Sources, CheckAlive(s) PROVE Goal'
  <2>1. NoCount # Threshold
    BY LifecycleAssumption DEF NoCount
  <2>2. s \notin dirty \cup locked
    BY <1>2, <1>t, <2>1 DEF CheckAlive
  <2> QED
    BY <1>2, <1>t, <2>2 DEF CheckAlive, Flushed, LifecycleType
<1>3. ASSUME NEW s \in Sources, CheckDead(s) PROVE Goal'
  <2> DEFINE n == Saturated(Streak(s) + 1)
  <2>1. MustPause(n) => n = Threshold
    BY <1>t, SaturatedRange, StreakRange
  <2>2. counted' = [counted EXCEPT ![s] = n] /\ snap' = snap /\ tick' = "running"
    BY <1>3 DEF CheckDead
  <2>3. todo' = todo \ {s} /\ s \in todo
    BY <1>3 DEF CheckDead
  <2>4. dirty' \cup locked' \subseteq dirty \cup locked \cup {s}
    BY <1>3 DEF CheckDead, Flushed
  <2>5. s \notin dirty \cup locked
    <3>1. NoCount # Threshold
      BY LifecycleAssumption DEF NoCount
    <3> QED
      BY <1>t, <2>3, <3>1
  <2>6. s \in dirty' \cup locked' => n = Threshold
    BY <1>3, <2>1, <2>5 DEF CheckDead, Flushed
  <2>7. WaitingIsUncounted'
    BY <1>t, <2>2, <2>3 DEF LifecycleType
  <2>8. WritesAreCounted'
    <3> HIDE DEF n
    <3> QED
      BY <1>t, <2>2, <2>3, <2>4, <2>6 DEF LifecycleType
  <2> QED
    BY <2>2, <2>7, <2>8
<1>4. CASE TickCommit \/ TickStale \/ TickFault
  BY <1>4 DEF TickCommit, TickStale, TickFault, TickOver
<1>5. CASE RequestStep
  BY <1>5, <1>t, RequestFrame DEF tickVars
<1>6. CASE UNCHANGED vars
  BY <1>6, <1>t DEF vars
<1> QED
  BY <1>1, <1>2, <1>3, <1>4, <1>5, <1>6 DEF Next, TickStep, RequestStep

\* A locked row is not deleted, and a request that writes it leaves it a row.
LEMMA LockedStep == LifecycleInv /\ [Next]_vars => LockedRowsExist'
<1> SUFFICES ASSUME LifecycleInv, [Next]_vars PROVE LockedRowsExist'
  OBVIOUS
<1>t. LifecycleType /\ LockedRowsExist
  BY DEF LifecycleInv
<1> USE DEF LockedRowsExist, Exists
<1>1. CASE TickStart
  BY <1>1, <1>t DEF TickStart, rowVars
<1>2. ASSUME NEW s \in Sources, CheckAlive(s) \/ CheckDead(s) PROVE LockedRowsExist'
  BY <1>2, <1>t DEF CheckAlive, CheckDead, CanFlush, Flushed, rowVars
<1>3. CASE TickCommit \/ TickStale \/ TickFault
  BY <1>3 DEF TickCommit, TickStale, TickFault, TickOver
<1>4. ASSUME NEW a \in Requests, ReqCommit(a) PROVE LockedRowsExist'
  BY <1>4, <1>t DEF ReqCommit, LifecycleType, tickVars
<1>5. ASSUME NEW s \in Sources, Delete(s) PROVE LockedRowsExist'
  BY <1>5, <1>t DEF Delete, Unlocked, LifecycleType, tickVars
<1>6. ASSUME NEW s \in Sources, NEW c \in Configs, Create(s, c) PROVE LockedRowsExist'
  BY <1>6, <1>t DEF Create, LifecycleType, tickVars
<1>7. ASSUME NEW a \in Requests, NEW s \in Sources, NEW op \in Ops, NEW c \in Configs,
             ReqRead(a, s, op, c)
      PROVE  LockedRowsExist'
  BY <1>7, <1>t DEF ReqRead, rowVars, tickVars
<1>8. ASSUME NEW a \in Requests, ReqReread(a) PROVE LockedRowsExist'
  BY <1>8, <1>t DEF ReqReread, rowVars, tickVars
<1>9. CASE UNCHANGED vars
  BY <1>9, <1>t DEF vars
<1> QED
  BY <1>1, <1>2, <1>3, <1>4, <1>5, <1>6, <1>7, <1>8, <1>9 DEF Next, TickStep, ReqStep

\* The count and the run of failures move together; a rollback parts them, and a reset
\* that is committed brings them together again.
LEMMA CountStep == LifecycleInv /\ [Next]_vars => CountIsExact'
<1> SUFFICES ASSUME LifecycleInv, [Next]_vars PROVE CountIsExact'
  OBVIOUS
<1>t. LifecycleType /\ IdleHoldsNothing /\ WaitingIsUncounted /\ CountIsExact
  BY DEF LifecycleInv
<1> USE DEF CountIsExact
<1>1. CASE TickStart
  BY <1>1, <1>t DEF TickStart, Streak, rowVars, history
<1>2. ASSUME NEW s \in Sources, CheckAlive(s) PROVE CountIsExact'
  <2>1. counted' = [counted EXCEPT ![s] = 0] /\ failRun' = [failRun EXCEPT ![s] = 0]
        /\ streak' = streak /\ undone' = undone
    BY <1>2 DEF CheckAlive, ResetTo, rowVars
  <2> QED
    BY <1>t, <2>1 DEF Streak, NoCount, LifecycleType
<1>3. ASSUME NEW s \in Sources, CheckDead(s) PROVE CountIsExact'
  <2> DEFINE n == Saturated(Streak(s) + 1)
  <2>1. counted' = [counted EXCEPT ![s] = n] /\ streak' = streak /\ undone' = undone
    BY <1>3 DEF CheckDead, rowVars
  <2>2. failRun' = [failRun EXCEPT ![s] = Saturated(failRun[s] + 1)]
    BY <1>3 DEF CheckDead
  <2>3. n \in 1..Threshold
    BY <1>t, SaturatedRange, StreakRange
  <2>4. s \notin undone => n = Saturated(failRun[s] + 1)
    BY <1>t
  <2> HIDE DEF n
  <2> QED
    BY <1>t, <2>1, <2>2, <2>3, <2>4 DEF Streak, NoCount, LifecycleType
<1>4. CASE TickCommit
  <2>1. \A s \in Sources : counted'[s] = NoCount /\ streak'[s] = Streak(s)
    BY <1>4 DEF TickCommit, TickOver, NoCounts, CommittedStreak
  <2>2. failRun' = failRun /\ undone' = {s \in undone : counted[s] # 0}
    BY <1>4 DEF TickCommit
  <2>3. \A s \in Sources : Streak(s)' = Streak(s)
    BY <2>1 DEF Streak
  <2>4. \A s \in Sources : counted[s] = 0 => Streak(s) = 0
    BY DEF Streak, NoCount
  <2>5. \A s \in Sources : counted'[s] # 0
    BY <2>1 DEF NoCount
  <2> QED
    BY <1>t, <2>2, <2>3, <2>4, <2>5
<1>5. CASE TickStale \/ TickFault
  <2>1. \A s \in Sources : counted'[s] = NoCount /\ streak'[s] = streak[s]
    BY <1>5 DEF TickStale, TickFault, TickOver, NoCounts, rowVars
  <2>2. failRun' = failRun /\ undone' = undone \cup {s \in Sources : counted[s] # NoCount}
    BY <1>5 DEF TickStale, TickFault, Undo
  <2> QED
    BY <1>t, <2>1, <2>2 DEF Streak, NoCount
<1>6. CASE RequestStep
  BY <1>6, <1>t, RequestFrame DEF tickVars, history, Streak
<1>7. CASE UNCHANGED vars
  BY <1>7, <1>t DEF vars, Streak
<1> QED
  BY <1>1, <1>2, <1>3, <1>4, <1>5, <1>6, <1>7 DEF Next, TickStep, RequestStep

\* The invariant holds in every behaviour.
THEOREM LifecycleInvariance == Spec => []LifecycleInv
<1>1. LifecycleInv /\ [Next]_vars => LifecycleInv'
  BY LifecycleTypeStep, TickHoldsStep, LockedStep, CountStep DEF LifecycleInv
<1> QED
  BY <1>1, LifecycleInitially, PTL DEF Spec

-----------------------------------------------------------------------------
(* What the runs check                                                      *)

\* fail_streak counts the failures since a source was last alive, through any edits,
\* pauses, deletions and re-creations, whatever the number of sources and the threshold.
THEOREM StreaksAreExact == Spec => []StreakIsExact
<1>1. LifecycleInv => StreakIsExact
  BY DEF LifecycleInv, IdleHoldsNothing, CountIsExact, StreakIsExact, Streak, NoCounts
<1> QED
  BY <1>1, LifecycleInvariance, PTL

\* The step that ends a tick writes only rows that the tick holds.
LEMMA TickEnds ==
    ASSUME LifecycleInv, [Next]_vars, tick = "running", tick' = "idle", NEW s \in Sources
    PROVE  \/ row'[s] = row[s]
           \/ TickCommit /\ s \in Flushed /\ Exists(s)
<1>1. CASE TickCommit
  BY <1>1 DEF TickCommit, CanFlush, Flushed, LifecycleInv, LockedRowsExist
<1>2. CASE TickStale \/ TickFault
  BY <1>2 DEF TickStale, TickFault, rowVars
<1>3. CASE TickStart
  BY <1>3 DEF TickStart
<1>4. CASE \E t \in Sources : CheckAlive(t) \/ CheckDead(t)
  BY <1>4 DEF CheckAlive, CheckDead
<1>5. CASE RequestStep
  BY <1>5, RequestFrame DEF tickVars
<1>6. CASE UNCHANGED vars
  BY <1>6 DEF vars
<1> QED
  BY <1>1, <1>2, <1>3, <1>4, <1>5, <1>6 DEF Next, TickStep, RequestStep

\* No tick brings a deleted source back, however old its copies are.
THEOREM DeletedStaysDeleted == Spec => NoResurrection
<1>1. LifecycleInv /\ [Next]_vars =>
          [tick = "running" /\ tick' = "idle" =>
               \A s \in Sources : ~Exists(s) => row'[s] = NoRow]_vars
  BY TickEnds DEF Exists
<1> QED
  BY <1>1, LifecycleInvariance, PTL DEF Spec, NoResurrection

\* No fault parts a pause from the count that caused it.
THEOREM PausesAreCounted == Spec => PauseHasItsStreak
<1>1. ASSUME LifecycleInv, [Next]_vars, tick = "running", tick' = "idle", NEW s \in Sources,
             row[s].status # "paused", row'[s].status = "paused"
      PROVE  streak'[s] = Threshold
  <2>1. TickCommit /\ s \in Flushed
    BY <1>1, TickEnds
  <2>2. counted[s] = Threshold /\ Threshold # NoCount
    BY <1>1, <2>1, LifecycleAssumption DEF LifecycleInv, WritesAreCounted, Flushed, NoCount
  <2> QED
    BY <2>1, <2>2 DEF TickCommit, CommittedStreak, Streak
<1>2. LifecycleInv /\ [Next]_vars =>
          [tick = "running" /\ tick' = "idle" =>
               \A s \in Sources : row[s].status # "paused" /\ row'[s].status = "paused"
                                      => streak'[s] = Threshold]_vars
  BY <1>1
<1> QED
  BY <1>2, LifecycleInvariance, PTL DEF Spec, PauseHasItsStreak
=============================================================================

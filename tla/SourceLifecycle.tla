-------------------------- MODULE SourceLifecycle --------------------------
(***************************************************************************)
(* The life of a data source between its two writers: the health tick      *)
(* (_health_tick in app.py, health_check_loop, the health and source       *)
(* repositories) and the admin requests of routers/sources.py.             *)
(*                                                                         *)
(* Each writer has a database transaction of its own (READ COMMITTED, as   *)
(* in the PostgreSQL of docker-compose.yml).  A writer first turns rows    *)
(* into domain objects, works on those, and update() then reads the row    *)
(* AGAIN and assigns every column.  The unit of work sends the columns     *)
(* that differ from that second read when it is flushed: by the next query *)
(* of the same session or by commit.  A flushed row stays locked until the *)
(* transaction ends; an UPDATE of a row that is gone raises StaleDataError.*)
(*                                                                         *)
(* A row is its status and its config, which stands for the other columns. *)
(* fail_streak saturates at Threshold: it is only compared with it.        *)
(***************************************************************************)
EXTENDS Integers, FiniteSets

CONSTANTS Sources,    \* source ids
          Requests,   \* concurrent admin requests
          Configs,    \* values of the columns an admin edits
          Threshold,  \* health_check_fail_threshold
          Ops,        \* operations the admins use in this instance
          Dead,       \* sources whose check fails every time
          MaxFaults,  \* bound on the database errors that hit a tick
          MaxCreates  \* bound on the sources created

ASSUME LifecycleAssumption ==
    /\ Threshold \in Nat \ {0}
    /\ Ops \subseteq {"enable", "disable", "put", "delete", "create"}
    /\ Dead \subseteq Sources
    /\ MaxFaults \in Nat /\ MaxCreates \in Nat

VARIABLES row,      \* table sources, committed
          streak,   \* table source_health, committed; no row reads as 0
          tick,     \* the tick: idle or running
          todo,     \* the tick's sources not checked yet
          snap,     \* the tick's domain objects
          counted,  \* the tick's uncommitted fail_streak writes
          dirty,    \* sources whose row update the tick has not flushed (at most one)
          locked,   \* sources whose row update the tick has flushed
          reread,   \* the rows as the tick's update() read them
          req,      \* per admin request: what it is doing
          faults,   \* database errors so far
          creates,  \* creations so far
          failRun,  \* history: failed checks of a source since it was last alive
          undone    \* history: sources with a check undone by a rollback since then

rowVars == <<row, streak>>
tickVars == <<tick, todo, snap, counted, dirty, locked, reread>>
vars == <<row, streak, tick, todo, snap, counted, dirty, locked, reread, req,
          faults, creates, failRun, undone>>
history == <<failRun, undone>>

NoRow == [status |-> "none", config |-> "none"]
Rows == [status : {"active", "paused", "disabled"}, config : Configs]
Exists(s) == row[s] # NoRow
NoCount == -1
Saturated(n) == IF n >= Threshold THEN Threshold ELSE n

IdleReq == [op |-> "idle"]
NoRows == [s \in Sources |-> NoRow]
NoCounts == [s \in Sources |-> NoCount]

Init ==
    /\ row \in [Sources -> {r \in Rows : r.status = "active"}]
    /\ streak = [s \in Sources |-> 0]
    /\ tick = "idle"
    /\ todo = {}
    /\ snap = NoRows
    /\ counted = NoCounts
    /\ dirty = {} /\ locked = {}
    /\ reread = NoRows
    /\ req = [a \in Requests |-> IdleReq]
    /\ faults = 0
    /\ creates = 0
    /\ failRun = [s \in Sources |-> 0]
    /\ undone = {}

-----------------------------------------------------------------------------
(* Writing a domain object back                                             *)

\* The columns in which target differs from the second read, on top of the
\* row as it is by now.
Merged(s, base, target) ==
    [status |-> IF target.status # base.status THEN target.status ELSE row[s].status,
     config |-> IF target.config # base.config THEN target.config ELSE row[s].config]

(* The health tick                                                          *)

\* Session opened, registry.active(): one tick at a time (max_instances=1).
TickStart ==
    /\ tick = "idle"
    /\ tick' = "running"
    /\ todo' = {s \in Sources : row[s].status = "active"}
    /\ snap' = [s \in Sources |-> IF row[s].status = "active" THEN row[s] ELSE NoRow]
    /\ UNCHANGED <<rowVars, counted, dirty, locked, reread, req, faults, creates, history>>

\* The tick's session is closed: what it held is gone.
TickOver ==
    /\ tick' = "idle" /\ todo' = {} /\ snap' = NoRows /\ counted' = NoCounts
    /\ dirty' = {} /\ locked' = {} /\ reread' = NoRows

\* (mutant) the flush writes the row whether it is still there or not
M_CanFlush == TRUE

\* The tick's session flushes before its next query.
CanFlush == \A s \in dirty : Exists(s)
Flushed == locked \cup dirty

Streak(s) == IF counted[s] # NoCount THEN counted[s] ELSE streak[s]

\* (mutant) an alive source keeps its count
M_ResetTo(s) == Streak(s)

ResetTo(s) == 0

\* svc.check(s) answered alive: reset.
CheckAlive(s) ==
    /\ tick = "running" /\ s \in todo /\ s \notin Dead
    /\ CanFlush
    /\ locked' = Flushed /\ dirty' = {}
    /\ todo' = todo \ {s}
    /\ counted' = [counted EXCEPT ![s] = ResetTo(s)]
    /\ failRun' = [failRun EXCEPT ![s] = 0]
    /\ UNCHANGED <<rowVars, tick, snap, reread, req, faults, creates, undone>>

\* (mutant) the pause comes one failure late
M_MustPause(n) == n > Threshold

MustPause(n) == n >= Threshold

\* svc.check(s) answered dead: increment, and at the threshold update(s) with the
\* tick's own copy of the source, unless the row is gone by now.
CheckDead(s) ==
    /\ tick = "running" /\ s \in todo
    /\ CanFlush
    /\ LET n == Saturated(Streak(s) + 1) IN
       /\ counted' = [counted EXCEPT ![s] = n]
       /\ dirty' = IF MustPause(n) /\ Exists(s) THEN {s} ELSE {}
       /\ reread' = IF MustPause(n) /\ Exists(s) THEN [reread EXCEPT ![s] = row[s]]
                                                ELSE reread
    /\ locked' = Flushed
    /\ todo' = todo \ {s}
    /\ failRun' = [failRun EXCEPT ![s] = Saturated(@ + 1)]
    /\ UNCHANGED <<rowVars, tick, snap, req, faults, creates, undone>>

Paused(s) == [snap[s] EXCEPT !.status = "paused"]

\* (mutant) the counts of the paused sources are lost
M_CommittedStreak == [s \in Sources |-> IF s \in Flushed THEN streak[s] ELSE Streak(s)]

CommittedStreak == [s \in Sources |-> Streak(s)]

\* All sources checked: session.commit().
TickCommit ==
    /\ tick = "running" /\ todo = {}
    /\ CanFlush
    /\ row' = [s \in Sources |-> IF s \in Flushed THEN Merged(s, reread[s], Paused(s))
                                                  ELSE row[s]]
    /\ streak' = CommittedStreak
    /\ TickOver
    /\ undone' = {s \in undone : counted[s] # 0}
    /\ UNCHANGED <<req, faults, creates, failRun>>

\* What the tick has counted and reset is rolled back with it.
Undo == undone' = undone \cup {s \in Sources : counted[s] # NoCount}

\* The flush hits a row that was deleted meanwhile: StaleDataError, rollback.
TickStale ==
    /\ tick = "running" /\ ~CanFlush
    /\ TickOver /\ Undo
    /\ UNCHANGED <<rowVars, req, faults, creates, failRun>>

\* A database error, or the service is stopped in mid-tick: rollback.
TickFault ==
    /\ tick = "running" /\ faults < MaxFaults
    /\ TickOver
    /\ faults' = faults + 1
    /\ Undo
    /\ UNCHANGED <<rowVars, req, creates, failRun>>

-----------------------------------------------------------------------------
(* Admin requests                                                           *)

\* What the handler makes of the domain object it has read.
Edited(r, op, c) == CASE op = "enable" -> [r EXCEPT !.status = "active"]
                      [] op = "disable" -> [r EXCEPT !.status = "disabled"]
                      [] op = "put" -> [r EXCEPT !.config = c]

\* enable_source, disable_source, update_source: repo.get; 404 when missing.
ReqRead(a, s, op, c) ==
    /\ req[a] = IdleReq
    /\ op \in Ops \cap {"enable", "disable", "put"}
    /\ Exists(s)
    /\ req' = [req EXCEPT ![a] = [op |-> op, at |-> "update", source |-> s,
                                  target |-> Edited(row[s], op, c), base |-> NoRow]]
    /\ UNCHANGED <<rowVars, tickVars, faults, creates, history>>

\* repo.update reads the row again; on a row that is gone it returns and the
\* request answers as if it had worked.
ReqReread(a) ==
    /\ req[a] # IdleReq /\ req[a].at = "update"
    /\ req' = [req EXCEPT ![a] = IF Exists(req[a].source)
                                 THEN [req[a] EXCEPT !.at = "commit", !.base = row[req[a].source]]
                                 ELSE IdleReq]
    /\ UNCHANGED <<rowVars, tickVars, faults, creates, history>>

\* session.commit(): waits for the tick's row lock; StaleDataError when gone.
ReqCommit(a) ==
    /\ req[a] # IdleReq /\ req[a].at = "commit"
    /\ LET s == req[a].source IN
       /\ s \notin locked
       /\ row' = IF Exists(s)
                 THEN [row EXCEPT ![s] = Merged(s, req[a].base, req[a].target)]
                 ELSE row
    /\ req' = [req EXCEPT ![a] = IdleReq]
    /\ UNCHANGED <<streak, tickVars, faults, creates, history>>

Unlocked(s) == s \notin locked

\* delete_source: get, delete and commit; the source_health row stays.
Delete(s) ==
    /\ "delete" \in Ops
    /\ Exists(s) /\ Unlocked(s)
    /\ row' = [row EXCEPT ![s] = NoRow]
    /\ UNCHANGED <<streak, tickVars, req, faults, creates, history>>

\* create_source with a client id that is free: an ACTIVE row.
Create(s, c) ==
    /\ "create" \in Ops /\ creates < MaxCreates
    /\ ~Exists(s)
    /\ row' = [row EXCEPT ![s] = [status |-> "active", config |-> c]]
    /\ creates' = creates + 1
    /\ UNCHANGED <<streak, tickVars, req, faults, history>>

TickStep == \/ TickCommit \/ TickStale
            \/ \E s \in Sources : CheckAlive(s) \/ CheckDead(s)
ReqStep(a) == ReqReread(a) \/ ReqCommit(a)

Next ==
    \/ TickStart \/ TickStep \/ TickFault
    \/ \E a \in Requests : ReqStep(a)
    \/ \E a \in Requests, s \in Sources, op \in Ops, c \in Configs : ReqRead(a, s, op, c)
    \/ \E s \in Sources : Delete(s) \/ \E c \in Configs : Create(s, c)

Spec == Init /\ [][Next]_vars

(* The scheduler fires every 300 s, every fetch of a check ends, requests   *)
(* that have begun are carried through.  Nobody has to send a request.      *)
FairSpec == /\ Spec
            /\ WF_vars(TickStart) /\ WF_vars(TickStep)
            /\ \A a \in Requests : WF_vars(ReqStep(a))

-----------------------------------------------------------------------------
\* The tick works on copies that may be minutes old, yet it never brings a
\* deleted source back: a row appears only by create_source.
NoResurrection ==
    [][tick = "running" /\ tick' = "idle" =>
           \A s \in Sources : ~Exists(s) => row'[s] = NoRow]_vars

\* A pause by the tick and the count that caused it are committed together: no
\* fault leaves a source paused whose fail_streak says it should not be.
PauseHasItsStreak ==
    [][tick = "running" /\ tick' = "idle" =>
           \A s \in Sources : row[s].status # "paused" /\ row'[s].status = "paused"
                                  => streak'[s] = Threshold]_vars

\* Between ticks fail_streak is the number of failed checks since the source was
\* last alive, through any edits, pauses, deletions and re-creations of its id:
\* this is what "fail_streak persists across runs" means.  Only a check that a
\* rollback has undone is missing, and only until the source is alive again.
StreakIsExact == tick = "idle" => \A s \in Sources \ undone : streak[s] = failRun[s]

\* A source that is down is taken out of rotation, however often admins edit,
\* disable or re-enable it meanwhile.
DeadLeavesRotation ==
    \A s \in Dead : row[s].status = "active" ~> row[s].status # "active"

=============================================================================

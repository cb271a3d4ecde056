------------------------------ MODULE Lifespan ------------------------------
(***************************************************************************)
(* The life of the service: lifespan() of interfaces/api/app.py around the *)
(* demo data of Seed.  Start-up migrates or creates the tables (failures   *)
(* are logged and swallowed), creates the configured users (failures abort *)
(* it), seeds an empty database and starts the scheduler; shutdown waits   *)
(* for the requests, stops the scheduler and closes fetcher and engine,    *)
(* while the health tick may be at work.  The process can die anywhere.    *)
(*                                                                         *)
(* The database is persistent and the environment not production, where    *)
(* neither seeding takes place; every start may be configured differently. *)
(***************************************************************************)
EXTENDS Seed, Sequences

VARIABLES phase,    \* where lifespan() is
          env,      \* what is configured for this start, until it is over
          tables,   \* the tables there are
          stamped,  \* alembic_version says that the schema is at its head
          tick,     \* the health tick: where it waits, what it has in its transaction
          stop,     \* the scheduler: no, posted, late, done (see ShutDown)
          blamed    \* history: a failure caused by the shutdown was committed

schemaVars == <<tables, stamped>>
tickVars == <<tick, stop, blamed>>
lifeVars == <<vars, phase, env, schemaVars, tickVars>>

Environments == [migrate : BOOLEAN, bootstrap : BOOLEAN, users : BOOLEAN, seed : BOOLEAN]
NoEnv == [migrate |-> FALSE, bootstrap |-> FALSE, users |-> FALSE, seed |-> FALSE]
NoTick == [at |-> "idle", bogus |-> FALSE]

LInit == /\ Init
         /\ phase = "down"
         /\ env = NoEnv
         /\ tables = {} /\ stamped = FALSE
         /\ tick = NoTick /\ stop = "done" /\ blamed = FALSE

Enter(next) == phase' = next /\ UNCHANGED env

-----------------------------------------------------------------------------
(* Start-up                                                                 *)

Start(e) ==
    /\ phase = "down"
    /\ phase' = "migrating" /\ env' = e
    /\ UNCHANGED <<vars, schemaVars, tickVars>>

\* The order in which upgrade() and create_all create them.
UpgradeOrder == <<"jobs", "programs", "source_health", "sources", "users">>
CreateOrder == <<"sources", "programs", "jobs", "users", "source_health">>
Tables == {UpgradeOrder[i] : i \in DOMAIN UpgradeOrder}
FirstOf(order, n) == {order[i] : i \in 1..n}

\* (mutant) the migration tolerates tables that are there
M_Blocked(n) == FALSE

\* upgrade() stops at its n-th table: op.create_table does not tolerate an existing one.
Blocked(n) == UpgradeOrder[n] \in tables

\* TV_LIST_AUTO_MIGRATE: the upgrade goes through (or has nothing to do)...
Migrate ==
    /\ phase = "migrating" /\ env.migrate
    /\ stamped \/ \A n \in DOMAIN UpgradeOrder : ~Blocked(n)
    /\ tables' = IF stamped THEN tables ELSE Tables
    /\ stamped' = TRUE
    /\ Enter("creating")
    /\ UNCHANGED <<vars, tickVars>>

\* ...is switched off, or fails after n tables; where DDL is transactional, after none.
MigrateNot ==
    /\ phase = "migrating"
    /\ \/ UNCHANGED tables
       \/ /\ env.migrate /\ ~stamped
          /\ \E n \in DOMAIN UpgradeOrder : /\ \A i \in 1..n : ~Blocked(i)
                                            /\ tables' = tables \cup FirstOf(UpgradeOrder, n)
    /\ Enter("creating")
    /\ UNCHANGED <<vars, stamped, tickVars>>

\* TV_LIST_BOOTSTRAP_SCHEMA: create_all adds the tables that are missing, or fails after
\* n of them, or is switched off.
Bootstrap ==
    /\ phase = "creating"
    /\ \/ ~env.bootstrap /\ UNCHANGED tables
       \/ /\ env.bootstrap
          /\ \E n \in 0..Len(CreateOrder) : tables' = tables \cup FirstOf(CreateOrder, n)
    /\ Enter("users")
    /\ UNCHANGED <<vars, stamped, tickVars>>

\* _seed_default_users, the only step of the start-up that is allowed to fail it.
SeedUsers ==
    /\ phase = "users"
    /\ IF env.users /\ "users" \notin tables
       THEN phase' = "down" /\ env' = NoEnv
       ELSE Enter("seeding")
    /\ UNCHANGED <<vars, schemaVars, tickVars>>

SeedTables == {"sources", "programs", "jobs"}

\* Auto-seed, unless TV_LIST_AUTO_SEED is "0": the call is made...
AutoSeed(c) ==
    /\ phase = "seeding" /\ env.seed /\ SeedTables \subseteq tables
    /\ Boot(c)
    /\ UNCHANGED <<phase, env, schemaVars, tickVars>>

\* ...or not...
NoAutoSeed ==
    /\ phase = "seeding" /\ ~env.seed /\ SeedTables \subseteq tables
    /\ Open
    /\ UNCHANGED <<phase, env, schemaVars, tickVars>>

\* ...and over, or has failed for want of a table; the scheduler is started.
StartScheduler ==
    /\ phase = "seeding"
    /\ up = "serving" \/ (up = "down" /\ ~(SeedTables \subseteq tables))
    /\ phase' = "serving" /\ env' = NoEnv
    /\ stop' = "no"
    /\ UNCHANGED <<vars, schemaVars, tick, blamed>>

-----------------------------------------------------------------------------
(* The health tick                                                          *)

\* (mutant) the fetcher is closed before the scheduler is told to stop
M_Closed == phase # "serving"

\* aclose() has marked the client as closed: a check fails without a request.
Closed == stop # "no"

\* Until the scheduler has stopped; what was ready to run when that was posted
\* runs for one more step.
MayStep == stop \in {"no", "posted"}
TickGoes(t) ==
    /\ tick' = t
    /\ stop' = IF stop = "posted" THEN "late" ELSE stop
    /\ UNCHANGED <<vars, phase, env, schemaVars>>

\* One tick at a time; it waits for the list of the sources.
TickStart ==
    /\ tick.at = "idle" /\ MayStep /\ {"sources", "source_health"} \subseteq tables
    /\ TickGoes([NoTick EXCEPT !.at = "database"])
    /\ UNCHANGED blamed

\* The database has answered: the next source is checked.  On a closed client
\* the check ends at once, as a failure, and the loop goes on to count it.
TickChecks ==
    /\ tick.at = "database" /\ MayStep
    /\ TickGoes(IF Closed THEN [tick EXCEPT !.bogus = TRUE] ELSE [tick EXCEPT !.at = "source"])
    /\ UNCHANGED blamed

\* The source has answered, or not: streak and status are written.
TickCounts ==
    /\ tick.at = "source" /\ MayStep
    /\ TickGoes([tick EXCEPT !.at = "database"])
    /\ UNCHANGED blamed

\* That was the last source: commit...
TickEnds ==
    /\ tick.at = "database" /\ MayStep
    /\ TickGoes([tick EXCEPT !.at = "commit"])
    /\ UNCHANGED blamed

\* ...done.
TickCommits ==
    /\ tick.at = "commit" /\ MayStep
    /\ blamed' = (blamed \/ tick.bogus)
    /\ TickGoes(NoTick)

Tick == TickStart \/ TickChecks \/ TickCounts \/ TickEnds \/ TickCommits

-----------------------------------------------------------------------------
(* Shutdown                                                                 *)

\* The server has answered its last request; lifespan sleeps for five seconds.
Drain ==
    /\ phase = "serving"
    /\ Stop \/ (up = "down" /\ UNCHANGED vars)
    /\ Enter("draining")
    /\ UNCHANGED <<schemaVars, tickVars>>

\* scheduler.shutdown() posts its work to the event loop, and fetcher.aclose() marks
\* the client as closed: no await in between.
ShutDown ==
    /\ phase = "draining"
    /\ Enter("closing")
    /\ stop' = "posted"
    /\ UNCHANGED <<vars, schemaVars, tick, blamed>>

\* The scheduler stops and cancels a tick at work, whose session rolls back.
SchedulerStops ==
    /\ phase = "closing" /\ stop \in {"posted", "late"}
    /\ stop' = "done" /\ tick' = NoTick
    /\ UNCHANGED <<vars, phase, env, schemaVars, blamed>>

\* engine.dispose(); the process ends.
Dispose ==
    /\ phase = "closing" /\ stop = "done"
    /\ Enter("down")
    /\ UNCHANGED <<vars, schemaVars, tickVars>>

\* Bounded by MaxCrashes.
Die ==
    /\ phase # "down" /\ Crash
    /\ phase' = "down" /\ env' = NoEnv
    /\ tick' = NoTick /\ stop' = "done"
    /\ UNCHANGED <<schemaVars, blamed>>

-----------------------------------------------------------------------------
Progress == Migrate \/ MigrateNot \/ Bootstrap \/ SeedUsers \/ StartScheduler
            \/ ShutDown \/ SchedulerStops \/ Dispose

\* A call of the demo data at work; new ones, and edits of the sources, only while the
\* service serves.
Work(c) == Step(c) /\ UNCHANGED <<phase, env, schemaVars, tickVars>>
Ask(c) == /\ phase = "serving"
          /\ StartSeed(c) \/ StartReseed(c)
          /\ UNCHANGED <<phase, env, schemaVars, tickVars>>
EditSource(s) == phase = "serving" /\ Edit(s) /\ UNCHANGED <<phase, env, schemaVars, tickVars>>

LNext == \/ \E e \in Environments : Start(e)
         \/ \E c \in Calls : AutoSeed(c) \/ Work(c) \/ Ask(c)
         \/ \E s \in Sources : EditSource(s)
         \/ NoAutoSeed \/ Progress \/ Tick \/ Drain \/ Die

\* A service that is down is started again, and what has begun goes on.
LSpec == /\ LInit /\ [][LNext]_lifeVars
         /\ WF_lifeVars(\E e \in Environments : Start(e)) /\ WF_lifeVars(Progress)
         /\ WF_lifeVars(NoAutoSeed \/ \E c \in Calls : AutoSeed(c))
         /\ \A c \in Calls : WF_lifeVars(Work(c))

-----------------------------------------------------------------------------
\* A shutdown is no failure of the sources: the health tick that is caught by it may
\* fail on the closed client, but never commits a failure counted there.
ShutdownIsNoFailure == ~blamed

\* A database that has tables without alembic's stamp, because they were bootstrapped
\* or an earlier migration stopped half-way, is out of reach of every later migration:
\* each stops at the first table that is there, and the service starts all the same.
UnstampedIsFinal == [][tables # {} /\ ~stamped => ~stamped']_lifeVars

\* A complete but empty database is seeded by a later start that has auto-seed on, also
\* after a crash between the two transactions of reset_and_seed.  With TV_LIST_AUTO_SEED
\* "0" at every start nothing brings the demo data back but a call of the admin.
DemoReturns == []<>(phase = "seeding" /\ env.seed) => ((tables = Tables /\ Empty) ~> ~Empty)
=============================================================================

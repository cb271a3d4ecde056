--------------------------- MODULE LifespanProofs ---------------------------
(***************************************************************************)
(* The safety properties of Lifespan and of the demo data in it, for every *)
(* number of calls, batches and crashes.                                   *)
(***************************************************************************)
EXTENDS Lifespan, FiniteSetTheorems, TLAPS

-----------------------------------------------------------------------------
(* Demo data                                                                *)

\* What makes SeedIsIdempotent inductive: until a batch crosses a reset, every batch in
\* the tables but one was left there by a DELETE that freed the demo ids, that one too
\* while they are free, and a reset that is under way has doomed all that it has read.
BatchesAreCounted ==
    /\ \A k \in Kinds : IsFiniteSet(rows[k])
    /\ ~crossed => \A k \in Kinds :
                       Cardinality(rows[k]) <= freed + (IF Conflicts THEN 1 ELSE 0)
ResetTakesAll ==
    ~crossed => \A c \in Calls :
        /\ Resetting(c) => rows["programs"] \subseteq doomed[c]["programs"]
        /\ pc[c] = "jobs" => rows["jobs"] \subseteq doomed[c]["jobs"]
DownIsIdle == up = "down" => \A c \in Calls : pc[c] = "idle"
SeedInv == TypeOK /\ DownIsIdle /\ BatchesAreCounted /\ ResetTakesAll /\ BatchIsWhole

\* Empty tables satisfy the invariant.
LEMMA SeedInitially == Init => SeedInv
<1> SUFFICES ASSUME Init PROVE SeedInv
  OBVIOUS
<1>1. IsFiniteSet({}) /\ Cardinality({}) = 0
  BY FS_EmptySet
<1> QED
  BY <1>1, SeedAssumption DEF Init, SeedInv, TypeOK, DownIsIdle, BatchesAreCounted,
     ResetTakesAll, BatchIsWhole, Resetting, Conflicts, NoRows, Kinds, Sources

\* Types, and no transaction outlives its process.
LEMMA SeedTypeStep == SeedInv /\ [Next]_vars => (TypeOK /\ DownIsIdle)'
<1> SUFFICES ASSUME SeedInv, [Next]_vars PROVE (TypeOK /\ DownIsIdle)'
  OBVIOUS
<1> USE SeedAssumption DEF SeedInv, TypeOK, DownIsIdle, Kinds
<1>1. ASSUME NEW c \in Calls, Boot(c) PROVE (TypeOK /\ DownIsIdle)'
  BY <1>1 DEF Boot
<1>2. ASSUME NEW c \in Calls, StartSeed(c) PROVE (TypeOK /\ DownIsIdle)'
  BY <1>2 DEF StartSeed, Go
<1>3. ASSUME NEW c \in Calls, StartReseed(c) \/ ClearJobs(c) PROVE (TypeOK /\ DownIsIdle)'
  BY <1>3 DEF StartReseed, ClearJobs, DeleteAll, Go
<1>4. ASSUME NEW c \in Calls, Cleared(c) PROVE (TypeOK /\ DownIsIdle)'
  BY <1>4 DEF Cleared, NoRows, Go
<1>5. ASSUME NEW c \in Calls, Skip(c) PROVE (TypeOK /\ DownIsIdle)'
  BY <1>5 DEF Skip, Finish
<1>6. ASSUME NEW c \in Calls, Build(c) PROVE (TypeOK /\ DownIsIdle)'
  BY <1>6 DEF Build, Go
<1>7. ASSUME NEW c \in Calls, NEW b \in Batches, Insert(c, b) PROVE (TypeOK /\ DownIsIdle)'
  BY <1>7 DEF Insert, Stored, Finish
<1>8. ASSUME NEW c \in Calls, InsertFails(c) PROVE (TypeOK /\ DownIsIdle)'
  BY <1>8 DEF InsertFails, Finish
<1>9. ASSUME NEW s \in Sources, CreateSource(s) PROVE (TypeOK /\ DownIsIdle)'
  BY <1>9 DEF CreateSource
<1>10. ASSUME NEW s \in Sources, DeleteSource(s) PROVE (TypeOK /\ DownIsIdle)'
  BY <1>10 DEF DeleteSource
<1>11. CASE Open \/ Stop
  BY <1>11 DEF Open, Stop
<1>12. CASE Crash
  BY <1>12 DEF Crash, NoRows
<1>13. CASE UNCHANGED vars
  BY <1>13 DEF vars
<1> QED
  BY <1>1, <1>2, <1>3, <1>4, <1>5, <1>6, <1>7, <1>8, <1>9, <1>10, <1>11, <1>12, <1>13
  DEF Next, Step, Edit

\* A batch is whole, and only rows that a reset has not doomed escape it.
LEMMA SeedWholeStep == SeedInv /\ [Next]_vars => (ResetTakesAll /\ BatchIsWhole)'
<1> SUFFICES ASSUME SeedInv, [Next]_vars PROVE (ResetTakesAll /\ BatchIsWhole)'
  OBVIOUS
<1> USE SeedAssumption DEF SeedInv, TypeOK, ResetTakesAll, BatchIsWhole, Resetting, Kinds
<1>1. ASSUME NEW c \in Calls, Boot(c) \/ StartSeed(c) \/ Skip(c) \/ Build(c) \/ InsertFails(c)
      PROVE  (ResetTakesAll /\ BatchIsWhole)'
  BY <1>1 DEF Boot, StartSeed, Skip, Build, InsertFails, Go, Finish
<1>2. ASSUME NEW c \in Calls, StartReseed(c) PROVE (ResetTakesAll /\ BatchIsWhole)'
  BY <1>2 DEF StartReseed, DeleteAll, Go
<1>3. ASSUME NEW c \in Calls, ClearJobs(c) PROVE (ResetTakesAll /\ BatchIsWhole)'
  BY <1>3 DEF ClearJobs, DeleteAll, Go
<1>4. ASSUME NEW c \in Calls, Cleared(c) PROVE (ResetTakesAll /\ BatchIsWhole)'
  <2>1. \A s \in Sources : sources'[s] = NoBatch
    BY <1>4 DEF Cleared
  <2>2. ResetTakesAll'
    BY <1>4 DEF Cleared, Go
  <2> QED
    BY <2>1, <2>2
\* Every demo source gets the new batch; the other sources belong to none or keep theirs.
<1>5. ASSUME NEW c \in Calls, NEW b \in Batches, Insert(c, b)
      PROVE  (ResetTakesAll /\ BatchIsWhole)'
  <2>1. rows' = [k \in Kinds |-> rows[k] \cup {b}]
    BY <1>5 DEF Insert, Stored
  <2>2. \A s \in Sources : sources'[s] \in {b, sources[s]}
    BY <1>5 DEF Insert
  <2>3. ~crossed' => \A d \in Calls : pc'[d] \notin Kinds
    BY <1>5 DEF Insert, Finish
  <2> QED
    BY <2>1, <2>2, <2>3
<1>6. ASSUME NEW s \in Sources, Edit(s) PROVE (ResetTakesAll /\ BatchIsWhole)'
  <2>1. UNCHANGED <<rows, pc, doomed, crossed>>
    BY <1>6 DEF Edit, CreateSource, DeleteSource
  <2>2. \A t \in Sources : sources'[t] \in {sources[t], NoBatch, Foreign}
    BY <1>6 DEF Edit, CreateSource, DeleteSource
  <2> QED
    BY <2>1, <2>2
<1>7. CASE Open \/ Stop \/ Crash \/ UNCHANGED vars
  BY <1>7 DEF Open, Stop, Crash, vars
<1> QED
  BY <1>1, <1>2, <1>3, <1>4, <1>5, <1>6, <1>7 DEF Next, Step

\* A batch is inserted only while no demo id is taken, and takes them; who frees them
\* without clearing the tables is counted.
LEMMA SeedCountStep == SeedInv /\ [Next]_vars => BatchesAreCounted'
<1> SUFFICES ASSUME SeedInv, [Next]_vars PROVE BatchesAreCounted'
  OBVIOUS
<1> USE SeedAssumption DEF SeedInv, TypeOK, BatchesAreCounted, Kinds
<1>1. ASSUME UNCHANGED <<sources, rows, freed, crossed>> PROVE BatchesAreCounted'
  BY <1>1 DEF Conflicts
<1>2. ASSUME NEW c \in Calls,
             \/ Boot(c) \/ StartSeed(c) \/ StartReseed(c) \/ ClearJobs(c) \/ Skip(c)
             \/ Build(c) \/ InsertFails(c)
      PROVE  BatchesAreCounted'
  BY <1>1, <1>2 DEF Boot, StartSeed, StartReseed, ClearJobs, DeleteAll, Skip, Build, InsertFails
<1>3. ASSUME NEW c \in Calls, Cleared(c) PROVE BatchesAreCounted'
  <2>1. \A k \in Kinds : IsFiniteSet(rows'[k])
    BY <1>3, FS_Difference DEF Cleared
  <2>2. ~crossed' => \A k \in Kinds : rows'[k] = {}
    BY <1>3 DEF Cleared, ResetTakesAll, Resetting
  <2>3. freed' = freed /\ Cardinality({}) = 0
    BY <1>3, FS_EmptySet DEF Cleared
  <2>4. ~crossed' => \A k \in Kinds : Cardinality(rows'[k]) = 0
    BY <2>2, <2>3
  <2>5. freed \in Nat
    OBVIOUS
  <2> QED
    BY <2>1, <2>3, <2>4, <2>5
<1>4. ASSUME NEW c \in Calls, NEW b \in Batches, Insert(c, b) PROVE BatchesAreCounted'
  <2>1. ~Conflicts /\ Conflicts' /\ freed' = freed /\ (~crossed' => ~crossed)
    BY <1>4 DEF Insert, Conflicts, Sources
  <2>2. \A k \in Kinds : rows'[k] = rows[k] \cup {b} /\ b \notin rows[k]
    BY <1>4 DEF Insert, Stored, New
  <2>3. \A k \in Kinds : IsFiniteSet(rows'[k]) /\ Cardinality(rows'[k]) = Cardinality(rows[k]) + 1
    BY <2>2, FS_AddElement
  <2>4. \A k \in Kinds : Cardinality(rows[k]) \in Nat
    BY FS_CardinalityType
  <2> QED
    BY <2>1, <2>3, <2>4
<1>5. ASSUME NEW s \in Sources, CreateSource(s) PROVE BatchesAreCounted'
  <2>1. Conflicts => Conflicts'
    BY <1>5 DEF CreateSource, Conflicts, Sources
  <2>2. UNCHANGED <<rows, freed, crossed>>
    BY <1>5 DEF CreateSource
  <2>3. \A k \in Kinds : Cardinality(rows[k]) \in Nat
    BY FS_CardinalityType
  <2> QED
    BY <2>1, <2>2, <2>3
<1>6. ASSUME NEW s \in Sources, DeleteSource(s) PROVE BatchesAreCounted'
  <2>1. /\ UNCHANGED <<rows, crossed>>
        /\ freed' = IF Conflicts /\ ~Conflicts' THEN freed + 1 ELSE freed
    BY <1>6 DEF DeleteSource
  <2>2. \A k \in Kinds : Cardinality(rows[k]) \in Nat
    BY FS_CardinalityType
  <2> QED
    BY <2>1, <2>2
<1>7. CASE Open \/ Stop \/ Crash \/ UNCHANGED vars
  BY <1>1, <1>7 DEF Open, Stop, Crash, vars
<1> QED
  BY <1>2, <1>3, <1>4, <1>5, <1>6, <1>7 DEF Next, Step, Edit

\* What the invariant is for.
LEMMA SeedInvImplies == SeedInv => SeedIsIdempotent /\ BatchIsWhole
<1> SUFFICES ASSUME SeedInv PROVE SeedIsIdempotent /\ BatchIsWhole
  OBVIOUS
<1>1. \A k \in Kinds : Cardinality(rows[k]) \in Nat
  BY FS_CardinalityType DEF SeedInv, BatchesAreCounted
<1> QED
  BY <1>1, SeedAssumption DEF SeedInv, TypeOK, BatchesAreCounted, SeedIsIdempotent

\* However often and however concurrently the demo data is seeded and reset and sources
\* are created and deleted, with crashes anywhere: batches are whole, and there are no
\* more of them than one and one for each time that the demo ids were freed, as long as
\* none was stored between the DELETEs of a reset.
THEOREM SeedSafe == Spec => [](SeedIsIdempotent /\ BatchIsWhole)
<1>1. SeedInv /\ [Next]_vars => SeedInv'
  BY SeedTypeStep, SeedWholeStep, SeedCountStep DEF SeedInv
<1> QED
  BY <1>1, SeedInitially, SeedInvImplies, PTL DEF Spec

-----------------------------------------------------------------------------
(* The life of the service                                                  *)

\* A step of the service is a step of the demo data or leaves it alone.
LEMMA LifeStepIsSeedStep == [LNext]_lifeVars => [Next]_vars
<1>1. ASSUME NEW c \in Calls, AutoSeed(c) \/ Work(c) \/ Ask(c) PROVE Next
  BY <1>1 DEF AutoSeed, Work, Ask, Next
<1>2. ASSUME NEW e \in Environments, Start(e) PROVE UNCHANGED vars
  BY <1>2 DEF Start
<1>3. ASSUME Progress PROVE UNCHANGED vars
  BY <1>3 DEF Progress, Migrate, MigrateNot, Bootstrap, SeedUsers, StartScheduler,
              ShutDown, SchedulerStops, Dispose
<1>4. ASSUME Tick PROVE UNCHANGED vars
  BY <1>4 DEF Tick, TickStart, TickChecks, TickCounts, TickEnds, TickCommits, TickGoes
<1>5. ASSUME Drain \/ Die PROVE [Next]_vars
  BY <1>5 DEF Drain, Die, Next
<1>6. ASSUME UNCHANGED lifeVars PROVE UNCHANGED vars
  BY <1>6 DEF lifeVars
<1>7. ASSUME NoAutoSeed \/ \E s \in Sources : EditSource(s) PROVE Next
  BY <1>7 DEF NoAutoSeed, EditSource, Next
<1> QED
  BY <1>1, <1>2, <1>3, <1>4, <1>5, <1>6, <1>7 DEF LNext

\* The demo data keeps its promises in the real start-up and shutdown sequence, with
\* auto-seed on or off at every start.
THEOREM SeedSafeInService == LSpec => [](SeedIsIdempotent /\ BatchIsWhole)
<1>1. LSpec => Spec
  BY LifeStepIsSeedStep, PTL DEF LSpec, LInit, Spec
<1> QED
  BY <1>1, SeedSafe, PTL

\* The scheduler runs exactly between start-up and shutdown, and a tick has failed on
\* the closed client only in the one step it may take after the stop was posted.
SchedulerInv ==
    /\ phase \in {"serving", "draining"} => stop = "no"
    /\ phase \notin {"serving", "draining", "closing"} => stop = "done"
    /\ tick \in [at : {"idle", "database", "source", "commit"}, bogus : BOOLEAN]
    /\ tick.bogus => stop = "late"
    /\ ~blamed

\* A tick that runs has its client; the scheduler stops before the client closes.
LEMMA SchedulerStep == SchedulerInv /\ [LNext]_lifeVars => SchedulerInv'
<1> SUFFICES ASSUME SchedulerInv, [LNext]_lifeVars PROVE SchedulerInv'
  OBVIOUS
<1> USE DEF SchedulerInv, NoTick
<1>1. ASSUME NEW e \in Environments, Start(e) PROVE SchedulerInv'
  BY <1>1 DEF Start, tickVars
<1>2. CASE Migrate \/ MigrateNot \/ Bootstrap \/ SeedUsers \/ Dispose
  BY <1>2 DEF Migrate, MigrateNot, Bootstrap, SeedUsers, Dispose, Enter, tickVars
<1>3. CASE StartScheduler \/ ShutDown
  BY <1>3 DEF StartScheduler, ShutDown, Enter
<1>4. CASE SchedulerStops
  BY <1>4 DEF SchedulerStops
<1>5. ASSUME NEW c \in Calls, AutoSeed(c) \/ Work(c) \/ Ask(c) PROVE SchedulerInv'
  BY <1>5 DEF AutoSeed, Work, Ask, tickVars
<1>5a. CASE NoAutoSeed \/ \E s \in Sources : EditSource(s)
  BY <1>5a DEF NoAutoSeed, EditSource, tickVars
<1>6. CASE TickStart \/ TickCounts \/ TickEnds
  <2>1. /\ ~tick.bogus /\ stop \in {"no", "posted"} /\ UNCHANGED <<phase, blamed>>
        /\ stop' = IF stop = "posted" THEN "late" ELSE stop
    BY <1>6 DEF TickStart, TickCounts, TickEnds, TickGoes, MayStep
  <2>2. tick' \in [at : {"idle", "database", "source", "commit"}, bogus : {FALSE}]
    BY <1>6, <2>1 DEF TickStart, TickCounts, TickEnds, TickGoes
  <2> QED
    BY <2>1, <2>2
<1>7. CASE TickChecks
  BY <1>7 DEF TickChecks, TickGoes, MayStep, Closed
<1>8. CASE TickCommits
  BY <1>8 DEF TickCommits, TickGoes, MayStep
<1>9. CASE Drain
  BY <1>9 DEF Drain, Enter, tickVars
<1>10. CASE Die
  BY <1>10 DEF Die, Enter
<1>11. CASE UNCHANGED lifeVars
  BY <1>11 DEF lifeVars, tickVars
<1> QED
  BY <1>1, <1>2, <1>3, <1>4, <1>5, <1>5a, <1>6, <1>7, <1>8, <1>9, <1>10, <1>11
  DEF LNext, Progress, Tick

\* No failure that the shutdown causes is ever counted against a source.
THEOREM ShutdownSafe == LSpec => []ShutdownIsNoFailure
<1>1. LInit => SchedulerInv
  BY DEF LInit, SchedulerInv, NoTick
<1>2. SchedulerInv => ShutdownIsNoFailure
  BY DEF SchedulerInv, ShutdownIsNoFailure
<1> QED
  BY <1>1, <1>2, SchedulerStep, PTL DEF LSpec

\* Only tables of the schema are ever created.
LEMMA TablesStep == tables \subseteq Tables /\ [LNext]_lifeVars => (tables \subseteq Tables)'
<1> SUFFICES ASSUME tables \subseteq Tables, [LNext]_lifeVars PROVE tables' \subseteq Tables
  BY DEF Tables, UpgradeOrder
<1>1. \A n \in 0..Len(CreateOrder) : FirstOf(CreateOrder, n) \subseteq Tables
  BY DEF FirstOf, CreateOrder, UpgradeOrder, Tables
<1>2. \A n \in DOMAIN UpgradeOrder : FirstOf(UpgradeOrder, n) \subseteq Tables
  BY DEF FirstOf, UpgradeOrder, Tables
<1>3. CASE Migrate
  BY <1>3 DEF Migrate
<1>4. CASE MigrateNot
  BY <1>2, <1>4 DEF MigrateNot
<1>5. CASE Bootstrap
  BY <1>1, <1>5 DEF Bootstrap
<1>6. ASSUME ~(Migrate \/ MigrateNot \/ Bootstrap) PROVE UNCHANGED tables
  BY <1>6 DEF LNext, lifeVars, Progress, Tick, Start, SeedUsers, StartScheduler, ShutDown,
     SchedulerStops, Dispose, AutoSeed, NoAutoSeed, EditSource, Work, Ask, TickStart, TickChecks, TickCounts, TickEnds,
     TickCommits, TickGoes, Drain, Die, schemaVars
<1> QED
  BY <1>3, <1>4, <1>5, <1>6

\* Tables without a stamp keep every later migration out, whatever is configured.
THEOREM UnstampedStays == LSpec => UnstampedIsFinal
<1>1. LInit => tables \subseteq Tables
  BY DEF LInit
<1>2. tables \subseteq Tables /\ [LNext]_lifeVars => (tables # {} /\ ~stamped => ~stamped')
  <2> SUFFICES ASSUME tables \subseteq Tables, [LNext]_lifeVars, tables # {}, ~stamped
               PROVE  ~stamped'
    OBVIOUS
  <2>1. ~Migrate
    BY DEF Migrate, Blocked, Tables
  <2> QED
    BY <2>1 DEF LNext, lifeVars, Progress, Tick, Start, MigrateNot, Bootstrap, SeedUsers,
       StartScheduler, ShutDown, SchedulerStops, Dispose, AutoSeed, NoAutoSeed, EditSource, Work, Ask, TickStart,
       TickChecks, TickCounts, TickEnds, TickCommits, TickGoes, Drain, Die, schemaVars
<1> QED
  BY <1>1, <1>2, TablesStep, PTL DEF LSpec, UnstampedIsFinal
=============================================================================

-------------------------------- MODULE Seed --------------------------------
(***************************************************************************)
(* Demo data: seed_if_empty and reset_and_seed of interfaces/api/seed.py,  *)
(* called at start-up by lifespan (app.py) and by POST /admin/seed and     *)
(* /admin/reseed, outside production.                                      *)
(*                                                                         *)
(* A seeding looks whether the table sources is empty and later, in the    *)
(* same transaction, inserts a batch: three sources with fixed ids, the    *)
(* programs of the next 48 hours and six jobs.  The identity keys of the   *)
(* programs contain the time of the batch, so batches never collide; only  *)
(* the fixed source ids do.  reset_and_seed empties programs, jobs and     *)
(* sources, one after the other in one transaction, and seeds in a second  *)
(* one.  Meanwhile admins create and delete sources one by one.            *)
(* Statements see what is committed when they start (READ COMMITTED).      *)
(***************************************************************************)
EXTENDS Integers, FiniteSets

CONSTANTS Calls,       \* concurrent calls of the two functions
          Ops,         \* which of "seed" and "reseed" the admins call
          Demo,        \* the ids of the demo sources
          Other,       \* ids of other sources
          Batches,     \* names of batches; one that is gone is used again
          NoBatch,
          Foreign,
          MaxFreed,    \* bound on freed
          MaxCrashes   \* bound on the crashes of the service

ASSUME SeedAssumption == /\ Ops \subseteq {"seed", "reseed"} /\ Ops # {}
                         /\ Demo # {} /\ Demo \cap Other = {}
                         /\ {NoBatch, Foreign} \cap Batches = {} /\ NoBatch # Foreign
                         /\ MaxFreed \in Nat /\ MaxCrashes \in Nat

Sources == Demo \cup Other
Kinds == {"programs", "jobs"}

VARIABLES sources,   \* per id: the batch its row belongs to, Foreign, or NoBatch: no row
          rows,      \* the batches with rows in programs and in jobs
          pc,        \* per call: idle, programs (deleted), jobs (too), looking, inserting
          doomed,    \* per call: the batches its transaction has deleted there
          up,        \* the service: down, starting, serving
          crashes,
          freed,     \* history: how often a DELETE left no demo id taken
          crossed    \* history: a batch was stored while a reset had deleted the
                     \* programs and not yet committed

vars == <<sources, rows, pc, doomed, up, crashes, freed, crossed>>
Empty == \A s \in Sources : sources[s] = NoBatch
NoRows == [k \in Kinds |-> {}]

Init == /\ sources = [s \in Sources |-> NoBatch]
        /\ rows = NoRows
        /\ pc = [c \in Calls |-> "idle"]
        /\ doomed = [c \in Calls |-> NoRows]
        /\ up = "down"
        /\ crashes = 0 /\ freed = 0 /\ crossed = FALSE

Go(c, where) == pc' = [pc EXCEPT ![c] = where] /\ UNCHANGED up

\* The call is over; lifespan, if it was the caller, goes on to serve requests.
Finish(c) == pc' = [pc EXCEPT ![c] = "idle"] /\ up' = "serving"

-----------------------------------------------------------------------------
\* lifespan: auto-seed, before the first request is served...
Boot(c) ==
    /\ up = "down"
    /\ up' = "starting"
    /\ pc' = [pc EXCEPT ![c] = "looking"]
    /\ UNCHANGED <<sources, rows, doomed, crashes, freed, crossed>>

\* ...or not, when TV_LIST_AUTO_SEED is "0".
Open ==
    /\ up = "down"
    /\ up' = "serving"
    /\ UNCHANGED <<sources, rows, pc, doomed, crashes, freed, crossed>>

\* POST /admin/seed
StartSeed(c) ==
    /\ "seed" \in Ops /\ up = "serving" /\ pc[c] = "idle"
    /\ Go(c, "looking")
    /\ UNCHANGED <<sources, rows, doomed, crashes, freed, crossed>>

\* DELETE of all rows of a kind; those that another transaction has deleted and not
\* committed have to be waited for.
DeleteAll(c, k) ==
    /\ \A d \in Calls : rows[k] \cap doomed[d][k] = {}
    /\ doomed' = [doomed EXCEPT ![c][k] = rows[k]]
    /\ UNCHANGED <<sources, rows, crashes, freed, crossed>>

\* POST /admin/reseed: the programs...
StartReseed(c) ==
    /\ "reseed" \in Ops /\ up = "serving" /\ pc[c] = "idle"
    /\ DeleteAll(c, "programs")
    /\ Go(c, "programs")

\* ...the jobs...
ClearJobs(c) ==
    /\ pc[c] = "programs"
    /\ DeleteAll(c, "jobs")
    /\ Go(c, "jobs")

\* ...the sources, and commit; then seed_if_empty in a new transaction.
Cleared(c) ==
    /\ pc[c] = "jobs"
    /\ sources' = [s \in Sources |-> NoBatch]
    /\ rows' = [k \in Kinds |-> rows[k] \ doomed[c][k]]
    /\ doomed' = [doomed EXCEPT ![c] = NoRows]
    /\ Go(c, "looking")
    /\ UNCHANGED <<crashes, freed, crossed>>

\* (mutant) the look is reversed
M_Skips == Empty

Skips == ~Empty

\* SELECT on sources: not empty, {"skipped": true}.
Skip(c) ==
    /\ pc[c] = "looking" /\ Skips
    /\ Finish(c)
    /\ UNCHANGED <<sources, rows, doomed, crashes, freed, crossed>>

\* The table is empty: the rows are built.
Build(c) ==
    /\ pc[c] = "looking" /\ ~Skips
    /\ Go(c, "inserting")
    /\ UNCHANGED <<sources, rows, doomed, crashes, freed, crossed>>

\* (mutant) sources get fresh ids as programs and jobs do
M_Conflicts == FALSE

\* An id of a demo source is taken.
Conflicts == \E d \in Demo : sources[d] # NoBatch

New(b) == /\ \A s \in Sources : b # sources[s]
          /\ \A k \in Kinds : b \notin rows[k] /\ \A d \in Calls : b \notin doomed[d][k]
Resetting(c) == pc[c] \in Kinds

\* (mutant) the sources are committed without the rest
M_Stored(b) == rows

Stored(b) == [k \in Kinds |-> rows[k] \cup {b}]

\* commit: the whole batch.
Insert(c, b) ==
    /\ pc[c] = "inserting" /\ ~Conflicts /\ New(b)
    /\ sources' = [s \in Sources |-> IF s \in Demo THEN b ELSE sources[s]]
    /\ rows' = Stored(b)
    /\ Finish(c)
    /\ crossed' = (crossed \/ \E d \in Calls : Resetting(d))
    /\ UNCHANGED <<doomed, crashes, freed>>

\* commit: IntegrityError on the source ids, nothing of the batch is kept.
InsertFails(c) ==
    /\ pc[c] = "inserting" /\ Conflicts
    /\ Finish(c)
    /\ UNCHANGED <<sources, rows, doomed, crashes, freed, crossed>>

\* POST /sources, with an id of its own or that of a demo source.
CreateSource(s) ==
    /\ up = "serving" /\ sources[s] = NoBatch
    /\ sources' = [sources EXCEPT ![s] = Foreign]
    /\ UNCHANGED <<rows, pc, doomed, up, crashes, freed, crossed>>

\* DELETE /sources/{id}: programs and jobs stay.  freed is bounded by MaxFreed.
DeleteSource(s) ==
    /\ up = "serving" /\ sources[s] # NoBatch
    /\ sources' = [sources EXCEPT ![s] = NoBatch]
    /\ freed' = IF Conflicts /\ ~Conflicts' THEN freed + 1 ELSE freed
    /\ freed' <= MaxFreed
    /\ UNCHANGED <<rows, pc, doomed, up, crashes, crossed>>

\* The service is stopped when its last call has been answered.
Stop ==
    /\ up = "serving" /\ \A c \in Calls : pc[c] = "idle"
    /\ up' = "down"
    /\ UNCHANGED <<sources, rows, pc, doomed, crashes, freed, crossed>>

\* The service dies: open transactions are rolled back.
Crash ==
    /\ crashes < MaxCrashes
    /\ up' = "down"
    /\ crashes' = crashes + 1
    /\ pc' = [c \in Calls |-> "idle"]
    /\ doomed' = [c \in Calls |-> NoRows]
    /\ UNCHANGED <<sources, rows, freed, crossed>>

Step(c) == \/ ClearJobs(c) \/ Cleared(c) \/ Skip(c) \/ Build(c) \/ InsertFails(c)
           \/ \E b \in Batches : Insert(c, b)
Edit(s) == CreateSource(s) \/ DeleteSource(s)

Next == \/ \E c \in Calls : Boot(c) \/ StartSeed(c) \/ StartReseed(c) \/ Step(c)
        \/ \E s \in Sources : Edit(s)
        \/ Open \/ Stop \/ Crash

Spec == Init /\ [][Next]_vars

-----------------------------------------------------------------------------
TypeOK ==
    /\ sources \in [Sources -> Batches \cup {NoBatch, Foreign}]
    /\ rows \in [Kinds -> SUBSET Batches]
    /\ pc \in [Calls -> {"idle", "programs", "jobs", "looking", "inserting"}]
    /\ doomed \in [Calls -> [Kinds -> SUBSET Batches]]
    /\ up \in {"down", "starting", "serving"}
    /\ crashes \in 0..MaxCrashes /\ freed \in 0..MaxFreed

\* How far "repeated calls do not insert again" goes: there is at most one batch of
\* programs and jobs, and one more for every time that DELETE /sources has left no demo
\* id taken, also after failed inserts, crashes and overlapping resets, unless a batch
\* was stored between the DELETEs of a reset.
SeedIsIdempotent == ~crossed => \A k \in Kinds : Cardinality(rows[k]) <= 1 + freed

\* A batch is all there or not at all: the programs and jobs of the demo sources in the
\* table are in theirs, after any failed insert, crash, reset and deletion.
BatchIsWhole == \A s \in Sources, k \in Kinds : sources[s] \in Batches => sources[s] \in rows[k]
=============================================================================

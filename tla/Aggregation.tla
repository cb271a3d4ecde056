----------------------------- MODULE Aggregation -----------------------------
(***************************************************************************)
(* Crawling: AggregationService.run_once as app.py wires it (_AggFactory), *)
(* called by trigger_crawl and trigger_crawl_all of routers/admin.py.      *)
(*                                                                         *)
(* Three database sessions meet in one crawl:                              *)
(*  - the factory's session `s`, to which the program and the job          *)
(*    repositories are bound; nobody commits it, so leaving its            *)
(*    `async with` rolls it back;                                          *)
(*  - the session run_once opens and begins around the upserts; nothing is *)
(*    executed on it, so its commit is empty;                              *)
(*  - the request's session, which the handler commits; it has only read.  *)
(* What one session has written is locked until it ends: another session   *)
(* that writes the same key, or also inserts a row with the empty id,      *)
(* waits; the database breaks a cycle of waits with an error.              *)
(*                                                                         *)
(* A program is its identity_key.  JSONParser leaves its id at None, which *)
(* _from_domain stores as the primary key "".                              *)
(***************************************************************************)
EXTENDS Integers, Sequences, FiniteSets, Functions

CONSTANTS Crawls,      \* concurrent requests to the crawl endpoints
          Keys,        \* identity keys
          NoKey,
          MaxItems,    \* bound on the items of one feed
          MaxSources   \* bound on the active sources of crawl-all

ASSUME AggregationAssumption == /\ MaxItems \in Nat /\ MaxSources \in Nat \ {0}
                                /\ NoKey \notin Keys

VARIABLES programs,  \* table programs, committed: the keys in it
          pc,        \* per crawl: idle, fetching, saving
          left,      \* per crawl: sources still to be run
          todo,      \* per crawl: merged programs not upserted yet
          fed,       \* per crawl: keys of the feed
          held,      \* per crawl: keys its session `s` has written
          blank,     \* per crawl: the key `s` has inserted with id "", or NoKey
          saved,     \* per crawl: the counter `saved`
          known,     \* history: the table when the run began
          outcome    \* per crawl: what its last run has reported, until the next one saves

vars == <<programs, pc, left, todo, fed, held, blank, saved, known, outcome>>

Feeds == UNION {[1..n -> Keys] : n \in 0..MaxItems}
On(f, c, v) == [f EXCEPT ![c] = v]
NoOutcome == [status |-> "none", saved |-> 0, fed |-> {}, known |-> {}]

Init ==
    /\ programs \in SUBSET Keys      \* seeded programs have ids of their own
    /\ pc = [c \in Crawls |-> "idle"]
    /\ left = [c \in Crawls |-> 0]
    /\ todo = [c \in Crawls |-> <<>>]
    /\ fed = [c \in Crawls |-> {}]
    /\ held = [c \in Crawls |-> {}]
    /\ blank = [c \in Crawls |-> NoKey]
    /\ saved = [c \in Crawls |-> 0]
    /\ known = [c \in Crawls |-> {}]
    /\ outcome = [c \in Crawls |-> NoOutcome]

-----------------------------------------------------------------------------
\* POST /admin/crawl-all with n active sources, or /admin/crawl/{id} with its one.
Trigger(c, n) ==
    /\ pc[c] = "idle" /\ outcome[c] = NoOutcome
    /\ pc' = On(pc, c, "fetching")
    /\ left' = On(left, c, n)
    /\ known' = On(known, c, programs)
    /\ UNCHANGED <<programs, todo, fed, held, blank, saved, outcome>>

\* (mutant) no deduplication
M_Merge(items) == items

\* DedupService.merge: one program per key, in the order of first appearance.
Merge(items) ==
    LET merged[n \in 0..Len(items)] ==
            IF n = 0 THEN <<>>
            ELSE IF items[n] \in Range(merged[n - 1]) THEN merged[n - 1]
                 ELSE Append(merged[n - 1], items[n])
    IN merged[Len(items)]

\* job added, fetch and parse succeeded, programs normalised and merged.
Fetch(c, items) ==
    /\ pc[c] = "fetching"
    /\ pc' = On(pc, c, "saving")
    /\ todo' = On(todo, c, Merge(items))
    /\ fed' = On(fed, c, Range(items))
    /\ outcome' = On(outcome, c, NoOutcome)
    /\ UNCHANGED <<programs, left, held, blank, saved, known>>

Sees(c, k) == k \in programs \cup held[c]

\* The next upsert of c needs something that d's open session has locked.
WaitsFor(c, d) ==
    /\ c # d /\ pc[c] = "saving" /\ todo[c] # <<>>
    /\ \/ Head(todo[c]) \in held[d]
       \/ ~Sees(c, Head(todo[c])) /\ blank[d] # NoKey

\* A set of sessions that all wait for each other, c among them.
Deadlocked(c) == \E S \in SUBSET Crawls :
                     c \in S /\ \A d \in S : \E e \in S : WaitsFor(d, e)

\* (mutant) rows get an id of their own
M_IdIsFree(c) == TRUE

\* The primary key "" can be inserted once.
IdIsFree(c) == blank[c] = NoKey

CanUpsert(c) == pc[c] = "saving" /\ todo[c] # <<>> /\ \A d \in Crawls : ~WaitsFor(c, d)

Wrote(c, k) ==
    /\ held' = On(held, c, held[c] \cup {k})
    /\ saved' = On(saved, c, saved[c] + 1)
    /\ todo' = On(todo, c, Tail(todo[c]))

\* upsert: no row with the key, insert one.
Insert(c) ==
    LET k == Head(todo[c]) IN
    /\ CanUpsert(c) /\ ~Sees(c, k) /\ IdIsFree(c)
    /\ Wrote(c, k)
    /\ blank' = On(blank, c, k)
    /\ UNCHANGED <<programs, pc, left, fed, known, outcome>>

\* upsert: a row with the key, update it.
Update(c) ==
    /\ CanUpsert(c) /\ Sees(c, Head(todo[c]))
    /\ Wrote(c, Head(todo[c]))
    /\ UNCHANGED <<programs, pc, left, fed, blank, known, outcome>>

\* trigger_crawl_all goes on with the next source, whatever this one did.
SourcesAfter(c, status) == left[c] - 1

\* (mutant) the sessions of a finished run stay open
M_HeldAfter(c) == held[c]

HeldAfter(c) == {}

\* `saved` is a local of run_once.
SavedAfter(c) == 0

\* run_once is over and `s` is closed without a commit: the rows it has written (held,
\* blank) are rolled back, after a success as after a failure, so no run ever changes
\* programs.  The handler answers, or crawl-all takes the next source.
EndRun(c, status) ==
    /\ outcome' = On(outcome, c,
           [status |-> status, saved |-> saved[c], fed |-> fed[c], known |-> known[c]])
    /\ left' = On(left, c, SourcesAfter(c, status))
    /\ pc' = On(pc, c, IF SourcesAfter(c, status) > 0 THEN "fetching" ELSE "idle")
    /\ held' = On(held, c, HeldAfter(c)) /\ blank' = On(blank, c, NoKey)
    /\ saved' = On(saved, c, SavedAfter(c)) /\ todo' = On(todo, c, <<>>) /\ fed' = On(fed, c, {})
    /\ known' = On(known, c, programs)
    /\ UNCHANGED programs

\* All upserts done: the empty inner commit, SUCCESS.
Succeed(c) == pc[c] = "saving" /\ todo[c] = <<>> /\ EndRun(c, "success")

\* The handler of run_once: PARTIAL_FAILURE or FAILED, re-raised.  After a failed
\* flush its job_repo.update raises too; either way `s` is closed.
FailureStatus(c) == IF saved[c] > 0 THEN "partial_failure" ELSE "failed"

\* No url, fetch or parse failed.
FetchFails(c) == pc[c] = "fetching" /\ EndRun(c, FailureStatus(c))

\* The second new program of a run: the empty id is taken, IntegrityError.
InsertConflicts(c) ==
    /\ CanUpsert(c) /\ ~Sees(c, Head(todo[c])) /\ ~IdIsFree(c)
    /\ EndRun(c, FailureStatus(c))

\* The database picks c to break a deadlock.
DeadlockBroken(c) == Deadlocked(c) /\ EndRun(c, FailureStatus(c))

Step(c) == \/ \E items \in Feeds : Fetch(c, items)
           \/ Insert(c) \/ Update(c) \/ Succeed(c)
           \/ FetchFails(c) \/ InsertConflicts(c) \/ DeadlockBroken(c)

Done == \A c \in Crawls : pc[c] = "idle" /\ outcome[c] # NoOutcome

Next == \/ \E c \in Crawls : \/ Step(c)
                             \/ \E n \in 1..MaxSources : Trigger(c, n)
        \/ Done /\ UNCHANGED vars

Spec == Init /\ [][Next]_vars

\* Fetches end by their timeouts, the database answers or breaks a deadlock.
FairSpec == Spec /\ \A c \in Crawls : WF_vars(Step(c))

-----------------------------------------------------------------------------
\* items_saved of a SUCCESS job is the number of distinct programs of the feed,
\* however often the feed repeats them.
SuccessCountsKeys ==
    \A c \in Crawls :
        outcome[c].status = "success" => outcome[c].saved = Cardinality(outcome[c].fed)

\* Crawls of feeds that have no program in common never deadlock, although all of them
\* compete for the one empty id: an error that breaks a deadlock always points to two
\* sources that deliver the same program.
DisjointFeedsNeverDeadlock ==
    (\A c, d \in Crawls : c # d => fed[c] \cap fed[d] = {}) => \A c \in Crawls : ~Deadlocked(c)

\* What the empty id costs: a run can succeed only if at most one program of its
\* feed is new to the table it started from.
AtMostOneNewProgram ==
    \A c \in Crawls :
        outcome[c].status = "success" => Cardinality(outcome[c].fed \ outcome[c].known) <= 1

\* A crawl request is answered, whatever rows concurrent crawls have locked.
CrawlIsAnswered == \A c \in Crawls : pc[c] # "idle" ~> pc[c] = "idle"

\* "Single transaction: on success everything is saved": the programs of a
\* SUCCESS job are in the table.
SuccessIsSaved ==
    \A c \in Crawls : outcome[c].status = "success" => outcome[c].fed \subseteq programs

=============================================================================

------------------------------ MODULE TTLCache ------------------------------
(***************************************************************************)
(* TTLCache (core/cache.py), as the dashboard uses it.                     *)
(*                                                                         *)
(* All callers run on one event loop and get/set/invalidate/clear hold no  *)
(* await, so each is one step.  get_or_set gives the loop away while it    *)
(* waits for _aio_lock and while it awaits factory().  There is one        *)
(* _aio_lock for all keys; the lock with its first-come waiters is one     *)
(* queue, whose head is the holder.                                        *)
(*                                                                         *)
(* The dashboard's factory awaits four queries one after the other, and    *)
(* what it returns may be torn between them.  The model follows any ONE of *)
(* the four: a value is the version that this query saw, at some time      *)
(* between the start of the factory and its return.  What is shown of the  *)
(* answers holds of each query by itself, not of the four together.  The   *)
(* factory never returns None.  expire_at is kept as the time left.        *)
(***************************************************************************)
EXTENDS Integers, Sequences, SequencesExt

CONSTANTS Keys,
          Tasks,       \* coroutines that call get_or_set
          TTL,         \* the ttl they pass, in ticks
          MaxVersion   \* bound on the changes of the data behind a key

ASSUME CacheAssumption == TTL \in Nat \ {0} /\ MaxVersion \in Nat

VARIABLES store,    \* _store: per key an entry, or NoEntry
          queue,    \* holder of _aio_lock followed by its waiters
          pc,       \* per task: idle, waiting, loading (in factory), loaded
          key,      \* per task: the key it asked for
          read,     \* per task: the version its factory read
          version,  \* the data behind each key
          seen,     \* history: the version last returned for each key
          filled    \* history: tasks whose key was filled since they missed it,
                    \* and whose entry has neither been dropped nor expired

vars == <<store, queue, pc, key, read, version, seen, filled>>
taskVars == <<queue, pc, key, read>>

Versions == 0..MaxVersion
Entries == [value : Versions, left : 0..TTL]
NoEntry == [value |-> 0, left |-> -1]

Init == /\ store = [k \in Keys |-> NoEntry]
        /\ queue = <<>>
        /\ pc = [t \in Tasks |-> "idle"]
        /\ key \in [Tasks -> Keys]
        /\ read = [t \in Tasks |-> 0]
        /\ version = [k \in Keys |-> 0]
        /\ seen = [k \in Keys |-> 0]
        /\ filled = {}

-----------------------------------------------------------------------------
\* get(k): a live entry is a hit.
Live(k) == store[k].left > 0

\* get(k) also drops an expired entry it meets.
Collected(k) == IF Live(k) THEN store ELSE [store EXCEPT ![k] = NoEntry]

Return(t, k, v) ==
    /\ pc' = [pc EXCEPT ![t] = "idle"]
    /\ seen' = [seen EXCEPT ![k] = v]

WaitersOf(k) == {t \in Tasks : key[t] = k}

\* get_or_set, first get: a hit returns without the lock.
Hit(t, k) ==
    /\ pc[t] = "idle"
    /\ Live(k)
    /\ Return(t, k, store[k].value)
    /\ UNCHANGED <<store, queue, key, read, version, filled>>

\* (mutant) every miss goes straight to its factory
M_MissState == "loading"

\* Where a miss goes: a free lock is taken without giving the loop away and the
\* second get misses again, so the factory starts at once.
MissState == IF queue = <<>> THEN "loading" ELSE "waiting"

\* get_or_set, first get: a miss.
Miss(t, k) ==
    /\ pc[t] = "idle"
    /\ ~Live(k)
    /\ store' = Collected(k)
    /\ key' = [key EXCEPT ![t] = k]
    /\ pc' = [pc EXCEPT ![t] = MissState]
    /\ queue' = Append(queue, t)
    /\ filled' = filled \ {t}
    /\ UNCHANGED <<read, version, seen>>

IsHolder(t) == queue # <<>> /\ Head(queue) = t

\* (mutant) no second look after the lock
M_RecheckHit(t) == FALSE

\* Double check under the lock, by a waiter whose turn has come.
RecheckHit(t) == Live(key[t])

\* The second get finds what an earlier holder filled in.
Rehit(t) ==
    /\ pc[t] = "waiting" /\ IsHolder(t)
    /\ RecheckHit(t)
    /\ Return(t, key[t], store[key[t]].value)
    /\ queue' = Tail(queue)
    /\ UNCHANGED <<store, key, read, version, filled>>

\* The second get misses too: `await factory()`.
StartFactory(t) ==
    /\ pc[t] = "waiting" /\ IsHolder(t)
    /\ ~RecheckHit(t)
    /\ store' = Collected(key[t])
    /\ pc' = [pc EXCEPT ![t] = "loading"]
    /\ UNCHANGED <<queue, key, read, version, seen, filled>>

\* The query sees the data as it is now; the others come before and after it.
FactoryReads(t) ==
    /\ pc[t] = "loading"
    /\ read' = [read EXCEPT ![t] = version[key[t]]]
    /\ pc' = [pc EXCEPT ![t] = "loaded"]
    /\ UNCHANGED <<store, queue, key, version, seen, filled>>

Entry(v) == [value |-> v, left |-> TTL]

\* The factory returns: set, return, release.
Fill(t) ==
    /\ pc[t] = "loaded"
    /\ store' = [store EXCEPT ![key[t]] = Entry(read[t])]
    /\ Return(t, key[t], read[t])
    /\ queue' = Tail(queue)
    /\ filled' = filled \cup {u \in WaitersOf(key[t]) : pc[u] = "waiting"}
    /\ UNCHANGED <<key, read, version>>

\* (mutant) a failing factory leaves the lock taken
M_FactoryFails(t) ==
    /\ pc[t] \in {"loading", "loaded"}
    /\ pc' = [pc EXCEPT ![t] = "idle"]
    /\ UNCHANGED <<store, queue, key, read, version, seen, filled>>

\* The factory raises, or the task is cancelled in it: `async with` releases the
\* lock, nothing is stored.
FactoryFails(t) ==
    /\ pc[t] \in {"loading", "loaded"}
    /\ pc' = [pc EXCEPT ![t] = "idle"]
    /\ queue' = Tail(queue)
    /\ UNCHANGED <<store, key, read, version, seen, filled>>

\* The task is cancelled while it waits for the lock.
CancelWait(t) ==
    /\ pc[t] = "waiting"
    /\ \E i \in DOMAIN queue : queue[i] = t /\ queue' = RemoveAt(queue, i)
    /\ pc' = [pc EXCEPT ![t] = "idle"]
    /\ UNCHANGED <<store, key, read, version, seen, filled>>

\* invalidate(k)
Invalidate(k) ==
    /\ store' = [store EXCEPT ![k] = NoEntry]
    /\ filled' = filled \ WaitersOf(k)
    /\ UNCHANGED <<taskVars, version, seen>>

\* clear()
Clear ==
    /\ store' = [k \in Keys |-> NoEntry]
    /\ filled' = {}
    /\ UNCHANGED <<taskVars, version, seen>>

\* A write to the database: the cache is not told.
Change(k) ==
    /\ version[k] < MaxVersion
    /\ version' = [version EXCEPT ![k] = @ + 1]
    /\ UNCHANGED <<store, taskVars, seen, filled>>

Aged(e) == [value |-> e.value, left |-> IF e.left > 0 THEN e.left - 1 ELSE e.left]

\* time.monotonic() advances.
Tick ==
    /\ store' = [k \in Keys |-> Aged(store[k])]
    /\ filled' = {t \in filled : store'[key[t]].left > 0}
    /\ UNCHANGED <<taskVars, version, seen>>

Request(t) == \E k \in Keys : Hit(t, k) \/ Miss(t, k)
Step(t) == Rehit(t) \/ StartFactory(t) \/ FactoryReads(t) \/ Fill(t) \/ FactoryFails(t)

Next == \/ \E t \in Tasks : Request(t) \/ Step(t) \/ CancelWait(t)
        \/ \E k \in Keys : Invalidate(k) \/ Change(k)
        \/ Clear \/ Tick

Spec == Init /\ [][Next]_vars

\* Ready tasks run and every factory ends; nothing else is promised.
FairSpec == Spec /\ \A t \in Tasks : WF_vars(Step(t))

-----------------------------------------------------------------------------
TypeOK ==
    /\ store \in [Keys -> Entries \cup {NoEntry}]
    /\ queue \in Seq(Tasks)
    /\ pc \in [Tasks -> {"idle", "waiting", "loading", "loaded"}]
    /\ key \in [Tasks -> Keys]
    /\ read \in [Tasks -> Versions]
    /\ version \in [Keys -> Versions]
    /\ seen \in [Keys -> Versions]
    /\ filled \subseteq Tasks

\* "Concurrent calls for one key trigger one factory": a task that waited while
\* another one filled its key does not run its own factory, as long as the
\* entry was neither dropped nor left to expire meanwhile.
OneFactoryPerMiss ==
    \A t \in Tasks : pc[t] \in {"loading", "loaded"} => t \notin filled

\* _aio_lock is a mutex around factory(): one factory runs at a time, and the
\* task that runs it is the one at the head of the lock's queue, whatever
\* failures and cancellations came before.
FactoryHoldsLock ==
    \A t \in Tasks : pc[t] \in {"loading", "loaded"} => IsHolder(t)

\* The answers of get_or_set for one key never go back to older data: expiry,
\* invalidation, failing factories and cancellations included.
Reads == INSTANCE MonotoneReads WITH version <- version, seen <- seen
MonotoneAnswers == Reads!Spec

\* get_or_set returns or raises: no failure or cancellation leaves the lock of
\* all keys behind.
EveryCallEnds == \A t \in Tasks : pc[t] # "idle" ~> pc[t] = "idle"

=============================================================================

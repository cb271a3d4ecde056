--------------------------- MODULE TTLCacheProofs ---------------------------
(***************************************************************************)
(* TTLCache implements MonotoneReads, for any keys, tasks and ttl.         *)
(***************************************************************************)
EXTENDS TTLCache, SequenceTheorems, TLAPS

InFactory(t) == pc[t] \in {"loading", "loaded"}

(* Why answers never go back: a live entry is the last answer, and the one  *)
(* factory that may replace it has read data at least as new.               *)
LiveIsLastAnswer == \A k \in Keys : Live(k) => store[k].value = seen[k]
SeenExisted == \A k \in Keys : seen[k] <= version[k]
ReadIsNewer ==
    \A t \in Tasks : pc[t] = "loaded" =>
        seen[key[t]] <= read[t] /\ read[t] <= version[key[t]]

CacheInv == /\ TypeOK
            /\ FactoryHoldsLock
            /\ LiveIsLastAnswer
            /\ SeenExisted
            /\ ReadIsNewer

(* The queue of the lock: joining at the end keeps its head, and so does    *)
(* leaving from anywhere else.                                              *)
LEMMA QueueHead ==
    ASSUME NEW S, NEW s \in Seq(S), NEW x \in S
    PROVE  /\ Append(s, x) \in Seq(S) /\ Append(s, x) # <<>>
           /\ Head(Append(s, x)) = IF s = <<>> THEN x ELSE Head(s)
           /\ s # <<>> => Tail(s) \in Seq(S)
           /\ \A i \in DOMAIN s :
                 /\ RemoveAt(s, i) \in Seq(S)
                 /\ i # 1 => RemoveAt(s, i) # <<>> /\ Head(RemoveAt(s, i)) = Head(s)
<1>1. Append(s, x) \in Seq(S) /\ Append(s, x) # <<>>
  BY AppendProperties
<1>2. Head(Append(s, x)) = IF s = <<>> THEN x ELSE Head(s)
  BY AppendProperties, EmptySeq, LenProperties
<1>3. s # <<>> => Tail(s) \in Seq(S)
  BY HeadTailProperties
<1>4. ASSUME NEW i \in DOMAIN s
      PROVE  /\ RemoveAt(s, i) \in Seq(S)
             /\ i # 1 => RemoveAt(s, i) # <<>> /\ Head(RemoveAt(s, i)) = Head(s)
  <2>1. Len(s) \in Nat /\ i \in 1..Len(s)
    BY LenProperties
  <2> DEFINE a == SubSeq(s, 1, i-1)
             b == SubSeq(s, i+1, Len(s))
  <2>2. a \in Seq(S) /\ b \in Seq(S) /\ Len(a) = i - 1
    BY <2>1
  <2>3. RemoveAt(s, i) = a \o b
    BY DEF RemoveAt
  <2>4. a \o b \in Seq(S) /\ Len(a \o b) = Len(a) + Len(b)
    BY <2>2, ConcatProperties
  <2>5. CASE i # 1
    <3>1. (a \o b)[1] = a[1] /\ a[1] = s[1]
      BY <2>1, <2>2, <2>5, ConcatProperties
    <3>2. Len(a \o b) >= 1 /\ s # <<>>
      BY <2>1, <2>2, <2>4, <2>5, LenProperties
    <3> QED
      BY <2>3, <2>4, <3>1, <3>2, EmptySeq
  <2> QED
    BY <2>3, <2>4, <2>5
<1> QED
  BY <1>1, <1>2, <1>3, <1>4

\* An empty cache satisfies the inductive invariant.
LEMMA CacheInit == Init => CacheInv
  BY CacheAssumption, EmptySeq
     DEF Init, CacheInv, TypeOK, FactoryHoldsLock, LiveIsLastAnswer, SeenExisted,
         ReadIsNewer, Live, NoEntry, Versions, Entries

(* Type correctness, action by action.                                      *)
LEMMA TypeStep == CacheInv /\ [Next]_vars => TypeOK'
<1> SUFFICES ASSUME CacheInv, [Next]_vars PROVE TypeOK'
  OBVIOUS
<1> USE CacheAssumption DEF CacheInv, TypeOK, Versions
<1>1. NoEntry \in Entries \cup {NoEntry} /\ \A v \in Versions : Entry(v) \in Entries
  BY DEF Entry, Entries
<1>2. \A k \in Keys : Live(k) => store[k].value \in Versions
  BY DEF Live, Entries, NoEntry
<1>3. ASSUME NEW t \in Tasks, NEW k \in Keys, Hit(t, k) PROVE TypeOK'
  BY <1>2, <1>3 DEF Hit, Return
<1>4. ASSUME NEW t \in Tasks, NEW k \in Keys, Miss(t, k) PROVE TypeOK'
  BY <1>1, <1>4, QueueHead DEF Miss, Collected, MissState
<1>5. ASSUME NEW t \in Tasks, Rehit(t) PROVE TypeOK'
  BY <1>2, <1>5, QueueHead DEF Rehit, RecheckHit, Return, IsHolder
<1>6. ASSUME NEW t \in Tasks, StartFactory(t) PROVE TypeOK'
  BY <1>1, <1>6 DEF StartFactory, Collected
<1>7. ASSUME NEW t \in Tasks, FactoryReads(t) PROVE TypeOK'
  BY <1>7 DEF FactoryReads
<1>8. ASSUME NEW t \in Tasks, Fill(t) PROVE TypeOK'
  <2>1. queue # <<>>
    BY <1>8 DEF Fill, FactoryHoldsLock, IsHolder
  <2>2. queue' \in Seq(Tasks)
    BY <1>8, <2>1, QueueHead DEF Fill
  <2> QED
    BY <1>1, <1>8, <2>2 DEF Fill, Return, WaitersOf
<1>9. ASSUME NEW t \in Tasks, FactoryFails(t) PROVE TypeOK'
  BY <1>9, QueueHead DEF FactoryFails, FactoryHoldsLock, IsHolder
<1>10. ASSUME NEW t \in Tasks, CancelWait(t) PROVE TypeOK'
  <2>1. PICK i \in DOMAIN queue : queue' = RemoveAt(queue, i)
    BY <1>10 DEF CancelWait
  <2>2. queue' \in Seq(Tasks)
    BY <2>1, QueueHead
  <2> QED
    BY <1>10, <2>2 DEF CancelWait
<1>11. ASSUME NEW k \in Keys, Invalidate(k) PROVE TypeOK'
  BY <1>1, <1>11 DEF Invalidate, taskVars
<1>12. CASE Clear
  BY <1>12 DEF Clear, taskVars
<1>13. ASSUME NEW k \in Keys, Change(k) PROVE TypeOK'
  BY <1>13 DEF Change, taskVars
<1>14. CASE Tick
  <2>1. \A e \in Entries : Aged(e) \in Entries
    BY DEF Aged, Entries
  <2>2. Aged(NoEntry) = NoEntry
    BY DEF Aged, NoEntry
  <2>3. store' \in [Keys -> Entries \cup {NoEntry}]
    BY <1>14, <2>1, <2>2 DEF Tick
  <2> QED
    BY <1>14, <2>3 DEF Tick, taskVars
<1>15. CASE UNCHANGED vars
  BY <1>15 DEF vars
<1> QED
  BY <1>3, <1>4, <1>5, <1>6, <1>7, <1>8, <1>9, <1>10, <1>11, <1>12, <1>13, <1>14, <1>15
  DEF Next, Request, Step

(* The lock is a mutex around the factory: whoever is in it is at the head   *)
(* of the queue, so joining behind it and leaving from behind it change      *)
(* nothing, and only the head can leave from the front.                      *)
LEMMA LockStep == CacheInv /\ [Next]_vars => FactoryHoldsLock'
<1> SUFFICES ASSUME CacheInv, [Next]_vars,
                    NEW u \in Tasks, InFactory(u)'
             PROVE  IsHolder(u)'
  BY DEF FactoryHoldsLock, InFactory
<1> USE DEF CacheInv, TypeOK, FactoryHoldsLock, InFactory, IsHolder
<1>1. ASSUME NEW t \in Tasks, NEW k \in Keys, Hit(t, k) PROVE IsHolder(u)'
  BY <1>1 DEF Hit, Return
<1>2. ASSUME NEW t \in Tasks, NEW k \in Keys, Miss(t, k) PROVE IsHolder(u)'
  BY <1>2, QueueHead DEF Miss, MissState
<1>3. ASSUME NEW t \in Tasks, Rehit(t) PROVE IsHolder(u)'
  BY <1>3 DEF Rehit, Return
<1>4. ASSUME NEW t \in Tasks, StartFactory(t) \/ FactoryReads(t) PROVE IsHolder(u)'
  BY <1>4 DEF StartFactory, FactoryReads
<1>5. ASSUME NEW t \in Tasks, Fill(t) \/ FactoryFails(t) PROVE IsHolder(u)'
  BY <1>5 DEF Fill, Return, FactoryFails
<1>6. ASSUME NEW t \in Tasks, CancelWait(t) PROVE IsHolder(u)'
  <2>1. PICK i \in DOMAIN queue : queue[i] = t /\ queue' = RemoveAt(queue, i)
    BY <1>6 DEF CancelWait
  <2>2. InFactory(u) /\ u # t
    BY <1>6 DEF CancelWait
  <2>3. i # 1
    BY <2>1, <2>2
  <2> QED
    BY <2>1, <2>2, <2>3, QueueHead
<1>7. ASSUME UNCHANGED <<queue, pc>> PROVE IsHolder(u)'
  BY <1>7
<1> QED
  BY <1>1, <1>2, <1>3, <1>4, <1>5, <1>6, <1>7
  DEF Next, Request, Step, Invalidate, Clear, Change, Tick, taskVars, vars

(* The three conjuncts about versions.                                       *)
LEMMA VersionStep ==
    CacheInv /\ [Next]_vars => LiveIsLastAnswer' /\ SeenExisted' /\ ReadIsNewer'
<1> SUFFICES ASSUME CacheInv, [Next]_vars
             PROVE  LiveIsLastAnswer' /\ SeenExisted' /\ ReadIsNewer'
  OBVIOUS
<1> USE DEF CacheInv, TypeOK, LiveIsLastAnswer, SeenExisted, ReadIsNewer, Live,
            Versions
<1>1. ASSUME NEW t \in Tasks, NEW k \in Keys, Hit(t, k)
      PROVE  LiveIsLastAnswer' /\ SeenExisted' /\ ReadIsNewer'
  <2>1. seen' = seen /\ \A u \in Tasks : pc'[u] = "loaded" => pc[u] = "loaded"
    BY <1>1 DEF Hit, Return
  <2> QED
    BY <1>1, <2>1 DEF Hit
<1>2. ASSUME NEW t \in Tasks, NEW k \in Keys, Miss(t, k)
      PROVE  LiveIsLastAnswer' /\ SeenExisted' /\ ReadIsNewer'
  <2>1. \A u \in Tasks : pc'[u] = "loaded" => pc[u] = "loaded" /\ key'[u] = key[u]
    BY <1>2 DEF Miss, MissState
  <2>2. LiveIsLastAnswer'
    BY <1>2 DEF Miss, Collected, NoEntry
  <2> QED
    BY <1>2, <2>1, <2>2 DEF Miss
<1>3. ASSUME NEW t \in Tasks, Rehit(t)
      PROVE  LiveIsLastAnswer' /\ SeenExisted' /\ ReadIsNewer'
  <2>1. seen' = seen /\ \A u \in Tasks : pc'[u] = "loaded" => pc[u] = "loaded"
    BY <1>3 DEF Rehit, RecheckHit, Return
  <2> QED
    BY <1>3, <2>1 DEF Rehit
<1>4. ASSUME NEW t \in Tasks, StartFactory(t)
      PROVE  LiveIsLastAnswer' /\ SeenExisted' /\ ReadIsNewer'
  BY <1>4 DEF StartFactory, Collected, NoEntry
<1>5. ASSUME NEW t \in Tasks, FactoryReads(t)
      PROVE  LiveIsLastAnswer' /\ SeenExisted' /\ ReadIsNewer'
  BY <1>5 DEF FactoryReads
<1>6. ASSUME NEW t \in Tasks, Fill(t)
      PROVE  LiveIsLastAnswer' /\ SeenExisted' /\ ReadIsNewer'
  <2>1. \A u \in Tasks : pc[u] = "loaded" => u = t
    BY <1>6 DEF Fill, FactoryHoldsLock, IsHolder
  <2>2. ReadIsNewer'
    BY <1>6, <2>1 DEF Fill, Return
  <2> QED
    BY <1>6, <2>2 DEF Fill, Return, Entry
<1>7. ASSUME NEW t \in Tasks, FactoryFails(t) \/ CancelWait(t)
      PROVE  LiveIsLastAnswer' /\ SeenExisted' /\ ReadIsNewer'
  BY <1>7 DEF FactoryFails, CancelWait
<1>8. ASSUME NEW k \in Keys, Invalidate(k)
      PROVE  LiveIsLastAnswer' /\ SeenExisted' /\ ReadIsNewer'
  <2>1. \A j \in Keys : Live(j)' => Live(j) /\ store'[j] = store[j]
    BY <1>8 DEF Invalidate, NoEntry
  <2> QED
    BY <1>8, <2>1 DEF Invalidate, taskVars
<1>9. ASSUME NEW k \in Keys, Change(k)
      PROVE  LiveIsLastAnswer' /\ SeenExisted' /\ ReadIsNewer'
  BY <1>9 DEF Change, taskVars
<1>10. CASE Tick
  BY <1>10 DEF Tick, Aged, taskVars
<1>11. CASE Clear
  BY <1>11 DEF Clear, NoEntry, taskVars
<1>12. CASE UNCHANGED vars
  BY <1>12 DEF vars
<1> QED
  BY <1>1, <1>2, <1>3, <1>4, <1>5, <1>6, <1>7, <1>8, <1>9, <1>10, <1>11, <1>12
  DEF Next, Request, Step

\* The inductive invariant holds in every state of the cache.
THEOREM CacheInvariance == Spec => []CacheInv
<1>1. CacheInv /\ [Next]_vars => CacheInv'
  BY TypeStep, LockStep, VersionStep DEF CacheInv
<1> QED
  BY <1>1, CacheInit, PTL DEF Spec

\* One factory at a time, and it belongs to the holder of _aio_lock.
THEOREM LockIsMutex == Spec => [](TypeOK /\ FactoryHoldsLock)
<1>1. CacheInv => TypeOK /\ FactoryHoldsLock
  BY DEF CacheInv
<1> QED
  BY <1>1, CacheInvariance, PTL

\* get_or_set implements the abstract promise of MonotoneReads: answers for a key
\* are versions that existed and never go back, through expiry, invalidation,
\* failing factories and cancelled callers.
THEOREM ImplementsMonotoneReads == Spec => MonotoneAnswers
<1>1. Init => Reads!Init
  BY DEF Init, Reads!Init
<1>2. CacheInv /\ [Next]_vars => [Reads!Next]_<<version, seen>>
  <2> SUFFICES ASSUME CacheInv, [Next]_vars
               PROVE  [Reads!Next]_<<version, seen>>
    OBVIOUS
  <2> USE DEF CacheInv, TypeOK, Versions
  <2>1. ASSUME NEW t \in Tasks, NEW k \in Keys, Hit(t, k) PROVE UNCHANGED <<version, seen>>
    BY <2>1 DEF Hit, Return, LiveIsLastAnswer
  <2>2. ASSUME NEW t \in Tasks, Rehit(t) PROVE UNCHANGED <<version, seen>>
    BY <2>2 DEF Rehit, RecheckHit, Return, LiveIsLastAnswer
  <2>3. ASSUME NEW t \in Tasks, Fill(t) PROVE Reads!Answer(key[t])
    <3>1. read[t] \in seen[key[t]]..version[key[t]]
      BY <2>3 DEF Fill, ReadIsNewer
    <3>2. seen' = [seen EXCEPT ![key[t]] = read[t]] /\ version' = version
      BY <2>3 DEF Fill, Return
    <3> QED
      BY <3>1, <3>2 DEF Reads!Answer
  <2>4. ASSUME NEW k \in Keys, Change(k) PROVE Reads!Change(k)
    BY <2>4 DEF Change, Reads!Change
  <2>5. ASSUME NEW t \in Tasks, NEW k \in Keys, Miss(t, k) PROVE UNCHANGED <<version, seen>>
    BY <2>5 DEF Miss
  <2>6. ASSUME NEW t \in Tasks,
               StartFactory(t) \/ FactoryReads(t) \/ FactoryFails(t) \/ CancelWait(t)
        PROVE  UNCHANGED <<version, seen>>
    BY <2>6 DEF StartFactory, FactoryReads, FactoryFails, CancelWait
  <2>7. ASSUME NEW k \in Keys, Invalidate(k) PROVE UNCHANGED <<version, seen>>
    BY <2>7 DEF Invalidate
  <2>8. CASE Clear \/ Tick \/ UNCHANGED vars
    BY <2>8 DEF Clear, Tick, vars
  <2>9. \A t \in Tasks : key[t] \in Keys
    OBVIOUS
  <2> QED
    BY <2>1, <2>2, <2>3, <2>4, <2>5, <2>6, <2>7, <2>8, <2>9
    DEF Next, Request, Step, Reads!Next
<1> QED
  BY <1>1, <1>2, CacheInvariance, PTL DEF Spec, MonotoneAnswers, Reads!Spec

-----------------------------------------------------------------------------
\* Why nobody loads what was filled meanwhile: the entry is still there when the turn
\* of the waiter comes.
FilledIsLive == \A t \in filled : Live(key[t])
MissInv == OneFactoryPerMiss /\ FilledIsLive

\* Every action that drops or ages an entry takes its waiters out of filled.
LEMMA MissStep == TypeOK /\ MissInv /\ [Next]_vars => MissInv'
<1> SUFFICES ASSUME TypeOK, MissInv, [Next]_vars PROVE MissInv'
  OBVIOUS
<1> USE DEF TypeOK, MissInv, OneFactoryPerMiss, FilledIsLive, Live
<1>1. ASSUME NEW t \in Tasks, NEW k \in Keys, Hit(t, k) PROVE MissInv'
  BY <1>1 DEF Hit, Return
<1>2. ASSUME NEW t \in Tasks, NEW k \in Keys, Miss(t, k) PROVE MissInv'
  BY <1>2 DEF Miss, Collected, MissState
<1>3. ASSUME NEW t \in Tasks, Rehit(t) PROVE MissInv'
  BY <1>3 DEF Rehit, Return
<1>4. ASSUME NEW t \in Tasks, StartFactory(t) PROVE MissInv'
  BY <1>4 DEF StartFactory, RecheckHit, Collected
<1>5. ASSUME NEW t \in Tasks, FactoryReads(t) \/ FactoryFails(t) \/ CancelWait(t) PROVE MissInv'
  BY <1>5 DEF FactoryReads, FactoryFails, CancelWait
<1>6. ASSUME NEW t \in Tasks, Fill(t) PROVE MissInv'
  <2>1. store' = [store EXCEPT ![key[t]] = Entry(read[t])] /\ key' = key /\ Entry(read[t]).left > 0
    BY <1>6, CacheAssumption DEF Fill, Entry
  <2>2. FilledIsLive'
    BY <1>6, <2>1 DEF Fill, WaitersOf
  <2>3. OneFactoryPerMiss'
    BY <1>6 DEF Fill, Return
  <2> QED
    BY <2>2, <2>3
<1>7. ASSUME NEW k \in Keys, Invalidate(k) PROVE MissInv'
  BY <1>7 DEF Invalidate, WaitersOf, taskVars
<1>8. ASSUME NEW k \in Keys, Change(k) PROVE MissInv'
  BY <1>8 DEF Change, taskVars
<1>9. CASE Clear
  BY <1>9 DEF Clear, taskVars
<1>10. CASE Tick
  BY <1>10 DEF Tick, taskVars
<1>11. CASE UNCHANGED vars
  BY <1>11 DEF vars
<1> QED
  BY <1>1, <1>2, <1>3, <1>4, <1>5, <1>6, <1>7, <1>8, <1>9, <1>10, <1>11 DEF Next, Request, Step

\* The second look under the lock absorbs stampedes, for any number of tasks and keys:
\* who waited while its key was filled does not run a factory of its own.
THEOREM StampedesAreAbsorbed == Spec => []OneFactoryPerMiss
<1>1. Init => MissInv
  BY DEF Init, MissInv, OneFactoryPerMiss, FilledIsLive
<1>2. CacheInv => TypeOK
  BY DEF CacheInv
<1>3. MissInv => OneFactoryPerMiss
  BY DEF MissInv
<1> QED
  BY <1>1, <1>2, <1>3, MissStep, CacheInvariance, PTL DEF Spec
=============================================================================

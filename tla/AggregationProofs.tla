-------------------------- MODULE AggregationProofs --------------------------
(***************************************************************************)
(* The safety properties of Aggregation, for every number of concurrent    *)
(* crawls, of sources and of items in a feed.                              *)
(***************************************************************************)
EXTENDS Aggregation, FiniteSetTheorems, SequenceTheorems, NaturalsInduction, TLAPS

-----------------------------------------------------------------------------
(* The inductive invariant                                                  *)

Outcomes == [status : {"none", "success", "partial_failure", "failed"}, saved : Nat,
             fed : SUBSET Keys, known : SUBSET Keys]

AggregationType ==
    /\ programs \subseteq Keys
    /\ pc \in [Crawls -> {"idle", "fetching", "saving"}]
    /\ todo \in [Crawls -> Seq(Keys)]
    /\ fed \in [Crawls -> SUBSET Keys]
    /\ held \in [Crawls -> SUBSET Keys]
    /\ blank \in [Crawls -> Keys \cup {NoKey}]
    /\ saved \in [Crawls -> Nat]
    /\ known \in [Crawls -> SUBSET Keys]
    /\ outcome \in [Crawls -> Outcomes]

\* No key occurs twice.
Distinct(s) == \A i, j \in DOMAIN s : s[i] = s[j] => i = j

\* The merged programs are split into those the session has written and those to come.
FeedIsSplit == \A c \in Crawls : /\ Distinct(todo[c])
                                 /\ held[c] \cap Range(todo[c]) = {}
                                 /\ held[c] \cup Range(todo[c]) = fed[c]

\* The counter counts the keys that are written.
SavedIsHeld == \A c \in Crawls : /\ IsFiniteSet(held[c])
                                 /\ saved[c] = Cardinality(held[c])

\* A session has inserted at most the one program with the empty id.
OneBlank == \A c \in Crawls : held[c] \ programs \subseteq {blank[c]}

\* Between runs a request holds nothing; a run in progress knows the table.
BetweenRuns == \A c \in Crawls : /\ pc[c] # "saving" => /\ held[c] = {} /\ blank[c] = NoKey
                                                        /\ todo[c] = <<>>
                                 /\ pc[c] # "idle" => known[c] = programs

\* At most one session has inserted a row with the empty id: the others wait for it.
OneHolder == \A c, d \in Crawls : blank[c] # NoKey /\ blank[d] # NoKey => c = d

\* What a run has recorded; no session ever changes the table.
Recorded == \A c \in Crawls :
                outcome[c].status = "success" =>
                    /\ outcome[c].known = programs
                    /\ outcome[c].saved = Cardinality(outcome[c].fed)
                    /\ Cardinality(outcome[c].fed \ programs) <= 1

AggregationInv == /\ AggregationType /\ FeedIsSplit /\ SavedIsHeld /\ OneBlank
                  /\ BetweenRuns /\ OneHolder /\ Recorded

-----------------------------------------------------------------------------
(* Deduplication                                                            *)

\* Every nonempty set of natural numbers has a least element: well-foundedness of <, in
\* the form that needs no predicate as a parameter.
LEMMA LeastNat ==
    ASSUME NEW T, T \subseteq Nat, T # {}
    PROVE  \E n \in T : \A m \in T : n <= m
<1> DEFINE R == {p \in Nat \X Nat : p[1] < p[2]}
<1>1. IsWellFoundedOn(R, Nat)
  BY NatLessThanWellFounded DEF OpToRel
<1>2. \E x \in T : \A y \in T : <<y, x>> \notin R
  <2> HIDE DEF R
  <2> QED
    BY <1>1, WFMin
<1>3. PICK x \in T : \A y \in T : <<y, x>> \notin R
  BY <1>2
<1>4. ASSUME NEW y \in T PROVE x <= y
  <2>1. <<y, x>> \notin R /\ x \in Nat /\ y \in Nat
    BY <1>3
  <2> QED
    BY <2>1
<1> QED
  BY <1>4

\* Induction over the natural numbers, for a set instead of a predicate.
LEMMA SetInduction ==
    ASSUME NEW S, 0 \in S, \A n \in Nat : n \in S => n + 1 \in S
    PROVE  Nat \subseteq S
<1> SUFFICES ASSUME Nat \ S # {} PROVE FALSE
  OBVIOUS
<1>1. PICK n \in Nat \ S : \A m \in Nat \ S : n <= m
  BY LeastNat
<1>2. n # 0 /\ n - 1 \in Nat /\ n - 1 \in S
  BY <1>1
<1> QED
  BY <1>1, <1>2

\* One turn of the loop of merge(), with the results of the shorter feeds in g.
Added(items, g, n) == IF n = 0 THEN <<>>
                      ELSE IF items[n] \in Range(g[n - 1]) THEN g[n - 1]
                           ELSE Append(g[n - 1], items[n])

\* It looks at the feed that is one item shorter only.
LEMMA AddedLooksBack ==
    ASSUME NEW items, NEW n, NEW g, NEW h, n # 0 => g[n - 1] = h[n - 1]
    PROVE  Added(items, g, n) = Added(items, h, n)
BY DEF Added

\* The recursion of Merge defines a function.
LEMMA MergeExists ==
    ASSUME NEW items, NEW N \in Nat
    PROVE  \E g : g = [n \in 0..N |-> Added(items, g, n)]
<1> DEFINE Solves(g, m) == g = [n \in 0..m |-> Added(items, g, n)]
           S == {m \in Nat : \E g : Solves(g, m)}
<1>1. 0 \in S
  <2> DEFINE g == [n \in 0..0 |-> <<>>]
  <2>1. Solves(g, 0)
    BY DEF Added
  <2> HIDE DEF Solves
  <2> QED
    BY <2>1
<1>2. ASSUME NEW m \in Nat, m \in S PROVE m + 1 \in S
  <2>1. PICK g : Solves(g, m)
    BY <1>2
  <2> DEFINE h == [n \in 0..(m + 1) |-> IF n = m + 1 THEN Added(items, g, n) ELSE g[n]]
  <2>2. \A n \in 0..m : h[n] = g[n]
    OBVIOUS
  <2>3. ASSUME NEW n \in 0..(m + 1) PROVE h[n] = Added(items, h, n)
    <3>1. h[n] = Added(items, g, n)
      BY <2>1
    <3>2. n # 0 => n - 1 \in 0..m
      OBVIOUS
    <3> HIDE DEF h
    <3> QED
      BY <2>2, <3>1, <3>2, AddedLooksBack
  <2>4. h = [n \in 0..(m + 1) |-> h[n]]
    OBVIOUS
  <2>5. Solves(h, m + 1)
    <3> HIDE DEF h
    <3> QED
      BY <2>3, <2>4
  <2> HIDE DEF h, Solves
  <2> QED
    BY <2>5
<1>3. Nat \subseteq S
  <2> HIDE DEF S
  <2> QED
    BY <1>1, <1>2, SetInduction
<1> QED
  BY <1>3

\* What Merge computes from: the merged programs of the first n items, for every n.
LEMMA MergeEquation ==
    ASSUME NEW items, Len(items) \in Nat
    PROVE  \E g : /\ Merge(items) = g[Len(items)]
                  /\ \A n \in 0..Len(items) : g[n] = Added(items, g, n)
<1> DEFINE Solves(g) == g = [n \in 0..Len(items) |-> Added(items, g, n)]
           merged == CHOOSE g : Solves(g)
<1>1. Solves(merged)
  <2>1. \E g : Solves(g)
    BY MergeExists
  <2> HIDE DEF Solves
  <2> QED
    BY <2>1
<1>2. Merge(items) = merged[Len(items)]
  BY DEF Merge, Added
<1> HIDE DEF merged
<1> QED
  BY <1>1, <1>2

\* A key that is appended is new at the end of the sequence.
LEMMA AppendDistinct ==
    ASSUME NEW s \in Seq(Keys), NEW k \in Keys, Distinct(s), k \notin Range(s)
    PROVE  /\ Append(s, k) \in Seq(Keys)
           /\ Distinct(Append(s, k))
           /\ Range(Append(s, k)) = Range(s) \cup {k}
<1> DEFINE t == Append(s, k)
           m == Len(s)
<1>1. m \in Nat /\ DOMAIN s = 1..m
  BY LenProperties
<1>2. t \in Seq(Keys) /\ Len(t) = m + 1 /\ (\A i \in 1..m : t[i] = s[i]) /\ t[m + 1] = k
  BY AppendProperties
<1>3. DOMAIN t = 1..(m + 1)
  BY <1>2, LenProperties
<1>4. \A i \in 1..m : s[i] # k
  BY <1>1 DEF Range
<1> HIDE DEF t, m
<1>5. \A i \in 1..(m + 1) : i \in 1..m \/ i = m + 1
  BY <1>1
<1>6. 1..m \subseteq 1..(m + 1) /\ m + 1 \in 1..(m + 1)
  BY <1>1
<1>7. Distinct(t)
  BY <1>1, <1>2, <1>3, <1>4, <1>5 DEF Distinct
<1>8. Range(t) = Range(s) \cup {k}
  BY <1>1, <1>2, <1>3, <1>5, <1>6 DEF Range
<1> QED
  BY <1>2, <1>7, <1>8 DEF t

\* DedupService.merge: for every feed, each of its programs once.
LEMMA MergeIsDistinct ==
    ASSUME NEW items \in Seq(Keys)
    PROVE  /\ Merge(items) \in Seq(Keys)
           /\ Distinct(Merge(items))
           /\ Range(Merge(items)) = Range(items)
<1> DEFINE N == Len(items)
<1>1. N \in Nat /\ DOMAIN items = 1..N /\ \A i \in 1..N : items[i] \in Keys
  BY LenProperties, ElementOfSeq
<1>2. PICK g : Merge(items) = g[N] /\ \A n \in 0..N : g[n] = Added(items, g, n)
  BY <1>1, MergeEquation
<1> DEFINE First(n) == {items[i] : i \in 1..n}
           Good(n) == g[n] \in Seq(Keys) /\ Distinct(g[n]) /\ Range(g[n]) = First(n)
           S == {n \in Nat : n <= N => Good(n)}
<1> HIDE DEF N
<1>3. 0 \in S
  <2>0. 0 \in 0..N
    BY <1>1
  <2>1. g[0] = <<>>
    BY <1>2, <2>0 DEF Added
  <2>2. <<>> \in Seq(Keys) /\ DOMAIN <<>> = {} /\ First(0) = {}
    BY EmptySeq
  <2> QED
    BY <2>1, <2>2 DEF Distinct, Range
<1>4. ASSUME NEW n \in Nat, n \in S PROVE n + 1 \in S
  <2> SUFFICES ASSUME n + 1 <= N PROVE Good(n + 1)
    OBVIOUS
  <2>1. n \in 0..N /\ n + 1 \in 0..N /\ n + 1 \in 1..N
    BY <1>1
  <2>2. Good(n)
    BY <1>1, <1>4, <2>1
  <2>3. g[n + 1] = IF items[n + 1] \in Range(g[n]) THEN g[n] ELSE Append(g[n], items[n + 1])
    BY <1>2, <2>1 DEF Added
  <2>4. First(n + 1) = First(n) \cup {items[n + 1]}
    <3>1. 1..(n + 1) = (1..n) \cup {n + 1}
      OBVIOUS
    <3> QED
      BY <3>1
  <2>5. items[n + 1] \in Keys
    BY <1>1, <2>1
  <2> HIDE DEF First
  <2>6. CASE items[n + 1] \in Range(g[n])
    BY <2>2, <2>3, <2>4, <2>6
  <2>7. CASE items[n + 1] \notin Range(g[n])
    BY <2>2, <2>3, <2>4, <2>5, <2>7, AppendDistinct
  <2> QED
    BY <2>6, <2>7
<1>5. N \in S
  <2> HIDE DEF S
  <2> QED
    BY <1>1, <1>3, <1>4, SetInduction
<1>6. Range(items) = First(N)
  BY <1>1 DEF Range
<1> QED
  BY <1>1, <1>2, <1>5, <1>6

\* Taking the head off a sequence of distinct keys takes its key away.
LEMMA TailDistinct ==
    ASSUME NEW s \in Seq(Keys), s # <<>>, Distinct(s)
    PROVE  /\ Head(s) \in Keys /\ Tail(s) \in Seq(Keys)
           /\ Distinct(Tail(s))
           /\ Range(s) = {Head(s)} \cup Range(Tail(s))
           /\ Head(s) \notin Range(Tail(s))
<1> DEFINE t == Tail(s)
           m == Len(s)
<1>1. m \in Nat \ {0} /\ DOMAIN s = 1..m
  BY LenProperties, EmptySeq
<1>2. Head(s) \in Keys /\ t \in Seq(Keys) /\ Len(t) = m - 1 /\ \A i \in 1..Len(t) : t[i] = s[i + 1]
  BY HeadTailProperties
<1>3. DOMAIN t = 1..(m - 1) /\ \A i \in 1..(m - 1) : t[i] = s[i + 1]
  BY <1>2, LenProperties
<1>4. Head(s) = s[1]
  OBVIOUS
<1> HIDE DEF t, m
<1>5. \A i \in 1..(m - 1) : i + 1 \in 1..m /\ i + 1 # 1
  BY <1>1
<1>6. \A i \in 1..m : i = 1 \/ \E j \in 1..(m - 1) : i = j + 1
  <2> TAKE i \in 1..m
  <2>1. i = 1 \/ (i - 1 \in 1..(m - 1) /\ i = (i - 1) + 1)
    BY <1>1
  <2> QED
    BY <2>1
<1>7. 1 \in 1..m
  BY <1>1
<1>8. Distinct(t)
  <2> SUFFICES ASSUME NEW i \in 1..(m - 1), NEW j \in 1..(m - 1), t[i] = t[j] PROVE i = j
    BY <1>3 DEF Distinct
  <2>1. s[i + 1] = s[j + 1] /\ i + 1 \in DOMAIN s /\ j + 1 \in DOMAIN s
    BY <1>1, <1>3, <1>5
  <2>2. i + 1 = j + 1
    BY <2>1 DEF Distinct
  <2> QED
    BY <1>1, <2>2
<1>9. Head(s) \notin Range(t)
  BY <1>1, <1>3, <1>4, <1>5, <1>7 DEF Distinct, Range
<1>10. Range(s) = {Head(s)} \cup Range(t)
  <2>1. ASSUME NEW e \in Range(s) PROVE e \in {Head(s)} \cup Range(t)
    <3>1. PICK i \in 1..m : e = s[i]
      BY <1>1, <2>1 DEF Range
    <3>2. CASE i = 1
      BY <1>4, <3>1, <3>2
    <3>3. ASSUME NEW j \in 1..(m - 1), i = j + 1 PROVE e \in Range(t)
      BY <1>3, <3>1, <3>3 DEF Range
    <3> QED
      BY <1>6, <3>2, <3>3
  <2>2. ASSUME NEW e \in Range(t) PROVE e \in Range(s)
    BY <1>1, <1>3, <1>5, <2>2 DEF Range
  <2>3. Head(s) \in Range(s)
    BY <1>1, <1>4, <1>7 DEF Range
  <2> QED
    BY <2>1, <2>2, <2>3
<1> QED
  BY <1>2, <1>8, <1>9, <1>10 DEF t

-----------------------------------------------------------------------------
(* The invariant is inductive                                               *)

\* A feed that TLC enumerates is a sequence of keys.
LEMMA FeedIsSeq == \A items \in Feeds : items \in Seq(Keys)
<1> SUFFICES ASSUME NEW n \in 0..MaxItems, NEW items \in [1..n -> Keys] PROVE items \in Seq(Keys)
  BY DEF Feeds
<1>1. n \in Nat
  BY AggregationAssumption
<1> QED
  BY <1>1, SeqDef

\* Nothing is written, nothing recorded.
LEMMA AggregationInitially == Init => AggregationInv
<1> SUFFICES ASSUME Init PROVE AggregationInv
  OBVIOUS
<1>1. <<>> \in Seq(Keys) /\ DOMAIN <<>> = {} /\ Range(<<>>) = {}
  BY EmptySeq DEF Range
<1>2. IsFiniteSet({}) /\ Cardinality({}) = 0
  BY FS_EmptySet
<1>3. AggregationType
  BY <1>1 DEF Init, AggregationType, NoOutcome, Outcomes
<1>4. FeedIsSplit /\ OneBlank /\ BetweenRuns /\ OneHolder /\ Recorded
  BY <1>1 DEF Init, FeedIsSplit, Distinct, OneBlank, BetweenRuns, OneHolder, Recorded, NoOutcome
<1>5. SavedIsHeld
  BY <1>2 DEF Init, SavedIsHeld
<1> QED
  BY <1>3, <1>4, <1>5 DEF AggregationInv

\* POST /admin/crawl: the run begins with the table as it is.
LEMMA TriggerStep ==
    ASSUME AggregationInv, NEW c \in Crawls, NEW n, Trigger(c, n)
    PROVE  AggregationInv'
<1> USE DEF AggregationInv, AggregationType
<1>1. /\ UNCHANGED <<programs, todo, fed, held, blank, saved, outcome>>
      /\ pc' = [pc EXCEPT ![c] = "fetching"] /\ known' = [known EXCEPT ![c] = programs]
      /\ pc[c] = "idle"
  BY DEF Trigger, On
<1>2. AggregationType'
  BY <1>1
<1>3. (FeedIsSplit /\ SavedIsHeld /\ OneBlank /\ OneHolder)'
  BY <1>1 DEF FeedIsSplit, SavedIsHeld, OneBlank, OneHolder
<1>4. BetweenRuns'
  BY <1>1 DEF BetweenRuns
<1>5. Recorded'
  BY <1>1 DEF Recorded
<1> QED
  BY <1>2, <1>3, <1>4, <1>5

\* The feed is fetched and merged: all of it is to be written.
LEMMA FetchStep ==
    ASSUME AggregationInv, NEW c \in Crawls, NEW items \in Feeds, Fetch(c, items)
    PROVE  AggregationInv'
<1> USE DEF AggregationInv, AggregationType
<1>1. /\ UNCHANGED <<programs, held, blank, saved, known>>
      /\ outcome' = [outcome EXCEPT ![c] = NoOutcome]
      /\ pc' = [pc EXCEPT ![c] = "saving"] /\ pc[c] = "fetching"
      /\ todo' = [todo EXCEPT ![c] = Merge(items)]
      /\ fed' = [fed EXCEPT ![c] = Range(items)]
  BY DEF Fetch, On
<1>2. items \in Seq(Keys) /\ Range(items) \in SUBSET Keys
  BY FeedIsSeq, RangeOfSeq
<1>3. Merge(items) \in Seq(Keys) /\ Distinct(Merge(items)) /\ Range(Merge(items)) = Range(items)
  BY <1>2, MergeIsDistinct
<1>4. AggregationType'
  <2>1. NoOutcome \in Outcomes
    BY DEF NoOutcome, Outcomes
  <2> QED
    BY <1>1, <1>2, <1>3, <2>1
<1>5. held[c] = {}
  BY <1>1 DEF BetweenRuns
<1>6. FeedIsSplit'
  BY <1>1, <1>3, <1>5 DEF FeedIsSplit
<1>7. (SavedIsHeld /\ OneBlank /\ OneHolder)'
  BY <1>1 DEF SavedIsHeld, OneBlank, OneHolder
<1>8. BetweenRuns'
  BY <1>1 DEF BetweenRuns
<1>9. Recorded'
  BY <1>1 DEF Recorded, NoOutcome
<1> QED
  BY <1>4, <1>6, <1>7, <1>8, <1>9

\* One upsert: the head of the list is written and counted.
LEMMA UpsertStep ==
    ASSUME AggregationInv, NEW c \in Crawls, Insert(c) \/ Update(c)
    PROVE  AggregationInv'
<1> USE DEF AggregationInv, AggregationType
<1> DEFINE k == Head(todo[c])
<1>1. /\ UNCHANGED <<programs, pc, fed, known, outcome>>
      /\ pc[c] = "saving" /\ todo[c] # <<>>
      /\ held' = [held EXCEPT ![c] = held[c] \cup {k}]
      /\ saved' = [saved EXCEPT ![c] = saved[c] + 1]
      /\ todo' = [todo EXCEPT ![c] = Tail(todo[c])]
  BY DEF Insert, Update, CanUpsert, Wrote, On
<1>2. \/ k \notin programs \cup held[c] /\ blank[c] = NoKey /\ blank' = [blank EXCEPT ![c] = k]
      \/ k \in programs \cup held[c] /\ blank' = blank
  BY DEF Insert, Update, Sees, IdIsFree, On
<1>2a. k \in programs \cup held[c] \/ \A d \in Crawls \ {c} : blank[d] = NoKey
  BY DEF Insert, Update, Sees, CanUpsert, WaitsFor
<1>3. /\ k \in Keys /\ Tail(todo[c]) \in Seq(Keys) /\ Distinct(Tail(todo[c]))
      /\ Range(todo[c]) = {k} \cup Range(Tail(todo[c])) /\ k \notin Range(Tail(todo[c]))
  BY <1>1, TailDistinct DEF FeedIsSplit
<1> HIDE DEF k
<1>4. AggregationType'
  <2>1. saved[c] + 1 \in Nat /\ held[c] \cup {k} \in SUBSET Keys
    BY <1>3
  <2>2. blank' \in [Crawls -> Keys \cup {NoKey}]
    BY <1>2, <1>3
  <2> QED
    BY <1>1, <1>3, <2>1, <2>2
<1>5. FeedIsSplit'
  BY <1>1, <1>3 DEF FeedIsSplit
<1>6. SavedIsHeld'
  <2>1. k \notin held[c]
    BY <1>3 DEF FeedIsSplit
  <2>2. IsFiniteSet(held[c] \cup {k}) /\ Cardinality(held[c] \cup {k}) = Cardinality(held[c]) + 1
    BY <2>1, FS_AddElement DEF SavedIsHeld
  <2> QED
    BY <1>1, <2>2 DEF SavedIsHeld
<1>7. OneBlank'
  <2>1. blank[c] = NoKey => held[c] \subseteq programs
    BY AggregationAssumption DEF OneBlank
  <2> QED
    BY <1>1, <1>2, <1>3, <2>1 DEF OneBlank, FeedIsSplit
<1>8. BetweenRuns'
  BY <1>1, <1>2 DEF BetweenRuns
<1>9. Recorded'
  BY <1>1 DEF Recorded
<1>10. OneHolder'
  BY <1>2, <1>2a DEF OneHolder
<1> QED
  BY <1>4, <1>5, <1>6, <1>7, <1>8, <1>9, <1>10

\* A run is over: its session is rolled back, its outcome recorded.
LEMMA EndRunStep ==
    ASSUME AggregationInv, NEW c \in Crawls, pc[c] # "idle",
           NEW status \in {"success", "partial_failure", "failed"}, EndRun(c, status),
           status = "success" => todo[c] = <<>>
    PROVE  AggregationInv'
<1> USE DEF AggregationInv, AggregationType
<1> DEFINE r == [status |-> status, saved |-> saved[c], fed |-> fed[c], known |-> known[c]]
<1>1. /\ UNCHANGED programs
      /\ outcome' = [outcome EXCEPT ![c] = r]
      /\ \E p \in {"fetching", "idle"} : pc' = [pc EXCEPT ![c] = p]
      /\ held' = [held EXCEPT ![c] = {}] /\ blank' = [blank EXCEPT ![c] = NoKey]
      /\ saved' = [saved EXCEPT ![c] = 0] /\ todo' = [todo EXCEPT ![c] = <<>>]
      /\ fed' = [fed EXCEPT ![c] = {}] /\ known' = [known EXCEPT ![c] = programs]
  BY DEF EndRun, On, HeldAfter, SavedAfter
<1>2. r \in Outcomes
  BY DEF Outcomes
<1>4. <<>> \in Seq(Keys) /\ Range(<<>>) = {} /\ Distinct(<<>>)
  BY EmptySeq DEF Range, Distinct
<1>5. IsFiniteSet({}) /\ Cardinality({}) = 0
  BY FS_EmptySet
<1>6. r.known = programs
  BY DEF BetweenRuns
<1>7. status = "success" => r.saved = Cardinality(r.fed) /\ Cardinality(r.fed \ programs) <= 1
  <2> SUFFICES ASSUME status = "success"
               PROVE  saved[c] = Cardinality(fed[c]) /\ Cardinality(fed[c] \ programs) <= 1
    OBVIOUS
  <2>1. fed[c] = held[c]
    BY <1>4 DEF FeedIsSplit
  <2>2. fed[c] \ programs \subseteq {blank[c]}
    BY <2>1 DEF OneBlank
  <2>3. fed[c] \ programs = {} \/ fed[c] \ programs = {blank[c]}
    BY <2>2
  <2>4. Cardinality({blank[c]}) = 1
    BY FS_Singleton
  <2>5. Cardinality(fed[c] \ programs) <= 1
    <3> DEFINE new == fed[c] \ programs
    <3>1. new = {} \/ new = {blank[c]}
      BY <2>3
    <3> HIDE DEF new
    <3>2. Cardinality(new) = 0 \/ Cardinality(new) = 1
      BY <1>5, <2>4, <3>1
    <3>3. Cardinality(new) <= 1
      BY <3>2
    <3> QED
      BY <3>3 DEF new
  <2> QED
    BY <2>1, <2>5 DEF SavedIsHeld
<1> HIDE DEF r
<1>8. AggregationType'
  BY <1>1, <1>2, <1>4
<1>9. FeedIsSplit'
  BY <1>1, <1>4 DEF FeedIsSplit
<1>10. SavedIsHeld'
  BY <1>1, <1>5 DEF SavedIsHeld
<1>11. (OneBlank /\ OneHolder)'
  BY <1>1 DEF OneBlank, OneHolder
<1>12. BetweenRuns'
  BY <1>1 DEF BetweenRuns
<1>13. Recorded'
  <2>1. r.status = status
    BY DEF r
  <2> QED
    BY <1>1, <1>6, <1>7, <2>1 DEF Recorded
<1> QED
  BY <1>8, <1>9, <1>10, <1>11, <1>12, <1>13

\* Every way a run can end.
LEMMA FinishStep ==
    ASSUME AggregationInv, NEW c \in Crawls,
           Succeed(c) \/ FetchFails(c) \/ InsertConflicts(c) \/ DeadlockBroken(c)
    PROVE  AggregationInv'
<1>1. FailureStatus(c) \in {"partial_failure", "failed"}
  BY DEF FailureStatus
<1>2. CASE Succeed(c)
  BY <1>2, EndRunStep DEF Succeed
<1>3. CASE FetchFails(c)
  BY <1>1, <1>3, EndRunStep DEF FetchFails
<1>4. CASE InsertConflicts(c)
  BY <1>1, <1>4, EndRunStep DEF InsertConflicts, CanUpsert
<1>5. CASE DeadlockBroken(c)
  <2>1. pc[c] = "saving"
    BY <1>5 DEF DeadlockBroken, Deadlocked, WaitsFor
  <2> QED
    BY <1>1, <1>5, <2>1, EndRunStep DEF DeadlockBroken
<1> QED
  BY <1>2, <1>3, <1>4, <1>5

\* The invariant holds in every behaviour.
THEOREM AggregationInvariance == Spec => []AggregationInv
<1>1. AggregationInv /\ [Next]_vars => AggregationInv'
  <2> SUFFICES ASSUME AggregationInv, [Next]_vars PROVE AggregationInv'
    OBVIOUS
  <2>1. ASSUME NEW c \in Crawls, Step(c) PROVE AggregationInv'
    BY <2>1, FetchStep, UpsertStep, FinishStep DEF Step
  <2>2. CASE UNCHANGED vars
    BY <2>2 DEF vars, AggregationInv, AggregationType, FeedIsSplit, SavedIsHeld, OneBlank,
                BetweenRuns, OneHolder, Recorded
  <2> QED
    BY <2>1, <2>2, TriggerStep DEF Next
<1> QED
  BY <1>1, AggregationInitially, PTL DEF Spec

-----------------------------------------------------------------------------
(* What the runs check                                                      *)

\* items_saved of a SUCCESS job is the number of distinct programs of its feed, for every
\* feed and however many crawls overlap.
THEOREM CountsAreKeys == Spec => []SuccessCountsKeys
<1>1. AggregationInv => SuccessCountsKeys
  BY DEF AggregationInv, Recorded, SuccessCountsKeys
<1> QED
  BY <1>1, AggregationInvariance, PTL

\* The error that breaks a deadlock always points to a program that two feeds share,
\* for any number of crawls: the waits for the empty id alone make no circle.
THEOREM DeadlocksShareAProgram == Spec => []DisjointFeedsNeverDeadlock
<1>1. AggregationInv => DisjointFeedsNeverDeadlock
  <2> SUFFICES ASSUME AggregationInv, NEW c \in Crawls, Deadlocked(c),
                      \A a, b \in Crawls : a # b => fed[a] \cap fed[b] = {}
               PROVE  FALSE
    BY DEF DisjointFeedsNeverDeadlock
  <2> USE DEF AggregationInv, AggregationType
  <2>1. ASSUME NEW a \in Crawls, NEW b \in Crawls, WaitsFor(a, b) PROVE a # b /\ blank[b] # NoKey
    <3>1. a # b /\ todo[a] # <<>>
      BY <2>1 DEF WaitsFor
    <3>2. Head(todo[a]) \in fed[a]
      BY <3>1, TailDistinct DEF FeedIsSplit
    <3>3. Head(todo[a]) \notin held[b]
      BY <3>1, <3>2 DEF FeedIsSplit
    <3> QED
      BY <2>1, <3>1, <3>3 DEF WaitsFor
  <2>2. PICK S \in SUBSET Crawls : c \in S /\ \A d \in S : \E e \in S : WaitsFor(d, e)
    BY DEF Deadlocked
  <2>3. PICK d \in S : WaitsFor(c, d)
    BY <2>2
  <2>4. PICK e \in S : WaitsFor(d, e)
    BY <2>2
  <2> QED
    BY <2>1, <2>2, <2>3, <2>4 DEF OneHolder
<1> QED
  BY <1>1, AggregationInvariance, PTL

\* The empty id lets a run succeed only if at most one program of its feed is new.
THEOREM SecondNewProgramFails == Spec => []AtMostOneNewProgram
<1>1. AggregationInv => AtMostOneNewProgram
  BY DEF AggregationInv, Recorded, AtMostOneNewProgram
<1> QED
  BY <1>1, AggregationInvariance, PTL
=============================================================================

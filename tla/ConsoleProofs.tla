---------------------------- MODULE ConsoleProofs ----------------------------
(***************************************************************************)
(* The properties of Console, for every number of sources, of tabs and of  *)
(* API calls in flight.                                                    *)
(***************************************************************************)
EXTENDS Console, SequenceTheorems, TLAPS

-----------------------------------------------------------------------------
(* The inductive invariant                                                  *)

Configs == Sources \cup {Gone}
Kinds == {"none", "load", "save", "delete", "list", "login"}
CallRecords == [kind : Kinds, at : {"none", "sent", "ok", "failed"}, tab : TabIds \cup {NoTab},
                source : Configs, body : Configs \cup {"{}"} \cup SUBSET Sources]
Views == [mode : {"welcome", "loading", "detail", "edit"}, tab : TabIds \cup {NoTab},
          text : Configs \cup {Broken}, admin : BOOLEAN]

ConsoleType ==
    /\ tabs \in Seq(TabIds)
    /\ item \in [TabIds -> Configs]
    /\ content \in [TabIds -> Configs]
    /\ dirty \subseteq TabIds
    /\ active \in TabIds \cup {NoTab}
    /\ view \in Views
    /\ token \in {"none", "admin"}
    /\ calls \in [CallIds -> CallRecords]
    /\ server \in [Sources -> Configs]
    /\ haste \in {"none", "hurried", "strayed"}

\* An open tab is the tab of a source, and so is the tab the view belongs to; only a view
\* with buttons belongs to a tab.
TabsHaveSources == \A t \in TabIds : t \in Range(tabs) \/ t = view.tab => item[t] \in Sources
ButtonsHaveTab == /\ HasButtons => view.tab \in TabIds
                  /\ view.admin => HasButtons

\* A call that carries a tab carries the source of that tab: the tab object is not used
\* again before the answer.
KeepsTab(c, its) ==
    /\ c.kind \in {"load", "save"} => /\ c.tab \in TabIds /\ c.source \in Sources
                                      /\ its[c.tab] = c.source
                                      /\ c.body \in Configs
    /\ c.kind = "delete" => c.source \in Sources /\ c.body = Gone
CallsKeepTheirTab == \A i \in CallIds : KeepsTab(calls[i], item)

\* Until Ctrl+S goes astray, whatever holds a config holds that of its own source.
Own(s) == {s, Gone}
ConfigsAreOwn ==
    haste # "strayed" =>
        /\ \A s \in Sources : server[s] \in Own(s)
        /\ \A t \in TabIds : content[t] \in Own(item[t])
        /\ view.mode = "edit" => view.text \in Own(item[view.tab]) \cup {Broken}
        /\ \A i \in CallIds : calls[i].kind \in {"load", "save"} => calls[i].body \in Own(calls[i].source)

\* A user who waits for the answers has one call under way at a time, for the active tab;
\* the view is behind only while that tab is being loaded.
IsUsers(c) == c.kind \notin {"none", "list"}
ViewFollows ==
    haste = "none" =>
        /\ \A i, j \in CallIds : IsUsers(calls[i]) /\ IsUsers(calls[j]) => i = j
        /\ \A i \in CallIds : calls[i].kind \in {"load", "save"} => calls[i].tab = active
        /\ HasButtons /\ (\A i \in CallIds : calls[i].kind # "load") => view.tab = active

ConsoleInv == /\ ConsoleType /\ TabsAreSound /\ TabsHaveSources /\ ButtonsHaveTab
              /\ CallsKeepTheirTab /\ ConfigsAreOwn /\ ViewFollows

-----------------------------------------------------------------------------
(* Lemmas on the operators                                                  *)

\* What renderTabContent shows: it belongs to the tab it was called with, or to none.
LEMMA RenderedView ==
    ASSUME NEW t \in TabIds \cup {NoTab}, NEW cont \in [TabIds -> Configs]
    PROVE  LET v == Rendered(t, cont)
           IN /\ v \in Views
              /\ v.mode # "edit"
              /\ v.mode = "detail" => v.tab = t /\ t \in TabIds
              /\ v.tab # NoTab => v.mode = "detail"
              /\ v.admin => v.mode = "detail"
<1>1. CASE t = NoTab
  BY <1>1 DEF Rendered, Welcome, Blank, Views, Configs
<1>2. CASE t # NoTab /\ cont[t] = Gone
  BY <1>2 DEF Rendered, Loading, Blank, Views, Configs
<1>3. CASE t # NoTab /\ cont[t] # Gone
  BY <1>3 DEF Rendered, Views, Configs
<1> QED
  BY <1>1, <1>2, <1>3

\* The server answers a call and changes nothing of it but at and, for a load or a list,
\* the body.
LEMMA HandledCall ==
    ASSUME NEW c \in CallRecords, server \in [Sources -> Configs],
           c.kind \in {"load", "save", "delete"} => c.source \in Sources
    PROVE  LET h == Handled(c)
           IN /\ h \in CallRecords
              /\ h.kind = c.kind /\ h.tab = c.tab /\ h.source = c.source
              /\ h.body = c.body \/ (c.kind = "load" /\ h.body = server[c.source]) \/ c.kind = "list"
              /\ h.at \in {"ok", "failed"}
<1> USE DEF CallRecords
<1>1. CASE c.kind \in {"load", "save"} /\ server[c.source] = Gone
  BY <1>1 DEF Handled
<1>2. CASE c.kind = "load" /\ server[c.source] # Gone
  <2>1. Handled(c) = [c EXCEPT !.at = "ok", !.body = server[c.source]]
    BY <1>2 DEF Handled
  <2>2. server[c.source] \in Configs
    BY <1>2
  <2> QED
    BY <1>2, <2>1, <2>2
<1>3. CASE c.kind = "list"
  <2>1. Handled(c) = [c EXCEPT !.at = "ok", !.body = ListBody]
    BY <1>3 DEF Handled
  <2>2. ListBody \in SUBSET Sources
    BY DEF ListBody
  <2> QED
    BY <1>3, <2>1, <2>2
<1>4. CASE c.kind = "login"
  <2>1. Handled(c) = [c EXCEPT !.at = IF c.body = "form" THEN "ok" ELSE "failed"]
    BY <1>4 DEF Handled
  <2> QED
    BY <1>4, <2>1
<1>5. CASE c.kind \in {"save", "delete", "none"} /\ ~(c.kind \in {"load", "save"} /\ server[c.source] = Gone)
  <2>1. Handled(c) = [c EXCEPT !.at = "ok"]
    BY <1>5 DEF Handled
  <2> QED
    BY <1>5, <2>1
<1> QED
  BY <1>1, <1>2, <1>3, <1>4, <1>5 DEF Kinds

\* The elements of a sequence from which place i was removed.
LEMMA RemoveAtElements ==
    ASSUME NEW A, NEW s \in Seq(A), NEW i \in DOMAIN s
    PROVE  LET t == RemoveAt(s, i)
           IN /\ t \in Seq(A)
              /\ DOMAIN t = 1..(Len(s) - 1)
              /\ \A k \in 1..(Len(s) - 1) : t[k] = IF k < i THEN s[k] ELSE s[k + 1]
<1> DEFINE a == SubSeq(s, 1, i - 1)
           b == SubSeq(s, i + 1, Len(s))
           t == RemoveAt(s, i)
           m == Len(s)
<1>1. m \in Nat /\ DOMAIN s = 1..m /\ i \in 1..m /\ \A k \in 1..m : s[k] \in A
  BY LenProperties, ElementOfSeq
<1>2. /\ a \in Seq(A) /\ Len(a) = i - 1
      /\ \A k \in 1..(i - 1) : a[k] = s[k]
  <2>1. \A k \in 1..(i - 1) : s[k] \in A
    BY <1>1
  <2>2. /\ a \in Seq(A) /\ Len(a) = IF 1 <= i - 1 THEN i - 1 - 1 + 1 ELSE 0
        /\ \A k \in 1..(i - 1 - 1 + 1) : a[k] = s[1 + k - 1]
    BY <1>1, <2>1, SubSeqProperties
  <2> HIDE DEF a
  <2> QED
    BY <1>1, <2>2
<1>3. /\ b \in Seq(A) /\ Len(b) = m - i
      /\ \A k \in 1..(m - i) : b[k] = s[i + k]
  <2>1. \A k \in (i + 1)..m : s[k] \in A
    BY <1>1
  <2>2. /\ b \in Seq(A) /\ Len(b) = IF i + 1 <= m THEN m - (i + 1) + 1 ELSE 0
        /\ \A k \in 1..(m - (i + 1) + 1) : b[k] = s[i + 1 + k - 1]
    BY <1>1, <2>1, SubSeqProperties
  <2> HIDE DEF b, m
  <2>3. Len(b) = m - i
    BY <1>1, <2>2
  <2>4. m - (i + 1) + 1 = m - i /\ \A k \in 1..(m - i) : i + 1 + k - 1 = i + k
    BY <1>1
  <2> QED
    BY <2>2, <2>3, <2>4
<1>4. t = a \o b
  BY DEF RemoveAt
<1> HIDE DEF a, b, m
<1>5. /\ a \o b \in Seq(A) /\ Len(a \o b) = Len(a) + Len(b)
      /\ \A k \in 1..(Len(a) + Len(b)) : (a \o b)[k] = IF k <= Len(a) THEN a[k] ELSE b[k - Len(a)]
  BY <1>2, <1>3, ConcatProperties
<1> HIDE DEF t
<1>6. t \in Seq(A) /\ Len(t) = m - 1
  BY <1>1, <1>2, <1>3, <1>4, <1>5
<1>7. DOMAIN t = 1..(m - 1)
  BY <1>6, LenProperties
<1>8. ASSUME NEW k \in 1..(m - 1) PROVE t[k] = IF k < i THEN s[k] ELSE s[k + 1]
  <2>1. t[k] = IF k <= i - 1 THEN a[k] ELSE b[k - (i - 1)]
    BY <1>1, <1>2, <1>3, <1>4, <1>5
  <2>2. CASE k < i
    BY <1>1, <1>2, <2>1, <2>2
  <2>3. CASE ~(k < i)
    <3>1. k - (i - 1) \in 1..(m - i) /\ i + (k - (i - 1)) = k + 1
      BY <1>1, <2>3
    <3>2. b[k - (i - 1)] = s[k + 1]
      BY <1>3, <3>1
    <3> QED
      BY <1>1, <2>1, <2>3, <3>2
  <2> QED
    BY <2>2, <2>3
<1> QED
  BY <1>6, <1>7, <1>8 DEF t, m

\* No two of these tabs belong to the same source.
OneTabEach(ts) == \A m, n \in DOMAIN ts : item[ts[m]] = item[ts[n]] => m = n

\* closeTab leaves sound tabs behind, and the view of the tab that is active then.
LEMMA CloseEffect ==
    ASSUME ConsoleType, TabsAreSound, NEW t, CloseTab(t)
    PROVE  /\ tabs' \in Seq(TabIds) /\ active' \in TabIds \cup {NoTab}
           /\ Range(tabs') \subseteq Range(tabs)
           /\ OneTabEach(tabs')
           /\ IF tabs' = <<>> THEN active' = NoTab ELSE active' \in Range(tabs')
           /\ UNCHANGED <<tabs, active, view>> \/ view' = Rendered(active', content)
<1> USE DEF OneTabEach
<1>1. CASE t \notin Range(tabs)
  BY <1>1 DEF CloseTab, ConsoleType, TabsAreSound
<1>2. CASE t \in Range(tabs)
  <2> DEFINE n == CHOOSE k \in DOMAIN tabs : tabs[k] = t
             rest == RemoveAt(tabs, n)
             L == Len(tabs)
             next == IF active = t THEN Neighbour(rest, n) ELSE active
  <2>1. n \in DOMAIN tabs /\ tabs[n] = t
    BY <1>2 DEF Range
  <2>2. tabs' = rest /\ active' = next /\ view' = Rendered(next, content)
    BY <1>2 DEF CloseTab, AfterClose
  <2>3. tabs \in Seq(TabIds) /\ L \in Nat /\ DOMAIN tabs = 1..L
    BY LenProperties DEF ConsoleType
  <2>4. /\ rest \in Seq(TabIds) /\ DOMAIN rest = 1..(L - 1)
        /\ \A k \in 1..(L - 1) : rest[k] = IF k < n THEN tabs[k] ELSE tabs[k + 1]
    BY <2>1, <2>3, RemoveAtElements
  <2>5. Len(rest) = L - 1
    <3>1. L - 1 \in Nat
      BY <2>1, <2>3
    <3>2. Len(rest) \in Nat /\ DOMAIN rest = 1..Len(rest)
      BY <2>4, LenProperties
    <3> QED
      BY <2>4, <3>1, <3>2
  <2> HIDE DEF n, rest, L
  <2>6. \A k \in 1..(L - 1) : rest[k] \in Range(rest) /\ rest # <<>>
    <3>1. rest = <<>> => L - 1 = 0
      BY <2>5, EmptySeq
    <3>2. \A k \in 1..(L - 1) : L - 1 # 0
      BY <2>3
    <3> QED
      BY <2>4, <3>1, <3>2 DEF Range
  <2>7. Range(rest) \subseteq Range(tabs)
    <3> SUFFICES ASSUME NEW k \in 1..(L - 1) PROVE rest[k] \in Range(tabs)
      BY <2>4 DEF Range
    <3>1. k \in 1..L /\ k + 1 \in 1..L
      BY <2>3
    <3> QED
      BY <2>3, <2>4, <3>1 DEF Range
  <2>8. OneTabEach(rest)
    <3> SUFFICES ASSUME NEW k \in 1..(L - 1), NEW l \in 1..(L - 1), item[rest[k]] = item[rest[l]]
                 PROVE  k = l
      BY <2>4
    <3> DEFINE From(j) == IF j < n THEN j ELSE j + 1
    <3>1. From(k) \in 1..L /\ From(l) \in 1..L
      BY <2>3
    <3>2. rest[k] = tabs[From(k)] /\ rest[l] = tabs[From(l)]
      BY <2>4
    <3>3. From(k) = From(l)
      <4> HIDE DEF From
      <4> QED
        BY <2>3, <3>1, <3>2 DEF TabsAreSound
    <3> QED
      BY <2>1, <2>3, <3>3
  <2>9. ASSUME active # t PROVE active \in Range(rest) /\ rest # <<>>
    <3>1. tabs # <<>>
      BY <2>1
    <3>2. PICK m \in 1..L : tabs[m] = active
      BY <2>3, <3>1 DEF TabsAreSound, Range
    <3>3. m # n
      BY <2>1, <2>9, <3>2
    <3>4. CASE m < n
      <4>1. m \in 1..(L - 1) /\ rest[m] = active
        BY <2>1, <2>3, <2>4, <3>2, <3>4
      <4> QED
        BY <2>6, <4>1
    <3>5. CASE m > n
      <4>1. m - 1 \in 1..(L - 1) /\ ~(m - 1 < n) /\ (m - 1) + 1 = m
        BY <2>1, <2>3, <3>2, <3>5
      <4>2. rest[m - 1] = active
        BY <2>4, <3>2, <4>1
      <4> QED
        BY <2>6, <4>1, <4>2
    <3> QED
      BY <2>1, <2>3, <3>3, <3>4, <3>5
  <2>10. ASSUME active = t
         PROVE  IF rest = <<>> THEN Neighbour(rest, n) = NoTab ELSE Neighbour(rest, n) \in Range(rest)
    <3>1. n \in 1..L
      BY <2>1, <2>3
    <3>2. CASE n <= L - 1
      <4>1. Neighbour(rest, n) = rest[n] /\ n \in 1..(L - 1)
        BY <2>3, <2>5, <3>1, <3>2 DEF Neighbour
      <4> QED
        BY <2>6, <4>1
    <3>3. CASE n > L - 1 /\ n > 1
      <4>1. Neighbour(rest, n) = rest[n - 1] /\ n - 1 \in 1..(L - 1)
        BY <2>3, <2>5, <3>1, <3>3 DEF Neighbour
      <4> QED
        BY <2>6, <4>1
    <3>4. CASE n > L - 1 /\ ~(n > 1)
      <4>1. Neighbour(rest, n) = NoTab /\ Len(rest) = 0
        BY <2>3, <2>5, <3>1, <3>4 DEF Neighbour
      <4>2. rest = <<>>
        BY <2>4, <4>1, EmptySeq
      <4> QED
        BY <4>1, <4>2
    <3> QED
      BY <2>3, <3>1, <3>2, <3>3, <3>4
  <2>11. IF rest = <<>> THEN next = NoTab ELSE next \in Range(rest)
    BY <2>9, <2>10
  <2> HIDE DEF next
  <2>12. next \in TabIds \cup {NoTab}
    BY <2>4, <2>11, RangeOfSeq
  <2> QED
    BY <2>2, <2>4, <2>7, <2>8, <2>11, <2>12
<1> QED
  BY <1>1, <1>2

\* The calls api() can make, and the free slot of an answered one.
LEMMA CallsAreRecords ==
    /\ NoCall \in CallRecords
    /\ \A kind \in Kinds, t \in TabIds \cup {NoTab}, s \in Configs,
          b \in Configs \cup {"{}"} : Sent(kind, t, s, b) \in CallRecords
BY DEF NoCall, Sent, CallRecords, Kinds, Configs

\* The history of the user's haste is one of its three values.
LEMMA HasteType == UserActs /\ haste \in {"none", "hurried", "strayed"}
                       => haste' \in {"none", "hurried"} /\ haste # "strayed"
BY DEF UserActs

-----------------------------------------------------------------------------
(* The invariant is inductive                                               *)

\* An empty page.
LEMMA ConsoleInitially == Init => ConsoleInv
<1> SUFFICES ASSUME Init PROVE ConsoleInv
  OBVIOUS
<1>1. <<>> \in Seq(TabIds) /\ DOMAIN <<>> = {} /\ Range(<<>>) = {}
  BY EmptySeq DEF Range
<1>2. view \in Views /\ view.mode = "welcome" /\ view.tab = NoTab /\ ~view.admin
  BY DEF Init, Welcome, Blank, Views, Configs
<1>3. ConsoleType
  BY <1>1, <1>2, CallsAreRecords DEF Init, ConsoleType, Configs
<1>4. TabsAreSound /\ TabsHaveSources /\ ButtonsHaveTab
  BY <1>1, <1>2, ConsoleAssumption DEF Init, TabsAreSound, TabsHaveSources, ButtonsHaveTab, HasButtons
<1>5. CallsKeepTheirTab
  BY DEF Init, CallsKeepTheirTab, KeepsTab, NoCall
<1>6. ConfigsAreOwn /\ ViewFollows
  BY <1>2 DEF Init, ConfigsAreOwn, Own, ViewFollows, HasButtons, NoCall, IsUsers
<1> QED
  BY <1>3, <1>4, <1>5, <1>6 DEF ConsoleInv

\* Types.
LEMMA ConsoleTypeStep == ConsoleInv /\ [Next]_vars => ConsoleType'
<1> SUFFICES ASSUME ConsoleInv, [Next]_vars PROVE ConsoleType'
  OBVIOUS
<1>t. ConsoleType /\ TabsAreSound /\ CallsKeepTheirTab
  BY DEF ConsoleInv
<1>c. \A i \in CallIds : calls[i] \in CallRecords /\ calls[i].tab \in TabIds \cup {NoTab}
  BY <1>t DEF ConsoleType, CallRecords
<1>n. NoCall \in CallRecords /\ Sent("list", NoTab, Gone, Gone) \in CallRecords
  BY CallsAreRecords DEF Kinds, Configs
<1> USE DEF tabVars
<1>1. ASSUME NEW i \in CallIds, Handle(i) PROVE ConsoleType'
  <2>1. Handled(calls[i]) \in CallRecords
    BY <1>t, <1>c, HandledCall DEF ConsoleType, CallsKeepTheirTab, KeepsTab
  <2>2. server' \in [Sources -> Configs]
    BY <1>1, <1>t DEF Handle, ConsoleType, CallsKeepTheirTab, KeepsTab, Configs
  <2> QED
    BY <1>1, <1>t, <2>1, <2>2 DEF Handle, ConsoleType
<1>2. ASSUME NEW i \in CallIds, Lose(i) PROVE ConsoleType'
  <2>1. [calls[i] EXCEPT !.at = "failed"] \in CallRecords
    BY <1>c DEF CallRecords
  <2> QED
    BY <1>2, <1>t, <2>1 DEF Lose, ConsoleType
<1>3. ASSUME NEW i \in CallIds, NEW s \in Sources, NEW t \in TabIds, Open(i, s, t)
      PROVE  ConsoleType'
  <2>1. Sent("load", t, s, Gone) \in CallRecords
    BY CallsAreRecords DEF Kinds, Configs
  <2>2. calls' \in [CallIds -> CallRecords] /\ haste' \in {"none", "hurried"}
    BY <1>3, <1>t, <2>1, HasteType DEF Open, Call, ConsoleType
  <2>3. Append(tabs, t) \in Seq(TabIds)
    BY <1>t, AppendProperties DEF ConsoleType
  <2> QED
    BY <1>3, <1>t, <2>2, <2>3 DEF Open, ConsoleType, Configs
<1>4. ASSUME NEW i \in CallIds, Loaded(i) \/ Saved(i) PROVE ConsoleType'
  <2> DEFINE t == calls[i].tab
  <2>1. t \in TabIds /\ calls[i].body \in Configs
    BY <1>4, <1>t DEF Loaded, Saved, Answered, CallsKeepTheirTab, KeepsTab
  <2>2. content' = [content EXCEPT ![t] = calls[i].body] /\ view' = Rendered(t, content')
        /\ dirty' \subseteq dirty /\ calls' = [calls EXCEPT ![i] = NoCall]
        /\ UNCHANGED <<tabs, item, active, tree, token, server, haste>>
    BY <1>4 DEF Loaded, Saved, Ended
  <2>3. content' \in [TabIds -> Configs]
    BY <1>t, <2>1, <2>2 DEF ConsoleType
  <2>4. view' \in Views
    BY <2>1, <2>2, <2>3, RenderedView
  <2> QED
    BY <1>t, <1>n, <2>2, <2>3, <2>4 DEF ConsoleType
<1>5. ASSUME NEW i \in CallIds, LoadFailed(i) PROVE ConsoleType'
  <2>1. view' \in Views
    BY <1>5, <1>t, <1>c, RenderedView DEF LoadFailed, ConsoleType
  <2> QED
    BY <1>5, <1>t, <1>n, <2>1 DEF LoadFailed, Ended, ConsoleType
<1>6. ASSUME NEW t, CloseTab(t)
      PROVE  tabs' \in Seq(TabIds) /\ active' \in TabIds \cup {NoTab} /\ view' \in Views
  <2>1. tabs' \in Seq(TabIds) /\ active' \in TabIds \cup {NoTab}
        /\ (view' = view \/ view' = Rendered(active', content))
    BY <1>6, <1>t, CloseEffect
  <2>2. Rendered(active', content) \in Views
    BY <1>t, <2>1, RenderedView DEF ConsoleType
  <2> QED
    BY <1>t, <2>1, <2>2 DEF ConsoleType
<1>7. ASSUME NEW t \in TabIds, Close(t) PROVE ConsoleType'
  BY <1>6, <1>7, <1>t, HasteType DEF Close, ConsoleType
<1>8. ASSUME NEW t \in TabIds, Switch(t) PROVE ConsoleType'
  <2>1. view' \in Views
    BY <1>8, <1>t, RenderedView DEF Switch, ConsoleType
  <2> QED
    BY <1>8, <1>t, <2>1, HasteType DEF Switch, ConsoleType
<1>9. CASE EditJson
  <2>1. view.tab \in TabIds
    BY <1>9 DEF EditJson, ConsoleInv, ButtonsHaveTab
  <2>2. content[view.tab] \in Configs
    BY <1>t, <2>1 DEF ConsoleType
  <2>3. view' \in Views
    BY <1>9, <1>t, <2>2 DEF EditJson, ConsoleType, Views
  <2> QED
    BY <1>9, <1>t, <2>1, <2>3, HasteType DEF EditJson, ConsoleType
<1>10. CASE Type
  <2>1. view.tab \in TabIds
    BY <1>10 DEF Type, ConsoleInv, ButtonsHaveTab, HasButtons
  <2>2. content[view.tab] \in Configs
    BY <1>t, <2>1 DEF ConsoleType
  <2>3. view' \in Views
    BY <1>10, <1>t, <2>2 DEF Type, ConsoleType, Views
  <2> QED
    BY <1>10, <1>t, <2>3, HasteType DEF Type, ConsoleType
<1>11. ASSUME NEW i \in CallIds, NEW t \in TabIds, SaveSource(i, t), item[t] \in Configs,
              haste' \in {"none", "hurried", "strayed"}
       PROVE  ConsoleType'
  <2> DEFINE config == IF view.mode = "edit" THEN view.text ELSE content[t]
  <2>1. config \in Configs /\ calls' = [calls EXCEPT ![i] = Sent("save", t, item[t], config)]
    BY <1>11, <1>t DEF SaveSource, Call, ConsoleType, Views
  <2>2. Sent("save", t, item[t], config) \in CallRecords
    BY <1>11, <2>1, CallsAreRecords DEF Kinds
  <2> QED
    BY <1>11, <1>t, <2>1, <2>2 DEF SaveSource, ConsoleType
<1>12. ASSUME NEW i \in CallIds, SaveButton(i) PROVE ConsoleType'
  <2>1. view.tab \in TabIds
    BY <1>12, <1>t DEF SaveButton, ButtonTab, ConsoleType, Views
  <2> QED
    BY <1>11, <1>12, <1>t, <2>1, HasteType DEF SaveButton, ButtonTab, ConsoleType
<1>13. ASSUME NEW i \in CallIds, CtrlS(i) PROVE ConsoleType'
  <2>1. active \in TabIds /\ haste' \in {"none", "hurried", "strayed"}
    BY <1>13, <1>t, HasteType DEF CtrlS, ConsoleType
  <2> QED
    BY <1>11, <1>13, <1>t, <2>1 DEF CtrlS, ConsoleType
<1>14. ASSUME NEW i \in CallIds, NEW s \in Sources, Delete(i, s) PROVE ConsoleType'
  <2>1. Sent("delete", NoTab, s, Gone) \in CallRecords
    BY CallsAreRecords DEF Kinds, Configs
  <2>2. [Sent("delete", NoTab, s, Gone) EXCEPT !.at = IF token = "admin" THEN @ ELSE "failed"]
            \in CallRecords
    BY <2>1 DEF CallRecords
  <2> QED
    BY <1>14, <1>t, <2>2, HasteType DEF Delete, Call, ConsoleType
<1>15. ASSUME NEW i \in CallIds, Deleted(i) PROVE ConsoleType'
  BY <1>6, <1>15, <1>t, <1>n DEF Deleted, Reload, ConsoleType
<1>16. ASSUME NEW i \in CallIds, Refresh(i) \/ Listed(i) \/ Failed(i) PROVE ConsoleType'
  BY <1>16, <1>t, <1>n DEF Refresh, Listed, Failed, Reload, Ended, ConsoleType
<1>17. ASSUME NEW i \in CallIds, Login(i) PROVE ConsoleType'
  <2>1. Sent("login", NoTab, Gone, Stringified("form")) \in CallRecords
    BY CallsAreRecords DEF Kinds, Configs, Stringified
  <2> QED
    BY <1>17, <1>t, <2>1, HasteType DEF Login, Call, ConsoleType
<1>18. ASSUME NEW i \in CallIds, LoginEnds(i) PROVE ConsoleType'
  BY <1>18, <1>t, <1>n DEF LoginEnds, Reload, Ended, ConsoleType
<1>19. CASE Logout
  BY <1>19, <1>t, HasteType DEF Logout, ConsoleType
<1>20. CASE UNCHANGED vars
  BY <1>20, <1>t DEF vars, ConsoleType
<1> QED
  BY <1>1, <1>2, <1>3, <1>4, <1>5, <1>7, <1>8, <1>9, <1>10, <1>12, <1>13, <1>14, <1>15,
     <1>16, <1>17, <1>18, <1>19, <1>20 DEF Next, Answer, User

\* A step that is not one of these leaves the tabs and the view alone.
LEMMA TabSteps ==
    ASSUME [Next]_vars
    PROVE  \/ UNCHANGED tabVars
           \/ \E i \in CallIds, s \in Sources, t \in TabIds : Open(i, s, t)
           \/ \E i \in CallIds : Loaded(i) \/ Saved(i) \/ LoadFailed(i) \/ Deleted(i)
           \/ \E t \in TabIds : Close(t) \/ Switch(t)
           \/ EditJson \/ Type
BY DEF Next, Answer, User, Handle, Lose, Listed, LoginEnds, Failed, Refresh, Delete, SaveButton,
       CtrlS, SaveSource, Login, Logout, vars, tabVars

\* Every source keeps at most one tab, the view belongs to a tab of a source.
LEMMA TabsStep ==
    ConsoleInv /\ [Next]_vars => (TabsAreSound /\ TabsHaveSources /\ ButtonsHaveTab)'
<1> SUFFICES ASSUME ConsoleInv, [Next]_vars
             PROVE  (TabsAreSound /\ TabsHaveSources /\ ButtonsHaveTab)'
  OBVIOUS
<1>t. ConsoleType /\ TabsAreSound /\ TabsHaveSources /\ ButtonsHaveTab /\ CallsKeepTheirTab
  BY DEF ConsoleInv
<1>r. Range(tabs) \subseteq TabIds /\ NoTab \notin TabIds /\ NoTab \notin Range(tabs)
  BY <1>t, RangeOfSeq, ConsoleAssumption DEF ConsoleType
\* Rendering a tab that has a source.
<1>v. ASSUME NEW t \in TabIds \cup {NoTab}, NEW cont \in [TabIds -> Configs],
             view' = Rendered(t, cont), t # NoTab => item[t] \in Sources, UNCHANGED item,
             Range(tabs') \subseteq Range(tabs)
      PROVE  (TabsHaveSources /\ ButtonsHaveTab)'
  <2>1. /\ view' \in Views /\ view'.mode # "edit"
        /\ view'.mode = "detail" => view'.tab = t /\ t \in TabIds
        /\ view'.tab # NoTab => view'.mode = "detail"
        /\ view'.admin => view'.mode = "detail"
    BY <1>v, RenderedView
  <2> QED
    BY <1>t, <1>r, <1>v, <2>1 DEF TabsHaveSources, ButtonsHaveTab, HasButtons
<1>1. CASE UNCHANGED tabVars
  BY <1>1, <1>t DEF tabVars, TabsAreSound, TabsHaveSources, ButtonsHaveTab, HasButtons
<1>2. ASSUME NEW i \in CallIds, NEW s \in Sources, NEW t \in TabIds, Open(i, s, t)
      PROVE  (TabsAreSound /\ TabsHaveSources /\ ButtonsHaveTab)'
  <2>1. CASE TabOf(s) # {}
    BY <1>2, <1>t, <2>1, EmptySeq
       DEF Open, TabOf, Range, TabsAreSound, TabsHaveSources, ButtonsHaveTab, HasButtons
  <2>2. CASE TabOf(s) = {}
    <3> DEFINE L == Len(tabs)
    <3>1. /\ t \notin Range(tabs) /\ tabs' = Append(tabs, t) /\ active' = t
          /\ item' = [item EXCEPT ![t] = s] /\ view' = view
      BY <1>2, <2>2 DEF Open, Unused
    <3>2. L \in Nat /\ DOMAIN tabs = 1..L /\ \A k \in 1..L : tabs[k] \in Range(tabs)
      BY <1>t, LenProperties DEF ConsoleType, Range
    <3>3. /\ DOMAIN tabs' = 1..(L + 1) /\ tabs'[L + 1] = t
          /\ \A k \in 1..L : tabs'[k] = tabs[k]
      <4>1. /\ tabs' \in Seq(TabIds) /\ Len(tabs') = L + 1 /\ tabs'[L + 1] = t
            /\ \A k \in 1..L : tabs'[k] = tabs[k]
        BY <1>t, <3>1, AppendProperties DEF ConsoleType
      <4> QED
        BY <4>1, LenProperties
    <3> HIDE DEF L
    <3>4. item'[t] = s /\ \A u \in TabIds : u # t => item'[u] = item[u]
      BY <1>t, <3>1 DEF ConsoleType
    <3>5. \A k \in 1..L : item'[tabs'[k]] = item[tabs[k]] /\ item[tabs[k]] # s
      BY <1>r, <2>2, <3>1, <3>2, <3>3, <3>4 DEF TabOf
    <3>6. ASSUME NEW m \in 1..(L + 1), NEW n \in 1..(L + 1), item'[tabs'[m]] = item'[tabs'[n]]
          PROVE  m = n
      <4>1. m \in 1..L \/ m = L + 1
        BY <3>2
      <4>2. n \in 1..L \/ n = L + 1
        BY <3>2
      <4> QED
        BY <1>t, <3>2, <3>3, <3>4, <3>5, <3>6, <4>1, <4>2 DEF TabsAreSound
    <3>7. t \in Range(tabs') /\ tabs' # <<>> /\ Range(tabs') \subseteq Range(tabs) \cup {t}
      <4>1. L + 1 \in DOMAIN tabs' /\ \A k \in 1..(L + 1) : k \in 1..L \/ k = L + 1
        BY <3>2, <3>3
      <4> QED
        BY <3>2, <3>3, <4>1 DEF Range
    <3>8. TabsAreSound'
      BY <3>1, <3>3, <3>6, <3>7 DEF TabsAreSound
    <3> QED
      BY <1>t, <3>1, <3>4, <3>7, <3>8 DEF TabsHaveSources, ButtonsHaveTab, HasButtons
  <2> QED
    BY <2>1, <2>2
<1>3. ASSUME NEW i \in CallIds, Loaded(i) \/ Saved(i)
      PROVE  (TabsAreSound /\ TabsHaveSources /\ ButtonsHaveTab)'
  <2> DEFINE t == calls[i].tab
  <2>1. t \in TabIds /\ item[t] \in Sources /\ calls[i].body \in Configs
    BY <1>3, <1>t DEF Loaded, Saved, Answered, CallsKeepTheirTab, KeepsTab
  <2>2. /\ content' = [content EXCEPT ![t] = calls[i].body] /\ view' = Rendered(t, content')
        /\ UNCHANGED <<tabs, item, active>>
    BY <1>3 DEF Loaded, Saved
  <2>3. content' \in [TabIds -> Configs]
    BY <1>t, <2>1, <2>2 DEF ConsoleType
  <2> QED
    BY <1>t, <1>v, <2>1, <2>2, <2>3 DEF TabsAreSound
<1>4. ASSUME NEW i \in CallIds, LoadFailed(i)
      PROVE  (TabsAreSound /\ TabsHaveSources /\ ButtonsHaveTab)'
  <2>1. calls[i].tab \in TabIds /\ item[calls[i].tab] \in Sources
    BY <1>4, <1>t DEF LoadFailed, CallsKeepTheirTab, KeepsTab
  <2> QED
    BY <1>4, <1>t, <1>v, <2>1 DEF LoadFailed, TabsAreSound, ConsoleType
<1>5. ASSUME NEW t, CloseTab(t), UNCHANGED <<item, content>>
      PROVE  (TabsAreSound /\ TabsHaveSources /\ ButtonsHaveTab)'
  <2>1. /\ active' \in TabIds \cup {NoTab} /\ Range(tabs') \subseteq Range(tabs)
        /\ OneTabEach(tabs')
        /\ IF tabs' = <<>> THEN active' = NoTab ELSE active' \in Range(tabs')
        /\ UNCHANGED <<tabs, active, view>> \/ view' = Rendered(active', content)
    BY <1>5, <1>t, CloseEffect
  <2>2. TabsAreSound'
    BY <1>5, <2>1 DEF TabsAreSound, OneTabEach
  <2>3. CASE UNCHANGED <<tabs, active, view>>
    BY <1>5, <1>t, <2>2, <2>3 DEF TabsHaveSources, ButtonsHaveTab, HasButtons
  <2>4. CASE view' = Rendered(active', content)
    <3>1. active' # NoTab => item[active'] \in Sources
      BY <1>t, <2>1 DEF TabsHaveSources
    <3> QED
      BY <1>5, <1>t, <1>v, <2>1, <2>2, <2>4, <3>1 DEF ConsoleType
  <2> QED
    BY <2>1, <2>3, <2>4
<1>6. ASSUME NEW t \in TabIds, Close(t)
      PROVE  (TabsAreSound /\ TabsHaveSources /\ ButtonsHaveTab)'
  BY <1>5, <1>6 DEF Close
<1>7. ASSUME NEW i \in CallIds, Deleted(i)
      PROVE  (TabsAreSound /\ TabsHaveSources /\ ButtonsHaveTab)'
  BY <1>5, <1>7 DEF Deleted
<1>8. ASSUME NEW t \in TabIds, Switch(t)
      PROVE  (TabsAreSound /\ TabsHaveSources /\ ButtonsHaveTab)'
  <2>1. (TabsHaveSources /\ ButtonsHaveTab)'
    BY <1>8, <1>t, <1>v DEF Switch, TabsHaveSources, ConsoleType
  <2>2. tabs # <<>>
    BY <1>8, EmptySeq DEF Switch, Range
  <2> QED
    BY <1>8, <1>t, <2>1, <2>2 DEF Switch, TabsAreSound
<1>9. CASE EditJson \/ Type
  <2>1. /\ view.tab \in TabIds /\ view'.tab = view.tab /\ view'.mode = "edit"
        /\ UNCHANGED <<tabs, item, active>>
    BY <1>9, <1>t DEF EditJson, Type, ButtonsHaveTab, HasButtons, ConsoleType, Views
  <2> QED
    BY <1>t, <2>1 DEF TabsAreSound, TabsHaveSources, ButtonsHaveTab, HasButtons
<1> QED
  BY <1>1, <1>2, <1>3, <1>4, <1>6, <1>7, <1>8, <1>9, TabSteps

\* A step changes at most one call: a handled one keeps its tab and its source, a new one
\* is that of the action, an answered one leaves its place to none or to a list.
LEMMA CallsStep == ConsoleInv /\ [Next]_vars => CallsKeepTheirTab'
<1> SUFFICES ASSUME ConsoleInv, [Next]_vars PROVE CallsKeepTheirTab'
  OBVIOUS
<1>t. ConsoleType /\ TabsHaveSources /\ ButtonsHaveTab /\ CallsKeepTheirTab /\ TabsAreSound
  BY DEF ConsoleInv
<1> DEFINE Sound(c) == KeepsTab(c, item)
<1>s. \A i \in CallIds : Sound(calls[i]) /\ calls[i] \in CallRecords
  BY <1>t DEF CallsKeepTheirTab, ConsoleType
\* One call is replaced by a sound one.
<1>r. ASSUME NEW i \in CallIds, NEW c, Sound(c), calls' = [calls EXCEPT ![i] = c], UNCHANGED item
      PROVE  CallsKeepTheirTab'
  <2>1. \A j \in CallIds : Sound(calls'[j])
    BY <1>t, <1>s, <1>r DEF ConsoleType
  <2> QED
    BY <1>r, <2>1 DEF CallsKeepTheirTab
<1>n. Sound(NoCall) /\ Sound(Sent("list", NoTab, Gone, Gone))
  BY DEF NoCall, Sent, KeepsTab
<1>1. ASSUME NEW i \in CallIds, Handle(i) PROVE CallsKeepTheirTab'
  <2> DEFINE c == calls[i]
             h == Handled(c)
  <2>1. c.kind \in {"load", "save", "delete"} => c.source \in Sources
    BY <1>s DEF KeepsTab
  <2>2. /\ h.kind = c.kind /\ h.tab = c.tab /\ h.source = c.source
        /\ h.body = c.body \/ (c.kind = "load" /\ h.body = server[c.source]) \/ c.kind = "list"
        /\ h.at \in {"ok", "failed"}
    BY <1>t, <1>s, <2>1, HandledCall DEF ConsoleType
  <2>3. c.kind = "load" => server[c.source] \in Configs
    BY <1>t, <2>1 DEF ConsoleType
  <2>4. calls' = [calls EXCEPT ![i] = h] /\ UNCHANGED item
    BY <1>1 DEF Handle, tabVars
  <2>5. Sound(c)
    BY <1>s
  <2> HIDE DEF c, h
  <2>6. Sound(h)
    BY <2>2, <2>3, <2>5 DEF KeepsTab
  <2> QED
    BY <1>r, <2>4, <2>6
<1>2. ASSUME NEW i \in CallIds, Lose(i) PROVE CallsKeepTheirTab'
  <2> DEFINE c == [calls[i] EXCEPT !.at = "failed"]
  <2>1. Sound(c)
    BY <1>s DEF KeepsTab, CallRecords
  <2>2. calls' = [calls EXCEPT ![i] = c] /\ UNCHANGED item
    BY <1>2 DEF Lose, tabVars
  <2> QED
    BY <1>r, <2>1, <2>2
<1>3. ASSUME NEW i \in CallIds, NEW s \in Sources, NEW t \in TabIds, Open(i, s, t)
      PROVE  CallsKeepTheirTab'
  <2> DEFINE c == Sent("load", t, s, Gone)
  <2>1. calls' = [calls EXCEPT ![i] = c]
    BY <1>3 DEF Open, Call
  <2>2. CASE TabOf(s) # {}
    <3>1. UNCHANGED item /\ item[t] = s
      BY <1>3, <2>2 DEF Open, TabOf
    <3>2. Sound(c)
      BY <3>1 DEF Sent, KeepsTab, Configs
    <3> QED
      BY <1>r, <2>1, <3>1, <3>2
  <2>3. CASE TabOf(s) = {}
    <3>1. item' = [item EXCEPT ![t] = s] /\ \A j \in CallIds : calls[j].tab # t
      BY <1>3, <2>3 DEF Open, Unused
    <3>2. item'[t] = s /\ \A u \in TabIds : u # t => item'[u] = item[u]
      BY <1>t, <3>1 DEF ConsoleType
    <3>3. \A j \in CallIds : KeepsTab(calls[j], item')
      BY <1>s, <3>1, <3>2 DEF KeepsTab
    <3>4. KeepsTab(c, item')
      BY <3>2 DEF Sent, KeepsTab, Configs
    <3>5. \A j \in CallIds : calls'[j] = IF j = i THEN c ELSE calls[j]
      BY <1>t, <2>1 DEF ConsoleType
    <3> HIDE DEF c
    <3> QED
      BY <3>3, <3>4, <3>5 DEF CallsKeepTheirTab
  <2> QED
    BY <2>2, <2>3
<1>4. ASSUME NEW i \in CallIds, Loaded(i) \/ Saved(i) \/ LoadFailed(i) \/ Listed(i) \/ Failed(i)
      PROVE  CallsKeepTheirTab'
  <2>1. calls' = [calls EXCEPT ![i] = NoCall] /\ UNCHANGED item
    BY <1>4 DEF Loaded, Saved, LoadFailed, Listed, Failed, Ended, tabVars
  <2> QED
    BY <1>n, <1>r, <2>1
<1>5. ASSUME NEW i \in CallIds, Deleted(i) \/ Refresh(i)
      PROVE  CallsKeepTheirTab'
  <2>1. calls' = [calls EXCEPT ![i] = Sent("list", NoTab, Gone, Gone)] /\ UNCHANGED item
    BY <1>5 DEF Deleted, Refresh, Reload, tabVars
  <2> QED
    BY <1>n, <1>r, <2>1
<1>6. ASSUME NEW i \in CallIds, LoginEnds(i) PROVE CallsKeepTheirTab'
  <2>1. UNCHANGED item /\ \/ calls' = [calls EXCEPT ![i] = NoCall]
                          \/ calls' = [calls EXCEPT ![i] = Sent("list", NoTab, Gone, Gone)]
    BY <1>6 DEF LoginEnds, Reload, Ended, tabVars
  <2> QED
    BY <1>n, <1>r, <2>1
<1>7. ASSUME NEW i \in CallIds, NEW t \in TabIds, SaveSource(i, t), item[t] \in Sources
      PROVE  CallsKeepTheirTab'
  <2> DEFINE config == IF view.mode = "edit" THEN view.text ELSE content[t]
  <2>1. config \in Configs
    BY <1>7, <1>t DEF SaveSource, ConsoleType, Views
  <2>2. Sound(Sent("save", t, item[t], config))
    BY <1>7, <2>1 DEF Sent, KeepsTab
  <2>3. calls' = [calls EXCEPT ![i] = Sent("save", t, item[t], config)] /\ UNCHANGED item
    BY <1>7 DEF SaveSource, Call, tabVars
  <2> QED
    BY <1>r, <2>2, <2>3
<1>8. ASSUME NEW i \in CallIds, SaveButton(i) PROVE CallsKeepTheirTab'
  <2>1. view.tab \in TabIds /\ item[view.tab] \in Sources
    BY <1>8, <1>t DEF SaveButton, ButtonsHaveTab, TabsHaveSources
  <2> QED
    BY <1>7, <1>8, <2>1 DEF SaveButton, ButtonTab
<1>9. ASSUME NEW i \in CallIds, CtrlS(i) PROVE CallsKeepTheirTab'
  <2>1. active \in Range(tabs) /\ active \in TabIds
    BY <1>9, <1>t DEF CtrlS, TabsAreSound, ConsoleType
  <2>2. item[active] \in Sources
    BY <1>t, <2>1 DEF TabsHaveSources
  <2> QED
    BY <1>7, <1>9, <2>1, <2>2 DEF CtrlS
<1>10. ASSUME NEW i \in CallIds, NEW s \in Sources, Delete(i, s)
       PROVE  CallsKeepTheirTab'
  <2> DEFINE c == [Sent("delete", NoTab, s, Gone) EXCEPT !.at = IF token = "admin" THEN @ ELSE "failed"]
  <2>1. Sound(c)
    BY DEF Sent, KeepsTab
  <2>2. calls' = [calls EXCEPT ![i] = c] /\ UNCHANGED item
    BY <1>10 DEF Delete, Call, tabVars
  <2> QED
    BY <1>r, <2>1, <2>2
<1>11. ASSUME NEW i \in CallIds, Login(i) PROVE CallsKeepTheirTab'
  <2> DEFINE c == Sent("login", NoTab, Gone, Stringified("form"))
  <2>1. Sound(c)
    BY DEF Sent, KeepsTab, Stringified
  <2>2. calls' = [calls EXCEPT ![i] = c] /\ UNCHANGED item
    BY <1>11 DEF Login, Call, tabVars
  <2> QED
    BY <1>r, <2>1, <2>2
<1>12. ASSUME UNCHANGED <<item, calls>> PROVE CallsKeepTheirTab'
  BY <1>12, <1>t DEF CallsKeepTheirTab
<1>13. ASSUME EditJson \/ Type \/ Logout \/ UNCHANGED vars \/ \E t \in TabIds : Close(t) \/ Switch(t)
       PROVE  UNCHANGED <<item, calls>>
  BY <1>13 DEF EditJson, Type, Logout, Close, Switch, vars, tabVars
<1> QED
  BY <1>1, <1>2, <1>3, <1>4, <1>5, <1>6, <1>8, <1>9, <1>10, <1>11, <1>12, <1>13
     DEF Next, Answer, User

\* Configs stay with their source: the server's reach the tab a load was made for, those of
\* a tab its own view and editor, and the buttons send them back to that tab's source.
LEMMA OwnStep == ConsoleInv /\ [Next]_vars => ConfigsAreOwn'
<1> SUFFICES ASSUME ConsoleInv, [Next]_vars, haste' # "strayed"
             PROVE  (/\ \A s \in Sources : server[s] \in Own(s)
                     /\ \A t \in TabIds : content[t] \in Own(item[t])
                     /\ view.mode = "edit" => view.text \in Own(item[view.tab]) \cup {Broken}
                     /\ \A i \in CallIds : calls[i].kind \in {"load", "save"}
                                               => calls[i].body \in Own(calls[i].source))'
  BY DEF ConfigsAreOwn
<1> DEFINE OwnServer == \A s \in Sources : server[s] \in Own(s)
           OwnTabs == \A t \in TabIds : content[t] \in Own(item[t])
           OwnText == view.mode = "edit" => view.text \in Own(item[view.tab]) \cup {Broken}
           OwnCall(c) == c.kind \in {"load", "save"} => c.body \in Own(c.source)
           OwnCalls == \A i \in CallIds : OwnCall(calls[i])
<1>t. ConsoleType /\ TabsAreSound /\ TabsHaveSources /\ ButtonsHaveTab /\ CallsKeepTheirTab
  BY DEF ConsoleInv
<1>h. haste # "strayed"
  BY <1>t DEF Next, Answer, User, Handle, Lose, Listed, LoginEnds, Failed, Refresh, Delete, SaveButton,
       CtrlS, SaveSource, Login, Logout, Open, Loaded, LoadFailed, Saved, Deleted, Close, Switch,
       EditJson, Type, UserActs, vars
<1>o. OwnServer /\ OwnTabs /\ OwnText /\ OwnCalls
  BY <1>h DEF ConsoleInv, ConfigsAreOwn
<1>c. \A i \in CallIds : calls[i] \in CallRecords
  BY <1>t DEF ConsoleType
<1> SUFFICES (OwnServer /\ OwnTabs /\ OwnText /\ OwnCalls)'
  OBVIOUS
\* One call is replaced by one that carries its own config.
<1>r. ASSUME NEW i \in CallIds, NEW c, OwnCall(c), calls' = [calls EXCEPT ![i] = c]
      PROVE  OwnCalls'
  <2>1. \A j \in CallIds : OwnCall(calls'[j])
    BY <1>t, <1>o, <1>r DEF ConsoleType
  <2> QED
    BY <2>1
<1>n. OwnCall(NoCall) /\ OwnCall(Sent("list", NoTab, Gone, Gone))
  BY DEF NoCall, Sent, Own
<1>e. ASSUME NEW t \in TabIds \cup {NoTab}, NEW cont \in [TabIds -> Configs], view' = Rendered(t, cont)
      PROVE  OwnText'
  <2>1. view'.mode # "edit"
    BY <1>e, RenderedView
  <2> QED
    BY <2>1
<1>1. ASSUME NEW i \in CallIds, Handle(i) PROVE (OwnServer /\ OwnTabs /\ OwnText /\ OwnCalls)'
  <2> DEFINE c == calls[i]
             h == Handled(c)
  <2>0. KeepsTab(c, item) /\ OwnCall(c) /\ c \in CallRecords
    BY <1>t, <1>o, <1>c DEF CallsKeepTheirTab
  <2>1. c.kind \in {"load", "save", "delete"} => c.source \in Sources
    BY <2>0 DEF KeepsTab
  <2>2. /\ h.kind = c.kind /\ h.source = c.source
        /\ h.body = c.body \/ (c.kind = "load" /\ h.body = server[c.source]) \/ c.kind = "list"
    BY <1>t, <2>0, <2>1, HandledCall DEF ConsoleType
  <2>3. /\ calls' = [calls EXCEPT ![i] = h] /\ UNCHANGED tabVars
        /\ server' = IF c.kind \in {"save", "delete"} /\ server[c.source] # Gone
                     THEN [server EXCEPT ![c.source] = c.body] ELSE server
    BY <1>1 DEF Handle
  <2>4. c.kind = "delete" => c.body = Gone
    BY <2>0 DEF KeepsTab
  <2>5. server \in [Sources -> Configs]
    BY <1>t DEF ConsoleType
  <2> HIDE DEF c, h
  <2>6. OwnCall(h)
    BY <1>o, <2>0, <2>1, <2>2
  <2>7. OwnCalls'
    BY <1>r, <2>3, <2>6
  <2>8. c.kind \in {"save", "delete"} => c.body \in Own(c.source)
    BY <2>0, <2>4 DEF Own
  <2>9. OwnServer'
    BY <1>o, <2>1, <2>3, <2>5, <2>8
  <2> QED
    BY <1>o, <2>3, <2>7, <2>9 DEF tabVars
<1>2. ASSUME NEW i \in CallIds, Lose(i) PROVE (OwnServer /\ OwnTabs /\ OwnText /\ OwnCalls)'
  <2> DEFINE c == [calls[i] EXCEPT !.at = "failed"]
  <2>1. OwnCall(c)
    BY <1>o, <1>c DEF CallRecords
  <2>2. calls' = [calls EXCEPT ![i] = c] /\ UNCHANGED <<tabVars, server>>
    BY <1>2 DEF Lose
  <2>3. OwnCalls'
    BY <1>r, <2>1, <2>2
  <2> QED
    BY <1>o, <2>2, <2>3 DEF tabVars
<1>3. ASSUME NEW i \in CallIds, NEW s \in Sources, NEW t \in TabIds, Open(i, s, t)
      PROVE  (OwnServer /\ OwnTabs /\ OwnText /\ OwnCalls)'
  <2>1. calls' = [calls EXCEPT ![i] = Sent("load", t, s, Gone)] /\ UNCHANGED <<view, server>>
    BY <1>3 DEF Open, Call
  <2>2. OwnCall(Sent("load", t, s, Gone))
    BY DEF Sent, Own
  <2>3. OwnCalls'
    BY <1>r, <2>1, <2>2
  <2>4. (OwnTabs /\ OwnText)'
    <3>1. CASE TabOf(s) # {}
      <4>1. UNCHANGED <<item, content>>
        BY <1>3, <3>1 DEF Open
      <4> QED
        BY <1>o, <2>1, <4>1
    <3>2. CASE TabOf(s) = {}
      <4>1. /\ item' = [item EXCEPT ![t] = s] /\ content' = [content EXCEPT ![t] = Gone]
            /\ view.tab # t
        BY <1>3, <3>2 DEF Open, Unused
      <4>2. /\ item'[t] = s /\ content'[t] = Gone
            /\ \A u \in TabIds : u # t => item'[u] = item[u] /\ content'[u] = content[u]
        BY <1>t, <4>1 DEF ConsoleType
      <4>3. OwnTabs'
        BY <1>o, <4>2 DEF Own
      <4>4. view.mode = "edit" => view.tab \in TabIds
        BY <1>t DEF ButtonsHaveTab, HasButtons
      <4> QED
        BY <1>o, <2>1, <4>1, <4>2, <4>3, <4>4
    <3> QED
      BY <3>1, <3>2
  <2> QED
    BY <1>o, <2>1, <2>3, <2>4
<1>4. ASSUME NEW i \in CallIds, Loaded(i) \/ Saved(i)
      PROVE  (OwnServer /\ OwnTabs /\ OwnText /\ OwnCalls)'
  <2> DEFINE t == calls[i].tab
             b == calls[i].body
  <2>1. t \in TabIds /\ item[t] = calls[i].source /\ b \in Configs
        /\ calls[i].kind \in {"load", "save"}
    BY <1>4, <1>t DEF Loaded, Saved, Answered, CallsKeepTheirTab, KeepsTab
  <2>2. /\ content' = [content EXCEPT ![t] = b] /\ view' = Rendered(t, content')
        /\ calls' = [calls EXCEPT ![i] = NoCall] /\ UNCHANGED <<item, server>>
    BY <1>4 DEF Loaded, Saved, Ended
  <2>3. b \in Own(item[t])
    BY <1>o, <2>1
  <2>4. OwnCalls'
    BY <1>n, <1>r, <2>2
  <2>5. content \in [TabIds -> Configs]
    BY <1>t DEF ConsoleType
  <2> HIDE DEF t, b
  <2>6. content' \in [TabIds -> Configs] /\ \A u \in TabIds : content'[u] = IF u = t THEN b ELSE content[u]
    BY <2>1, <2>2, <2>5
  <2>7. OwnText'
    BY <1>e, <2>1, <2>2, <2>6
  <2>8. OwnTabs'
    BY <1>o, <2>2, <2>3, <2>6
  <2> QED
    BY <1>o, <2>2, <2>4, <2>7, <2>8
<1>5. ASSUME NEW i \in CallIds, LoadFailed(i) PROVE (OwnServer /\ OwnTabs /\ OwnText /\ OwnCalls)'
  <2>1. /\ view' = Rendered(calls[i].tab, content) /\ calls' = [calls EXCEPT ![i] = NoCall]
        /\ UNCHANGED <<item, content, server>>
    BY <1>5 DEF LoadFailed, Ended
  <2>2. calls[i].tab \in TabIds \cup {NoTab} /\ content \in [TabIds -> Configs]
    BY <1>t, <1>c DEF ConsoleType, CallRecords
  <2>3. OwnText' /\ OwnCalls'
    BY <1>e, <1>n, <1>r, <2>1, <2>2
  <2> QED
    BY <1>o, <2>1, <2>3
<1>6. ASSUME NEW t, CloseTab(t), UNCHANGED item PROVE OwnText'
  <2>1. /\ active' \in TabIds \cup {NoTab}
        /\ view' = view \/ view' = Rendered(active', content)
    BY <1>6, <1>t, CloseEffect
  <2>2. CASE view' = view
    BY <1>o, <1>6, <2>2
  <2>3. CASE view' = Rendered(active', content)
    BY <1>e, <1>t, <2>1, <2>3 DEF ConsoleType
  <2> QED
    BY <2>1, <2>2, <2>3
<1>7. ASSUME NEW t \in TabIds, Close(t) PROVE (OwnServer /\ OwnTabs /\ OwnText /\ OwnCalls)'
  BY <1>6, <1>7, <1>o DEF Close
<1>8. ASSUME NEW i \in CallIds, Deleted(i) PROVE (OwnServer /\ OwnTabs /\ OwnText /\ OwnCalls)'
  <2>1. CloseTab(active) /\ UNCHANGED <<item, content, server>>
        /\ calls' = [calls EXCEPT ![i] = Sent("list", NoTab, Gone, Gone)]
    BY <1>8 DEF Deleted, Reload
  <2>2. OwnCalls' /\ OwnText'
    BY <1>6, <1>n, <1>r, <2>1
  <2> QED
    BY <1>o, <2>1, <2>2
<1>9. ASSUME NEW t \in TabIds, Switch(t) PROVE (OwnServer /\ OwnTabs /\ OwnText /\ OwnCalls)'
  <2>1. view' = Rendered(t, content) /\ UNCHANGED <<item, content, calls, server>>
    BY <1>9 DEF Switch
  <2>2. OwnText'
    BY <1>e, <1>t, <2>1 DEF ConsoleType
  <2> QED
    BY <1>o, <2>1, <2>2
<1>10. CASE EditJson \/ Type
  <2>1. view.tab \in TabIds /\ UNCHANGED <<item, content, calls, server>>
    BY <1>10, <1>t DEF EditJson, Type, ButtonsHaveTab, HasButtons
  <2>2. view'.tab = view.tab /\ view'.text \in {content[view.tab], Broken}
    BY <1>10, <1>t DEF EditJson, Type, ConsoleType, Views
  <2> QED
    BY <1>o, <2>1, <2>2
<1>11. ASSUME NEW i \in CallIds, NEW t \in TabIds, SaveSource(i, t), view.mode = "edit" => view.tab = t
       PROVE  (OwnServer /\ OwnTabs /\ OwnText /\ OwnCalls)'
  <2> DEFINE config == IF view.mode = "edit" THEN view.text ELSE content[t]
  <2>1. /\ config # Broken /\ calls' = [calls EXCEPT ![i] = Sent("save", t, item[t], config)]
        /\ UNCHANGED <<tabVars, server>>
    BY <1>11 DEF SaveSource, Call
  <2>2. config \in Own(item[t])
    BY <1>o, <1>11, <2>1
  <2>3. OwnCall(Sent("save", t, item[t], config))
    BY <2>2 DEF Sent
  <2>4. OwnCalls'
    BY <1>r, <2>1, <2>3
  <2> QED
    BY <1>o, <2>1, <2>4 DEF tabVars
<1>12. ASSUME NEW i \in CallIds, SaveButton(i) PROVE (OwnServer /\ OwnTabs /\ OwnText /\ OwnCalls)'
  <2>1. view.tab \in TabIds
    BY <1>12, <1>t DEF SaveButton, ButtonsHaveTab
  <2> QED
    BY <1>11, <1>12, <2>1 DEF SaveButton, ButtonTab
<1>13. ASSUME NEW i \in CallIds, CtrlS(i) PROVE (OwnServer /\ OwnTabs /\ OwnText /\ OwnCalls)'
  <2>1. active \in TabIds /\ (view.mode = "edit" => view.tab = active)
    BY <1>13, <1>t DEF CtrlS, ConsoleType
  <2> QED
    BY <1>11, <1>13, <2>1 DEF CtrlS
<1>14. ASSUME NEW i \in CallIds, NEW c, c.kind \notin {"load", "save"},
              calls' = [calls EXCEPT ![i] = c], UNCHANGED <<tabVars, server>>
       PROVE  (OwnServer /\ OwnTabs /\ OwnText /\ OwnCalls)'
  <2>1. OwnCalls'
    BY <1>r, <1>14
  <2> QED
    BY <1>o, <1>14, <2>1 DEF tabVars
<1>15. ASSUME NEW i \in CallIds, NEW s \in Sources, Delete(i, s)
       PROVE  (OwnServer /\ OwnTabs /\ OwnText /\ OwnCalls)'
  <2> DEFINE c == [Sent("delete", NoTab, s, Gone) EXCEPT !.at = IF token = "admin" THEN @ ELSE "failed"]
  <2>1. c.kind = "delete"
    BY DEF Sent
  <2>2. calls' = [calls EXCEPT ![i] = c] /\ UNCHANGED <<tabVars, server>>
    BY <1>15 DEF Delete, Call
  <2> HIDE DEF c
  <2> QED
    BY <1>14, <2>1, <2>2
<1>16. ASSUME NEW i \in CallIds, Listed(i) \/ Failed(i) \/ Refresh(i) \/ Login(i) \/ LoginEnds(i)
       PROVE  (OwnServer /\ OwnTabs /\ OwnText /\ OwnCalls)'
  <2> DEFINE list == Sent("list", NoTab, Gone, Gone)
             login == Sent("login", NoTab, Gone, Stringified("form"))
  <2>1. NoCall.kind = "none" /\ list.kind = "list" /\ login.kind = "login"
    BY DEF NoCall, Sent
  <2>2. PICK c \in {NoCall, list, login} : calls' = [calls EXCEPT ![i] = c]
    BY <1>16 DEF Listed, Failed, Refresh, Login, LoginEnds, Call, Reload, Ended
  <2>3. UNCHANGED <<tabVars, server>>
    BY <1>16 DEF Listed, Failed, Refresh, Login, LoginEnds
  <2> HIDE DEF list, login
  <2> QED
    BY <1>14, <2>1, <2>2, <2>3
<1>17. CASE Logout \/ UNCHANGED vars
  BY <1>o, <1>17 DEF Logout, vars, tabVars
<1> QED
  BY <1>1, <1>2, <1>3, <1>4, <1>5, <1>7, <1>8, <1>9, <1>10, <1>12, <1>13, <1>15, <1>16, <1>17
     DEF Next, Answer, User

\* A user who waits never sees a tab other than the active one for good: a call of that user
\* is alone, it is for the active tab, and its answer renders that tab.
LEMMA FollowStep == ConsoleInv /\ [Next]_vars => ViewFollows'
<1> SUFFICES ASSUME ConsoleInv, [Next]_vars, haste' = "none"
             PROVE  (/\ \A i, j \in CallIds : IsUsers(calls[i]) /\ IsUsers(calls[j]) => i = j
                     /\ \A i \in CallIds : calls[i].kind \in {"load", "save"} => calls[i].tab = active
                     /\ HasButtons /\ (\A i \in CallIds : calls[i].kind # "load") => view.tab = active)'
  BY DEF ViewFollows
<1> DEFINE OneCall == \A i, j \in CallIds : IsUsers(calls[i]) /\ IsUsers(calls[j]) => i = j
           ForActive == \A i \in CallIds : calls[i].kind \in {"load", "save"} => calls[i].tab = active
           NoLoad == \A i \in CallIds : calls[i].kind # "load"
           Follows == HasButtons /\ NoLoad => view.tab = active
<1>t. ConsoleType /\ TabsAreSound /\ ButtonsHaveTab /\ CallsKeepTheirTab
  BY DEF ConsoleInv
<1>h. haste = "none"
  BY DEF Next, Answer, User, Handle, Lose, Listed, LoginEnds, Failed, Refresh, Delete, SaveButton,
       CtrlS, SaveSource, Login, Logout, Open, Loaded, LoadFailed, Saved, Deleted, Close, Switch,
       EditJson, Type, UserActs, vars
<1>o. OneCall /\ ForActive /\ Follows
  BY <1>h DEF ConsoleInv, ViewFollows
<1>c. \A i \in CallIds : calls[i] \in CallRecords
  BY <1>t DEF ConsoleType
\* What the user does is done with no call in flight.
<1>u. ASSUME UserActs PROVE \A i \in CallIds : calls[i].kind = "none"
  BY <1>u, <1>h DEF UserActs, Quiet, NoCall
<1> SUFFICES (OneCall /\ ForActive /\ Follows)'
  OBVIOUS
<1>i. \A i \in CallIds : \A c :
          calls' = [calls EXCEPT ![i] = c] => \A j \in CallIds : calls'[j] = IF j = i THEN c ELSE calls[j]
  BY <1>t DEF ConsoleType
\* A call goes on, or gives its place to none or to a list; it was no load, the view stays.
<1>k. ASSUME NEW i \in CallIds, NEW c, calls' = [calls EXCEPT ![i] = c],
             c.kind = calls[i].kind \/ (c.kind \in {"none", "list"} /\ calls[i].kind # "load"),
             c.kind = calls[i].kind => c.tab = calls[i].tab,
             UNCHANGED <<active, view>>
      PROVE  (OneCall /\ ForActive /\ Follows)'
  <2>1. \A j \in CallIds : calls'[j] = IF j = i THEN c ELSE calls[j]
    BY <1>i, <1>k
  <2> QED
    BY <1>o, <1>k, <2>1 DEF IsUsers, HasButtons
\* The answer of a load or a save renders its tab, which is the active one.
<1>a. ASSUME NEW i \in CallIds, calls' = [calls EXCEPT ![i] = NoCall],
             calls[i].kind \in {"load", "save"}, NEW cont \in [TabIds -> Configs],
             view' = Rendered(calls[i].tab, cont), UNCHANGED active
      PROVE  (OneCall /\ ForActive /\ Follows)'
  <2>1. \A j \in CallIds : calls'[j] = IF j = i THEN NoCall ELSE calls[j]
    BY <1>i, <1>a
  <2>2. calls[i].tab = active /\ active \in TabIds \cup {NoTab}
    BY <1>a, <1>o, <1>t DEF ConsoleType
  <2>3. view'.mode # "edit" /\ (view'.mode = "detail" => view'.tab = active)
    BY <1>a, <2>2, RenderedView
  <2> QED
    BY <1>o, <1>a, <2>1, <2>3 DEF IsUsers, HasButtons, NoCall
\* With no other call in flight the user makes one, for the active tab or for none.
<1>m. ASSUME UserActs, NEW i \in CallIds, NEW c, calls' = [calls EXCEPT ![i] = c],
             c.kind \in {"load", "save"} => c.tab = active',
             c.kind = "load" \/ UNCHANGED <<active, view>>
      PROVE  (OneCall /\ ForActive /\ Follows)'
  <2>1. \A j \in CallIds : calls'[j] = IF j = i THEN c ELSE calls[j]
    BY <1>i, <1>m
  <2>2. \A j \in CallIds : calls[j].kind = "none"
    BY <1>m, <1>u
  <2> QED
    BY <1>o, <1>m, <2>1, <2>2 DEF IsUsers, HasButtons
<1>1. ASSUME NEW i \in CallIds, Handle(i) PROVE (OneCall /\ ForActive /\ Follows)'
  <2>1. /\ calls' = [calls EXCEPT ![i] = Handled(calls[i])] /\ UNCHANGED <<active, view>>
    BY <1>1 DEF Handle, tabVars
  <2>2. calls[i].kind \in {"load", "save", "delete"} => calls[i].source \in Sources
    BY <1>t DEF CallsKeepTheirTab, KeepsTab
  <2>3. Handled(calls[i]).kind = calls[i].kind /\ Handled(calls[i]).tab = calls[i].tab
    BY <1>t, <1>c, <2>2, HandledCall DEF ConsoleType
  <2> QED
    BY <1>k, <2>1, <2>3
<1>2. ASSUME NEW i \in CallIds, Lose(i) PROVE (OneCall /\ ForActive /\ Follows)'
  <2> DEFINE c == [calls[i] EXCEPT !.at = "failed"]
  <2>1. calls' = [calls EXCEPT ![i] = c] /\ UNCHANGED <<active, view>>
    BY <1>2 DEF Lose, tabVars
  <2>2. c.kind = calls[i].kind /\ c.tab = calls[i].tab
    BY <1>c DEF CallRecords
  <2> HIDE DEF c
  <2> QED
    BY <1>k, <2>1, <2>2
<1>3. ASSUME NEW i \in CallIds, NEW s \in Sources, NEW t \in TabIds, Open(i, s, t)
      PROVE  (OneCall /\ ForActive /\ Follows)'
  <2> DEFINE c == Sent("load", t, s, Gone)
  <2>1. UserActs /\ active' = t /\ calls' = [calls EXCEPT ![i] = c]
    BY <1>3 DEF Open, Call
  <2>2. c.kind = "load" /\ c.tab = t
    BY DEF Sent
  <2> HIDE DEF c
  <2> QED
    BY <1>m, <2>1, <2>2
<1>4. ASSUME NEW i \in CallIds, Loaded(i) \/ Saved(i) PROVE (OneCall /\ ForActive /\ Follows)'
  <2> DEFINE t == calls[i].tab
  <2>1. t \in TabIds /\ calls[i].body \in Configs /\ calls[i].kind \in {"load", "save"}
    BY <1>4, <1>t DEF Loaded, Saved, Answered, CallsKeepTheirTab, KeepsTab
  <2>2. /\ content' = [content EXCEPT ![t] = calls[i].body] /\ view' = Rendered(t, content')
        /\ calls' = [calls EXCEPT ![i] = NoCall] /\ UNCHANGED active
    BY <1>4 DEF Loaded, Saved, Ended
  <2>3. content' \in [TabIds -> Configs]
    BY <1>t, <2>1, <2>2 DEF ConsoleType
  <2> QED
    BY <1>a, <2>1, <2>2, <2>3
<1>5. ASSUME NEW i \in CallIds, LoadFailed(i) PROVE (OneCall /\ ForActive /\ Follows)'
  BY <1>5, <1>a, <1>t DEF LoadFailed, Ended, ConsoleType
<1>6. ASSUME NEW t, CloseTab(t), \A j \in CallIds : calls[j].kind # "load"
      PROVE  HasButtons' => view'.tab = active'
  <2>1. /\ active' \in TabIds \cup {NoTab}
        /\ UNCHANGED <<tabs, active, view>> \/ view' = Rendered(active', content)
    BY <1>6, <1>t, CloseEffect
  <2>2. CASE UNCHANGED <<tabs, active, view>>
    BY <1>o, <1>6, <2>2 DEF HasButtons
  <2>3. CASE view' = Rendered(active', content)
    <3>1. view'.mode # "edit" /\ (view'.mode = "detail" => view'.tab = active')
      BY <1>t, <2>1, <2>3, RenderedView DEF ConsoleType
    <3> QED
      BY <3>1 DEF HasButtons
  <2> QED
    BY <2>1, <2>2, <2>3
<1>7. ASSUME NEW t \in TabIds, Close(t) PROVE (OneCall /\ ForActive /\ Follows)'
  <2>1. UserActs /\ CloseTab(t) /\ UNCHANGED calls
    BY <1>7 DEF Close
  <2>2. \A j \in CallIds : calls[j].kind = "none"
    BY <1>u, <2>1
  <2>3. HasButtons' => view'.tab = active'
    BY <1>6, <2>1, <2>2
  <2> QED
    BY <2>1, <2>2, <2>3 DEF IsUsers
<1>8. ASSUME NEW i \in CallIds, Deleted(i) PROVE (OneCall /\ ForActive /\ Follows)'
  <2> DEFINE c == Sent("list", NoTab, Gone, Gone)
  <2>1. CloseTab(active) /\ calls' = [calls EXCEPT ![i] = c] /\ calls[i].kind = "delete"
    BY <1>8 DEF Deleted, Reload, Answered
  <2>2. \A j \in CallIds : j # i => ~IsUsers(calls[j])
    BY <1>o, <2>1 DEF IsUsers
  <2>3. \A j \in CallIds : calls[j].kind # "load"
    BY <2>1, <2>2 DEF IsUsers
  <2>4. HasButtons' => view'.tab = active'
    BY <1>6, <2>1, <2>3
  <2>5. c.kind = "list"
    BY DEF Sent
  <2>6. \A j \in CallIds : calls'[j] = IF j = i THEN c ELSE calls[j]
    BY <1>i, <2>1
  <2> HIDE DEF c
  <2> QED
    BY <2>2, <2>4, <2>5, <2>6 DEF IsUsers
<1>9. ASSUME NEW t \in TabIds, Switch(t) PROVE (OneCall /\ ForActive /\ Follows)'
  <2>1. UserActs /\ view' = Rendered(t, content) /\ active' = t /\ UNCHANGED calls
    BY <1>9 DEF Switch
  <2>2. \A j \in CallIds : calls[j].kind = "none"
    BY <1>u, <2>1
  <2>3. view'.mode # "edit" /\ (view'.mode = "detail" => view'.tab = t)
    BY <1>t, <2>1, RenderedView DEF ConsoleType
  <2> QED
    BY <2>1, <2>2, <2>3 DEF IsUsers, HasButtons
<1>10. CASE EditJson \/ Type
  <2>1. UserActs /\ HasButtons /\ UNCHANGED <<active, calls>>
    BY <1>10, <1>t DEF EditJson, Type, HasButtons, ButtonsHaveTab
  <2>2. view'.tab = view.tab
    BY <1>10, <1>t DEF EditJson, Type, ConsoleType, Views
  <2>3. \A j \in CallIds : calls[j].kind = "none"
    BY <1>u, <2>1
  <2> QED
    BY <1>o, <2>1, <2>2, <2>3
<1>11. ASSUME NEW i \in CallIds, UserActs, SaveSource(i, active)
       PROVE  (OneCall /\ ForActive /\ Follows)'
  <2> DEFINE config == IF view.mode = "edit" THEN view.text ELSE content[active]
             c == Sent("save", active, item[active], config)
  <2>1. calls' = [calls EXCEPT ![i] = c] /\ UNCHANGED <<active, view>>
    BY <1>11 DEF SaveSource, Call, tabVars
  <2>2. c.kind = "save" /\ c.tab = active
    BY DEF Sent
  <2> HIDE DEF c
  <2> QED
    BY <1>m, <1>11, <2>1, <2>2
<1>12. ASSUME NEW i \in CallIds, SaveButton(i) PROVE (OneCall /\ ForActive /\ Follows)'
  <2>1. UserActs /\ HasButtons /\ SaveSource(i, view.tab)
    BY <1>12, <1>t DEF SaveButton, ButtonTab, ButtonsHaveTab
  <2>2. view.tab = active
    BY <1>o, <1>u, <2>1
  <2> QED
    BY <1>11, <2>1, <2>2
<1>13. ASSUME NEW i \in CallIds, CtrlS(i) PROVE (OneCall /\ ForActive /\ Follows)'
  BY <1>11, <1>13 DEF CtrlS
<1>14. ASSUME NEW i \in CallIds, NEW s \in Sources, Delete(i, s)
       PROVE  (OneCall /\ ForActive /\ Follows)'
  <2> DEFINE c == [Sent("delete", NoTab, s, Gone) EXCEPT !.at = IF token = "admin" THEN @ ELSE "failed"]
  <2>1. c.kind = "delete"
    BY DEF Sent
  <2>2. UserActs /\ calls' = [calls EXCEPT ![i] = c] /\ UNCHANGED <<active, view>>
    BY <1>14 DEF Delete, Call, tabVars
  <2> HIDE DEF c
  <2> QED
    BY <1>m, <2>1, <2>2
<1>15. ASSUME NEW i \in CallIds, Login(i) PROVE (OneCall /\ ForActive /\ Follows)'
  <2> DEFINE c == Sent("login", NoTab, Gone, Stringified("form"))
  <2>1. c.kind = "login"
    BY DEF Sent
  <2>2. UserActs /\ calls' = [calls EXCEPT ![i] = c] /\ UNCHANGED <<active, view>>
    BY <1>15 DEF Login, Call, tabVars
  <2> HIDE DEF c
  <2> QED
    BY <1>m, <2>1, <2>2
<1>16. ASSUME NEW i \in CallIds, Listed(i) \/ Failed(i) \/ Refresh(i) \/ LoginEnds(i)
       PROVE  (OneCall /\ ForActive /\ Follows)'
  <2> DEFINE list == Sent("list", NoTab, Gone, Gone)
  <2>1. /\ NoCall.kind = "none" /\ list.kind = "list"
        /\ NoCall.tab = NoTab /\ list.tab = NoTab
    BY DEF NoCall, Sent
  <2>2. PICK c \in {NoCall, list} : calls' = [calls EXCEPT ![i] = c]
    BY <1>16 DEF Listed, Failed, Refresh, LoginEnds, Reload, Ended
  <2>3. UNCHANGED <<active, view>> /\ calls[i].kind # "load"
    BY <1>16 DEF Listed, Failed, Refresh, LoginEnds, Answered, NoCall, tabVars
  <2>4. \A j \in CallIds : calls'[j] = IF j = i THEN c ELSE calls[j]
    BY <1>i, <2>2
  <2> HIDE DEF list
  <2>5. c.kind \in {"none", "list"}
    BY <2>1, <2>2
  <2> QED
    BY <1>o, <2>3, <2>4, <2>5 DEF IsUsers, HasButtons
<1>17. CASE Logout \/ UNCHANGED vars
  BY <1>o, <1>17 DEF Logout, vars, tabVars, HasButtons
<1> QED
  BY <1>1, <1>2, <1>3, <1>4, <1>5, <1>7, <1>8, <1>9, <1>10, <1>12, <1>13, <1>14, <1>15, <1>16,
     <1>17 DEF Next, Answer, User

-----------------------------------------------------------------------------
(* The theorems                                                             *)

\* The invariant holds through every interleaving of the user and the answers.
THEOREM ConsoleInvariance == Spec => []ConsoleInv
<1>1. ConsoleInv /\ [Next]_vars => ConsoleInv'
  BY ConsoleTypeStep, TabsStep, CallsStep, OwnStep, FollowStep DEF ConsoleInv
<1> QED
  BY ConsoleInitially, <1>1, PTL DEF Spec

\* openTab and closeTab: a source never has two tabs, and the active tab is an open one,
\* for any number of tabs and of calls in flight.
THEOREM TabsStaySound == Spec => []TabsAreSound
<1>1. ConsoleInv => TabsAreSound
  BY DEF ConsoleInv
<1> QED
  BY ConsoleInvariance, <1>1, PTL

\* saveSource: the only way to write one source's config over another's is Ctrl+S while
\* the editor of another tab is open.
THEOREM OnlyCtrlSCrosses == Spec => []CrossWriteNeedsCtrlS
<1>1. ConsoleInv => CrossWriteNeedsCtrlS
  BY DEF ConsoleInv, ConfigsAreOwn, Own, CrossWriteNeedsCtrlS
<1> QED
  BY ConsoleInvariance, <1>1, PTL

\* renderTabContent: who waits for the answers is shown the active tab.
THEOREM PatientUserSeesActive == Spec => []ShownIsActive
<1>1. ConsoleInv => ShownIsActive
  BY DEF ConsoleInv, ViewFollows, ShownIsActive, Quiet, NoCall
<1> QED
  BY ConsoleInvariance, <1>1, PTL
=============================================================================

------------------------ MODULE SourcePluginsProofs ------------------------
(***************************************************************************)
(* The lazily started browser of PlaywrightFetcher, for any number of      *)
(* concurrent scrapes and of browsers: where strays and open contexts come *)
(* from, and that a dead browser is final.  And the line machine of        *)
(* M3USource for lists of any length.                                      *)
(***************************************************************************)
EXTENDS SourcePlugins, FiniteSetTheorems, TLAPS

Places == {"idle", "starting", "launching", "context", "page", "loading", "closing",
           "html", "llm", "done", "m3u"}
Starting(t) == job[t].at \in {"starting", "launching"}

\* A job, as far as the browser is concerned.
Jobs(n) == [at : Places, in : 0..n, asked : Nat, found : {"none", "page", "programs", "nothing"},
            lines : Playlists \cup {<<>>}]
Job(j, n) == /\ j \in Jobs(n)
             /\ j.at \in {"context", "page", "loading", "closing"} => j.in # NoBrowser
Visits(j, b) == j.in = b /\ j.at \in {"page", "loading", "closing"}
Visitors(b) == {t \in Tasks : Visits(job[t], b)}
PluginType == /\ launched \in 0..MaxBrowsers /\ browser \in 0..launched
              /\ alive \subseteq 1..launched
              /\ open \in [Browsers -> Int] /\ orphans \in [Browsers -> Int]
              /\ DOMAIN job = Tasks
              /\ \A t \in Tasks : Job(job[t], launched)

\* As long as there was no race, the task that starts a browser is alone and starts the
\* first one.
StartIsAlone == ~raced => \A t \in Tasks : Starting(t) =>
                    /\ browser = NoBrowser
                    /\ \A s \in Tasks : Starting(s) => s = t

\* A browser that has not been launched has no contexts.
UnbornIsEmpty == \A b \in Browsers : b > launched => open[b] = 0 /\ orphans[b] = 0

PluginInv == PluginType /\ StrayNeedsRaceOrCancel /\ StartIsAlone /\ UnbornIsEmpty /\ ContextsAreClosed

-----------------------------------------------------------------------------
\* What a step of one task does to its own job, and that it leaves the others alone.
LEMMA JobStep ==
    ASSUME PluginType, NEW t \in Tasks, NEW j, Becomes(t, j)
    PROVE  DOMAIN job' = Tasks /\ job'[t] = j /\ \A s \in Tasks \ {t} : job'[s] = job[s]
BY DEF PluginType, Becomes

\* A job that begins.
LEMMA IdleJob == \A n \in Nat : Idle \in Jobs(n) /\ Idle.at = "idle" /\ Idle.in = 0
BY DEF Jobs, Idle, NoBrowser, Places

\* The visitors of a browser are finite in number.
LEMMA VisitorsCount ==
    ASSUME NEW b, NEW t \in Tasks
    PROVE  /\ Cardinality(Visitors(b)) \in Nat
           /\ t \notin Visitors(b) => Cardinality(Visitors(b) \cup {t}) = Cardinality(Visitors(b)) + 1
           /\ t \in Visitors(b) => Cardinality(Visitors(b) \ {t}) = Cardinality(Visitors(b)) - 1
<1>1. IsFiniteSet(Visitors(b))
  BY PluginAssumption, FS_Subset DEF Visitors
<1> QED
  BY <1>1, FS_CardinalityType, FS_AddElement, FS_RemoveElement

\* ContextsAreClosed, in terms of the visitors.
LEMMA ContextsForm ==
    /\ ContextsAreClosed <=> \A b \in alive : open[b] = orphans[b] + Cardinality(Visitors(b))
    /\ ContextsAreClosed' <=> \A b \in alive' : open'[b] = orphans'[b] + Cardinality(Visitors(b)')
BY DEF ContextsAreClosed, Visitors, Visits

\* How the visitors change with the job of one task.
LEMMA VisitorsStep ==
    ASSUME PluginType, NEW t \in Tasks, NEW j, Becomes(t, j), NEW b
    PROVE  Visitors(b)' = IF Visits(j, b) THEN Visitors(b) \cup {t} ELSE Visitors(b) \ {t}
BY JobStep DEF Visitors, Visits

\* A step that touches no browser, starts none and changes no visit to a live one.
LEMMA QuietStep ==
    ASSUME PluginInv, NEW t \in Tasks, NEW j, Becomes(t, j), UNCHANGED browserVars,
           Job(j, launched), j.at \in {"starting", "launching"} => Starting(t),
           \A b \in alive : Visits(j, b) <=> Visits(job[t], b)
    PROVE  PluginInv'
<1> USE DEF PluginInv
<1>1. /\ DOMAIN job' = Tasks /\ job'[t] = j /\ \A s \in Tasks \ {t} : job'[s] = job[s]
      /\ UNCHANGED <<browser, launched, alive, open, raced, lost, orphans>>
  BY JobStep DEF browserVars
<1>2. PluginType'
  BY <1>1 DEF PluginType
<1>3. StrayNeedsRaceOrCancel' /\ UnbornIsEmpty'
  BY <1>1 DEF StrayNeedsRaceOrCancel, UnbornIsEmpty
<1>4. StartIsAlone'
  BY <1>1 DEF StartIsAlone, Starting
<1>5. ASSUME NEW b \in alive PROVE Visitors(b)' = Visitors(b)
  BY VisitorsStep DEF Visitors
<1>6. ContextsAreClosed'
  BY <1>1, <1>5, ContextsForm
<1> QED
  BY <1>2, <1>3, <1>4, <1>6

\* Init: no browser, no job.
LEMMA PluginInitially == Init => PluginInv
<1> SUFFICES ASSUME Init PROVE PluginInv
  OBVIOUS
<1>1. Job(Idle, 0) /\ Idle.at = "idle"
  BY IdleJob DEF Job
<1>2. PluginType
  <2>1. MaxBrowsers \in Nat
    BY PluginAssumption
  <2>2. DOMAIN job = Tasks /\ \A t \in Tasks : job[t] = Idle
    BY DEF Init
  <2>3. /\ launched = 0 /\ browser = 0 /\ alive = {}
        /\ open \in [Browsers -> Int] /\ orphans \in [Browsers -> Int]
    BY DEF Init, NoBrowser
  <2> QED
    BY <1>1, <2>1, <2>2, <2>3 DEF PluginType
<1> QED
  BY <1>1, <1>2 DEF Init, PluginInv, StrayNeedsRaceOrCancel, StartIsAlone, Starting, UnbornIsEmpty,
                    ContextsAreClosed


\* One step per action: those of QuietStep first, then those that touch a browser.
LEMMA PluginStep == PluginInv /\ [Next]_vars => PluginInv'
<1> SUFFICES ASSUME PluginInv, [Next]_vars PROVE PluginInv'
  OBVIOUS
<1> USE DEF PluginInv
<1>0. /\ \A t \in Tasks : Job(job[t], launched)
      /\ launched \in Nat /\ MaxBrowsers \in Nat /\ launched <= MaxBrowsers /\ Browsers = 1..MaxBrowsers
      /\ alive \subseteq 1..launched /\ browser \in 0..launched
  BY PluginAssumption DEF PluginType, Browsers
<1>i. Job(Idle, launched) /\ Idle.at = "idle"
  BY <1>0, IdleJob DEF Job
<1>1. ASSUME NEW t \in Tasks,
             \/ StartDriver(t) \/ LaunchFails(t) \/ BrowserGone(t) \/ NewPage(t) \/ Load(t)
             \/ LoadFails(t) \/ ParseHtml(t) \/ LLMFails(t) \/ Return(t) \/ CancelQuietly(t)
             \/ \E answer \in {"programs", "empty", "unusable"} : LLMAnswers(t, answer)
             \/ \E lines \in Playlists : Playlist(t, lines)
      PROVE  PluginInv'
  <2>0. job[t] \in Jobs(launched) /\ Job(job[t], launched)
    BY <1>0 DEF Job
  \* A job that moves between two places of the same kind.
  <2>1. ASSUME NEW j, Becomes(t, j), UNCHANGED browserVars, j \in Jobs(launched), j.in = job[t].in,
               \/ At(t, "starting") /\ j.at = "launching"
               \/ {j.at, job[t].at} \subseteq {"page", "loading", "closing"}
               \/ {j.at, job[t].at} \subseteq {"html", "llm", "done"}
        PROVE  PluginInv'
    <3>1. Job(j, launched) /\ (j.at \in {"starting", "launching"} => Starting(t))
      BY <2>0, <2>1 DEF Job, Starting, At
    <3>2. \A b : Visits(j, b) <=> Visits(job[t], b)
      BY <2>1 DEF Visits, At
    <3> QED
      BY <2>1, <3>1, <3>2, QuietStep
  <2>2. ASSUME NEW at \in Places, Goes(t, at), UNCHANGED browserVars,
               \/ At(t, "starting") /\ at = "launching"
               \/ At(t, "page") /\ at = "loading"
               \/ At(t, "loading") /\ at = "closing"
        PROVE  PluginInv'
    <3> DEFINE j == [job[t] EXCEPT !.at = at]
    <3>1. Becomes(t, j) /\ j \in Jobs(launched) /\ j.at = at /\ j.in = job[t].in
      BY <2>0, <2>2 DEF Goes, Jobs
    <3> HIDE DEF j
    <3> QED
      BY <2>1, <2>2, <3>1 DEF At
  <2>3. CASE StartDriver(t) \/ NewPage(t) \/ LoadFails(t)
    BY <2>2, <2>3 DEF StartDriver, NewPage, LoadFails, AfterError, Goes, Places
  <2>4. ASSUME NEW at \in {"closing", "done"}, NEW f \in {"page", "programs", "nothing"},
               Becomes(t, [job[t] EXCEPT !.at = at, !.found = f]), UNCHANGED browserVars,
               (At(t, "loading") /\ at = "closing") \/ (At(t, "llm") /\ at = "done")
        PROVE  PluginInv'
    <3> DEFINE j == [job[t] EXCEPT !.at = at, !.found = f]
    <3>1. Becomes(t, j) /\ j \in Jobs(launched) /\ j.at = at /\ j.in = job[t].in
      BY <2>0, <2>4 DEF Jobs, Places
    <3> HIDE DEF j
    <3> QED
      BY <2>1, <2>4, <3>1 DEF At
  <2>5. CASE Load(t) \/ \E answer \in {"programs", "empty", "unusable"} : LLMAnswers(t, answer)
    <3>1. CASE Load(t)
      <4> DEFINE j == [job[t] EXCEPT !.at = "closing", !.found = "page"]
      <4>1. Becomes(t, j) /\ j \in Jobs(launched) /\ j.at = "closing" /\ j.in = job[t].in
        BY <2>0, <3>1 DEF Load, Jobs, Places
      <4> HIDE DEF j
      <4> QED
        BY <2>1, <3>1, <4>1 DEF Load, At
    <3>2. ASSUME NEW answer, LLMAnswers(t, answer) PROVE PluginInv'
      <4> DEFINE f == IF answer = "programs" THEN answer ELSE "nothing"
      <4>1. f \in {"page", "programs", "nothing"}
        OBVIOUS
      <4>2. /\ At(t, "llm") /\ UNCHANGED browserVars
            /\ Becomes(t, [job[t] EXCEPT !.at = "done", !.found = f])
        BY <3>2 DEF LLMAnswers
      <4> HIDE DEF f
      <4> QED
        BY <2>4, <4>1, <4>2
    <3> QED
      BY <2>5, <3>1, <3>2
  <2>6. CASE ParseHtml(t)
    <3> DEFINE j == [job[t] EXCEPT !.at = "llm", !.asked = 1]
    <3>1. Becomes(t, j) /\ j \in Jobs(launched) /\ j.at = "llm" /\ j.in = job[t].in
      BY <2>0, <2>6 DEF ParseHtml, Jobs, Places
    <3> HIDE DEF j
    <3> QED
      BY <2>1, <2>6, <3>1 DEF ParseHtml, At
  <2>7. CASE LLMFails(t)
    <3>1. CASE Exhausted(t)
      BY <2>4, <2>7, <3>1 DEF LLMFails
    <3>2. CASE ~Exhausted(t)
      <4> DEFINE k == NextProvider(t)
                 j == [job[t] EXCEPT !.asked = k]
      <4>1. k \in Nat /\ Becomes(t, j)
        BY <2>0, <2>7, <3>2 DEF NextProvider, Jobs, LLMFails
      <4> HIDE DEF k
      <4>2. j \in Jobs(launched) /\ j.at = job[t].at /\ j.in = job[t].in
        BY <2>0, <4>1 DEF Jobs
      <4> HIDE DEF j
      <4> QED
        BY <2>1, <2>7, <4>1, <4>2 DEF LLMFails, At
    <3> QED
      BY <3>1, <3>2
  \* A job that ends, or begins with a playlist: no visit to a live browser.
  <2>8. ASSUME NEW j, Becomes(t, j), UNCHANGED browserVars, j \in Jobs(launched),
               j.at \in {"idle", "m3u"}, \A b \in alive : ~Visits(job[t], b)
        PROVE  PluginInv'
    <3>1. Job(j, launched) /\ \A b : ~Visits(j, b)
      BY <2>8 DEF Job, Visits
    <3> QED
      BY <2>8, <3>1, QuietStep
  <2>9. CASE LaunchFails(t) \/ BrowserGone(t) \/ Return(t) \/ CancelQuietly(t)
    <3>1. \A b \in alive : ~Visits(job[t], b)
      BY <2>9 DEF LaunchFails, BrowserGone, Return, CancelQuietly, Visits, At
    <3>2. Becomes(t, Idle) /\ UNCHANGED browserVars /\ Idle \in Jobs(launched)
      BY <1>i, <2>9 DEF LaunchFails, BrowserGone, Return, CancelQuietly, Fails, Job
    <3> QED
      BY <1>i, <2>8, <3>1, <3>2
  <2>10. ASSUME NEW lines \in Playlists, Playlist(t, lines) PROVE PluginInv'
    <3> DEFINE j == [Idle EXCEPT !.at = "m3u", !.lines = lines]
    <3>1. Becomes(t, j) /\ UNCHANGED browserVars /\ \A b \in alive : ~Visits(job[t], b)
      BY <2>10 DEF Playlist, Visits, At
    <3>2. j \in Jobs(launched) /\ j.at = "m3u"
      BY <1>i, <2>10 DEF Job, Jobs, Places
    <3> HIDE DEF j
    <3> QED
      BY <2>8, <3>1, <3>2
  <2> QED
    BY <1>1, <2>3, <2>5, <2>6, <2>7, <2>9, <2>10
<1>2. ASSUME NEW t \in Tasks, Scrape(t) PROVE PluginInv'
  <2>1. PICK j : /\ Becomes(t, j) /\ Job(j, launched)
                 /\ IF Ensured THEN j.at = "context" ELSE j.at = "starting"
    <3>1. CASE Ensured
      <4> DEFINE j == [Idle EXCEPT !.at = "context", !.in = browser]
      <4>1. Becomes(t, j) /\ browser \in 0..launched /\ browser # NoBrowser
        BY <1>0, <1>2, <3>1 DEF Scrape, Ensured
      <4>2. j \in Jobs(launched) /\ j.at = "context" /\ j.in = browser
        BY <1>0, <4>1 DEF Idle, Jobs, Places
      <4> HIDE DEF j
      <4> QED
        BY <3>1, <4>1, <4>2 DEF Job
    <3>2. CASE ~Ensured
      <4> DEFINE j == [Idle EXCEPT !.at = "starting"]
      <4>1. Becomes(t, j)
        BY <1>2, <3>2 DEF Scrape
      <4>2. j \in Jobs(launched) /\ j.at = "starting"
        BY <1>0 DEF Idle, Jobs, Places, NoBrowser
      <4> HIDE DEF j
      <4> QED
        BY <3>2, <4>1, <4>2 DEF Job
    <3> QED
      BY <3>1, <3>2
  <2>2. /\ UNCHANGED <<browser, launched, alive, open, lost, orphans>> /\ At(t, "idle")
        /\ raced' = (raced \/ (~Ensured /\ \E s \in Tasks : Starting(s)))
    BY <1>2 DEF Scrape, Starting
  <2>3. DOMAIN job' = Tasks /\ job'[t] = j /\ \A s \in Tasks \ {t} : job'[s] = job[s]
    BY <2>1, JobStep
  <2>4. PluginType'
    BY <2>1, <2>2, <2>3 DEF PluginType
  <2>5. StrayNeedsRaceOrCancel' /\ UnbornIsEmpty'
    BY <2>2 DEF StrayNeedsRaceOrCancel, UnbornIsEmpty
  <2>6. StartIsAlone'
    <3> SUFFICES ASSUME ~raced', NEW s \in Tasks, NEW r \in Tasks, Starting(s)', Starting(r)'
                 PROVE  browser' = NoBrowser /\ r = s
      BY DEF StartIsAlone
    <3>1. ~raced /\ (Ensured \/ \A x \in Tasks : ~Starting(x))
      BY <2>2
    <3>2. CASE Ensured
      <4>1. s # t /\ r # t
        BY <2>1, <2>3, <3>2 DEF Starting
      <4> QED
        BY <2>2, <2>3, <3>1, <4>1 DEF StartIsAlone, Starting
    <3>3. CASE ~Ensured
      <4>1. s = t /\ r = t
        BY <2>3, <3>1, <3>3 DEF Starting
      <4> QED
        BY <2>2, <3>3, <4>1 DEF Ensured
    <3> QED
      BY <3>2, <3>3
  <2>7. ASSUME NEW b \in alive PROVE Visitors(b)' = Visitors(b)
    BY <2>1, <2>2, VisitorsStep DEF Visitors, Visits, At
  <2>8. ContextsAreClosed'
    BY <2>2, <2>7, ContextsForm
  <2> QED
    BY <2>4, <2>5, <2>6, <2>8
\* A browser comes up, for the task that launched it or, if that was cancelled, for nobody.
<1>3. ASSUME NEW t \in Tasks, Launch(t) \/ CancelLaunch(t) PROVE PluginInv'
  <2> DEFINE n == launched + 1
  <2>1. /\ launched' = n /\ n \in Browsers /\ n \notin alive /\ alive' = alive \cup {n}
        /\ (browser' = n /\ UNCHANGED lost) \/ (browser' = browser /\ lost' = lost \cup {n})
        /\ UNCHANGED <<open, raced, orphans>> /\ Starting(t) /\ At(t, "launching")
    BY <1>0, <1>3 DEF Launch, CancelLaunch, Kept, Starting, At
  <2>2. PICK j : Becomes(t, j) /\ Job(j, n) /\ j.at \in {"context", "idle"}
    <3>1. job[t] \in Jobs(n) /\ n \in 0..n /\ n # NoBrowser
      BY <1>0 DEF Job, Jobs, NoBrowser
    <3>2. CASE Launch(t)
      <4> DEFINE j == [job[t] EXCEPT !.at = "context", !.in = n]
      <4>1. j \in Jobs(n) /\ j.at = "context" /\ j.in = n
        BY <3>1 DEF Places, Jobs
      <4>2. Becomes(t, j)
        BY <3>2 DEF Launch
      <4> HIDE DEF j
      <4> QED
        BY <3>1, <4>1, <4>2 DEF Job
    <3>3. CASE CancelLaunch(t)
      <4>1. Job(Idle, n)
        BY <1>0, IdleJob DEF Job
      <4> QED
        BY <1>i, <3>3, <4>1 DEF CancelLaunch, Fails
    <3> QED
      BY <1>3, <3>2, <3>3
  <2>3. DOMAIN job' = Tasks /\ job'[t] = j /\ \A s \in Tasks \ {t} : job'[s] = job[s]
    BY <2>2, JobStep
  <2>4. PluginType'
    <3>1. \A s \in Tasks : Job(job'[s], n)
      BY <1>0, <2>2, <2>3 DEF Job, Jobs
    <3> QED
      BY <1>0, <2>1, <2>3, <3>1 DEF PluginType
  <2>5. StrayNeedsRaceOrCancel'
    BY <1>0, <2>1 DEF StrayNeedsRaceOrCancel, StartIsAlone, NoBrowser
  <2>6. UnbornIsEmpty'
    BY <1>0, <2>1 DEF UnbornIsEmpty
  <2>7. StartIsAlone'
    BY <2>1, <2>2, <2>3 DEF StartIsAlone, Starting
  <2>8. ASSUME NEW b PROVE Visitors(b)' = Visitors(b)
    <3>1. ~Visits(j, b) /\ t \notin Visitors(b)
      BY <2>1, <2>2 DEF Visitors, Visits, At
    <3>2. Visitors(b)' = IF Visits(j, b) THEN Visitors(b) \cup {t} ELSE Visitors(b) \ {t}
      BY <2>2, VisitorsStep
    <3> QED
      BY <3>1, <3>2
  <2>9. Visitors(n) = {} /\ open[n] = 0 /\ orphans[n] = 0
    <3>1. \A s \in Tasks : job[s].in \in 0..launched
      BY <1>0 DEF Job, Jobs
    <3>2. Visitors(n) = {}
      BY <1>0, <3>1 DEF Visitors, Visits
    <3> QED
      BY <1>0, <2>1, <3>2 DEF UnbornIsEmpty
  <2>10. Cardinality({}) = 0
    BY FS_EmptySet
  <2>11. ContextsAreClosed'
    BY <2>1, <2>8, <2>9, <2>10, ContextsForm
  <2> QED
    BY <2>4, <2>5, <2>6, <2>7, <2>11
\* Steps in a live browser keep its account: contexts less those left behind less visits.
<1>4. ASSUME NEW t \in Tasks, NEW j, Becomes(t, j), Job(j, launched), ~Starting(t),
             j.at \notin {"starting", "launching"},
             UNCHANGED <<browser, launched, alive, raced, lost>>,
             NEW b \in alive, b = job[t].in, \A d \in alive \ {b} : ~Visits(j, d),
             open' \in [Browsers -> Int], orphans' \in [Browsers -> Int],
             \A d \in Browsers \ {b} : open'[d] = open[d] /\ orphans'[d] = orphans[d],
             (open'[b] - orphans'[b]) - (IF Visits(j, b) THEN 1 ELSE 0)
               = (open[b] - orphans[b]) - (IF Visits(job[t], b) THEN 1 ELSE 0)
      PROVE  PluginInv'
  <2>1. DOMAIN job' = Tasks /\ job'[t] = j /\ \A s \in Tasks \ {t} : job'[s] = job[s]
    BY <1>4, JobStep
  <2>2. PluginType'
    BY <1>4, <2>1 DEF PluginType
  <2>3. StrayNeedsRaceOrCancel' /\ UnbornIsEmpty'
    <3>1. \A d \in Browsers : d > launched => d # b
      BY <1>0, <1>4
    <3> QED
      BY <1>4, <3>1 DEF StrayNeedsRaceOrCancel, UnbornIsEmpty
  <2>4. StartIsAlone'
    BY <1>4, <2>1 DEF StartIsAlone, Starting
  <2>5. ASSUME NEW d \in alive \ {b} PROVE Visitors(d)' = Visitors(d)
    <3>1. ~Visits(j, d) /\ t \notin Visitors(d)
      BY <1>4 DEF Visitors, Visits
    <3>2. Visitors(d)' = IF Visits(j, d) THEN Visitors(d) \cup {t} ELSE Visitors(d) \ {t}
      BY <1>4, VisitorsStep
    <3> QED
      BY <3>1, <3>2
  <2>6. Cardinality(Visitors(b)') = Cardinality(Visitors(b)) + (IF Visits(j, b) THEN 1 ELSE 0)
                                                             - (IF Visits(job[t], b) THEN 1 ELSE 0)
    <3>0. Cardinality(Visitors(b)) \in Nat
      BY VisitorsCount
    <3>1. Visitors(b)' = IF Visits(j, b) THEN Visitors(b) \cup {t} ELSE Visitors(b) \ {t}
      BY <1>4, VisitorsStep
    <3>2. t \in Visitors(b) <=> Visits(job[t], b)
      BY DEF Visitors
    <3>3. CASE Visits(j, b) <=> Visits(job[t], b)
      <4>1. Visitors(b)' = Visitors(b)
        BY <3>1, <3>2, <3>3
      <4> QED
        BY <3>0, <3>3, <4>1
    <3>4. CASE Visits(j, b) /\ ~Visits(job[t], b)
      BY <3>1, <3>2, <3>4, VisitorsCount
    <3>5. CASE ~Visits(j, b) /\ Visits(job[t], b)
      BY <3>1, <3>2, <3>5, VisitorsCount
    <3> QED
      BY <3>3, <3>4, <3>5
  <2>7. open'[b] = orphans'[b] + Cardinality(Visitors(b)')
    <3>1. open[b] = orphans[b] + Cardinality(Visitors(b))
      BY ContextsForm
    <3>2. b \in Browsers /\ Cardinality(Visitors(b)) \in Int
      <4>1. Cardinality(Visitors(b)) \in Nat
        BY VisitorsCount
      <4> QED
        BY <1>0, <4>1
    <3>3. open[b] \in Int /\ orphans[b] \in Int /\ open'[b] \in Int /\ orphans'[b] \in Int
      BY <1>4, <3>2 DEF PluginType
    <3> QED
      BY <1>4, <2>6, <3>1, <3>2, <3>3
  <2>8. ContextsAreClosed'
    <3> SUFFICES ASSUME NEW d \in alive PROVE open'[d] = orphans'[d] + Cardinality(Visitors(d)')
      BY <1>4, ContextsForm
    <3>1. CASE d = b
      BY <2>7, <3>1
    <3>2. CASE d # b
      <4>1. d \in Browsers /\ open[d] = orphans[d] + Cardinality(Visitors(d))
        <5>1. d \in Browsers
          BY <1>0
        <5> QED
          BY <5>1, ContextsForm
      <4> QED
        BY <1>4, <2>5, <3>2, <4>1
    <3> QED
      BY <3>1, <3>2
  <2> QED
    BY <2>2, <2>3, <2>4, <2>8
<1>5. ASSUME NEW t \in Tasks, NewContext(t) \/ CancelContext(t) \/ Abandon(t) \/ Close(t) \/ CancelClose(t)
      PROVE  PluginInv'
  <2> DEFINE b == job[t].in
             j == job'[t]
  <2>1. /\ Becomes(t, j) /\ b \in alive /\ b \in Browsers /\ ~Starting(t)
        /\ UNCHANGED <<browser, launched, alive, raced, lost>>
    BY <1>0, <1>5 DEF NewContext, CancelContext, Abandon, Close, CancelClose, Becomes, Goes, Fails, PluginType, At, Starting
  <2>2. /\ open' \in [Browsers -> Int] /\ orphans' \in [Browsers -> Int]
        /\ \A d \in Browsers \ {b} : open'[d] = open[d] /\ orphans'[d] = orphans[d]
    BY <1>5, <2>1 DEF NewContext, CancelContext, Abandon, Close, CancelClose, PluginType
  <2>3. open[b] \in Int /\ orphans[b] \in Int /\ t \in DOMAIN job
    BY <2>1 DEF PluginType
  <2>4. /\ Job(j, launched) /\ j.at \notin {"starting", "launching"}
        /\ \A d \in alive \ {b} : ~Visits(j, d)
        /\ (open'[b] - orphans'[b]) - (IF Visits(j, b) THEN 1 ELSE 0)
             = (open[b] - orphans[b]) - (IF Visits(job[t], b) THEN 1 ELSE 0)
    <3> USE DEF Job, Places, Visits, At, Becomes, Goes, Fails, NoBrowser
    <3>1. CASE NewContext(t)
      <4>1. j = [job[t] EXCEPT !.at = "page"] /\ orphans' = orphans /\ open'[b] = open[b] + 1 /\ At(t, "context")
        BY <2>1, <2>3, <3>1 DEF NewContext, PluginType
      <4>2. j.at = "page" /\ j.in = b /\ Job(j, launched)
        BY <1>0, <4>1 DEF Jobs
      <4> QED
        BY <2>3, <4>1, <4>2
    <3>2. CASE Abandon(t)
      <4>1. j = Idle /\ open' = open /\ orphans'[b] = orphans[b] + 1 /\ job[t].at \in {"page", "closing"}
        BY <2>1, <2>3, <3>2 DEF Abandon, PluginType
      <4> QED
        BY <1>i, <2>3, <4>1
    <3>3. CASE Close(t)
      <4>1. j \in {Idle, [Idle EXCEPT !.at = "html"]} /\ orphans' = orphans
            /\ open'[b] = open[b] - 1 /\ At(t, "closing")
        BY <2>1, <2>3, <3>3 DEF Close, PluginType
      <4>2. j.at \in {"idle", "html"} /\ Job(j, launched)
        BY <1>0, <1>i, <4>1 DEF Idle, Jobs
      <4> QED
        BY <2>3, <4>1, <4>2
    <3>4. CASE CancelContext(t)
      <4>1. /\ j = Idle /\ open'[b] = open[b] + 1 /\ orphans'[b] = orphans[b] + 1
            /\ At(t, "context")
        BY <2>1, <2>3, <3>4 DEF CancelContext, PluginType
      <4> QED
        BY <1>i, <2>3, <4>1
    <3>5. CASE CancelClose(t)
      <4>1. j = Idle /\ orphans' = orphans /\ open'[b] = open[b] - 1 /\ At(t, "closing")
        BY <2>1, <2>3, <3>5 DEF CancelClose, PluginType
      <4> QED
        BY <1>i, <2>3, <4>1
    <3> QED
      BY <1>5, <3>1, <3>2, <3>3, <3>4, <3>5
  <2> HIDE DEF j
  <2> QED
    BY <1>4, <2>1, <2>2, <2>4
<1>6. ASSUME NEW b \in Browsers, Crash(b) PROVE PluginInv'
  <2>1. /\ UNCHANGED <<browser, launched, job, raced, lost>> /\ alive' = alive \ {b}
        /\ \A d \in Browsers \ {b} : open'[d] = open[d] /\ orphans'[d] = orphans[d]
        /\ open' \in [Browsers -> Int] /\ orphans' \in [Browsers -> Int]
        /\ open'[b] = 0 /\ orphans'[b] = 0
    BY <1>6 DEF Crash, PluginType
  <2>2. PluginType' /\ StrayNeedsRaceOrCancel' /\ UnbornIsEmpty' /\ StartIsAlone'
    BY <2>1 DEF PluginType, StrayNeedsRaceOrCancel, UnbornIsEmpty, StartIsAlone, Starting
  <2>3. \A d : Visitors(d)' = Visitors(d)
    BY <2>1 DEF Visitors, Visits
  <2>4. ContextsAreClosed'
    BY <1>0, <2>1, <2>3, ContextsForm
  <2> QED
    BY <2>2, <2>4
<1>7. CASE UNCHANGED vars
  BY <1>7 DEF vars, PluginType, StrayNeedsRaceOrCancel, UnbornIsEmpty, StartIsAlone, Starting,
              ContextsAreClosed
<1> QED
  BY <1>1, <1>2, <1>3, <1>5, <1>6, <1>7 DEF Next, Step, Cancel

\* The inductive invariant of the fetcher.
THEOREM PluginInvariance == Spec => []PluginInv
BY PluginInitially, PluginStep, PTL DEF Spec

\* The shared browser: without two overlapping first fetches, every browser that runs is
\* the one referred to or was launched by a fetch that was cancelled in launch().
THEOREM StraySafe == Spec => []StrayNeedsRaceOrCancel
<1>1. PluginInv => StrayNeedsRaceOrCancel
  BY DEF PluginInv
<1> QED
  BY <1>1, PluginInvariance, PTL

\* Every open context of a live browser has a fetch that will close it, or was let go of
\* outside the try or in its finally clause: none is lost while the page is loaded.
THEOREM ContextsSafe == Spec => []ContextsAreClosed
<1>1. PluginInv => ContextsAreClosed
  BY DEF PluginInv
<1> QED
  BY <1>1, PluginInvariance, PTL

\* A dead browser is never replaced: _ensure() looks only at the reference.
THEOREM DeadStays == Spec => DeadBrowserIsFinal
<1>1. PluginInv /\ [Next]_vars => [Wedged => Wedged']_vars
  <2> SUFFICES ASSUME PluginType, Next, Wedged PROVE Wedged'
    BY DEF PluginInv, vars
  <2>0. browser # NoBrowser /\ \A t \in Tasks : ~Starting(t)
    BY DEF Wedged, Starting
  <2>1. ASSUME NEW t \in Tasks, NEW j, Becomes(t, j), UNCHANGED <<browser, alive>>,
               j.at \notin {"starting", "launching"}
        PROVE  Wedged'
    BY <2>0, <2>1, JobStep DEF Wedged, Starting
  <2>2. ASSUME NEW t \in Tasks,
               Step(t) \/ Scrape(t) \/ Cancel(t) \/ \E lines \in Playlists : Playlist(t, lines)
        PROVE  Wedged'
    <3> DEFINE j == job'[t]
    <3>0. t \in DOMAIN job /\ Job(job[t], launched)
      BY DEF PluginType
    <3>1. Becomes(t, j) /\ UNCHANGED <<browser, alive>> /\ j.at \notin {"starting", "launching"}
      <4> USE DEF Becomes, Goes, Fails, At, Starting, Idle
      <4>1. CASE Scrape(t) \/ \E lines \in Playlists : Playlist(t, lines)
        BY <2>0, <3>0, <4>1 DEF Scrape, Ensured, Playlist, browserVars
      <4>2. CASE StartDriver(t) \/ Launch(t) \/ LaunchFails(t) \/ CancelLaunch(t)
        BY <2>0, <4>2 DEF StartDriver, Launch, LaunchFails, CancelLaunch
      <4>3. CASE NewContext(t) \/ NewPage(t)
        BY <3>0, <4>3 DEF NewContext, NewPage, browserVars, Job, Jobs
      <4>4. CASE \/ BrowserGone(t) \/ Abandon(t) \/ Return(t)
                 \/ CancelContext(t) \/ CancelClose(t) \/ CancelQuietly(t)
        BY <3>0, <4>4 DEF BrowserGone, Abandon, Return, CancelContext, CancelClose, CancelQuietly,
                          browserVars
      <4>5. CASE Load(t) \/ LoadFails(t)
        BY <3>0, <4>5 DEF Load, LoadFails, AfterError, browserVars, Job, Jobs
      <4>6. CASE Close(t)
        BY <3>0, <4>6 DEF Close
      <4>7. CASE ParseHtml(t)
        BY <3>0, <4>7 DEF ParseHtml, browserVars, Job, Jobs
      <4>8. CASE LLMFails(t)
        BY <3>0, <4>8 DEF LLMFails, browserVars, Job, Jobs
      <4>9. CASE \E answer \in {"programs", "empty", "unusable"} : LLMAnswers(t, answer)
        BY <3>0, <4>9 DEF LLMAnswers, browserVars, Job, Jobs
      <4> QED
        BY <2>2, <4>1, <4>2, <4>3, <4>4, <4>5, <4>6, <4>7, <4>8, <4>9 DEF Step, Cancel
    <3> HIDE DEF j
    <3> QED
      BY <2>1, <3>1
  <2>3. ASSUME NEW b \in Browsers, Crash(b) PROVE Wedged'
    BY <2>3 DEF Crash, Wedged
  <2> QED
    BY <2>2, <2>3 DEF Next
<1> QED
  BY <1>1, PluginInvariance, PTL DEF Spec, DeadBrowserIsFinal

-----------------------------------------------------------------------------
(* The line machine of M3USource                                            *)

\* Every nonempty set of natural numbers has a least element: well-foundedness of <, in
\* the form that needs no predicate as a parameter.
LEMMA LeastNat ==
    ASSUME NEW T, T \subseteq Nat, T # {}
    PROVE  \E n \in T : \A m \in T : n <= m
<1> DEFINE R == {p \in Nat \X Nat : p[1] < p[2]}
<1>1. IsWellFoundedOn(R, Nat)
  BY NatLessThanWellFounded DEF OpToRel
<1>2. \E x \in T : \A y \in T : <<y, x>> \notin R
  <2> HIDE DEF R
  <2> QED
    BY <1>1, WFMin
<1>3. PICK x \in T : \A y \in T : <<y, x>> \notin R
  BY <1>2
<1>4. ASSUME NEW y \in T PROVE x <= y
  <2>1. <<y, x>> \notin R /\ x \in Nat /\ y \in Nat
    BY <1>3
  <2> QED
    BY <2>1
<1> QED
  BY <1>4

\* Induction over the natural numbers, for a set instead of a predicate.
LEMMA SetInduction ==
    ASSUME NEW S, 0 \in S, \A n \in Nat : n \in S => n + 1 \in S
    PROVE  Nat \subseteq S
<1> SUFFICES ASSUME Nat \ S # {} PROVE FALSE
  OBVIOUS
<1>1. PICK n \in Nat \ S : \A m \in Nat \ S : n <= m
  BY LeastNat
<1>2. n # 0 /\ n - 1 \in Nat /\ n - 1 \in S
  BY <1>1
<1> QED
  BY <1>1, <1>2

\* One turn of the while loop at line i, with the results of the later lines in g.
Turn(lines, n, g, i) == IF i > n THEN {}
                        ELSE IF lines[i] = "extinf" THEN {i} \cup g[i + 2] ELSE g[i + 1]

\* It looks at no earlier line.
LEMMA TurnLooksAhead ==
    ASSUME NEW lines, NEW n, NEW i, NEW g, NEW h,
           ~(i > n) => g[i + 1] = h[i + 1] /\ g[i + 2] = h[i + 2]
    PROVE  Turn(lines, n, g, i) = Turn(lines, n, h, i)
BY DEF Turn

\* The loop terminates: its recursion defines a function. From the end of the list
\* backwards, m lines at a time.
LEMMA LoopExists ==
    ASSUME NEW lines, NEW n \in Nat
    PROVE  \E g : g = [i \in 1..(n + 2) |-> Turn(lines, n, g, i)]
<1> DEFINE From(m) == (n + 2 - m)..(n + 2)
           Solves(g, m) == g = [i \in From(m) |-> Turn(lines, n, g, i)]
           S == {m \in Nat : m <= n + 1 => \E g : Solves(g, m)}
<1>1. 0 \in S
  <2> DEFINE g == [i \in From(0) |-> {}]
  <2>1. Solves(g, 0)
    BY DEF Turn
  <2> HIDE DEF Solves
  <2> QED
    BY <2>1
<1>2. ASSUME NEW m \in Nat, m \in S PROVE m + 1 \in S
  <2> SUFFICES ASSUME m + 1 <= n + 1 PROVE \E h : Solves(h, m + 1)
    OBVIOUS
  <2>1. PICK g : Solves(g, m)
    BY <1>2
  <2> DEFINE i0 == n + 1 - m
             h == [i \in From(m + 1) |-> IF i = i0 THEN Turn(lines, n, g, i) ELSE g[i]]
  <2>2. \A i \in From(m) : h[i] = g[i] /\ i \in From(m + 1)
    OBVIOUS
  <2>3. ASSUME NEW i \in From(m + 1) PROVE h[i] = Turn(lines, n, h, i)
    <3>1. CASE i = i0
      <4>1. h[i] = Turn(lines, n, g, i)
        BY <3>1
      <4>2. ~(i > n) => i + 1 \in From(m) /\ i + 2 \in From(m)
        BY <3>1
      <4> HIDE DEF h, From
      <4> QED
        BY <2>2, <4>1, <4>2, TurnLooksAhead
    <3>2. CASE i # i0
      <4>1. i \in From(m)
        BY <3>2
      <4>2. h[i] = g[i] /\ g[i] = Turn(lines, n, g, i)
        BY <2>1, <2>2, <4>1
      <4>3. ~(i > n) => i + 1 \in From(m) /\ i + 2 \in From(m)
        BY <4>1
      <4> HIDE DEF h, From
      <4> QED
        BY <2>2, <4>2, <4>3, TurnLooksAhead
    <3> QED
      BY <3>1, <3>2
  <2>4. h = [i \in From(m + 1) |-> h[i]]
    OBVIOUS
  <2>5. Solves(h, m + 1)
    <3> HIDE DEF h
    <3> QED
      BY <2>3, <2>4
  <2> HIDE DEF h, Solves
  <2> QED
    BY <2>5
<1>3. \E g : Solves(g, n + 1)
  <2>1. Nat \subseteq S
    <3> HIDE DEF S
    <3> QED
      BY <1>1, <1>2, SetInduction
  <2> HIDE DEF Solves
  <2> QED
    BY <2>1
<1>4. PICK g : Solves(g, n + 1)
  BY <1>3
<1>5. From(n + 1) = 1..(n + 2)
  OBVIOUS
<1> QED
  BY <1>4, <1>5

\* What Entries computes from: the values of its loop, line by line.
LEMMA LoopEquation ==
    ASSUME NEW lines, NEW n \in Nat, DOMAIN lines = 1..n
    PROVE  \E g : /\ Entries(lines) = g[1]
                  /\ \A i \in 1..(n + 2) : g[i] = Turn(lines, n, g, i)
<1>1. Last(lines) = n
  BY FS_Interval DEF Last
<1> DEFINE Solves(g) == g = [i \in 1..(n + 2) |-> Turn(lines, n, g, i)]
           loop == CHOOSE g : Solves(g)
<1>2. Solves(loop)
  <2>1. \E g : Solves(g)
    BY LoopExists
  <2> HIDE DEF Solves
  <2> QED
    BY <2>1
<1>3. Entries(lines) = loop[1]
  BY <1>1 DEF Entries, Skip, Turn
<1> HIDE DEF loop
<1> QED
  BY <1>2, <1>3

\* The lines from i on whose EXTINFs reach up to line j without a gap, and the lines
\* that are entries when the machine starts at line i.
RunOf(lines, i, j) == {k \in i..(j - 1) : \A l \in k..j : lines[l] = "extinf"}
Even(lines, i, j) == Cardinality(RunOf(lines, i, j)) % 2 = 0
Taken(lines, n, i) == {j \in i..n : lines[j] = "extinf" /\ Even(lines, i, j)}

\* A run is finite: its parity can be counted.
LEMMA RunIsFinite ==
    ASSUME NEW lines, NEW i \in Nat, NEW j \in Nat
    PROVE  IsFiniteSet(RunOf(lines, i, j)) /\ Cardinality(RunOf(lines, i, j)) \in Nat
<1>1. IsFiniteSet(i..(j - 1)) /\ RunOf(lines, i, j) \in SUBSET (i..(j - 1))
  BY FS_Interval DEF RunOf
<1> QED
  BY <1>1, FS_Subset, FS_CardinalityType

\* A line that is no EXTINF belongs to no run.
LEMMA OtherLine ==
    ASSUME NEW lines, NEW i \in Nat, NEW j \in Nat, i < j, lines[i] # "extinf"
    PROVE  RunOf(lines, i, j) = RunOf(lines, i + 1, j)
<1>1. i \notin RunOf(lines, i, j)
  BY DEF RunOf
<1>2. \A k \in Int : k # i => (k \in i..(j - 1) <=> k \in (i + 1)..(j - 1))
  OBVIOUS
<1> QED
  BY <1>1, <1>2 DEF RunOf

\* An EXTINF and the line behind it belong to a run together, or neither does: starting
\* two lines later does not change the parity.
LEMMA PairOfLines ==
    ASSUME NEW lines, NEW i \in Nat, NEW j \in Nat, i + 2 <= j, lines[i] = "extinf"
    PROVE  Even(lines, i, j) <=> Even(lines, i + 2, j)
<1> DEFINE R == RunOf(lines, i, j)
           Q == RunOf(lines, i + 2, j)
<1>1. i \in R <=> i + 1 \in R
  <2>1. i \in R <=> \A l \in i..j : lines[l] = "extinf"
    BY DEF RunOf
  <2>2. i + 1 \in R <=> \A l \in (i + 1)..j : lines[l] = "extinf"
    BY DEF RunOf
  <2>3. \A l \in i..j : l = i \/ l \in (i + 1)..j
    OBVIOUS
  <2>4. \A l \in (i + 1)..j : l \in i..j
    OBVIOUS
  <2> QED
    BY <2>1, <2>2, <2>3, <2>4
<1>2. Q \subseteq R /\ i \notin Q /\ i + 1 \notin Q /\ R \subseteq Q \cup {i, i + 1}
  BY DEF RunOf
<1>3. IsFiniteSet(Q) /\ Cardinality(Q) \in Nat
  BY RunIsFinite
<1> HIDE DEF R, Q
<1>4. CASE i \in R
  <2>1. R = (Q \cup {i}) \cup {i + 1}
    BY <1>1, <1>2, <1>4
  <2> DEFINE P == Q \cup {i}
  <2>2. IsFiniteSet(P) /\ Cardinality(P) = Cardinality(Q) + 1
    BY <1>2, <1>3, FS_AddElement
  <2>p. i + 1 \notin P
    BY <1>2
  <2>3. Cardinality(R) = Cardinality(Q) + 2
    <3> HIDE DEF P
    <3>1. Cardinality(P \cup {i + 1}) = Cardinality(P) + 1
      BY <2>2, <2>p, FS_AddElement
    <3>2. R = P \cup {i + 1}
      BY <2>1 DEF P
    <3> QED
      BY <1>3, <2>2, <3>1, <3>2
  <2>4. Cardinality(R) % 2 = Cardinality(Q) % 2
    BY <1>3, <2>3
  <2> QED
    BY <2>4 DEF Even, R, Q
<1>5. CASE i \notin R
  <2>1. R = Q
    BY <1>1, <1>2, <1>5
  <2> QED
    BY <2>1 DEF Even, R, Q
<1> QED
  BY <1>4, <1>5

\* The definition of the entries obeys the equation of the loop.
LEMMA TakenTurn ==
    ASSUME NEW lines, NEW n \in Nat, NEW i \in 1..(n + 2)
    PROVE  Taken(lines, n, i) = IF i > n THEN {}
                                ELSE IF lines[i] = "extinf" THEN {i} \cup Taken(lines, n, i + 2)
                                     ELSE Taken(lines, n, i + 1)
<1>1. CASE i > n
  BY <1>1 DEF Taken
<1>2. CASE i <= n /\ lines[i] # "extinf"
  <2>1. \A j \in (i + 1)..n : Even(lines, i, j) <=> Even(lines, i + 1, j)
    BY <1>2, OtherLine DEF Even
  <2>2. \A j \in i..n : j = i \/ j \in (i + 1)..n
    OBVIOUS
  <2>3. \A j \in (i + 1)..n : j \in i..n
    OBVIOUS
  <2>4. Taken(lines, n, i) = Taken(lines, n, i + 1)
    BY <1>2, <2>1, <2>2, <2>3 DEF Taken
  <2> QED
    BY <1>2, <2>4
<1>3. CASE i <= n /\ lines[i] = "extinf"
  <2>1. Even(lines, i, i)
    <3>1. RunOf(lines, i, i) = {}
      BY DEF RunOf
    <3> QED
      BY <3>1, FS_EmptySet DEF Even
  <2>2. lines[i + 1] = "extinf" => ~Even(lines, i, i + 1)
    <3> SUFFICES ASSUME lines[i + 1] = "extinf" PROVE ~Even(lines, i, i + 1)
      OBVIOUS
    <3>1. RunOf(lines, i, i + 1) = {i}
      BY <1>3 DEF RunOf
    <3>2. Cardinality(RunOf(lines, i, i + 1)) = 1
      BY <3>1, FS_Singleton
    <3> QED
      BY <3>2 DEF Even
  <2>3. \A j \in (i + 2)..n : Even(lines, i, j) <=> Even(lines, i + 2, j)
    BY <1>3, PairOfLines
  <2>4. \A j \in i..n : j = i \/ j = i + 1 \/ j \in (i + 2)..n
    OBVIOUS
  <2>5. i \in i..n /\ \A j \in (i + 2)..n : j \in i..n
    BY <1>3
  <2>6. Taken(lines, n, i) = {i} \cup Taken(lines, n, i + 2)
    <3> HIDE DEF Even
    <3> QED
      BY <1>3, <2>1, <2>2, <2>3, <2>4, <2>5 DEF Taken
  <2> QED
    BY <1>3, <2>6
<1> QED
  BY <1>1, <1>2, <1>3

\* The while loop of M3USource computes the definition, for every list of lines.
LEMMA EntriesAreTaken ==
    ASSUME NEW lines, NEW n \in Nat, DOMAIN lines = 1..n
    PROVE  Entries(lines) = Taken(lines, n, 1)
<1>1. PICK g : /\ Entries(lines) = g[1]
               /\ \A i \in 1..(n + 2) : g[i] = Turn(lines, n, g, i)
  BY LoopEquation
<1> DEFINE S == {m \in Nat : \A i \in 1..(n + 2) : i >= n + 2 - m => g[i] = Taken(lines, n, i)}
<1>2. 0 \in S
  <2>0. n + 2 \in 1..(n + 2) /\ n + 2 > n
    OBVIOUS
  <2>1. g[n + 2] = Turn(lines, n, g, n + 2)
    BY <1>1, <2>0
  <2>2. g[n + 2] = {}
    BY <2>0, <2>1 DEF Turn
  <2>3. Taken(lines, n, n + 2) = {}
    BY <2>0, TakenTurn
  <2>4. \A i \in 1..(n + 2) : i >= n + 2 - 0 => i = n + 2
    OBVIOUS
  <2> QED
    BY <2>2, <2>3, <2>4
<1>3. ASSUME NEW m \in Nat, m \in S PROVE m + 1 \in S
  <2> SUFFICES ASSUME NEW i \in 1..(n + 2), i >= n + 2 - (m + 1)
               PROVE  g[i] = Taken(lines, n, i)
    OBVIOUS
  <2>1. i <= n => /\ g[i + 1] = Taken(lines, n, i + 1)
                  /\ g[i + 2] = Taken(lines, n, i + 2)
    BY <1>3
  <2>2. g[i] = IF i > n THEN {} ELSE IF lines[i] = "extinf" THEN {i} \cup g[i + 2] ELSE g[i + 1]
    BY <1>1 DEF Turn
  <2> QED
    BY <2>1, <2>2, TakenTurn
<1>4. Nat \subseteq S
  <2> HIDE DEF S
  <2> QED
    BY <1>2, <1>3, SetInduction
<1>5. n + 1 \in S
  <2> HIDE DEF S
  <2>1. n + 1 \in Nat
    OBVIOUS
  <2> QED
    BY <1>4, <2>1
<1>6. 1 \in 1..(n + 2) /\ 1 >= n + 2 - (n + 1)
  OBVIOUS
<1> QED
  BY <1>1, <1>5, <1>6

\* Every playlist: a line is an entry if it is an EXTINF that an even number of EXTINFs
\* directly precedes.  MaxLines bounds the lists TLC enumerates, here it is arbitrary.
THEOREM PlaylistsAreRead == Spec => []M3UEntries
<1>1. PluginInv => M3UEntries
  <2> SUFFICES ASSUME PluginInv, NEW t \in Tasks
               PROVE  LET lines == job[t].lines
                          Run(i) == {j \in 1..(i - 1) : \A k \in j..i : lines[k] = "extinf"}
                      IN Entries(lines) = {i \in DOMAIN lines : /\ lines[i] = "extinf"
                                                                 /\ Cardinality(Run(i)) % 2 = 0}
    BY DEF M3UEntries
  <2> DEFINE lines == job[t].lines
  <2>1. \E n \in Nat : DOMAIN lines = 1..n
    <3>1. lines \in Playlists \cup {<<>>}
      BY DEF PluginInv, PluginType, Job, Jobs
    <3>2. DOMAIN <<>> = 1..0
      OBVIOUS
    <3>3. ASSUME lines \in Playlists PROVE \E n \in Nat : DOMAIN lines = 1..n
      BY <3>3, PluginAssumption DEF Playlists
    <3> QED
      BY <3>1, <3>2, <3>3
  <2>2. PICK n \in Nat : DOMAIN lines = 1..n
    BY <2>1
  <2>3. Entries(lines) = Taken(lines, n, 1)
    BY <2>2, EntriesAreTaken
  <2> QED
    BY <2>2, <2>3 DEF Taken, Even, RunOf
<1> QED
  BY <1>1, PluginInvariance, PTL
=============================================================================

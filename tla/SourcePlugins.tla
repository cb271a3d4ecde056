--------------------------- MODULE SourcePlugins ---------------------------
(***************************************************************************)
(* The source plugins of plugins/ as build_registry (app.py) wires them:   *)
(* html_scrape with its lazily started browser, its parser chain and the   *)
(* LLM router behind it, and m3u with its line parser.                     *)
(*                                                                         *)
(* All scrapes share one PlaywrightFetcher.  fetch() is split at its       *)
(* awaits; between them the tasks interleave and browsers crash, and at    *)
(* every one of them the call may fail or the task be cancelled.  The      *)
(* driver goes on with what a cancelled task has asked for.  Drivers are   *)
(* not counted, only the browsers they launch.                             *)
(*                                                                         *)
(* A page is its outcome; an answer of an LLM is "programs",               *)
(* "empty", or "unusable" for whatever LLMParser cannot read (no JSON, JSON *)
(* of another shape, bad dates).  A playlist is the kinds of its lines.    *)
(***************************************************************************)
EXTENDS Integers, FiniteSets

CONSTANTS Tasks,
          Providers,    \* length of the router's chain, primary and fallbacks
          MaxBrowsers,  \* bound on the browsers launched
          MaxLeaks,     \* bound on the contexts left open, per browser
          MaxLines      \* bound on the lines of a playlist

ASSUME PluginAssumption == /\ Providers \in Nat \ {0} /\ IsFiniteSet(Tasks)
                           /\ {MaxBrowsers, MaxLeaks, MaxLines} \subseteq Nat

Browsers == 1..MaxBrowsers
NoBrowser == 0

VARIABLES browser,   \* self._browser
          launched,  \* browsers launched so far
          alive,     \* browsers that run
          open,      \* per browser: its open contexts
          job,       \* per task: what it is doing
          raced,     \* history: two tasks were in _ensure() at once
          lost,      \* history: browsers whose launch() was cancelled
          orphans    \* history: per browser, contexts that a fetch let go of, failed in
                     \* new_page() or cancelled in new_context(), new_page() or close()

vars == <<browser, launched, alive, open, job, raced, lost, orphans>>
browserVars == <<browser, launched, alive, open, raced, lost, orphans>>

Idle == [at |-> "idle", in |-> NoBrowser, asked |-> 0, found |-> "none", lines |-> <<>>]

Init == /\ browser = NoBrowser /\ launched = 0 /\ alive = {}
        /\ open = [b \in Browsers |-> 0]
        /\ job = [t \in Tasks |-> Idle]
        /\ raced = FALSE /\ lost = {}
        /\ orphans = [b \in Browsers |-> 0]

At(t, where) == job[t].at = where
Becomes(t, j) == job' = [job EXCEPT ![t] = j]
Goes(t, where) == Becomes(t, [job[t] EXCEPT !.at = where])

\* The exception leaves fetch(), and the adapter with it.
Fails(t) == Becomes(t, Idle)

-----------------------------------------------------------------------------
(* PlaywrightFetcher                                                        *)

\* (mutant) a browser that has died is started again
M_Ensured == browser \in alive

Ensured == browser # NoBrowser

\* HTMLScrapeSource.fetch; _ensure() returns at once or awaits the driver.
Scrape(t) ==
    /\ At(t, "idle")
    /\ Becomes(t, IF Ensured THEN [Idle EXCEPT !.at = "context", !.in = browser]
                             ELSE [Idle EXCEPT !.at = "starting"])
    /\ raced' = (raced \/ (~Ensured /\ \E s \in Tasks : job[s].at \in {"starting", "launching"}))
    /\ UNCHANGED <<browser, launched, alive, open, lost, orphans>>

\* async_playwright().start()
StartDriver(t) == At(t, "starting") /\ Goes(t, "launching") /\ UNCHANGED browserVars

\* (mutant) the browser is used but not kept
M_Kept(b) == browser

Kept(b) == b

\* chromium.launch(); new_context is called on it without an await in between.
Launch(t) ==
    /\ At(t, "launching") /\ launched < MaxBrowsers
    /\ launched' = launched + 1
    /\ alive' = alive \cup {launched'}
    /\ browser' = Kept(launched')
    /\ Becomes(t, [job[t] EXCEPT !.at = "context", !.in = launched'])
    /\ UNCHANGED <<open, raced, lost, orphans>>

\* The task is cancelled in launch(): the browser comes up and nobody refers to it.
CancelLaunch(t) ==
    /\ At(t, "launching") /\ launched < MaxBrowsers
    /\ launched' = launched + 1
    /\ alive' = alive \cup {launched'}
    /\ lost' = lost \cup {launched'}
    /\ Fails(t)
    /\ UNCHANGED <<browser, open, raced, orphans>>

\* Driver or browser cannot be started.
LaunchFails(t) == job[t].at \in {"starting", "launching"} /\ Fails(t) /\ UNCHANGED browserVars

\* new_context()
NewContext(t) ==
    /\ At(t, "context") /\ job[t].in \in alive
    /\ open' = [open EXCEPT ![job[t].in] = @ + 1]
    /\ Goes(t, "page")
    /\ UNCHANGED <<browser, launched, alive, raced, lost, orphans>>

\* The task is cancelled in new_context(): the context is opened for nobody.
CancelContext(t) ==
    /\ At(t, "context") /\ job[t].in \in alive /\ orphans[job[t].in] < MaxLeaks
    /\ open' = [open EXCEPT ![job[t].in] = @ + 1]
    /\ orphans' = [orphans EXCEPT ![job[t].in] = @ + 1]
    /\ Fails(t)
    /\ UNCHANGED <<browser, launched, alive, raced, lost>>

\* The browser is gone: every call on it raises, up to the finally clause.
BrowserGone(t) ==
    /\ job[t].at \in {"context", "page", "closing"} /\ job[t].in \notin alive
    /\ Fails(t)
    /\ UNCHANGED browserVars

\* new_page()
NewPage(t) ==
    /\ At(t, "page") /\ job[t].in \in alive
    /\ Goes(t, "loading")
    /\ UNCHANGED browserVars

\* new_page() raises or is cancelled, before the try; or close() does in the finally
\* clause, before the context is closed: it stays open.
Abandon(t) ==
    /\ job[t].at \in {"page", "closing"} /\ job[t].in \in alive /\ orphans[job[t].in] < MaxLeaks
    /\ orphans' = [orphans EXCEPT ![job[t].in] = @ + 1]
    /\ Fails(t)
    /\ UNCHANGED <<browser, launched, alive, open, raced, lost>>

\* goto, wait_for_selector and content, or one of them raises or is cancelled: finally.
Load(t) ==
    /\ At(t, "loading") /\ job[t].in \in alive
    /\ Becomes(t, [job[t] EXCEPT !.at = "closing", !.found = "page"])
    /\ UNCHANGED browserVars

\* (mutant) the context is closed on the good path only
M_AfterError(t) == Idle

AfterError(t) == [job[t] EXCEPT !.at = "closing"]

LoadFails(t) == At(t, "loading") /\ Becomes(t, AfterError(t)) /\ UNCHANGED browserVars

\* ctx.close(); then the page is parsed or the exception goes on.
Close(t) ==
    /\ At(t, "closing") /\ job[t].in \in alive
    /\ open' = [open EXCEPT ![job[t].in] = @ - 1]
    /\ Becomes(t, IF job[t].found = "page" THEN [Idle EXCEPT !.at = "html"] ELSE Idle)
    /\ UNCHANGED <<browser, launched, alive, raced, lost, orphans>>

\* The task is cancelled in close(), and the context is closed all the same.
CancelClose(t) ==
    /\ At(t, "closing") /\ job[t].in \in alive
    /\ open' = [open EXCEPT ![job[t].in] = @ - 1]
    /\ Fails(t)
    /\ UNCHANGED <<browser, launched, alive, raced, lost, orphans>>

\* The task is cancelled where it leaves nothing behind: before the driver has done what
\* it was asked for, or in complete().
CancelQuietly(t) ==
    /\ job[t].at \in {"starting", "launching", "context", "llm"}
    /\ Fails(t)
    /\ UNCHANGED browserVars

\* A browser process dies, and its contexts with it.
Crash(b) ==
    /\ b \in alive
    /\ alive' = alive \ {b}
    /\ open' = [open EXCEPT ![b] = 0]
    /\ orphans' = [orphans EXCEPT ![b] = 0]
    /\ UNCHANGED <<browser, launched, job, raced, lost>>

-----------------------------------------------------------------------------
(* The parser chain [HTMLParser, LLMParser] and the router                  *)

\* HTMLParser: ParseError or no programs, the chain goes on either way.
ParseHtml(t) ==
    /\ At(t, "html")
    /\ Becomes(t, [job[t] EXCEPT !.at = "llm", !.asked = 1])
    /\ UNCHANGED browserVars

Exhausted(t) == job[t].asked = Providers

\* (mutant) after a fallback the primary is asked again
M_NextProvider(t) == IF job[t].asked = 1 THEN 2 ELSE 1

NextProvider(t) == job[t].asked + 1

\* The adapter turns every error into LLMError: the next provider is asked; after
\* the last one LLMParser raises ParseError, which the chain logs: no programs.
LLMFails(t) ==
    /\ At(t, "llm")
    /\ Becomes(t, IF Exhausted(t) THEN [job[t] EXCEPT !.at = "done", !.found = "nothing"]
                                  ELSE [job[t] EXCEPT !.asked = NextProvider(t)])
    /\ UNCHANGED browserVars

\* complete() returns: the router is done, whatever LLMParser makes of the text.
LLMAnswers(t, answer) ==
    /\ At(t, "llm")
    /\ Becomes(t, [job[t] EXCEPT !.at = "done",
                                 !.found = IF answer = "programs" THEN answer ELSE "nothing"])
    /\ UNCHANGED browserVars

-----------------------------------------------------------------------------
(* M3USource                                                                *)

Kinds == {"extinf", "other"}
Playlists == UNION {[1..n -> Kinds] : n \in 0..MaxLines}
Last(lines) == Cardinality(DOMAIN lines)

\* (mutant) the line after an EXTINF is looked at again
M_Skip(i) == i + 1

\* After an EXTINF the next line is its URL, whatever it is.
Skip(i) == i + 2

\* The while loop from line i on: the lines that became entries.
Entries(lines) ==
    LET loop[i \in 1..(Last(lines) + 2)] ==
            IF i > Last(lines) THEN {}
            ELSE IF lines[i] = "extinf" THEN {i} \cup loop[Skip(i)]
                 ELSE loop[i + 1]
    IN loop[1]

\* A playlist has been fetched; one without #EXTM3U raises ParseError.
Playlist(t, lines) ==
    /\ At(t, "idle")
    /\ Becomes(t, [Idle EXCEPT !.at = "m3u", !.lines = lines])
    /\ UNCHANGED browserVars

\* The adapter returns.
Return(t) == job[t].at \in {"done", "m3u"} /\ Becomes(t, Idle) /\ UNCHANGED browserVars

Step(t) == \/ StartDriver(t) \/ Launch(t) \/ LaunchFails(t) \/ NewContext(t) \/ BrowserGone(t)
           \/ NewPage(t) \/ Abandon(t) \/ Load(t) \/ LoadFails(t) \/ Close(t)
           \/ ParseHtml(t) \/ LLMFails(t) \/ Return(t)
           \/ \E answer \in {"programs", "empty", "unusable"} : LLMAnswers(t, answer)

Cancel(t) == CancelLaunch(t) \/ CancelContext(t) \/ CancelClose(t) \/ CancelQuietly(t)

Next == \/ \E t \in Tasks : Step(t) \/ Scrape(t) \/ Cancel(t)
        \/ \E t \in Tasks, lines \in Playlists : Playlist(t, lines)
        \/ \E b \in Browsers : Crash(b)

Spec == Init /\ [][Next]_vars

\* Calls of browser and provider end: launch(), goto(), wait_for_selector() and the calls
\* of the providers by their timeouts, if not otherwise.  start(), new_context(),
\* new_page(), content() and close() have none: that the driver answers them, or the
\* browser dies, is an assumption.
FairSpec == Spec /\ \A t \in Tasks : WF_vars(Step(t))

-----------------------------------------------------------------------------
\* The lazy start keeps one browser: another one that runs without being referred to
\* (and is never closed) needs two first fetches that overlapped in _ensure(), or a
\* fetch that was cancelled in launch().
StrayNeedsRaceOrCancel == ~raced => alive \subseteq {browser} \cup lost

\* Every open context belongs to a fetch that is going to close it, errors and
\* cancellation while the page is loaded included; what is left behind are the contexts
\* of fetches that failed or were cancelled outside the try, or in its finally clause.
ContextsAreClosed ==
    \A b \in alive :
        open[b] = orphans[b] + Cardinality({t \in Tasks : /\ job[t].in = b
                                               /\ job[t].at \in {"page", "loading", "closing"}})

\* A fetcher whose browser has died, with no start under way, never gets a page again:
\* _ensure() only looks at the reference.
Wedged == /\ browser # NoBrowser /\ browser \notin alive
          /\ \A t \in Tasks : job[t].at \notin {"starting", "launching"}
DeadBrowserIsFinal == [][Wedged => Wedged']_vars

\* What the line machine does instead of EveryExtinfIsEntry: a line is an entry if it is
\* an EXTINF and an even number of EXTINFs directly precedes it; each odd one has been
\* taken for the URL of the one before and is dropped.
M3UEntries ==
    \A t \in Tasks : At(t, "m3u") =>
        LET lines == job[t].lines
            Run(i) == {j \in 1..(i - 1) : \A k \in j..i : lines[k] = "extinf"}
        IN Entries(lines) = {i \in DOMAIN lines : /\ lines[i] = "extinf"
                                                   /\ Cardinality(Run(i)) % 2 = 0}

\* What the docstring of M3USource says: every EXTINF becomes a placeholder program.  The
\* code does not do this for an EXTINF directly behind another one.
EveryExtinfIsEntry ==
    \A t \in Tasks : At(t, "m3u") =>
        \A i \in DOMAIN job[t].lines : job[t].lines[i] = "extinf" => i \in Entries(job[t].lines)

\* Every scrape ends, whatever fails on its way.
ScrapeEnds == \A t \in Tasks : ~At(t, "idle") ~> At(t, "idle")
=============================================================================

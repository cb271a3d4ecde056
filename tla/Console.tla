------------------------------- MODULE Console -------------------------------
(***************************************************************************)
(* The browser console, interfaces/web/app.js: tabs, the detail view, the  *)
(* JSON editor, the resource tree and the login, over API calls that are   *)
(* handled and answered in any order.                                      *)
(*                                                                         *)
(* The page has ONE detail view.  The answer of every load and every save  *)
(* renders its own tab there, whichever tab is active by then.             *)
(*                                                                         *)
(* A config is the source it was written for: that is all the properties   *)
(* tell apart.  Only tabs of sources are modelled, the other four kinds    *)
(* are filled from the tree without a call.                                *)
(***************************************************************************)
EXTENDS Integers, Sequences, FiniteSets, SequencesExt

CONSTANTS Sources,    \* source ids
          TabIds,     \* tab objects; one that nothing refers to is used again
          NoTab, Gone, Broken,
          CallIds,    \* bound on the API calls in flight
          Faults      \* calls and answers may be lost, writes refused by the rate limiter

ASSUME ConsoleAssumption ==
    /\ Faults \in BOOLEAN
    /\ {Gone, Broken} \cap Sources = {} /\ NoTab \notin TabIds

VARIABLES tabs,      \* state.tabs
          item,      \* per tab object: itemId
          content,   \* per tab object: config of tab.content, or Gone
          dirty,     \* tab objects with the dirty mark
          active,    \* state.activeTabId
          view,      \* what dom.tabContent shows, and the tab its buttons act on
          tree,      \* state.explorer.sources
          token,     \* state.token: none, or that of an admin
          calls,     \* API calls in flight, by call id
          server,    \* table sources: the config of each source, or Gone
          haste      \* history: "hurried" once the user has acted with calls in
                     \* flight, "strayed" once Ctrl+S went to another tab than
                     \* that of the open editor, else "none"

tabVars == <<tabs, item, content, dirty, active, view>>
vars == <<tabs, item, content, dirty, active, view, tree, token, calls,
          server, haste>>

NoCall == [kind |-> "none", at |-> "none", tab |-> NoTab, source |-> Gone, body |-> Gone]
Blank(mode) == [mode |-> mode, tab |-> NoTab, text |-> Gone, admin |-> FALSE]
Welcome == Blank("welcome")
Loading == Blank("loading")

Init ==
    /\ tabs = <<>>
    /\ item = [t \in TabIds |-> Gone]
    /\ content = [t \in TabIds |-> Gone]
    /\ dirty = {}
    /\ active = NoTab
    /\ view = Welcome
    /\ tree = {}
    /\ token \in {"none", "admin"}     \* from localStorage
    /\ calls = [i \in CallIds |-> NoCall]
    /\ server = [s \in Sources |-> s]
    /\ haste = "none"

-----------------------------------------------------------------------------
(* API calls                                                                *)

Quiet == \A i \in CallIds : calls[i] = NoCall
\* What the user does while calls are in flight.  A bound: the user stops after the
\* first stray Ctrl+S, calls and answers go on.
UserActs == /\ haste # "strayed"
            /\ haste' = IF Quiet THEN haste ELSE "hurried"

\* api(): the call is on its way.  A body that is an object but no FormData is
\* sent as JSON.stringify(body).
Sent(kind, t, s, body) == [kind |-> kind, at |-> "sent", tab |-> t, source |-> s, body |-> body]
Call(i, c) == calls[i] = NoCall /\ calls' = [calls EXCEPT ![i] = c]

\* JSON.stringify of a URLSearchParams is "{}": it has no properties of its own.
Stringified(body) == IF body = "form" THEN "{}" ELSE body

\* GET /sources
ListBody == {s \in Sources : server[s] # Gone}

\* The server handles a call.  A source that is not there is a 404 for GET and PUT, but
\* a 204 for DELETE.  POST /auth/token wants a form: 422 otherwise.
Handled(c) ==
    IF c.kind \in {"load", "save"} /\ server[c.source] = Gone THEN [c EXCEPT !.at = "failed"]
    ELSE CASE c.kind = "load" -> [c EXCEPT !.at = "ok", !.body = server[c.source]]
           [] c.kind = "list" -> [c EXCEPT !.at = "ok", !.body = ListBody]
           [] c.kind = "login" -> [c EXCEPT !.at = IF c.body = "form" THEN "ok" ELSE "failed"]
           [] OTHER -> [c EXCEPT !.at = "ok"]

Handle(i) ==
    /\ calls[i].at = "sent"
    /\ LET c == calls[i] IN
       /\ calls' = [calls EXCEPT ![i] = Handled(c)]
       /\ server' = IF c.kind \in {"save", "delete"} /\ server[c.source] # Gone
                    THEN [server EXCEPT ![c.source] = c.body] ELSE server
    /\ UNCHANGED <<tabVars, tree, token, haste>>

\* The call is lost on the way there, or a write is refused by the limiter (429), and the
\* server has done nothing; or the answer is lost on the way back, and it has.
Lose(i) ==
    /\ calls[i].at \in {"sent", "ok"} /\ Faults
    /\ calls' = [calls EXCEPT ![i].at = "failed"]
    /\ UNCHANGED <<tabVars, tree, token, server, haste>>

Answered(i, kind) == calls[i].kind = kind /\ calls[i].at = "ok"
Ended(i) == calls' = [calls EXCEPT ![i] = NoCall]

-----------------------------------------------------------------------------
(* Tabs                                                                     *)

\* renderTabContent: the detail view now belongs to this tab, with Edit and Save
\* buttons for an admin; an editor that was open there is gone, with its text.
Rendered(t, cont) == IF t = NoTab THEN Welcome
                     ELSE IF cont[t] = Gone THEN Loading
                     ELSE [mode |-> "detail", tab |-> t, text |-> cont[t], admin |-> token = "admin"]

\* (mutant) every click opens another tab
M_TabOf(s) == {}

\* The open tab of a source, if there is one.
TabOf(s) == {t \in Range(tabs) : item[t] = s}

Unused(t) == /\ t \notin Range(tabs) /\ view.tab # t
             /\ \A i \in CallIds : calls[i].tab # t

\* openTab, up to the await in loadTabContent: the view is not touched yet.
Open(i, s, t) ==
    /\ UserActs /\ s \in tree
    /\ IF TabOf(s) # {}
       THEN t \in TabOf(s) /\ UNCHANGED <<tabs, item, content, dirty>>
       ELSE /\ Unused(t)
            /\ tabs' = Append(tabs, t)
            /\ item' = [item EXCEPT ![t] = s]
            /\ content' = [content EXCEPT ![t] = Gone]
            /\ dirty' = dirty \ {t}
    /\ active' = t
    /\ Call(i, Sent("load", t, s, Gone))
    /\ UNCHANGED <<view, tree, token, server>>

\* The rest of loadTabContent and of openTab: the tab is rendered, active or not.
Loaded(i) ==
    /\ Answered(i, "load")
    /\ LET t == calls[i].tab IN
       /\ content' = [content EXCEPT ![t] = calls[i].body]
       /\ view' = Rendered(t, content')
    /\ Ended(i)
    /\ UNCHANGED <<tabs, item, dirty, active, tree, token, server, haste>>

\* loadTabContent catches the error; openTab still renders what the tab has.
LoadFailed(i) ==
    /\ calls[i].kind = "load" /\ calls[i].at = "failed"
    /\ view' = Rendered(calls[i].tab, content)
    /\ Ended(i)
    /\ UNCHANGED <<tabs, item, content, dirty, active, tree, token, server, haste>>

\* The tab that takes the place of the closed one, else the one before it.
Neighbour(rest, n) == IF n <= Len(rest) THEN rest[n]
                      ELSE IF n > 1 THEN rest[n - 1] ELSE NoTab

\* (mutant) the view is left alone when the active tab is closed
M_AfterClose(t, next) == IF active = t THEN view ELSE Rendered(next, content)

AfterClose(t, next) == Rendered(next, content)

\* closeTab; nothing happens for an id that is not open.
CloseTab(t) ==
    IF t \notin Range(tabs) THEN UNCHANGED <<tabs, active, view>>
    ELSE LET n == CHOOSE k \in DOMAIN tabs : tabs[k] = t
             rest == RemoveAt(tabs, n)
             next == IF active = t THEN Neighbour(rest, n) ELSE active
         IN tabs' = rest /\ active' = next /\ view' = AfterClose(t, next)

Close(t) ==
    /\ UserActs /\ t \in Range(tabs)
    /\ CloseTab(t)
    /\ UNCHANGED <<item, content, dirty, tree, token, calls, server>>

\* switchTab
Switch(t) ==
    /\ UserActs /\ t \in Range(tabs)
    /\ active' = t
    /\ view' = Rendered(t, content)
    /\ UNCHANGED <<tabs, item, content, dirty, tree, token, calls, server>>

-----------------------------------------------------------------------------
(* Editing                                                                  *)

HasButtons == view.mode \in {"detail", "edit"}

\* enableJsonEdit: a fresh textarea with the tab's config.
EditJson ==
    /\ UserActs /\ view.admin
    /\ view' = [view EXCEPT !.mode = "edit", !.text = content[view.tab]]
    /\ dirty' = dirty \cup {view.tab}
    /\ UNCHANGED <<tabs, item, content, active, tree, token, calls, server>>

\* The user leaves the text of the editor as no valid JSON, or repairs it.
Type ==
    /\ UserActs /\ view.mode = "edit"
    /\ view' = [view EXCEPT !.text = IF @ = Broken THEN content[view.tab] ELSE Broken]
    /\ UNCHANGED <<tabs, item, content, dirty, active, tree, token, calls, server>>

\* saveSource up to the await: the text of whatever editor the page has, else the
\* tab's own config.
SaveSource(i, t) ==
    LET config == IF view.mode = "edit" THEN view.text ELSE content[t] IN
    /\ token = "admin" /\ config # Broken
    /\ Call(i, Sent("save", t, item[t], config))
    /\ UNCHANGED <<tabVars, tree, token, server>>

\* (mutant) the button saves the active tab
M_ButtonTab == active

\* The tab whose detail the button was rendered with.
ButtonTab == view.tab

SaveButton(i) == UserActs /\ view.admin /\ ButtonTab # NoTab /\ SaveSource(i, ButtonTab)

\* Ctrl+S saves the active tab if it is dirty, whatever tab the editor belongs to.
CtrlS(i) == /\ active # NoTab /\ active \in dirty
            /\ SaveSource(i, active)
            /\ haste # "strayed"
            /\ IF view.mode = "edit" /\ view.tab # active THEN haste' = "strayed" ELSE UserActs

\* The rest of saveSource.
Saved(i) ==
    /\ Answered(i, "save")
    /\ LET t == calls[i].tab IN
       /\ content' = [content EXCEPT ![t] = calls[i].body]
       /\ dirty' = dirty \ {t}
       /\ view' = Rendered(t, content')
    /\ Ended(i)
    /\ UNCHANGED <<tabs, item, active, tree, token, server, haste>>

\* deleteSource, by the button of the view or the menu of the tree; anybody may
\* try, the server refuses it (401) without a token.
Delete(i, s) ==
    /\ UserActs
    /\ s \in tree \/ (HasButtons /\ item[view.tab] = s)
    /\ Call(i, [Sent("delete", NoTab, s, Gone) EXCEPT !.at = IF token = "admin" THEN @ ELSE "failed"])
    /\ UNCHANGED <<tabVars, tree, token, server>>

\* loadExplorer("sources")
Reload(i) == calls' = [calls EXCEPT ![i] = Sent("list", NoTab, Gone, Gone)]

\* The rest of deleteSource: closes the active tab and loads the tree.
Deleted(i) ==
    /\ Answered(i, "delete")
    /\ CloseTab(active)
    /\ Reload(i)
    /\ UNCHANGED <<item, content, dirty, tree, token, server, haste>>

-----------------------------------------------------------------------------
(* Tree and account                                                         *)

\* refreshAll every 30 s, the refresh button, the activity bar: the tree of
\* sources is loaded.  The trees of the other activities are not modelled.
Refresh(i) ==
    /\ calls[i] = NoCall
    /\ Reload(i)
    /\ UNCHANGED <<tabVars, tree, token, server, haste>>

Listed(i) ==
    /\ Answered(i, "list")
    /\ tree' = calls[i].body
    /\ Ended(i)
    /\ UNCHANGED <<tabVars, token, server, haste>>

\* doLogin with the right name and password.
Login(i) ==
    /\ UserActs /\ token = "none"
    /\ Call(i, Sent("login", NoTab, Gone, Stringified("form")))
    /\ UNCHANGED <<tabVars, tree, token, server>>

\* The token is stored and refreshAll runs; or the form shows the error.
LoginEnds(i) ==
    /\ calls[i].kind = "login" /\ calls[i].at # "sent"
    /\ token' = IF calls[i].at = "ok" THEN "admin" ELSE token
    /\ IF calls[i].at = "ok" THEN Reload(i) ELSE Ended(i)
    /\ UNCHANGED <<tabVars, tree, server, haste>>

Logout ==
    /\ UserActs /\ token # "none"
    /\ token' = "none"
    /\ UNCHANGED <<tabVars, tree, calls, server>>

\* A toast.
Failed(i) ==
    /\ calls[i].at = "failed" /\ calls[i].kind \notin {"load", "login"}
    /\ Ended(i)
    /\ UNCHANGED <<tabVars, tree, token, server, haste>>

-----------------------------------------------------------------------------
Answer(i) == \/ Loaded(i) \/ LoadFailed(i) \/ Saved(i) \/ Deleted(i) \/ Listed(i)
             \/ LoginEnds(i) \/ Failed(i)

User(i) == \/ \E s \in Sources, t \in TabIds : Open(i, s, t)
           \/ \E s \in Sources : Delete(i, s)
           \/ SaveButton(i) \/ CtrlS(i) \/ Login(i)

Next ==
    \/ \E i \in CallIds : Handle(i) \/ Lose(i) \/ Answer(i) \/ Refresh(i) \/ User(i)
    \/ \E t \in TabIds : Close(t) \/ Switch(t)
    \/ EditJson \/ Type \/ Logout

Spec == Init /\ [][Next]_vars

-----------------------------------------------------------------------------
\* Through any interleaving of clicks, closes and late answers a source has at
\* most one tab, and the active tab is an open one whenever there is one.
TabsAreSound ==
    /\ \A m, n \in DOMAIN tabs : item[tabs[m]] = item[tabs[n]] => m = n
    /\ IF tabs = <<>> THEN active = NoTab ELSE active \in Range(tabs)

\* Saving writes the config of one source over another's only if Ctrl+S was
\* pressed while the editor of another tab was open: the buttons always save the
\* tab they were rendered with, however late answers move the view.
CrossWriteNeedsCtrlS ==
    haste # "strayed" => \A s \in Sources : server[s] \in {s, Gone}

\* A user who always waits for the answers looks at the active tab: closing,
\* switching, saving and deleting never leave the view on another one.
ShownIsActive ==
    haste = "none" /\ Quiet /\ HasButtons => view.tab = active

\* What the redesign document says of the login panel: user name and password, POST
\* /api/v1/auth/token, the token is stored.  Login() is made with the right ones, so when
\* nothing is lost on the way it is never refused.  The code does not do this: api()
\* sends the form as JSON.
LoginIsAccepted ==
    ~Faults => \A i \in CallIds : calls[i].kind = "login" => calls[i].at # "failed"
=============================================================================

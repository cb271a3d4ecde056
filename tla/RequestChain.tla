---------------------------- MODULE RequestChain ----------------------------
(***************************************************************************)
(* An HTTP request on its way through the service: the three middlewares   *)
(* of app.py, the authentication endpoints and the role check in front of  *)
(* the write endpoints, against a user table that an operator edits.       *)
(*                                                                         *)
(* add_middleware puts the LAST one outermost: ErrorHandler > AccessLog >  *)
(* RequestID > endpoint.  Each awaits the next one, so requests interleave *)
(* at every layer.  HTTPException and validation errors become responses   *)
(* inside the innermost layer; any other exception unwinds through all.    *)
(*                                                                         *)
(* A client has one request at a time and keeps one token, the one it      *)
(* sends and the only one a server needs to look at.  A token is its       *)
(* subject, role and the ticks until it expires; request ids are abstract: *)
(* the id of a request of client c is c.                                   *)
(***************************************************************************)
EXTENDS Integers, Sequences, FiniteSets

CONSTANTS Clients,
          Users,
          Exceptions,   \* classes of the exceptions endpoints raise in this instance
          TTL,          \* access_token_ttl_min, in ticks
          Nothing,      \* no token, no id, no exception
          MaxLeaks      \* bound on the requests cancelled between inc and dec

Roles == {"admin", "user"}
Accounts == [role : Roles, disabled : BOOLEAN]
Tokens == [sub : Users, role : Roles, left : 0..TTL]

ASSUME ChainAssumption == /\ TTL \in Nat \ {0} /\ MaxLeaks \in Nat
                          /\ Nothing \notin Clients \cup Users \cup Accounts \cup Tokens
                          /\ IsFiniteSet(Clients)

VARIABLES user,     \* table users
          held,     \* per client: its token
          req,      \* per client: its request
          gauge,    \* http_inprogress_requests
          leaked,   \* history: requests cancelled between inc and dec
          ever      \* history: roles each user had while enabled

vars == <<user, held, req, gauge, leaked, ever>>

Idle == [at |-> "idle", op |-> "none", name |-> Nothing, read |-> Nothing,
         stateId |-> Nothing, exc |-> Nothing,
         status |-> 0, id |-> Nothing, gives |-> Nothing]

\* _seed_default_users has created the users of the settings, enabled.
Init == /\ user \in [Users -> {a \in Accounts : ~a.disabled}]
        /\ held = [c \in Clients |-> Nothing]
        /\ req = [c \in Clients |-> Idle]
        /\ gauge = 0 /\ leaked = 0
        /\ ever = [u \in Users |-> {user[u].role}]

At(c, where) == req[c].at = where
Goes(c, where) == [req[c] EXCEPT !.at = where]
Becomes(c, r) == req' = [req EXCEPT ![c] = r] /\ UNCHANGED <<user, ever>>
Quiet == UNCHANGED <<held, gauge, leaked>>

-----------------------------------------------------------------------------
(* The way in                                                               *)

\* A client sends a request, with its token if it has one.  ErrorHandlerMiddleware
\* awaits AccessLogMiddleware, which does inc_inprogress() and awaits the next.
Send(c, op, u) ==
    /\ At(c, "idle")
    /\ (op = "login") = (u # Nothing)
    /\ Becomes(c, [Idle EXCEPT !.at = "access", !.op = op, !.name = u])
    /\ gauge' = gauge + 1
    /\ UNCHANGED <<held, leaked>>

\* (mutant) the id is not published to the outer layers
M_Published(c) == Nothing

Published(c) == c

\* RequestIDMiddleware: request.state.request_id, which the layers outside share.
EnterRequestId(c) ==
    /\ At(c, "access")
    /\ Becomes(c, [Goes(c, "handler") EXCEPT !.stateId = Published(c)])
    /\ Quiet

-----------------------------------------------------------------------------
(* The endpoints                                                            *)

\* A response, made by the endpoint or by an exception handler of app.py.
Responds(c, status, token) ==
    /\ Becomes(c, [Goes(c, "inner") EXCEPT !.op = "none", !.name = Nothing, !.read = Nothing,
                                           !.status = status, !.gives = token, !.id = c])
    /\ Quiet

\* (mutant) an expired token is still accepted
M_Valid(t) == t # Nothing

\* jwt.decode: signature and exp.
Valid(t) == t # Nothing /\ t.left > 0

CreateAccessToken(sub, role) == [sub |-> sub, role |-> role, left |-> TTL]

\* POST /auth/token: authenticate reads the user...
ReadUser(c) ==
    /\ At(c, "handler") /\ req[c].op = "login"
    /\ Becomes(c, [Goes(c, "verify") EXCEPT !.read = user[req[c].name]])
    /\ Quiet

Authenticated(account, right) == ~account.disabled /\ right

\* ...and decides on what it has read; right says whether the password verifies.
Login(c, right) ==
    /\ At(c, "verify")
    /\ LET account == req[c].read IN
       IF Authenticated(account, right)
       THEN Responds(c, 200, CreateAccessToken(req[c].name, account.role))
       ELSE Responds(c, 401, Nothing)

\* (mutant) a renewed token gets the stronger role by default
M_Renewed(t) == CreateAccessToken(t.sub, "admin")

Renewed(t) == CreateAccessToken(t.sub, t.role)

\* POST /auth/refresh: the user is not looked at again.
Refresh(c) ==
    /\ At(c, "handler") /\ req[c].op = "refresh"
    /\ IF Valid(held[c]) THEN Responds(c, 200, Renewed(held[c]))
                         ELSE Responds(c, 401, Nothing)

\* require_role(ROLE_ADMIN) in front of the write endpoints: 401, 403...
Refuse(c) ==
    /\ At(c, "handler") /\ req[c].op = "write"
    /\ \/ ~Valid(held[c]) /\ Responds(c, 401, Nothing)
       \/ Valid(held[c]) /\ held[c].role # "admin" /\ Responds(c, 403, Nothing)

Permitted(t) == Valid(t) /\ t.role = "admin"

\* ...or the endpoint, with its limiter, runs; endpoints without a role run at once.
Pass(c) ==
    /\ At(c, "handler")
    /\ \/ req[c].op = "open"
       \/ req[c].op = "write" /\ Permitted(held[c])
    /\ Becomes(c, Goes(c, "endpoint"))
    /\ Quiet

\* What an endpoint answers by itself: 200, 404 for any HTTPException about the request
\* and for validation errors, 503 for those of the admin routes about an application
\* whose lifespan() has not run; and of a write 429, which @limiter.limit raises
\* before the endpoint's body once the client has used up its calls of the minute.
Answers(op) == {200, 404, 503} \cup (IF op = "write" THEN {429} ELSE {})

\* A response, made inside the innermost layer.
Return(c, status) ==
    /\ At(c, "endpoint") /\ status \in Answers(req[c].op)
    /\ Responds(c, status, Nothing)

\* Any other exception leaves the endpoint and RequestIDMiddleware.
Raise(c, e) ==
    /\ At(c, "endpoint")
    /\ Becomes(c, [Goes(c, "raised") EXCEPT !.op = "none", !.exc = e])
    /\ Quiet

-----------------------------------------------------------------------------
(* The way out                                                              *)

\* (mutant) the error path does not decrement
M_Dec(raised) == IF raised THEN gauge ELSE gauge - 1

Dec(raised) == gauge - 1

\* AccessLogMiddleware, normal path: dec (the counters by status are left out).
LeaveAccess(c) ==
    /\ At(c, "inner")
    /\ Becomes(c, Goes(c, "outer"))
    /\ gauge' = Dec(FALSE)
    /\ UNCHANGED <<held, leaked>>

\* AccessLogMiddleware, except Exception: dec, raise.
ReraiseAccess(c) ==
    /\ At(c, "raised")
    /\ Becomes(c, Goes(c, "caught"))
    /\ gauge' = Dec(TRUE)
    /\ UNCHANGED <<held, leaked>>

\* The classes of core/exceptions.py and of Python an exception belongs to.
IsA(e, class) ==
    \/ class = "Exception"
    \/ class = e
    \/ class = "TransientError" /\ e \in {"SourceUnavailableError", "RateLimitError"}
    \/ class = "PermanentError" /\ e \in {"SourceAuthError", "ParseError"}
    \/ class = "TVListBaseError" /\ e \in {"TransientError", "SourceUnavailableError", "RateLimitError",
                                          "PermanentError", "SourceAuthError", "ParseError",
                                          "StorageError", "LLMError", "ConfigurationError"}

\* (mutant) the base class is caught first
M_Clauses == << <<"TVListBaseError", 400>>, <<"TransientError", 503>>, <<"PermanentError", 400>>,
                <<"ValueError", 400>>, <<"PermissionError", 403>>, <<"KeyError", 404>>,
                <<"Exception", 500>> >>

\* The except clauses of ErrorHandlerMiddleware in their order.
Clauses == << <<"TransientError", 503>>, <<"PermanentError", 400>>, <<"TVListBaseError", 400>>,
              <<"ValueError", 400>>, <<"PermissionError", 403>>, <<"KeyError", 404>>,
              <<"Exception", 500>> >>

StatusOf(e) ==
    LET first == CHOOSE i \in DOMAIN Clauses :
                     /\ IsA(e, Clauses[i][1])
                     /\ \A j \in 1..(i - 1) : ~IsA(e, Clauses[j][1])
    IN Clauses[first][2]

\* ErrorHandlerMiddleware: _problem with the id it finds in request.state.
Problem(c) ==
    /\ At(c, "caught")
    /\ Becomes(c, [Goes(c, "outer") EXCEPT !.status = StatusOf(req[c].exc),
                                           !.id = req[c].stateId])
    /\ Quiet

\* The client has the answer, and a token if there is one in it.
Receive(c) ==
    /\ At(c, "outer")
    /\ held' = IF req[c].gives = Nothing THEN held ELSE [held EXCEPT ![c] = req[c].gives]
    /\ Becomes(c, Idle)
    /\ UNCHANGED <<gauge, leaked>>

Counted(c) == req[c].at \in {"access", "handler", "verify", "endpoint", "inner", "raised"}

\* The server cancels the task: CancelledError is no Exception, nothing is caught.
Cancel(c) ==
    /\ ~At(c, "idle")
    /\ Counted(c) => leaked < MaxLeaks
    /\ Becomes(c, Idle)
    /\ leaked' = IF Counted(c) THEN leaked + 1 ELSE leaked
    /\ UNCHANGED <<held, gauge>>

-----------------------------------------------------------------------------
(* The environment                                                          *)

\* An operator edits the table users; no endpoint does.
EditUser(u, account) ==
    /\ user' = [user EXCEPT ![u] = account]
    /\ ever' = IF account.disabled THEN ever
               ELSE [ever EXCEPT ![u] = @ \cup {account.role}]
    /\ UNCHANGED <<held, req, gauge, leaked>>

Aged(t) == IF t = Nothing \/ t.left = 0 THEN t ELSE [t EXCEPT !.left = @ - 1]

Tick ==
    /\ held' = [c \in Clients |-> Aged(held[c])]
    /\ req' = [c \in Clients |-> [req[c] EXCEPT !.gives = Aged(@)]]
    /\ UNCHANGED <<user, gauge, leaked, ever>>

Step(c) == \/ EnterRequestId(c) \/ ReadUser(c) \/ Refresh(c)
           \/ Refuse(c) \/ Pass(c) \/ LeaveAccess(c) \/ ReraiseAccess(c)
           \/ Problem(c) \/ Receive(c)
           \/ \E right \in BOOLEAN : Login(c, right)
           \/ \E status \in {200, 404, 429, 503} : Return(c, status)
           \/ \E e \in Exceptions : Raise(c, e)

Next == \/ \E c \in Clients : Step(c) \/ Cancel(c)
        \/ \E c \in Clients, op \in {"login", "refresh", "write", "open"}, u \in Users \cup {Nothing} : Send(c, op, u)
        \/ \E u \in Users, account \in Accounts : EditUser(u, account)
        \/ Tick

Spec == Init /\ [][Next]_vars

-----------------------------------------------------------------------------
\* "Keep inc and dec paired": the in-progress gauge counts the requests between the
\* two calls of AccessLogMiddleware; errors and refusals never unbalance it, and
\* it is too high by exactly the requests that were cancelled there.
GaugeIsPaired == gauge = Cardinality({c \in Clients : Counted(c)}) + leaked

\* An exception that reaches ErrorHandlerMiddleware is answered with "try again" (503)
\* if and only if it is transient, and no error of the domain surfaces as 500: the
\* order of the except clauses.
RetryIsTransient ==
    \A c \in Clients : At(c, "outer") /\ req[c].exc # Nothing =>
        /\ req[c].status = 503 <=> IsA(req[c].exc, "TransientError")
        /\ req[c].status = 500 => ~IsA(req[c].exc, "TVListBaseError")

\* Every answer carries the id of its request, also the error answers of the layer
\* that runs before the id exists.
AnswerNamesRequest == \A c \in Clients : At(c, "outer") => req[c].id = c

\* Who gets past require_role(ROLE_ADMIN) is, or once was, an enabled admin in the
\* table: no chain of logins and refreshes makes a role of its own.
AdminWasAdmin ==
    \A c \in Clients : At(c, "endpoint") /\ req[c].op = "write" =>
        "admin" \in ever[held[c].sub]

\* A user has a way in: a live token, kept by a client or in an answer, or
\* a login that has read the user as enabled.
TokensOf(c) == {held[c], req[c].gives} \ {Nothing}
HasWayIn(u) == \E c \in Clients :
    \/ \E t \in TokensOf(c) : t.sub = u /\ t.left > 0
    \/ At(c, "verify") /\ req[c].name = u /\ ~req[c].read.disabled

Promise == INSTANCE Lockout WITH barred <- {u \in Users : user[u].disabled},
                                 inside <- {u \in Users : HasWayIn(u)}

\* A disabled user without a live token stays out: no login racing with the
\* operator, no refresh and no late answer lets the user in again.
LockoutHolds == Promise!Spec
=============================================================================

------------------------- MODULE RequestChainProofs -------------------------
(***************************************************************************)
(* Safety of the middleware chain and of the tokens, for every number of   *)
(* clients and users, every life time of tokens and every set of           *)
(* exceptions; and that the service implements the abstract Lockout.       *)
(***************************************************************************)
EXTENDS RequestChain, FiniteSetTheorems, TLAPS

Places == {"idle", "access", "handler", "verify", "endpoint", "inner", "raised", "caught", "outer"}
Requests == [at : Places, op : {"none", "login", "refresh", "write", "open"},
             name : Users \cup {Nothing}, read : Accounts \cup {Nothing},
             stateId : Clients \cup {Nothing}, exc : Exceptions \cup {Nothing},
             status : Nat, id : Clients \cup {Nothing}, gives : Tokens \cup {Nothing}]

ChainType == /\ user \in [Users -> Accounts]
             /\ held \in [Clients -> Tokens \cup {Nothing}]
             /\ req \in [Clients -> Requests]
             /\ gauge \in Int /\ leaked \in Nat
             /\ ever \in [Users -> SUBSET Roles]

\* What makes the properties inductive: every token, and every login about to get one,
\* has a role that its user had; who is past the role check still holds the token
\* that got through it; the id of a request is published before anything can fail.
TokensAreEarned(c) ==
    /\ held[c] # Nothing => held[c].role \in ever[held[c].sub]
    /\ req[c].gives # Nothing => req[c].gives.role \in ever[req[c].gives.sub]
LoginIsOfUser(c) ==
    /\ req[c].op = "login" => req[c].name \in Users
    /\ At(c, "verify") => /\ req[c].name \in Users /\ req[c].read \in Accounts
                          /\ ~req[c].read.disabled => req[c].read.role \in ever[req[c].name]
WriterIsAdmin(c) ==
    At(c, "endpoint") /\ req[c].op = "write" => held[c] # Nothing /\ held[c].role = "admin"
IdIsPublished(c) ==
    /\ req[c].at \in {"handler", "verify", "endpoint", "raised", "caught"} => req[c].stateId = c
    /\ req[c].at \in {"inner", "outer"} => req[c].id = c
Good(c) == TokensAreEarned(c) /\ LoginIsOfUser(c) /\ WriterIsAdmin(c) /\ IdIsPublished(c)

ChainInv == /\ ChainType
            /\ \A u \in Users : ~user[u].disabled => user[u].role \in ever[u]
            /\ \A c \in Clients : Good(c)

\* The invariant holds when the users have been seeded.
LEMMA ChainInitially == Init => ChainInv
<1> SUFFICES ASSUME Init PROVE ChainInv
  OBVIOUS
<1>1. Idle \in Requests /\ Idle.at = "idle" /\ Idle.op = "none" /\ Idle.gives = Nothing
  BY DEF Idle, Requests, Places
<1>2. ChainType
  BY <1>1 DEF Init, ChainType, Accounts
<1> QED
  BY <1>1, <1>2 DEF Init, ChainInv, Good, TokensAreEarned, LoginIsOfUser, WriterIsAdmin,
                    IdIsPublished, At

\* A step of one client that keeps the table leaves the others as they are.
LEMMA Frame ==
    ASSUME ChainInv, NEW c \in Clients, NEW r \in Requests,
           Becomes(c, r), held' \in [Clients -> Tokens \cup {Nothing}],
           \A d \in Clients \ {c} : held'[d] = held[d],
           gauge' \in Int, leaked' \in Nat,
           Good(c)'
    PROVE  ChainInv'
<1>1. ChainType' /\ UNCHANGED <<user, ever>>
  BY DEF ChainInv, ChainType, Becomes
<1>2. \A d \in Clients \ {c} : req'[d] = req[d]
  BY DEF ChainInv, ChainType, Becomes
<1>3. \A d \in Clients \ {c} : Good(d)'
  BY <1>1, <1>2 DEF ChainInv, Good, TokensAreEarned, LoginIsOfUser, WriterIsAdmin,
                    IdIsPublished, At
<1> QED
  BY <1>1, <1>3 DEF ChainInv

\* The request after RequestIDMiddleware.
LEMMA EnteredType ==
    ASSUME NEW q \in Requests, NEW c \in Clients
    PROVE  /\ [[q EXCEPT !.at = "handler"] EXCEPT !.stateId = c] \in Requests
           /\ [[q EXCEPT !.at = "handler"] EXCEPT !.stateId = c]
              = [q EXCEPT !.at = "handler", !.stateId = c]
BY DEF Requests, Places

\* A login that has read its user.
LEMMA ReadType ==
    ASSUME NEW q \in Requests, NEW a \in Accounts
    PROVE  LET r == [[q EXCEPT !.at = "verify"] EXCEPT !.read = a]
           IN r \in Requests /\ r = [q EXCEPT !.at = "verify", !.read = a]
BY DEF Requests, Places

\* An exception on its way out.
LEMMA RaisedType ==
    ASSUME NEW q \in Requests, NEW e \in Exceptions
    PROVE  LET r == [[q EXCEPT !.at = "raised"] EXCEPT !.op = "none", !.exc = e]
           IN r \in Requests /\ r = [q EXCEPT !.at = "raised", !.op = "none", !.exc = e]
BY DEF Requests, Places

\* The answer ErrorHandlerMiddleware makes of it.
LEMMA ProblemType ==
    ASSUME NEW q \in Requests, NEW s \in Nat
    PROVE  LET r == [[q EXCEPT !.at = "outer"] EXCEPT !.status = s, !.id = q.stateId]
           IN /\ r \in Requests /\ r.at = "outer" /\ r.op = q.op /\ r.name = q.name
              /\ r.gives = q.gives /\ r.id = q.stateId
BY DEF Requests, Places

\* The token of an answer grows older.
LEMMA AgedType ==
    ASSUME NEW q \in Requests, NEW t \in Tokens \cup {Nothing}
    PROVE  LET r == [q EXCEPT !.gives = t]
           IN /\ r \in Requests
              /\ r.at = q.at /\ r.op = q.op /\ r.name = q.name /\ r.read = q.read
              /\ r.stateId = q.stateId /\ r.id = q.id /\ r.gives = t
BY DEF Requests, Places

\* Some clause matches every exception, the last one if no other.
LEMMA StatusIsNat == \A e : StatusOf(e) \in Nat
<1> SUFFICES ASSUME NEW e PROVE StatusOf(e) \in Nat
  OBVIOUS
<1> DEFINE P(i) == IsA(e, Clauses[i][1]) /\ \A j \in 1..(i - 1) : ~IsA(e, Clauses[j][1])
<1>1. DOMAIN Clauses = 1..7 /\ IsA(e, Clauses[7][1])
  BY DEF Clauses, IsA
<1>2. \A i \in 1..7 : Clauses[i][2] \in Nat
  BY DEF Clauses
<1>3. \E i \in DOMAIN Clauses : P(i)
  BY <1>1, SMTT(30)
<1>4. (CHOOSE i \in DOMAIN Clauses : P(i)) \in 1..7
  BY <1>1, <1>3
<1> QED
  BY <1>2, <1>4 DEF StatusOf

\* One step per action; only the client that moves, or the table, changes.
LEMMA ChainStep == ChainInv /\ [Next]_vars => ChainInv'
<1> SUFFICES ASSUME ChainInv, [Next]_vars PROVE ChainInv'
  OBVIOUS
<1> USE ChainAssumption
<1>0. \A c \in Clients : req[c] \in Requests
  BY DEF ChainInv, ChainType
<1> USE DEF Good, TokensAreEarned, LoginIsOfUser, WriterIsAdmin, IdIsPublished, At
<1>1. ASSUME NEW c \in Clients, NEW op \in {"login", "refresh", "write", "open"},
             NEW u \in Users \cup {Nothing}, Send(c, op, u)
      PROVE  ChainInv'
  <2> DEFINE r == [Idle EXCEPT !.at = "access", !.op = op, !.name = u]
  <2>1. r \in Requests /\ r.at = "access" /\ r.op = op /\ r.name = u /\ r.gives = Nothing
    BY DEF Idle, Requests, Places
  <2>2. Becomes(c, r) /\ UNCHANGED <<held, leaked>> /\ gauge' = gauge + 1 /\ (op = "login" => u # Nothing)
    BY <1>1 DEF Send
  <2> HIDE DEF r
  <2>3. req'[c] = r /\ UNCHANGED ever
    BY <2>2 DEF Becomes, ChainInv, ChainType
  <2>4. Good(c)'
    BY <2>1, <2>2, <2>3 DEF ChainInv, ChainType
  <2> QED
    BY <2>1, <2>2, <2>4, Frame DEF ChainInv, ChainType
<1>2. ASSUME NEW c \in Clients, EnterRequestId(c) PROVE ChainInv'
  <2> DEFINE r == [Goes(c, "handler") EXCEPT !.stateId = Published(c)]
  <2>1. r \in Requests /\ r = [req[c] EXCEPT !.at = "handler", !.stateId = c]
    BY <1>0, EnteredType DEF Goes, Published
  <2>2. Becomes(c, r) /\ UNCHANGED <<held, gauge, leaked>> /\ req[c].at = "access"
    BY <1>2 DEF EnterRequestId, Quiet
  <2> HIDE DEF r
  <2>3. req'[c] = r /\ UNCHANGED ever
    BY <2>2 DEF Becomes, ChainInv, ChainType
  <2>4. Good(c)'
    BY <2>1, <2>2, <2>3 DEF ChainInv, ChainType, Requests
  <2> QED
    BY <2>1, <2>2, <2>4, Frame DEF ChainInv, ChainType
<1>3. ASSUME NEW c \in Clients, NEW status \in Nat, NEW token \in Tokens \cup {Nothing},
             Responds(c, status, token),
             token # Nothing => token.role \in ever[token.sub]
      PROVE  ChainInv'
  <2> DEFINE r == [Goes(c, "inner") EXCEPT !.op = "none", !.name = Nothing, !.read = Nothing,
                                           !.status = status, !.gives = token, !.id = c]
  <2>1. r \in Requests /\ r.at = "inner" /\ r.op = "none" /\ r.id = c /\ r.gives = token
    <3> DEFINE q == req[c]
    <3>1. q \in Requests
      BY <1>0
    <3> HIDE DEF q
    <3>2. LET s == [[q EXCEPT !.at = "inner"] EXCEPT !.op = "none", !.name = Nothing, !.read = Nothing,
                              !.status = status, !.gives = token, !.id = c]
          IN s \in Requests /\ s.at = "inner" /\ s.op = "none" /\ s.id = c /\ s.gives = token
      BY <3>1, <1>3 DEF Requests, Places
    <3> QED
      BY <3>2 DEF q, Goes
  <2>2. Becomes(c, r) /\ UNCHANGED <<held, gauge, leaked>>
    BY <1>3 DEF Responds, Quiet
  <2> HIDE DEF r
  <2>3. req'[c] = r /\ UNCHANGED ever
    BY <2>2 DEF Becomes, ChainInv, ChainType
  <2>4. Good(c)'
    BY <1>3, <2>1, <2>2, <2>3 DEF ChainInv, ChainType
  <2> QED
    BY <2>1, <2>2, <2>4, Frame DEF ChainInv, ChainType
<1>4. ASSUME NEW c \in Clients, ReadUser(c) PROVE ChainInv'
  <2> DEFINE r == [Goes(c, "verify") EXCEPT !.read = user[req[c].name]]
  <2>1. /\ req[c].at = "handler" /\ req[c].op = "login" /\ req[c].name \in Users
        /\ Becomes(c, r) /\ UNCHANGED <<held, gauge, leaked>>
    BY <1>4 DEF ReadUser, Quiet, ChainInv
  <2>2. r \in Requests /\ r = [req[c] EXCEPT !.at = "verify", !.read = user[req[c].name]]
    <3>1. user[req[c].name] \in Accounts
      BY <2>1 DEF ChainInv, ChainType
    <3> QED
      BY <1>0, <3>1, ReadType DEF Goes
  <2> HIDE DEF r
  <2>3. req'[c] = r /\ UNCHANGED ever
    BY <2>1 DEF Becomes, ChainInv, ChainType
  <2>4. Good(c)'
    BY <2>1, <2>2, <2>3 DEF ChainInv, ChainType, Requests
  <2> QED
    BY <2>1, <2>2, <2>4, Frame DEF ChainInv, ChainType
<1>5. ASSUME NEW c \in Clients, NEW right \in BOOLEAN, Login(c, right) PROVE ChainInv'
  <2>1. /\ req[c].name \in Users /\ req[c].read \in Accounts
        /\ ~req[c].read.disabled => req[c].read.role \in ever[req[c].name]
    BY <1>5 DEF Login, ChainInv
  <2> DEFINE t == CreateAccessToken(req[c].name, req[c].read.role)
  <2>2. t \in Tokens /\ t.sub = req[c].name /\ t.role = req[c].read.role
    BY <2>1 DEF CreateAccessToken, Tokens, Accounts
  <2>3. (~req[c].read.disabled /\ Responds(c, 200, t)) \/ Responds(c, 401, Nothing)
    BY <1>5 DEF Login, Authenticated
  <2> HIDE DEF t
  <2> QED
    BY <1>3, <2>1, <2>2, <2>3
<1>6. ASSUME NEW c \in Clients, Refresh(c) PROVE ChainInv'
  <2>1. CASE Valid(held[c])
    <3>1. held[c] \in Tokens /\ held[c].role \in ever[held[c].sub]
      BY <2>1 DEF ChainInv, ChainType, Valid
    <3> DEFINE t == Renewed(held[c])
    <3>2. t \in Tokens /\ t.sub = held[c].sub /\ t.role = held[c].role
      BY <3>1 DEF Renewed, CreateAccessToken, Tokens
    <3>3. Responds(c, 200, t)
      BY <1>6, <2>1 DEF Refresh
    <3> HIDE DEF t
    <3> QED
      BY <1>3, <3>1, <3>2, <3>3
  <2>2. CASE ~Valid(held[c])
    <3>1. Responds(c, 401, Nothing)
      BY <1>6, <2>2 DEF Refresh
    <3> QED
      BY <1>3, <3>1
  <2> QED
    BY <2>1, <2>2
<1>7. ASSUME NEW c \in Clients, Refuse(c) PROVE ChainInv'
  <2>1. Responds(c, 401, Nothing) \/ Responds(c, 403, Nothing)
    BY <1>7 DEF Refuse
  <2> QED
    BY <1>3, <2>1
<1>8. ASSUME NEW c \in Clients, NEW status \in {200, 404, 429, 503}, Return(c, status) PROVE ChainInv'
  <2>1. Responds(c, status, Nothing)
    BY <1>8 DEF Return
  <2> QED
    BY <1>3, <2>1
<1>9. ASSUME NEW c \in Clients, Pass(c) PROVE ChainInv'
  <2> DEFINE r == Goes(c, "endpoint")
  <2>1. /\ req[c].at = "handler" /\ (req[c].op = "open" \/ Permitted(held[c]))
        /\ Becomes(c, r) /\ UNCHANGED <<held, gauge, leaked>>
    BY <1>9 DEF Pass, Quiet
  <2>2. r \in Requests /\ r = [req[c] EXCEPT !.at = "endpoint"]
    BY DEF ChainInv, ChainType, Goes, Requests, Places
  <2> HIDE DEF r
  <2>3. req'[c] = r /\ UNCHANGED ever
    BY <2>1 DEF Becomes, ChainInv, ChainType
  <2>4. Good(c)'
    BY <2>1, <2>2, <2>3 DEF ChainInv, ChainType, Requests, Permitted, Valid
  <2> QED
    BY <2>1, <2>2, <2>4, Frame DEF ChainInv, ChainType
<1>10. ASSUME NEW c \in Clients, NEW e \in Exceptions, Raise(c, e) PROVE ChainInv'
  <2> DEFINE r == [Goes(c, "raised") EXCEPT !.op = "none", !.exc = e]
  <2>1. req[c].at = "endpoint" /\ Becomes(c, r) /\ UNCHANGED <<held, gauge, leaked>>
    BY <1>10 DEF Raise, Quiet
  <2>2. r \in Requests /\ r = [req[c] EXCEPT !.at = "raised", !.op = "none", !.exc = e]
    BY <1>0, RaisedType DEF Goes
  <2> HIDE DEF r
  <2>3. req'[c] = r /\ UNCHANGED ever
    BY <2>1 DEF Becomes, ChainInv, ChainType
  <2>4. Good(c)'
    BY <2>1, <2>2, <2>3 DEF ChainInv, ChainType, Requests
  <2> QED
    BY <2>1, <2>2, <2>4, Frame DEF ChainInv, ChainType
<1>11. ASSUME NEW c \in Clients, NEW from, NEW to,
              <<from, to>> \in {<<"inner", "outer">>, <<"raised", "caught">>},
              At(c, from), Becomes(c, Goes(c, to)), gauge' = gauge - 1, UNCHANGED <<held, leaked>>
       PROVE  ChainInv'
  <2> DEFINE r == Goes(c, to)
  <2>1. r \in Requests /\ r = [req[c] EXCEPT !.at = to]
    BY <1>11 DEF ChainInv, ChainType, Goes, Requests, Places
  <2> HIDE DEF r
  <2>2. req'[c] = r /\ UNCHANGED ever
    BY <1>11 DEF Becomes, ChainInv, ChainType, r
  <2>3. Good(c)'
    BY <1>11, <2>1, <2>2 DEF ChainInv, ChainType, Requests
  <2>4. Becomes(c, r)
    BY <1>11 DEF r
  <2> QED
    BY <1>11, <2>1, <2>3, <2>4, Frame DEF ChainInv, ChainType
<1>12. ASSUME NEW c \in Clients, LeaveAccess(c) \/ ReraiseAccess(c) PROVE ChainInv'
  BY <1>11, <1>12 DEF LeaveAccess, ReraiseAccess, Dec
<1>13. ASSUME NEW c \in Clients, Problem(c) PROVE ChainInv'
  <2> DEFINE r == [Goes(c, "outer") EXCEPT !.status = StatusOf(req[c].exc), !.id = req[c].stateId]
  <2>1. req[c].at = "caught" /\ Becomes(c, r) /\ UNCHANGED <<held, gauge, leaked>>
    BY <1>13 DEF Problem, Quiet
  <2>2. StatusOf(req[c].exc) \in Nat
    BY StatusIsNat
  <2>3. r \in Requests /\ r.at = "outer" /\ r.op = req[c].op /\ r.name = req[c].name
        /\ r.gives = req[c].gives /\ r.id = req[c].stateId
    BY <1>0, <2>2, ProblemType DEF Goes
  <2> HIDE DEF r
  <2>4. req'[c] = r /\ UNCHANGED ever
    BY <2>1 DEF Becomes, ChainInv, ChainType
  <2>5. Good(c)'
    BY <2>1, <2>3, <2>4 DEF ChainInv, ChainType
  <2> QED
    BY <2>1, <2>3, <2>5, Frame DEF ChainInv, ChainType
<1>14. ASSUME NEW c \in Clients, Receive(c) \/ Cancel(c) PROVE ChainInv'
  <2>1. Idle \in Requests /\ Idle.at = "idle" /\ Idle.op = "none" /\ Idle.gives = Nothing
    BY DEF Idle, Requests, Places
  <2>2. Becomes(c, Idle) /\ gauge' \in Int /\ leaked' \in Nat
    BY <1>14 DEF Receive, Cancel, ChainInv, ChainType
  <2>3. req'[c] = Idle /\ UNCHANGED ever
    BY <2>2 DEF Becomes, ChainInv, ChainType
  <2>4. /\ held' \in [Clients -> Tokens \cup {Nothing}]
        /\ \A d \in Clients \ {c} : held'[d] = held[d]
        /\ held'[c] \in {held[c], req[c].gives}
    BY <1>14 DEF Receive, Cancel, ChainInv, ChainType, Requests
  <2>5. Good(c)'
    BY <2>1, <2>3, <2>4 DEF ChainInv
  <2> QED
    BY <2>1, <2>2, <2>4, <2>5, Frame
\* The operator only adds to the roles a user has had.
<1>15. ASSUME NEW u \in Users, NEW account \in Accounts, EditUser(u, account) PROVE ChainInv'
  <2>1. \A v \in Users : ever[v] \subseteq ever'[v]
    BY <1>15 DEF EditUser, ChainInv, ChainType
  <2>2. ChainType'
    BY <1>15 DEF EditUser, ChainInv, ChainType, Accounts
  <2>3. \A v \in Users : ~user'[v].disabled => user'[v].role \in ever'[v]
    BY <1>15 DEF EditUser, ChainInv, ChainType, Accounts
  <2>4. \A c \in Clients : Good(c)'
    <3> SUFFICES ASSUME NEW c \in Clients PROVE Good(c)'
      OBVIOUS
    <3>1. UNCHANGED <<held, req>>
      BY <1>15 DEF EditUser
    <3> QED
      BY <2>1, <3>1 DEF ChainInv, ChainType, Tokens, Requests
  <2> QED
    BY <2>2, <2>3, <2>4 DEF ChainInv
\* Ageing keeps the subject and the role of a token.
<1>16. CASE Tick
  <2>1. \A t \in Tokens \cup {Nothing} :
          /\ Aged(t) \in Tokens \cup {Nothing}
          /\ Aged(t) = Nothing <=> t = Nothing
          /\ t # Nothing => Aged(t).sub = t.sub /\ Aged(t).role = t.role
    BY DEF Aged, Tokens
  <2> HIDE DEF Aged
  <2>2. UNCHANGED <<user, gauge, leaked, ever>>
    BY <1>16 DEF Tick
  <2>3. \A c \in Clients : /\ held'[c] = Aged(held[c])
                           /\ req'[c] = [req[c] EXCEPT !.gives = Aged(req[c].gives)]
    BY <1>16 DEF Tick
  <2>4. \A c \in Clients : req[c].gives \in Tokens \cup {Nothing} /\ held[c] \in Tokens \cup {Nothing}
    BY <1>0 DEF ChainInv, ChainType, Requests
  <2>5. ASSUME NEW c \in Clients
        PROVE  /\ req'[c] \in Requests
               /\ req'[c].at = req[c].at /\ req'[c].op = req[c].op /\ req'[c].name = req[c].name
               /\ req'[c].read = req[c].read /\ req'[c].stateId = req[c].stateId
               /\ req'[c].id = req[c].id /\ req'[c].gives = Aged(req[c].gives)
    <3> DEFINE t == Aged(req[c].gives)
    <3>1. t \in Tokens \cup {Nothing} /\ req'[c] = [req[c] EXCEPT !.gives = t] /\ req[c] \in Requests
      BY <1>0, <2>1, <2>3, <2>4
    <3> HIDE DEF t
    <3>2. LET r == [req[c] EXCEPT !.gives = t]
          IN /\ r \in Requests
             /\ r.at = req[c].at /\ r.op = req[c].op /\ r.name = req[c].name /\ r.read = req[c].read
             /\ r.stateId = req[c].stateId /\ r.id = req[c].id /\ r.gives = t
      BY <3>1, AgedType
    <3> QED
      BY <3>1, <3>2 DEF t
  <2>6. ChainType'
    BY <1>16, <2>1, <2>2, <2>4, <2>5 DEF Tick, ChainInv, ChainType
  <2>7. ASSUME NEW c \in Clients PROVE Good(c)'
    <3>2. /\ held'[c] = Aged(held[c]) /\ UNCHANGED ever
          /\ held[c] \in Tokens \cup {Nothing} /\ req[c].gives \in Tokens \cup {Nothing}
      BY <2>2, <2>3, <2>4
    <3> HIDE DEF Good
    <3>3. Good(c)
      BY DEF ChainInv
    <3> QED
      BY <2>1, <2>5, <3>2, <3>3 DEF Good
  <2> QED
    BY <2>2, <2>6, <2>7 DEF ChainInv
<1>17. CASE UNCHANGED vars
  BY <1>17 DEF vars, ChainInv, ChainType
<1> QED
  BY <1>1, <1>2, <1>4, <1>5, <1>6, <1>7, <1>8, <1>9, <1>10, <1>12, <1>13, <1>14, <1>15, <1>16, <1>17
  DEF Next, Step

\* The inductive invariant of the chain.
THEOREM ChainInvariance == Spec => []ChainInv
BY ChainInitially, ChainStep, PTL DEF Spec

-----------------------------------------------------------------------------
\* The role check: whoever is past require_role(ROLE_ADMIN) was an enabled admin of the
\* table at some time.
THEOREM AdminSafe == Spec => []AdminWasAdmin
<1>1. ChainInv => AdminWasAdmin
  BY DEF ChainInv, Good, TokensAreEarned, WriterIsAdmin, At, AdminWasAdmin
<1> QED
  BY <1>1, ChainInvariance, PTL

\* Every answer, error answers of the outermost layer included, has its request's id.
THEOREM AnswersAreNamed == Spec => []AnswerNamesRequest
<1>1. ChainInv => AnswerNamesRequest
  BY DEF ChainInv, Good, IdIsPublished, At, AnswerNamesRequest
<1> QED
  BY <1>1, ChainInvariance, PTL

-----------------------------------------------------------------------------
\* The clauses for an exception: the first that matches decides, the last matches all.
LEMMA FirstClause ==
    ASSUME NEW e
    PROVE  /\ StatusOf(e) = 503 <=> IsA(e, "TransientError")
           /\ StatusOf(e) = 500 => ~IsA(e, "TVListBaseError")
<1> DEFINE Fits(i) == /\ IsA(e, Clauses[i][1])
                      /\ \A j \in 1..(i - 1) : ~IsA(e, Clauses[j][1])
           first == CHOOSE i \in DOMAIN Clauses : Fits(i)
<1>1. DOMAIN Clauses = 1..7 /\ IsA(e, Clauses[7][1])
  BY DEF Clauses, IsA
<1>2. \E i \in 1..7 : Fits(i)
  <2> DEFINE Holds(i) == IsA(e, Clauses[i][1])
  <2> HIDE DEF Holds
  <2>1. \E i \in 1..7 : Holds(i) /\ \A j \in 1..(i - 1) : ~Holds(j)
    <3>1. Holds(7)
      BY <1>1 DEF Holds
    <3>2. CASE Holds(1)
      BY <3>2
    <3>3. CASE ~Holds(1) /\ Holds(2)
      BY <3>3
    <3>4. CASE ~Holds(1) /\ ~Holds(2) /\ Holds(3)
      BY <3>4
    <3>5. CASE ~Holds(1) /\ ~Holds(2) /\ ~Holds(3) /\ Holds(4)
      BY <3>5
    <3>6. CASE ~Holds(1) /\ ~Holds(2) /\ ~Holds(3) /\ ~Holds(4) /\ Holds(5)
      BY <3>6
    <3>7. CASE ~Holds(1) /\ ~Holds(2) /\ ~Holds(3) /\ ~Holds(4) /\ ~Holds(5) /\ Holds(6)
      BY <3>7
    <3>8. CASE ~Holds(1) /\ ~Holds(2) /\ ~Holds(3) /\ ~Holds(4) /\ ~Holds(5) /\ ~Holds(6)
      BY <3>1, <3>8
    <3> QED
      BY <3>2, <3>3, <3>4, <3>5, <3>6, <3>7, <3>8
  <2> QED
    BY <2>1 DEF Holds
<1>3. first \in 1..7 /\ Fits(first)
  BY <1>1, <1>2
<1>4. StatusOf(e) = Clauses[first][2]
  BY DEF StatusOf
<1> HIDE DEF first
<1>5. IsA(e, "TransientError") => first = 1
  BY <1>3 DEF Clauses
<1>6. first = 1 <=> Clauses[first][2] = 503
  BY <1>3 DEF Clauses
<1>7. first = 1 => IsA(e, "TransientError")
  BY <1>3 DEF Clauses
<1>8. Clauses[first][2] = 500 => first = 7
  BY <1>3 DEF Clauses
<1>9. first = 7 => ~IsA(e, "TVListBaseError")
  BY <1>3 DEF Clauses
<1> QED
  BY <1>4, <1>5, <1>6, <1>7, <1>8, <1>9

\* An exception is on its way out of the layers, and the answer made of it has
\* the status of its clause.
Mapped(r) == r.exc # Nothing => /\ r.at \in {"raised", "caught", "outer"}
                                /\ r.at = "outer" => r.status = StatusOf(r.exc)
ErrorInv == \A c \in Clients : Mapped(req[c])

\* A step of one client leaves the requests of the others alone.
LEMMA ErrorFrame ==
    ASSUME ChainInv, ErrorInv, NEW c \in Clients, NEW r, Becomes(c, r), Mapped(r)
    PROVE  ErrorInv'
BY DEF ErrorInv, ChainInv, ChainType, Becomes

\* Only the endpoint raises, and only ErrorHandlerMiddleware makes an answer of it.
LEMMA ErrorStep == ChainInv /\ ErrorInv /\ [Next]_vars => ErrorInv'
<1> SUFFICES ASSUME ChainInv, ErrorInv, [Next]_vars PROVE ErrorInv'
  OBVIOUS
<1>0. \A c \in Clients : req[c] \in Requests /\ Mapped(req[c])
  BY DEF ChainInv, ChainType, ErrorInv
<1>1. ASSUME NEW c \in Clients, NEW op, NEW u, Send(c, op, u) PROVE ErrorInv'
  <2> DEFINE r == [Idle EXCEPT !.at = "access", !.op = op, !.name = u]
  <2>1. Becomes(c, r) /\ Mapped(r)
    BY <1>1 DEF Send, Mapped, Idle
  <2> QED
    BY <2>1, ErrorFrame
<1>2. ASSUME NEW c \in Clients, EnterRequestId(c) PROVE ErrorInv'
  <2> DEFINE r == [Goes(c, "handler") EXCEPT !.stateId = Published(c)]
  <2>1. Becomes(c, r) /\ req[c].at = "access"
    BY <1>2 DEF EnterRequestId, At
  <2>2. r.exc = Nothing
    BY <1>0, <2>1 DEF Goes, Requests, Mapped
  <2> QED
    BY <2>1, <2>2, ErrorFrame DEF Mapped
<1>3. ASSUME NEW c \in Clients, NEW status, NEW token, Responds(c, status, token),
             req[c].at \in {"handler", "verify", "endpoint"}
      PROVE  ErrorInv'
  <2> DEFINE r == [Goes(c, "inner") EXCEPT !.op = "none", !.name = Nothing, !.read = Nothing,
                                           !.status = status, !.gives = token, !.id = c]
  <2>1. Becomes(c, r)
    BY <1>3 DEF Responds
  <2>2. r.exc = Nothing
    BY <1>0, <1>3 DEF Goes, Requests, Mapped
  <2> QED
    BY <2>1, <2>2, ErrorFrame DEF Mapped
<1>4. ASSUME NEW c \in Clients, ReadUser(c) PROVE ErrorInv'
  <2> DEFINE r == [Goes(c, "verify") EXCEPT !.read = user[req[c].name]]
  <2>1. Becomes(c, r) /\ req[c].at = "handler"
    BY <1>4 DEF ReadUser, At
  <2>2. r.exc = Nothing
    BY <1>0, <2>1 DEF Goes, Requests, Mapped
  <2> QED
    BY <2>1, <2>2, ErrorFrame DEF Mapped
<1>5. ASSUME NEW c \in Clients,
             \/ \E right \in BOOLEAN : Login(c, right)
             \/ Refresh(c) \/ Refuse(c)
             \/ \E status \in {200, 404, 429, 503} : Return(c, status)
      PROVE  ErrorInv'
  BY <1>3, <1>5 DEF Login, Refresh, Refuse, Return, At
<1>6. ASSUME NEW c \in Clients, Pass(c) PROVE ErrorInv'
  <2>1. Becomes(c, Goes(c, "endpoint")) /\ req[c].at = "handler"
    BY <1>6 DEF Pass, At
  <2>2. Goes(c, "endpoint").exc = Nothing
    BY <1>0, <2>1 DEF Goes, Requests, Mapped
  <2> QED
    BY <2>1, <2>2, ErrorFrame DEF Mapped
<1>7. ASSUME NEW c \in Clients, NEW e \in Exceptions, Raise(c, e) PROVE ErrorInv'
  <2> DEFINE r == [Goes(c, "raised") EXCEPT !.op = "none", !.exc = e]
  <2>1. Becomes(c, r)
    BY <1>7 DEF Raise
  <2>2. r.at = "raised"
    BY <1>0 DEF Goes, Requests
  <2> QED
    BY <2>1, <2>2, ErrorFrame DEF Mapped
<1>8. ASSUME NEW c \in Clients, LeaveAccess(c) PROVE ErrorInv'
  <2>1. Becomes(c, Goes(c, "outer")) /\ req[c].at = "inner"
    BY <1>8 DEF LeaveAccess, At
  <2>2. Goes(c, "outer").exc = Nothing
    BY <1>0, <2>1 DEF Goes, Requests, Mapped
  <2> QED
    BY <2>1, <2>2, ErrorFrame DEF Mapped
<1>9. ASSUME NEW c \in Clients, ReraiseAccess(c) PROVE ErrorInv'
  <2>1. Becomes(c, Goes(c, "caught"))
    BY <1>9 DEF ReraiseAccess
  <2>2. Goes(c, "caught").at = "caught"
    BY <1>0 DEF Goes, Requests
  <2> QED
    BY <2>1, <2>2, ErrorFrame DEF Mapped
<1>10. ASSUME NEW c \in Clients, Problem(c) PROVE ErrorInv'
  <2> DEFINE s == StatusOf(req[c].exc)
             r == [Goes(c, "outer") EXCEPT !.status = s, !.id = req[c].stateId]
  <2>1. Becomes(c, r)
    BY <1>10 DEF Problem
  <2> HIDE DEF s
  <2>2. r.at = "outer" /\ r.status = s /\ r.exc = req[c].exc
    BY <1>0 DEF Goes, Requests
  <2>3. Mapped(r)
    BY <2>2 DEF Mapped, s
  <2> QED
    BY <2>1, <2>3, ErrorFrame
<1>11. ASSUME NEW c \in Clients, Receive(c) \/ Cancel(c) PROVE ErrorInv'
  <2>1. Becomes(c, Idle) /\ Mapped(Idle)
    BY <1>11 DEF Receive, Cancel, Mapped, Idle
  <2> QED
    BY <2>1, ErrorFrame
<1>12. CASE Tick
  <2> SUFFICES ASSUME NEW c \in Clients PROVE Mapped(req'[c])
    BY DEF ErrorInv
  <2> DEFINE t == Aged(req[c].gives)
  <2>1. req'[c] = [req[c] EXCEPT !.gives = t]
    BY <1>12 DEF Tick
  <2> HIDE DEF t
  <2>2. req'[c].exc = req[c].exc /\ req'[c].at = req[c].at /\ req'[c].status = req[c].status
    BY <1>0, <2>1 DEF Requests
  <2> QED
    BY <1>0, <2>2 DEF Mapped
<1>13. CASE UNCHANGED vars \/ \E u \in Users, account \in Accounts : EditUser(u, account)
  <2>1. UNCHANGED req
    BY <1>13 DEF vars, EditUser
  <2> QED
    BY <2>1 DEF ErrorInv
<1> QED
  BY <1>1, <1>2, <1>4, <1>5, <1>6, <1>7, <1>8, <1>9, <1>10, <1>11, <1>12, <1>13 DEF Next, Step

\* The except clauses of ErrorHandlerMiddleware, for every set of exception classes an
\* endpoint may raise: 503 exactly for what is transient, and never 500 for an error of
\* the domain.
THEOREM RetrySafe == Spec => []RetryIsTransient
<1>1. Init => ErrorInv
  BY DEF Init, ErrorInv, Mapped, Idle
<1>2. ErrorInv => RetryIsTransient
  BY FirstClause DEF ErrorInv, Mapped, RetryIsTransient, At
<1> QED
  BY <1>1, <1>2, ErrorStep, ChainInvariance, PTL DEF Spec

-----------------------------------------------------------------------------
InFlight == {c \in Clients : Counted(c)}

\* What a step of one client does to the set of the requests between inc and dec.
LEMMA InFlightStep ==
    ASSUME ChainInv, NEW c \in Clients, NEW r, Becomes(c, r)
    PROVE  InFlight' = IF r.at \in {"access", "handler", "verify", "endpoint", "inner", "raised"}
                       THEN InFlight \cup {c} ELSE InFlight \ {c}
BY DEF ChainInv, ChainType, Becomes, InFlight, Counted

\* The set is finite, and its cardinality counts.
LEMMA InFlightCount ==
    /\ Cardinality(InFlight) \in Nat
    /\ \A c \in Clients : /\ Cardinality(InFlight \cup {c}) = Cardinality(InFlight)
                                                        + (IF c \in InFlight THEN 0 ELSE 1)
                          /\ Cardinality(InFlight \ {c}) = Cardinality(InFlight)
                                                        - (IF c \in InFlight THEN 1 ELSE 0)
<1>1. IsFiniteSet(InFlight)
  BY ChainAssumption, FS_Subset DEF InFlight
<1> QED
  BY <1>1, FS_CardinalityType, FS_AddElement, FS_RemoveElement

\* The gauge moves with the set, and with it alone.
LEMMA GaugeStep == ChainInv /\ GaugeIsPaired /\ [Next]_vars => GaugeIsPaired'
<1> SUFFICES ASSUME ChainInv, gauge = Cardinality(InFlight) + leaked, [Next]_vars
             PROVE  gauge' = Cardinality(InFlight') + leaked'
  BY DEF GaugeIsPaired, InFlight
<1>0. gauge \in Int /\ leaked \in Nat
  BY DEF ChainInv, ChainType
<1>1. ASSUME NEW c \in Clients, NEW r, Becomes(c, r), Quiet, Counted(c),
             r.at \in {"access", "handler", "verify", "endpoint", "inner", "raised"}
      PROVE  gauge' = Cardinality(InFlight') + leaked'
  BY <1>1, InFlightStep DEF InFlight, Quiet
<1>2. ASSUME NEW c \in Clients, Step(c)
      PROVE  gauge' = Cardinality(InFlight') + leaked'
  <2>0. req[c] \in Requests
    BY DEF ChainInv, ChainType
  <2> DEFINE Lay == {"handler", "verify", "endpoint", "inner", "raised"}
  <2>1. ASSUME NEW where \in Lay, NEW r, Becomes(c, r), Quiet, Counted(c), r.at = where
        PROVE  gauge' = Cardinality(InFlight') + leaked'
    BY <1>1, <2>1
  <2>2. ASSUME NEW status, NEW token, Responds(c, status, token), Counted(c)
        PROVE  gauge' = Cardinality(InFlight') + leaked'
    BY <2>0, <2>1, <2>2 DEF Responds, Goes, Requests
  <2>3. CASE EnterRequestId(c)
    BY <2>0, <2>1, <2>3 DEF EnterRequestId, Goes, Requests, Counted, At
  <2>4. CASE ReadUser(c)
    BY <2>0, <2>1, <2>4 DEF ReadUser, Goes, Requests, Counted, At
  <2>5. CASE Pass(c)
    BY <2>0, <2>1, <2>5 DEF Pass, Goes, Requests, Counted, At
  <2>6. CASE \E e \in Exceptions : Raise(c, e)
    BY <2>0, <2>1, <2>6 DEF Raise, Goes, Requests, Counted, At
  <2>7. CASE Refresh(c) \/ Refuse(c)
    BY <2>2, <2>7 DEF Refresh, Refuse, Counted, At
  <2>8. CASE \/ \E right \in BOOLEAN : Login(c, right)
             \/ \E status \in {200, 404, 429, 503} : Return(c, status)
    BY <2>2, <2>8 DEF Login, Return, Counted, At
  <2>9. CASE LeaveAccess(c) \/ ReraiseAccess(c)
    <3>1. PICK to \in {"outer", "caught"} : Becomes(c, Goes(c, to)) /\ gauge' = gauge - 1 /\ leaked' = leaked
      BY <2>9 DEF LeaveAccess, ReraiseAccess, Dec
    <3>2. c \in InFlight /\ Goes(c, to).at = to
      BY <2>0, <2>9 DEF LeaveAccess, ReraiseAccess, At, InFlight, Counted, Goes, Requests
    <3> QED
      BY <1>0, <3>1, <3>2, InFlightStep, InFlightCount
  <2>10. CASE Problem(c)
    <3> DEFINE r == [Goes(c, "outer") EXCEPT !.status = StatusOf(req[c].exc), !.id = req[c].stateId]
    <3>1. Becomes(c, r) /\ r.at = "outer"
      BY <2>0, <2>10 DEF Problem, Goes, Requests
    <3> HIDE DEF r
    <3>2. c \notin InFlight /\ UNCHANGED <<gauge, leaked>>
      BY <2>10 DEF Problem, At, Quiet, InFlight, Counted
    <3> QED
      BY <1>0, <3>1, <3>2, InFlightStep
  <2>11. CASE Receive(c)
    <3>1. Becomes(c, Idle) /\ Idle.at = "idle" /\ c \notin InFlight /\ UNCHANGED <<gauge, leaked>>
      BY <2>11 DEF Receive, At, InFlight, Counted, Idle
    <3> QED
      BY <1>0, <3>1, InFlightStep
  <2> QED
    BY <1>2, <2>3, <2>4, <2>5, <2>6, <2>7, <2>8, <2>9, <2>10, <2>11 DEF Step
<1>3. ASSUME NEW c \in Clients, Cancel(c)
      PROVE  gauge' = Cardinality(InFlight') + leaked'
  <2>1. Becomes(c, Idle) /\ gauge' = gauge
        /\ leaked' = IF c \in InFlight THEN leaked + 1 ELSE leaked
    BY <1>3 DEF Cancel, InFlight
  <2>2. Idle.at = "idle"
    BY DEF Idle
  <2>3. InFlight' = InFlight \ {c}
    BY <2>1, <2>2, InFlightStep
  <2>4. Cardinality(InFlight \ {c}) = Cardinality(InFlight) - (IF c \in InFlight THEN 1 ELSE 0)
        /\ Cardinality(InFlight) \in Nat
    BY InFlightCount
  <2> QED
    BY <1>0, <2>1, <2>3, <2>4
<1>4. ASSUME NEW c \in Clients, NEW op \in {"login", "refresh", "write", "open"},
             NEW u \in Users \cup {Nothing}, Send(c, op, u)
      PROVE  gauge' = Cardinality(InFlight') + leaked'
  <2> DEFINE r == [Idle EXCEPT !.at = "access", !.op = op, !.name = u]
  <2>1. Becomes(c, r) /\ r.at = "access"
    BY <1>4 DEF Send, Idle
  <2> HIDE DEF r
  <2>2. c \notin InFlight /\ gauge' = gauge + 1 /\ leaked' = leaked
    BY <1>4 DEF Send, At, InFlight, Counted
  <2> QED
    BY <1>0, <2>1, <2>2, InFlightStep, InFlightCount
<1>5. CASE Tick
  <2>1. UNCHANGED <<gauge, leaked>>
    BY <1>5 DEF Tick
  <2>2. \A c \in Clients : req'[c].at = req[c].at
    BY <1>5 DEF Tick, ChainInv, ChainType, Requests
  <2> QED
    BY <2>1, <2>2 DEF InFlight, Counted
<1>6. CASE UNCHANGED vars \/ \E u \in Users, account \in Accounts : EditUser(u, account)
  BY <1>6 DEF vars, EditUser, InFlight, Counted
<1> QED
  BY <1>2, <1>3, <1>4, <1>5, <1>6 DEF Next

\* "Keep inc and dec paired", for any number of requests at once: the gauge is the
\* number of requests between the two calls plus the number of those cancelled there.
THEOREM GaugeSafe == Spec => []GaugeIsPaired
<1>1. Init => GaugeIsPaired
  <2> SUFFICES ASSUME Init PROVE GaugeIsPaired
    OBVIOUS
  <2>1. InFlight = {}
    BY DEF Init, InFlight, Counted, Idle
  <2>2. Cardinality(InFlight) = 0
    BY <2>1, FS_EmptySet
  <2>3. gauge = Cardinality(InFlight) + leaked
    BY <2>2 DEF Init
  <2> QED
    BY <2>3 DEF GaugeIsPaired, InFlight
<1> QED
  BY <1>1, ChainInvariance, GaugeStep, PTL DEF Spec

-----------------------------------------------------------------------------
\* HasWayIn, client by client.
Live(t, u) == t # Nothing /\ t.sub = u /\ t.left > 0
Way(c, u) == \/ Live(held[c], u)
             \/ Live(req[c].gives, u)
             \/ At(c, "verify") /\ req[c].name = u /\ ~req[c].read.disabled

\* The two forms agree.
LEMMA WayIsWayIn == \A u : HasWayIn(u) <=> \E c \in Clients : Way(c, u)
BY DEF HasWayIn, TokensOf, Way, Live

\* A step of one client that opens no way for that client opens none.
LEMMA NoNewWay ==
    ASSUME ChainInv, NEW c \in Clients, NEW r, Becomes(c, r),
           \A d \in Clients \ {c} : held'[d] = held[d],
           \A u \in Users : Way(c, u)' => Way(c, u)
    PROVE  Promise!Leave
<1>1. \A d \in Clients \ {c} : req'[d] = req[d]
  BY DEF Becomes, ChainInv, ChainType
<1>2. \A d \in Clients, u \in Users : Way(d, u)' => Way(d, u)
  BY <1>1 DEF Way, At
<1>3. \A u \in Users : HasWayIn(u)' => HasWayIn(u)
  BY <1>2, WayIsWayIn DEF HasWayIn, TokensOf, Way, Live, At
<1>4. UNCHANGED user
  BY DEF Becomes
<1> QED
  BY <1>3, <1>4 DEF Promise!Leave

\* Every step of the service is a step of Lockout.
LEMMA LockoutStep ==
    ChainInv /\ [Next]_vars =>
        [Promise!Next]_<<{u \in Users : user[u].disabled}, {u \in Users : HasWayIn(u)}>>
<1> SUFFICES ASSUME ChainInv, [Next]_vars
             PROVE  [Promise!Next]_<<{u \in Users : user[u].disabled}, {u \in Users : HasWayIn(u)}>>
  OBVIOUS
<1> USE ChainAssumption
<1>0. \A c \in Clients : req[c] \in Requests
  BY DEF ChainInv, ChainType
<1>a. ASSUME NEW c \in Clients, NEW r, Becomes(c, r) PROVE req'[c] = r
  BY <1>a DEF Becomes, ChainInv, ChainType
\* Steps that keep the tokens of their client and do not reach the point where the
\* user has been read.
<1>1. ASSUME NEW c \in Clients, NEW r, Becomes(c, r), UNCHANGED held,
             r.gives \in {Nothing, req[c].gives}, r.at # "verify"
      PROVE  Promise!Leave
  <2>1. \A u \in Users : Way(c, u)' => Way(c, u)
    BY <1>1, <1>a DEF Way, Live, At
  <2> QED
    BY <1>1, <2>1, NoNewWay
<1>2. ASSUME NEW c \in Clients,
             \/ EnterRequestId(c) \/ Pass(c) \/ LeaveAccess(c) \/ ReraiseAccess(c) \/ Problem(c)
             \/ \E e \in Exceptions : Raise(c, e)
      PROVE  Promise!Leave
  <2> DEFINE q == req[c]
  <2>1. q \in Requests
    BY <1>0
  <2>2. CASE EnterRequestId(c)
    BY <1>1, <2>1, <2>2 DEF EnterRequestId, Quiet, Goes, Requests
  <2>3. CASE Pass(c) \/ LeaveAccess(c) \/ ReraiseAccess(c)
    BY <1>1, <2>1, <2>3 DEF Pass, LeaveAccess, ReraiseAccess, Quiet, Goes, Requests
  <2>4. CASE Problem(c)
    BY <1>1, <2>1, <2>4 DEF Problem, Quiet, Goes, Requests
  <2>5. CASE \E e \in Exceptions : Raise(c, e)
    BY <1>1, <2>1, <2>5 DEF Raise, Quiet, Goes, Requests
  <2> QED
    BY <1>2, <2>2, <2>3, <2>4, <2>5
\* A response gives a token only of a user who has a way already.
<1>3. ASSUME NEW c \in Clients, NEW status, NEW token, Responds(c, status, token),
             \A u \in Users : Live(token, u) => Way(c, u)
      PROVE  Promise!Leave
  <2> DEFINE r == [Goes(c, "inner") EXCEPT !.op = "none", !.name = Nothing, !.read = Nothing,
                                           !.status = status, !.gives = token, !.id = c]
  <2>1. Becomes(c, r) /\ UNCHANGED held
    BY <1>3 DEF Responds, Quiet
  <2>2. r.gives = token /\ r.at = "inner"
    BY <1>0 DEF Goes, Requests
  <2> HIDE DEF r
  <2>3. \A u \in Users : Way(c, u)' => Way(c, u)
    BY <1>3, <1>a, <2>1, <2>2 DEF Way, Live, At
  <2> QED
    BY <2>1, <2>3, NoNewWay
<1>4. ASSUME NEW c \in Clients,
             \/ Refuse(c) \/ Refresh(c) \/ \E right \in BOOLEAN : Login(c, right)
             \/ \E status \in {200, 404, 429, 503} : Return(c, status)
      PROVE  Promise!Leave
  <2>1. ASSUME NEW status, Responds(c, status, Nothing) PROVE Promise!Leave
    BY <1>3, <2>1 DEF Live
  <2>2. CASE Refuse(c) \/ \E status \in {200, 404, 429, 503} : Return(c, status)
    BY <2>1, <2>2 DEF Refuse, Return
  <2>3. CASE Refresh(c)
    <3>1. \A u : Valid(held[c]) /\ Live(Renewed(held[c]), u) => Way(c, u)
      BY DEF Valid, Live, Renewed, CreateAccessToken, Way
    <3> QED
      BY <1>3, <2>1, <2>3, <3>1 DEF Refresh
  <2>4. ASSUME NEW right \in BOOLEAN, Login(c, right) PROVE Promise!Leave
    <3>1. \A u : ~req[c].read.disabled /\ Live(CreateAccessToken(req[c].name, req[c].read.role), u)
                 => Way(c, u)
      BY <2>4 DEF Login, Live, CreateAccessToken, Way, At
    <3> QED
      BY <1>3, <2>1, <2>4, <3>1 DEF Login, Authenticated
  <2> QED
    BY <1>4, <2>2, <2>3, <2>4
<1>5. ASSUME NEW c \in Clients, Receive(c) \/ Cancel(c) PROVE Promise!Leave
  <2>1. Becomes(c, Idle) /\ Idle.gives = Nothing /\ Idle.at = "idle"
    BY <1>5 DEF Receive, Cancel, Idle
  <2>2. /\ \A d \in Clients \ {c} : held'[d] = held[d]
        /\ held'[c] \in {held[c], req[c].gives}
    BY <1>5 DEF Receive, Cancel, ChainInv, ChainType
  <2>3. req'[c] = Idle
    BY <1>a, <2>1
  <2>4. \A u \in Users : Way(c, u)' => Way(c, u)
    BY <2>1, <2>2, <2>3 DEF Way, Live, At
  <2> QED
    BY <2>1, <2>2, <2>4, NoNewWay
<1>6. ASSUME NEW c \in Clients, NEW op \in {"login", "refresh", "write", "open"},
             NEW u \in Users \cup {Nothing}, Send(c, op, u)
      PROVE  Promise!Leave
  <2> DEFINE r == [Idle EXCEPT !.at = "access", !.op = op, !.name = u]
  <2>1. Becomes(c, r) /\ UNCHANGED held /\ r.gives = Nothing /\ r.at = "access"
    BY <1>6 DEF Send, Idle
  <2> HIDE DEF r
  <2> QED
    BY <1>1, <2>1
\* A login that has read its user as enabled: the user enters here.
<1>7. ASSUME NEW c \in Clients, ReadUser(c)
      PROVE  Promise!Leave \/ \E u \in Users : Promise!Enter(u)
  <2> DEFINE n == req[c].name
             r == [Goes(c, "verify") EXCEPT !.read = user[n]]
  <2>1. Becomes(c, r) /\ UNCHANGED <<held, user>> /\ n \in Users
    BY <1>7 DEF ReadUser, Quiet, Becomes, ChainInv, Good, LoginIsOfUser
  <2>2. r.gives = req[c].gives /\ r.at = "verify" /\ r.name = n /\ r.read = user[n]
    BY <1>0 DEF Goes, Requests
  <2> HIDE DEF r
  <2>3. req'[c] = r /\ ~At(c, "verify")
    BY <1>7, <1>a, <2>1 DEF ReadUser, At
  <2>4. \A d \in Clients \ {c} : req'[d] = req[d]
    BY <2>1 DEF Becomes, ChainInv, ChainType
  <2>5. \A u \in Users : Way(c, u)' <=> Way(c, u) \/ (u = n /\ ~user[n].disabled)
    BY <2>1, <2>2, <2>3 DEF Way, Live, At
  <2>6. \A d \in Clients \ {c}, u \in Users : Way(d, u)' <=> Way(d, u)
    BY <2>1, <2>4 DEF Way, Live, At
  <2>7. \A u \in Users : HasWayIn(u)' <=> \E d \in Clients : Way(d, u)'
    BY DEF HasWayIn, TokensOf, Way, Live, At
  <2>8. \A u \in Users : HasWayIn(u)' <=> HasWayIn(u) \/ (u = n /\ ~user[n].disabled)
    BY <2>5, <2>6, <2>7, WayIsWayIn
  <2>9. CASE user[n].disabled
    BY <2>1, <2>8, <2>9 DEF Promise!Leave
  <2>10. CASE ~user[n].disabled
    BY <2>1, <2>8, <2>10 DEF Promise!Enter
  <2> QED
    BY <2>9, <2>10
<1>8. ASSUME NEW u \in Users, NEW account \in Accounts, EditUser(u, account) PROVE Promise!Rule
  BY <1>8 DEF EditUser, Promise!Rule, HasWayIn, TokensOf, At
<1>9. CASE Tick
  <2>1. \A c \in Clients : held'[c] = Aged(held[c]) /\ held[c] \in Tokens \cup {Nothing}
    BY <1>9 DEF Tick, ChainInv, ChainType
  <2>2. \A c \in Clients : /\ req'[c].gives = Aged(req[c].gives) /\ req'[c].at = req[c].at
                           /\ req'[c].name = req[c].name /\ req'[c].read = req[c].read
                           /\ req[c].gives \in Tokens \cup {Nothing}
    BY <1>0, <1>9 DEF Tick, Requests
  <2>3. \A t \in Tokens \cup {Nothing}, u \in Users : Live(Aged(t), u) => Live(t, u)
    BY DEF Aged, Live, Tokens
  <2> HIDE DEF Aged, Live
  <2>4. \A c \in Clients, u \in Users : Way(c, u)' => Way(c, u)
    BY <2>1, <2>2, <2>3 DEF Way, At
  <2>5. \A u \in Users : HasWayIn(u)' <=> \E c \in Clients : Way(c, u)'
    BY DEF HasWayIn, TokensOf, Way, Live, At
  <2>6. \A u \in Users : HasWayIn(u)' => HasWayIn(u)
    BY <2>4, <2>5, WayIsWayIn
  <2>7. UNCHANGED user
    BY <1>9 DEF Tick
  <2> QED
    BY <2>6, <2>7 DEF Promise!Next, Promise!Leave
<1>10. CASE UNCHANGED vars
  BY <1>10 DEF vars, HasWayIn, TokensOf, At
<1> QED
  BY <1>2, <1>4, <1>5, <1>6, <1>7, <1>8, <1>9, <1>10 DEF Next, Step, Promise!Next

\* Disabling a user: the service implements Lockout, so a disabled user without a live
\* token stays out, whatever logins, refreshes and late answers race with the operator.
THEOREM LockoutImplemented == Spec => LockoutHolds
<1>1. Init => Promise!Init
  <2> SUFFICES ASSUME Init PROVE Promise!Init
    OBVIOUS
  <2>1. \A u \in Users : ~HasWayIn(u)
    BY DEF Init, HasWayIn, TokensOf, Idle, At
  <2> QED
    BY <2>1 DEF Promise!Init
<1> QED
  BY <1>1, ChainInvariance, LockoutStep, PTL DEF Spec, LockoutHolds, Promise!Spec
=============================================================================

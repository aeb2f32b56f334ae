------------------------- MODULE WebSession_proofs -------------------------
(***************************************************************************)
(* Proofs about WebSession for any number of accounts and of requests in   *)
(* flight, in any order of their answers.                                  *)
(***************************************************************************)
EXTENDS WebSession, TLAPS

\* Every request carries a token that was issued, a login when it is answered.
TokensIssued ==
    \A r \in Request : req[r] # Idle =>
       /\ req[r].token \in 0..issued
       /\ req[r].call # "login" \/ req[r].status \in {"authorized", "ok"} => req[r].token # None

\* Without a token no query in flight has a place in the cache.
NoneListens ==
    stored = None => \A r \in Request : req[r].call = "query" => req[r].heard # "page"

\* As long as the database answers, who is refused carried a token of no session.
RefusedIsOver ==
    faults = 0 => \A r \in Request :
       req[r].call \in {"logout", "query", "change"} /\ req[r].status = "unauthorized"
          => req[r].token \notin DOMAIN sessions

SessionInv == TypeOK /\ TokensIssued /\ LoggedOutIsEmpty /\ NoneListens /\ RefusedIsOver

-----------------------------------------------------------------------------
LEMMA InitInv == Init => SessionInv
  <1> SUFFICES ASSUME Init PROVE SessionInv
    OBVIOUS
  <1>1. TypeOK
    BY SessionAssumption DEF Init, TypeOK, None, Token
  <1>2. TokensIssued /\ LoggedOutIsEmpty /\ NoneListens /\ RefusedIsOver
    BY DEF Init, Idle, TokensIssued, LoggedOutIsEmpty, NoneListens, RefusedIsOver
  <1> QED
    BY <1>1, <1>2 DEF SessionInv

\* A request that is not idle has all fields of one.
LEMMA RequestFields ==
    ASSUME TypeOK, NEW r \in Request, req[r] # Idle
    PROVE  /\ req[r] \in Requests
           /\ req[r].call \in {"login", "logout", "query", "change"}
           /\ req[r].token \in Token \cup {None}
  BY DEF TypeOK, Requests

\* A step that puts one request into another state and changes nothing else keeps the
\* invariant, unless the request is a query on its way to an empty cache or is refused
\* with the token of a session.
LEMMA OneRequest ==
    ASSUME SessionInv, NEW r \in Request, NEW x \in {Idle} \cup Requests,
           x # Idle => /\ x.token \in 0..issued
                       /\ x.call # "login" \/ x.status \in {"authorized", "ok"} => x.token # None,
           stored = None /\ x.call = "query" => x.heard # "page",
           faults' = 0 /\ x.call \in {"logout", "query", "change"}
                       /\ x.status = "unauthorized" => x.token \notin DOMAIN sessions,
           req' = [req EXCEPT ![r] = x],
           faults' \in 0..MaxFaults, faults' = 0 => faults = 0,
           UNCHANGED <<sessions, issued, stored, cache>>
    PROVE  SessionInv'
  <1>1. TypeOK'
    BY DEF SessionInv, TypeOK
  <1>2. \A q \in Request : req'[q] = IF q = r THEN x ELSE req[q]
    BY DEF SessionInv, TypeOK
  <1>3. TokensIssued'
    BY <1>2 DEF SessionInv, TokensIssued
  <1>4. LoggedOutIsEmpty'
    BY DEF SessionInv, LoggedOutIsEmpty
  <1>5. NoneListens'
    BY <1>2 DEF SessionInv, NoneListens
  <1>6. RefusedIsOver'
    BY <1>2 DEF SessionInv, RefusedIsOver
  <1> QED
    BY <1>1, <1>3, <1>4, <1>5, <1>6 DEF SessionInv

LEMMA SendKeeps ==
    ASSUME SessionInv, NEW r \in Request, Login(r) \/ Logout(r) \/ Load(r)
    PROVE  SessionInv'
  <1>1. PICK call \in {"login", "logout", "query", "change"}, account \in SUBSET Account,
             token \in {None, stored} :
           /\ Send(r, call, account, token)
           /\ call # "login" => token # None
           /\ call = "query" => stored # None
    <2>1. ASSUME Login(r)
          PROVE  \E account \in SUBSET Account : Send(r, "login", account, None)
      BY <2>1 DEF Login
    <2> QED
      BY <2>1 DEF Logout, Load
  <1> DEFINE x == [call |-> call, account |-> account, token |-> token,
                   status |-> "sent", heard |-> "page"]
  <1>2. issued \in 0..MaxTokens /\ stored \in 0..issued /\ faults \in 0..MaxFaults
    BY DEF SessionInv, TypeOK
  <1>3. token \in 0..issued /\ token \in Token \cup {None}
    BY <1>2, SessionAssumption DEF None, Token
  <1>4. x \in Requests
    BY <1>3 DEF Requests
  <1>5. req' = [req EXCEPT ![r] = x] /\ UNCHANGED <<sessions, issued, stored, cache, faults>>
    BY <1>1 DEF Send, Login, Logout, Load
  <1>6. /\ x.status = "sent" /\ x.token \in 0..issued
        /\ x.call # "login" => x.token # None
        /\ x.call = "query" => stored # None
    BY <1>1, <1>3
  <1> HIDE DEF x
  <1> QED
    BY <1>2, <1>4, <1>5, <1>6, OneRequest

-----------------------------------------------------------------------------
(* The server.                                                             *)

LEMMA HandleLoginKeeps ==
    ASSUME SessionInv, NEW r \in Request, HandleLogin(r)
    PROVE  SessionInv'
  <1>1. /\ req[r] # Idle /\ req[r] \in Requests
        /\ issued \in 0..MaxTokens /\ stored \in 0..issued /\ faults \in 0..MaxFaults
        /\ req[r].token \in 0..issued
    BY RequestFields DEF SessionInv, TypeOK, TokensIssued, HandleLogin, Idle
  <1>2. CASE req[r].account = {} /\ Becomes(r, "unauthorized") /\ UNCHANGED <<sessions, issued>>
    <2> DEFINE x == [req[r] EXCEPT !.status = "unauthorized"]
    <2>1. /\ x \in Requests /\ x.call = "login" /\ x.token = req[r].token
          /\ x.status = "unauthorized"
      BY <1>1 DEF HandleLogin, Requests, Final
    <2>2. req' = [req EXCEPT ![r] = x] /\ UNCHANGED <<sessions, issued, stored, cache, faults>>
      BY <1>2 DEF HandleLogin, Becomes
    <2> HIDE DEF x
    <2> QED
      BY <1>1, <2>1, <2>2, OneRequest
  <1>3. CASE /\ issued < MaxTokens
             /\ issued' = issued + 1
             /\ \E a \in req[r].account :
                   sessions' = [k \in DOMAIN sessions \cup {issued'} |->
                                   IF k = issued' THEN a ELSE sessions[k]]
             /\ req' = [req EXCEPT ![r].status = "ok", ![r].account = {}, ![r].token = issued']
    <2> DEFINE x == [req[r] EXCEPT !.status = "ok", !.account = {}, !.token = issued']
    <2>1. issued' \in 1..MaxTokens /\ issued' = issued + 1 /\ issued' \in Token
      BY <1>1, <1>3, SessionAssumption DEF Token
    <2>2. x \in Requests /\ x.call = "login" /\ x.token = issued'
      BY <1>1, <2>1 DEF HandleLogin, Requests, Final
    <2>3. req' = [req EXCEPT ![r] = x] /\ UNCHANGED <<stored, cache, faults>>
      BY <1>3 DEF HandleLogin
    <2> HIDE DEF x
    <2>4. \A q \in Request : req'[q] = IF q = r THEN x ELSE req[q]
      BY <2>3 DEF SessionInv, TypeOK
    <2>5. PICK a \in req[r].account :
             sessions' = [k \in DOMAIN sessions \cup {issued'} |->
                             IF k = issued' THEN a ELSE sessions[k]]
      BY <1>3
    <2>6. /\ DOMAIN sessions' = {issued'} \cup DOMAIN sessions
          /\ \A k \in DOMAIN sessions' : sessions'[k] = IF k = issued' THEN a ELSE sessions[k]
      BY <2>5
    <2>7. a \in Account
      BY <1>1 DEF Requests
    <2>8. TypeOK'
      <3>1. \A k \in DOMAIN sessions' : sessions'[k] \in Account
        BY <2>6, <2>7 DEF SessionInv, TypeOK
      <3>2. DOMAIN sessions' \subseteq 1..issued' /\ stored' \in 0..issued'
        BY <1>1, <2>1, <2>3, <2>6 DEF SessionInv, TypeOK
      <3>3. req' \in [Request -> {Idle} \cup Requests]
        BY <2>2, <2>3 DEF SessionInv, TypeOK
      <3>4. issued' \in 0..MaxTokens /\ cache' \subseteq Token /\ faults' \in 0..MaxFaults
        BY <2>1, <2>3, SessionAssumption DEF SessionInv, TypeOK
      <3> QED
        BY <3>1, <3>2, <3>3, <3>4 DEF TypeOK
    <2>9. TokensIssued'
      BY <1>1, <2>1, <2>2, <2>4 DEF SessionInv, TokensIssued, None
    <2>10. LoggedOutIsEmpty' /\ NoneListens'
      BY <2>2, <2>3, <2>4 DEF SessionInv, LoggedOutIsEmpty, NoneListens
    <2>11. RefusedIsOver'
      <3> SUFFICES ASSUME faults' = 0, NEW q \in Request,
                          req'[q].call \in {"logout", "query", "change"},
                          req'[q].status = "unauthorized"
                   PROVE  req'[q].token \notin DOMAIN sessions'
        BY DEF RefusedIsOver
      <3>1. q # r /\ req'[q] = req[q] /\ req[q] # Idle
        BY <2>2, <2>4 DEF Idle
      <3>2. req[q].token \notin DOMAIN sessions
        BY <2>3, <3>1 DEF SessionInv, RefusedIsOver
      <3>3. req[q].token # issued'
        BY <1>1, <2>1, <3>1 DEF SessionInv, TokensIssued
      <3> QED
        BY <2>6, <3>1, <3>2, <3>3
    <2> QED
      BY <2>8, <2>9, <2>10, <2>11 DEF SessionInv
  <1> QED
    BY <1>2, <1>3 DEF HandleLogin

\* RequireRole, LookupFails and Fail give a request another status.
LEMMA StatusKeeps ==
    ASSUME SessionInv, NEW r \in Request, RequireRole(r) \/ LookupFails(r) \/ Fail(r)
    PROVE  SessionInv'
  <1>1. /\ req[r] # Idle /\ req[r] \in Requests
        /\ issued \in 0..MaxTokens /\ stored \in 0..issued /\ faults \in 0..MaxFaults
        /\ req[r].token \in 0..issued
        /\ req[r].call # "login" \/ req[r].status \in {"authorized", "ok"} => req[r].token # None
    BY RequestFields DEF SessionInv, TypeOK, TokensIssued, RequireRole, LookupFails, Fail, Idle
  <1>2. PICK status \in {"unauthorized", "authorized", "error"}, account \in {{}, req[r].account} :
           /\ req' = [req EXCEPT ![r] = [req[r] EXCEPT !.status = status, !.account = account]]
           /\ status = "authorized" => req[r].call # "login"
           /\ status = "unauthorized" /\ faults' = 0 => req[r].token \notin DOMAIN sessions
    <2>1. CASE RequireRole(r)
      <3> DEFINE status == IF req[r].token \notin DOMAIN sessions THEN "unauthorized"
                           ELSE IF Forbidden(r) THEN "error" ELSE "authorized"
      <3>1. req' = [req EXCEPT ![r] = [req[r] EXCEPT !.status = status,
                                                     !.account = req[r].account]]
        BY <1>1, <2>1 DEF RequireRole, Becomes, Requests
      <3>2. status = "unauthorized" => req[r].token \notin DOMAIN sessions
        OBVIOUS
      <3>3. status \in {"unauthorized", "authorized", "error"} /\ req[r].call # "login"
        BY <2>1 DEF RequireRole
      <3> HIDE DEF status
      <3> QED
        BY <3>1, <3>2, <3>3
    <2>2. CASE LookupFails(r)
      <3>1. req' = [req EXCEPT ![r] = [req[r] EXCEPT !.status = "unauthorized",
                                                     !.account = req[r].account]]
        BY <1>1, <2>2 DEF LookupFails, Becomes, Requests
      <3>2. faults' # 0
        BY <1>1, <2>2 DEF LookupFails
      <3> QED
        BY <3>1, <3>2
    <2>3. CASE Fail(r)
      BY <2>3 DEF Fail
    <2> QED
      BY <2>1, <2>2, <2>3
  <1> DEFINE x == [req[r] EXCEPT !.status = status, !.account = account]
  <1>3. /\ x \in Requests /\ x.call = req[r].call /\ x.heard = req[r].heard
        /\ x.token = req[r].token /\ x.status = status
    BY <1>1 DEF Requests, Final
  <1>4. /\ faults' \in 0..MaxFaults /\ (faults' = 0 => faults = 0)
        /\ UNCHANGED <<sessions, issued, stored, cache>>
    BY <1>1, SessionAssumption DEF RequireRole, LookupFails, Fail
  <1>5. stored = None /\ x.call = "query" => x.heard # "page"
    BY <1>3 DEF SessionInv, NoneListens
  <1>6. req' = [req EXCEPT ![r] = x]
    BY <1>2
  <1> HIDE DEF x
  <1>7. x.call # "login" \/ x.status \in {"authorized", "ok"} => x.token # None
    BY <1>1, <1>2, <1>3
  <1>8. faults' = 0 /\ x.call \in {"logout", "query", "change"} /\ x.status = "unauthorized"
           => x.token \notin DOMAIN sessions
    BY <1>2, <1>3
  <1> QED
    BY <1>1, <1>3, <1>4, <1>5, <1>6, <1>7, <1>8, OneRequest

LEMMA HandleKeeps ==
    ASSUME SessionInv, NEW r \in Request, Handle(r)
    PROVE  SessionInv'
  <1>1. /\ req[r] # Idle /\ req[r] \in Requests /\ req[r].token \in 0..issued
        /\ req[r].token # None
    BY RequestFields DEF SessionInv, Handle, TokensIssued
  <1> DEFINE x == [req[r] EXCEPT !.status = "ok"]
  <1>2. /\ x \in Requests /\ x.call = req[r].call /\ x.heard = req[r].heard
        /\ x.token = req[r].token /\ x.status = "ok"
    BY <1>1 DEF Requests, Final
  <1>3. req' = [req EXCEPT ![r] = x] /\ UNCHANGED <<issued, stored, cache, faults>>
    BY DEF Handle, Becomes
  <1> HIDE DEF x
  <1>4. \A q \in Request : req'[q] = IF q = r THEN x ELSE req[q]
    BY <1>3 DEF SessionInv, TypeOK
  <1>5. /\ DOMAIN sessions' \subseteq DOMAIN sessions
        /\ \A k \in DOMAIN sessions' : sessions'[k] = sessions[k]
    BY DEF Handle, Restrict
  <1>6. TypeOK'
    BY <1>2, <1>3, <1>5 DEF SessionInv, TypeOK
  <1>7. TokensIssued'
    BY <1>1, <1>2, <1>3, <1>4 DEF SessionInv, TokensIssued
  <1>8. LoggedOutIsEmpty' /\ NoneListens'
    BY <1>2, <1>3, <1>4 DEF SessionInv, LoggedOutIsEmpty, NoneListens
  <1>9. RefusedIsOver'
    BY <1>2, <1>3, <1>4, <1>5 DEF SessionInv, RefusedIsOver
  <1> QED
    BY <1>6, <1>7, <1>8, <1>9 DEF SessionInv

-----------------------------------------------------------------------------
(* The browser.                                                            *)

LEMMA SignOutKeeps ==
    ASSUME SessionInv, NEW r \in Request, SignOut(r)
    PROVE  SessionInv'
  <1>1. \A q \in Request : \/ req'[q] = Idle
                           \/ /\ req[q] # Idle /\ req[q].heard = "page"
                              /\ req'[q] = [req[q] EXCEPT !.heard = "cleared"]
                           \/ /\ req[q].heard # "page"
                              /\ req'[q] = req[q]
    BY DEF SignOut
  <1>2. \A q \in Request : req'[q] # Idle =>
           /\ req[q] # Idle /\ req'[q] \in Requests
           /\ req'[q].call = req[q].call /\ req'[q].token = req[q].token
           /\ req'[q].status = req[q].status /\ req'[q].heard # "page"
    <2> SUFFICES ASSUME NEW q \in Request, req'[q] # Idle
                 PROVE  /\ req[q] # Idle /\ req'[q] \in Requests
                        /\ req'[q].call = req[q].call /\ req'[q].token = req[q].token
                        /\ req'[q].status = req[q].status /\ req'[q].heard # "page"
      OBVIOUS
    <2>1. req[q] # Idle /\ req[q] \in Requests
      BY <1>1, RequestFields DEF SessionInv
    <2>2. CASE req'[q] = [req[q] EXCEPT !.heard = "cleared"]
      BY <2>1, <2>2 DEF Requests, Final
    <2>3. CASE req[q].heard # "page" /\ req'[q] = req[q]
      BY <2>1, <2>3
    <2> QED
      BY <1>1, <2>2, <2>3
  <1>3. stored' = None /\ cache' = {} /\ UNCHANGED <<sessions, issued, faults>>
    BY DEF SignOut
  <1>4. TypeOK'
    <2>1. req' \in [Request -> {Idle} \cup Requests]
      <3>1. req' = [q \in Request |-> req'[q]]
        BY DEF SignOut
      <3> QED
        BY <1>2, <3>1
    <2> QED
      BY <1>3, <2>1 DEF SessionInv, TypeOK, None
  <1>5. TokensIssued'
    BY <1>2, <1>3 DEF SessionInv, TokensIssued
  <1>6. LoggedOutIsEmpty' /\ NoneListens'
    BY <1>2, <1>3 DEF LoggedOutIsEmpty, NoneListens, Idle
  <1>7. RefusedIsOver'
    BY <1>2, <1>3 DEF SessionInv, RefusedIsOver, Idle
  <1> QED
    BY <1>4, <1>5, <1>6, <1>7 DEF SessionInv

LEMMA LoginDoneKeeps ==
    ASSUME SessionInv, NEW r \in Request, LoginDone(r)
    PROVE  SessionInv'
  <1>1. req[r] # Idle /\ req[r].token \in 0..issued /\ req[r].token # None
    BY DEF SessionInv, TokensIssued, LoginDone, Heard
  <1>2. /\ \A q \in Request : req'[q] = IF q = r THEN Idle ELSE req[q]
        /\ stored' = req[r].token /\ UNCHANGED <<sessions, issued, cache, faults>>
    BY DEF SessionInv, TypeOK, LoginDone
  <1>3. TypeOK'
    <2>1. req' \in [Request -> {Idle} \cup Requests]
      BY DEF SessionInv, TypeOK, LoginDone
    <2> QED
      BY <1>1, <1>2, <2>1 DEF SessionInv, TypeOK
  <1>4. TokensIssued'
    BY <1>2 DEF SessionInv, TokensIssued, Idle
  <1>5. LoggedOutIsEmpty' /\ NoneListens'
    BY <1>1, <1>2 DEF LoggedOutIsEmpty, NoneListens
  <1>6. RefusedIsOver'
    BY <1>2 DEF SessionInv, RefusedIsOver, Idle
  <1> QED
    BY <1>3, <1>4, <1>5, <1>6 DEF SessionInv

\* Ignored and QueryDone finish one request; the answer to a query fills a cache only if
\* the page still has a token.
LEMMA AnswerKeeps ==
    ASSUME SessionInv, NEW r \in Request, QueryDone(r) \/ Ignored(r)
    PROVE  SessionInv'
  <1>1. CASE Ignored(r)
    <2>1. /\ req' = [req EXCEPT ![r] = Idle]
          /\ UNCHANGED <<sessions, issued, stored, cache, faults>>
      BY <1>1 DEF Ignored
    <2>2. faults' \in 0..MaxFaults /\ (faults' = 0 => faults = 0)
      BY <2>1 DEF SessionInv, TypeOK
    <2> QED
      BY <2>1, <2>2, OneRequest DEF Idle
  <1>2. CASE QueryDone(r)
    <2>1. /\ req[r] # Idle /\ req[r].call = "query" /\ req[r].heard = "page"
          /\ cache' = cache \cup {req[r].token}
          /\ UNCHANGED <<sessions, issued, stored, faults>>
      BY <1>2 DEF QueryDone, Heard
    <2>2. \A q \in Request : req'[q] = IF q = r THEN Idle ELSE req[q]
      BY <1>2 DEF QueryDone, SessionInv, TypeOK
    <2>3. stored # None
      BY <2>1 DEF SessionInv, NoneListens
    <2>4. TypeOK'
      <3>1. req' \in [Request -> {Idle} \cup Requests]
        BY <1>2 DEF QueryDone, SessionInv, TypeOK
      <3>2. cache' \subseteq Token
        BY <2>1, RequestFields DEF SessionInv, TypeOK, TokensIssued
      <3> QED
        BY <2>1, <3>1, <3>2 DEF SessionInv, TypeOK
    <2>5. TokensIssued' /\ RefusedIsOver'
      BY <2>1, <2>2 DEF SessionInv, TokensIssued, RefusedIsOver, Idle
    <2>6. LoggedOutIsEmpty' /\ NoneListens'
      BY <2>1, <2>3 DEF LoggedOutIsEmpty, NoneListens
    <2> QED
      BY <2>4, <2>5, <2>6 DEF SessionInv
  <1> QED
    BY <1>1, <1>2

LEMMA ReloadKeeps ==
    ASSUME SessionInv, Reload
    PROVE  SessionInv'
  <1>1. \A r \in Request : req'[r] # Idle =>
           /\ req[r] # Idle /\ req'[r] \in Requests
           /\ req'[r].call = req[r].call /\ req'[r].token = req[r].token
           /\ req'[r].status = req[r].status /\ req'[r].heard = "gone"
    <2> SUFFICES ASSUME NEW r \in Request, req'[r] # Idle
                 PROVE  /\ req[r] # Idle /\ req'[r] \in Requests
                        /\ req'[r].call = req[r].call /\ req'[r].token = req[r].token
                        /\ req'[r].status = req[r].status /\ req'[r].heard = "gone"
      OBVIOUS
    <2>1. /\ req[r].call \in {"login", "logout"}
          /\ req'[r] = [req[r] EXCEPT !.heard = "gone"]
      BY DEF Reload
    <2>2. req[r] # Idle /\ req[r] \in Requests
      BY <2>1, RequestFields DEF SessionInv, Idle
    <2> QED
      BY <2>1, <2>2 DEF Requests, Final
  <1>2. cache' = {} /\ UNCHANGED <<sessions, issued, stored, faults>>
    BY DEF Reload
  <1>3. TypeOK'
    <2>1. req' = [r \in Request |-> req'[r]]
      BY DEF Reload
    <2>2. req' \in [Request -> {Idle} \cup Requests]
      BY <1>1, <2>1
    <2> QED
      BY <1>2, <2>2 DEF SessionInv, TypeOK
  <1>4. TokensIssued'
    BY <1>1, <1>2 DEF SessionInv, TokensIssued
  <1>5. LoggedOutIsEmpty' /\ NoneListens' /\ RefusedIsOver'
    BY <1>1, <1>2 DEF SessionInv, LoggedOutIsEmpty, NoneListens, RefusedIsOver, Idle
  <1> QED
    BY <1>3, <1>4, <1>5 DEF SessionInv

-----------------------------------------------------------------------------
LEMMA StepKeeps == SessionInv /\ [Next]_vars => SessionInv'
  <1> SUFFICES ASSUME SessionInv, [Next]_vars PROVE SessionInv'
    OBVIOUS
  <1>1. CASE \E r \in Request : Login(r) \/ Logout(r) \/ Load(r)
    BY <1>1, SendKeeps
  <1>2. CASE \E r \in Request : Server(r) \/ LookupFails(r) \/ Fail(r)
    BY <1>2, HandleLoginKeeps, StatusKeeps, HandleKeeps DEF Server
  <1>3. CASE \E r \in Request : Receive(r)
    BY <1>3, SignOutKeeps, LoginDoneKeeps, AnswerKeeps DEF Receive, Unauthorized, LogoutDone
  <1>4. CASE Reload
    BY <1>4, ReloadKeeps
  <1>5. CASE UNCHANGED vars
    BY <1>5 DEF vars, SessionInv, TypeOK, TokensIssued, LoggedOutIsEmpty, NoneListens,
                RefusedIsOver
  <1> QED
    BY <1>1, <1>2, <1>3, <1>4, <1>5 DEF Next

\* The invariant of both sides: what a request in flight still means when it is answered.
THEOREM SessionInvCorrect == Spec => []SessionInv
  <1> QED
    BY InitInv, StepKeeps, PTL DEF Spec

\* Tokens, requests and cache stay well typed; the token that the browser has was issued.
THEOREM SessionTypeOKCorrect == Spec => []TypeOK
  <1>1. SessionInv => TypeOK
    BY DEF SessionInv
  <1> QED
    BY <1>1, SessionInvCorrect, PTL

\* In whatever order answers come: without a token the query cache is empty.
THEOREM LoggedOutIsEmptyCorrect == Spec => []LoggedOutIsEmpty
  <1>1. SessionInv => LoggedOutIsEmpty
    BY DEF SessionInv
  <1> QED
    BY <1>1, SessionInvCorrect, PTL

\* As long as the database answers, a live session leaves the browser only with a login,
\* a logout, or an answer to a request with another token.
THEOREM LiveSessionKeptCorrect == Spec => LiveSessionKept
  <1> DEFINE Justified == faults = 0 /\ stored \in DOMAIN sessions /\ stored' # stored =>
                \E r \in Request : /\ req[r] # Idle /\ req'[r] = Idle
                                   /\ req[r].call \in {"login", "logout"} \/ req[r].token # stored
  <1>1. SessionInv /\ [Next]_vars => [Justified]_vars
    <2> SUFFICES ASSUME SessionInv, Next, faults = 0, stored \in DOMAIN sessions,
                        stored' # stored
                 PROVE  \E r \in Request :
                           /\ req[r] # Idle /\ req'[r] = Idle
                           /\ req[r].call \in {"login", "logout"} \/ req[r].token # stored
      OBVIOUS
    <2>1. PICK r \in Request : Unauthorized(r) \/ LogoutDone(r) \/ LoginDone(r)
      BY DEF Next, Login, Logout, Load, Server, HandleLogin, RequireRole, Handle, LookupFails,
             Fail, Receive, QueryDone, Ignored, Reload
    <2>2. req'[r] = Idle /\ req[r] # Idle
      BY <2>1 DEF SessionInv, TypeOK, Unauthorized, LogoutDone, LoginDone, SignOut, Heard
    <2>3. CASE Unauthorized(r)
      BY <2>2, <2>3, RequestFields DEF SessionInv, RefusedIsOver, Unauthorized, Heard
    <2>4. CASE LogoutDone(r) \/ LoginDone(r)
      BY <2>2, <2>4 DEF LogoutDone, LoginDone
    <2> QED
      BY <2>1, <2>3, <2>4
  <1> QED
    BY <1>1, SessionInvCorrect, PTL DEF Spec, LiveSessionKept

-----------------------------------------------------------------------------
(* A browser that is used in order: what its one request has got to says   *)
(* which session there is.                                                 *)

InPlace(r) ==
    \/ /\ req[r].call = "login" /\ stored = None
       /\ \/ req[r].status \in {"sent", "unauthorized"} /\ DOMAIN sessions = {}
          \/ req[r].status = "ok" /\ DOMAIN sessions = {req[r].token}
    \/ /\ req[r].call # "login" /\ stored # None /\ req[r].token = stored
       /\ \/ req[r].status \in {"sent", "authorized"} /\ DOMAIN sessions = {stored}
          \/ /\ req[r].status = "ok"
             /\ DOMAIN sessions = IF req[r].call = "logout" THEN {} ELSE {stored}

Tidy == (\A r \in Request : req[r] = Idle) => DOMAIN sessions = {stored} \ {None}

TidyInv == Tidy /\ \A r \in Request : req[r] # Idle => InPlace(r)

\* The one request that is in flight goes on.
LEMMA GoesOn ==
    ASSUME NEW r \in Request, req'[r] # Idle, Orderly', InPlace(r)'
    PROVE  TidyInv'
  <1>1. \A q \in Request : q # r => req'[q] = Idle
    BY DEF Orderly
  <1> QED
    BY <1>1 DEF TidyInv, Tidy, InPlace

\* It is answered, and there is none any more.
LEMMA ComesToAnEnd ==
    ASSUME NEW r \in Request, req[r] # Idle, Orderly, req'[r] = Idle,
           \A q \in Request : req[q] = Idle => req'[q] = Idle,
           DOMAIN sessions' = {stored'} \ {None}
    PROVE  TidyInv'
  <1>1. \A q \in Request : req'[q] = Idle
    BY DEF Orderly
  <1> QED
    BY <1>1 DEF TidyInv, Tidy

\* A request is sent when there is no other.
LEMMA SendTidy ==
    ASSUME SessionInv, TidyInv, Orderly', NEW r \in Request, Login(r) \/ Logout(r) \/ Load(r)
    PROVE  TidyInv'
  <1>1. PICK call \in {"login", "logout", "query", "change"}, account \in SUBSET Account,
             token \in {None, stored} :
           Send(r, call, account, token) /\ (call # "login" => token = stored /\ stored # None)
    <2>1. ASSUME Login(r)
          PROVE  \E account \in SUBSET Account : Send(r, "login", account, None)
      BY <2>1 DEF Login
    <2> QED
      BY <2>1 DEF Logout, Load
  <1>2. /\ req[r] = Idle /\ req'[r].call = call /\ req'[r].token = token
        /\ req'[r].status = "sent" /\ req'[r] # Idle
        /\ \A q \in Request : q # r => req'[q] = req[q]
    BY <1>1 DEF Send, SessionInv, TypeOK, Idle
  <1>3. \A q \in Request : req[q] = Idle
    BY <1>2 DEF Orderly
  <1>4. DOMAIN sessions = {stored} \ {None} /\ UNCHANGED <<sessions, stored>>
    BY <1>3 DEF TidyInv, Tidy, Login, Logout, Load
  <1>5. call = "login" => stored = None
    BY <1>2, <1>4 DEF Orderly
  <1>6. InPlace(r)'
    BY <1>1, <1>2, <1>4, <1>5 DEF InPlace
  <1> QED
    BY <1>2, <1>6, GoesOn

\* The server works on it.
LEMMA ServeTidy ==
    ASSUME SessionInv, TidyInv, Orderly, Orderly', NEW r \in Request,
           Server(r) \/ LookupFails(r) \/ Fail(r)
    PROVE  TidyInv'
  <1>1. req[r] # Idle /\ req[r] \in Requests /\ req \in [Request -> {Idle} \cup Requests]
        /\ InPlace(r) /\ faults \in 0..MaxFaults
    BY RequestFields DEF SessionInv, TypeOK, TidyInv, Server, HandleLogin, RequireRole, Handle,
       LookupFails, Fail, Idle
  <1>2. req[r].status # "error"
    BY <1>1 DEF InPlace
  <1>3. CASE HandleLogin(r)
    <2>1. req[r].call = "login" /\ req[r].status = "sent" /\ stored = None /\ DOMAIN sessions = {}
          /\ UNCHANGED stored
      BY <1>1, <1>3 DEF HandleLogin, InPlace
    <2>2. CASE Becomes(r, "unauthorized") /\ UNCHANGED sessions
      <3>1. req'[r].call = "login" /\ req'[r].status = "unauthorized" /\ req'[r] # Idle
        BY <1>1, <2>1, <2>2 DEF Becomes, Requests, Idle
      <3> QED
        BY <2>1, <2>2, <3>1, GoesOn DEF InPlace
    <2>3. CASE /\ \E a \in req[r].account :
                     sessions' = [k \in DOMAIN sessions \cup {issued'} |->
                                     IF k = issued' THEN a ELSE sessions[k]]
               /\ req' = [req EXCEPT ![r].status = "ok", ![r].account = {}, ![r].token = issued']
      <3>1. DOMAIN sessions' = {issued'}
        BY <2>1, <2>3
      <3>2. req'[r].call = "login" /\ req'[r].status = "ok" /\ req'[r].token = issued'
            /\ req'[r] # Idle
        BY <1>1, <2>1, <2>3 DEF Requests, Idle
      <3> QED
        BY <2>1, <3>1, <3>2, GoesOn DEF InPlace
    <2> QED
      BY <1>3, <2>2, <2>3 DEF HandleLogin
  <1>4. CASE RequireRole(r)
    <2>1. /\ req[r].call \in {"logout", "query", "change"} /\ stored # None
          /\ req[r].token = stored /\ DOMAIN sessions = {stored} /\ UNCHANGED <<sessions, stored>>
      BY <1>1, <1>4 DEF RequireRole, InPlace
    <2>2. PICK status \in {"error", "authorized"} : Becomes(r, status)
      BY <1>4, <2>1 DEF RequireRole
    <2>3. /\ req'[r].call = req[r].call /\ req'[r].token = stored /\ req'[r].status = status
          /\ req'[r] # Idle
      BY <1>1, <2>1, <2>2 DEF Becomes, Requests, Idle
    <2>4. status = "authorized"
      BY <2>2, <2>3 DEF Orderly
    <2> QED
      BY <2>1, <2>3, <2>4, GoesOn DEF InPlace
  <1>5. CASE Handle(r)
    <2>1. /\ req[r].call # "login" /\ stored # None /\ req[r].token = stored
          /\ DOMAIN sessions = {stored} /\ UNCHANGED stored
      BY <1>1, <1>5 DEF Handle, InPlace
    <2>2. DOMAIN sessions' = IF req[r].call = "logout" THEN {} ELSE {stored}
      BY <1>5, <2>1 DEF Handle, Restrict
    <2>3. req'[r].call = req[r].call /\ req'[r].token = stored /\ req'[r].status = "ok"
          /\ req'[r] # Idle
      BY <1>1, <1>5, <2>1 DEF Handle, Becomes, Requests, Idle
    <2> QED
      BY <2>1, <2>2, <2>3, GoesOn DEF InPlace
  <1>6. CASE LookupFails(r)
    BY <1>1, <1>6, SessionAssumption DEF LookupFails, Orderly
  <1>7. CASE Fail(r)
    <2>1. req'[r].status = "error" /\ req'[r] # Idle
      BY <1>1, <1>7 DEF Fail, Requests, Idle
    <2> QED
      BY <2>1 DEF Orderly
  <1> QED
    BY <1>3, <1>4, <1>5, <1>6, <1>7 DEF Server

\* The browser gets its answer.
LEMMA ReceiveTidy ==
    ASSUME SessionInv, TidyInv, Orderly, NEW r \in Request, Receive(r)
    PROVE  TidyInv'
  <1>1. /\ req[r] # Idle /\ InPlace(r) /\ req[r].status # "error" /\ req[r].heard # "gone"
        /\ req[r].call \in {"login", "logout", "query", "change"}
    BY RequestFields DEF Orderly, SessionInv, TidyInv, Receive, Unauthorized, LogoutDone, LoginDone,
       QueryDone, Ignored, Heard
  <1>2. req'[r] = Idle /\ \A q \in Request : req[q] = Idle => req'[q] = Idle
    BY DEF Receive, Unauthorized, LogoutDone, LoginDone, QueryDone, Ignored, SignOut,
       SessionInv, TypeOK
  <1>3. CASE Unauthorized(r) \/ LogoutDone(r)
    <2>1. DOMAIN sessions = {}
      BY <1>1, <1>3 DEF Unauthorized, LogoutDone, Heard, InPlace
    <2> QED
      BY <1>1, <1>2, <1>3, <2>1, ComesToAnEnd DEF Unauthorized, LogoutDone, SignOut
  <1>4. CASE LoginDone(r)
    <2>1. DOMAIN sessions = {req[r].token} /\ req[r].token # None
      BY <1>1, <1>4 DEF LoginDone, Heard, InPlace, SessionInv, TokensIssued
    <2> QED
      BY <1>1, <1>2, <1>4, <2>1, ComesToAnEnd DEF LoginDone
  <1>5. CASE QueryDone(r) \/ Ignored(r)
    <2>1. DOMAIN sessions = {stored} /\ stored # None /\ UNCHANGED <<sessions, stored>>
      BY <1>1, <1>5 DEF QueryDone, Ignored, Heard, InPlace
    <2> QED
      BY <1>1, <1>2, <2>1, ComesToAnEnd
  <1> QED
    BY <1>3, <1>4, <1>5 DEF Receive

\* A page that is loaded again forgets a query that is in flight.
LEMMA ReloadTidy ==
    ASSUME SessionInv, TidyInv, Orderly, Orderly', Reload
    PROVE  TidyInv'
  <1>1. UNCHANGED <<sessions, stored>>
    BY DEF Reload
  <1>2. CASE \A r \in Request : req[r] = Idle
    <2>1. \A r \in Request : req'[r] = Idle
      BY <1>2 DEF Reload, Idle
    <2> QED
      BY <1>1, <1>2, <2>1 DEF TidyInv, Tidy
  <1>3. ASSUME NEW r \in Request, req[r] # Idle
        PROVE  TidyInv'
    <2>1. req[r] \in Requests /\ InPlace(r)
      BY <1>3, RequestFields DEF SessionInv, TidyInv
    <2>2. req[r].call \notin {"login", "logout"}
      <3> SUFFICES ASSUME req[r].call \in {"login", "logout"} PROVE FALSE
        OBVIOUS
      <3>1. req'[r] = [req[r] EXCEPT !.heard = "gone"]
        BY DEF Reload
      <3>2. req'[r].heard = "gone" /\ req'[r] # Idle
        BY <2>1, <3>1 DEF Requests, Idle
      <3> QED
        BY <3>2 DEF Orderly
    <2>3. req'[r] = Idle /\ \A q \in Request : req[q] = Idle => req'[q] = Idle
      BY <2>2 DEF Reload, Idle
    <2>4. DOMAIN sessions = {stored} /\ stored # None
      BY <2>1, <2>2 DEF InPlace
    <2> QED
      BY <1>1, <1>3, <2>3, <2>4, ComesToAnEnd
  <1> QED
    BY <1>2, <1>3

LEMMA StepTidy == SessionInv /\ TidyInv /\ Orderly /\ Orderly' /\ [Next]_vars => TidyInv'
  <1> SUFFICES ASSUME SessionInv, TidyInv, Orderly, Orderly', [Next]_vars PROVE TidyInv'
    OBVIOUS
  <1>1. CASE UNCHANGED vars
    BY <1>1 DEF vars, TidyInv, Tidy, InPlace
  <1> QED
    BY <1>1, SendTidy, ServeTidy, ReceiveTidy, ReloadTidy DEF Next

\* Used in order, a browser leaves no session behind: between requests the only live
\* session is that of the token it has.
THEOREM NoSessionLeftBehindCorrect == Spec => NoSessionLeftBehind
  <1>1. Init => TidyInv
    BY DEF Init, TidyInv, Tidy, None
  <1>2. TidyInv => ((\A r \in Request : req[r] = Idle) => DOMAIN sessions = {stored} \ {None})
    BY DEF TidyInv, Tidy
  <1> QED
    BY <1>1, <1>2, StepTidy, SessionInvCorrect, PTL DEF Spec, NoSessionLeftBehind
=============================================================================

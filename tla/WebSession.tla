----------------------------- MODULE WebSession -----------------------------
(***************************************************************************)
(* Sessions on both sides: the server's table of tokens and the middleware *)
(* that looks them up; in a browser with one tab the token and the query   *)
(* cache.  Requests carry the token that is stored when they are sent, and *)
(* their answers come in any order, before and after logins and logouts.   *)
(* The token in localStorage, its role and AuthContext's copies of both    *)
(* are written and removed in one go.                                      *)
(***************************************************************************)
EXTENDS Integers, FiniteSets, Functions, TLC

CONSTANTS
    Account,    \* the accounts
    Organizer,  \* the accounts with the role organizer
    Request,    \* the requests that may be in flight together
    MaxTokens,  \* bound on sessions that are created
    MaxFaults   \* bound on failed lookups of the database

ASSUME SessionAssumption ==
    /\ Organizer \subseteq Account
    /\ MaxTokens \in Nat /\ MaxFaults \in Nat

VARIABLES
    sessions,  \* sessions: a function from the live tokens to accounts
    issued,    \* the tokens that were created, all different
    stored,    \* ts_token and ts_role in localStorage, and the state of AuthContext
    cache,     \* the tokens that the data in the query cache was asked with
    req,       \* per request its call, its state and who listens to its answer
    faults

vars == <<sessions, issued, stored, cache, req, faults>>

None == 0
Token == 1..MaxTokens

Idle == [call |-> "none"]
Final == {"ok", "unauthorized", "error"}

\* token is what the request carries; of a login it is the token that it got.  The answer
\* is for the page, for the page whose cache was cleared meanwhile, or for a page that is
\* gone.
Requests ==
    [call : {"login", "logout", "query", "change"}, account : SUBSET Account,
     token : Token \cup {None}, status : {"sent", "authorized"} \cup Final,
     heard : {"page", "cleared", "gone"}]

TypeOK ==
    /\ issued \in 0..MaxTokens
    /\ DOMAIN sessions \subseteq 1..issued
    /\ \A k \in DOMAIN sessions : sessions[k] \in Account
    /\ stored \in 0..issued
    /\ cache \subseteq Token
    /\ req \in [Request -> {Idle} \cup Requests]
    /\ faults \in 0..MaxFaults

Init ==
    /\ sessions = <<>>
    /\ issued = 0
    /\ stored = None
    /\ cache = {}
    /\ req = [r \in Request |-> Idle]
    /\ faults = 0

-----------------------------------------------------------------------------
(* The browser sends.  The login page can be reached at any time, by going *)
(* back also with a session; the other pages only render with a token.     *)

Send(r, call, account, token) ==
    /\ req[r] = Idle
    /\ req' = [req EXCEPT ![r] = [call |-> call, account |-> account, token |-> token,
                                  status |-> "sent", heard |-> "page"]]

\* With the credentials of an account, or with wrong ones.
Login(r) ==
    /\ \E account \in {{}} \cup {{a} : a \in Account} : Send(r, "login", account, None)
    /\ UNCHANGED <<sessions, issued, stored, cache, faults>>

\* Mistake: the token is removed first, and the request goes without it.
LogoutCleared(r) ==
    /\ stored # None
    /\ Send(r, "logout", {}, None)
    /\ stored' = None
    /\ UNCHANGED <<sessions, issued, cache, faults>>

Logout(r) ==
    /\ stored # None
    /\ Send(r, "logout", {}, stored)
    /\ UNCHANGED <<sessions, issued, stored, cache, faults>>

\* useQuery of a page, and requests for organizers only.
Load(r) ==
    /\ stored # None
    /\ Send(r, "query", {}, stored) \/ Send(r, "change", {}, stored)
    /\ UNCHANGED <<sessions, issued, stored, cache, faults>>

-----------------------------------------------------------------------------
(* The server.                                                             *)

Becomes(r, status) == req' = [req EXCEPT ![r].status = status]

\* 401 without an account or with a wrong password; else a session with a new token.
HandleLogin(r) ==
    /\ req[r].call = "login" /\ req[r].status = "sent"
    /\ \/ /\ req[r].account = {}
          /\ Becomes(r, "unauthorized")
          /\ UNCHANGED <<sessions, issued>>
       \/ /\ issued < MaxTokens
          /\ issued' = issued + 1
          /\ \E a \in req[r].account :
                sessions' = [k \in DOMAIN sessions \cup {issued'} |->
                                IF k = issued' THEN a ELSE sessions[k]]
          /\ req' = [req EXCEPT ![r].status = "ok", ![r].account = {}, ![r].token = issued']
    /\ UNCHANGED <<stored, cache, faults>>

Forbidden(r) == req[r].call = "change" /\ sessions[req[r].token] \notin Organizer

\* Mistake: whoever may not do this is told that there is no session.
RequireRole401(r) ==
    /\ req[r].call \in {"logout", "query", "change"} /\ req[r].status = "sent"
    /\ Becomes(r, IF req[r].token \notin DOMAIN sessions \/ Forbidden(r) THEN "unauthorized"
                  ELSE "authorized")
    /\ UNCHANGED <<sessions, issued, stored, cache, faults>>

\* The session and its account are looked up.
RequireRole(r) ==
    /\ req[r].call \in {"logout", "query", "change"} /\ req[r].status = "sent"
    /\ Becomes(r, IF req[r].token \notin DOMAIN sessions THEN "unauthorized"
                  ELSE IF Forbidden(r) THEN "error" ELSE "authorized")
    /\ UNCHANGED <<sessions, issued, stored, cache, faults>>

\* An error of the database is answered as if there were no such session or account.
LookupFails(r) ==
    /\ req[r] # Idle /\ req[r].status = "sent"
    /\ faults < MaxFaults
    /\ faults' = faults + 1
    /\ Becomes(r, "unauthorized")
    /\ UNCHANGED <<sessions, issued, stored, cache>>

\* The handler behind the middleware; that of a logout deletes the session.
Handle(r) ==
    /\ req[r] # Idle /\ req[r].status = "authorized"
    /\ sessions' = IF req[r].call # "logout" THEN sessions
                   ELSE Restrict(sessions, DOMAIN sessions \ {req[r].token})
    /\ Becomes(r, "ok")
    /\ UNCHANGED <<issued, stored, cache, faults>>

\* The server answers 500, or the request or its answer is lost.
Fail(r) ==
    /\ req[r] # Idle /\ req[r].status # "error"
    /\ req' = [req EXCEPT ![r].status = "error", ![r].account = {}]
    /\ UNCHANGED <<sessions, issued, stored, cache, faults>>

-----------------------------------------------------------------------------
(* The browser receives.                                                   *)

Heard(r, status) == req[r] # Idle /\ req[r].status \in status /\ req[r].heard # "gone"

\* Mistake: queries in flight fill the cache after it was cleared.
SignOutLate(r) ==
    /\ stored' = None
    /\ cache' = {}
    /\ req' = [req EXCEPT ![r] = Idle]
    /\ UNCHANGED <<sessions, issued, faults>>

\* Token, role and cache are removed; queryClient.clear takes the queries in flight out of
\* the cache, their answers have nowhere to go.
SignOut(r) ==
    /\ stored' = None
    /\ cache' = {}
    /\ req' = [q \in Request |->
                  IF q = r THEN Idle
                  ELSE IF req[q] # Idle /\ req[q].heard = "page"
                       THEN [req[q] EXCEPT !.heard = "cleared"] ELSE req[q]]
    /\ UNCHANGED <<sessions, issued, faults>>

\* 401: whatever the request was and whichever token it carried.
Unauthorized(r) == Heard(r, {"unauthorized"}) /\ SignOut(r)

\* Mistake: only when the server could be told.
LogoutIfAnswered(r) == Heard(r, {"ok"}) /\ req[r].call = "logout" /\ SignOut(r)

\* In a finally: also when the request failed.
LogoutDone(r) == Heard(r, {"ok", "error"}) /\ req[r].call = "logout" /\ SignOut(r)

\* A login leaves the cache as it is.
LoginDone(r) ==
    /\ Heard(r, {"ok"}) /\ req[r].call = "login"
    /\ stored' = req[r].token
    /\ req' = [req EXCEPT ![r] = Idle]
    /\ UNCHANGED <<sessions, issued, cache, faults>>

QueryDone(r) ==
    /\ Heard(r, {"ok"}) /\ req[r].call = "query" /\ req[r].heard = "page"
    /\ cache' = cache \cup {req[r].token}
    /\ req' = [req EXCEPT ![r] = Idle]
    /\ UNCHANGED <<sessions, issued, stored, faults>>

\* What changes nothing here: nobody listens any more, an error is shown, or it is the
\* answer to a change.
Ignored(r) ==
    /\ req[r] # Idle /\ req[r].status \in Final
    /\ \/ req[r].heard = "gone"
       \/ req[r].call \in {"login", "query", "change"} /\ req[r].status = "error"
       \/ req[r].call = "query" /\ req[r].status = "ok" /\ req[r].heard = "cleared"
       \/ req[r].call = "change" /\ req[r].status = "ok"
    /\ req' = [req EXCEPT ![r] = Idle]
    /\ UNCHANGED <<sessions, issued, stored, cache, faults>>

\* The page is loaded again; the server goes on with what was sent, of which logins and
\* logouts matter.
Reload ==
    /\ cache' = {}
    /\ req' = [r \in Request |->
                  IF req[r].call \in {"login", "logout"} THEN [req[r] EXCEPT !.heard = "gone"]
                  ELSE Idle]
    /\ UNCHANGED <<sessions, issued, stored, faults>>

-----------------------------------------------------------------------------
Server(r) == HandleLogin(r) \/ RequireRole(r) \/ Handle(r)
Receive(r) == Unauthorized(r) \/ LogoutDone(r) \/ LoginDone(r) \/ QueryDone(r) \/ Ignored(r)

Next ==
    \/ \E r \in Request : Login(r) \/ Logout(r) \/ Load(r)
    \/ \E r \in Request : Server(r) \/ LookupFails(r) \/ Fail(r) \/ Receive(r)
    \/ Reload

\* The server answers, or fetch gives up, and the browser handles what it gets.
Fairness == \A r \in Request : WF_vars(Server(r) \/ Receive(r))

Spec == Init /\ [][Next]_vars /\ Fairness

-----------------------------------------------------------------------------
(* Correctness.                                                            *)

\* Without a token there is nobody's data in the cache, however late the answers come:
\* whoever logs in next starts with an empty cache (the comment on queryClient says why).
LoggedOutIsEmpty == stored = None => cache = {}

\* As long as the database answers, a session that the server accepts leaves the browser
\* only with a login, with a logout, or with the answer to a request that carried another
\* token: a 401 to a request of the session itself means that the session is over.
LiveSessionKept ==
    [][faults = 0 /\ stored \in DOMAIN sessions /\ stored' # stored =>
          \E r \in Request : /\ req[r] # Idle /\ req'[r] = Idle
                             /\ req[r].call \in {"login", "logout"} \/ req[r].token # stored]_vars

\* One request at a time, none lost or failed, and no login with a token.
Orderly ==
    /\ \A q, r \in Request : q = r \/ req[q] = Idle \/ req[r] = Idle
    /\ \A r \in Request : req[r] # Idle => /\ req[r].status # "error" /\ req[r].heard # "gone"
                                          /\ (req[r].call = "login" => stored = None)
    /\ faults = 0

\* Used in order, a browser leaves no session behind: between requests the only live
\* session is that of the token it has.  Tokens do not expire, so one that is left behind
\* stays valid.
NoSessionLeftBehind ==
    []Orderly => []((\A r \in Request : req[r] = Idle) => DOMAIN sessions = {stored} \ {None})

\* A click on log out removes the token from the browser, also when the server cannot be
\* reached, unless the page is loaded again first.
LogoutEnds ==
    \A r \in Request :
       (req[r].call = "logout" /\ req[r].heard # "gone")
          ~> (stored = None \/ (req[r] # Idle /\ req[r].heard = "gone"))
=============================================================================

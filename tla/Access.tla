------------------------------- MODULE Access -------------------------------
(***************************************************************************)
(* Sessions: the tokens of the backend (tokenStore, login and the          *)
(* middleware of backend/internal/api/handler.go), which live as long as   *)
(* its process, and the dashboards that hold them                          *)
(* (frontend/src/api/client.ts, App.tsx): what is in sessionStorage, which *)
(* page is shown, and the calls under way, which may be answered in any    *)
(* order and after the page has changed.  Any other HTTP client may make   *)
(* any call with any token.  How the process starts and ends is the        *)
(* subject of Startup.                                                     *)
(*                                                                         *)
(* Three calls stand for the protected routes: "load" is the dashboard's   *)
(* own poll of /api/instances, "poll" any other call that every user may   *)
(* make, "admin" one for administrators.                                   *)
(*                                                                         *)
(* A definition named ...Mutant is a plausible mistake in the definition   *)
(* after it; no specification uses it.                                     *)
(***************************************************************************)
EXTENDS Naturals, FiniteSets

CONSTANTS
    Dashboards,
    MaxRestarts,   \* bound on how often the backend ends
    MaxTokens,     \* bound on the tokens created
    MaxLoads,      \* bound on a dashboard's own polls under way
    MaxCalls       \* bound on its other calls under way

ASSUME AccessBounds ==
    /\ MaxRestarts \in Nat
    /\ MaxTokens \in Nat
    /\ MaxLoads \in Nat
    /\ MaxCalls \in Nat

VARIABLES
    up,         \* does the backend serve?
    restarts,   \* how often it has ended
    tokens,     \* tokenStore: the role of each token, "" if there is none
    origin,     \* history: the password that each token was given for
    served,     \* history: tokens for which an administrator's operation was carried
                \*   out, or that were shown the addresses of clients; 0: without any
    stored,     \* sessionStorage: token (0: none) and role
    page,       \* authenticated: "main", or "login"
    isAdmin,
    modal,      \* showAdminModal
    calls       \* calls under way

dashVars == <<stored, page, isAdmin, modal, calls>>
vars == <<up, restarts, tokens, origin, served, dashVars>>

Tokens == 1..MaxTokens
Roles == {"user", "admin"}
NoSession == [token |-> 0, role |-> ""]
Operations == {"load", "poll", "admin"}

\* status: not answered yet; "ok"; 401; "refused": 403, or no answer to be had; "caught":
\* load has read the body of a 401.  A login carries a password, any other call the
\* token that was stored.
Calls ==
    [op : Operations, token : {0} \cup Tokens,
     status : {"sent", "ok", "unauthorized", "refused", "caught"}]
    \cup
    [op : {"login", "modal"}, password : Roles \cup {"wrong"}, token : {0} \cup Tokens,
     role : Roles \cup {""}, status : {"sent", "ok", "unauthorized", "refused"}]

TypeOK ==
    /\ up \in BOOLEAN
    /\ restarts \in 0..MaxRestarts
    /\ tokens \in [Tokens -> Roles \cup {""}]
    /\ origin \in [Tokens -> Roles \cup {""}]
    /\ served \subseteq {0} \cup Tokens
    /\ stored \in [Dashboards -> [token : Tokens, role : Roles] \cup {NoSession}]
    /\ page \in [Dashboards -> {"login", "main"}]
    /\ isAdmin \in [Dashboards -> BOOLEAN]
    /\ modal \in [Dashboards -> BOOLEAN]
    /\ calls \in [Dashboards -> SUBSET Calls]

Init ==
    /\ up = TRUE
    /\ restarts = 0
    /\ tokens = [t \in Tokens |-> ""]
    /\ origin = tokens
    /\ served = {}
    /\ stored = [d \in Dashboards |-> NoSession]
    /\ page = [d \in Dashboards |-> "login"]
    /\ isAdmin = [d \in Dashboards |-> FALSE]
    /\ modal = [d \in Dashboards |-> FALSE]
    /\ calls = [d \in Dashboards |-> {}]

----------------------------------------------------------------------------
(* The backend.                                                            *)

\* The tokens end with the process.
End ==
    /\ up /\ restarts < MaxRestarts
    /\ up' = FALSE
    /\ restarts' = restarts + 1
    /\ tokens' = [t \in Tokens |-> ""]
    /\ UNCHANGED <<origin, served, dashVars>>

Restart ==
    /\ ~up
    /\ up' = TRUE
    /\ UNCHANGED <<restarts, tokens, origin, served, dashVars>>

Becomes(d, c, answer) == calls' = [calls EXCEPT ![d] = (@ \ {c}) \cup {answer}]

\* login: a token for either password.
Role(password) == IF password \in Roles THEN password ELSE ""

Login(d, c) ==
    /\ up
    /\ c.op \in {"login", "modal"} /\ c.status = "sent"
    /\ \/ /\ Role(c.password) = ""
          /\ Becomes(d, c, [c EXCEPT !.status = "unauthorized"])
          /\ UNCHANGED <<tokens, origin>>
       \/ /\ Role(c.password) # ""
          /\ \E t \in Tokens :
               /\ origin[t] = "" /\ \A u \in Tokens : u < t => origin[u] # ""
               /\ tokens' = [tokens EXCEPT ![t] = Role(c.password)]
               /\ origin' = [origin EXCEPT ![t] = c.password]
               /\ Becomes(d, c, [c EXCEPT !.status = "ok", !.token = t, !.role = Role(c.password)])
    /\ UNCHANGED <<up, restarts, served, stored, page, isAdmin, modal>>

\* authMiddleware, adminMiddleware, and sanitizeClients on what is answered.
RoleOf(token) == IF token = 0 THEN "" ELSE tokens[token]
StatusMutant(op, role) == IF role = "" THEN "unauthorized" ELSE "ok"
Status(op, role) ==
    CASE role = "" -> "unauthorized"
      [] role # "" /\ op = "admin" /\ role # "admin" -> "refused"
      [] OTHER -> "ok"
Full(role) == role = "admin"

Privileged(op, token) ==
    Status(op, RoleOf(token)) = "ok" /\ (op = "admin" \/ Full(RoleOf(token)))
ServeFor(op, token) == served' = IF Privileged(op, token) THEN served \cup {token} ELSE served

Serve(d, c) ==
    /\ up
    /\ c.op \in Operations /\ c.status = "sent"
    /\ ServeFor(c.op, c.token)
    /\ Becomes(d, c, [c EXCEPT !.status = Status(c.op, RoleOf(c.token))])
    /\ UNCHANGED <<up, restarts, tokens, origin, stored, page, isAdmin, modal>>

\* A call that no dashboard makes, with a token of whomever, or none.
ServeOther(op, token) ==
    /\ up
    /\ ServeFor(op, token)
    /\ UNCHANGED <<up, restarts, tokens, origin, dashVars>>

\* blockMiddleware, or no connection to a backend.
Refuse(d, c) ==
    /\ c.status = "sent"
    /\ Becomes(d, c, [c EXCEPT !.status = "refused"])
    /\ UNCHANGED <<up, restarts, tokens, origin, served, stored, page, isAdmin, modal>>

----------------------------------------------------------------------------
(* The dashboard: calls.                                                   *)

Send(d, c) ==
    /\ LET loads == {k \in calls[d] : k.op = "load"}
       IN  IF c.op = "load" THEN Cardinality(loads) < MaxLoads
                            ELSE Cardinality(calls[d] \ loads) < MaxCalls
    /\ c \notin calls[d]
    /\ calls' = [calls EXCEPT ![d] = @ \cup {c}]
    /\ UNCHANGED <<up, restarts, tokens, origin, served, stored, page, isAdmin, modal>>

Request(d, op) ==
    /\ page[d] = "main"
    /\ op = "admin" => isAdmin[d]
    /\ Send(d, [op |-> op, token |-> stored[d].token, status |-> "sent"])

\* The form of the login page, or of the dialog for administrators, is submitted; a
\* form waits for its answer, but the dialog may be closed and opened again.
Submit(d, op, password) ==
    /\ IF op = "login" THEN page[d] = "login" ELSE page[d] = "main" /\ modal[d]
    /\ op = "login" => \A c \in calls[d] : c.op # "login"
    /\ Send(d, [op |-> op, password |-> password, token |-> 0, role |-> "", status |-> "sent"])

\* The logo, and the dialog's button; the dialog disappears with the page, and is
\* there again when the page is.
ToggleModal(d) ==
    /\ page[d] = "main" /\ (modal[d] \/ ~isAdmin[d])
    /\ modal' = [modal EXCEPT ![d] = ~@]
    /\ UNCHANGED <<up, restarts, tokens, origin, served, stored, page, isAdmin, calls>>

\* The page is loaded again, and calls under way are forgotten.
Reload(d) ==
    /\ page' = [page EXCEPT ![d] = IF stored[d].token # 0 THEN "main" ELSE "login"]
    /\ isAdmin' = [isAdmin EXCEPT ![d] = stored[d].role = "admin"]
    /\ modal' = [modal EXCEPT ![d] = FALSE]
    /\ calls' = [calls EXCEPT ![d] = {}]
    /\ UNCHANGED <<up, restarts, tokens, origin, served, stored>>

----------------------------------------------------------------------------
(* The dashboard: answers.                                                 *)

Clear(d) == stored' = [stored EXCEPT ![d] = NoSession]
Save(d, c) == stored' = [stored EXCEPT ![d] = [token |-> c.token, role |-> c.role]]
Done(d, c) == calls' = [calls EXCEPT ![d] = @ \ {c}]

\* request: a 401 clears the storage; load goes on when it has read the body.
ClearsMutant(c) == c.status \in {"unauthorized", "refused"}
Clears(c) == c.status = "unauthorized"

Answered(d, c) ==
    /\ c.op \in Operations /\ c.status \in {"ok", "unauthorized", "refused"}
    /\ IF Clears(c) THEN Clear(d) ELSE UNCHANGED stored
    /\ IF c.op = "load" /\ c.status = "unauthorized"
         THEN Becomes(d, c, [c EXCEPT !.status = "caught"])
         ELSE Done(d, c)
    /\ UNCHANGED <<up, restarts, tokens, origin, served, page, isAdmin, modal>>

\* The catch block of load.
LogOutMutant(d) == UNCHANGED <<page, isAdmin>>
LogOut(d) ==
    /\ page' = [page EXCEPT ![d] = "login"]
    /\ isAdmin' = [isAdmin EXCEPT ![d] = FALSE]

Expired(d, c) ==
    /\ c.op = "load" /\ c.status = "caught"
    /\ Clear(d)
    /\ LogOut(d)
    /\ Done(d, c)
    /\ UNCHANGED <<up, restarts, tokens, origin, served, modal>>

\* LoginPage.handleSubmit and handleLogin.
AdminAfterMutant(d, role) == isAdmin[d] \/ role = "admin"
AdminAfter(d, role) == role = "admin"

LoggedIn(d, c) ==
    /\ c.op = "login" /\ c.status = "ok"
    /\ Save(d, c)
    /\ page' = [page EXCEPT ![d] = "main"]
    /\ isAdmin' = [isAdmin EXCEPT ![d] = AdminAfter(d, c.role)]
    /\ Done(d, c)
    /\ UNCHANGED <<up, restarts, tokens, origin, served, modal>>

\* AdminPasswordModal.handleSubmit and handleAdminSuccess.
BecameAdmin(d, c) ==
    /\ c.op = "modal" /\ c.status = "ok" /\ c.role = "admin"
    /\ Save(d, c)
    /\ isAdmin' = [isAdmin EXCEPT ![d] = TRUE]
    /\ modal' = [modal EXCEPT ![d] = FALSE]
    /\ Done(d, c)
    /\ UNCHANGED <<up, restarts, tokens, origin, served, page>>

\* An error message is shown.
NotLoggedIn(d, c) ==
    /\ c.op \in {"login", "modal"} /\ c.status # "sent"
    /\ c.status # "ok" \/ (c.op = "modal" /\ c.role # "admin")
    /\ Done(d, c)
    /\ UNCHANGED <<up, restarts, tokens, origin, served, stored, page, isAdmin, modal>>

Deliver(d, c) ==
    Answered(d, c) \/ Expired(d, c) \/ LoggedIn(d, c) \/ BecameAdmin(d, c) \/ NotLoggedIn(d, c)

----------------------------------------------------------------------------

Ends(d, c) == Login(d, c) \/ Serve(d, c) \/ Refuse(d, c)
Respond == \E d \in Dashboards : \E c \in calls[d] : Ends(d, c)
Delivers(d) == \E c \in calls[d] : Deliver(d, c)

Next ==
    \/ End
    \/ Restart
    \/ Respond
    \/ \E op \in Operations, token \in {0} \cup Tokens : ServeOther(op, token)
    \/ \E d \in Dashboards :
         \/ \E op \in Operations : Request(d, op)
         \/ \E op \in {"login", "modal"}, password \in Roles \cup {"wrong"} : Submit(d, op, password)
         \/ ToggleModal(d) \/ Reload(d)
         \/ Delivers(d)

Spec == Init /\ [][Next]_vars

\* The process is restarted (docker-compose.yml:2).  A page that is open goes on
\* polling (App.tsx:326), and of its polls not every one is refused, or forgotten when the
\* page is loaded again.
FairSpec ==
    /\ Spec
    /\ WF_vars(Restart)
    /\ \A d \in Dashboards :
         LET Loads(Step(_, _), states) == \E c \in calls[d] : c.op = "load" /\ c.status \in states /\ Step(d, c)
         IN  /\ SF_vars(Request(d, "load"))
             /\ SF_vars(Loads(Serve, {"sent"}))
             /\ WF_vars(Loads(Answered, {"ok", "refused"}))
             /\ SF_vars(Loads(Answered, {"unauthorized"}))
             /\ SF_vars(Loads(Expired, {"caught"}))

----------------------------------------------------------------------------
(* Properties.                                                             *)

Live(token) == token # 0 /\ tokens[token] # ""

\* An administrator's operation is carried out, and addresses of clients are shown,
\* only for a token that the administrator's password was given for, whoever makes the
\* call, and also after a restart (handler.go:201-218, 262-271, 392-402).
AdminOnly == \A token \in served : token # 0 /\ origin[token] = "admin"

\* The page shows what its session may do, whatever answers come late: a dialog's
\* after the page is gone, or a 401 to a call of an earlier session (App.tsx:311-314,
\* 330-338).
RoleShown ==
    \A d \in Dashboards :
        page[d] = "main" /\ stored[d].token # 0 =>
            /\ isAdmin[d] = (stored[d].role = "admin")
            /\ stored[d].role = origin[stored[d].token]

\* A session that the backend knows does not end by the answer to a call of its own:
\* a token is good as long as the process runs (handler.go:29-53), and nothing but a 401
\* ends a session (client.ts:59-62).
Ended(d) == Live(stored[d].token) /\ stored'[d] = NoSession
OwnCallsKeepSession ==
    [][\A d \in Dashboards :
         Ended(d) => \E c \in calls[d] \ calls'[d] : c.token # stored[d].token]_vars

\* A page does not stay open over a session that has ended: the next polls bring the
\* login page, or the user has a session again.
NoGhost ==
    \A d \in Dashboards :
        page[d] = "main" /\ ~Live(stored[d].token) ~> page[d] = "login" \/ Live(stored[d].token)
=============================================================================

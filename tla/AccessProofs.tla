---------------------------- MODULE AccessProofs ----------------------------
(***************************************************************************)
(* Theorems about Access for any dashboards, tokens, calls and restarts.   *)
(***************************************************************************)
EXTENDS Access, TLAPS

\* What is known of a call: a token was given for the password of the role that comes
\* with it, and a 401 was given for a token that is dead, which it stays.
CallInv(c) ==
    IF c.op \in Operations
      THEN /\ c.token # 0 => origin[c.token] # ""
           /\ c.status \in {"unauthorized", "caught"} => ~Live(c.token)
      ELSE c.status = "ok" => c.token \in Tokens /\ c.role = origin[c.token] /\ c.role \in Roles

SessionInv ==
    /\ TypeOK
    /\ \A t \in Tokens : tokens[t] \in {origin[t], ""}
    /\ \A d \in Dashboards : stored[d].token # 0 => stored[d].role = origin[stored[d].token]
    /\ RoleShown
    /\ AdminOnly
    /\ \A d \in Dashboards : \A c \in calls[d] : CallInv(c)

LEMMA TokensArePositive == 0 \notin Tokens
  BY DEF Tokens

LEMMA CallTypes ==
    /\ \A c \in Calls : /\ c.op \in Operations \cup {"login", "modal"}
                        /\ c.token \in {0} \cup Tokens
                        /\ c.status \in {"sent", "ok", "unauthorized", "refused", "caught"}
    /\ \A c \in Calls : c.op \notin Operations => c.role \in Roles \cup {""} /\ c.password \in Roles \cup {"wrong"}
  BY DEF Calls, Operations

\* The calls that are answered, with each status that they may get.
LEMMA AnswerTypes ==
    /\ \A c \in Calls : c.op \in Operations =>
         \A s \in {"sent", "ok", "unauthorized", "refused", "caught"} :
            [c EXCEPT !.status = s] \in Calls
    /\ \A c \in Calls : c.op \in {"login", "modal"} =>
         /\ \A s \in {"sent", "ok", "unauthorized", "refused"} : [c EXCEPT !.status = s] \in Calls
         /\ \A t \in Tokens, r \in Roles :
              [c EXCEPT !.status = "ok", !.token = t, !.role = r] \in Calls
  BY DEF Calls, Operations

LEMMA SessionInit == Init => SessionInv
<1> SUFFICES ASSUME Init PROVE SessionInv
  OBVIOUS
<1>1. TypeOK
  <2>1. up \in BOOLEAN
    BY DEF Init
  <2>4. restarts \in 0..MaxRestarts
    <3>1. restarts = 0
      BY DEF Init
    <3> QED
      BY <3>1, AccessBounds DEF AccessBounds
  <2>2. /\ tokens \in [Tokens -> Roles \cup {""}] /\ origin \in [Tokens -> Roles \cup {""}]
        /\ served \subseteq {0} \cup Tokens
    BY DEF Init
  <2>3. /\ stored \in [Dashboards -> [token : Tokens, role : Roles] \cup {NoSession}]
        /\ page \in [Dashboards -> {"login", "main"}]
        /\ isAdmin \in [Dashboards -> BOOLEAN]
        /\ modal \in [Dashboards -> BOOLEAN]
        /\ calls \in [Dashboards -> SUBSET Calls]
    BY DEF Init
  <2> QED
    BY <2>1, <2>2, <2>3, <2>4 DEF TypeOK
<1> QED
  BY <1>1 DEF Init, SessionInv, RoleShown, AdminOnly, NoSession

\* Tokens once given keep their password, and once dead stay dead: so what is known of
\* a call stays known.
TokensMove ==
    \A t \in Tokens : origin[t] # "" =>
        origin'[t] = origin[t] /\ (tokens[t] = "" => tokens'[t] = "")

LEMMA CallKept ==
    ASSUME NEW c \in Calls, CallInv(c), TokensMove
    PROVE  CallInv(c)'
<1>1. CASE c.op \in Operations
  <2>1. c.token = 0 \/ c.token \in Tokens
    BY CallTypes
  <2> QED
    BY <1>1, <2>1, TokensArePositive DEF CallInv, TokensMove, Live
<1>2. CASE c.op \notin Operations
  <2>1. CASE c.status = "ok"
    BY <1>2, <2>1 DEF CallInv, TokensMove, Roles
  <2>2. CASE c.status # "ok"
    BY <1>2, <2>2 DEF CallInv
  <2> QED
    BY <2>1, <2>2
<1> QED
  BY <1>1, <1>2
----------------------------------------------------------------------------
(* The steps.                                                              *)

\* A stored session is none, or one of a token.
LEMMA StoredType ==
    ASSUME SessionInv, NEW d \in Dashboards, stored[d].token # 0
    PROVE  /\ stored[d] \in [token : Tokens, role : Roles]
           /\ origin[stored[d].token] # ""
<1>1. stored[d] \in [token : Tokens, role : Roles] \cup {NoSession}
  BY DEF SessionInv, TypeOK
<1>2. NoSession.token = 0
  BY DEF NoSession
<1>3. stored[d] \in [token : Tokens, role : Roles]
  BY <1>1, <1>2
<1> QED
  BY <1>3 DEF SessionInv, Roles

\* A step that only changes calls and the flag of the dialog.
LEMMA CallsStep ==
    ASSUME SessionInv, TokensMove,
           \A t \in Tokens : tokens'[t] \in {origin'[t], ""},
           tokens' \in [Tokens -> Roles \cup {""}], origin' \in [Tokens -> Roles \cup {""}],
           up' \in BOOLEAN, restarts' \in 0..MaxRestarts,
           served' \subseteq {0} \cup Tokens, AdminOnly',
           modal' \in [Dashboards -> BOOLEAN], calls' \in [Dashboards -> SUBSET Calls],
           UNCHANGED <<stored, page, isAdmin>>,
           \A d \in Dashboards : \A c \in calls'[d] : c \in calls[d] \/ (c \in Calls /\ CallInv(c)')
    PROVE  SessionInv'
<1>1. TypeOK'
  BY DEF SessionInv, TypeOK
<1>2. \A d \in Dashboards : stored[d].token # 0 =>
        stored[d].token \in Tokens /\ origin'[stored[d].token] = origin[stored[d].token]
  <2> SUFFICES ASSUME NEW d \in Dashboards, stored[d].token # 0
               PROVE  stored[d].token \in Tokens /\ origin'[stored[d].token] = origin[stored[d].token]
    OBVIOUS
  <2>1. stored[d] \in [token : Tokens, role : Roles] /\ origin[stored[d].token] # ""
    BY StoredType
  <2> QED
    BY <2>1 DEF TokensMove
<1>3. RoleShown'
  BY <1>2 DEF SessionInv, RoleShown
<1>4. \A d \in Dashboards : \A c \in calls'[d] : CallInv(c)'
  BY CallKept DEF SessionInv, TypeOK
<1> QED
  BY <1>1, <1>2, <1>3, <1>4 DEF SessionInv

\* What was served for an administrator's token was, whatever tokens are given since.
LEMMA ServedKept ==
    ASSUME SessionInv, TokensMove, served' = served
    PROVE  served' \subseteq {0} \cup Tokens /\ AdminOnly'
  BY DEF SessionInv, TypeOK, AdminOnly, TokensMove

\* A call by whomever is served as an administrator's only with such a token.
LEMMA ServedStep ==
    ASSUME SessionInv, NEW op, NEW token \in {0} \cup Tokens, ServeFor(op, token),
           UNCHANGED origin
    PROVE  served' \subseteq {0} \cup Tokens /\ AdminOnly'
<1>1. Privileged(op, token) => RoleOf(token) = "admin"
  BY DEF Privileged, Status, Full
<1>2. RoleOf(token) = "admin" => token \in Tokens /\ origin[token] = "admin"
  BY DEF RoleOf, SessionInv
<1>3. served \subseteq {0} \cup Tokens /\ AdminOnly
  BY DEF SessionInv, TypeOK
<1> QED
  BY <1>1, <1>2, <1>3, TokensArePositive DEF ServeFor, AdminOnly

LEMMA BackendStep ==
    ASSUME SessionInv, End \/ Restart PROVE SessionInv'
<1>1. TokensMove /\ (\A t \in Tokens : tokens'[t] \in {origin'[t], ""})
  BY DEF SessionInv, End, Restart, TokensMove
<1>2. tokens' \in [Tokens -> Roles \cup {""}] /\ origin' \in [Tokens -> Roles \cup {""}]
  BY DEF SessionInv, TypeOK, End, Restart
<1>3. up' \in BOOLEAN
  BY DEF End, Restart
<1>5. restarts' \in 0..MaxRestarts
  <2>1. restarts \in 0..MaxRestarts /\ MaxRestarts \in Nat
    BY AccessBounds DEF AccessBounds, SessionInv, TypeOK
  <2>2. restarts' = restarts \/ (restarts < MaxRestarts /\ restarts' = restarts + 1)
    BY DEF End, Restart
  <2> QED
    BY <2>1, <2>2
<1>6. served' \subseteq {0} \cup Tokens /\ AdminOnly'
  BY <1>1, ServedKept DEF End, Restart
<1>4. UNCHANGED dashVars /\ modal' \in [Dashboards -> BOOLEAN] /\ calls' \in [Dashboards -> SUBSET Calls]
  BY DEF SessionInv, TypeOK, End, Restart, dashVars
<1> QED
  BY <1>1, <1>2, <1>3, <1>4, <1>5, <1>6, CallsStep DEF dashVars

\* A call is sent, or answered by the backend.
LEMMA QuietCalls ==
    ASSUME SessionInv, UNCHANGED <<up, restarts, tokens, origin, stored, page, isAdmin>>,
           served' \subseteq {0} \cup Tokens, AdminOnly',
           modal' \in [Dashboards -> BOOLEAN], calls' \in [Dashboards -> SUBSET Calls],
           \A d \in Dashboards : \A c \in calls'[d] : c \in calls[d] \/ (c \in Calls /\ CallInv(c))
    PROVE  SessionInv'
<1>1. \A c : CallInv(c) => CallInv(c)'
  BY DEF CallInv, Live
<1> QED
  BY <1>1, CallsStep DEF SessionInv, TypeOK, TokensMove

LEMMA SameServed ==
    ASSUME SessionInv, UNCHANGED <<origin, served>>
    PROVE  served' \subseteq {0} \cup Tokens /\ AdminOnly'
  BY DEF SessionInv, TypeOK, AdminOnly

LEMMA AnswerStep ==
    ASSUME SessionInv, NEW d \in Dashboards, NEW c \in calls[d], NEW a \in Calls, CallInv(a),
           Becomes(d, c, a), served' \subseteq {0} \cup Tokens, AdminOnly',
           UNCHANGED <<up, restarts, tokens, origin, stored, page, isAdmin, modal>>
    PROVE  SessionInv'
<1>1. modal \in [Dashboards -> BOOLEAN] /\ calls \in [Dashboards -> SUBSET Calls]
  BY DEF SessionInv, TypeOK
<1>2. /\ calls' \in [Dashboards -> SUBSET Calls]
      /\ \A e \in Dashboards : \A k \in calls'[e] : k \in calls[e] \/ (k \in Calls /\ CallInv(k))
  BY <1>1 DEF Becomes
<1> QED
  BY <1>1, <1>2, QuietCalls

LEMMA LoginStep ==
    ASSUME SessionInv, NEW d \in Dashboards, NEW c \in calls[d], Login(d, c)
    PROVE  SessionInv'
<1>1. c \in Calls /\ c.op \in {"login", "modal"} /\ c.op \notin Operations
  BY DEF SessionInv, TypeOK, Login, Operations
<1>2. CASE Role(c.password) = ""
  <2>1. [c EXCEPT !.status = "unauthorized"] \in Calls
    BY <1>1, AnswerTypes
  <2>2. CallInv([c EXCEPT !.status = "unauthorized"])
    BY <1>1, CallTypes DEF CallInv, Calls, Operations
  <2> QED
    BY <1>2, <2>1, <2>2, AnswerStep, SameServed DEF Login
<1>3. CASE Role(c.password) # ""
  <2>1. PICK t \in Tokens :
          /\ origin[t] = ""
          /\ tokens' = [tokens EXCEPT ![t] = Role(c.password)]
          /\ origin' = [origin EXCEPT ![t] = c.password]
          /\ Becomes(d, c, [c EXCEPT !.status = "ok", !.token = t, !.role = Role(c.password)])
    BY <1>3 DEF Login
  <2> DEFINE a == [c EXCEPT !.status = "ok", !.token = t, !.role = Role(c.password)]
  <2>2. Role(c.password) \in Roles /\ Role(c.password) = c.password
    BY <1>3 DEF Role
  <2>3. a \in Calls
    BY <1>1, <2>2, AnswerTypes
  <2>4. a.op = c.op /\ a.token = t /\ a.role = c.password
    BY <1>1, <2>2 DEF Calls, Operations
  <2>5. CallInv(a)'
    <3>1. origin'[t] = c.password
      BY <2>1 DEF SessionInv, TypeOK
    <3> HIDE DEF a
    <3> QED
      BY <1>1, <2>2, <2>4, <3>1 DEF CallInv
  <2>6. TokensMove
    BY <2>1 DEF TokensMove, SessionInv, TypeOK
  <2>7. /\ \A u \in Tokens : tokens'[u] \in {origin'[u], ""}
        /\ tokens' \in [Tokens -> Roles \cup {""}] /\ origin' \in [Tokens -> Roles \cup {""}]
    BY <2>1, <2>2 DEF SessionInv, TypeOK
  <2>8. /\ calls' \in [Dashboards -> SUBSET Calls]
        /\ \A e \in Dashboards : \A k \in calls'[e] : k \in calls[e] \/ (k \in Calls /\ CallInv(k)')
    <3>1. Becomes(d, c, a) /\ calls \in [Dashboards -> SUBSET Calls]
      BY <2>1 DEF SessionInv, TypeOK
    <3> HIDE DEF a
    <3> QED
      BY <2>3, <2>5, <3>1 DEF Becomes
  <2> QED
    BY <2>6, <2>7, <2>8, CallsStep, ServedKept DEF Login, SessionInv, TypeOK
<1> QED
  BY <1>2, <1>3
LEMMA ServeStep ==
    ASSUME SessionInv, NEW d \in Dashboards, NEW c \in calls[d], Serve(d, c)
    PROVE  SessionInv'
<1> DEFINE status == Status(c.op, RoleOf(c.token))
           a == [c EXCEPT !.status = status]
<1>1. c \in Calls /\ c.op \in Operations /\ CallInv(c) /\ Becomes(d, c, a)
  BY DEF SessionInv, TypeOK, Serve
<1>2. status \in {"ok", "unauthorized", "refused"}
  BY DEF Status
<1>3. a \in Calls /\ a.op = c.op /\ a.token = c.token /\ a.status = status
  <2>1. a \in Calls
    BY <1>1, <1>2, AnswerTypes
  <2> QED
    BY <1>1, <2>1 DEF Calls, Operations
<1>4. status \in {"unauthorized", "caught"} => ~Live(c.token)
  BY DEF Status, RoleOf, Live
<1>5. CallInv(a)
  <2>1. c.token # 0 => origin[c.token] # ""
    BY <1>1 DEF CallInv
  <2> HIDE DEF a, status
  <2> QED
    BY <1>1, <1>3, <1>4, <2>1 DEF CallInv
<1>6. served' \subseteq {0} \cup Tokens /\ AdminOnly'
  BY <1>1, CallTypes, ServedStep DEF Serve
<1> QED
  BY <1>1, <1>3, <1>5, <1>6, AnswerStep DEF Serve

LEMMA ServeOtherStep ==
    ASSUME SessionInv, NEW op, NEW token \in {0} \cup Tokens, ServeOther(op, token)
    PROVE  SessionInv'
<1>1. served' \subseteq {0} \cup Tokens /\ AdminOnly'
  BY ServedStep DEF ServeOther
<1>2. modal' \in [Dashboards -> BOOLEAN] /\ calls' \in [Dashboards -> SUBSET Calls] /\ calls' = calls
  BY DEF SessionInv, TypeOK, ServeOther, dashVars
<1> QED
  BY <1>1, <1>2, QuietCalls DEF ServeOther, dashVars

LEMMA RefuseStep ==
    ASSUME SessionInv, NEW d \in Dashboards, NEW c \in calls[d], Refuse(d, c)
    PROVE  SessionInv'
<1> DEFINE a == [c EXCEPT !.status = "refused"]
<1>1. c \in Calls /\ CallInv(c) /\ Becomes(d, c, a)
  BY DEF SessionInv, TypeOK, Refuse
<1>2. a \in Calls
  BY <1>1, CallTypes, AnswerTypes
<1>3. a.status = "refused" /\ a.op = c.op /\ a.token = c.token
  BY <1>1 DEF Calls
<1>4. CallInv(a)
  <2> HIDE DEF a
  <2> QED
    BY <1>1, <1>3 DEF CallInv
<1> QED
  BY <1>1, <1>2, <1>4, AnswerStep, SameServed DEF Refuse

\* The user's side: a call is sent, the dialog opens or closes, the page is loaded again.
LEMMA SendStep ==
    ASSUME SessionInv, NEW d \in Dashboards, NEW c \in Calls, CallInv(c), Send(d, c)
    PROVE  SessionInv'
<1>1. modal \in [Dashboards -> BOOLEAN] /\ calls \in [Dashboards -> SUBSET Calls]
  BY DEF SessionInv, TypeOK
<1>2. calls' = [calls EXCEPT ![d] = @ \cup {c}]
  BY DEF Send
<1>3. /\ calls' \in [Dashboards -> SUBSET Calls]
      /\ \A e \in Dashboards : \A k \in calls'[e] : k \in calls[e] \/ (k \in Calls /\ CallInv(k))
  BY <1>1, <1>2
<1> QED
  BY <1>1, <1>3, QuietCalls, SameServed DEF Send

LEMMA RequestStep ==
    ASSUME SessionInv, NEW d \in Dashboards, NEW op \in Operations, Request(d, op)
    PROVE  SessionInv'
<1> DEFINE c == [op |-> op, token |-> stored[d].token, status |-> "sent"]
<1>1. stored[d].token = 0 \/ (stored[d].token \in Tokens /\ origin[stored[d].token] # "")
  BY StoredType DEF SessionInv, Roles
<1>2. op # "" /\ c \in Calls
  BY <1>1 DEF Calls, Operations
<1>3. CallInv(c)
  BY <1>1 DEF CallInv
<1> QED
  BY <1>2, <1>3, SendStep DEF Request

LEMMA SubmitStep ==
    ASSUME SessionInv, NEW d \in Dashboards, NEW op \in {"login", "modal"},
           NEW password \in Roles \cup {"wrong"}, Submit(d, op, password)
    PROVE  SessionInv'
<1> DEFINE c == [op |-> op, password |-> password, token |-> 0, role |-> "", status |-> "sent"]
<1>1. c \in Calls
  BY DEF Calls
<1>2. CallInv(c)
  BY DEF CallInv, Operations
<1> QED
  BY <1>1, <1>2, SendStep DEF Submit

LEMMA ToggleStep ==
    ASSUME SessionInv, NEW d \in Dashboards, ToggleModal(d)
    PROVE  SessionInv'
<1>1. modal' \in [Dashboards -> BOOLEAN] /\ calls' = calls /\ calls \in [Dashboards -> SUBSET Calls]
  BY DEF SessionInv, TypeOK, ToggleModal
<1> QED
  BY <1>1, QuietCalls, SameServed DEF ToggleModal

\* A step of dashboard d that changes its session: calls only go, or change as load does.
LEMMA DashboardStep ==
    ASSUME SessionInv, NEW d \in Dashboards, UNCHANGED <<up, restarts, tokens, origin, served>>,
           calls' \in [Dashboards -> SUBSET Calls],
           \A e \in Dashboards : \A k \in calls'[e] : k \in calls[e] \/ CallInv(k),
           NEW s \in [token : Tokens, role : Roles] \cup {NoSession},
           NEW p \in {"login", "main"}, NEW b \in BOOLEAN,
           stored' = [stored EXCEPT ![d] = s], page' = [page EXCEPT ![d] = p],
           isAdmin' = [isAdmin EXCEPT ![d] = b], modal' \in [Dashboards -> BOOLEAN],
           s.token # 0 => s.role = origin[s.token],
           p = "main" /\ s.token # 0 => b = (s.role = "admin")
    PROVE  SessionInv'
<1>1. \A c : CallInv(c) => CallInv(c)'
  BY DEF CallInv, Live
<1>2. TypeOK'
  BY DEF SessionInv, TypeOK
<1>3. /\ stored'[d] = s /\ page'[d] = p /\ isAdmin'[d] = b
      /\ \A e \in Dashboards \ {d} :
           stored'[e] = stored[e] /\ page'[e] = page[e] /\ isAdmin'[e] = isAdmin[e]
  BY DEF SessionInv, TypeOK
<1>4. ASSUME NEW e \in Dashboards
      PROVE  /\ stored'[e].token # 0 => stored'[e].role = origin'[stored'[e].token]
             /\ page'[e] = "main" /\ stored'[e].token # 0 =>
                  /\ isAdmin'[e] = (stored'[e].role = "admin")
                  /\ stored'[e].role = origin'[stored'[e].token]
  <2>1. CASE e = d
    BY <1>3, <2>1
  <2>2. CASE e # d
    <3>1. /\ stored[e].token # 0 => stored[e].role = origin[stored[e].token]
          /\ page[e] = "main" /\ stored[e].token # 0 => isAdmin[e] = (stored[e].role = "admin")
      BY DEF SessionInv, RoleShown
    <3> QED
      BY <1>3, <2>2, <3>1
  <2> QED
    BY <2>1, <2>2
<1>5. RoleShown'
  BY <1>4 DEF RoleShown
<1>6. \A e \in Dashboards : \A k \in calls'[e] : CallInv(k)'
  BY <1>1 DEF SessionInv
<1> QED
  BY <1>2, <1>4, <1>5, <1>6, SameServed DEF SessionInv

LEMMA ReloadStep ==
    ASSUME SessionInv, NEW d \in Dashboards, Reload(d)
    PROVE  SessionInv'
<1> DEFINE p == IF stored[d].token # 0 THEN "main" ELSE "login"
           b == (stored[d].role = "admin")
<1>1. /\ calls' \in [Dashboards -> SUBSET Calls]
      /\ \A e \in Dashboards : \A k \in calls'[e] : k \in calls[e]
      /\ modal' \in [Dashboards -> BOOLEAN]
  BY DEF SessionInv, TypeOK, Reload
<1>2. stored[d] \in [token : Tokens, role : Roles] \cup {NoSession}
  BY DEF SessionInv, TypeOK
<1>3. stored' = [stored EXCEPT ![d] = stored[d]]
  BY DEF SessionInv, TypeOK, Reload
<1>4. stored[d].token # 0 => stored[d].role = origin[stored[d].token]
  BY DEF SessionInv
<1>5. p \in {"login", "main"} /\ b \in BOOLEAN
  OBVIOUS
<1> QED
  BY <1>1, <1>2, <1>3, <1>4, <1>5, DashboardStep DEF Reload
\* What a dashboard does with an answer.
LEMMA DoneCalls ==
    ASSUME SessionInv, NEW d \in Dashboards, NEW c \in calls[d], Done(d, c)
    PROVE  /\ calls' \in [Dashboards -> SUBSET Calls]
           /\ \A e \in Dashboards : \A k \in calls'[e] : k \in calls[e]
  BY DEF SessionInv, TypeOK, Done

LEMMA AnsweredStep ==
    ASSUME SessionInv, NEW d \in Dashboards, NEW c \in calls[d], Answered(d, c)
    PROVE  SessionInv'
<1> DEFINE a == [c EXCEPT !.status = "caught"]
           s == IF Clears(c) THEN NoSession ELSE stored[d]
<1>1. c \in Calls /\ c.op \in Operations /\ CallInv(c) /\ calls \in [Dashboards -> SUBSET Calls]
  BY DEF SessionInv, TypeOK, Answered
<1>2. /\ calls' \in [Dashboards -> SUBSET Calls]
      /\ \A e \in Dashboards : \A k \in calls'[e] : k \in calls[e] \/ CallInv(k)
  <2>1. CASE c.op = "load" /\ c.status = "unauthorized"
    <3>1. a \in Calls
      BY <1>1, AnswerTypes
    <3>2. a.op = c.op /\ a.token = c.token /\ a.status = "caught"
      BY <1>1 DEF Calls, Operations
    <3>3. Becomes(d, c, a)
      BY <2>1 DEF Answered
    <3> HIDE DEF a
    <3>4. CallInv(a)
      BY <1>1, <2>1, <3>2 DEF CallInv
    <3> QED
      BY <1>1, <3>1, <3>3, <3>4 DEF Becomes
  <2>2. CASE ~(c.op = "load" /\ c.status = "unauthorized")
    BY <2>2, DoneCalls DEF Answered
  <2> QED
    BY <2>1, <2>2
<1>3. /\ stored[d] \in [token : Tokens, role : Roles] \cup {NoSession}
      /\ modal' \in [Dashboards -> BOOLEAN]
      /\ page[d] \in {"login", "main"} /\ isAdmin[d] \in BOOLEAN
  BY DEF SessionInv, TypeOK, Answered
<1>4. /\ stored' = [stored EXCEPT ![d] = s]
      /\ page' = [page EXCEPT ![d] = page[d]] /\ isAdmin' = [isAdmin EXCEPT ![d] = isAdmin[d]]
  BY DEF SessionInv, TypeOK, Answered, Clear
<1>5. s.token # 0 => s = stored[d]
  BY DEF NoSession
<1>6. /\ s.token # 0 => s.role = origin[s.token]
      /\ page[d] = "main" /\ s.token # 0 => isAdmin[d] = (s.role = "admin")
  BY <1>5 DEF SessionInv, RoleShown
<1>7. s \in [token : Tokens, role : Roles] \cup {NoSession}
  BY <1>3
<1> HIDE DEF s
<1> QED
  BY <1>2, <1>3, <1>4, <1>6, <1>7, DashboardStep DEF Answered

LEMMA ExpiredStep ==
    ASSUME SessionInv, NEW d \in Dashboards, NEW c \in calls[d], Expired(d, c)
    PROVE  SessionInv'
<1>1. /\ stored' = [stored EXCEPT ![d] = NoSession]
      /\ page' = [page EXCEPT ![d] = "login"] /\ isAdmin' = [isAdmin EXCEPT ![d] = FALSE]
      /\ modal' \in [Dashboards -> BOOLEAN]
  BY DEF SessionInv, TypeOK, Expired, Clear, LogOut
<1>2. NoSession.token = 0
  BY DEF NoSession
<1> QED
  BY <1>1, <1>2, DoneCalls, DashboardStep DEF Expired

LEMMA LoggedInStep ==
    ASSUME SessionInv, NEW d \in Dashboards, NEW c \in calls[d], LoggedIn(d, c) \/ BecameAdmin(d, c)
    PROVE  SessionInv'
<1> DEFINE s == [token |-> c.token, role |-> c.role]
           p == IF c.op = "login" THEN "main" ELSE page[d]
           b == (c.role = "admin")
<1>1. CallInv(c) /\ c.op \notin Operations /\ c.status = "ok"
  BY DEF SessionInv, LoggedIn, BecameAdmin, Operations
<1>2. c.token \in Tokens /\ c.role \in Roles /\ c.role = origin[c.token]
  BY <1>1 DEF CallInv
<1>3. s \in [token : Tokens, role : Roles] /\ s.role = origin[s.token] /\ b = (s.role = "admin")
  BY <1>2
<1>4. p \in {"login", "main"} /\ b \in BOOLEAN
  BY DEF SessionInv, TypeOK
<1>5. page' = [page EXCEPT ![d] = p]
  BY DEF SessionInv, TypeOK, LoggedIn, BecameAdmin
<1>6. isAdmin' = [isAdmin EXCEPT ![d] = b]
  BY DEF LoggedIn, BecameAdmin, AdminAfter
<1>7. stored' = [stored EXCEPT ![d] = s] /\ modal' \in [Dashboards -> BOOLEAN]
  BY DEF SessionInv, TypeOK, LoggedIn, BecameAdmin, Save
<1>8. Done(d, c) /\ UNCHANGED <<up, restarts, tokens, origin, served>>
  BY DEF LoggedIn, BecameAdmin
<1> HIDE DEF s, p, b
<1> QED
  BY <1>3, <1>4, <1>5, <1>6, <1>7, <1>8, DoneCalls, DashboardStep

LEMMA NotLoggedInStep ==
    ASSUME SessionInv, NEW d \in Dashboards, NEW c \in calls[d], NotLoggedIn(d, c)
    PROVE  SessionInv'
<1>1. modal' \in [Dashboards -> BOOLEAN]
  BY DEF SessionInv, TypeOK, NotLoggedIn
<1> QED
  BY <1>1, DoneCalls, QuietCalls, SameServed DEF NotLoggedIn

LEMMA SessionStep == SessionInv /\ [Next]_vars => SessionInv'
<1> SUFFICES ASSUME SessionInv, [Next]_vars PROVE SessionInv'
  OBVIOUS
<1>1. CASE End \/ Restart
  BY <1>1, BackendStep
<1>2. CASE Respond
  BY <1>2, LoginStep, ServeStep, RefuseStep DEF Respond, Ends
<1>3. ASSUME NEW d \in Dashboards, NEW op \in Operations, Request(d, op) PROVE SessionInv'
  BY <1>3, RequestStep
<1>4. ASSUME NEW d \in Dashboards, NEW op \in {"login", "modal"},
             NEW password \in Roles \cup {"wrong"}, Submit(d, op, password)
      PROVE  SessionInv'
  BY <1>4, SubmitStep
<1>5. ASSUME NEW d \in Dashboards, ToggleModal(d) \/ Reload(d) PROVE SessionInv'
  BY <1>5, ToggleStep, ReloadStep
<1>6. ASSUME NEW d \in Dashboards, Delivers(d) PROVE SessionInv'
  BY <1>6, AnsweredStep, ExpiredStep, LoggedInStep, NotLoggedInStep DEF Delivers, Deliver
<1>7. CASE UNCHANGED vars
  <2>1. modal' \in [Dashboards -> BOOLEAN] /\ calls' \in [Dashboards -> SUBSET Calls] /\ calls' = calls
    BY <1>7 DEF SessionInv, TypeOK, vars, dashVars
  <2> QED
    BY <1>7, <2>1, QuietCalls, SameServed DEF vars, dashVars
<1>8. ASSUME NEW op \in Operations, NEW token \in {0} \cup Tokens, ServeOther(op, token)
      PROVE  SessionInv'
  BY <1>8, ServeOtherStep
<1> QED
  BY <1>1, <1>2, <1>3, <1>4, <1>5, <1>6, <1>7, <1>8 DEF Next

----------------------------------------------------------------------------
(* The theorems.                                                           *)

LEMMA SessionAlways == Spec => []SessionInv
  BY SessionInit, SessionStep, PTL DEF Spec

(* Type correctness.                                                       *)
THEOREM TypeCorrect == Spec => []TypeOK
<1>1. SessionInv => TypeOK
  BY DEF SessionInv
<1> QED
  BY <1>1, SessionAlways, PTL

(* What only administrators may do or see was asked for, by whomever, with *)
(* a token that the administrator's password was given for.                *)
THEOREM AdminOnlyAlways == Spec => []AdminOnly
<1>1. SessionInv => AdminOnly
  BY DEF SessionInv
<1> QED
  BY <1>1, SessionAlways, PTL

(* The page shows what the session may do, in whatever order the answers   *)
(* come.                                                                   *)
THEOREM RoleShownAlways == Spec => []RoleShown
<1>1. SessionInv => RoleShown
  BY DEF SessionInv
<1> QED
  BY <1>1, SessionAlways, PTL

(* A session that the backend knows is never ended by the answer to one of *)
(* its own calls.                                                          *)
THEOREM OwnCallsKeep == Spec => OwnCallsKeepSession
<1> DEFINE Kept(d) == Ended(d) => \E c \in calls[d] \ calls'[d] : c.token # stored[d].token
<1>1. ASSUME SessionInv, NEW d \in Dashboards, Ended(d), [Next]_vars
      PROVE  \E c \in calls[d] : (Answered(d, c) /\ Clears(c)) \/ Expired(d, c)
  <2>1. stored[d].token # 0 /\ NoSession.token = 0
    BY <1>1 DEF Ended, Live, NoSession
  <2>2. stored'[d] # stored[d]
    BY <1>1, <2>1 DEF Ended
  <2>3. PICK e \in Dashboards : \/ Reload(e) \/ ToggleModal(e) \/ Delivers(e)
                               \/ UNCHANGED stored
    BY <1>1 DEF Next, vars, dashVars, End, Restart, Respond, Ends, Login, Serve, Refuse, ServeOther,
                Request, Submit, Send
  <2>4. PICK c \in calls[e] : Deliver(e, c)
    BY <2>2, <2>3 DEF Reload, ToggleModal, Delivers
  <2>5. e = d
    BY <1>1, <2>2, <2>4 DEF Deliver, Answered, Expired, LoggedIn, BecameAdmin, NotLoggedIn, Clear, Save, SessionInv, TypeOK
  <2>6. CASE LoggedIn(d, c) \/ BecameAdmin(d, c)
    <3>1. CallInv(c) /\ c.op \notin Operations /\ c.status = "ok"
      BY <1>1, <2>4, <2>5, <2>6 DEF SessionInv, LoggedIn, BecameAdmin, Operations
    <3>2. c.token # 0
      BY <3>1, TokensArePositive DEF CallInv
    <3>3. stored'[d].token = c.token
      <4> DEFINE s == [token |-> c.token, role |-> c.role]
      <4>1. stored' = [stored EXCEPT ![d] = s] /\ DOMAIN stored = Dashboards
        BY <1>1, <2>6 DEF LoggedIn, BecameAdmin, Save, SessionInv, TypeOK
      <4>2. stored'[d] = s
        BY <4>1
      <4> QED
        BY <4>2
    <3> QED
      BY <1>1, <2>1, <3>2, <3>3 DEF Ended
  <2> QED
    BY <2>2, <2>4, <2>5, <2>6 DEF Deliver, Answered, NotLoggedIn
<1>2. ASSUME SessionInv, NEW d \in Dashboards, Ended(d), NEW c \in calls[d],
             (Answered(d, c) /\ Clears(c)) \/ Expired(d, c)
      PROVE  c \notin calls'[d] /\ c.token # stored[d].token
  <2>1. /\ c \in Calls /\ c.op \in Operations /\ c.status \in {"unauthorized", "caught"}
        /\ CallInv(c) /\ calls \in [Dashboards -> SUBSET Calls]
    BY <1>2 DEF SessionInv, TypeOK, Answered, Expired, Clears, Operations
  <2>2. ~Live(c.token) /\ Live(stored[d].token)
    BY <1>2, <2>1 DEF CallInv, Ended
  <2>3. CASE Done(d, c)
    BY <2>1, <2>2, <2>3 DEF Done
  <2>4. CASE Becomes(d, c, [c EXCEPT !.status = "caught"]) /\ c.status = "unauthorized"
    <3>1. c.status # [c EXCEPT !.status = "caught"].status
      BY <2>1, <2>4 DEF Calls, Operations
    <3> QED
      BY <2>1, <2>2, <2>4, <3>1 DEF Becomes
  <2> QED
    BY <1>2, <2>3, <2>4 DEF Answered, Expired
<1>3. SessionInv /\ [Next]_vars => [\A d \in Dashboards : Kept(d)]_vars
  BY <1>1, <1>2
<1> QED
  BY <1>3, SessionAlways, PTL DEF Spec, OwnCallsKeepSession
=============================================================================

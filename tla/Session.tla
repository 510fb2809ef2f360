------------------------------ MODULE Session ------------------------------
(***************************************************************************)
(* Logging in with Google, and the session that follows                    *)
(* (backend/app/api/v1/auth.py, the tokens of backend/app/core/security.py, *)
(* and the browser's side: frontend/src/lib/api.ts, the page               *)
(* app/auth/callback and the log-out of components/Navigation.tsx).        *)
(*                                                                         *)
(* A login leaves a state with the browser: a key in Redis, which the      *)
(* callback deletes, or a signed state when Redis cannot be reached, which *)
(* is good until it expires.  The callback trades Google's code for the    *)
(* account, finds or inserts the account's row, and hands out an access    *)
(* and a refresh token; the browser keeps the access token only.  All tabs *)
(* of the browser share it.                                                *)
(***************************************************************************)
EXTENDS Integers, FiniteSets

CONSTANTS
    Login,         \* the logins begun, each by one account
    Callback,      \* the callback requests; a login's may come more than once
    Request,       \* the API requests of the browser
    Account, Email,
    StateTTL, AccessTTL, RefreshTTL,    \* times to live, in ticks
    Faults,        \* what may go wrong
    MaxTime,       \* bound: the last tick
    None

FaultKind == {"redis", "google", "server"}

ASSUME SessionAssumption ==
    /\ StateTTL \in Nat \ {0} /\ AccessTTL \in Nat /\ RefreshTTL \in Nat
    /\ Faults \subseteq FaultKind
    /\ MaxTime \in Nat

VARIABLES
    clock,
    redis,      \* whether Redis can be reached
    state,      \* state[l]: the state of login l, None before it begins
    codes,      \* the logins whose code Google has not exchanged yet
    address,    \* address[a]: the e-mail address of account a at Google
    users,      \* users[a]: the e-mail address in the row of account a, or None
    tokens,     \* the tokens handed out
    stored,     \* the token in the browser's storage, or None
    pc, job     \* per callback and request: where it stands, its local variables

vars == <<clock, redis, state, codes, address, users, tokens, stored, pc, job>>

Process == Callback \cup Request
Running == {"code", "userinfo", "lookUp", "insert", "update", "redirect", "sent", "unauthorized"}
Over == {"home", "refused", "failed", "accepted", "error", "loginPage"}

\* A state: whose login, how it is kept, when it expires, and whether it is
\* still in Redis.
State == [account : Account, kind : {"redis", "signed"}, expires : Nat, there : BOOLEAN]

\* A token: whose row it names, what for, until when, and, ghost, who logged in
\* at Google and when.
Token == [user : Account, kind : {"access", "refresh"}, expires : Nat,
          account : Account, login : Nat]

\* A callback's login, the address and the row it found, and, ghost, the
\* callbacks that had their row before it began; or a request's token.
CallbackJob == [login : Login, email : Email \cup {None}, row : Account \cup {None},
                token : Token \cup {None}, before : SUBSET Callback]
RequestJob == [token : Token \cup {None}]

ASSUME NoneIsNothing == None \notin Nat \cup State \cup Email \cup Account \cup Token
                               \cup CallbackJob \cup RequestJob
ASSUME ProcessesDiffer == Callback \cap Request = {}

Init == /\ clock = 0
        /\ redis = TRUE
        /\ state = [l \in Login |-> None]
        /\ codes = {}
        /\ address \in [Account -> Email]
        /\ \A a, b \in Account : a # b => address[a] # address[b]
        /\ users = [a \in Account |-> None]
        /\ tokens = {}
        /\ stored = None
        /\ pc = [p \in Process |-> "idle"]
        /\ job = [p \in Process |-> None]
-----------------------------------------------------------------------------
Goto(p, place) == pc' = [pc EXCEPT ![p] = place]

outside == <<clock, redis, address>>

(* The login. *)

\* google_login, and the consent of account a: Google sends the browser back
\* with a code.
GoogleLogin(l, a) ==
    /\ state[l] = None
    /\ state' = [state EXCEPT ![l] = [account |-> a, kind |-> IF redis THEN "redis" ELSE "signed",
                                      expires |-> clock + StateTTL, there |-> TRUE]]
    /\ codes' = codes \cup {l}
    /\ UNCHANGED <<outside, users, tokens, stored, pc, job>>

Live(s) == /\ s.there
           /\ IF s.kind = "redis" THEN clock < s.expires ELSE clock <= s.expires

\* Bug to detect: a state in Redis is looked at and left there.
StateAfterReading(s) == s

\* A state in Redis is deleted by the callback that finds it there.
StateAfter(s) == IF s.kind = "redis" THEN [s EXCEPT !.there = FALSE] ELSE s

StateReadable(s) == s.kind = "redis" => redis

\* The callback's check of the state, in the one call to Redis it makes.
BeginCallback(c, l) ==
    /\ pc[c] = "idle"
    /\ state[l] # None
    /\ IF StateReadable(state[l]) /\ Live(state[l])
       THEN Goto(c, "code") /\ state' = [state EXCEPT ![l] = StateAfter(@)]
       ELSE Goto(c, "refused") /\ UNCHANGED state
    /\ job' = [job EXCEPT ![c] = [login |-> l, email |-> None, row |-> None, token |-> None,
                                before |-> {d \in Callback : pc[d] \in Over \cup {"redirect"}}]]
    /\ UNCHANGED <<outside, codes, users, tokens, stored>>

Consenting(c) == state[job[c].login].account

\* Google exchanges a code once.
ExchangeCode(c) ==
    /\ pc[c] = "code"
    /\ Goto(c, IF job[c].login \in codes THEN "userinfo" ELSE "refused")
    /\ codes' = codes \ {job[c].login}
    /\ UNCHANGED <<outside, state, users, tokens, stored, job>>

FetchUserinfo(c) ==
    /\ pc[c] = "userinfo"
    /\ Goto(c, "lookUp")
    /\ job' = [job EXCEPT ![c].email = address[Consenting(c)]]
    /\ UNCHANGED <<outside, state, codes, users, tokens, stored>>

\* An error answer is passed on; an exception of the HTTP client escapes.
GoogleFails(c, place) ==
    /\ pc[c] \in {"code", "userinfo"} /\ "google" \in Faults
    /\ place \in {"refused", "error"}
    /\ Goto(c, place)
    /\ UNCHANGED <<outside, state, codes, users, tokens, stored, job>>

\* Bug to detect: the row is looked for by the e-mail address.
LookUpByEmail(c) ==
    /\ pc[c] = "lookUp"
    /\ IF \E a \in Account : users[a] = job[c].email
       THEN /\ Goto(c, "update")
            /\ job' = [job EXCEPT ![c].row = CHOOSE a \in Account : users[a] = job[c].email]
       ELSE Goto(c, "insert") /\ UNCHANGED job
    /\ UNCHANGED <<outside, state, codes, users, tokens, stored>>

\* Bug to detect: a row that is there is not looked for.
LookUpNothing(c) ==
    /\ pc[c] = "lookUp"
    /\ Goto(c, "insert")
    /\ UNCHANGED <<outside, state, codes, users, tokens, stored, job>>

LookUp(c) ==
    /\ pc[c] = "lookUp"
    /\ IF users[Consenting(c)] # None
       THEN Goto(c, "update") /\ job' = [job EXCEPT ![c].row = Consenting(c)]
       ELSE Goto(c, "insert") /\ UNCHANGED job
    /\ UNCHANGED <<outside, state, codes, users, tokens, stored>>

Taken(email, a) == \E b \in Account \ {a} : users[b] = email

NewToken(user, kind, expires, account, login) ==
    [user |-> user, kind |-> kind, expires |-> expires, account |-> account, login |-> login]

\* Both tokens are made, and the access token is in the redirect.
HandOut(c, user) ==
    LET a == Consenting(c)
        access == NewToken(user, "access", clock + AccessTTL, a, clock)
    IN /\ Goto(c, "redirect")
       /\ tokens' = tokens \cup {access, NewToken(user, "refresh", clock + RefreshTTL, a, clock)}
       /\ job' = [job EXCEPT ![c].row = user, ![c].token = access]

\* The unique constraints of the account and of the address.
Insert(c) ==
    LET a == Consenting(c)
    IN /\ pc[c] = "insert"
       /\ IF users[a] = None /\ ~Taken(job[c].email, a)
          THEN HandOut(c, a) /\ users' = [users EXCEPT ![a] = job[c].email]
          ELSE Goto(c, "failed") /\ UNCHANGED <<users, tokens, job>>
       /\ UNCHANGED <<outside, state, codes, stored>>

Update(c) ==
    LET a == job[c].row
    IN /\ pc[c] = "update"
       /\ IF ~Taken(job[c].email, a)
          THEN HandOut(c, a) /\ users' = [users EXCEPT ![a] = job[c].email]
          ELSE Goto(c, "failed") /\ UNCHANGED <<users, tokens, job>>
       /\ UNCHANGED <<outside, state, codes, stored>>

\* The page /auth/callback keeps the access token of the redirect.
KeepToken(c) ==
    /\ pc[c] = "redirect"
    /\ Goto(c, "home")
    /\ stored' = job[c].token
    /\ UNCHANGED <<outside, state, codes, users, tokens, job>>
-----------------------------------------------------------------------------
(* The session. *)

Valid(t) == clock <= t.expires

\* Bug to detect: any token gets a new access token.
RefreshAny(t) ==
    /\ t \in tokens /\ Valid(t)
    /\ tokens' = tokens \cup {NewToken(t.user, "access", clock + AccessTTL, t.account, t.login)}
    /\ UNCHANGED <<outside, state, codes, users, stored, pc, job>>

\* POST /auth/refresh, by a client that kept its refresh token.
Refresh(t) ==
    /\ t \in tokens /\ Valid(t)
    /\ t.kind = "refresh"
    /\ tokens' = tokens \cup {NewToken(t.user, "access", clock + AccessTTL, t.account, t.login)}
    /\ UNCHANGED <<outside, state, codes, users, stored, pc, job>>

\* A request of the browser carries the token stored then, if any.
Send(q) ==
    /\ pc[q] = "idle"
    /\ Goto(q, "sent")
    /\ job' = [job EXCEPT ![q] = [token |-> stored]]
    /\ UNCHANGED <<outside, state, codes, users, tokens, stored>>

\* get_current_user asks neither for the kind of the token nor for more than
\* its user's row, which no handler deletes.
Answer(q) ==
    /\ pc[q] = "sent"
    /\ Goto(q, IF job[q].token # None /\ Valid(job[q].token) THEN "accepted" ELSE "unauthorized")
    /\ UNCHANGED <<outside, state, codes, users, tokens, stored, job>>

\* Bug to detect: any failure ends the session.
ServerFailsAndLogsOut(q) ==
    /\ pc[q] = "sent" /\ "server" \in Faults
    /\ Goto(q, "loginPage")
    /\ stored' = None
    /\ UNCHANGED <<outside, state, codes, users, tokens, job>>

ServerFails(q) ==
    /\ pc[q] = "sent" /\ "server" \in Faults
    /\ Goto(q, "error")
    /\ UNCHANGED <<outside, state, codes, users, tokens, stored, job>>

\* The client meets a 401 while a token is stored, maybe another than the
\* refused one: there is no refresh token in the storage, so the token is
\* removed and the login page shown.
Unauthorized(q) ==
    /\ pc[q] = "unauthorized"
    /\ Goto(q, IF stored # None THEN "loginPage" ELSE "error")
    /\ stored' = None
    /\ UNCHANGED <<outside, state, codes, users, tokens, job>>

LogOut ==
    /\ stored # None
    /\ stored' = None
    /\ UNCHANGED <<outside, state, codes, users, tokens, pc, job>>
-----------------------------------------------------------------------------
SetRedis(up) ==
    /\ "redis" \in Faults
    /\ redis # up
    /\ redis' = up
    /\ UNCHANGED <<clock, state, codes, address, users, tokens, stored, pc, job>>

\* Addresses change hands at Google.
ChangeAddress(a, e) ==
    /\ \A b \in Account : address[b] # e
    /\ address' = [address EXCEPT ![a] = e]
    /\ UNCHANGED <<clock, redis, state, codes, users, tokens, stored, pc, job>>

Tick ==
    /\ clock < MaxTime
    /\ clock' = clock + 1
    /\ UNCHANGED <<redis, state, codes, address, users, tokens, stored, pc, job>>

Call(c) ==
    \/ ExchangeCode(c) \/ FetchUserinfo(c) \/ (\E place \in Over : GoogleFails(c, place))
    \/ LookUp(c) \/ Insert(c) \/ Update(c) \/ KeepToken(c)

Next == \/ \E l \in Login, a \in Account : GoogleLogin(l, a)
        \/ \E c \in Callback : Call(c) \/ \E l \in Login : BeginCallback(c, l)
        \/ \E t \in tokens : Refresh(t)
        \/ \E q \in Request : Send(q) \/ Answer(q) \/ ServerFails(q) \/ Unauthorized(q)
        \/ LogOut
        \/ \E up \in BOOLEAN : SetRedis(up)
        \/ \E a \in Account, e \in Email : ChangeAddress(a, e)
        \/ Tick

Spec == Init /\ [][Next]_vars
-----------------------------------------------------------------------------
(* Properties. *)

\* Type invariant.
TypeOK ==
    /\ clock \in Nat
    /\ redis \in BOOLEAN
    /\ state \in [Login -> State \cup {None}]
    /\ codes \subseteq Login
    /\ address \in [Account -> Email]
    /\ users \in [Account -> Email \cup {None}]
    /\ tokens \subseteq Token
    /\ stored \in Token \cup {None}
    /\ pc \in [Process -> {"idle"} \cup Running \cup Over]
    /\ job \in [Process -> CallbackJob \cup RequestJob \cup {None}]

\* However often a callback is sent, and however two of them overlap, a state
\* that was kept in Redis lets one of them on to Google.
StatesAreSpent == \A c, d \in Callback :
    (/\ pc[c] \in Running /\ pc[d] \in Running
     /\ job[c].login = job[d].login /\ state[job[c].login].kind = "redis") => c = d

\* Whatever addresses have changed hands at Google, and whoever logs in at the
\* same time, a token names the row of the account that logged in.
TokensAreOnesOwn == \A t \in tokens : t.user = t.account

\* However a client refreshes, what began with a login ends with the refresh
\* token of that login and one access token more.
SessionsEnd == \A t \in tokens : t.expires <= t.login + RefreshTTL + AccessTTL

\* A token that is still good leaves the storage only when the user logs out,
\* another login replaces it, or a request comes back that was sent with
\* another token or none.
GoodTokensStay == [][
    (stored # None /\ stored' = None /\ Valid(stored)) =>
        \/ LogOut
        \/ \E q \in Request : pc[q] = "unauthorized" /\ job[q].token # stored]_vars

\* Finding or making the row fails only when another account has the address,
\* or another callback of the account made the row meanwhile: logging in again
\* never does.
ConflictsAreReal == [][\A c \in Callback : (pc'[c] = "failed" /\ pc[c] # "failed") =>
    \/ \E b \in Account \ {Consenting(c)} : users[b] = job[c].email
    \/ pc[c] = "insert" /\ \E d \in Callback \ job[c].before :
           job[d] # None /\ job[d].row = Consenting(c)]_vars
=============================================================================

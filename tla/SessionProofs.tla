--------------------------- MODULE SessionProofs ---------------------------
(***************************************************************************)
(* Proofs about Session: for any number of logins, callbacks, requests and *)
(* accounts, and whatever fails, a token is its account's, a session ends, *)
(* and a state kept in Redis lets one callback on to Google.               *)
(***************************************************************************)
EXTENDS Session, TLAPS

\* A token names the row of its account and ends with its login's refresh token,
\* or one access token after it.
TokenInv == \A t \in tokens :
    /\ t.user = t.account
    /\ t.login <= clock
    /\ t.kind = "refresh" => t.expires <= t.login + RefreshTTL
    /\ t.expires <= t.login + RefreshTTL + AccessTTL

\* A running callback has a state, which is no longer in Redis, and the row it is
\* about to update is that of the account that consented.
CallbackInv == \A c \in Callback : pc[c] \in Running =>
    /\ job[c] \in CallbackJob
    /\ state[job[c].login] # None
    /\ state[job[c].login].kind = "redis" => ~state[job[c].login].there
    /\ pc[c] = "update" => job[c].row = Consenting(c)

SessionInv == TypeOK /\ TokenInv /\ CallbackInv /\ StatesAreSpent
-----------------------------------------------------------------------------
LEMMA InitInv == Init => SessionInv
  BY NoneIsNothing, ProcessesDiffer
     DEF Init, SessionInv, TypeOK, TokenInv, CallbackInv, StatesAreSpent, Process, Running

\* A step that leaves states, tokens and the clock alone, and moves one callback on
\* with a job of the same login, keeps the invariant.
LEMMA CallbackMoves ==
  ASSUME SessionInv, NEW c \in Callback, pc[c] \in Running,
         NEW place \in Running \cup Over, Goto(c, place),
         job' = [job EXCEPT ![c] = job'[c]],
         job'[c] \in CallbackJob, job'[c].login = job[c].login,
         place = "update" => job'[c].row = Consenting(c),
         state' = state
  PROVE  /\ pc' \in [Process -> {"idle"} \cup Running \cup Over]
         /\ job' \in [Process -> CallbackJob \cup RequestJob \cup {None}]
         /\ CallbackInv' /\ StatesAreSpent'
  <1>1. /\ pc \in [Process -> {"idle"} \cup Running \cup Over]
        /\ job \in [Process -> CallbackJob \cup RequestJob \cup {None}]
        /\ c \in Process
    BY DEF SessionInv, TypeOK, Process
  <1>2. /\ pc' \in [Process -> {"idle"} \cup Running \cup Over]
        /\ job' \in [Process -> CallbackJob \cup RequestJob \cup {None}]
    BY <1>1 DEF Goto
  <1>3. \A d \in Callback : /\ pc'[d] = (IF d = c THEN place ELSE pc[d])
                            /\ d # c => job'[d] = job[d]
                            /\ pc'[d] \in Running => pc[d] \in Running
                            /\ pc[d] \in Running => job'[d].login = job[d].login
    BY <1>1 DEF Goto, Process
  <1>4. CallbackInv'
    BY <1>3 DEF SessionInv, CallbackInv, Consenting
  <1>5. StatesAreSpent'
    BY <1>3 DEF SessionInv, StatesAreSpent
  <1> QED  BY <1>2, <1>4, <1>5

\* Handing out the tokens of the consenting account keeps the invariant.
LEMMA TokensHandedOut ==
  ASSUME SessionInv, NEW c \in Callback, pc[c] \in {"insert", "update"},
         HandOut(c, Consenting(c)), UNCHANGED <<clock, state>>
  PROVE  /\ tokens' \subseteq Token /\ TokenInv'
         /\ pc' \in [Process -> {"idle"} \cup Running \cup Over]
         /\ job' \in [Process -> CallbackJob \cup RequestJob \cup {None}]
         /\ CallbackInv' /\ StatesAreSpent'
         /\ job'[c].token \in Token
  <1> DEFINE a == Consenting(c)
             access == NewToken(a, "access", clock + AccessTTL, a, clock)
             refresh == NewToken(a, "refresh", clock + RefreshTTL, a, clock)
  <1>1. /\ job[c] \in CallbackJob /\ state[job[c].login] # None
        /\ pc[c] \in Running /\ c \in Process
    BY DEF SessionInv, CallbackInv, Running, Process
  <1>2. state[job[c].login] \in State
    BY <1>1 DEF SessionInv, TypeOK, CallbackJob
  <1>3. a \in Account /\ clock \in Nat
    BY <1>2 DEF Consenting, State, SessionInv, TypeOK
  <1>4. access \in Token /\ refresh \in Token
    BY <1>3, SessionAssumption DEF NewToken, Token
  <1>5. tokens' = tokens \cup {access, refresh}
    BY DEF HandOut
  <1>6. tokens' \subseteq Token
    BY <1>4, <1>5 DEF SessionInv, TypeOK
  <1>7. TokenInv'
    <2>1. \A t \in {access, refresh} :
             /\ t.user = t.account /\ t.login <= clock
             /\ t.kind = "refresh" => t.expires <= t.login + RefreshTTL
             /\ t.expires <= t.login + RefreshTTL + AccessTTL
      BY <1>3, SessionAssumption DEF NewToken
    <2> QED  BY <1>5, <2>1 DEF TokenInv, SessionInv
  <1>8. /\ job' = [job EXCEPT ![c] = job'[c]]
        /\ job'[c] = [job[c] EXCEPT !.row = a, !.token = access]
    BY <1>1 DEF HandOut, SessionInv, TypeOK
  <1>9. /\ job'[c] \in CallbackJob /\ job'[c].login = job[c].login
        /\ job'[c].token \in Token
    BY <1>1, <1>3, <1>4, <1>8 DEF CallbackJob
  <1>10. Goto(c, "redirect") /\ "redirect" \in Running \cup Over
    BY DEF HandOut, Running
  <1> QED
    <2> HIDE DEF access, refresh
    <2> QED  BY <1>1, <1>6, <1>7, <1>8, <1>9, <1>10, CallbackMoves
-----------------------------------------------------------------------------
\* No step but a login, a callback's first or its later ones touches states, and
\* the rest leave the callbacks where they are.
LEMMA OthersMove ==
  ASSUME SessionInv, state' = state,
         pc' \in [Process -> {"idle"} \cup Running \cup Over],
         job' \in [Process -> CallbackJob \cup RequestJob \cup {None}],
         \A c \in Callback : pc'[c] = pc[c] /\ job'[c] = job[c]
  PROVE  CallbackInv' /\ StatesAreSpent'
  BY DEF SessionInv, CallbackInv, StatesAreSpent, Consenting

LEMMA CallKeepsInv ==
  ASSUME SessionInv, NEW c \in Callback, Call(c)
  PROVE  SessionInv'
  <1> USE DEF SessionInv
  <1>0. /\ c \in Process /\ pc[c] \in Running /\ job[c] \in CallbackJob
        /\ state[job[c].login] \in State
        /\ job \in [Process -> CallbackJob \cup RequestJob \cup {None}]
        /\ UNCHANGED <<clock, redis, address, state>>
    <2>1. c \in Process /\ pc[c] \in Running /\ UNCHANGED <<clock, redis, address, state>>
      BY DEF Process, Call, ExchangeCode, FetchUserinfo, GoogleFails, LookUp, Insert, Update,
             KeepToken, Running, outside
    <2> QED  BY <2>1 DEF CallbackInv, TypeOK, CallbackJob
  <1>a. Consenting(c) \in Account
    BY <1>0 DEF Consenting, State
  <1>1. CASE ExchangeCode(c)
    <2>1. PICK place \in {"userinfo", "refused"} : Goto(c, place)
      BY <1>1 DEF ExchangeCode
    <2>2. /\ pc' \in [Process -> {"idle"} \cup Running \cup Over]
          /\ job' \in [Process -> CallbackJob \cup RequestJob \cup {None}]
          /\ CallbackInv' /\ StatesAreSpent'
      BY <1>0, <1>1, <2>1, CallbackMoves DEF ExchangeCode, Running, Over
    <2> QED  BY <1>0, <1>1, <2>2 DEF ExchangeCode, TypeOK, TokenInv
  <1>2. CASE FetchUserinfo(c)
    <2>1. /\ job'[c] = [job[c] EXCEPT !.email = address[Consenting(c)]]
          /\ job' = [job EXCEPT ![c] = job'[c]]
      BY <1>0, <1>2 DEF FetchUserinfo
    <2>2. job'[c] \in CallbackJob /\ job'[c].login = job[c].login
      BY <1>0, <1>a, <2>1 DEF CallbackJob, TypeOK
    <2>3. Goto(c, "lookUp")
      BY <1>2 DEF FetchUserinfo
    <2>4. /\ pc' \in [Process -> {"idle"} \cup Running \cup Over]
          /\ job' \in [Process -> CallbackJob \cup RequestJob \cup {None}]
          /\ CallbackInv' /\ StatesAreSpent'
      BY <1>0, <2>1, <2>2, <2>3, CallbackMoves DEF Running
    <2> QED  BY <1>0, <1>2, <2>4 DEF FetchUserinfo, TypeOK, TokenInv
  <1>3. ASSUME NEW place \in Over, GoogleFails(c, place)
        PROVE  SessionInv'
    <2>1. /\ pc' \in [Process -> {"idle"} \cup Running \cup Over]
          /\ job' \in [Process -> CallbackJob \cup RequestJob \cup {None}]
          /\ CallbackInv' /\ StatesAreSpent'
      BY <1>0, <1>3, CallbackMoves DEF GoogleFails, Over
    <2> QED  BY <1>0, <1>3, <2>1 DEF GoogleFails, TypeOK, TokenInv
  <1>4. CASE LookUp(c)
    <2>1. PICK place \in {"update", "insert"} :
             /\ Goto(c, place)
             /\ job'[c] \in {job[c], [job[c] EXCEPT !.row = Consenting(c)]}
             /\ job' = [job EXCEPT ![c] = job'[c]]
             /\ place = "update" => job'[c] = [job[c] EXCEPT !.row = Consenting(c)]
      BY <1>0, <1>4 DEF LookUp
    <2>2. /\ job'[c] \in CallbackJob /\ job'[c].login = job[c].login
          /\ place = "update" => job'[c].row = Consenting(c)
      BY <1>0, <1>a, <2>1 DEF CallbackJob
    <2>3. /\ pc' \in [Process -> {"idle"} \cup Running \cup Over]
          /\ job' \in [Process -> CallbackJob \cup RequestJob \cup {None}]
          /\ CallbackInv' /\ StatesAreSpent'
      BY <1>0, <2>1, <2>2, CallbackMoves DEF Running
    <2> QED  BY <1>0, <1>4, <2>3 DEF LookUp, TypeOK, TokenInv
  <1>5. ASSUME Insert(c) \/ Update(c)
        PROVE  SessionInv'
    <2>1. CASE Goto(c, "failed") /\ UNCHANGED <<users, tokens, job>>
      <3>1. /\ pc' \in [Process -> {"idle"} \cup Running \cup Over]
            /\ job' \in [Process -> CallbackJob \cup RequestJob \cup {None}]
            /\ CallbackInv' /\ StatesAreSpent'
        BY <1>0, <2>1, CallbackMoves DEF Over
      <3> QED  BY <1>0, <1>5, <2>1, <3>1 DEF Insert, Update, TypeOK, TokenInv
    <2>2. CASE ~(Goto(c, "failed") /\ UNCHANGED <<users, tokens, job>>)
      <3>1. /\ pc[c] \in {"insert", "update"}
            /\ HandOut(c, Consenting(c))
            /\ users' = [users EXCEPT ![Consenting(c)] = job[c].email]
            /\ UNCHANGED <<codes, stored>>
        BY <1>0, <1>5, <2>2 DEF Insert, Update, CallbackInv
      <3>2. users' \in [Account -> Email \cup {None}]
        BY <1>0, <1>a, <3>1 DEF CallbackJob, TypeOK
      <3>3. /\ tokens' \subseteq Token /\ TokenInv'
            /\ pc' \in [Process -> {"idle"} \cup Running \cup Over]
            /\ job' \in [Process -> CallbackJob \cup RequestJob \cup {None}]
            /\ CallbackInv' /\ StatesAreSpent'
        BY <1>0, <3>1, TokensHandedOut
      <3> QED  BY <1>0, <3>1, <3>2, <3>3 DEF TypeOK
    <2> QED  BY <2>1, <2>2
  <1>6. CASE KeepToken(c)
    <2>1. /\ pc' \in [Process -> {"idle"} \cup Running \cup Over]
          /\ job' \in [Process -> CallbackJob \cup RequestJob \cup {None}]
          /\ CallbackInv' /\ StatesAreSpent'
      BY <1>0, <1>6, CallbackMoves DEF KeepToken, Over
    <2>2. stored' \in Token \cup {None}
      BY <1>0, <1>6 DEF KeepToken, CallbackJob
    <2> QED  BY <1>0, <1>6, <2>1, <2>2 DEF KeepToken, TypeOK, TokenInv
  <1> QED  BY <1>1, <1>2, <1>3, <1>4, <1>5, <1>6 DEF Call

\* A callback that finds its state good leaves no trace of it in Redis.
LEMMA BeginKeepsInv ==
  ASSUME SessionInv, NEW c \in Callback, NEW l \in Login, BeginCallback(c, l)
  PROVE  SessionInv'
  <1> DEFINE started == [login |-> l, email |-> None, row |-> None, token |-> None,
                         before |-> {d \in Callback : pc[d] \in Over \cup {"redirect"}}]
  <1>1. /\ c \in Process /\ state[l] \in State
        /\ state \in [Login -> State \cup {None}]
        /\ pc \in [Process -> {"idle"} \cup Running \cup Over]
        /\ job \in [Process -> CallbackJob \cup RequestJob \cup {None}]
        /\ pc[c] = "idle"
        /\ UNCHANGED <<clock, redis, address, codes, users, tokens, stored>>
    BY DEF SessionInv, TypeOK, Process, BeginCallback, outside
  <1>2. started \in CallbackJob
    BY DEF CallbackJob
  <1>3. job' = [job EXCEPT ![c] = started]
    BY DEF BeginCallback
  <1>4. job' \in [Process -> CallbackJob \cup RequestJob \cup {None}]
    BY <1>1, <1>2, <1>3
  <1>5. TokenInv'
    BY <1>1 DEF SessionInv, TokenInv
  <1>6. \A d \in Callback : d # c => job'[d] = job[d]
    BY <1>1, <1>3 DEF Process
  <1>7. CASE Goto(c, "refused") /\ UNCHANGED state
    <2>1. pc' \in [Process -> {"idle"} \cup Running \cup Over]
      BY <1>1, <1>7 DEF Goto, Over
    <2>2. pc'[c] \notin Running /\ \A d \in Callback : d # c => pc'[d] = pc[d]
      BY <1>1, <1>7 DEF Goto, Process, Running
    <2>3. CallbackInv' /\ StatesAreSpent'
      BY <1>6, <1>7, <2>2 DEF SessionInv, CallbackInv, StatesAreSpent, Consenting
    <2> QED  BY <1>1, <1>4, <1>5, <1>7, <2>1, <2>3 DEF SessionInv, TypeOK
  <1>8. CASE /\ StateReadable(state[l]) /\ Live(state[l])
             /\ Goto(c, "code") /\ state' = [state EXCEPT ![l] = StateAfter(@)]
    <2>1. pc' \in [Process -> {"idle"} \cup Running \cup Over]
      BY <1>1, <1>8 DEF Goto, Running
    <2>2. pc'[c] = "code" /\ \A d \in Callback : d # c => pc'[d] = pc[d]
      BY <1>1, <1>8 DEF Goto, Process
    <2>3. /\ state' \in [Login -> State \cup {None}]
          /\ \A k \in Login \ {l} : state'[k] = state[k]
          /\ state'[l] \in State
          /\ state'[l].account = state[l].account /\ state'[l].kind = state[l].kind
          /\ state'[l].kind = "redis" => ~state'[l].there
      BY <1>1, <1>8 DEF StateAfter, State
    <2>4. state[l].kind = "redis" => state[l].there
      BY <1>8 DEF Live
    <2>5. job'[c].login = l /\ job'[c] \in CallbackJob
      BY <1>1, <1>2, <1>3
    <2>6. \A d \in Callback : (d # c /\ pc[d] \in Running) =>
             /\ job[d].login \in Login
             /\ job[d].login = l => state[l].kind # "redis"
      BY <2>4 DEF SessionInv, CallbackInv, CallbackJob
    <2>7. CallbackInv'
      <3> SUFFICES ASSUME NEW d \in Callback, pc'[d] \in Running
                   PROVE  /\ job'[d] \in CallbackJob
                          /\ state'[job'[d].login] # None
                          /\ state'[job'[d].login].kind = "redis" => ~state'[job'[d].login].there
                          /\ pc'[d] = "update" => job'[d].row = Consenting(d)'
        BY DEF CallbackInv
      <3>1. CASE d = c
        BY <2>2, <2>3, <2>5, <3>1, NoneIsNothing
      <3>2. CASE d # c
        BY <1>6, <2>2, <2>3, <2>6, <3>2, NoneIsNothing DEF SessionInv, CallbackInv, Consenting
      <3> QED  BY <3>1, <3>2
    <2>8. StatesAreSpent'
      <3> SUFFICES ASSUME NEW d \in Callback, NEW e \in Callback,
                          pc'[d] \in Running, pc'[e] \in Running,
                          job'[d].login = job'[e].login, state'[job'[d].login].kind = "redis"
                   PROVE  d = e
        BY DEF StatesAreSpent
      <3>1. CASE d = c \/ e = c
        BY <1>6, <2>2, <2>3, <2>5, <2>6, <3>1
      <3>2. CASE d # c /\ e # c
        BY <1>6, <2>2, <2>3, <2>6, <3>2 DEF SessionInv, StatesAreSpent
      <3> QED  BY <3>1, <3>2
    <2> QED  BY <1>1, <1>4, <1>5, <2>1, <2>3, <2>7, <2>8 DEF SessionInv, TypeOK
  <1> QED  BY <1>7, <1>8 DEF BeginCallback

\* A login gives its browser a state nobody has used.
LEMMA LoginKeepsInv ==
  ASSUME SessionInv, NEW l \in Login, NEW a \in Account, GoogleLogin(l, a)
  PROVE  SessionInv'
  <1> DEFINE new == [account |-> a, kind |-> IF redis THEN "redis" ELSE "signed",
                     expires |-> clock + StateTTL, there |-> TRUE]
  <1>1. new \in State
    BY SessionAssumption DEF SessionInv, TypeOK, State
  <1>2. /\ state' = [state EXCEPT ![l] = new] /\ state[l] = None
        /\ UNCHANGED <<clock, redis, address, users, tokens, stored, pc, job>>
        /\ codes' = codes \cup {l}
    BY DEF GoogleLogin, outside
  <1>3. TypeOK'
    BY <1>1, <1>2 DEF SessionInv, TypeOK
  <1>4. \A c \in Callback : pc[c] \in Running =>
           job[c].login \in Login /\ state'[job[c].login] = state[job[c].login]
    BY <1>1, <1>2 DEF SessionInv, TypeOK, CallbackInv, CallbackJob
  <1>5. CallbackInv' /\ StatesAreSpent'
    BY <1>2, <1>4 DEF SessionInv, CallbackInv, StatesAreSpent, Consenting
  <1> QED  BY <1>2, <1>3, <1>5 DEF SessionInv, TokenInv

\* A refreshed token is its account's, and outlives the refresh token by no more
\* than an access token's life.
LEMMA RefreshKeepsInv ==
  ASSUME SessionInv, NEW t \in tokens, Refresh(t)
  PROVE  SessionInv'
  <1> DEFINE new == NewToken(t.user, "access", clock + AccessTTL, t.account, t.login)
  <1>1. /\ t \in Token /\ clock \in Nat
        /\ t.user = t.account /\ t.login <= clock
        /\ t.expires <= t.login + RefreshTTL
        /\ clock <= t.expires
    BY DEF SessionInv, TypeOK, TokenInv, Refresh, Valid
  <1>2. tokens' = tokens \cup {new}
    BY DEF Refresh
  <1>3. /\ new \in Token
        /\ new.user = new.account /\ new.login <= clock /\ new.kind = "access"
        /\ new.expires <= new.login + RefreshTTL + AccessTTL
    BY <1>1, SessionAssumption DEF NewToken, Token
  <1> HIDE DEF new
  <1>4. UNCHANGED <<clock, redis, address, state, codes, users, stored, pc, job>>
    BY DEF Refresh, outside
  <1>5. TokenInv'
    BY <1>2, <1>3, <1>4 DEF SessionInv, TokenInv
  <1>6. TypeOK'
    BY <1>2, <1>3, <1>4 DEF SessionInv, TypeOK
  <1> QED  BY <1>4, <1>5, <1>6, OthersMove DEF SessionInv, TypeOK

\* The browser's requests, answered or not, leave callbacks and tokens alone.
LEMMA RequestKeepsInv ==
  ASSUME SessionInv, NEW q \in Request,
         Send(q) \/ Answer(q) \/ ServerFails(q) \/ Unauthorized(q)
  PROVE  SessionInv'
  <1>1. /\ q \in Process /\ q \notin Callback
        /\ pc \in [Process -> {"idle"} \cup Running \cup Over]
        /\ job \in [Process -> CallbackJob \cup RequestJob \cup {None}]
        /\ stored \in Token \cup {None}
    BY ProcessesDiffer DEF Process, SessionInv, TypeOK
  <1>2. /\ UNCHANGED <<clock, redis, address, state, codes, users, tokens>>
        /\ stored' \in {stored, None}
    BY DEF Send, Answer, ServerFails, Unauthorized, outside
  <1>3. PICK place \in Running \cup Over : pc' = [pc EXCEPT ![q] = place]
    BY DEF Send, Answer, ServerFails, Unauthorized, Goto, Running, Over
  <1>4. \/ job' = job
        \/ job' = [job EXCEPT ![q] = [token |-> stored]]
    BY DEF Send, Answer, ServerFails, Unauthorized
  <1>5. /\ pc' \in [Process -> {"idle"} \cup Running \cup Over]
        /\ job' \in [Process -> CallbackJob \cup RequestJob \cup {None}]
        /\ \A c \in Callback : pc'[c] = pc[c] /\ job'[c] = job[c]
    BY <1>1, <1>3, <1>4 DEF RequestJob, Process
  <1> QED  BY <1>1, <1>2, <1>5, OthersMove DEF SessionInv, TypeOK, TokenInv

LEMMA StepKeepsInv == SessionInv /\ [Next]_vars => SessionInv'
  <1> SUFFICES ASSUME SessionInv, [Next]_vars PROVE SessionInv'
    OBVIOUS
  <1>1. ASSUME NEW l \in Login, NEW a \in Account, GoogleLogin(l, a) PROVE SessionInv'
    BY <1>1, LoginKeepsInv
  <1>2. ASSUME NEW c \in Callback, Call(c) PROVE SessionInv'
    BY <1>2, CallKeepsInv
  <1>3. ASSUME NEW c \in Callback, NEW l \in Login, BeginCallback(c, l) PROVE SessionInv'
    BY <1>3, BeginKeepsInv
  <1>4. ASSUME NEW t \in tokens, Refresh(t) PROVE SessionInv'
    BY <1>4, RefreshKeepsInv
  <1>5. ASSUME NEW q \in Request, Send(q) \/ Answer(q) \/ ServerFails(q) \/ Unauthorized(q)
        PROVE SessionInv'
    BY <1>5, RequestKeepsInv
  <1>6. CASE LogOut \/ \E up \in BOOLEAN : SetRedis(up)
    <2>1. /\ UNCHANGED <<clock, address, state, codes, users, tokens, pc, job>>
          /\ redis' \in BOOLEAN /\ stored' \in {stored, None}
      BY <1>6 DEF LogOut, SetRedis, outside, SessionInv, TypeOK
    <2> QED  BY <2>1, OthersMove DEF SessionInv, TypeOK, TokenInv
  <1>7. ASSUME NEW a \in Account, NEW e \in Email, ChangeAddress(a, e) PROVE SessionInv'
    <2>1. /\ UNCHANGED <<clock, redis, state, codes, users, tokens, stored, pc, job>>
          /\ address' \in [Account -> Email]
      BY <1>7 DEF ChangeAddress, SessionInv, TypeOK
    <2> QED  BY <2>1, OthersMove DEF SessionInv, TypeOK, TokenInv
  <1>8. CASE Tick
    <2>1. /\ UNCHANGED <<redis, address, state, codes, users, tokens, stored, pc, job>>
          /\ clock' = clock + 1 /\ clock \in Nat
      BY <1>8 DEF Tick, SessionInv, TypeOK
    <2>2. TokenInv'
      BY <2>1 DEF SessionInv, TokenInv, TypeOK, Token
    <2> QED  BY <2>1, <2>2, OthersMove DEF SessionInv, TypeOK
  <1>9. CASE UNCHANGED vars
    BY <1>9 DEF vars, SessionInv, TypeOK, TokenInv, CallbackInv, StatesAreSpent, Consenting
  <1> QED  BY <1>1, <1>2, <1>3, <1>4, <1>5, <1>6, <1>7, <1>8, <1>9 DEF Next

\* The inductive invariant of the session: who a token names, how long it lasts,
\* and what a callback on its way has used up.
THEOREM SessionHolds == Spec => []SessionInv
  BY InitInv, StepKeepsInv, PTL DEF Spec

\* Every variable keeps its type.
THEOREM TypeCorrectness == Spec => []TypeOK
  BY SessionHolds, PTL DEF SessionInv

\* Of the callbacks that come with one Redis state, one at most gets to Google.
THEOREM StatesTheorem == Spec => []StatesAreSpent
  BY SessionHolds, PTL DEF SessionInv

\* A token names the row of the account that logged in, for any interleaving of
\* logins and any change of addresses.
THEOREM TokensTheorem == Spec => []TokensAreOnesOwn
  <1>1. SessionInv => TokensAreOnesOwn
    BY DEF SessionInv, TokenInv, TokensAreOnesOwn
  <1> QED  BY <1>1, SessionHolds, PTL

\* No refreshing carries a session beyond its login's refresh token and one
\* access token.
THEOREM EndTheorem == Spec => []SessionsEnd
  <1>1. SessionInv => SessionsEnd
    BY DEF SessionInv, TokenInv, SessionsEnd
  <1> QED  BY <1>1, SessionHolds, PTL
-----------------------------------------------------------------------------
(* Good tokens stay. *)

\* A request that is about to meet its 401 was refused a token that is no longer
\* good, or had none; a callback's redirect has a token.
RefusalInv ==
    /\ \A q \in Request : /\ pc[q] = "sent" => job[q] \in RequestJob
                          /\ pc[q] = "unauthorized" =>
                                /\ job[q] \in RequestJob
                                /\ job[q].token # None => ~Valid(job[q].token)
    /\ \A c \in Callback : pc[c] = "redirect" => job[c].token # None

LEMMA InitRefusal == Init => RefusalInv
  BY ProcessesDiffer DEF Init, RefusalInv, Process

\* A callback's step changes no request, and puts a token into the redirect.
LEMMA CallbackKeepsRefusal ==
  ASSUME SessionInv, RefusalInv, NEW c \in Callback,
         Call(c) \/ \E l \in Login : BeginCallback(c, l)
  PROVE  RefusalInv'
  <1>1. /\ c \in Process /\ c \notin Request
        /\ pc \in [Process -> {"idle"} \cup Running \cup Over]
        /\ job \in [Process -> CallbackJob \cup RequestJob \cup {None}]
        /\ clock' = clock
    BY ProcessesDiffer DEF Process, SessionInv, TypeOK, Call, BeginCallback, ExchangeCode, FetchUserinfo,
       GoogleFails, LookUp, Insert, Update, KeepToken, outside
  <1>2. /\ \E place \in Running \cup Over : pc' = [pc EXCEPT ![c] = place]
        /\ job' = [job EXCEPT ![c] = job'[c]]
    BY <1>1 DEF Call, BeginCallback, ExchangeCode, FetchUserinfo, GoogleFails, LookUp, Insert, Update,
       HandOut, KeepToken, Goto, Running, Over
  <1>3. \A p \in Process \ {c} : pc'[p] = pc[p] /\ job'[p] = job[p]
    BY <1>1, <1>2
  <1>4. pc'[c] = "redirect" => job'[c].token # None
    <2>1. CASE Insert(c) \/ Update(c)
      <3>1. /\ pc[c] \in {"insert", "update"} /\ UNCHANGED <<clock, state>>
            /\ pc'[c] = "redirect" => HandOut(c, Consenting(c))
        BY <1>1, <2>1 DEF Insert, Update, HandOut, Goto, outside, SessionInv, CallbackInv, Running
      <3> QED  BY <3>1, TokensHandedOut, NoneIsNothing
    <2>2. CASE ~(Insert(c) \/ Update(c))
      BY <1>1, <2>2 DEF Call, BeginCallback, ExchangeCode, FetchUserinfo, GoogleFails, LookUp,
         KeepToken, Goto, Over
    <2> QED  BY <2>1, <2>2
  <1> QED  BY <1>1, <1>3, <1>4 DEF RefusalInv, Valid, Process

\* A request remembers the token it was sent with; it is refused only for that
\* token's sake.
LEMMA RequestKeepsRefusal ==
  ASSUME SessionInv, RefusalInv, NEW q \in Request,
         Send(q) \/ Answer(q) \/ ServerFails(q) \/ Unauthorized(q)
  PROVE  RefusalInv'
  <1>1. /\ q \in Process /\ q \notin Callback
        /\ pc \in [Process -> {"idle"} \cup Running \cup Over]
        /\ job \in [Process -> CallbackJob \cup RequestJob \cup {None}]
        /\ stored \in Token \cup {None} /\ clock' = clock
    BY ProcessesDiffer DEF Process, SessionInv, TypeOK, Send, Answer, ServerFails, Unauthorized, outside
  <1>2. \A p \in Process \ {q} : pc'[p] = pc[p] /\ job'[p] = job[p]
    BY <1>1 DEF Send, Answer, ServerFails, Unauthorized, Goto
  <1>3. CASE Send(q)
    BY <1>1, <1>2, <1>3 DEF RefusalInv, Send, Goto, RequestJob, Process, Valid
  <1>4. CASE Answer(q)
    <2>1. /\ pc[q] = "sent" /\ job' = job /\ pc'[q] # "sent"
          /\ job[q] \in RequestJob
          /\ pc'[q] = "unauthorized" => (job[q].token # None => ~Valid(job[q].token))
      BY <1>1, <1>4 DEF Answer, Goto, RefusalInv
    <2> QED  BY <1>1, <1>2, <2>1 DEF RefusalInv, Process, Valid
  <1>5. CASE ServerFails(q) \/ Unauthorized(q)
    <2>1. pc'[q] \notin {"sent", "unauthorized"}
      BY <1>1, <1>5 DEF ServerFails, Unauthorized, Goto
    <2> QED  BY <1>1, <1>2, <2>1 DEF RefusalInv, Process, Valid
  <1> QED  BY <1>3, <1>4, <1>5

LEMMA StepKeepsRefusal == SessionInv /\ RefusalInv /\ [Next]_vars => RefusalInv'
  <1> SUFFICES ASSUME SessionInv, RefusalInv, [Next]_vars PROVE RefusalInv'
    OBVIOUS
  <1>1. ASSUME NEW c \in Callback, Call(c) \/ \E l \in Login : BeginCallback(c, l)
        PROVE RefusalInv'
    BY <1>1, CallbackKeepsRefusal
  <1>2. ASSUME NEW q \in Request, Send(q) \/ Answer(q) \/ ServerFails(q) \/ Unauthorized(q)
        PROVE RefusalInv'
    BY <1>2, RequestKeepsRefusal
  <1>3. CASE UNCHANGED <<pc, job, clock>>
    BY <1>3 DEF RefusalInv, Valid
  <1>4. CASE Tick
    <2>1. clock \in Nat /\ clock' = clock + 1 /\ UNCHANGED <<pc, job>>
      BY <1>4 DEF Tick, SessionInv, TypeOK
    <2>2. \A t \in Token : ~Valid(t) => ~(Valid(t)')
      BY <2>1 DEF Valid, Token
    <2> QED  BY <2>1, <2>2 DEF RefusalInv, RequestJob, Valid
  <1> QED
    BY <1>1, <1>2, <1>3, <1>4
       DEF Next, vars, GoogleLogin, Refresh, LogOut, SetRedis, ChangeAddress, outside

\* No step but a log-out and an old request's 401 takes a good token away.
LEMMA GoodTokenStays ==
  ASSUME SessionInv, RefusalInv, [Next]_vars,
         stored # None, stored' = None, Valid(stored)
  PROVE  LogOut \/ \E q \in Request : pc[q] = "unauthorized" /\ job[q].token # stored
  <1>1. \A c \in Callback : ~KeepToken(c)
    BY DEF KeepToken, RefusalInv
  <1>2. \A q \in Request : Unauthorized(q) => pc[q] = "unauthorized" /\ job[q].token # stored
    BY DEF Unauthorized, RefusalInv
  <1> QED
    BY <1>1, <1>2 DEF Next, vars, Call, GoogleLogin, BeginCallback, ExchangeCode, FetchUserinfo,
       GoogleFails, LookUp, Insert, Update, Refresh, Send, Answer, ServerFails, SetRedis,
       ChangeAddress, Tick, outside

\* A good token leaves the storage only by a log-out or for a request that was
\* sent with another token, never for an error of the server.
THEOREM GoodTokensTheorem == Spec => GoodTokensStay
  <1>1. SessionInv /\ RefusalInv /\ [Next]_vars =>
           [(stored # None /\ stored' = None /\ Valid(stored)) =>
               \/ LogOut
               \/ \E q \in Request : pc[q] = "unauthorized" /\ job[q].token # stored]_vars
    BY GoodTokenStays
  <1> QED
    BY <1>1, InitInv, StepKeepsInv, InitRefusal, StepKeepsRefusal, PTL DEF Spec, GoodTokensStay
-----------------------------------------------------------------------------
(* Conflicts are real. *)

\* What a callback that began knows: whose it is, the row it found or made, and
\* that those which had ended before are over; and when its account has a row by
\* the time it inserts one, a callback that was not over before has made it.
StoryInv == \A c \in Callback :
    /\ pc[c] = "idle" => job[c] = None
    /\ job[c] # None =>
          /\ job[c] \in CallbackJob
          /\ state[job[c].login] # None
          /\ job[c].row \in {None, Consenting(c)}
          /\ \A d \in job[c].before : pc[d] \in Over \cup {"redirect"}
    /\ (pc[c] = "insert" /\ users[Consenting(c)] # None) =>
          \E d \in Callback \ job[c].before : job[d] # None /\ job[d].row = Consenting(c)

LEMMA InitStory == Init => StoryInv
  BY DEF Init, StoryInv, Process

\* Steps that leave the callbacks and the rows alone, and no state with another
\* account, change nothing of it.
LEMMA OthersKeepStory ==
  ASSUME SessionInv, StoryInv, users' = users,
         \A c \in Callback : pc'[c] = pc[c] /\ job'[c] = job[c],
         \A l \in Login : state[l] # None =>
             state'[l] # None /\ state'[l].account = state[l].account
  PROVE  StoryInv'
  <1>1. \A c \in Callback : job[c] # None =>
           /\ job[c].login \in Login
           /\ job[c].before \subseteq Callback
           /\ state'[job[c].login] # None
           /\ Consenting(c)' = Consenting(c)
    BY DEF StoryInv, CallbackJob, Consenting
  <1>2. \A c \in Callback : pc[c] = "insert" => job[c] # None
    BY NoneIsNothing DEF SessionInv, CallbackInv, Running
  <1> SUFFICES ASSUME NEW c \in Callback
               PROVE  /\ pc'[c] = "idle" => job'[c] = None
                      /\ job'[c] # None =>
                            /\ job'[c] \in CallbackJob
                            /\ state'[job'[c].login] # None
                            /\ job'[c].row \in {None, Consenting(c)'}
                            /\ \A d \in job'[c].before : pc'[d] \in Over \cup {"redirect"}
                      /\ (pc'[c] = "insert" /\ users'[Consenting(c)'] # None) =>
                            \E d \in Callback \ job'[c].before :
                               job'[d] # None /\ job'[d].row = Consenting(c)'
    BY DEF StoryInv
  <1>3. pc'[c] = "idle" => job'[c] = None
    BY DEF StoryInv
  <1>4. job'[c] # None =>
           /\ job'[c] \in CallbackJob
           /\ state'[job'[c].login] # None
           /\ job'[c].row \in {None, Consenting(c)'}
           /\ \A d \in job'[c].before : pc'[d] \in Over \cup {"redirect"}
    BY <1>1 DEF StoryInv
  <1>5. ASSUME pc'[c] = "insert", users'[Consenting(c)'] # None
        PROVE  \E d \in Callback \ job'[c].before :
                  job'[d] # None /\ job'[d].row = Consenting(c)'
    <2>1. Consenting(c)' = Consenting(c)
      BY <1>1, <1>2, <1>5
    <2>2. PICK d \in Callback \ job[c].before : job[d] # None /\ job[d].row = Consenting(c)
      BY <1>5, <2>1 DEF StoryInv
    <2> QED  BY <2>1, <2>2
  <1> QED  BY <1>3, <1>4, <1>5

\* A callback that begins has made no row, and is before nobody.
LEMMA BeginKeepsStory ==
  ASSUME SessionInv, StoryInv, NEW c \in Callback, NEW l \in Login, BeginCallback(c, l)
  PROVE  StoryInv'
  <1> DEFINE started == [login |-> l, email |-> None, row |-> None, token |-> None,
                         before |-> {d \in Callback : pc[d] \in Over \cup {"redirect"}}]
  <1>1. /\ c \in Process /\ state[l] # None /\ pc[c] = "idle"
        /\ state \in [Login -> State \cup {None}]
        /\ pc \in [Process -> {"idle"} \cup Running \cup Over]
        /\ job \in [Process -> CallbackJob \cup RequestJob \cup {None}]
        /\ users' = users
        /\ job' = [job EXCEPT ![c] = started]
    BY DEF SessionInv, TypeOK, Process, BeginCallback, outside
  <1>2. started \in CallbackJob /\ started # None
    BY NoneIsNothing DEF CallbackJob
  <1>3. /\ pc'[c] \in {"code", "refused"}
        /\ \A d \in Callback : d # c => pc'[d] = pc[d] /\ job'[d] = job[d]
        /\ job'[c] = started
    BY <1>1 DEF BeginCallback, Goto, Process
  <1>4. \A k \in Login : state[k] # None =>
           state'[k] # None /\ state'[k].account = state[k].account
    <2>1. state[l] \in State
      BY <1>1
    <2>2. StateAfter(state[l]) \in State /\ StateAfter(state[l]).account = state[l].account
      BY <2>1 DEF StateAfter, State
    <2>3. state' \in {state, [state EXCEPT ![l] = StateAfter(@)]}
      BY DEF BeginCallback
    <2> QED  BY <1>1, <2>2, <2>3, NoneIsNothing
  <1>5. /\ job[c] = None
        /\ \A d \in Callback : job[d] # None =>
              /\ job[d].login \in Login
              /\ job[d].before \subseteq Callback
              /\ Consenting(d)' = Consenting(d)
              /\ c \notin job[d].before
    <2>1. job[c] = None
      BY <1>1 DEF StoryInv
    <2> SUFFICES ASSUME NEW d \in Callback, job[d] # None
                 PROVE  /\ job[d].login \in Login
                        /\ job[d].before \subseteq Callback
                        /\ Consenting(d)' = Consenting(d)
                        /\ c \notin job[d].before
      BY <2>1
    <2>2. job[d] \in CallbackJob /\ state[job[d].login] # None /\ d # c
      BY <2>1 DEF StoryInv
    <2>3. job[d].login \in Login /\ job[d].before \subseteq Callback
      BY <2>2 DEF CallbackJob
    <2>4. Consenting(d)' = Consenting(d)
      BY <1>3, <1>4, <2>2, <2>3 DEF Consenting
    <2>5. c \notin job[d].before
      BY <1>1 DEF StoryInv, Over
    <2> QED  BY <2>3, <2>4, <2>5
  <1> HIDE DEF started
  <1> SUFFICES ASSUME NEW e \in Callback
               PROVE  /\ pc'[e] = "idle" => job'[e] = None
                      /\ job'[e] # None =>
                            /\ job'[e] \in CallbackJob
                            /\ state'[job'[e].login] # None
                            /\ job'[e].row \in {None, Consenting(e)'}
                            /\ \A d \in job'[e].before : pc'[d] \in Over \cup {"redirect"}
                      /\ (pc'[e] = "insert" /\ users'[Consenting(e)'] # None) =>
                            \E d \in Callback \ job'[e].before :
                               job'[d] # None /\ job'[d].row = Consenting(e)'
    BY DEF StoryInv
  <1>6. CASE e = c
    <2>1. started.row = None /\ started.login = l
      BY DEF started
    <2>2. \A d \in started.before : d \in Callback /\ pc[d] \in Over \cup {"redirect"}
      BY DEF started
    <2>3. \A d \in started.before : pc'[d] \in Over \cup {"redirect"}
      <3>1. \A d \in started.before : d # c
        BY <1>1, <2>2 DEF Over
      <3> QED  BY <1>3, <2>2, <3>1
    <2> QED  BY <1>1, <1>2, <1>3, <1>4, <1>6, <2>1, <2>3
  <1>7. CASE e # c
    <2>1. pc'[e] = pc[e] /\ job'[e] = job[e] /\ users' = users
      BY <1>1, <1>3, <1>7
    <2>2. pc'[e] = "idle" => job'[e] = None
      BY <2>1 DEF StoryInv
    <2>3. ASSUME job[e] # None
          PROVE  /\ job'[e] \in CallbackJob
                 /\ state'[job'[e].login] # None
                 /\ job'[e].row \in {None, Consenting(e)'}
                 /\ \A d \in job'[e].before : pc'[d] \in Over \cup {"redirect"}
      <3>1. /\ job[e] \in CallbackJob /\ state[job[e].login] # None
            /\ job[e].row \in {None, Consenting(e)}
            /\ \A d \in job[e].before : pc[d] \in Over \cup {"redirect"}
        BY <2>3 DEF StoryInv
      <3>2. \A d \in job[e].before : pc'[d] = pc[d]
        BY <1>3, <1>5, <2>3
      <3> QED  BY <1>4, <1>5, <2>1, <2>3, <3>1, <3>2
    <2>4. ASSUME pc[e] = "insert", users[Consenting(e)'] # None
          PROVE  \E d \in Callback \ job'[e].before :
                    job'[d] # None /\ job'[d].row = Consenting(e)'
      <3>1. job[e] # None
        BY <2>4, NoneIsNothing DEF SessionInv, CallbackInv, Running
      <3>2. Consenting(e)' = Consenting(e)
        BY <1>5, <3>1
      <3>3. PICK d \in Callback \ job[e].before : job[d] # None /\ job[d].row = Consenting(e)
        BY <2>4, <3>2 DEF StoryInv
      <3>4. job'[d] = job[d]
        BY <1>3, <1>5, <3>3
      <3> QED  BY <2>1, <3>2, <3>3, <3>4
    <2> QED  BY <2>1, <2>2, <2>3, <2>4
  <1> QED  BY <1>6, <1>7

\* What a step of a running callback does: its own place and job only, and a row
\* is made by one that is not over, which then knows it.
LEMMA CallDoes ==
  ASSUME SessionInv, NEW c \in Callback, Call(c)
  PROVE  /\ pc[c] \in Running /\ job[c] \in CallbackJob /\ state' = state
         /\ pc'[c] \in Running \cup Over
         /\ pc[c] = "redirect" => pc'[c] \in Over
         /\ \A d \in Callback : d # c => pc'[d] = pc[d] /\ job'[d] = job[d]
         /\ job'[c] \in CallbackJob /\ job'[c] # None
         /\ job'[c].login = job[c].login /\ job'[c].before = job[c].before
         /\ job'[c].row \in {job[c].row, Consenting(c)}
         /\ pc'[c] = "insert" => users[Consenting(c)] = None
         /\ \/ users' = users
            \/ /\ pc[c] \in {"insert", "update"}
               /\ pc'[c] = "redirect"
               /\ job'[c].row = Consenting(c)
               /\ \A a \in Account : a # Consenting(c) => users'[a] = users[a]
  <1>1. /\ c \in Process /\ pc[c] \in Running /\ job[c] \in CallbackJob
        /\ pc \in [Process -> {"idle"} \cup Running \cup Over]
        /\ job \in [Process -> CallbackJob \cup RequestJob \cup {None}]
        /\ users \in [Account -> Email \cup {None}]
        /\ address \in [Account -> Email]
        /\ state' = state
    <2>1. c \in Process /\ pc[c] \in Running /\ state' = state
      BY DEF Process, Call, ExchangeCode, FetchUserinfo, GoogleFails, LookUp, Insert, Update,
             KeepToken, Running, outside
    <2> QED  BY <2>1 DEF SessionInv, CallbackInv, TypeOK
  <1>2. Consenting(c) \in Account
    <2>1. state[job[c].login] \in State
      BY <1>1 DEF SessionInv, CallbackInv, TypeOK, CallbackJob
    <2> QED  BY <2>1 DEF Consenting, State
  <1>3. PICK place \in Running \cup Over : Goto(c, place)
    BY DEF Call, ExchangeCode, FetchUserinfo, GoogleFails, LookUp, Insert, Update, HandOut,
           KeepToken, Running, Over
  <1>4. job' = [job EXCEPT ![c] = job'[c]]
    BY <1>1 DEF Call, ExchangeCode, FetchUserinfo, GoogleFails, LookUp, Insert, Update, HandOut,
           KeepToken
  <1>5. /\ pc'[c] = place
        /\ \A d \in Callback : d # c => pc'[d] = pc[d] /\ job'[d] = job[d]
    BY <1>1, <1>3, <1>4 DEF Goto, Process
  <1>6. CASE UNCHANGED <<users, job>>
    <2>1. pc[c] = "redirect" => place \in Over
      BY <1>1, <1>5 DEF Call, ExchangeCode, FetchUserinfo, GoogleFails, LookUp, Insert, Update,
         KeepToken, Goto, Over
    <2>2. place = "insert" => users[Consenting(c)] = None
      BY <1>1, <1>5 DEF Call, ExchangeCode, FetchUserinfo, GoogleFails, LookUp, Insert, Update,
         HandOut, KeepToken, Goto, Over
    <2> QED  BY <1>1, <1>5, <1>6, <2>1, <2>2, NoneIsNothing
  <1>7. CASE FetchUserinfo(c)
    <2>1. /\ pc[c] = "userinfo" /\ place = "lookUp" /\ users' = users
          /\ job'[c] = [job[c] EXCEPT !.email = address[Consenting(c)]]
      BY <1>1, <1>5, <1>7 DEF FetchUserinfo, Goto
    <2>2. address[Consenting(c)] \in Email
      BY <1>1, <1>2
    <2>3. /\ job'[c] \in CallbackJob /\ job'[c].row = job[c].row
          /\ job'[c].login = job[c].login /\ job'[c].before = job[c].before
      BY <1>1, <2>1, <2>2 DEF CallbackJob
    <2> QED  BY <1>1, <1>5, <2>1, <2>3, NoneIsNothing
  <1>8. CASE LookUp(c) /\ users[Consenting(c)] # None
    <2>1. /\ pc[c] = "lookUp" /\ place = "update" /\ users' = users
          /\ job'[c] = [job[c] EXCEPT !.row = Consenting(c)]
      BY <1>1, <1>5, <1>8 DEF LookUp, Goto
    <2>2. /\ job'[c] \in CallbackJob /\ job'[c].row = Consenting(c)
          /\ job'[c].login = job[c].login /\ job'[c].before = job[c].before
      BY <1>1, <1>2, <2>1 DEF CallbackJob
    <2> QED  BY <1>1, <1>5, <2>1, <2>2, NoneIsNothing
  <1>9. CASE pc[c] \in {"insert", "update"} /\ HandOut(c, Consenting(c))
             /\ users' = [users EXCEPT ![Consenting(c)] = job[c].email]
             /\ UNCHANGED <<clock, state>>
    <2> DEFINE access == NewToken(Consenting(c), "access", clock + AccessTTL, Consenting(c), clock)
    <2>1. /\ place = "redirect"
          /\ job'[c] = [job[c] EXCEPT !.row = Consenting(c), !.token = access]
      BY <1>1, <1>5, <1>9 DEF HandOut, Goto
    <2>2. access \in Token
      BY <1>2, SessionAssumption DEF NewToken, Token, SessionInv, TypeOK
    <2>3. /\ job'[c] \in CallbackJob /\ job'[c].row = Consenting(c)
          /\ job'[c].login = job[c].login /\ job'[c].before = job[c].before
      <3> HIDE DEF access
      <3> QED  BY <1>1, <1>2, <2>1, <2>2 DEF CallbackJob
    <2>4. \A a \in Account : a # Consenting(c) => users'[a] = users[a]
      BY <1>1, <1>9
    <2> QED  BY <1>1, <1>5, <1>9, <2>1, <2>3, <2>4, NoneIsNothing
  <1>10. (Insert(c) \/ Update(c)) =>
            \/ UNCHANGED <<users, job>>
            \/ /\ pc[c] \in {"insert", "update"} /\ HandOut(c, Consenting(c))
               /\ users' = [users EXCEPT ![Consenting(c)] = job[c].email]
               /\ UNCHANGED <<clock, state>>
    BY <1>1 DEF Insert, Update, SessionInv, CallbackInv, outside
  <1> QED
    BY <1>6, <1>7, <1>8, <1>9, <1>10 DEF Call, ExchangeCode, GoogleFails, LookUp, KeepToken

\* A callback that makes its account's row is before none that runs, so those of
\* the account about to insert one find it there.
LEMMA CallKeepsStory ==
  ASSUME SessionInv, StoryInv, NEW c \in Callback, Call(c)
  PROVE  StoryInv'
  <1>1. /\ pc[c] \in Running /\ job[c] \in CallbackJob /\ job[c] # None
        /\ \A d \in Callback : Consenting(d)' =
              IF d = c THEN Consenting(c) ELSE Consenting(d)
        /\ \A d \in Callback : pc[d] \in Over \cup {"redirect"} => pc'[d] \in Over \cup {"redirect"}
    BY CallDoes, NoneIsNothing DEF Consenting, Running, Over
  <1>2. \A d \in Callback : job[d] # None =>
           /\ job[d].before \subseteq Callback
           /\ job[d].login \in Login /\ state[job[d].login] \in State /\ Consenting(d) \in Account
           /\ pc[c] \in {"insert", "update"} => c \notin job[d].before
    BY DEF StoryInv, CallbackJob, SessionInv, TypeOK, Consenting, State, Over
  <1>3. /\ job[c].row \in {None, Consenting(c)}
        /\ \A d \in job[c].before : pc[d] \in Over \cup {"redirect"}
        /\ state[job[c].login] # None
    BY <1>1 DEF StoryInv
  <1> SUFFICES ASSUME NEW e \in Callback
               PROVE  /\ pc'[e] = "idle" => job'[e] = None
                      /\ job'[e] # None =>
                            /\ job'[e] \in CallbackJob
                            /\ state'[job'[e].login] # None
                            /\ job'[e].row \in {None, Consenting(e)'}
                            /\ \A d \in job'[e].before : pc'[d] \in Over \cup {"redirect"}
                      /\ (pc'[e] = "insert" /\ users'[Consenting(e)'] # None) =>
                            \E d \in Callback \ job'[e].before :
                               job'[d] # None /\ job'[d].row = Consenting(e)'
    BY DEF StoryInv
  <1>4. CASE e = c
    <2>1. /\ pc'[c] # "idle"
          /\ pc'[c] = "insert" => users[Consenting(c)] = None /\ users' = users
      BY CallDoes DEF Running, Over
    <2>2. \A d \in job'[c].before : pc'[d] \in Over \cup {"redirect"}
      BY <1>1, <1>2, <1>3, CallDoes
    <2> QED  BY <1>1, <1>3, <1>4, <2>1, <2>2, CallDoes
  <1>5. CASE e # c
    <2>1. pc'[e] = pc[e] /\ job'[e] = job[e] /\ Consenting(e)' = Consenting(e) /\ state' = state
      BY <1>1, <1>5, CallDoes
    <2>2. pc'[e] = "idle" => job'[e] = None
      BY <2>1 DEF StoryInv
    <2>3. ASSUME job[e] # None
          PROVE  /\ job[e] \in CallbackJob /\ state[job[e].login] # None
                 /\ job[e].row \in {None, Consenting(e)}
                 /\ \A d \in job[e].before : pc'[d] \in Over \cup {"redirect"}
      <3>1. /\ job[e] \in CallbackJob /\ state[job[e].login] # None
            /\ job[e].row \in {None, Consenting(e)}
            /\ \A d \in job[e].before : pc[d] \in Over \cup {"redirect"}
        BY <2>3 DEF StoryInv
      <3> QED  BY <1>1, <1>2, <2>3, <3>1
    <2>4. ASSUME pc[e] = "insert", users'[Consenting(e)] # None
          PROVE  \E d \in Callback \ job[e].before : job'[d] # None /\ job'[d].row = Consenting(e)
      <3>1. job[e] # None
        BY <2>4, NoneIsNothing DEF SessionInv, CallbackInv, Running
      <3>2. CASE users[Consenting(e)] = None
        <4>1. /\ pc[c] \in {"insert", "update"} /\ job'[c].row = Consenting(c)
              /\ Consenting(c) = Consenting(e) /\ job'[c] # None
          BY <1>2, <2>4, <3>1, <3>2, CallDoes
        <4> QED  BY <1>2, <3>1, <4>1
      <3>3. CASE users[Consenting(e)] # None
        <4>1. PICK d \in Callback \ job[e].before : job[d] # None /\ job[d].row = Consenting(e)
          BY <2>4, <3>3 DEF StoryInv
        <4>2. CASE d = c
          <5>1. job[c].row = Consenting(c) /\ Consenting(c) = Consenting(e)
            BY <1>2, <1>3, <3>1, <4>1, <4>2, NoneIsNothing
          <5> QED  BY <4>1, <4>2, <5>1, CallDoes
        <4>3. CASE d # c
          BY <4>1, <4>3, CallDoes
        <4> QED  BY <4>2, <4>3
      <3> QED  BY <3>2, <3>3
    <2> QED  BY <2>1, <2>2, <2>3, <2>4
  <1> QED  BY <1>4, <1>5

LEMMA StepKeepsStory == SessionInv /\ StoryInv /\ [Next]_vars => StoryInv'
  <1> SUFFICES ASSUME SessionInv, StoryInv, [Next]_vars PROVE StoryInv'
    OBVIOUS
  <1>1. ASSUME NEW c \in Callback, Call(c) PROVE StoryInv'
    BY <1>1, CallKeepsStory
  <1>2. ASSUME NEW c \in Callback, NEW l \in Login, BeginCallback(c, l) PROVE StoryInv'
    BY <1>2, BeginKeepsStory
  <1>3. ASSUME NEW l \in Login, NEW a \in Account, GoogleLogin(l, a) PROVE StoryInv'
    <2>1. /\ UNCHANGED <<users, pc, job>> /\ state[l] = None
          /\ \A k \in Login : k # l => state'[k] = state[k]
      BY <1>3 DEF GoogleLogin, SessionInv, TypeOK
    <2>2. \A k \in Login : state[k] # None => state'[k] = state[k]
      BY <2>1
    <2> QED  BY <2>1, <2>2, OthersKeepStory
  <1>4. ASSUME NEW q \in Request, Send(q) \/ Answer(q) \/ ServerFails(q) \/ Unauthorized(q)
        PROVE StoryInv'
    <2>1. q \in Process /\ q \notin Callback /\ UNCHANGED <<users, state>>
      BY <1>4, ProcessesDiffer DEF Process, Send, Answer, ServerFails, Unauthorized, outside
    <2>2. \A c \in Callback : pc'[c] = pc[c] /\ job'[c] = job[c]
      BY <1>4, <2>1 DEF Send, Answer, ServerFails, Unauthorized, Goto, SessionInv, TypeOK, Process
    <2> QED  BY <2>1, <2>2, OthersKeepStory
  <1>5. CASE UNCHANGED <<users, state, pc, job>>
    BY <1>5, OthersKeepStory
  <1> QED
    BY <1>1, <1>2, <1>3, <1>4, <1>5
       DEF Next, vars, Refresh, LogOut, SetRedis, ChangeAddress, Tick, outside

\* An insert or an update fails for another account's address, or because a
\* callback that ran beside it has made the row.
LEMMA FailuresHaveAReason ==
  ASSUME SessionInv, StoryInv, [Next]_vars,
         NEW c \in Callback, pc'[c] = "failed", pc[c] # "failed"
  PROVE  \/ \E b \in Account \ {Consenting(c)} : users[b] = job[c].email
         \/ pc[c] = "insert" /\ \E d \in Callback \ job[c].before :
                job[d] # None /\ job[d].row = Consenting(c)
  <1>1. c \in Process /\ c \notin Request /\ pc \in [Process -> {"idle"} \cup Running \cup Over]
    BY ProcessesDiffer DEF Process, SessionInv, TypeOK
  <1>2. (\E d \in Callback : Call(d)) \/ (\E d \in Callback, l \in Login : BeginCallback(d, l))
    BY <1>1 DEF Next, vars, GoogleLogin, Refresh, Send, Answer, ServerFails, Unauthorized, LogOut,
       SetRedis, ChangeAddress, Tick, Goto
  <1>3. Insert(c) \/ Update(c)
    <2>1. ASSUME NEW d \in Callback, NEW l \in Login, BeginCallback(d, l) PROVE FALSE
      BY <1>1, <2>1 DEF BeginCallback, Goto
    <2>2. PICK d \in Callback : Call(d)
      BY <1>2, <2>1
    <2>3. d = c
      BY <2>2, CallDoes
    <2> QED  BY <1>1, <2>2, <2>3 DEF Call, ExchangeCode, FetchUserinfo, GoogleFails, LookUp, KeepToken, Goto
  <1>4. CASE Insert(c)
    <2>1. pc[c] = "insert"
      BY <1>4 DEF Insert
    <2>2. users[Consenting(c)] # None \/ Taken(job[c].email, Consenting(c))
      BY <1>1, <1>4 DEF Insert, HandOut, Goto
    <2> QED  BY <2>1, <2>2 DEF StoryInv, Taken
  <1>5. CASE Update(c)
    <2>1. pc[c] = "update"
      BY <1>5 DEF Update
    <2>2. job[c].row = Consenting(c)
      BY <2>1 DEF SessionInv, CallbackInv, Running
    <2>3. Taken(job[c].email, Consenting(c))
      BY <1>1, <1>5, <2>2 DEF Update, HandOut, Goto
    <2> QED  BY <2>3 DEF Taken
  <1> QED  BY <1>3, <1>4, <1>5

\* Signing in fails only where another account has the address, or another
\* callback of the account made its row meanwhile: never for having signed in
\* before.
THEOREM ConflictsTheorem == Spec => ConflictsAreReal
  <1>1. SessionInv /\ StoryInv /\ [Next]_vars =>
           [\A c \in Callback : (pc'[c] = "failed" /\ pc[c] # "failed") =>
               \/ \E b \in Account \ {Consenting(c)} : users[b] = job[c].email
               \/ pc[c] = "insert" /\ \E d \in Callback \ job[c].before :
                      job[d] # None /\ job[d].row = Consenting(c)]_vars
    BY FailuresHaveAReason
  <1> QED
    BY <1>1, InitInv, StepKeepsInv, InitStory, StepKeepsStory, PTL DEF Spec, ConflictsAreReal
=============================================================================

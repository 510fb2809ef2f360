----------------------- MODULE DelegatedTradingProofs -----------------------
(***************************************************************************)
(* Theorems about DelegatedTrading, for every set of profiles, links,      *)
(* requests, terms and orders, every combination of faults and every value *)
(* of the bounds.                                                          *)
(***************************************************************************)
EXTENDS DelegatedTrading, FiniteSetTheorems, WellFoundedInduction, TLAPS

\* The initial state satisfies the inductive invariant.
LEMMA InitProvenance == Init => Provenance
<1>1. Init => TypeOK
  BY TradingAssumption, NoneAssumption DEF Init, TypeOK, NoLink, LinkRow, Running, Over
<1>2. Init => LinkInv
  BY DEF Init, LinkInv, NoLink
<1>3. Init => JobInv /\ TermsInv /\ KeyInv
  BY DEF Init, JobInv, TermsInv, KeyInv, Running
<1>4. Init => VenueInv /\ RowInv
  BY DEF Init, VenueInv, RowInv, Orphaned
<1>5. QED
  BY <1>1, <1>2, <1>3, <1>4 DEF Provenance

\* What retiring terms t of link l does to the record of retirements: that
\* entry becomes now, and no other changes.
LEMMA RetireEffect ==
    ASSUME TypeOK, NEW l \in Link, NEW t \in Terms, Retire(l, t)
    PROVE  /\ retired' \in [Link -> [Terms -> Nat \cup {None}]]
           /\ \A x \in Link, y \in Terms :
                 retired'[x][y] = IF x = l /\ y = t THEN clock ELSE retired[x][y]
<1>1. retired' = [x \in Link |-> IF x = l THEN [retired[x] EXCEPT ![t] = clock]
                                         ELSE retired[x]]
  BY DEF Retire, TypeOK
<1>2. \A x \in Link : retired[x] \in [Terms -> Nat \cup {None}]
  BY DEF TypeOK
<1>3. \A x \in Link : retired'[x] \in [Terms -> Nat \cup {None}]
  BY <1>1, <1>2 DEF TypeOK
<1>4. \A x \in Link, y \in Terms :
          retired'[x][y] = IF x = l /\ y = t THEN clock ELSE retired[x][y]
  BY <1>1, <1>2
<1>5. QED
  BY <1>1, <1>3, <1>4

\* Type correctness is inductive, given that a usable link has a profile and
\* that a running request has its local variables.
LEMMA TypeStep ==
    ASSUME TypeOK, LinkInv, JobInv, [Next]_vars
    PROVE  TypeOK'
<1> USE TradingAssumption, NoneAssumption
<1>1. ASSUME NEW p \in Profile, NEW e \in Exchange, AddTradeKey(p, e)
      PROVE  TypeOK'
  BY <1>1 DEF AddTradeKey, TypeOK, requestVars, Key
<1>2. ASSUME NEW p \in Profile, NEW e \in Exchange, DeleteTradeKey(p, e)
      PROVE  TypeOK'
  BY <1>2 DEF DeleteTradeKey, TypeOK, requestVars, Key
<1>3. ASSUME NEW l \in Link, NEW p \in Profile, NEW t \in Terms, CreateShareLink(l, p, t)
      PROVE  TypeOK'
  BY <1>3 DEF CreateShareLink, TypeOK, requestVars, LinkRow
<1>4. ASSUME NEW l \in Link, NEW t \in Terms, UpdateShareLink(l, t)
      PROVE  TypeOK'
  <2>1. link' \in [Link -> LinkRow]
    <3>1. link[l] \in LinkRow /\ link \in [Link -> LinkRow]
      BY DEF TypeOK
    <3>2. [link[l] EXCEPT !.terms = t] \in LinkRow
      BY <3>1 DEF LinkRow
    <3>3. link' = [link EXCEPT ![l] = [link[l] EXCEPT !.terms = t]]
      BY <1>4 DEF UpdateShareLink
    <3>4. QED
      BY <3>1, <3>2, <3>3
  <2>2. retired' \in [Link -> [Terms -> Nat \cup {None}]]
    <3>1. CASE link[l].state = "active"
      <4>1. link[l].terms \in Terms
        BY <3>1 DEF LinkInv
      <4>2. QED
        BY <1>4, <3>1, <4>1, RetireEffect DEF UpdateShareLink
    <3>2. CASE link[l].state # "active"
      BY <1>4, <3>2 DEF UpdateShareLink, TypeOK
    <3>3. QED
      BY <3>1, <3>2
  <2>3. QED
    BY <1>4, <2>1, <2>2 DEF UpdateShareLink, TypeOK, requestVars
<1>5. ASSUME NEW l \in Link, RevokeShareLink(l)
      PROVE  TypeOK'
  <2>1. link' \in [Link -> LinkRow]
    <3>1. link[l] \in LinkRow /\ link \in [Link -> LinkRow]
      BY DEF TypeOK
    <3>2. [link[l] EXCEPT !.state = "revoked"] \in LinkRow
      BY <3>1 DEF LinkRow
    <3>3. link' = [link EXCEPT ![l] = [link[l] EXCEPT !.state = "revoked"]]
      BY <1>5 DEF RevokeShareLink
    <3>4. QED
      BY <3>1, <3>2, <3>3
  <2>2. link[l].terms \in Terms
    BY <1>5 DEF RevokeShareLink, LinkInv
  <2>3. QED
    BY <1>5, <2>1, <2>2, RetireEffect DEF RevokeShareLink, TypeOK, requestVars
<1>6. ASSUME NEW p \in Profile, DeleteProfile(p)
      PROVE  TypeOK'
  <2> USE <1>6 DEF DeleteProfile, TypeOK
  <2>1. ASSUME NEW l \in Link
        PROVE  link'[l] \in LinkRow
    BY DEF LinkRow
  <2>2. link' \in [Link -> LinkRow]
    BY <2>1
  <2>3. ASSUME NEW r \in Req
        PROVE  row'[r] \in OrderRow \cup {None}
    OBVIOUS
  <2>4. row' \in [Req -> OrderRow \cup {None}]
    BY <2>3
  <2>5. ASSUME NEW l \in Link, NEW t \in Terms
        PROVE  retired'[l][t] \in Nat \cup {None}
    OBVIOUS
  <2>6. retired' \in [Link -> [Terms -> Nat \cup {None}]]
    BY <2>5
  <2>7. keyGone' \in [Profile \X Exchange -> Nat \cup {None}]
    OBVIOUS
  <2>8. QED
    BY <2>2, <2>4, <2>6, <2>7
<1>7. ASSUME NEW r \in Req, NEW p \in Profile, NEW o \in Orders, BeginOwnerTrade(r, p, o)
      PROVE  TypeOK'
  BY <1>7 DEF BeginOwnerTrade, Begin, Goto, dbVars, TypeOK, Running, Job
<1>8. ASSUME NEW r \in Req, NEW l \in Link, NEW o \in Orders, BeginDelegateTrade(r, l, o)
      PROVE  TypeOK'
  BY <1>8 DEF BeginDelegateTrade, Usable, Begin, Goto, dbVars, TypeOK, LinkRow,
              LinkInv, Running, Job
<1>9. ASSUME NEW r \in Req, Advance(r)
      PROVE  TypeOK'
  <2>1. CASE LoadProfile(r) \/ LoadTradeKey(r) \/ CheckLimits(r)
    BY <2>1 DEF LoadProfile, LoadTradeKey, CheckLimits, Goto, dbVars, TypeOK, Running, Over
  <2>2. CASE AdapterRefuses(r) \/ ExchangeRejects(r) \/ ExchangeExecutes(r)
    BY <2>2 DEF AdapterRefuses, ExchangeRejects, ExchangeExecutes, Goto, dbVars,
                TypeOK, Running, Over
  <2>3. CASE ReplyArrives(r) \/ ReplyLost(r) \/ ReplyGarbled(r)
    BY <2>3 DEF ReplyArrives, ReplyLost, ReplyGarbled, Goto, dbVars, TypeOK, Running, Over
  <2>4. ASSUME NEW s \in {"filled", "failed"}, Record(r, s), pc[r] \in Running
        PROVE  TypeOK'
    <3>1. job[r] \in Job /\ job[r].order \in OrderRequest
      BY <2>4 DEF TypeOK, JobInv, Running, Job
    <3>2. NewRow(r, s) \in OrderRow
      BY <3>1 DEF NewRow, OrderRow, Job, OrderRequest
    <3>3. row' \in [Req -> OrderRow \cup {None}]
      <4>1. row \in [Req -> OrderRow \cup {None}]
        BY DEF TypeOK
      <4>2. row' \in {row, [row EXCEPT ![r] = NewRow(r, s)]}
        BY <2>4 DEF Record
      <4>3. QED
        BY <3>2, <4>1, <4>2
    <3>4. pc' \in [Req -> {"idle"} \cup Running \cup Over]
      <4>1. \E place \in Over : pc' = [pc EXCEPT ![r] = place]
        BY <2>4 DEF Record, Goto, Over
      <4>2. QED
        BY <4>1 DEF TypeOK
    <3>5. UNCHANGED <<dbVars, job, executed>>
      BY <2>4 DEF Record
    <3>6. QED
      BY <3>3, <3>4, <3>5 DEF dbVars, TypeOK
  <2>5. QED
    BY <1>9, <2>1, <2>2, <2>3, <2>4 DEF Advance, RecordFilled, RecordFailed, Running
<1>10. ASSUME NEW r \in Req, Crash(r)
       PROVE  TypeOK'
  BY <1>10 DEF Crash, Goto, dbVars, TypeOK, Over
<1>11. CASE Tick
  BY <1>11 DEF Tick, TypeOK, requestVars
<1>12. CASE UNCHANGED vars
  BY <1>12 DEF vars, TypeOK
<1>13. QED
  BY <1>1, <1>2, <1>3, <1>4, <1>5, <1>6, <1>7, <1>8, <1>9, <1>10, <1>11, <1>12
  DEF Next, OwnerStep, Begins

\* What any step of a running handler leaves alone, and where it moves.
LEMMA HandlerStep ==
    ASSUME TypeOK, NEW r \in Req, Advance(r) \/ Crash(r)
    PROVE  /\ UNCHANGED <<dbVars, job>>
           /\ pc[r] \in Running
           /\ pc'[r] \in (Running \cup Over) \ {"idle"}
           /\ \A x \in Req \ {r} : pc'[x] = pc[x] /\ row'[x] = row[x]
                                  /\ (x \in executed' <=> x \in executed)
<1>1. CASE LoadProfile(r) \/ LoadTradeKey(r) \/ CheckLimits(r)
  BY <1>1 DEF LoadProfile, LoadTradeKey, CheckLimits, Goto, TypeOK, Running, Over
<1>2. CASE AdapterRefuses(r) \/ ExchangeRejects(r) \/ ExchangeExecutes(r)
  BY <1>2 DEF AdapterRefuses, ExchangeRejects, ExchangeExecutes, Goto, TypeOK, Running, Over
<1>3. CASE ReplyArrives(r) \/ ReplyLost(r) \/ ReplyGarbled(r)
  BY <1>3 DEF ReplyArrives, ReplyLost, ReplyGarbled, Goto, TypeOK, Running, Over
<1>4. CASE RecordFilled(r) \/ RecordFailed(r) \/ Crash(r)
  BY <1>4 DEF RecordFilled, RecordFailed, Crash, Record, Goto, TypeOK, Running, Over
<1>5. QED
  BY <1>1, <1>2, <1>3, <1>4 DEF Advance

\* What the owner's operations and the clock leave alone: every request's
\* place, variables and execution.
LEMMA OwnerFrame ==
    ASSUME OwnerStep \/ Tick
    PROVE  UNCHANGED <<pc, job, executed>>
BY DEF OwnerStep, Tick, AddTradeKey, DeleteTradeKey, CreateShareLink,
       UpdateShareLink, RevokeShareLink, DeleteProfile, requestVars

\* What beginning a trade does, whoever asks for it.
LEMMA BeginFrame ==
    ASSUME TypeOK, LinkInv, NEW r \in Req, Begins(r)
    PROVE  /\ UNCHANGED <<dbVars, row, executed>>
           /\ pc[r] = "idle" /\ pc'[r] \in {"profile", "key"}
           /\ \A x \in Req \ {r} : pc'[x] = pc[x] /\ job'[x] = job[x]
           /\ job'[r] \in Job /\ job'[r] # None /\ job'[r].began = clock
           /\ job'[r].profile \in profiles
<1>1. ASSUME NEW p \in Profile, NEW o \in Orders, BeginOwnerTrade(r, p, o)
      PROVE  /\ UNCHANGED <<dbVars, row, executed>>
             /\ pc[r] = "idle" /\ pc'[r] = "key"
             /\ \A x \in Req \ {r} : pc'[x] = pc[x] /\ job'[x] = job[x]
             /\ job'[r] = [profile |-> p, link |-> None, terms |-> None,
                           order |-> o, began |-> clock]
  BY <1>1 DEF BeginOwnerTrade, Begin, Goto, TypeOK
<1>2. ASSUME NEW l \in Link, NEW o \in Orders, BeginDelegateTrade(r, l, o)
      PROVE  /\ UNCHANGED <<dbVars, row, executed>>
             /\ pc[r] = "idle" /\ pc'[r] = "profile"
             /\ \A x \in Req \ {r} : pc'[x] = pc[x] /\ job'[x] = job[x]
             /\ job'[r] = [profile |-> link[l].profile, link |-> l,
                           terms |-> link[l].terms, order |-> o, began |-> clock]
  BY <1>2 DEF BeginDelegateTrade, Begin, Goto, TypeOK
<1>3. QED
  <2>1. ASSUME NEW p \in Profile, NEW o \in Orders, BeginOwnerTrade(r, p, o)
        PROVE  job'[r] \in Job /\ job'[r].began = clock /\ job'[r].profile \in profiles
    <3>0. p \in profiles
      BY <2>1 DEF BeginOwnerTrade
    <3>1. job'[r] = [profile |-> p, link |-> None, terms |-> None,
                     order |-> o, began |-> clock]
      BY <1>1, <2>1
    <3>2. clock \in Nat
      BY DEF TypeOK
    <3>3. QED
      BY <3>0, <3>1, <3>2 DEF Job
  <2>2. ASSUME NEW l \in Link, NEW o \in Orders, BeginDelegateTrade(r, l, o)
        PROVE  job'[r] \in Job /\ job'[r].began = clock /\ job'[r].profile \in profiles
    <3>1. link[l].profile \in Profile \cap profiles /\ link[l].terms \in Terms
      BY <2>2 DEF BeginDelegateTrade, Usable, LinkInv, TypeOK
    <3>2. QED
      <4>1. job'[r] = [profile |-> link[l].profile, link |-> l,
                       terms |-> link[l].terms, order |-> o, began |-> clock]
        BY <1>2, <2>2
      <4>2. clock \in Nat
        BY DEF TypeOK
      <4>3. QED
        BY <3>1, <4>1, <4>2 DEF Job
  <2>3. QED
    BY <1>1, <1>2, <2>1, <2>2, NoneAssumption DEF Begins

\* No operation leaves a link usable or editable without its profile: the
\* cascade of DeleteProfile takes the links along.
LEMMA LinkStep ==
    ASSUME TypeOK, LinkInv, [Next]_vars
    PROVE  LinkInv'
<1>1. CASE OwnerStep
  <2>1. ASSUME NEW p \in Profile, NEW e \in Exchange,
               AddTradeKey(p, e) \/ DeleteTradeKey(p, e)
        PROVE  LinkInv'
    BY <2>1 DEF AddTradeKey, DeleteTradeKey, LinkInv
  <2>2. ASSUME NEW l \in Link, NEW p \in Profile, NEW t \in Terms, CreateShareLink(l, p, t)
        PROVE  LinkInv'
    BY <2>2 DEF CreateShareLink, LinkInv, TypeOK
  <2>3. ASSUME NEW l \in Link, NEW t \in Terms, UpdateShareLink(l, t)
        PROVE  LinkInv'
    BY <2>3 DEF UpdateShareLink, LinkInv, TypeOK, LinkRow
  <2>4. ASSUME NEW l \in Link, RevokeShareLink(l)
        PROVE  LinkInv'
    BY <2>4 DEF RevokeShareLink, LinkInv, TypeOK, LinkRow
  <2>5. ASSUME NEW p \in Profile, DeleteProfile(p)
        PROVE  LinkInv'
    <3>1. ASSUME NEW l \in Link, link'[l].state \in {"active", "revoked"}
          PROVE  link[l].profile # p /\ link'[l] = link[l]
      BY <2>5, <3>1 DEF DeleteProfile, TypeOK, LinkRow
    <3>2. QED
      BY <2>5, <3>1 DEF DeleteProfile, LinkInv
  <2>6. QED
    BY <1>1, <2>1, <2>2, <2>3, <2>4, <2>5 DEF OwnerStep
<1>2. ASSUME NEW r \in Req, Begins(r) \/ Advance(r) \/ Crash(r)
      PROVE  LinkInv'
  BY <1>2, HandlerStep, BeginFrame DEF LinkInv, dbVars
<1>3. CASE Tick \/ UNCHANGED vars
  BY <1>3 DEF Tick, vars, LinkInv
<1>4. QED
  BY <1>1, <1>2, <1>3 DEF Next

\* A handler's local variables are set once, when it begins, and time does not
\* pass its deadline while it runs.
LEMMA JobStep ==
    ASSUME TypeOK, LinkInv, JobInv, [Next]_vars
    PROVE  JobInv'
<1>1. CASE OwnerStep
  <2>1. clock' = clock
    BY <1>1 DEF OwnerStep, AddTradeKey, DeleteTradeKey, CreateShareLink,
                UpdateShareLink, RevokeShareLink, DeleteProfile
  <2>2. QED
    BY <1>1, <2>1, OwnerFrame DEF JobInv
<1>2. ASSUME NEW r \in Req, Begins(r)
      PROVE  JobInv'
  BY <1>2, BeginFrame, TradingAssumption DEF JobInv, dbVars, TypeOK
<1>3. ASSUME NEW r \in Req, Advance(r) \/ Crash(r)
      PROVE  JobInv'
  BY <1>3, HandlerStep DEF JobInv, dbVars, Running, Over
<1>4. CASE Tick
  <2>1. ASSUME NEW r \in Req, pc[r] \in Running
        PROVE  job[r].began \in Nat /\ clock < job[r].began + MaxHandler
    <3>1. job[r] \in Job
      BY <2>1 DEF JobInv, TypeOK, Running
    <3>2. QED
      BY <1>4, <2>1, <3>1 DEF Tick, InFlight, Job
  <2>2. QED
    BY <1>4, <2>1, TradingAssumption DEF Tick, requestVars, JobInv, TypeOK
<1>5. CASE UNCHANGED vars
  BY <1>5 DEF vars, JobInv
<1>6. QED
  BY <1>1, <1>2, <1>3, <1>4, <1>5 DEF Next

\* No step takes terms out of force, or a key out of the table, without dating
\* it; and a date only ever moves to the present.
LEMMA RetirementStep ==
    ASSUME TypeOK, LinkInv, [Next]_vars, NEW l \in Link, NEW t \in Terms
    PROVE  /\ InForce(l, t) => InForce(l, t)' \/ retired'[l][t] = clock
           /\ retired'[l][t] \in {clock, retired[l][t]}
           /\ retired'[l][t] # retired[l][t] => InForce(l, t)
<1>1. ASSUME NEW p \in Profile, NEW e \in Exchange,
             AddTradeKey(p, e) \/ DeleteTradeKey(p, e)
      PROVE  link' = link /\ retired' = retired
  BY <1>1 DEF AddTradeKey, DeleteTradeKey
<1>2. ASSUME NEW x \in Link, NEW p \in Profile, NEW u \in Terms, CreateShareLink(x, p, u)
      PROVE  retired' = retired /\ (InForce(l, t) => InForce(l, t)')
  BY <1>2 DEF CreateShareLink, InForce, TypeOK
<1>3. ASSUME NEW x \in Link, NEW u \in Terms, UpdateShareLink(x, u)
      PROVE  /\ InForce(l, t) => InForce(l, t)' \/ retired'[l][t] = clock
             /\ retired'[l][t] \in {clock, retired[l][t]}
             /\ retired'[l][t] # retired[l][t] => InForce(l, t)
  <2>1. CASE link[x].state = "active"
    <3>1. link[x].terms \in Terms /\ Retire(x, link[x].terms)
      BY <1>3, <2>1 DEF UpdateShareLink, LinkInv
    <3>2. x # l => link'[l] = link[l]
      BY <1>3 DEF UpdateShareLink, TypeOK
    <3>3. QED
      BY <2>1, <3>1, <3>2, RetireEffect DEF InForce
  <2>2. CASE link[x].state # "active"
    BY <1>3, <2>2 DEF UpdateShareLink, InForce, TypeOK
  <2>3. QED
    BY <2>1, <2>2
<1>4. ASSUME NEW x \in Link, RevokeShareLink(x)
      PROVE  /\ InForce(l, t) => InForce(l, t)' \/ retired'[l][t] = clock
             /\ retired'[l][t] \in {clock, retired[l][t]}
             /\ retired'[l][t] # retired[l][t] => InForce(l, t)
  <2>1. /\ link[x].terms \in Terms /\ Retire(x, link[x].terms)
        /\ link[x].state = "active"
    BY <1>4 DEF RevokeShareLink, LinkInv
  <2>2. x # l => link'[l] = link[l]
    BY <1>4 DEF RevokeShareLink, TypeOK
  <2>3. QED
    BY <2>1, <2>2, RetireEffect DEF InForce
<1>5. ASSUME NEW p \in Profile, DeleteProfile(p)
      PROVE  /\ InForce(l, t) => InForce(l, t)' \/ retired'[l][t] = clock
             /\ retired'[l][t] \in {clock, retired[l][t]}
             /\ retired'[l][t] # retired[l][t] => InForce(l, t)
  BY <1>5 DEF DeleteProfile, InForce, TypeOK
<1>6. ASSUME NEW r \in Req, Begins(r) \/ Advance(r) \/ Crash(r)
      PROVE  link' = link /\ retired' = retired
  BY <1>6, HandlerStep, BeginFrame DEF dbVars
<1>7. CASE Tick \/ UNCHANGED vars
  BY <1>7 DEF Tick, vars, InForce
<1>8. QED
  BY <1>1, <1>2, <1>3, <1>4, <1>5, <1>6, <1>7 DEF Next, OwnerStep, InForce

\* A trade key that disappears is marked with the moment of its removal, and a
\* mark only ever moves to the present.
LEMMA KeyRemovalStep ==
    ASSUME TypeOK, LinkInv, [Next]_vars, NEW k \in Profile \X Exchange
    PROVE  /\ k \in tradeKeys => k \in tradeKeys' \/ keyGone'[k] = clock
           /\ keyGone'[k] \in {clock, keyGone[k]}
<1>1. ASSUME NEW p \in Profile, NEW e \in Exchange,
             AddTradeKey(p, e) \/ DeleteTradeKey(p, e)
      PROVE  /\ k \in tradeKeys => k \in tradeKeys' \/ keyGone'[k] = clock
             /\ keyGone'[k] \in {clock, keyGone[k]}
  BY <1>1 DEF AddTradeKey, DeleteTradeKey, TypeOK, Key
<1>2. ASSUME NEW p \in Profile, DeleteProfile(p)
      PROVE  /\ k \in tradeKeys => k \in tradeKeys' \/ keyGone'[k] = clock
             /\ keyGone'[k] \in {clock, keyGone[k]}
  BY <1>2 DEF DeleteProfile, TypeOK
<1>3. ASSUME NEW l \in Link, NEW p \in Profile, NEW t \in Terms,
             CreateShareLink(l, p, t) \/ UpdateShareLink(l, t) \/ RevokeShareLink(l)
      PROVE  tradeKeys' = tradeKeys /\ keyGone' = keyGone
  BY <1>3 DEF CreateShareLink, UpdateShareLink, RevokeShareLink
<1>4. ASSUME NEW r \in Req, Begins(r) \/ Advance(r) \/ Crash(r)
      PROVE  tradeKeys' = tradeKeys /\ keyGone' = keyGone
  BY <1>4, HandlerStep, BeginFrame DEF dbVars
<1>5. ASSUME NEW l \in Link, RevokeShareLink(l)
      PROVE  tradeKeys' = tradeKeys /\ keyGone' = keyGone
  BY <1>5 DEF RevokeShareLink
<1>6. ASSUME NEW l \in Link, NEW t \in Terms, UpdateShareLink(l, t)
      PROVE  tradeKeys' = tradeKeys /\ keyGone' = keyGone
  BY <1>6 DEF UpdateShareLink
<1>7. CASE Tick \/ UNCHANGED vars
  BY <1>7 DEF Tick, vars
<1>8. QED
  BY <1>1, <1>2, <1>3, <1>4, <1>5, <1>6, <1>7 DEF Next, OwnerStep

\* What a running handler holds, as values of their types.
LEMMA RunningJob ==
    ASSUME TypeOK, JobInv, NEW r \in Req, pc[r] # "idle"
    PROVE  /\ job[r] \in Job /\ job[r].began \in Nat
           /\ IsDelegate(r) => job[r].link \in Link
           /\ KeyOf(r) \in Profile \X Exchange
           /\ job[r].order \in OrderRequest
<1>1. job[r] \in Job
  BY DEF TypeOK, JobInv
<1>2. job[r].order \in OrderRequest
  BY <1>1, TradingAssumption DEF Job
<1>3. QED
  BY <1>1, <1>2 DEF Job, IsDelegate, KeyOf, Key, OrderRequest

\* Link terms a handler has read stay accounted for: whatever edits, revokes or
\* deletes the link meanwhile marks them as retired after the handler began.
LEMMA TermsStep ==
    ASSUME TypeOK, LinkInv, JobInv, TermsInv, [Next]_vars
    PROVE  TermsInv'
<1> DEFINE Held(r) ==
        /\ job[r].terms \in Terms
        /\ \/ InForce(job[r].link, job[r].terms)
           \/ /\ retired[job[r].link][job[r].terms] # None
              /\ job[r].began <= retired[job[r].link][job[r].terms]
        /\ job[r].terms.expires # None => job[r].began <= job[r].terms.expires
\* A handler that already ran keeps what it held, whoever takes the step.
<1>1. ASSUME NEW r \in Req, pc[r] \in Running, IsDelegate(r), job'[r] = job[r]
      PROVE  Held(r)'
  <2>1. job[r].link \in Link /\ job[r].began \in Nat /\ job[r].began <= clock
    BY <1>1, RunningJob DEF JobInv, Running
  <2>2. job[r].terms \in Terms /\ Held(r)
    BY <1>1 DEF TermsInv
  <2>3. clock \in Nat /\ clock # None
    BY NoneAssumption DEF TypeOK
  <2>4. QED
    BY <1>1, <2>1, <2>2, <2>3, RetirementStep DEF InForce
<1>2. ASSUME NEW r \in Req, OwnerStep \/ Tick
      PROVE  (pc'[r] \in Running /\ IsDelegate(r)') =>
                 Held(r)' /\ (pc'[r] = "send" => Permits(job[r].terms, job[r].order))
  <2>1. pc' = pc /\ job' = job
    BY <1>2, OwnerFrame
  <2>2. QED
    BY <1>1, <2>1 DEF TermsInv, IsDelegate
<1>3. ASSUME NEW r \in Req, NEW q \in Req, Begins(q)
      PROVE  (pc'[r] \in Running /\ IsDelegate(r)') =>
                 Held(r)' /\ (pc'[r] = "send" => Permits(job'[r].terms, job'[r].order))
  <2>1. CASE r # q
    BY <1>1, <1>3, <2>1, BeginFrame DEF TermsInv, IsDelegate
  <2>2. ASSUME r = q, NEW p \in Profile, NEW o \in Orders, BeginOwnerTrade(q, p, o)
        PROVE  ~IsDelegate(r)'
    BY <2>2 DEF BeginOwnerTrade, Begin, IsDelegate, TypeOK
  <2>3. ASSUME r = q, NEW l \in Link, NEW o \in Orders, BeginDelegateTrade(q, l, o)
        PROVE  Held(r)' /\ pc'[r] # "send"
    <3>1. /\ job'[r].link = l /\ job'[r].terms = link[l].terms /\ job'[r].began = clock
          /\ pc'[r] = "profile" /\ link' = link /\ link[l].state = "active"
          /\ link[l].terms.expires # None => clock <= link[l].terms.expires
      BY <2>3 DEF BeginDelegateTrade, Usable, Begin, Goto, dbVars, TypeOK
    <3>2. link[l].terms \in Terms
      BY <3>1 DEF LinkInv
    <3>3. QED
      BY <3>1, <3>2 DEF InForce
  <2>4. QED
    BY <1>3, <2>1, <2>2, <2>3 DEF Begins
<1>4. ASSUME NEW r \in Req, NEW q \in Req, Advance(q) \/ Crash(q)
      PROVE  (pc'[r] \in Running /\ IsDelegate(r)') =>
                 Held(r)' /\ (pc'[r] = "send" => Permits(job'[r].terms, job'[r].order))
  <2>1. job' = job
    BY <1>4, HandlerStep
  <2>2. CASE r # q
    BY <1>1, <1>4, <2>1, <2>2, HandlerStep DEF TermsInv, IsDelegate
  <2>3. CASE r = q
    <3>1. pc[r] \in Running
      BY <1>4, <2>3, HandlerStep
    <3>2. ASSUME pc'[r] = "send", IsDelegate(r)
          PROVE  Permits(job[r].terms, job[r].order)
      BY <1>4, <2>3, <3>2
      DEF Advance, Crash, LoadProfile, LoadTradeKey, CheckLimits, AdapterRefuses,
          ExchangeRejects, ExchangeExecutes, ReplyArrives, ReplyLost, ReplyGarbled,
          RecordFilled, RecordFailed, Record, Goto, TypeOK
    <3>3. QED
      BY <1>1, <2>1, <2>3, <3>1, <3>2 DEF IsDelegate
  <2>4. QED
    BY <2>2, <2>3
<1>5. ASSUME NEW r \in Req, UNCHANGED vars
      PROVE  (pc'[r] \in Running /\ IsDelegate(r)') =>
                 Held(r)' /\ (pc'[r] = "send" => Permits(job'[r].terms, job'[r].order))
  BY <1>1, <1>5 DEF vars, TermsInv, IsDelegate
<1>6. ASSUME NEW r \in Req
      PROVE  (pc'[r] \in Running /\ IsDelegate(r)') =>
                 Held(r)' /\ (pc'[r] = "send" => Permits(job'[r].terms, job'[r].order))
  BY <1>2, <1>3, <1>4, <1>5, OwnerFrame DEF Next
<1>7. QED
  BY <1>6 DEF TermsInv

\* A trade key a handler has found stays accounted for in the same way.
LEMMA KeyStep ==
    ASSUME TypeOK, LinkInv, JobInv, KeyInv, [Next]_vars
    PROVE  KeyInv'
<1> SUFFICES ASSUME NEW r \in Req, pc'[r] \in {"limits", "send"}
             PROVE  \/ KeyOf(r)' \in tradeKeys'
                    \/ /\ keyGone'[KeyOf(r)'] # None
                       /\ job'[r].began <= keyGone'[KeyOf(r)']
  BY DEF KeyInv
<1>1. ASSUME pc[r] \in {"limits", "send"}, job'[r] = job[r]
      PROVE  \/ KeyOf(r)' \in tradeKeys'
             \/ /\ keyGone'[KeyOf(r)'] # None
                /\ job'[r].began <= keyGone'[KeyOf(r)']
  <2>1. /\ KeyOf(r)' = KeyOf(r) /\ KeyOf(r) \in Profile \X Exchange
        /\ job[r].began \in Nat /\ job[r].began <= clock
    BY <1>1, RunningJob DEF JobInv, Running, KeyOf
  <2>2. clock \in Nat /\ clock # None
    BY NoneAssumption DEF TypeOK
  <2>3. QED
    BY <1>1, <2>1, <2>2, KeyRemovalStep DEF KeyInv
<1>2. CASE OwnerStep \/ Tick \/ UNCHANGED vars
  BY <1>1, <1>2, OwnerFrame DEF vars
<1>3. ASSUME NEW q \in Req, Begins(q)
      PROVE  q # r /\ pc'[r] = pc[r] /\ job'[r] = job[r]
  BY <1>3, BeginFrame
<1>4. ASSUME NEW q \in Req, Advance(q) \/ Crash(q)
      PROVE  \/ pc[r] \in {"limits", "send"} /\ job'[r] = job[r]
             \/ KeyOf(r)' \in tradeKeys'
  <2>1. job' = job /\ UNCHANGED tradeKeys
    BY <1>4, HandlerStep DEF dbVars
  <2>2. CASE q # r
    BY <1>4, <2>1, <2>2, HandlerStep
  <2>3. CASE q = r
    BY <1>4, <2>1, <2>3
    DEF Advance, Crash, LoadProfile, LoadTradeKey, CheckLimits, AdapterRefuses,
        ExchangeRejects, ExchangeExecutes, ReplyArrives, ReplyLost, ReplyGarbled,
        RecordFilled, RecordFailed, Record, Goto, TypeOK, KeyOf
  <2>4. QED
    BY <2>2, <2>3
<1>5. QED
  BY <1>1, <1>2, <1>3, <1>4 DEF Next

\* No step brings a deleted profile back, and only deleting it orphans the
\* requests that work on it.
LEMMA OrphanStep ==
    ASSUME TypeOK, LinkInv, JobInv, [Next]_vars, NEW r \in Req, pc[r] # "idle"
    PROVE  /\ job'[r] = job[r]
           /\ Orphaned(r) => Orphaned(r)'
           /\ profiles' = profiles => (Orphaned(r)' <=> Orphaned(r))
<1>1. job'[r] = job[r]
  <2>1. CASE OwnerStep \/ Tick \/ UNCHANGED vars
    BY <2>1, OwnerFrame DEF vars
  <2>2. ASSUME NEW q \in Req, Begins(q)
        PROVE  job'[r] = job[r]
    BY <2>2, BeginFrame
  <2>3. ASSUME NEW q \in Req, Advance(q) \/ Crash(q)
        PROVE  job'[r] = job[r]
    BY <2>3, HandlerStep
  <2>4. QED
    BY <2>1, <2>2, <2>3 DEF Next
<1>2. profiles' \subseteq profiles
  <2>1. CASE OwnerStep \/ Tick \/ UNCHANGED vars
    BY <2>1 DEF OwnerStep, Tick, vars, AddTradeKey, DeleteTradeKey, CreateShareLink,
                UpdateShareLink, RevokeShareLink, DeleteProfile
  <2>2. ASSUME NEW q \in Req, Begins(q) \/ Advance(q) \/ Crash(q)
        PROVE  profiles' = profiles
    BY <2>2, BeginFrame, HandlerStep DEF dbVars
  <2>3. QED
    BY <2>1, <2>2 DEF Next
<1>3. QED
  BY <1>1, <1>2 DEF Orphaned

\* No step confuses what the exchange executed with where the handler stands.
LEMMA VenueStep ==
    ASSUME TypeOK, LinkInv, JobInv, VenueInv, [Next]_vars
    PROVE  VenueInv'
<1> SUFFICES ASSUME NEW r \in Req
             PROVE
    /\ pc'[r] \in {"idle", "profile", "key", "limits", "send"} => r \notin executed'
    /\ pc'[r] \in {"reply", "fill", "filled"} => r \in executed'
    /\ (Faults = {} /\ pc'[r] \in {"fail", "failed", "refused"}) => r \notin executed'
    /\ (Faults = {} /\ pc'[r] = "broken") => Orphaned(r)'
  BY DEF VenueInv
<1>1. CASE pc'[r] = pc[r] /\ (r \in executed' <=> r \in executed)
  BY <1>1, OrphanStep DEF VenueInv
<1>2. CASE OwnerStep \/ Tick \/ UNCHANGED vars
  BY <1>1, <1>2, OwnerFrame DEF vars
<1>3. ASSUME NEW q \in Req, Begins(q)
      PROVE  \/ pc'[r] = pc[r] /\ (r \in executed' <=> r \in executed)
             \/ pc[r] = "idle" /\ pc'[r] \in {"profile", "key"} /\ executed' = executed
  BY <1>3, BeginFrame
<1>4. ASSUME NEW q \in Req, Advance(q) \/ Crash(q), q # r
      PROVE  pc'[r] = pc[r] /\ (r \in executed' <=> r \in executed)
  BY <1>4, HandlerStep
<1>5. ASSUME Advance(r) \/ Crash(r)
      PROVE
    /\ pc'[r] \in {"idle", "profile", "key", "limits", "send"} => r \notin executed'
    /\ pc'[r] \in {"reply", "fill", "filled"} => r \in executed'
    /\ (Faults = {} /\ pc'[r] \in {"fail", "failed", "refused"}) => r \notin executed'
    /\ (Faults = {} /\ pc'[r] = "broken") => Orphaned(r)'
  <2>1. CASE LoadProfile(r) \/ LoadTradeKey(r) \/ CheckLimits(r)
    BY <2>1 DEF LoadProfile, LoadTradeKey, CheckLimits, Goto, TypeOK, VenueInv
  <2>2. CASE AdapterRefuses(r) \/ ExchangeRejects(r) \/ ExchangeExecutes(r)
    BY <2>2 DEF AdapterRefuses, ExchangeRejects, ExchangeExecutes, Goto, TypeOK, VenueInv
  <2>3. CASE ReplyArrives(r) \/ ReplyLost(r) \/ ReplyGarbled(r) \/ Crash(r)
    BY <2>3 DEF ReplyArrives, ReplyLost, ReplyGarbled, Crash, Goto, TypeOK, VenueInv
  <2>4. CASE RecordFilled(r) \/ RecordFailed(r)
    <3>1. job[r] # None /\ job' = job /\ profiles' = profiles
      BY <2>4 DEF RecordFilled, RecordFailed, Record, dbVars, JobInv
    <3>2. QED
      BY <2>4, <3>1 DEF RecordFilled, RecordFailed, Record, Goto, TypeOK, VenueInv, Orphaned
  <2>5. QED
    BY <1>5, <2>1, <2>2, <2>3, <2>4 DEF Advance
<1>6. CASE pc[r] = "idle" /\ pc'[r] \in {"profile", "key"} /\ executed' = executed
  BY <1>6 DEF VenueInv
<1>7. QED
  BY <1>1, <1>2, <1>3, <1>4, <1>5, <1>6 DEF Next

\* A trade_orders row agrees with the answer of its request, and a row of a
\* deleted profile is neither kept nor inserted.
LEMMA RowStep ==
    ASSUME TypeOK, LinkInv, JobInv, RowInv, [Next]_vars
    PROVE  RowInv'
<1> DEFINE Agrees(r) ==
        /\ row[r] # None => /\ pc[r] = row[r].status
                            /\ row[r].profile = job[r].profile
                            /\ ~Orphaned(r)
        /\ (pc[r] \in {"filled", "failed"} /\ ~Orphaned(r)) => row[r] # None
<1> SUFFICES ASSUME NEW r \in Req
             PROVE  Agrees(r)'
  BY DEF RowInv
<1>0. Agrees(r)
  BY DEF RowInv
<1>1. row[r] # None => pc[r] # "idle"
  BY <1>0 DEF TypeOK, OrderRow
<1>2. ASSUME pc'[r] = pc[r], row'[r] = row[r], profiles' = profiles, job'[r] = job[r]
      PROVE  Agrees(r)'
  BY <1>0, <1>2 DEF Orphaned
<1>3. ASSUME NEW p \in Profile, DeleteProfile(p)
      PROVE  Agrees(r)'
  <2>1. /\ pc' = pc /\ job' = job /\ profiles' = profiles \ {p}
        /\ row'[r] = IF row[r] # None /\ row[r].profile = p THEN None ELSE row[r]
    BY <1>3 DEF DeleteProfile
  <2>2. pc[r] # "idle" => job[r] # None
    BY DEF JobInv
  <2>3. QED
    BY <1>0, <1>1, <2>1, <2>2 DEF Orphaned
<1>4. ASSUME OwnerStep \/ Tick \/ UNCHANGED vars,
             ~ \E p \in Profile : DeleteProfile(p)
      PROVE  Agrees(r)'
  <2>1. row' = row /\ profiles' = profiles /\ pc' = pc /\ job' = job
    BY <1>4 DEF OwnerStep, Tick, vars, requestVars, AddTradeKey, DeleteTradeKey,
                CreateShareLink, UpdateShareLink, RevokeShareLink
  <2>2. QED
    BY <1>2, <2>1
<1>5. ASSUME NEW q \in Req, Begins(q)
      PROVE  Agrees(r)'
  <2>1. CASE q # r
    BY <1>2, <1>5, <2>1, BeginFrame DEF dbVars
  <2>2. CASE q = r
    BY <1>1, <1>5, <2>2, BeginFrame
  <2>3. QED
    BY <2>1, <2>2
<1>6. ASSUME NEW q \in Req, Advance(q) \/ Crash(q), q # r
      PROVE  Agrees(r)'
  BY <1>2, <1>6, HandlerStep DEF dbVars
<1>7. ASSUME Advance(r) \/ Crash(r)
      PROVE  Agrees(r)'
  <2>1. pc[r] \in Running /\ row[r] = None /\ profiles' = profiles /\ job' = job
    BY <1>0, <1>7, HandlerStep DEF dbVars, Running, TypeOK, OrderRow
  <2>2. CASE RecordFilled(r) \/ RecordFailed(r)
    <3>1. PICK s \in {"filled", "failed"} : Record(r, s)
      BY <2>2 DEF RecordFilled, RecordFailed
    <3>2. job[r] \in Job /\ job[r] # None
      BY <2>1 DEF Running, JobInv, TypeOK
    <3>3. CASE job[r].profile \in profiles
      <4>1. row'[r] = NewRow(r, s) /\ pc'[r] = s
        BY <3>1, <3>3 DEF Record, Goto, TypeOK
      <4>2. NewRow(r, s) # None
        <5>1. job[r].order \in OrderRequest
          BY <3>2, TradingAssumption DEF Job
        <5>2. NewRow(r, s) \in OrderRow
          BY <3>2, <5>1 DEF NewRow, OrderRow, Job, OrderRequest
        <5>3. QED
          BY <5>2, NoneAssumption
      <4>3. QED
        BY <2>1, <3>3, <4>1, <4>2 DEF NewRow, Orphaned
    <3>4. CASE job[r].profile \notin profiles
      BY <2>1, <3>1, <3>4 DEF Record, Goto, TypeOK
    <3>5. QED
      BY <3>3, <3>4
  <2>3. CASE ~(RecordFilled(r) \/ RecordFailed(r))
    <3>1. row'[r] = None
      BY <1>7, <2>1, <2>3
      DEF Advance, Crash, LoadProfile, LoadTradeKey, CheckLimits, AdapterRefuses,
          ExchangeRejects, ExchangeExecutes, ReplyArrives, ReplyLost, ReplyGarbled
    <3>2. pc'[r] \notin {"filled", "failed"}
      BY <1>7, <2>3
      DEF Advance, Crash, LoadProfile, LoadTradeKey, CheckLimits, AdapterRefuses,
          ExchangeRejects, ExchangeExecutes, ReplyArrives, ReplyLost, ReplyGarbled,
          Goto, TypeOK
    <3>3. QED
      BY <3>1, <3>2
  <2>4. QED
    BY <2>2, <2>3
<1>8. QED
  BY <1>3, <1>4, <1>5, <1>6, <1>7 DEF Next, OwnerStep

\* The invariant is inductive: every step preserves each of its parts.
LEMMA ProvenanceStep == Provenance /\ [Next]_vars => Provenance'
BY TypeStep, LinkStep, JobStep, TermsStep, KeyStep, VenueStep, RowStep DEF Provenance

\* In every state, everything a trade handler holds was read from a committed
\* row after it began, and handler, exchange and log agree.
THEOREM ProvenanceHolds == Spec => []Provenance
BY InitProvenance, ProvenanceStep, PTL DEF Spec

\* Type correctness of the trading model.
THEOREM TypeCorrectness == Spec => []TypeOK
<1>1. Provenance => TypeOK
  BY DEF Provenance
<1>2. QED
  BY <1>1, ProvenanceHolds, PTL

\* Only the exchange executing the order of a handler that is past all its
\* checks adds to what was executed.
LEMMA OnlyChecksExecute ==
    ASSUME Provenance, [Next]_vars, NEW r \in Req, Executes(r)
    PROVE  ExchangeExecutes(r)
<1> USE DEF Provenance
<1>1. CASE OwnerStep \/ Tick \/ UNCHANGED vars
  BY <1>1, OwnerFrame DEF Executes, vars
<1>2. ASSUME NEW q \in Req, Begins(q)
      PROVE  FALSE
  BY <1>2, BeginFrame DEF Executes
<1>3. ASSUME NEW q \in Req, Advance(q) \/ Crash(q)
      PROVE  ExchangeExecutes(r)
  <2>1. q = r
    BY <1>3, HandlerStep DEF Executes
  <2>2. QED
    BY <1>3, <2>1
    DEF Advance, Crash, LoadProfile, LoadTradeKey, CheckLimits, AdapterRefuses,
        ExchangeRejects, ReplyArrives, ReplyLost, ReplyGarbled,
        RecordFilled, RecordFailed, Record, Executes
<1>4. QED
  BY <1>1, <1>2, <1>3 DEF Next

\* No order reaches the exchange on authority that lapsed more than one
\* handler's duration ago: not after a revocation, an edit, an expiry, the
\* removal of the trade key or of the profile.
THEOREM AuthorityTheorem == Spec => AuthorityIsFresh
<1>1. ASSUME Provenance, [Next]_vars, NEW r \in Req, Executes(r)
      PROVE  /\ KeyFresh(KeyOf(r))
             /\ IsDelegate(r) =>
                   /\ Permits(job[r].terms, job[r].order)
                   /\ TermsFresh(job[r].link, job[r].terms)
                   /\ job[r].terms.expires # None =>
                         clock <= job[r].terms.expires + MaxHandler
  <2>1. pc[r] = "send"
    BY <1>1, OnlyChecksExecute DEF ExchangeExecutes
  <2>2. /\ job[r] \in Job /\ job[r].began \in Nat /\ KeyOf(r) \in Profile \X Exchange
        /\ clock \in Nat /\ clock <= job[r].began + MaxHandler /\ MaxHandler \in Nat
    BY <1>1, <2>1, RunningJob, TradingAssumption DEF Provenance, TypeOK, JobInv, Running
  <2>3. KeyFresh(KeyOf(r))
    <3>1. keyGone[KeyOf(r)] \in Nat \cup {None}
      BY <1>1, <2>2 DEF Provenance, TypeOK
    <3>2. QED
      BY <1>1, <2>1, <2>2, <3>1 DEF Provenance, KeyInv, KeyFresh
  <2>4. ASSUME IsDelegate(r)
        PROVE  /\ Permits(job[r].terms, job[r].order)
               /\ TermsFresh(job[r].link, job[r].terms)
               /\ job[r].terms.expires # None =>
                     clock <= job[r].terms.expires + MaxHandler
    <3>1. job[r].link \in Link /\ job[r].terms \in Terms
      BY <1>1, <2>1, <2>4, RunningJob DEF Provenance, TermsInv, Running
    <3>2. /\ retired[job[r].link][job[r].terms] \in Nat \cup {None}
          /\ job[r].terms.expires \in Nat \cup {None}
      BY <1>1, <3>1, TradingAssumption DEF Provenance, TypeOK, LinkTerms, Limit
    <3>3. /\ Permits(job[r].terms, job[r].order)
          /\ \/ InForce(job[r].link, job[r].terms)
             \/ /\ retired[job[r].link][job[r].terms] # None
                /\ job[r].began <= retired[job[r].link][job[r].terms]
          /\ job[r].terms.expires # None => job[r].began <= job[r].terms.expires
      BY <1>1, <2>1, <2>4 DEF Provenance, TermsInv, Running
    <3>4. QED
      BY <2>2, <3>2, <3>3 DEF TermsFresh
  <2>5. QED
    BY <2>3, <2>4
<1>2. Provenance /\ [Next]_vars =>
        [\A r \in Req : Executes(r) =>
          /\ KeyFresh(KeyOf(r))
          /\ IsDelegate(r) =>
                /\ Permits(job[r].terms, job[r].order)
                /\ TermsFresh(job[r].link, job[r].terms)
                /\ job[r].terms.expires # None =>
                      clock <= job[r].terms.expires + MaxHandler]_vars
  BY <1>1
<1>3. QED
  BY <1>2, ProvenanceHolds, PTL DEF Spec, AuthorityIsFresh

-----------------------------------------------------------------------------
(* The refinement of OrderLedger. *)

\* A handler either has the exchange execute its order, which moves it from
\* "send" to "reply", or leaves what was executed alone.
LEMMA ExecuteOrKeep ==
    ASSUME TypeOK, NEW r \in Req, Advance(r) \/ Crash(r)
    PROVE  \/ ExchangeExecutes(r)
           \/ executed' = executed
BY DEF Advance, Crash, LoadProfile, LoadTradeKey, CheckLimits, AdapterRefuses,
       ExchangeRejects, ReplyArrives, ReplyLost, ReplyGarbled,
       RecordFilled, RecordFailed, Record

\* The entry a step concludes a request with is one the ledger allows.
LEMMA EntryIsTruthful ==
    ASSUME TypeOK', VenueInv', RowInv', NEW r \in Req, pc'[r] \in Over
    PROVE  /\ EntryOf(r)' \in {"none", "filled", "failed"}
           /\ EntryOf(r)' = "filled" => r \in executed'
           /\ Orphaned(r)' => EntryOf(r)' = "none"
           /\ (Faults = {} /\ ~Orphaned(r)') =>
                 (EntryOf(r)' = "filled" <=> r \in executed')
<1>1. row'[r] # None => row'[r].status \in {"filled", "failed"}
  BY DEF TypeOK, OrderRow
<1>2. row'[r] # None => pc'[r] = row'[r].status /\ ~Orphaned(r)'
  BY DEF RowInv
<1>3. (pc'[r] \in {"filled", "failed"} /\ ~Orphaned(r)') => row'[r] # None
  BY DEF RowInv
<1>4. QED
  BY <1>1, <1>2, <1>3 DEF EntryOf, VenueInv, Over

\* Initially no request is in the ledger and the exchange has executed nothing.
LEMMA LedgerInit == Init => Ledger!Init
<1> SUFFICES ASSUME Init PROVE Ledger!Init
  OBVIOUS
<1>1. \A r \in Req : PhaseOf(r) = "new" /\ EntryOf(r) = "none" /\ ~Orphaned(r)
  BY DEF Init, PhaseOf, EntryOf, Orphaned
<1>2. executed = {}
  BY DEF Init
<1>3. QED
  BY <1>1, <1>2 DEF Ledger!Init

\* Every step of the trading model is a step of the ledger or leaves it alone.
LEMMA LedgerStep ==
    ASSUME Provenance, Provenance', [Next]_vars
    PROVE  [Ledger!Next]_(Ledger!vars)
<1> USE DEF Provenance
<1> DEFINE gone == {r \in Req : Orphaned(r)}
           phases == [r \in Req |-> PhaseOf(r)]
           entries == [r \in Req |-> EntryOf(r)]
<1>1. ASSUME UNCHANGED <<pc, row, executed>>,
             \A r \in Req : Orphaned(r)' <=> Orphaned(r)
      PROVE  UNCHANGED Ledger!vars
  <2>1. \A r \in Req : PhaseOf(r)' = PhaseOf(r) /\ EntryOf(r)' = EntryOf(r)
    BY <1>1 DEF PhaseOf, EntryOf
  <2>2. phases' = phases /\ entries' = entries /\ gone' = gone
    BY <1>1, <2>1
  <2>3. QED
    BY <1>1, <2>2 DEF Ledger!vars
<1>2. ASSUME OwnerStep \/ Tick \/ UNCHANGED vars,
             ~ \E p \in Profile : DeleteProfile(p)
      PROVE  UNCHANGED Ledger!vars
  <2>1. row' = row /\ profiles' = profiles /\ pc' = pc /\ job' = job /\ executed' = executed
    BY <1>2 DEF OwnerStep, Tick, vars, requestVars, AddTradeKey, DeleteTradeKey,
                CreateShareLink, UpdateShareLink, RevokeShareLink
  <2>2. QED
    BY <1>1, <2>1 DEF Orphaned
<1>3. ASSUME NEW p \in Profile, DeleteProfile(p)
      PROVE  Ledger!Next
  <2> DEFINE S == {r \in Req : job[r] # None /\ job[r].profile = p}
  <2>1. /\ pc' = pc /\ job' = job /\ executed' = executed /\ profiles' = profiles \ {p}
        /\ \A r \in Req : row'[r] = IF row[r] # None /\ row[r].profile = p
                                   THEN None ELSE row[r]
    BY <1>3 DEF DeleteProfile
  <2>2. gone' = gone \cup S
    BY <2>1 DEF Orphaned
  <2>3. ASSUME NEW r \in Req
        PROVE  EntryOf(r)' = IF r \in S THEN "none" ELSE EntryOf(r)
    <3>1. row[r] # None => /\ pc[r] # "idle" /\ job[r] # None
                          /\ row[r].profile = job[r].profile
      BY DEF RowInv, JobInv, TypeOK, OrderRow
    <3>2. QED
      BY <2>1, <3>1 DEF EntryOf
  <2>4. entries' = [r \in Req |-> IF r \in S THEN "none" ELSE entries[r]]
    BY <2>3
  <2>5. phases' = phases
    BY <2>1 DEF PhaseOf
  <2>6. Ledger!Erase(S)
    BY <2>1, <2>2, <2>4, <2>5 DEF Ledger!Erase
  <2>7. QED
    BY <2>6 DEF Ledger!Next
<1>4. ASSUME NEW r \in Req, Begins(r)
      PROVE  Ledger!Next
  <2>1. /\ UNCHANGED <<profiles, row, executed>>
        /\ pc[r] = "idle" /\ pc'[r] \in {"profile", "key"}
        /\ \A x \in Req \ {r} : pc'[x] = pc[x] /\ job'[x] = job[x]
        /\ job'[r] # None /\ job'[r].profile \in profiles
    BY <1>4, BeginFrame DEF dbVars
  <2>2. phases' = [phases EXCEPT ![r] = "open"] /\ phases[r] = "new"
    BY <2>1 DEF PhaseOf, Running
  <2>3. entries' = entries
    BY <2>1 DEF EntryOf
  <2>4. gone' = gone
    <3>1. job[r] = None
      BY <2>1 DEF JobInv
    <3>2. QED
      BY <2>1, <3>1 DEF Orphaned
  <2>5. Ledger!Accept(r)
    BY <2>1, <2>2, <2>3, <2>4 DEF Ledger!Accept
  <2>6. QED
    BY <2>5 DEF Ledger!Next
<1>5. ASSUME NEW r \in Req, Advance(r) \/ Crash(r)
      PROVE  Ledger!Next \/ UNCHANGED Ledger!vars
  <2>1. /\ profiles' = profiles /\ job' = job
        /\ pc[r] \in Running /\ pc'[r] \in Running \cup Over
        /\ \A x \in Req \ {r} : pc'[x] = pc[x] /\ row'[x] = row[x]
    BY <1>5, HandlerStep DEF dbVars
  <2>2. gone' = gone
    BY <2>1 DEF Orphaned
  <2>3. ASSUME NEW x \in Req \ {r}
        PROVE  PhaseOf(x)' = PhaseOf(x) /\ EntryOf(x)' = EntryOf(x)
    BY <2>1 DEF PhaseOf, EntryOf
  <2>4. PhaseOf(r) = "open" /\ EntryOf(r) = "none"
    BY <2>1 DEF PhaseOf, EntryOf, Running, RowInv, TypeOK, OrderRow
  <2>5. CASE pc'[r] \in Running
    <3>1. PhaseOf(r)' = "open" /\ EntryOf(r)' = "none"
      BY <2>5 DEF PhaseOf, EntryOf, Running, RowInv, TypeOK, OrderRow
    <3>2. phases' = phases /\ entries' = entries
      BY <2>3, <2>4, <3>1
    <3>3. CASE ExchangeExecutes(r)
      <4>1. r \notin executed /\ executed' = executed \cup {r}
        BY <3>3 DEF ExchangeExecutes, VenueInv
      <4>2. Ledger!Execute(r)
        BY <2>2, <2>4, <3>2, <4>1 DEF Ledger!Execute
      <4>3. QED
        BY <4>2 DEF Ledger!Next
    <3>4. CASE executed' = executed
      BY <2>2, <3>2, <3>4 DEF Ledger!vars
    <3>5. QED
      BY <1>5, <3>3, <3>4, ExecuteOrKeep
  <2>6. CASE pc'[r] \in Over
    <3>1. executed' = executed
      BY <1>5, <2>6, ExecuteOrKeep DEF ExchangeExecutes, Goto, TypeOK, Over
    <3>2. phases' = [phases EXCEPT ![r] = "over"]
      BY <2>3, <2>6 DEF PhaseOf, Over, Running
    <3>3. entries' = [entries EXCEPT ![r] = EntryOf(r)']
      BY <2>3
    <3>4. /\ EntryOf(r)' \in {"none", "filled", "failed"}
          /\ EntryOf(r)' = "filled" => r \in executed'
          /\ Orphaned(r)' => EntryOf(r)' = "none"
          /\ (Faults = {} /\ ~Orphaned(r)') => (EntryOf(r)' = "filled" <=> r \in executed')
      BY <2>6, EntryIsTruthful
    <3>5. Orphaned(r)' <=> Orphaned(r)
      BY <2>1 DEF Orphaned
    <3>6. Ledger!Truthful(r, EntryOf(r)')
      BY <3>1, <3>4, <3>5 DEF Ledger!Truthful
    <3>7. Ledger!Conclude(r, EntryOf(r)')
      BY <2>2, <2>4, <3>1, <3>2, <3>3, <3>6 DEF Ledger!Conclude
    <3>8. QED
      BY <3>4, <3>7 DEF Ledger!Next, Ledger!Entry
  <2>7. QED
    BY <2>1, <2>5, <2>6
<1>6. QED
  BY <1>2, <1>3, <1>4, <1>5 DEF Next

\* The trade handlers implement the ledger: an order is executed at most once
\* per request, its entry is written once and not changed, "filled" is only
\* claimed for an executed order, and without faults the log is complete.
THEOREM LedgerRefinement == Spec => ImplementsLedger
<1>1. Init => Ledger!Init
  BY LedgerInit
<1>2. Provenance /\ Provenance' /\ [Next]_vars => [Ledger!Next]_(Ledger!vars)
  BY LedgerStep
<1>3. QED
  BY <1>1, <1>2, ProvenanceHolds, PTL DEF Spec, ImplementsLedger, Ledger!Spec
-----------------------------------------------------------------------------
(* Sums over finite sets.  MapThenSumSet is a fold, and nothing is known of
   a fold until the function it recurses by is known to exist.  Counting
   gives one: the sum of f over S is the number of the units f[x] is made of,
   for all x of S.                                                         *)

Pick(s) == CHOOSE x \in s : TRUE

\* g is the recursive function by which f is summed over S.
Sums(f, S, g) ==
    g = [s \in SUBSET S |-> IF s = {} THEN 0 ELSE f[Pick(s)] + g[s \ {Pick(s)}]]

SumOf(f, S) == (CHOOSE g : Sums(f, S, g))[S]

Units(f, S) == UNION {{x} \X (1..f[x]) : x \in S}

\* The units of one element are as many as it says.
LEMMA UnitsOfOne ==
    ASSUME NEW f, NEW x, f[x] \in Nat
    PROVE  /\ IsFiniteSet({x} \X (1..f[x]))
           /\ Cardinality({x} \X (1..f[x])) = f[x]
<1>1. IsFiniteSet({x}) /\ Cardinality({x}) = 1
  BY FS_Singleton
<1>2. IsFiniteSet(1..f[x]) /\ Cardinality(1..f[x]) = f[x]
  <2>1. 1 \in Int /\ f[x] \in Int
    OBVIOUS
  <2>2. IsFiniteSet(1..f[x]) /\ Cardinality(1..f[x]) = IF 1 > f[x] THEN 0 ELSE f[x] - 1 + 1
    BY <2>1, FS_Interval
  <2>3. QED
    BY <2>2
<1>3. Cardinality({x} \X (1..f[x])) = Cardinality({x}) * Cardinality(1..f[x])
  BY <1>1, <1>2, FS_Product
<1>4. IsFiniteSet({x} \X (1..f[x]))
  BY <1>1, <1>2, FS_Product
<1>5. QED
  BY <1>1, <1>2, <1>3, <1>4

\* There are finitely many units, and of no element.
LEMMA UnitsAreFinite ==
    ASSUME NEW f, NEW S, IsFiniteSet(S), \A x \in S : f[x] \in Nat
    PROVE  /\ IsFiniteSet(Units(f, S)) /\ Cardinality(Units(f, S)) \in Nat
           /\ Units(f, {}) = {}
<1> DEFINE one == [x \in S |-> {x} \X (1..f[x])]
<1>1. one \in Surjection(S, {{x} \X (1..f[x]) : x \in S})
  BY DEF Surjection
<1>2. IsFiniteSet({{x} \X (1..f[x]) : x \in S})
  BY <1>1, FS_Surjection
<1>3. \A T \in {{x} \X (1..f[x]) : x \in S} : IsFiniteSet(T)
  BY UnitsOfOne
<1>4. IsFiniteSet(Units(f, S))
  BY <1>2, <1>3, FS_UNION DEF Units
<1>5. Units(f, {}) = {}
  BY DEF Units
<1>6. QED
  BY <1>4, <1>5, FS_CardinalityType

\* An element taken out takes its units with it.
LEMMA UnitsLess ==
    ASSUME NEW f, NEW S, IsFiniteSet(S), \A x \in S : f[x] \in Nat, NEW y \in S
    PROVE  Cardinality(Units(f, S)) = f[y] + Cardinality(Units(f, S \ {y}))
<1>1. Units(f, S) = Units(f, S \ {y}) \cup ({y} \X (1..f[y]))
  BY DEF Units
<1>2. Units(f, S \ {y}) \cap ({y} \X (1..f[y])) = {}
  BY DEF Units
<1>3. IsFiniteSet(S \ {y}) /\ \A x \in S \ {y} : f[x] \in Nat
  BY FS_RemoveElement
<1>4. IsFiniteSet(Units(f, S \ {y})) /\ Cardinality(Units(f, S \ {y})) \in Nat
  BY <1>3, UnitsAreFinite
<1>5. IsFiniteSet({y} \X (1..f[y])) /\ Cardinality({y} \X (1..f[y])) = f[y]
  BY UnitsOfOne
<1>6. Cardinality(Units(f, S)) =
        Cardinality(Units(f, S \ {y})) + f[y]
        - Cardinality(Units(f, S \ {y}) \cap ({y} \X (1..f[y])))
  BY <1>1, <1>4, <1>5, FS_Union
<1>7. Cardinality(Units(f, S \ {y}) \cap ({y} \X (1..f[y]))) = 0
  BY <1>2, FS_EmptySet
<1>8. f[y] \in Nat
  OBVIOUS
<1>9. QED
  BY <1>4, <1>6, <1>7, <1>8

\* The fold of a finite set is the number of its units: counting satisfies the
\* recursion, and of the sets where another solution differed from it, a
\* smallest one could have no element.
LEMMA SumIsCount ==
    ASSUME NEW f, NEW S, IsFiniteSet(S), \A x \in S : f[x] \in Nat
    PROVE  SumOf(f, S) = Cardinality(Units(f, S))
<1> DEFINE count == [s \in SUBSET S |-> Cardinality(Units(f, s))]
<1>1. ASSUME NEW s \in SUBSET S
      PROVE  /\ IsFiniteSet(s)
             /\ s # {} => /\ Pick(s) \in s /\ s \ {Pick(s)} \in SUBSET S
                          /\ count[s] = f[Pick(s)] + count[s \ {Pick(s)}]
  <2>1. IsFiniteSet(s) /\ \A x \in s : f[x] \in Nat
    BY FS_Subset
  <2>2. ASSUME s # {} PROVE Pick(s) \in s /\ s \ {Pick(s)} \in SUBSET S
    BY <2>2 DEF Pick
  <2>3. ASSUME s # {} PROVE count[s] = f[Pick(s)] + count[s \ {Pick(s)}]
    BY <2>1, <2>2, <2>3, UnitsLess
  <2>4. QED
    BY <2>1, <2>2, <2>3
<1>2. count[{}] = 0
  BY FS_EmptySet, UnitsAreFinite
<1>3. Sums(f, S, count)
  <2> DEFINE again == [s \in SUBSET S |-> IF s = {} THEN 0 ELSE f[Pick(s)] + count[s \ {Pick(s)}]]
  <2>1. \A s \in SUBSET S : count[s] = again[s]
    BY <1>1, <1>2
  <2>2. count = again
    BY <2>1
  <2>3. QED
    BY <2>2 DEF Sums
<1> DEFINE g == CHOOSE g : Sums(f, S, g)
<1>4. Sums(f, S, g)
  BY <1>3
<1> HIDE DEF count, g
<1>5. ASSUME NEW s \in SUBSET S, g[s] # count[s] PROVE FALSE
  <2> DEFINE bad == {u \in SUBSET S : g[u] # count[u]}
  <2>1. bad \subseteq FiniteSubsetsOf(S) /\ bad # {}
    BY <1>5, FS_FiniteSubsetsOfFinite
  <2>2. PICK u \in bad : \A v \in bad : ~(<<v, u>> \in StrictSubsetOrdering(S))
    BY <2>1, FS_StrictSubsetOrderingWellFounded, WFMin
  <2>3. u # {}
    BY <1>2, <1>4, <2>2 DEF Sums
  <2>4. Pick(u) \in u /\ u \ {Pick(u)} \in SUBSET S
    BY <1>1, <2>3
  <2>5. <<u \ {Pick(u)}, u>> \in StrictSubsetOrdering(S)
    BY <2>4 DEF StrictSubsetOrdering
  <2>6. g[u \ {Pick(u)}] = count[u \ {Pick(u)}]
    BY <2>2, <2>4, <2>5
  <2>7. g[u] = f[Pick(u)] + g[u \ {Pick(u)}]
    BY <1>4, <2>3 DEF Sums
  <2>8. count[u] = f[Pick(u)] + count[u \ {Pick(u)}]
    BY <1>1, <2>3
  <2>9. QED
    BY <2>2, <2>6, <2>7, <2>8
<1>6. g[S] = count[S]
  BY <1>5
<1>7. QED
  BY <1>6 DEF SumOf, count, g

\* More elements have no smaller sum.
LEMMA SumWithin ==
    ASSUME NEW f, NEW S, IsFiniteSet(S), \A x \in S : f[x] \in Nat, NEW T \in SUBSET S
    PROVE  SumOf(f, T) \in Nat /\ SumOf(f, S) \in Nat /\ SumOf(f, T) <= SumOf(f, S)
<1>1. IsFiniteSet(T) /\ \A x \in T : f[x] \in Nat
  BY FS_Subset
<1>2. Units(f, T) \subseteq Units(f, S)
  BY DEF Units
<1>3. IsFiniteSet(Units(f, S)) /\ Cardinality(Units(f, T)) \in Nat /\ Cardinality(Units(f, S)) \in Nat
  BY <1>1, UnitsAreFinite
<1>4. Cardinality(Units(f, T)) <= Cardinality(Units(f, S))
  BY <1>2, <1>3, FS_Subset
<1>5. SumOf(f, T) = Cardinality(Units(f, T)) /\ SumOf(f, S) = Cardinality(Units(f, S))
  BY <1>1, SumIsCount
<1>6. QED
  BY <1>3, <1>4, <1>5

\* Two sets together have no larger sum than each for itself.
LEMMA SumOfTwo ==
    ASSUME NEW f, NEW S, IsFiniteSet(S), \A x \in S : f[x] \in Nat,
                  NEW T, IsFiniteSet(T), \A x \in T : f[x] \in Nat
    PROVE  /\ SumOf(f, S \cup T) \in Nat /\ SumOf(f, S) \in Nat /\ SumOf(f, T) \in Nat
           /\ SumOf(f, S \cup T) <= SumOf(f, S) + SumOf(f, T)
<1>1. IsFiniteSet(S \cup T) /\ \A x \in S \cup T : f[x] \in Nat
  BY FS_Union
<1>2. Units(f, S \cup T) = Units(f, S) \cup Units(f, T)
  BY DEF Units
<1>3. IsFiniteSet(Units(f, S)) /\ IsFiniteSet(Units(f, T))
  BY UnitsAreFinite
<1>4. /\ Cardinality(Units(f, S)) \in Nat /\ Cardinality(Units(f, T)) \in Nat
      /\ Cardinality(Units(f, S \cup T)) \in Nat
  BY <1>1, UnitsAreFinite
<1>5. Cardinality(Units(f, S) \cap Units(f, T)) \in Nat
  BY <1>3, FS_Intersection, FS_CardinalityType
<1>6. Cardinality(Units(f, S \cup T)) =
        Cardinality(Units(f, S)) + Cardinality(Units(f, T)) - Cardinality(Units(f, S) \cap Units(f, T))
  BY <1>2, <1>3, FS_Union
<1>7. /\ SumOf(f, S \cup T) = Cardinality(Units(f, S \cup T))
      /\ SumOf(f, S) = Cardinality(Units(f, S)) /\ SumOf(f, T) = Cardinality(Units(f, T))
  BY <1>1, SumIsCount
<1>8. QED
  BY <1>4, <1>5, <1>6, <1>7

\* The sum of numbers of which each is at most c.
LEMMA SumBounded ==
    ASSUME NEW f, NEW S, IsFiniteSet(S), NEW c \in Nat,
           \A x \in S : f[x] \in Nat /\ f[x] <= c
    PROVE  /\ SumOf(f, S) \in Nat /\ Cardinality(S) \in Nat
           /\ SumOf(f, S) <= Cardinality(S) * c
<1>1. IsFiniteSet(1..c) /\ Cardinality(1..c) = c
  <2>1. 1 \in Int /\ c \in Int
    OBVIOUS
  <2>2. IsFiniteSet(1..c) /\ Cardinality(1..c) = IF 1 > c THEN 0 ELSE c - 1 + 1
    BY <2>1, FS_Interval
  <2>3. QED
    BY <2>2
<1>2. IsFiniteSet(S \X (1..c)) /\ Cardinality(S \X (1..c)) = Cardinality(S) * Cardinality(1..c)
  BY <1>1, FS_Product
<1>3. Units(f, S) \subseteq S \X (1..c)
  BY DEF Units
<1>4. Cardinality(Units(f, S)) <= Cardinality(S \X (1..c))
  BY <1>2, <1>3, FS_Subset
<1>5. SumOf(f, S) = Cardinality(Units(f, S)) /\ Cardinality(Units(f, S)) \in Nat
  BY SumIsCount, UnitsAreFinite
<1>6. Cardinality(S) \in Nat
  BY FS_CardinalityType
<1>7. QED
  BY <1>1, <1>2, <1>4, <1>5, <1>6

\* What is summed need only agree on the set.
LEMMA SumSame ==
    ASSUME NEW f, NEW g, NEW S, IsFiniteSet(S), \A x \in S : f[x] \in Nat /\ f[x] = g[x]
    PROVE  SumOf(f, S) = SumOf(g, S)
<1>1. Units(f, S) = Units(g, S)
  BY DEF Units
<1>2. QED
  BY <1>1, SumIsCount

\* The model's fold over the log: each step of it adds the amount of the row picked.
LEMMA SumOfRows ==
    ASSUME NEW log, NEW S
    PROVE  MapThenSumSet(LAMBDA r : log[r].usd, S) = SumOf([r \in S |-> log[r].usd], S)
<1> DEFINE sum == [r \in S |-> log[r].usd]
           step(g) == [s \in SUBSET S |->
                          IF s = {} THEN 0 ELSE log[Pick(s)].usd + g[s \ {Pick(s)}]]
<1>1. ASSUME NEW s \in SUBSET S, s # {} PROVE sum[Pick(s)] = log[Pick(s)].usd
  <2>1. Pick(s) \in S
    BY <1>1 DEF Pick
  <2>2. QED
    BY <2>1
<1>2. ASSUME NEW g
      PROVE  step(g) = [s \in SUBSET S |-> IF s = {} THEN 0 ELSE sum[Pick(s)] + g[s \ {Pick(s)}]]
  <2> HIDE DEF sum
  <2>1. QED
    BY <1>1
<1>3. \A g : g = step(g) <=> Sums(sum, S, g)
  <2> HIDE DEF sum, step
  <2>1. QED
    BY <1>2 DEF Sums
<1>4. (CHOOSE g : g = step(g)) = (CHOOSE g : Sums(sum, S, g))
  <2> HIDE DEF sum, step
  <2>1. QED
    BY <1>3, Zenon
<1>5. MapThenSumSet(LAMBDA r : log[r].usd, S) = (CHOOSE g : g = step(g))[S]
  BY DEF MapThenSumSet, MapThenFoldSet, Pick
<1>6. QED
  BY <1>4, <1>5 DEF SumOf

\* The same for the orders of the requests themselves.
LEMMA SumOfOrders ==
    ASSUME NEW local, NEW S
    PROVE  MapThenSumSet(LAMBDA r : local[r].order.usd, S) = SumOf([r \in S |-> local[r].order.usd], S)
<1> DEFINE sum == [r \in S |-> local[r].order.usd]
           step(g) == [s \in SUBSET S |->
                          IF s = {} THEN 0 ELSE local[Pick(s)].order.usd + g[s \ {Pick(s)}]]
<1>1. ASSUME NEW s \in SUBSET S, s # {} PROVE sum[Pick(s)] = local[Pick(s)].order.usd
  <2>1. Pick(s) \in S
    BY <1>1 DEF Pick
  <2>2. QED
    BY <2>1
<1>2. ASSUME NEW g
      PROVE  step(g) = [s \in SUBSET S |-> IF s = {} THEN 0 ELSE sum[Pick(s)] + g[s \ {Pick(s)}]]
  <2> HIDE DEF sum
  <2>1. QED
    BY <1>1
<1>3. \A g : g = step(g) <=> Sums(sum, S, g)
  <2> HIDE DEF sum, step
  <2>1. QED
    BY <1>2 DEF Sums
<1>4. (CHOOSE g : g = step(g)) = (CHOOSE g : Sums(sum, S, g))
  <2> HIDE DEF sum, step
  <2>1. QED
    BY <1>3, Zenon
<1>5. MapThenSumSet(LAMBDA r : local[r].order.usd, S) = (CHOOSE g : g = step(g))[S]
  BY DEF MapThenSumSet, MapThenFoldSet, Pick
<1>6. QED
  BY <1>4, <1>5 DEF SumOf

-----------------------------------------------------------------------------
(* How far the 24 hour limit can be exceeded.                              *)

\* The requests of link l that are past the limit check, and of these the ones
\* that began in the window that opens at a.
Approved(l) == {r \in Req : pc[r] \in {"send", "reply", "fill", "filled"} /\ job[r].link = l}
InWindow(l, a) == {r \in Approved(l) : job[r].began \in a..(a + Window - MaxHandler)}

Cost == [r \in Req |-> job[r].order.usd]

Begun == {r \in Req : pc[r] # "idle"}

\* Every limit that link l ever had is at most c.
CappedAt(l, c) == \A t \in Offered(l) : t.daily # None /\ t.daily <= c

\* A delegate's request works on the profile of its link, which exists.
OnItsLink == \A r \in Req : (pc[r] # "idle" /\ IsDelegate(r)) =>
    /\ link[job[r].link].state # "unused"
    /\ link[job[r].link].profile = job[r].profile

\* The log has a request's own link, amount and start.
LogIsOfJobs == \A r \in Req : row[r] # None =>
    /\ row[r].link = job[r].link
    /\ row[r].usd = job[r].order.usd
    /\ row[r].createdAt = job[r].began

\* Finitely many requests have begun, no more than MaxInFlight at once, and
\* finitely many terms were offered.
Finitely ==
    /\ IsFiniteSet(Begun) /\ Cardinality(InFlight) <= MaxInFlight
    /\ \A l \in Link : IsFiniteSet(Offered(l))

\* Each request past its check is within every limit, and those of one window
\* together are within MaxInFlight times any.
WithinCaps == Faults = {} => \A l \in Link : link[l].state # "gone" =>
    \A c \in Nat : CappedAt(l, c) =>
        /\ \A r \in Approved(l) : job[r].order.usd <= c
        /\ \A a \in Nat : SumOf(Cost, InWindow(l, a)) <= MaxInFlight * c

Spending == OnItsLink /\ LogIsOfJobs /\ Finitely /\ WithinCaps

\* What a link has been through stays behind it: one that is gone stays gone, a
\* used one is never unused again, and keeps its profile.
LEMMA LinkFate ==
    ASSUME TypeOK, LinkInv, [Next]_vars, NEW l \in Link
    PROVE  /\ link[l].state = "gone" => link'[l].state = "gone"
           /\ link[l].state # "unused" => /\ link'[l].state # "unused"
                                          /\ link'[l].profile = link[l].profile
<1>1. link[l] \in LinkRow
  BY DEF TypeOK
<1>2. CASE link' = link
  BY <1>2
<1>3. ASSUME NEW x \in Link, NEW p \in Profile, NEW t \in Terms, CreateShareLink(x, p, t)
      PROVE  link[l].state # "unused" => link'[l] = link[l]
  BY <1>3 DEF CreateShareLink, TypeOK
<1>4. ASSUME NEW x \in Link, NEW t \in Terms, UpdateShareLink(x, t)
      PROVE  /\ link'[l].state = link[l].state /\ link'[l].profile = link[l].profile
  <2>1. link'[l] = IF l = x THEN [link[l] EXCEPT !.terms = t] ELSE link[l]
    BY <1>4 DEF UpdateShareLink, TypeOK
  <2>2. QED
    BY <1>1, <2>1 DEF LinkRow
<1>5. ASSUME NEW x \in Link, RevokeShareLink(x)
      PROVE  /\ link'[l].profile = link[l].profile
             /\ \/ link'[l].state = link[l].state
                \/ /\ link[l].state = "active"
                   /\ link'[l].state = "revoked"
  <2>1. /\ link'[l] = IF l = x THEN [link[l] EXCEPT !.state = "revoked"] ELSE link[l]
        /\ link[x].state = "active"
    BY <1>5 DEF RevokeShareLink, TypeOK
  <2>2. QED
    BY <1>1, <2>1 DEF LinkRow
<1>6. ASSUME NEW p \in Profile, DeleteProfile(p)
      PROVE  /\ link'[l].profile = link[l].profile
             /\ link'[l].state \in {link[l].state, "gone"}
  BY <1>1, <1>6 DEF DeleteProfile, TypeOK, LinkRow
<1>7. CASE OwnerStep
  <2>1. CASE \E p \in Profile, e \in Exchange : AddTradeKey(p, e) \/ DeleteTradeKey(p, e)
    BY <1>2, <2>1 DEF AddTradeKey, DeleteTradeKey
  <2>2. CASE \E x \in Link, p \in Profile, t \in Terms : CreateShareLink(x, p, t)
    BY <1>3, <2>2
  <2>3. CASE \E x \in Link, t \in Terms : UpdateShareLink(x, t)
    BY <1>4, <2>3
  <2>4. CASE \E x \in Link : RevokeShareLink(x)
    BY <1>5, <2>4
  <2>5. CASE \E p \in Profile : DeleteProfile(p)
    BY <1>6, <2>5
  <2>6. QED
    BY <1>7, <2>1, <2>2, <2>3, <2>4, <2>5 DEF OwnerStep
<1>8. ASSUME NEW r \in Req, Begins(r) \/ Advance(r) \/ Crash(r)
      PROVE  link' = link
  BY <1>8, HandlerStep, BeginFrame DEF dbVars
<1>9. CASE Tick \/ UNCHANGED vars
  BY <1>2, <1>9 DEF Tick, vars
<1>10. QED
  BY <1>2, <1>7, <1>8, <1>9 DEF Next

\* Terms that were offered once stay so, and an operation offers at most one more.
LEMMA OfferedStep ==
    ASSUME TypeOK, LinkInv, [Next]_vars, NEW l \in Link
    PROVE  /\ Offered(l) \subseteq Offered(l)'
           /\ Offered(l)' \subseteq Offered(l) \cup {link'[l].terms}
<1>1. clock \in Nat /\ None \notin Nat
  BY NoneAssumption DEF TypeOK
<1>2. ASSUME NEW t \in Offered(l) PROVE t \in Offered(l)'
  <2>1. /\ t \in Terms /\ (InForce(l, t) \/ retired[l][t] # None)
        /\ InForce(l, t) => InForce(l, t)' \/ retired'[l][t] = clock
        /\ retired'[l][t] \in {clock, retired[l][t]}
    BY RetirementStep DEF Offered
  <2>2. InForce(l, t)' \/ retired'[l][t] # None
    BY <1>1, <2>1
  <2>3. QED
    BY <2>1, <2>2 DEF Offered
<1>3. ASSUME NEW t \in Offered(l)', t # link'[l].terms PROVE t \in Offered(l)
  <2>1. t \in Terms /\ retired'[l][t] # None
    BY <1>3 DEF Offered, InForce
  <2>2. retired[l][t] # None \/ InForce(l, t)
    BY <2>1, RetirementStep
  <2>3. QED
    BY <2>1, <2>2 DEF Offered
<1>4. QED
  BY <1>2, <1>3

\* A request is begun by at most one step, for a link in use.
LEMMA BeginOnLink ==
    ASSUME TypeOK, LinkInv, NEW r \in Req, Begins(r), job'[r].link # None
    PROVE  /\ job'[r].link \in Link
           /\ link[job'[r].link].state = "active"
           /\ link[job'[r].link].profile = job'[r].profile
<1>1. ASSUME NEW p \in Profile, NEW o \in Orders, BeginOwnerTrade(r, p, o)
      PROVE  FALSE
  BY <1>1 DEF BeginOwnerTrade, Begin, TypeOK
<1>2. ASSUME NEW l \in Link, NEW o \in Orders, BeginDelegateTrade(r, l, o)
      PROVE  job'[r].link = l /\ job'[r].profile = link[l].profile /\ link[l].state = "active"
  BY <1>2 DEF BeginDelegateTrade, Begin, Usable, TypeOK
<1>3. QED
  BY <1>1, <1>2 DEF Begins

LEMMA OnItsLinkStep ==
    ASSUME TypeOK, LinkInv, JobInv, OnItsLink, [Next]_vars
    PROVE  OnItsLink'
<1> SUFFICES ASSUME NEW r \in Req, pc'[r] # "idle", job'[r].link # None
             PROVE  /\ link'[job'[r].link].state # "unused"
                    /\ link'[job'[r].link].profile = job'[r].profile
  BY DEF OnItsLink, IsDelegate
<1>1. CASE pc[r] # "idle"
  <2>1. job'[r] = job[r]
    BY <1>1, OrphanStep
  <2>2. /\ job[r].link \in Link /\ link[job[r].link].state # "unused"
        /\ link[job[r].link].profile = job[r].profile
    BY <1>1, <2>1, RunningJob DEF OnItsLink, IsDelegate
  <2>3. QED
    BY <2>1, <2>2, LinkFate
<1>2. CASE pc[r] = "idle"
  <2>1. PICK q \in Req : Begins(q) \/ Advance(q) \/ Crash(q)
    BY <1>2, OwnerFrame DEF Next, vars
  <2>2. Begins(r)
    BY <1>2, <2>1, BeginFrame, HandlerStep DEF Running
  <2>3. link' = link
    BY <2>2, BeginFrame DEF dbVars
  <2>4. QED
    BY <2>2, <2>3, BeginOnLink
<1>3. QED
  BY <1>1, <1>2

\* What Record writes; no other step adds to the log.
LEMMA RowChange ==
    ASSUME TypeOK, [Next]_vars, LinkInv, NEW r \in Req, row'[r] # None
    PROVE  \/ row'[r] = row[r]
           \/ /\ pc[r] \in Running
              /\ \E status \in {"filled", "failed"} : row'[r] = NewRow(r, status)
<1>1. CASE OwnerStep \/ Tick \/ UNCHANGED vars
  BY <1>1 DEF OwnerStep, Tick, vars, requestVars, AddTradeKey, DeleteTradeKey,
              CreateShareLink, UpdateShareLink, RevokeShareLink, DeleteProfile
<1>2. ASSUME NEW q \in Req, Begins(q)
      PROVE  row'[r] = row[r]
  BY <1>2, BeginFrame
<1>3. ASSUME NEW q \in Req, Advance(q) \/ Crash(q), q # r
      PROVE  row'[r] = row[r]
  BY <1>3, HandlerStep
<1>4. ASSUME Advance(r) \/ Crash(r)
      PROVE  \/ row'[r] = row[r]
             \/ /\ pc[r] \in Running
                /\ \E status \in {"filled", "failed"} : row'[r] = NewRow(r, status)
  <2>1. CASE RecordFilled(r) \/ RecordFailed(r)
    <3>1. PICK status \in {"filled", "failed"} : Record(r, status)
      BY <2>1 DEF RecordFilled, RecordFailed
    <3>2. row'[r] \in {row[r], NewRow(r, status)}
      BY <3>1 DEF Record, TypeOK
    <3>3. QED
      BY <1>4, <3>2, HandlerStep
  <2>2. CASE ~(RecordFilled(r) \/ RecordFailed(r))
    BY <1>4, <2>2
    DEF Advance, Crash, LoadProfile, LoadTradeKey, CheckLimits, AdapterRefuses,
        ExchangeRejects, ExchangeExecutes, ReplyArrives, ReplyLost, ReplyGarbled
  <2>3. QED
    BY <2>1, <2>2
<1>5. QED
  BY <1>1, <1>2, <1>3, <1>4 DEF Next

LEMMA LogStep ==
    ASSUME TypeOK, LinkInv, JobInv, RowInv, LogIsOfJobs, [Next]_vars
    PROVE  LogIsOfJobs'
<1> SUFFICES ASSUME NEW r \in Req, row'[r] # None
             PROVE  /\ row'[r].link = job'[r].link
                    /\ row'[r].usd = job'[r].order.usd
                    /\ row'[r].createdAt = job'[r].began
  BY DEF LogIsOfJobs
<1>1. CASE row'[r] = row[r]
  <2>1. pc[r] # "idle"
    BY <1>1 DEF RowInv, TypeOK, OrderRow
  <2>2. job'[r] = job[r]
    BY <2>1, OrphanStep
  <2>3. QED
    BY <1>1, <2>2 DEF LogIsOfJobs
<1>2. ASSUME pc[r] \in Running, NEW status, row'[r] = NewRow(r, status)
      PROVE  /\ row'[r].link = job'[r].link
             /\ row'[r].usd = job'[r].order.usd
             /\ row'[r].createdAt = job'[r].began
  <2>1. job'[r] = job[r]
    BY <1>2, OrphanStep DEF Running
  <2>2. QED
    BY <1>2, <2>1 DEF NewRow
<1>3. QED
  BY <1>1, <1>2, RowChange

LEMMA FinitelyStep ==
    ASSUME TypeOK, LinkInv, JobInv, Finitely, [Next]_vars
    PROVE  Finitely'
<1>1. \A l \in Link : IsFiniteSet(Offered(l))'
  <2> SUFFICES ASSUME NEW l \in Link PROVE IsFiniteSet(Offered(l)')
    OBVIOUS
  <2>1. IsFiniteSet(Offered(l) \cup {link'[l].terms})
    BY FS_AddElement DEF Finitely
  <2>2. QED
    BY <2>1, OfferedStep, FS_Subset
<1>2. IsFiniteSet(Begun) /\ IsFiniteSet(InFlight) /\ Cardinality(InFlight) \in Nat
  <2>1. InFlight \subseteq Begun
    BY DEF InFlight, Begun, Running
  <2>2. QED
    BY <2>1, FS_Subset, FS_CardinalityType DEF Finitely
<1>3. CASE pc' = pc
  BY <1>1, <1>3 DEF Finitely, Begun, InFlight
<1>4. ASSUME NEW r \in Req, Begins(r)
      PROVE  Finitely'
  <2>1. Cardinality(InFlight) < MaxInFlight
    BY <1>4 DEF Begins, BeginOwnerTrade, BeginDelegateTrade, Begin
  <2>2. /\ pc[r] = "idle" /\ pc'[r] \in {"profile", "key"}
        /\ \A x \in Req \ {r} : pc'[x] = pc[x]
    BY <1>4, BeginFrame
  <2>3. Begun' = Begun \cup {r} /\ InFlight' = InFlight \cup {r} /\ r \notin InFlight
    BY <2>2 DEF Begun, InFlight, Running
  <2>4. IsFiniteSet(Begun') /\ Cardinality(InFlight') = Cardinality(InFlight) + 1
    BY <1>2, <2>3, FS_AddElement
  <2>5. QED
    BY <1>1, <1>2, <2>1, <2>4, TradingAssumption DEF Finitely
<1>5. ASSUME NEW r \in Req, Advance(r) \/ Crash(r)
      PROVE  Finitely'
  <2>1. /\ pc[r] \in Running /\ pc'[r] # "idle"
        /\ \A x \in Req \ {r} : pc'[x] = pc[x]
    BY <1>5, HandlerStep
  <2>2. Begun' = Begun /\ InFlight' \subseteq InFlight
    BY <2>1 DEF Begun, InFlight, Running
  <2>3. Cardinality(InFlight') <= Cardinality(InFlight) /\ Cardinality(InFlight') \in Nat
    BY <1>2, <2>2, FS_Subset, FS_CardinalityType
  <2>4. QED
    BY <1>1, <1>2, <2>2, <2>3, TradingAssumption DEF Finitely
<1>6. QED
  BY <1>3, <1>4, <1>5, OwnerFrame DEF Next, vars

\* What a request that passes its limit check was found to spend, and what the
\* log had of its link then.
LEMMA SpentSoFar ==
    ASSUME TypeOK, JobInv, RowInv, LogIsOfJobs, IsFiniteSet(Begun), NEW l \in Link
    PROVE  LET counted == {r \in Req : CountsToday(row[r], l)} IN
           /\ IsFiniteSet(counted)
           /\ \A r \in counted : Cost[r] \in Nat
           /\ SpentToday(l) = SumOf(Cost, counted)
<1> DEFINE counted == {r \in Req : CountsToday(row[r], l)}
           logged == [r \in counted |-> row[r].usd]
<1>1. \A r \in counted : row[r] # None
  BY DEF CountsToday
<1>2. \A r \in counted : pc[r] # "idle"
  BY <1>1 DEF RowInv, TypeOK, OrderRow
<1>3. IsFiniteSet(counted)
  <2>1. counted \subseteq Begun
    BY <1>2 DEF Begun
  <2>2. QED
    BY <2>1, FS_Subset
<1>4. \A r \in counted : logged[r] = Cost[r] /\ logged[r] \in Nat
  BY <1>1 DEF LogIsOfJobs, Cost, TypeOK, OrderRow
<1>5. SpentToday(l) = SumOf(logged, counted)
  <2>1. SpentToday(l) = MapThenSumSet(LAMBDA r : row[r].usd, counted)
    BY DEF SpentToday
  <2>2. QED
    BY <2>1, SumOfRows
<1>6. SumOf(logged, counted) = SumOf(Cost, counted)
  BY <1>3, <1>4, SumSame
<1>7. QED
  BY <1>3, <1>4, <1>5, <1>6

\* n times c has room for k times c and one more.
LEMMA RoomForOne ==
    ASSUME NEW n \in Nat, NEW k \in Nat, NEW c \in Nat, k < n
    PROVE  k * c \in Nat /\ k * c + c <= n * c
<1>1. PICK d \in Nat : n = k + 1 + d
  <2>1. n - k - 1 \in Nat /\ n = k + 1 + (n - k - 1)
    OBVIOUS
  <2>2. QED
    BY <2>1
<1>2. n * c = k * c + c + d * c
  BY <1>1
<1>3. d * c \in Nat /\ k * c \in Nat
  OBVIOUS
<1>4. QED
  BY <1>2, <1>3

\* Past the check with an order within what the limit left.
LEMMA CheckPasses ==
    ASSUME TypeOK, LinkInv, JobInv, TermsInv, NEW r \in Req, CheckLimits(r), pc'[r] = "send",
           job[r].link # None
    PROVE  /\ pc[r] = "limits" /\ job[r].terms \in Offered(job[r].link)
           /\ job[r].terms.daily # None =>
                SpentToday(job[r].link) + job[r].order.usd <= job[r].terms.daily
<1>1. pc[r] = "limits"
  BY DEF CheckLimits
<1>2. job[r].terms \in Terms
      /\ (InForce(job[r].link, job[r].terms) \/ retired[job[r].link][job[r].terms] # None)
  BY <1>1, NoneAssumption DEF TermsInv, Running, IsDelegate, TypeOK
<1>3. WithinDaily(job[r].terms, SpentToday(job[r].link), job[r].order.usd)
  BY DEF CheckLimits, Goto, TypeOK
<1>4. QED
  BY <1>1, <1>2, <1>3 DEF Offered, WithinDaily

\* The requests past the check of a link that is there: each has an amount, and
\* one that is filled is in the log.
LEMMA ApprovedAre ==
    ASSUME Provenance, OnItsLink, LogIsOfJobs, Finitely, NEW l \in Link, link[l].state # "gone"
    PROVE  /\ IsFiniteSet(Approved(l))
           /\ \A r \in Approved(l) :
                /\ Cost[r] = job[r].order.usd /\ Cost[r] \in Nat /\ job[r].began \in Nat
                /\ ~Orphaned(r)
                /\ pc[r] = "filled" => /\ row[r] # None /\ row[r].status = "filled"
                                       /\ row[r].link = l /\ row[r].createdAt = job[r].began
<1> USE DEF Provenance
<1>1. IsFiniteSet(Approved(l))
  <2>1. Approved(l) \subseteq Begun
    BY DEF Approved, Begun
  <2>2. QED
    BY <2>1, FS_Subset DEF Finitely
<1>2. ASSUME NEW r \in Approved(l)
      PROVE  /\ Cost[r] = job[r].order.usd /\ Cost[r] \in Nat /\ job[r].began \in Nat
             /\ ~Orphaned(r)
             /\ pc[r] = "filled" => /\ row[r] # None /\ row[r].status = "filled"
                                    /\ row[r].link = l /\ row[r].createdAt = job[r].began
  <2>1. r \in Req /\ pc[r] \in {"send", "reply", "fill", "filled"} /\ job[r].link = l
    BY DEF Approved
  <2>2. job[r] \in Job /\ job[r].began \in Nat /\ job[r].order \in OrderRequest
    BY <2>1, RunningJob
  <2>3. ~Orphaned(r)
    <3>1. link[l].state # "unused" /\ link[l].profile = job[r].profile
      BY <2>1, NoneAssumption DEF OnItsLink, IsDelegate
    <3>2. link[l].state \in {"active", "revoked"}
      BY <3>1 DEF TypeOK, LinkRow
    <3>3. QED
      BY <3>1, <3>2 DEF LinkInv, Orphaned
  <2>4. ASSUME pc[r] = "filled"
        PROVE  /\ row[r] # None /\ row[r].status = "filled"
               /\ row[r].link = l /\ row[r].createdAt = job[r].began
    BY <2>1, <2>3, <2>4 DEF RowInv, LogIsOfJobs
  <2>5. QED
    BY <2>1, <2>2, <2>3, <2>4 DEF Cost, OrderRequest
<1>3. QED
  BY <1>1, <1>2

\* A step that lets no other request past its check leaves every sum as it was,
\* or smaller.
LEMMA NoneMoreApproved ==
    ASSUME Provenance, OnItsLink, LogIsOfJobs, Finitely, WithinCaps, Faults = {}, [Next]_vars,
           NEW l \in Link, link'[l].state # "gone", NEW c \in Nat, CappedAt(l, c)',
           Approved(l)' \subseteq Approved(l)
    PROVE  /\ \A r \in Approved(l)' : job'[r].order.usd <= c
           /\ \A a \in Nat : SumOf(Cost, InWindow(l, a))' <= MaxInFlight * c
<1> USE DEF Provenance
<1>1. link[l].state # "gone" /\ CappedAt(l, c)
  BY LinkFate, OfferedStep DEF CappedAt
<1>2. /\ IsFiniteSet(Approved(l))
      /\ \A r \in Approved(l) : Cost[r] = job[r].order.usd /\ Cost[r] \in Nat /\ job[r].order.usd <= c
  BY <1>1, ApprovedAre DEF WithinCaps
<1>3. \A r \in Approved(l)' : r \in Req /\ job'[r] = job[r] /\ Cost'[r] = Cost[r]
  <2> SUFFICES ASSUME NEW r \in Approved(l)'
               PROVE  r \in Req /\ job'[r] = job[r] /\ Cost'[r] = Cost[r]
    OBVIOUS
  <2>1. r \in Req /\ pc[r] # "idle"
    BY DEF Approved
  <2>2. QED
    BY <2>1, OrphanStep DEF Cost
<1>4. ASSUME NEW a \in Nat
      PROVE  SumOf(Cost, InWindow(l, a))' <= MaxInFlight * c
  <2>1. InWindow(l, a)' \subseteq InWindow(l, a)
    BY <1>3 DEF InWindow
  <2>2. IsFiniteSet(InWindow(l, a)) /\ \A r \in InWindow(l, a) : Cost[r] \in Nat
    BY <1>2, FS_Subset DEF InWindow
  <2>3. /\ IsFiniteSet(InWindow(l, a)')
        /\ \A r \in InWindow(l, a)' : Cost'[r] \in Nat /\ Cost'[r] = Cost[r]
    <3>1. InWindow(l, a)' \subseteq Approved(l)'
      BY DEF InWindow
    <3>2. QED
      BY <1>3, <2>1, <2>2, <3>1, FS_Subset
  <2>4. SumOf(Cost', InWindow(l, a)') = SumOf(Cost, InWindow(l, a)')
    BY <2>3, SumSame
  <2>5. /\ SumOf(Cost, InWindow(l, a)') \in Nat /\ SumOf(Cost, InWindow(l, a)) \in Nat
        /\ SumOf(Cost, InWindow(l, a)') <= SumOf(Cost, InWindow(l, a))
    BY <2>1, <2>2, SumWithin
  <2>6. SumOf(Cost, InWindow(l, a)) <= MaxInFlight * c
    BY <1>1 DEF WithinCaps
  <2>7. SumOf(Cost, InWindow(l, a))' = SumOf(Cost', InWindow(l, a)')
    BY DEF SumOf, Sums
  <2>8. MaxInFlight * c \in Nat
    BY TradingAssumption
  <2>9. QED
    BY <2>4, <2>5, <2>6, <2>7, <2>8
<1>5. QED
  BY <1>2, <1>3, <1>4

\* A request that passes its check: of its window, what is filled is in the log
\* and left room for it, and the others are in flight with it.
LEMMA OneMoreApproved ==
    ASSUME Provenance, OnItsLink, LogIsOfJobs, Finitely, WithinCaps, Faults = {}, [Next]_vars,
           NEW z \in Req, CheckLimits(z), pc'[z] = "send",
           NEW l \in Link, job[z].link = l, link[l].state # "gone",
           NEW c \in Nat, CappedAt(l, c)
    PROVE  /\ job[z].order.usd <= c
           /\ \A a \in Nat : SumOf(Cost, InWindow(l, a))' <= MaxInFlight * c
<1> USE DEF Provenance
<1>1. UNCHANGED <<clock, job, link, retired>> /\ \A r \in Req \ {z} : pc'[r] = pc[r]
  BY DEF CheckLimits, Goto, TypeOK, dbVars
<1>2. /\ pc[z] = "limits" /\ z \notin Approved(l)
      /\ job[z].terms.daily \in Nat /\ job[z].terms.daily <= c
      /\ SpentToday(l) + job[z].order.usd <= job[z].terms.daily
  <2>1. job[z].link # None
    BY NoneAssumption
  <2>2. /\ pc[z] = "limits" /\ job[z].terms \in Offered(l)
        /\ job[z].terms.daily # None => SpentToday(l) + job[z].order.usd <= job[z].terms.daily
    BY <2>1, CheckPasses
  <2>3. job[z].terms.daily # None /\ job[z].terms.daily <= c /\ job[z].terms \in Terms
    BY <2>2 DEF CappedAt, Offered
  <2>4. job[z].terms.daily \in Nat
    BY <2>3, TradingAssumption DEF LinkTerms, Limit
  <2>5. QED
    BY <2>2, <2>3, <2>4 DEF Approved
<1>3. /\ job[z].order.usd \in Nat /\ Cost[z] = job[z].order.usd /\ job[z].began \in Nat
      /\ clock \in Nat /\ clock <= job[z].began + MaxHandler /\ pc[z] # "idle"
  <2>1. pc[z] # "idle" /\ pc[z] \in Running
    BY <1>2 DEF Running
  <2>2. job[z].order \in OrderRequest /\ job[z].began \in Nat
    BY <2>1, RunningJob
  <2>3. QED
    BY <2>1, <2>2 DEF OrderRequest, Cost, JobInv, TypeOK
<1> DEFINE counted == {r \in Req : CountsToday(row[r], l)}
<1>4. /\ IsFiniteSet(counted) /\ \A r \in counted : Cost[r] \in Nat
      /\ SpentToday(l) = SumOf(Cost, counted) /\ SpentToday(l) \in Nat
  <2>1. /\ IsFiniteSet(counted) /\ \A r \in counted : Cost[r] \in Nat
        /\ SpentToday(l) = SumOf(Cost, counted)
    BY SpentSoFar DEF Finitely
  <2>2. QED
    BY <2>1, SumWithin
<1>5. job[z].order.usd <= c
  BY <1>2, <1>3, <1>4
<1>6. /\ IsFiniteSet(Approved(l))
      /\ \A r \in Approved(l) :
           /\ Cost[r] = job[r].order.usd /\ Cost[r] \in Nat /\ job[r].began \in Nat
           /\ job[r].order.usd <= c
           /\ pc[r] = "filled" => /\ row[r] # None /\ row[r].status = "filled"
                                  /\ row[r].link = l /\ row[r].createdAt = job[r].began
  BY ApprovedAre DEF WithinCaps
<1>7. Cost' = Cost /\ Approved(l)' = Approved(l) \cup {z}
  BY <1>1 DEF Cost, Approved
<1>8. ASSUME NEW a \in Nat
      PROVE  SumOf(Cost, InWindow(l, a)') <= MaxInFlight * c
  <2> DEFINE filled == {r \in InWindow(l, a) : pc[r] = "filled"}
             flying == {r \in InWindow(l, a) : pc[r] # "filled"}
  <2>1. /\ IsFiniteSet(InWindow(l, a)) /\ IsFiniteSet(filled) /\ IsFiniteSet(flying)
        /\ \A r \in InWindow(l, a) : Cost[r] \in Nat /\ Cost[r] <= c
    <3>1. InWindow(l, a) \subseteq Approved(l)
      BY DEF InWindow
    <3>2. IsFiniteSet(InWindow(l, a))
      BY <1>6, <3>1, FS_Subset
    <3>3. IsFiniteSet(filled) /\ IsFiniteSet(flying)
      BY <3>2, FS_Subset
    <3>4. QED
      BY <1>6, <3>1, <3>2, <3>3
  <2>2. SumOf(Cost, flying) <= Cardinality(flying) * c /\ SumOf(Cost, flying) \in Nat
    BY <2>1, SumBounded
  <2>3. Cardinality(flying) \in Nat /\ Cardinality(flying) < MaxInFlight
    <3>1. flying \subseteq InFlight \ {z} /\ z \in InFlight
      BY <1>2 DEF InWindow, Approved, InFlight, Running
    <3>2. IsFiniteSet(InFlight)
      <4>1. InFlight \subseteq Begun
        BY DEF InFlight, Begun, Running
      <4>2. QED
        BY <4>1, FS_Subset DEF Finitely
    <3>3. /\ IsFiniteSet(InFlight \ {z}) /\ Cardinality(InFlight \ {z}) = Cardinality(InFlight) - 1
      BY <3>1, <3>2, FS_RemoveElement
    <3>4. Cardinality(flying) <= Cardinality(InFlight \ {z}) /\ Cardinality(flying) \in Nat
      BY <3>1, <3>3, FS_Subset, FS_CardinalityType
    <3>5. Cardinality(InFlight) \in Nat /\ Cardinality(InFlight) <= MaxInFlight
      BY <3>2, FS_CardinalityType DEF Finitely
    <3>6. MaxInFlight \in Nat
      BY TradingAssumption
    <3>7. QED
      BY <3>3, <3>4, <3>5, <3>6
  <2>4. /\ Cardinality(flying) * c \in Nat /\ Cardinality(flying) * c + c <= MaxInFlight * c
    BY <2>3, TradingAssumption, RoomForOne
  <2>5. CASE z \notin InWindow(l, a)'
    <3>1. InWindow(l, a)' \subseteq InWindow(l, a)
      BY <1>1, <1>7, <2>5 DEF InWindow
    <3>2. /\ SumOf(Cost, InWindow(l, a)') \in Nat /\ SumOf(Cost, InWindow(l, a)) \in Nat
          /\ SumOf(Cost, InWindow(l, a)') <= SumOf(Cost, InWindow(l, a))
      BY <2>1, <3>1, SumWithin
    <3>3. SumOf(Cost, InWindow(l, a)) <= MaxInFlight * c
      BY DEF WithinCaps
    <3>4. MaxInFlight * c \in Nat
      BY TradingAssumption
    <3>5. QED
      BY <3>2, <3>3, <3>4
  <2>6. CASE z \in InWindow(l, a)'
    <3>1. job[z].began <= a + Window - MaxHandler
      BY <1>1, <1>3, <2>6 DEF InWindow
    <3>2. filled \subseteq counted
      <4> SUFFICES ASSUME NEW r \in filled PROVE CountsToday(row[r], l)
        BY DEF InWindow, Approved
      <4>1. r \in Approved(l) /\ pc[r] = "filled" /\ job[r].began >= a
        BY <1>6 DEF InWindow
      <4>2. /\ row[r] # None /\ row[r].status = "filled" /\ row[r].link = l
            /\ row[r].createdAt = job[r].began /\ job[r].began \in Nat
        BY <1>6, <4>1
      <4>3. row[r].createdAt >= clock - Window
        <5>1. Window \in Nat /\ MaxHandler \in Nat
          BY TradingAssumption
        <5>2. QED
          BY <1>3, <3>1, <4>1, <4>2, <5>1
      <4>4. QED
        BY <4>2, <4>3 DEF CountsToday
    <3>3. /\ SumOf(Cost, filled) <= SpentToday(l) /\ SumOf(Cost, filled) \in Nat
      BY <1>4, <3>2, SumWithin
    <3>4. InWindow(l, a)' = (filled \cup flying) \cup {z}
      BY <1>1, <1>7, <2>6 DEF InWindow
    <3>5. /\ IsFiniteSet(filled \cup flying) /\ \A r \in filled \cup flying : Cost[r] \in Nat
      BY <2>1, FS_Union
    <3>6. /\ SumOf(Cost, filled \cup flying) <= SumOf(Cost, filled) + SumOf(Cost, flying)
          /\ SumOf(Cost, filled \cup flying) \in Nat
      BY <2>1, SumOfTwo
    <3>7. SumOf(Cost, {z}) <= job[z].order.usd /\ SumOf(Cost, {z}) \in Nat
      <4>1. IsFiniteSet({z}) /\ Cardinality({z}) = 1
        BY FS_Singleton
      <4>2. SumOf(Cost, {z}) <= Cardinality({z}) * job[z].order.usd /\ SumOf(Cost, {z}) \in Nat
        BY <1>3, <4>1, SumBounded
      <4>3. QED
        BY <1>3, <4>1, <4>2
    <3>8. /\ SumOf(Cost, InWindow(l, a)') <= SumOf(Cost, filled \cup flying) + SumOf(Cost, {z})
          /\ SumOf(Cost, InWindow(l, a)') \in Nat
      <4>1. IsFiniteSet({z}) /\ \A r \in {z} : Cost[r] \in Nat
        BY <1>3, FS_Singleton
      <4>2. QED
        BY <3>4, <3>5, <4>1, SumOfTwo
    <3> HIDE DEF filled, flying, counted
    <3>9. MaxInFlight * c \in Nat
      BY TradingAssumption
    <3>10. QED
      BY <1>2, <1>3, <1>4, <2>2, <2>4, <3>3, <3>6, <3>7, <3>8, <3>9
  <2>7. QED
    BY <2>5, <2>6
<1>9. QED
  <2>1. \A a \in Nat : SumOf(Cost, InWindow(l, a))' = SumOf(Cost', InWindow(l, a)')
    BY DEF SumOf, Sums
  <2>2. QED
    BY <1>5, <1>7, <1>8, <2>1

LEMMA InitSpending == Init => Spending
<1> SUFFICES ASSUME Init PROVE Spending
  OBVIOUS
<1>1. OnItsLink /\ LogIsOfJobs
  BY DEF Init, OnItsLink, LogIsOfJobs
<1>2. Begun = {} /\ InFlight = {} /\ \A l \in Link : Offered(l) = {} /\ Approved(l) = {}
  BY DEF Init, Begun, InFlight, Running, Offered, InForce, NoLink, Approved
<1>3. Finitely
  BY <1>2, FS_EmptySet, TradingAssumption DEF Finitely
<1>4. ASSUME NEW c \in Nat
      PROVE  SumOf(Cost, {}) <= MaxInFlight * c
  <2>1. IsFiniteSet({}) /\ Cardinality({}) = 0
    BY FS_EmptySet
  <2>2. SumOf(Cost, {}) <= Cardinality({}) * c /\ SumOf(Cost, {}) \in Nat
    BY <2>1, SumBounded
  <2>3. MaxInFlight * c \in Nat /\ Cardinality({}) * c = 0
    BY <2>1, TradingAssumption
  <2>4. QED
    BY <2>2, <2>3
<1>5. \A l \in Link, a \in Nat : InWindow(l, a) = {}
  BY <1>2 DEF InWindow
<1>6. WithinCaps
  BY <1>2, <1>4, <1>5 DEF WithinCaps
<1>7. QED
  BY <1>1, <1>3, <1>6 DEF Spending

\* Only the limit check lets a request of a link past it.
LEMMA OnlyChecksApprove ==
    ASSUME TypeOK, LinkInv, JobInv, [Next]_vars, NEW l \in Link, NEW z \in Approved(l)',
           z \notin Approved(l)
    PROVE  CheckLimits(z) /\ pc'[z] = "send" /\ job[z].link = l
<1>1. z \in Req /\ pc'[z] \in {"send", "reply", "fill", "filled"} /\ job'[z].link = l
  BY DEF Approved
<1>2. ~(OwnerStep \/ Tick \/ UNCHANGED vars)
  BY OwnerFrame DEF Approved, vars
<1>3. PICK q \in Req : Begins(q) \/ Advance(q) \/ Crash(q)
  BY <1>2 DEF Next
<1>4. ~Begins(q)
  <2> SUFFICES ASSUME Begins(q) PROVE FALSE
    OBVIOUS
  <2>1. pc'[q] \in {"profile", "key"} /\ \A x \in Req \ {q} : pc'[x] = pc[x] /\ job'[x] = job[x]
    BY BeginFrame
  <2>2. QED
    BY <1>1, <2>1 DEF Approved
<1>5. UNCHANGED job /\ \A x \in Req \ {q} : pc'[x] = pc[x]
  BY <1>3, <1>4, HandlerStep
<1>6. z = q /\ job[z].link = l /\ pc[z] \notin {"send", "reply", "fill", "filled"}
  BY <1>1, <1>5 DEF Approved
<1>7. l # None
  BY NoneAssumption
<1>8. CASE CheckLimits(z)
  BY <1>1, <1>6, <1>8 DEF CheckLimits, Goto, TypeOK
<1>9. CASE LoadProfile(z) \/ LoadTradeKey(z)
  BY <1>1, <1>6, <1>7, <1>9 DEF LoadProfile, LoadTradeKey, Goto, TypeOK, IsDelegate
<1>10. CASE AdapterRefuses(z) \/ ExchangeRejects(z) \/ ExchangeExecutes(z) \/ ReplyArrives(z)
  BY <1>1, <1>6, <1>10 DEF AdapterRefuses, ExchangeRejects, ExchangeExecutes, ReplyArrives
<1>11. CASE ReplyLost(z) \/ ReplyGarbled(z)
  BY <1>1, <1>6, <1>11 DEF ReplyLost, ReplyGarbled
<1>12. CASE RecordFilled(z) \/ RecordFailed(z) \/ Crash(z)
  BY <1>1, <1>6, <1>12 DEF RecordFilled, RecordFailed, Record, Crash, Goto, TypeOK
<1>13. QED
  BY <1>3, <1>4, <1>6, <1>8, <1>9, <1>10, <1>11, <1>12 DEF Advance

LEMMA WithinCapsStep ==
    ASSUME Provenance, OnItsLink, LogIsOfJobs, Finitely, WithinCaps, [Next]_vars
    PROVE  WithinCaps'
<1> USE DEF Provenance
<1> SUFFICES ASSUME Faults = {}, NEW l \in Link, link'[l].state # "gone",
                    NEW c \in Nat, CappedAt(l, c)'
             PROVE  /\ \A r \in Approved(l)' : job'[r].order.usd <= c
                    /\ \A a \in Nat : SumOf(Cost, InWindow(l, a))' <= MaxInFlight * c
  BY DEF WithinCaps
<1>1. CASE Approved(l)' \subseteq Approved(l)
  BY <1>1, NoneMoreApproved
<1>2. ASSUME NEW z \in Approved(l)', z \notin Approved(l)
      PROVE  /\ \A r \in Approved(l)' : job'[r].order.usd <= c
             /\ \A a \in Nat : SumOf(Cost, InWindow(l, a))' <= MaxInFlight * c
  <2>1. z \in Req /\ CheckLimits(z) /\ pc'[z] = "send" /\ job[z].link = l
    BY <1>2, OnlyChecksApprove DEF Approved
  <2>2. UNCHANGED <<clock, job, link, retired>> /\ \A r \in Req \ {z} : pc'[r] = pc[r]
    BY <2>1 DEF CheckLimits, Goto, TypeOK, dbVars
  <2>3. link[l].state # "gone" /\ CappedAt(l, c)
    BY <2>2 DEF CappedAt, Offered, InForce
  <2>4. /\ job[z].order.usd <= c
        /\ \A a \in Nat : SumOf(Cost, InWindow(l, a))' <= MaxInFlight * c
    BY <2>1, <2>3, OneMoreApproved
  <2>5. \A r \in Approved(l)' : r = z \/ r \in Approved(l)
    BY <2>2 DEF Approved
  <2>6. \A r \in Approved(l) : job[r].order.usd <= c
    BY <2>3 DEF WithinCaps
  <2>7. QED
    BY <2>2, <2>4, <2>5, <2>6
<1>3. QED
  BY <1>1, <1>2

LEMMA SpendingStep == Provenance /\ Spending /\ [Next]_vars => Spending'
BY OnItsLinkStep, LogStep, FinitelyStep, WithinCapsStep DEF Spending, Provenance

\* In every state without faults, the requests past the limit check of a link,
\* by the start of their handlers, are together within MaxInFlight times every
\* number its limits never exceeded.
THEOREM SpendingHolds == Spec => [](Provenance /\ Spending)
<1>1. Init => Provenance /\ Spending
  BY InitProvenance, InitSpending
<1>2. Provenance /\ Spending /\ [Next]_vars => Provenance' /\ Spending'
  BY ProvenanceStep, SpendingStep
<1>3. QED
  BY <1>1, <1>2, PTL DEF Spec

\* A finite set of numbers has a largest.
LEMMA MaxOfFinite ==
    ASSUME NEW S \in SUBSET Nat, IsFiniteSet(S), S # {}
    PROVE  Max(S) \in S /\ \A x \in S : x <= Max(S)
<1> DEFINE bad == {u \in SUBSET S : u # {} /\ ~\E x \in u : \A y \in u : x >= y}
<1>1. ASSUME bad # {} PROVE FALSE
  <2>1. bad \subseteq FiniteSubsetsOf(S)
    BY FS_FiniteSubsetsOfFinite
  <2>2. PICK u \in bad : \A v \in bad : ~(<<v, u>> \in StrictSubsetOrdering(S))
    BY <1>1, <2>1, FS_StrictSubsetOrderingWellFounded, WFMin
  <2>3. PICK p \in u : TRUE
    BY <2>2
  <2>4. u \ {p} \in SUBSET S /\ <<u \ {p}, u>> \in StrictSubsetOrdering(S)
    BY <2>2, <2>3 DEF StrictSubsetOrdering
  <2>5. u \ {p} # {}
    BY <2>2, <2>3
  <2>6. PICK m \in u \ {p} : \A y \in u \ {p} : m >= y
    BY <2>2, <2>4, <2>5
  <2>7. m \in Nat /\ p \in Nat /\ \A y \in u : y \in Nat
    BY <2>2, <2>3, <2>6
  <2>8. \E x \in u : \A y \in u : x >= y
    <3>1. CASE m >= p
      BY <2>6, <2>7, <3>1
    <3>2. CASE p >= m
      <4>1. \A y \in u : p >= y
        BY <2>6, <2>7, <3>2
      <4>2. QED
        BY <2>3, <4>1
    <3>3. QED
      BY <2>7, <3>1, <3>2
  <2>9. QED
    BY <2>2, <2>8
<1>2. \E x \in S : \A y \in S : x >= y
  BY <1>1
<1>3. QED
  BY <1>2 DEF Max

\* What was executed for a link without faults is past the limit check.
LEMMA ExecutedAreApproved ==
    ASSUME Provenance, OnItsLink, Faults = {}, NEW l \in Link, link[l].state # "gone",
           NEW r \in executed, job[r].link = l
    PROVE  r \in Approved(l)
<1> USE DEF Provenance
<1>1. r \in Req /\ pc[r] \notin {"idle", "profile", "key", "limits", "fail", "failed", "refused"}
  BY DEF TypeOK, VenueInv
<1>2. pc[r] # "broken"
  <2> SUFFICES ASSUME pc[r] = "broken" PROVE FALSE
    OBVIOUS
  <2>1. Orphaned(r)
    BY <1>1 DEF VenueInv
  <2>2. link[l].state # "unused" /\ link[l].profile = job[r].profile
    BY <1>1, NoneAssumption DEF OnItsLink, IsDelegate
  <2>3. link[l].state \in {"active", "revoked"}
    BY <2>2 DEF TypeOK, LinkRow
  <2>4. QED
    BY <2>1, <2>2, <2>3 DEF LinkInv, Orphaned
<1>3. QED
  BY <1>1, <1>2 DEF TypeOK, Running, Over, Approved

LEMMA SpendingBounds == Provenance /\ Spending => OverspendBound
<1> SUFFICES ASSUME Provenance, Spending, Faults = {}, NEW l \in Link, link[l].state # "gone",
                    {t.daily : t \in Offered(l)} # {}, None \notin {t.daily : t \in Offered(l)},
                    NEW a \in 0..clock
             PROVE  SpentBetween(l, a, a + Window - MaxHandler)
                        <= MaxInFlight * Max({t.daily : t \in Offered(l)})
  BY DEF OverspendBound, SpendAtMost
<1> DEFINE caps == {t.daily : t \in Offered(l)}
           c == Max(caps)
           spent == {r \in executed : /\ job[r].link = l
                                      /\ job[r].began \in a..(a + Window - MaxHandler)}
           paid == [r \in spent |-> job[r].order.usd]
<1> USE DEF Provenance, Spending
<1>1. caps \in SUBSET Nat /\ IsFiniteSet(caps) /\ caps # {}
  <2>1. caps \subseteq Nat
    <3> SUFFICES ASSUME NEW t \in Offered(l) PROVE t.daily \in Nat
      OBVIOUS
    <3>1. t \in LinkTerms /\ t.daily # None
      BY TradingAssumption DEF Offered
    <3>2. QED
      BY <3>1 DEF LinkTerms, Limit
  <2>2. IsFiniteSet(caps)
    <3> DEFINE d == [t \in Offered(l) |-> t.daily]
    <3>1. d \in Surjection(Offered(l), caps)
      BY DEF Surjection
    <3>2. QED
      BY <3>1, FS_Surjection DEF Finitely
  <2>3. QED
    BY <2>1, <2>2
<1>2. c \in Nat /\ \A x \in caps : x <= c
  <2> HIDE DEF caps
  <2>1. QED
    BY <1>1, MaxOfFinite
<1>3. CappedAt(l, c)
  <2> SUFFICES ASSUME NEW t \in Offered(l) PROVE t.daily # None /\ t.daily <= c
    BY DEF CappedAt
  <2>1. t.daily \in caps
    OBVIOUS
  <2>2. QED
    BY <1>2, <2>1
<1> HIDE DEF c
<1>4. a \in Nat /\ SumOf(Cost, InWindow(l, a)) <= MaxInFlight * c
  BY <1>2, <1>3 DEF WithinCaps, TypeOK
<1>5. spent \subseteq InWindow(l, a)
  BY ExecutedAreApproved DEF InWindow
<1>6. IsFiniteSet(InWindow(l, a)) /\ \A r \in InWindow(l, a) : Cost[r] = job[r].order.usd /\ Cost[r] \in Nat
  <2>1. InWindow(l, a) \subseteq Approved(l)
    BY DEF InWindow
  <2>2. QED
    BY <2>1, ApprovedAre, FS_Subset
<1>7. /\ SumOf(Cost, spent) \in Nat /\ SumOf(Cost, InWindow(l, a)) \in Nat
      /\ SumOf(Cost, spent) <= SumOf(Cost, InWindow(l, a))
  BY <1>5, <1>6, SumWithin
<1>8. SumOf(paid, spent) = SumOf(Cost, spent)
  <2>1. IsFiniteSet(spent) /\ \A r \in spent : paid[r] \in Nat /\ paid[r] = Cost[r]
    BY <1>5, <1>6, FS_Subset
  <2> HIDE DEF paid, spent
  <2>2. QED
    BY <2>1, SumSame
<1>9. SpentBetween(l, a, a + Window - MaxHandler) = SumOf(paid, spent)
  <2>1. SpentBetween(l, a, a + Window - MaxHandler) = MapThenSumSet(LAMBDA r : job[r].order.usd, spent)
    BY DEF SpentBetween
  <2>2. QED
    BY <2>1, SumOfOrders
<1>10. MaxInFlight * c \in Nat
  BY <1>2, TradingAssumption
<1>11. QED
  <2>1. SpentBetween(l, a, a + Window - MaxHandler) <= MaxInFlight * c
    BY <1>4, <1>7, <1>8, <1>9, <1>10
  <2>2. QED
    BY <2>1 DEF c

\* Requests handled at once do not see each other's orders: without faults a
\* link spends in a window at most MaxInFlight times its largest limit.
THEOREM OverspendTheorem == Spec => []OverspendBound
BY SpendingHolds, SpendingBounds, PTL
=============================================================================

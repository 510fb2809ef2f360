------------------------- MODULE PublicPagesProofs -------------------------
(***************************************************************************)
(* Proofs about PublicPages: for any number of requests, flags and         *)
(* followers, the view counter counts, a counted view gets its page, a     *)
(* page is as the link was when its handler began, or later, edits stick,  *)
(* and a sign-up fails only in a race.                                     *)
(***************************************************************************)
EXTENDS PublicPages, FiniteSetTheorems, TLAPS

Viewing == {"count", "profile", "portfolio", "avg", "trade", "shown"}

\* Where a request that was counted can be.
CountedAt(r) == \/ pc[r] \in {"profile", "portfolio", "avg", "trade", "shown", "died", "broken"}
                \/ pc[r] = "notFound" /\ ~profile

CountInv ==
    /\ IsFiniteSet(counted)
    /\ NoViewIsLost
    /\ \A r \in counted : CountedAt(r)

Since(when, r) == when # None /\ when >= job[r].began

\* What PageIsCurrent says of a page, of a view from its first read on.
Current(r) ==
    /\ Expiry # None => job[r].began <= Expiry
    /\ ~Active => Since(ended, r)
    /\ link # None => \A f \in Differs(job[r].on, link.on) : Since(changed[f], r)

ViewInv == \A r \in Req :
    /\ pc[r] # "idle" => job[r] \in Job /\ job[r].began <= clock
    /\ pc[r] \in Viewing => Current(r)

PagesInv == TypeOK /\ CountInv /\ ViewInv
-----------------------------------------------------------------------------
LEMMA InitInv == Init => PagesInv
  <1> SUFFICES ASSUME Init PROVE PagesInv
    OBVIOUS
  <1>1. TypeOK
    <2>1. PICK on \in SUBSET Flag : link = [active |-> TRUE, on |-> on, views |-> 0]
      BY DEF Init
    <2>2. link \in Link
      BY <2>1 DEF Link
    <2> QED  BY <2>2 DEF Init, TypeOK
  <1>2. CountInv
    <2>1. IsFiniteSet(counted) /\ Cardinality(counted) = 0 /\ counted = {}
      BY FS_EmptySet DEF Init
    <2>2. link.views = 0
      BY DEF Init
    <2> QED  BY <2>1, <2>2 DEF CountInv, NoViewIsLost
  <1>3. ViewInv
    BY DEF Init, ViewInv, Viewing
  <1> QED  BY <1>1, <1>2, <1>3 DEF PagesInv

\* A request that begins has read the link as it is.
LEMMA BeginKeepsInv ==
  ASSUME PagesInv, NEW r \in Req, NEW kind \in {"view", "edit", "revoke", "sign"},
         NEW place \in Running \cup Over, NEW payload \in SUBSET Setting,
         NEW key \in Key \cup {None}, Begin(r, kind, place, payload, key),
         place \in Viewing => kind = "view" /\ Active /\ ~Expired
  PROVE  PagesInv'
  <1> DEFINE new == [kind |-> kind, began |-> clock,
                     on |-> IF kind \in {"view", "edit"} /\ link # None THEN link.on ELSE {},
                     active |-> kind = "revoke" /\ Active,
                     payload |-> payload, key |-> key,
                     before |-> {q \in Req : pc[q] \in Over}]
  <1>1. /\ pc[r] = "idle" /\ pc' = [pc EXCEPT ![r] = place] /\ job' = [job EXCEPT ![r] = new]
        /\ UNCHANGED <<clock, profile, tradeKey, link, rows, counted, changed, ended, inserted>>
    BY DEF Begin, Goto, tables
  <1>2. new \in Job
    BY DEF PagesInv, TypeOK, Job, Link, Active
  <1>3. /\ pc \in [Req -> {"idle"} \cup Running \cup Over] /\ job \in [Req -> Job \cup {None}]
        /\ clock \in Nat /\ link \in Link \cup {None}
    BY DEF PagesInv, TypeOK
  <1>4. TypeOK'
    BY <1>1, <1>2, <1>3 DEF PagesInv, TypeOK
  <1>5. r \notin counted
    BY <1>1 DEF PagesInv, CountInv, CountedAt
  <1>6. CountInv'
    <2>1. counted \subseteq Req
      BY DEF PagesInv, TypeOK
    <2> QED  BY <1>1, <1>3, <1>5, <2>1 DEF PagesInv, CountInv, CountedAt, NoViewIsLost
  <1>7. ViewInv'
    <2> SUFFICES ASSUME NEW q \in Req
                 PROVE  /\ pc'[q] # "idle" => job'[q] \in Job /\ job'[q].began <= clock'
                        /\ pc'[q] \in Viewing => Current(q)'
      BY DEF ViewInv
    <2>1. CASE q = r
      <3>1. pc'[q] = place /\ job'[q] = new
        BY <1>1, <1>3, <2>1
      <3>2. job'[q] \in Job /\ job'[q].began <= clock'
        BY <1>1, <1>2, <1>3, <3>1
      <3>3. ASSUME place \in Viewing PROVE Current(q)'
        <4>1. Active /\ ~Expired /\ job'[q].on = link.on /\ job'[q].began = clock
          BY <3>1, <3>3 DEF Active
        <4>2. Active'
          BY <1>1, <4>1 DEF Active
        <4>3. Expiry # None => clock <= Expiry
          BY <1>3, <4>1, PagesAssumption DEF Expired
        <4>4. Differs(job'[q].on, link'.on) = {}
          BY <1>1, <4>1 DEF Differs
        <4> QED  BY <1>1, <4>1, <4>2, <4>3, <4>4 DEF Current
      <3> QED  BY <3>1, <3>2, <3>3
    <2>2. CASE q # r
      <3>1. pc'[q] = pc[q] /\ job'[q] = job[q]
        BY <1>1, <1>3, <2>2
      <3> QED  BY <1>1, <3>1 DEF PagesInv, ViewInv, Current, Active, Since
    <2> QED  BY <2>1, <2>2
  <1> QED  BY <1>4, <1>6, <1>7 DEF PagesInv

LEMMA AskKeepsInv ==
  ASSUME PagesInv, NEW r \in Req, Ask(r)
  PROVE  PagesInv'
  <1> USE DEF Running, Over, Viewing
  <1>1. CASE BeginView(r)
    <2>1. PICK place \in {"notFound", "expired", "count"} :
             /\ Begin(r, "view", place, {}, None)
             /\ place = "count" => Active /\ ~Expired
      BY <1>1 DEF BeginView
    <2> QED  BY <2>1, BeginKeepsInv
  <1>2. CASE BeginRevoke(r)
    <2>1. PICK place \in {"notFound", "owner"} : Begin(r, "revoke", place, {}, None)
      BY <1>2 DEF BeginRevoke
    <2> QED  BY <2>1, BeginKeepsInv
  <1>3. ASSUME NEW payload \in Payloads, BeginEdit(r, payload) PROVE PagesInv'
    <2>1. PICK place \in {"notFound", "owner"} : Begin(r, "edit", place, payload, None)
      BY <1>3 DEF BeginEdit
    <2>2. payload \in SUBSET Setting
      BY PagesAssumption
    <2> QED  BY <2>1, <2>2, BeginKeepsInv
  <1>4. ASSUME NEW u \in Follower, BeginFollow(r, u) PROVE PagesInv'
    <2>1. PICK place \in {"notFound", "refused", "lookUp"} : Begin(r, "sign", place, {}, u)
      BY <1>4 DEF BeginFollow
    <2> QED  BY <2>1, BeginKeepsInv DEF Key
  <1>5. ASSUME NEW e \in Email, BeginJoin(r, e) PROVE PagesInv'
    <2>1. Begin(r, "sign", "lookUp", {}, e)
      BY <1>5 DEF BeginJoin
    <2> QED  BY <2>1, BeginKeepsInv DEF Key
  <1> QED  BY <1>1, <1>2, <1>3, <1>4, <1>5 DEF Ask
-----------------------------------------------------------------------------
\* A request that only moves on, and not into a view, keeps the invariant.
LEMMA MoveKeepsInv ==
  ASSUME PagesInv, NEW r \in Req, pc[r] \in Running,
         NEW place \in (Running \cup Over) \ {"count"}, Goto(r, place),
         place \in Viewing => pc[r] \in Viewing,
         r \in counted => CountedAt(r)',
         UNCHANGED <<clock, profile, link, job, counted, changed, ended>>
  PROVE  /\ pc' \in [Req -> {"idle"} \cup Running \cup Over]
         /\ CountInv' /\ ViewInv'
  <1>1. /\ pc \in [Req -> {"idle"} \cup Running \cup Over]
        /\ pc' = [pc EXCEPT ![r] = place] /\ counted \subseteq Req
    BY DEF PagesInv, TypeOK, Goto
  <1>2. CountInv'
    BY <1>1 DEF PagesInv, CountInv, CountedAt, NoViewIsLost
  <1>3. pc[r] # "idle"
    BY DEF Running
  <1>4. ViewInv'
    <2> SUFFICES ASSUME NEW q \in Req
                 PROVE  /\ pc'[q] # "idle" => job'[q] \in Job /\ job'[q].began <= clock'
                        /\ pc'[q] \in Viewing => Current(q)'
      BY DEF ViewInv
    <2>1. pc'[q] # "idle" => pc[q] # "idle"
      BY <1>1, <1>3
    <2>2. pc'[q] \in Viewing => pc[q] \in Viewing
      BY <1>1
    <2>3. Current(q) => Current(q)'
      BY DEF Current, Active, Since
    <2> QED  BY <2>1, <2>2, <2>3 DEF PagesInv, ViewInv
  <1> QED  BY <1>1, <1>2, <1>4

\* What changes the link or the profile marks what it changes with the time, and
\* leaves the counter alone.
LEMMA ChangeKeepsViews ==
  ASSUME PagesInv, link' \in Link \cup {None},
         UNCHANGED <<clock, job>>, link = None => link' = None,
         changed' \in [Flag -> Nat \cup {None}],
         (Active /\ ~Active') => ended' = clock,
         ~(Active /\ ~Active') => ended' = ended,
         ~Active => ~Active',
         link' # None => \A f \in Flag : IF f \in Differs(link.on, link'.on)
                                          THEN changed'[f] = clock ELSE changed'[f] = changed[f],
         \A q \in Req : pc'[q] # "idle" => pc[q] # "idle",
         \A q \in Req : pc'[q] \in Viewing => pc[q] \in Viewing
  PROVE  ViewInv'
  <1> SUFFICES ASSUME NEW q \in Req
               PROVE  /\ pc'[q] # "idle" => job'[q] \in Job /\ job'[q].began <= clock'
                      /\ pc'[q] \in Viewing => Current(q)'
    BY DEF ViewInv
  <1>1. pc'[q] # "idle" => job'[q] \in Job /\ job'[q].began <= clock'
    BY DEF PagesInv, ViewInv
  <1>2. ASSUME pc'[q] \in Viewing PROVE Current(q)'
    <2>1. /\ pc[q] # "idle" /\ Current(q) /\ job'[q] = job[q] /\ job[q] \in Job
          /\ job[q].began <= clock /\ clock \in Nat
      BY <1>2 DEF PagesInv, ViewInv, Viewing, TypeOK
    <2>2. Expiry # None => job'[q].began <= Expiry
      BY <2>1 DEF Current
    <2>3. ~Active' => Since(ended, q)'
      BY <2>1, NoneIsNothing DEF Current, Since
    <2>4. link' # None => \A f \in Differs(job[q].on, link'.on) : Since(changed[f], q)'
      <3> SUFFICES ASSUME link' # None, NEW f \in Differs(job[q].on, link'.on)
                   PROVE  Since(changed[f], q)'
        OBVIOUS
      <3>1. link # None /\ link' \in Link /\ f \in Flag
        BY <2>1 DEF Differs, Link, Job
      <3>2. CASE f \in Differs(link.on, link'.on)
        BY <2>1, <3>1, <3>2, NoneIsNothing DEF Since
      <3>3. CASE f \notin Differs(link.on, link'.on)
        <4>1. f \in Differs(job[q].on, link.on) /\ changed'[f] = changed[f]
          BY <3>1, <3>3 DEF Differs
        <4> QED  BY <2>1, <3>1, <4>1 DEF Current, Since
      <3> QED  BY <3>2, <3>3
    <2> QED  BY <2>1, <2>2, <2>3, <2>4 DEF Current
  <1> QED  BY <1>1, <1>2

\* Where a step's type invariant needs a look: only the variables it changes.
LEMMA MovesKeepInv ==
  ASSUME PagesInv, NEW r \in Req,
         \/ LoadProfile(r) \/ ReadPortfolio(r) \/ ReadPortfolioRaises(r)
            \/ AvgBuyPrices(r) \/ AvgBuyPricesFail(r)
         \/ TradeContext(r) \/ LoadOwner(r) \/ LoadTradeKey(r) \/ WriteEditFails(r)
         \/ WriteRevocationFails(r) \/ LookUp(r) \/ RefreshRow(r) \/ Crash(r)
  PROVE  PagesInv'
  <1>1. UNCHANGED <<clock, profile, tradeKey, link, rows, counted, changed, ended, inserted, job>>
    BY DEF LoadProfile, ReadPortfolio, ReadPortfolioRaises,
       AvgBuyPrices, AvgBuyPricesFail, TradeContext, LoadOwner,
       LoadTradeKey, WriteEditFails, WriteRevocationFails, LookUp, RefreshRow, Crash, tables
  <1>2. \E place \in (Running \cup Over) \ {"count"} :
           /\ Goto(r, place) /\ pc[r] \in Running
           /\ place \in Viewing => pc[r] \in Viewing
           /\ r \in counted => \/ place \in {"profile", "portfolio", "avg", "trade", "shown", "died", "broken"}
                               \/ place = "notFound" /\ ~profile
    <2>0. r \in counted => CountedAt(r)
      BY DEF PagesInv, CountInv
    <2>1. CASE LoadProfile(r)
      BY <2>1 DEF LoadProfile, Running, Over, Viewing
    <2>2. CASE ReadPortfolio(r) \/ ReadPortfolioRaises(r)
       \/ AvgBuyPrices(r) \/ AvgBuyPricesFail(r) \/ TradeContext(r)
      BY <2>2 DEF ReadPortfolio, ReadPortfolioRaises,
         AvgBuyPrices, AvgBuyPricesFail, TradeContext, LastPart,
         Running, Over, Viewing
    <2>3. CASE \/ LoadOwner(r) \/ LoadTradeKey(r) \/ WriteEditFails(r)
               \/ WriteRevocationFails(r) \/ LookUp(r) \/ RefreshRow(r)
      BY <2>0, <2>3 DEF LoadOwner, LoadTradeKey, WriteEditFails, WriteRevocationFails, LookUp,
         RefreshRow, CountedAt, Running, Over, Viewing
    <2>4. CASE Crash(r)
      BY <2>4 DEF Crash, Running, Over, Viewing
    <2> QED  BY <2>1, <2>2, <2>3, <2>4
  <1>3. PICK place \in (Running \cup Over) \ {"count"} :
           /\ Goto(r, place) /\ pc[r] \in Running
           /\ place \in Viewing => pc[r] \in Viewing
           /\ r \in counted => \/ place \in {"profile", "portfolio", "avg", "trade", "shown", "died", "broken"}
                               \/ place = "notFound" /\ ~profile
    BY <1>2
  <1>4. r \in counted => CountedAt(r)'
    BY <1>1, <1>3 DEF Goto, CountedAt, PagesInv, TypeOK
  <1>5. /\ pc' \in [Req -> {"idle"} \cup Running \cup Over]
        /\ CountInv' /\ ViewInv'
    BY <1>1, <1>3, <1>4, MoveKeepsInv
  <1> QED  BY <1>1, <1>5 DEF PagesInv, TypeOK

\* The count goes up by one, for a request that was not counted yet.
LEMMA CountKeepsInv ==
  ASSUME PagesInv, NEW r \in Req, CountView(r)
  PROVE  PagesInv'
  <1>1. /\ pc[r] = "count" /\ pc' = [pc EXCEPT ![r] = "profile"]
        /\ UNCHANGED <<clock, profile, tradeKey, rows, job, changed, ended, inserted>>
        /\ pc \in [Req -> {"idle"} \cup Running \cup Over]
        /\ link \in Link \cup {None} /\ counted \subseteq Req /\ IsFiniteSet(counted)
        /\ changed \in [Flag -> Nat \cup {None}]
    BY DEF CountView, Goto, PagesInv, TypeOK, CountInv
  <1>2. r \notin counted
    BY <1>1 DEF PagesInv, CountInv, CountedAt
  <1>3. pc' \in [Req -> {"idle"} \cup Running \cup Over]
    BY <1>1 DEF Running
  <1>4. \A q \in Req : /\ pc'[q] # "idle" => pc[q] # "idle"
                       /\ pc'[q] \in Viewing => pc[q] \in Viewing
    BY <1>1 DEF Viewing
  <1>5. CASE link = None
    <2>1. link' = None /\ counted' = counted
      BY <1>5 DEF CountView
    <2>2. CountInv'
      BY <1>1, <1>2, <2>1 DEF PagesInv, CountInv, CountedAt, NoViewIsLost
    <2>3. ViewInv'
      BY <1>1, <1>4, <1>5, <2>1, ChangeKeepsViews DEF Active
    <2> QED  BY <1>1, <1>3, <2>1, <2>2, <2>3 DEF PagesInv, TypeOK
  <1>6. CASE link # None
    <2>1. /\ link' = [link EXCEPT !.views = link.views + 1] /\ counted' = counted \cup {r}
          /\ link \in Link
      BY <1>1, <1>6 DEF CountView
    <2>2. link' \in Link /\ link'.views = link.views + 1
          /\ link'.on = link.on /\ link'.active = link.active
      BY <2>1 DEF Link
    <2>3. IsFiniteSet(counted') /\ Cardinality(counted') = Cardinality(counted) + 1
      BY <1>1, <1>2, <2>1, FS_AddElement
    <2>4. CountInv'
      <3>1. NoViewIsLost'
        BY <1>6, <2>2, <2>3 DEF NoViewIsLost, PagesInv, CountInv
      <3>2. \A q \in counted' : CountedAt(q)'
        BY <1>1, <2>1 DEF PagesInv, CountInv, CountedAt
      <3> QED  BY <2>3, <3>1, <3>2 DEF CountInv
    <2>5. ViewInv'
      <3>1. Active' <=> Active
        BY <1>6, <2>2, NoneIsNothing DEF Active
      <3>2. \A f \in Flag : f \notin Differs(link.on, link'.on) /\ changed'[f] = changed[f]
        BY <1>1, <2>2 DEF Differs
      <3> QED  BY <1>1, <1>4, <1>6, <2>2, <3>1, <3>2, ChangeKeepsViews
    <2>6. counted' \subseteq Req
      BY <1>1, <2>1
    <2> QED  BY <1>1, <1>3, <2>2, <2>4, <2>5, <2>6 DEF PagesInv, TypeOK
  <1> QED  BY <1>5, <1>6

\* An edit marks the flags it changes.
LEMMA EditKeepsInv ==
  ASSUME PagesInv, NEW r \in Req, WriteEdit(r)
  PROVE  PagesInv'
  <1>1. /\ pc[r] = "write" /\ link # None /\ pc' = [pc EXCEPT ![r] = "done"]
        /\ link' = [link EXCEPT !.on = With(link.on, Dirty(job[r]))]
        /\ changed' = [f \in Flag |-> IF f \in Differs(link.on, link'.on) THEN clock ELSE changed[f]]
        /\ UNCHANGED <<clock, profile, tradeKey, rows, job, counted, ended, inserted>>
        /\ pc \in [Req -> {"idle"} \cup Running \cup Over]
        /\ link \in Link /\ counted \subseteq Req /\ clock \in Nat
        /\ changed \in [Flag -> Nat \cup {None}]
    BY DEF WriteEdit, Goto, PagesInv, TypeOK
  <1>2. r \notin counted
    BY <1>1 DEF PagesInv, CountInv, CountedAt
  <1>3. pc' \in [Req -> {"idle"} \cup Running \cup Over]
    BY <1>1 DEF Over
  <1>4. With(link.on, Dirty(job[r])) \subseteq Flag
    BY DEF With
  <1>5. link' \in Link /\ link'.active = link.active /\ link'.views = link.views
    <2> DEFINE on == With(link.on, Dirty(job[r]))
    <2>1. on \in SUBSET Flag
      BY <1>4
    <2> HIDE DEF on
    <2>2. link' = [link EXCEPT !.on = on]
      BY <1>1 DEF on
    <2> QED  BY <1>1, <2>1, <2>2 DEF Link
  <1>6. changed' \in [Flag -> Nat \cup {None}]
    BY <1>1
  <1>7. CountInv'
    <2>1. NoViewIsLost'
      BY <1>1, <1>5 DEF NoViewIsLost, PagesInv, CountInv
    <2>2. \A q \in counted' : CountedAt(q)'
      BY <1>1, <1>2 DEF PagesInv, CountInv, CountedAt
    <2> QED  BY <1>1, <2>1, <2>2 DEF PagesInv, CountInv
  <1>8. ViewInv'
    <2>1. \A q \in Req : /\ pc'[q] # "idle" => pc[q] # "idle"
                         /\ pc'[q] \in Viewing => pc[q] \in Viewing
      BY <1>1 DEF Viewing
    <2>2. Active' <=> Active
      BY <1>1, <1>5, NoneIsNothing DEF Active
    <2>3. \A f \in Flag : IF f \in Differs(link.on, link'.on)
                          THEN changed'[f] = clock ELSE changed'[f] = changed[f]
      BY <1>1
    <2> QED  BY <1>1, <1>5, <1>6, <2>1, <2>2, <2>3, ChangeKeepsViews
  <1> QED  BY <1>1, <1>3, <1>5, <1>6, <1>7, <1>8 DEF PagesInv, TypeOK

\* A revocation is timed, unless the link was revoked meanwhile.
LEMMA RevocationKeepsInv ==
  ASSUME PagesInv, NEW r \in Req, WriteRevocation(r)
  PROVE  PagesInv'
  <1>1. /\ pc[r] = "write" /\ pc' = [pc EXCEPT ![r] = "done"]
        /\ UNCHANGED <<clock, profile, tradeKey, rows, job, counted, changed, inserted>>
        /\ pc \in [Req -> {"idle"} \cup Running \cup Over]
        /\ link \in Link \cup {None} /\ counted \subseteq Req /\ clock \in Nat
        /\ changed \in [Flag -> Nat \cup {None}] /\ ended \in Nat \cup {None}
    BY DEF WriteRevocation, Goto, PagesInv, TypeOK
  <1>2. \/ UNCHANGED <<link, ended>>
        \/ /\ link # None /\ link \in Link /\ link' = [link EXCEPT !.active = FALSE]
           /\ ended' = IF link.active THEN clock ELSE ended
    BY <1>1 DEF WriteRevocation
  <1>3. pc' \in [Req -> {"idle"} \cup Running \cup Over]
    BY <1>1 DEF Over
  <1>4. /\ link' \in Link \cup {None} /\ ended' \in Nat \cup {None}
        /\ link = None => link' = None
        /\ link' # None => link # None /\ link'.on = link.on /\ link'.views = link.views
        /\ ~Active => ~Active'
        /\ (Active /\ ~Active') => ended' = clock
        /\ ~(Active /\ ~Active') => ended' = ended
    <2>1. CASE UNCHANGED <<link, ended>>
      BY <1>1, <2>1 DEF Active
    <2>2. CASE /\ link # None /\ link \in Link /\ link' = [link EXCEPT !.active = FALSE]
               /\ ended' = IF link.active THEN clock ELSE ended
      <3>1. link' \in Link /\ link'.on = link.on /\ link'.views = link.views /\ link'.active = FALSE
        BY <2>2 DEF Link
      <3>2. link.active \in BOOLEAN
        BY <2>2 DEF Link
      <3> QED  BY <1>1, <2>2, <3>1, <3>2, NoneIsNothing DEF Active
    <2> QED  BY <1>2, <2>1, <2>2
  <1>5. CountInv'
    <2>1. r \notin counted
      BY <1>1 DEF PagesInv, CountInv, CountedAt
    <2>2. \A q \in counted' : CountedAt(q)'
      BY <1>1, <2>1 DEF PagesInv, CountInv, CountedAt
    <2>3. NoViewIsLost'
      BY <1>1, <1>4 DEF NoViewIsLost, PagesInv, CountInv
    <2> QED  BY <1>1, <2>2, <2>3 DEF PagesInv, CountInv
  <1>6. ViewInv'
    <2>1. \A q \in Req : /\ pc'[q] # "idle" => pc[q] # "idle"
                         /\ pc'[q] \in Viewing => pc[q] \in Viewing
      BY <1>1 DEF Viewing
    <2>2. link' # None => \A f \in Flag : f \notin Differs(link.on, link'.on) /\ changed'[f] = changed[f]
      BY <1>1, <1>4 DEF Differs
    <2> QED  BY <1>1, <1>4, <2>1, <2>2, ChangeKeepsViews
  <1> QED  BY <1>1, <1>3, <1>4, <1>5, <1>6 DEF PagesInv, TypeOK

\* A deletion of the profile ends an active link.
LEMMA DeletionKeepsInv ==
  ASSUME PagesInv, DeleteProfile
  PROVE  PagesInv'
  <1>1. /\ link' = None /\ ~profile' /\ ~tradeKey'
        /\ profile' \in BOOLEAN /\ tradeKey' \in BOOLEAN
        /\ ended' = IF Active THEN clock ELSE ended
        /\ UNCHANGED <<clock, rows, pc, job, counted, changed, inserted>>
    BY DEF DeleteProfile
  <1>2. TypeOK'
    BY <1>1 DEF PagesInv, TypeOK
  <1>3. CountInv'
    BY <1>1 DEF PagesInv, CountInv, CountedAt, NoViewIsLost
  <1>4. ~Active'
    BY <1>1 DEF Active
  <1>5. ViewInv'
    BY <1>1, <1>2, <1>4, ChangeKeepsViews DEF PagesInv, TypeOK
  <1> QED  BY <1>2, <1>3, <1>5 DEF PagesInv

\* A sign-up writes only its own row.
LEMMA InsertKeepsInv ==
  ASSUME PagesInv, NEW r \in Req, Insert(r)
  PROVE  PagesInv'
  <1>1. /\ pc[r] = "insert"
        /\ UNCHANGED <<clock, profile, tradeKey, link, job, counted, changed, ended>>
    BY DEF Insert
  <1>2. r \notin counted
    BY <1>1 DEF PagesInv, CountInv, CountedAt
  <1>3. PICK place \in {"failed", "refresh"} : Goto(r, place)
    BY DEF Insert
  <1>4. rows' \subseteq Req /\ inserted' \subseteq Req
    BY DEF Insert, PagesInv, TypeOK
  <1>5. /\ pc' \in [Req -> {"idle"} \cup Running \cup Over]
        /\ CountInv' /\ ViewInv'
    BY <1>1, <1>2, <1>3, MoveKeepsInv DEF Running, Over, Viewing
  <1> QED  BY <1>1, <1>4, <1>5 DEF PagesInv, TypeOK

\* A trade key, a follow that ends, the time and a stutter touch nothing a view
\* relies on.
LEMMA OthersKeepInv ==
  ASSUME PagesInv,
         \/ \E there \in BOOLEAN : SetTradeKey(there)
         \/ \E u \in Follower : Unfollow(u)
         \/ Tick
         \/ UNCHANGED vars
  PROVE  PagesInv'
  <1>1. /\ UNCHANGED <<profile, link, pc, job, counted, changed, ended, inserted>>
        /\ clock \in Nat /\ clock' \in Nat /\ clock' >= clock
        /\ tradeKey' \in BOOLEAN /\ rows' \subseteq Req
    BY DEF SetTradeKey, Unfollow, Tick, vars, PagesInv, TypeOK
  <1>2. TypeOK'
    BY <1>1 DEF PagesInv, TypeOK
  <1>3. CountInv'
    BY <1>1 DEF PagesInv, CountInv, CountedAt, NoViewIsLost
  <1>4. ViewInv'
    <2> SUFFICES ASSUME NEW q \in Req
                 PROVE  /\ pc'[q] # "idle" => job'[q] \in Job /\ job'[q].began <= clock'
                        /\ pc'[q] \in Viewing => Current(q)'
      BY DEF ViewInv
    <2>1. pc[q] # "idle" => job[q] \in Job /\ job[q].began <= clock /\ job[q].began \in Nat
      BY DEF PagesInv, ViewInv, Job
    <2>2. pc'[q] # "idle" => job'[q] \in Job /\ job'[q].began <= clock'
      BY <1>1, <2>1
    <2>3. Current(q) => Current(q)'
      BY <1>1 DEF Current, Active, Since
    <2> QED  BY <1>1, <2>2, <2>3 DEF PagesInv, ViewInv
  <1> QED  BY <1>2, <1>3, <1>4 DEF PagesInv

LEMMA AdvanceKeepsInv ==
  ASSUME PagesInv, NEW r \in Req, Advance(r)
  PROVE  PagesInv'
  <1>1. CASE CountView(r)
    BY <1>1, CountKeepsInv
  <1>2. CASE WriteEdit(r)
    BY <1>2, EditKeepsInv
  <1>3. CASE WriteRevocation(r)
    BY <1>3, RevocationKeepsInv
  <1>4. CASE Insert(r)
    BY <1>4, InsertKeepsInv
  <1>5. CASE \/ LoadProfile(r) \/ ReadPortfolio(r) \/ ReadPortfolioRaises(r)
     \/ AvgBuyPrices(r) \/ AvgBuyPricesFail(r)
             \/ TradeContext(r) \/ LoadOwner(r) \/ LoadTradeKey(r) \/ WriteEditFails(r)
             \/ WriteRevocationFails(r) \/ LookUp(r) \/ RefreshRow(r) \/ Crash(r)
    BY <1>5, MovesKeepInv
  <1> QED  BY <1>1, <1>2, <1>3, <1>4, <1>5 DEF Advance
-----------------------------------------------------------------------------
LEMMA StepKeepsInv ==
  ASSUME PagesInv, [Next]_vars
  PROVE  PagesInv'
  <1>1. ASSUME NEW r \in Req, Ask(r) PROVE PagesInv'
    BY <1>1, AskKeepsInv
  <1>2. ASSUME NEW r \in Req, Advance(r) PROVE PagesInv'
    BY <1>2, AdvanceKeepsInv
  <1>3. CASE DeleteProfile
    BY <1>3, DeletionKeepsInv
  <1>4. CASE \/ \E there \in BOOLEAN : SetTradeKey(there)
             \/ \E u \in Follower : Unfollow(u)
             \/ Tick \/ UNCHANGED vars
    BY <1>4, OthersKeepInv
  <1> QED  BY <1>1, <1>2, <1>3, <1>4 DEF Next

\* The inductive invariant: where a counted request can be, and what a view
\* knows of the link from its first read on.
THEOREM PagesHold == Spec => []PagesInv
  <1>1. PagesInv /\ [Next]_vars => PagesInv'
    BY StepKeepsInv
  <1> QED  BY InitInv, <1>1, PTL DEF Spec

\* Every variable keeps its type, whatever the requests, flags and followers are.
THEOREM TypeCorrectness == Spec => []TypeOK
  <1>1. PagesInv => TypeOK
    BY DEF PagesInv
  <1> QED  BY <1>1, PagesHold, PTL

\* However views, edits and deletions overlap, the count of the link is the
\* number of views that were counted.
THEOREM CountTheorem == Spec => []NoViewIsLost
  <1>1. PagesInv => NoViewIsLost
    BY DEF PagesInv, CountInv
  <1> QED  BY <1>1, PagesHold, PTL

\* A page shows the link as it was when its handler began, or as it was changed
\* to later, and never a link that had ended or expired by then.
THEOREM PageTheorem == Spec => []PageIsCurrent
  <1>1. PagesInv => PageIsCurrent
    <2> SUFFICES ASSUME PagesInv, NEW r \in Req, pc[r] = "shown"
                 PROVE  /\ Expiry # None => job[r].began <= Expiry
                        /\ ~Active => Since(ended, r)
                        /\ link # None => \A f \in Differs(job[r].on, link.on) : Since(changed[f], r)
      BY DEF PageIsCurrent, Since
    <2> QED  BY DEF PagesInv, ViewInv, Viewing, Current
  <1> QED  BY <1>1, PagesHold, PTL

\* A view that was counted is answered with its page, unless its process died or
\* the profile was deleted.
THEOREM ShownTheorem == Spec => []CountedIsShown
  <1>1. PagesInv => CountedIsShown
    BY DEF PagesInv, CountInv, CountedAt, CountedIsShown, Over
  <1> QED  BY <1>1, PagesHold, PTL
-----------------------------------------------------------------------------
(* Who ran beside whom. *)

\* The requests a request found over are over.
OrderInv == \A r \in Req : /\ pc[r] = "idle" => job[r] = None
                           /\ job[r] # None => \A q \in job[r].before : pc[q] \in Over

\* A sign-up is about to insert its row: whoever has inserted one since it looked
\* ran beside it.
RaceInv ==
    /\ rows \subseteq inserted
    /\ \A q \in inserted : pc[q] \notin {"idle", "lookUp", "insert"}
    /\ \A r \in Req :
          /\ pc[r] = "refresh" => r \in inserted
          /\ pc[r] = "insert" =>
                \A q \in rows : job[q].key = job[r].key => q # r /\ Overlap(q, r)

\* A request but r that was not over before r asked for setting s.
Opposed(r, s) == \E q \in Req \ {r} :
    job[q] # None /\ q \notin job[r].before /\ s \in job[q].payload

\* Where an edit's copy differs from the link, somebody asked for the difference
\* meanwhile; and what a finished edit asked for is there, or was opposed.
EditInv ==
    /\ \A r \in Req : pc[r] \in {"lookUp", "insert", "refresh"} => job[r].kind = "sign"
    /\ \A r \in Req : (pc[r] \in Running /\ job[r].kind = "edit") =>
          /\ job[r].payload \in Payloads
          /\ link # None => \A f \in Differs(job[r].on, link.on) :
                Opposed(r, [flag |-> f, on |-> f \in link.on])
    /\ link # None => \A r \in Req : (pc[r] = "done" /\ job[r].kind = "edit") =>
          \A s \in job[r].payload : \/ s.on = (s.flag \in link.on)
                                    \/ Opposed(r, [s EXCEPT !.on = ~@])

StoryInv == OrderInv /\ RaceInv /\ ErrorsNeedARace /\ EditInv

LEMMA InitStory == Init => StoryInv
  BY DEF Init, StoryInv, OrderInv, RaceInv, ErrorsNeedARace, EditInv, Running

\* The two parts of a beginning that the story tells of.
LEMMA AskDoes ==
  ASSUME NEW r \in Req, Ask(r)
  PROVE  \E kind \in {"view", "edit", "revoke", "sign"}, payload \in Payloads \cup {{}},
            key \in Key \cup {None}, place \in Running \cup Over :
            /\ Begin(r, kind, place, payload, key)
            /\ place \notin {"insert", "refresh", "failed", "done"}
            /\ place = "lookUp" => kind = "sign"
            /\ kind = "edit" => payload \in Payloads
  <1> USE DEF Running, Over
  <1>1. CASE BeginView(r) \/ BeginRevoke(r)
    <2>1. \E kind \in {"view", "revoke"}, place \in {"notFound", "expired", "count", "owner"} :
             Begin(r, kind, place, {}, None)
      BY <1>1 DEF BeginView, BeginRevoke
    <2> QED  BY <2>1
  <1>2. ASSUME NEW payload \in Payloads, BeginEdit(r, payload)
        PROVE  \E place \in {"notFound", "owner"} : Begin(r, "edit", place, payload, None)
    BY <1>2 DEF BeginEdit
  <1>3. ASSUME NEW u \in Follower, BeginFollow(r, u)
        PROVE  \E place \in {"notFound", "refused", "lookUp"} :
                  u \in Key /\ Begin(r, "sign", place, {}, u)
    BY <1>3 DEF BeginFollow, Key
  <1>4. ASSUME NEW e \in Email, BeginJoin(r, e)
        PROVE  e \in Key /\ Begin(r, "sign", "lookUp", {}, e)
    BY <1>4 DEF BeginJoin, Key
  <1> QED  BY <1>1, <1>2, <1>3, <1>4 DEF Ask

\* A beginning changes its own job only, which nobody can have seen before.
LEMMA BeginKeepsStory ==
  ASSUME PagesInv, StoryInv, NEW r \in Req,
         NEW kind \in {"view", "edit", "revoke", "sign"}, NEW payload \in Payloads \cup {{}},
         NEW key \in Key \cup {None}, NEW place \in Running \cup Over,
         Begin(r, kind, place, payload, key),
         place \notin {"insert", "refresh", "failed", "done"},
         place = "lookUp" => kind = "sign",
         kind = "edit" => payload \in Payloads
  PROVE  StoryInv'
  <1> DEFINE new == [kind |-> kind, began |-> clock,
                     on |-> IF kind \in {"view", "edit"} /\ link # None THEN link.on ELSE {},
                     active |-> kind = "revoke" /\ Active,
                     payload |-> payload, key |-> key,
                     before |-> {q \in Req : pc[q] \in Over}]
  <1>1. /\ pc[r] = "idle" /\ pc' = [pc EXCEPT ![r] = place] /\ job' = [job EXCEPT ![r] = new]
        /\ UNCHANGED <<clock, profile, tradeKey, link, rows, counted, changed, ended, inserted>>
        /\ pc \in [Req -> {"idle"} \cup Running \cup Over] /\ job \in [Req -> Job \cup {None}]
        /\ link \in Link \cup {None} /\ inserted \subseteq Req
    BY DEF Begin, Goto, tables, PagesInv, TypeOK
  <1>2. /\ new.before = {q \in Req : pc[q] \in Over} /\ new.kind = kind
        /\ new.payload = payload
        /\ (kind = "edit" /\ link # None) => new.on = link.on
    OBVIOUS
  <1>3. payload \in SUBSET Setting
    BY PagesAssumption
  <1>4. new \in Job
    BY <1>1, <1>3 DEF PagesInv, TypeOK, Job, Link, Active
  <1> HIDE DEF new
  <1>5. new # None
    BY <1>4, NoneIsNothing
  <1>6. /\ pc'[r] = place /\ job'[r] = new
        /\ \A q \in Req : q # r => pc'[q] = pc[q] /\ job'[q] = job[q]
    BY <1>1
  <1>7. r \notin inserted /\ r \notin rows
    BY <1>1 DEF StoryInv, RaceInv
  <1>8. \A q \in Req : job[q] # None => r \notin job[q].before
    BY <1>1 DEF StoryInv, OrderInv, Over
  <1>9. OrderInv'
    <2> SUFFICES ASSUME NEW q \in Req
                 PROVE  /\ pc'[q] = "idle" => job'[q] = None
                        /\ job'[q] # None => \A p \in job'[q].before : pc'[p] \in Over
      BY DEF OrderInv
    <2>1. CASE q = r
      <3>1. \A p \in new.before : p \in Req /\ p # r /\ pc[p] \in Over
        BY <1>1, <1>2 DEF Over
      <3>2. pc'[r] # "idle"
        BY <1>6 DEF Running, Over
      <3> QED  BY <1>6, <2>1, <3>1, <3>2
    <2>2. CASE q # r
      <3>1. pc'[q] = "idle" => job'[q] = None
        BY <1>6, <2>2 DEF StoryInv, OrderInv
      <3>2. ASSUME job[q] # None PROVE \A p \in job[q].before : p # r /\ p \in Req /\ pc[p] \in Over
        BY <1>1, <1>8, <3>2 DEF StoryInv, OrderInv, Job
      <3> QED  BY <1>6, <2>2, <3>1, <3>2
    <2> QED  BY <2>1, <2>2
  <1>10. RaceInv'
    <2>1. rows \subseteq inserted
      BY DEF StoryInv, RaceInv
    <2>2. \A q \in inserted : /\ q \in Req /\ q # r
                              /\ pc'[q] \notin {"idle", "lookUp", "insert"}
      BY <1>1, <1>6, <1>7 DEF StoryInv, RaceInv
    <2>3. ASSUME NEW p \in Req
          PROVE  /\ pc'[p] = "refresh" => p \in inserted
                 /\ pc'[p] = "insert" =>
                       \A q \in rows : job'[q].key = job'[p].key =>
                          q # p /\ (q \notin job'[p].before /\ p \notin job'[q].before)
      <3>1. CASE p = r
        BY <1>6, <3>1
      <3>2. CASE p # r
        BY <1>6, <2>1, <2>2, <3>2 DEF StoryInv, RaceInv, Overlap
      <3> QED  BY <3>1, <3>2
    <2> QED  BY <1>1, <2>1, <2>2, <2>3 DEF RaceInv, Overlap
  <1>11. ErrorsNeedARace'
    <2> SUFFICES ASSUME NEW p \in Req, pc'[p] = "failed", job'[p].kind = "sign"
                 PROVE  \/ p \in inserted' \ rows'
                        \/ \E q \in inserted' \ {p} :
                              /\ job'[q].key = job'[p].key
                              /\ q \notin job'[p].before /\ p \notin job'[q].before
      BY DEF ErrorsNeedARace, Overlap
    <2>1. p # r /\ pc[p] = "failed" /\ job'[p] = job[p]
      BY <1>6
    <2>2. \/ p \in inserted \ rows
          \/ \E q \in inserted \ {p} : /\ job[q].key = job[p].key
                                       /\ q \notin job[p].before /\ p \notin job[q].before
      BY <2>1 DEF StoryInv, ErrorsNeedARace, Overlap
    <2> QED  BY <1>1, <1>6, <1>7, <2>1, <2>2
  <1>12. EditInv'
    <2> DEFINE OpposedThen(p, s) == \E q \in Req \ {p} :
                  job'[q] # None /\ q \notin job'[p].before /\ s \in job'[q].payload
    <2>1. ASSUME NEW p \in Req, NEW s, p # r, Opposed(p, s)
          PROVE  OpposedThen(p, s)
      <3>1. PICK q \in Req \ {p} : job[q] # None /\ q \notin job[p].before /\ s \in job[q].payload
        BY <2>1 DEF Opposed
      <3>2. q # r
        BY <1>1, <3>1 DEF StoryInv, OrderInv
      <3> QED  BY <1>6, <2>1, <3>1, <3>2
    <2>2. ASSUME NEW p \in Req
          PROVE  /\ pc'[p] \in {"lookUp", "insert", "refresh"} => job'[p].kind = "sign"
                 /\ (pc'[p] \in Running /\ job'[p].kind = "edit") =>
                       /\ job'[p].payload \in Payloads
                       /\ link' # None => \A f \in Differs(job'[p].on, link'.on) :
                             OpposedThen(p, [flag |-> f, on |-> f \in link'.on])
                 /\ (link' # None /\ pc'[p] = "done" /\ job'[p].kind = "edit") =>
                       \A s \in job'[p].payload : \/ s.on = (s.flag \in link'.on)
                                                  \/ OpposedThen(p, [s EXCEPT !.on = ~@])
      <3>1. CASE p = r
        <4>1. kind = "edit" /\ link' # None => Differs(new.on, link'.on) = {}
          BY <1>1, <1>2 DEF Differs
        <4> QED  BY <1>2, <1>6, <3>1, <4>1
      <3>2. CASE p # r
        <4>1. pc'[p] = pc[p] /\ job'[p] = job[p] /\ link' = link
          BY <1>1, <1>6, <3>2
        <4>2. pc[p] \in {"lookUp", "insert", "refresh"} => job[p].kind = "sign"
          BY DEF StoryInv, EditInv
        <4>3. (pc[p] \in Running /\ job[p].kind = "edit") =>
                 /\ job[p].payload \in Payloads
                 /\ link # None => \A f \in Differs(job[p].on, link.on) :
                       Opposed(p, [flag |-> f, on |-> f \in link.on])
          BY DEF StoryInv, EditInv
        <4>4. (link # None /\ pc[p] = "done" /\ job[p].kind = "edit") =>
                 \A s \in job[p].payload : \/ s.on = (s.flag \in link.on)
                                           \/ Opposed(p, [s EXCEPT !.on = ~@])
          BY DEF StoryInv, EditInv
        <4> HIDE DEF OpposedThen
        <4> QED  BY <2>1, <3>2, <4>1, <4>2, <4>3, <4>4
      <3> QED  BY <3>1, <3>2
    <2> QED  BY <2>2 DEF EditInv, Opposed
  <1> QED  BY <1>9, <1>10, <1>11, <1>12 DEF StoryInv

LEMMA MoveKeepsOrder ==
  ASSUME PagesInv, OrderInv, NEW r \in Req, pc[r] \in Running,
         NEW place \in Running \cup Over, Goto(r, place), job' = job
  PROVE  OrderInv'
  <1>1. pc' = [pc EXCEPT ![r] = place] /\ pc \in [Req -> {"idle"} \cup Running \cup Over]
    BY DEF Goto, PagesInv, TypeOK
  <1>2. job \in [Req -> Job \cup {None}]
    BY DEF PagesInv, TypeOK
  <1>3. \A q \in Req : job[q] # None => \A p \in job[q].before : p \in Req /\ pc[p] \in Over
    BY <1>2 DEF OrderInv, Job
  <1>4. \A p \in Req : pc[p] \in Over => pc'[p] \in Over
    BY <1>1 DEF Running, Over
  <1>5. \A q \in Req : pc'[q] = "idle" => pc[q] = "idle"
    BY <1>1 DEF Running, Over
  <1> QED  BY <1>3, <1>4, <1>5 DEF OrderInv

\* A move that writes no row and no edit leaves the story as it is.
LEMMA MoveKeepsStory ==
  ASSUME PagesInv, StoryInv, NEW r \in Req, pc[r] \in Running,
         NEW place \in Running \cup Over, Goto(r, place),
         UNCHANGED <<job, rows, inserted>>,
         link' # None => link # None /\ link'.on = link.on,
         place \notin {"lookUp", "refresh"},
         place = "insert" => pc[r] = "lookUp" /\ ~HasRow(job[r].key),
         place = "done" => job[r].kind # "edit",
         (place = "failed" /\ job[r].kind = "sign") => pc[r] = "refresh" /\ r \notin rows
  PROVE  StoryInv'
  <1>1. /\ pc' = [pc EXCEPT ![r] = place] /\ pc \in [Req -> {"idle"} \cup Running \cup Over]
        /\ job \in [Req -> Job \cup {None}]
    BY DEF Goto, PagesInv, TypeOK
  <1>2. OrderInv'
    BY MoveKeepsOrder DEF StoryInv
  <1>3. RaceInv'
    <2>1. rows \subseteq inserted
      BY DEF StoryInv, RaceInv
    <2>2. \A q \in inserted : pc'[q] \notin {"idle", "lookUp", "insert"}
      <3>1. place = "insert" => r \notin inserted
        BY DEF StoryInv, RaceInv
      <3>2. place # "idle"
        BY DEF Running, Over
      <3> QED  BY <1>1, <3>1, <3>2 DEF StoryInv, RaceInv
    <2>3. \A p \in Req : pc'[p] = "refresh" => p \in inserted
      BY <1>1 DEF StoryInv, RaceInv
    <2>4. ASSUME NEW p \in Req, pc'[p] = "insert", NEW q \in rows, job[q].key = job[p].key
          PROVE  q # p /\ Overlap(q, p)
      <3>1. pc[p] = "insert"
        BY <1>1, <2>4 DEF HasRow
      <3> QED  BY <2>4, <3>1 DEF StoryInv, RaceInv
    <2> QED  BY <2>1, <2>2, <2>3, <2>4 DEF RaceInv, Overlap
  <1>4. ErrorsNeedARace'
    <2> SUFFICES ASSUME NEW p \in Req, pc'[p] = "failed", job[p].kind = "sign"
                 PROVE  \/ p \in inserted \ rows
                        \/ \E q \in inserted \ {p} : job[q].key = job[p].key /\ Overlap(q, p)
      BY DEF ErrorsNeedARace, Overlap
    <2>1. CASE pc[p] = "failed"
      BY <2>1 DEF StoryInv, ErrorsNeedARace
    <2>2. CASE pc[p] # "failed"
      <3>1. p = r /\ pc[r] = "refresh" /\ r \notin rows
        BY <1>1, <2>2
      <3> QED  BY <3>1 DEF StoryInv, RaceInv
    <2> QED  BY <2>1, <2>2
  <1>5. EditInv'
    <2>1. \A p \in Req : pc'[p] \in {"lookUp", "insert", "refresh"} => job[p].kind = "sign"
      BY <1>1 DEF StoryInv, EditInv
    <2>2. \A p \in Req : pc'[p] \in Running => pc[p] \in Running
      BY <1>1
    <2>3. \A p \in Req : (pc'[p] = "done" /\ job[p].kind = "edit") => pc[p] = "done"
      BY <1>1
    <2>4. \A p \in Req : (pc'[p] \in Running /\ job[p].kind = "edit") =>
             /\ job[p].payload \in Payloads
             /\ link' # None => \A f \in Differs(job[p].on, link'.on) :
                   Opposed(p, [flag |-> f, on |-> f \in link'.on])
      BY <2>2 DEF StoryInv, EditInv
    <2>5. link' # None => \A p \in Req : (pc'[p] = "done" /\ job[p].kind = "edit") =>
             \A s \in job[p].payload : \/ s.on = (s.flag \in link'.on)
                                       \/ Opposed(p, [s EXCEPT !.on = ~@])
      BY <2>3 DEF StoryInv, EditInv
    <2> QED  BY <2>1, <2>4, <2>5 DEF EditInv, Opposed
  <1> QED  BY <1>2, <1>3, <1>4, <1>5 DEF StoryInv

\* A row is inserted beside all that are about to insert the same.
LEMMA InsertKeepsStory ==
  ASSUME PagesInv, StoryInv, NEW r \in Req, Insert(r)
  PROVE  StoryInv'
  <1>1. /\ pc[r] = "insert" /\ UNCHANGED <<link, job>>
        /\ pc \in [Req -> {"idle"} \cup Running \cup Over]
        /\ job \in [Req -> Job \cup {None}]
    BY DEF Insert, PagesInv, TypeOK
  <1>2. PICK place \in {"failed", "refresh"} :
           /\ pc' = [pc EXCEPT ![r] = place]
           /\ place = "failed" => HasRow(job[r].key) /\ UNCHANGED <<rows, inserted>>
           /\ place = "refresh" => rows' = rows \cup {r} /\ inserted' = inserted \cup {r}
    BY DEF Insert, Goto
  <1>3. OrderInv'
    BY <1>1, <1>2, MoveKeepsOrder DEF Goto, StoryInv, Running, Over
  <1>4. rows \subseteq inserted /\ rows' \subseteq inserted' /\ inserted \subseteq inserted'
    BY <1>2 DEF StoryInv, RaceInv
  <1>5. RaceInv'
    <2>1. \A q \in inserted' : pc'[q] \notin {"idle", "lookUp", "insert"}
      BY <1>1, <1>2 DEF StoryInv, RaceInv
    <2>2. \A p \in Req : pc'[p] = "refresh" => p \in inserted'
      BY <1>1, <1>2 DEF StoryInv, RaceInv
    <2>3. ASSUME NEW p \in Req, pc'[p] = "insert", NEW q \in rows', job[q].key = job[p].key
          PROVE  q # p /\ Overlap(q, p)
      <3>1. pc[p] = "insert" /\ p # r
        BY <1>1, <1>2, <2>3
      <3>2. CASE q \in rows
        BY <2>3, <3>1, <3>2 DEF StoryInv, RaceInv
      <3>3. CASE q = r
        <4>1. job[p] # None /\ job[r] # None
          BY <1>1, <3>1, NoneIsNothing DEF PagesInv, ViewInv
        <4>2. r \notin job[p].before /\ p \notin job[r].before
          BY <1>1, <3>1, <4>1 DEF StoryInv, OrderInv, Over
        <4> QED  BY <3>1, <3>3, <4>2 DEF Overlap
      <3> QED  BY <1>2, <2>3, <3>2, <3>3
    <2> QED  BY <1>1, <1>4, <2>1, <2>2, <2>3 DEF RaceInv, Overlap
  <1>6. ErrorsNeedARace'
    <2> SUFFICES ASSUME NEW p \in Req, pc'[p] = "failed", job[p].kind = "sign"
                 PROVE  \/ p \in inserted' \ rows'
                        \/ \E q \in inserted' \ {p} : job[q].key = job[p].key /\ Overlap(q, p)
      BY <1>1 DEF ErrorsNeedARace, Overlap
    <2>1. CASE pc[p] = "failed"
      <3>1. p # r
        BY <1>1, <2>1
      <3> QED  BY <1>2, <1>4, <2>1, <3>1 DEF StoryInv, ErrorsNeedARace
    <2>2. CASE pc[p] # "failed"
      <3>1. p = r /\ HasRow(job[r].key)
        BY <1>1, <1>2, <2>2
      <3>2. PICK q \in rows : job[q].key = job[r].key
        BY <3>1 DEF HasRow
      <3> QED  BY <1>1, <1>4, <3>1, <3>2 DEF StoryInv, RaceInv
    <2> QED  BY <2>1, <2>2
  <1>7. EditInv'
    <2>1. job[r].kind = "sign"
      BY <1>1 DEF StoryInv, EditInv
    <2>2. \A p \in Req : p # r => pc'[p] = pc[p]
      BY <1>1, <1>2
    <2>3. pc'[r] # "done"
      BY <1>1, <1>2
    <2>4. \A p \in Req : pc'[p] \in {"lookUp", "insert", "refresh"} => job[p].kind = "sign"
      BY <2>1, <2>2 DEF StoryInv, EditInv
    <2>5. \A p \in Req : (pc'[p] \in Running /\ job[p].kind = "edit") =>
             /\ job[p].payload \in Payloads
             /\ link # None => \A f \in Differs(job[p].on, link.on) :
                   Opposed(p, [flag |-> f, on |-> f \in link.on])
      BY <2>1, <2>2 DEF StoryInv, EditInv
    <2>6. link # None => \A p \in Req : (pc'[p] = "done" /\ job[p].kind = "edit") =>
             \A s \in job[p].payload : \/ s.on = (s.flag \in link.on)
                                       \/ Opposed(p, [s EXCEPT !.on = ~@])
      BY <2>1, <2>2 DEF StoryInv, EditInv
    <2> QED  BY <1>1, <2>4, <2>5, <2>6 DEF EditInv, Opposed
  <1> QED  BY <1>3, <1>5, <1>6, <1>7 DEF StoryInv

\* An edit writes what it asked for and its copy had not; the rest of what it
\* asked for is there, or somebody has asked for the opposite meanwhile.  Those
\* that find the link otherwise now ran beside this one.
LEMMA EditKeepsStory ==
  ASSUME PagesInv, StoryInv, NEW r \in Req, WriteEdit(r)
  PROVE  StoryInv'
  <1> DEFINE on == With(link.on, Dirty(job[r]))
  <1>1. /\ pc[r] = "write" /\ job[r].kind = "edit" /\ link # None
        /\ pc' = [pc EXCEPT ![r] = "done"]
        /\ link' = [link EXCEPT !.on = on]
        /\ UNCHANGED <<job, rows, inserted>>
        /\ pc \in [Req -> {"idle"} \cup Running \cup Over]
        /\ job \in [Req -> Job \cup {None}] /\ link \in Link
    BY DEF WriteEdit, Goto, PagesInv, TypeOK
  <1>2. /\ job[r] \in Job /\ job[r] # None /\ job[r].payload \in Payloads
        /\ job[r].payload \subseteq Setting
        /\ \A s, t \in job[r].payload : s.flag = t.flag => s = t
        /\ \A f \in Differs(job[r].on, link.on) :
              Opposed(r, [flag |-> f, on |-> f \in link.on])
    BY <1>1, NoneIsNothing, PagesAssumption
       DEF PagesInv, ViewInv, StoryInv, EditInv, Running
  <1>3. on \in SUBSET Flag /\ link'.on = on
    <2>1. on \in SUBSET Flag
      BY DEF With
    <2> HIDE DEF on
    <2> QED  BY <1>1, <2>1 DEF Link
  <1> HIDE DEF on
  <1>4. ASSUME NEW s \in Dirty(job[r])
        PROVE  s \in job[r].payload /\ s.on = (s.flag \in on)
    <2>1. /\ s \in job[r].payload /\ s \in Setting /\ s.on \in BOOLEAN /\ s.flag \in Flag
          /\ s = [flag |-> s.flag, on |-> s.on]
      BY <1>2 DEF Dirty, Setting
    <2>2. CASE s.on = TRUE
      BY <2>1, <2>2 DEF on, With
    <2>3. CASE s.on = FALSE
      <3>1. [flag |-> s.flag, on |-> TRUE] \notin Dirty(job[r])
        BY <1>2, <2>1, <2>3 DEF Dirty
      <3>2. [flag |-> s.flag, on |-> FALSE] \in Dirty(job[r])
        BY <2>1, <2>3
      <3>3. s.flag \notin on
        BY <3>1, <3>2 DEF on, With
      <3> QED  BY <2>1, <2>3, <3>3
    <2> QED  BY <2>1, <2>2, <2>3
  <1>5. ASSUME NEW f \in Flag, (f \in on) # (f \in link.on)
        PROVE  [flag |-> f, on |-> f \in on] \in Dirty(job[r])
    <2>1. CASE f \in on
      <3>1. [flag |-> f, on |-> TRUE] \in Dirty(job[r])
        BY <1>5, <2>1 DEF on, With
      <3>2. (f \in on) = TRUE
        BY <2>1
      <3> QED  BY <3>1, <3>2
    <2>2. CASE f \notin on
      <3>1. [flag |-> f, on |-> FALSE] \in Dirty(job[r])
        BY <1>5, <2>2 DEF on, With
      <3>2. (f \in on) = FALSE
        BY <2>2
      <3> QED  BY <3>1, <3>2
    <2> QED  BY <2>1, <2>2
  <1>6. ASSUME NEW p \in Req, p # r, job[p] # None,
               NEW f \in Flag, (f \in on) # (f \in link.on)
        PROVE  Opposed(p, [flag |-> f, on |-> f \in on])
    <2>1. r \notin job[p].before
      BY <1>1, <1>6 DEF StoryInv, OrderInv, Over
    <2> QED  BY <1>2, <1>4, <1>5, <1>6, <2>1 DEF Opposed
  <1>7. OrderInv'
    BY <1>1, MoveKeepsOrder DEF Goto, StoryInv, Running, Over
  <1>8. RaceInv'
    <2>1. \A p \in Req : pc'[p] \in {"idle", "lookUp", "insert", "refresh"} => pc'[p] = pc[p]
      BY <1>1
    <2>2. \A q \in inserted : pc'[q] \notin {"idle", "lookUp", "insert"}
      <3>1. inserted \subseteq Req
        BY DEF PagesInv, TypeOK
      <3> QED  BY <2>1, <3>1 DEF StoryInv, RaceInv
    <2>3. ASSUME NEW p \in Req
          PROVE  /\ pc'[p] = "refresh" => p \in inserted
                 /\ pc'[p] = "insert" =>
                       \A q \in rows : job[q].key = job[p].key => q # p /\ Overlap(q, p)
      BY <2>1 DEF StoryInv, RaceInv
    <2>4. rows \subseteq inserted
      BY DEF StoryInv, RaceInv
    <2> QED  BY <1>1, <2>2, <2>3, <2>4 DEF RaceInv, Overlap
  <1>9. ErrorsNeedARace'
    BY <1>1 DEF StoryInv, ErrorsNeedARace, Overlap
  <1>10. ASSUME NEW p \in Req, pc'[p] \in Running, job[p].kind = "edit"
         PROVE  /\ job[p].payload \in Payloads
                /\ \A f \in Differs(job[p].on, on) :
                      Opposed(p, [flag |-> f, on |-> f \in on])
    <2>1. p # r /\ pc[p] \in Running
      BY <1>1, <1>10 DEF Running
    <2>2. job[p] \in Job /\ job[p] # None /\ job[p].on \subseteq Flag
      BY <2>1, NoneIsNothing DEF PagesInv, ViewInv, Running, Job
    <2>3. /\ job[p].payload \in Payloads
          /\ \A f \in Differs(job[p].on, link.on) :
                Opposed(p, [flag |-> f, on |-> f \in link.on])
      BY <1>1, <1>10, <2>1 DEF StoryInv, EditInv
    <2>4. ASSUME NEW f \in Differs(job[p].on, on)
          PROVE  Opposed(p, [flag |-> f, on |-> f \in on])
      <3>1. f \in Flag
        BY <1>3, <2>2 DEF Differs
      <3>2. CASE (f \in on) = (f \in link.on)
        <4>1. f \in Differs(job[p].on, link.on)
          BY <3>2 DEF Differs
        <4> QED  BY <2>3, <3>2, <4>1
      <3>3. CASE (f \in on) # (f \in link.on)
        BY <1>6, <2>1, <2>2, <3>1, <3>3
      <3> QED  BY <3>2, <3>3
    <2> QED  BY <2>3, <2>4
  <1>11. ASSUME NEW p \in Req, pc'[p] = "done", job[p].kind = "edit", NEW s \in job[p].payload
         PROVE  \/ s.on = (s.flag \in on)
                \/ Opposed(p, [s EXCEPT !.on = ~@])
    <2>1. job[p] \in Job /\ job[p] # None
      BY <1>1, <1>2, <1>11, NoneIsNothing DEF PagesInv, ViewInv
    <2>2. s \in Setting
      BY <2>1 DEF Job
    <2>3. /\ s.flag \in Flag /\ s.on \in BOOLEAN
          /\ [s EXCEPT !.on = ~@] = [flag |-> s.flag, on |-> ~s.on]
      BY <2>2 DEF Setting
    <2> SUFFICES ASSUME s.on # (s.flag \in on)
                 PROVE  Opposed(p, [flag |-> s.flag, on |-> ~s.on])
      BY <2>3
    <2>4. (s.flag \in on) = ~s.on
      BY <2>3
    <2>5. CASE p = r
      <3>1. s \notin Dirty(job[r])
        BY <1>4
      <3>2. s.on = (s.flag \in job[r].on)
        BY <2>5, <3>1 DEF Dirty
      <3>3. (s.flag \in on) = (s.flag \in link.on)
        <4>1. ASSUME (s.flag \in on) # (s.flag \in link.on) PROVE FALSE
          <5>1. [flag |-> s.flag, on |-> s.flag \in on] \in Dirty(job[r])
            BY <1>5, <2>3, <4>1
          <5>2. [flag |-> s.flag, on |-> s.flag \in on] = s
            BY <1>2, <1>4, <2>5, <5>1
          <5> QED  BY <3>1, <5>1, <5>2
        <4> QED  BY <4>1
      <3>4. s.flag \in Differs(job[r].on, link.on)
        BY <2>4, <3>2, <3>3 DEF Differs
      <3>5. Opposed(r, [flag |-> s.flag, on |-> s.flag \in link.on])
        BY <1>2, <3>4
      <3>6. (s.flag \in link.on) = ~s.on
        BY <2>4, <3>3
      <3> QED  BY <2>5, <3>5, <3>6
    <2>6. CASE p # r
      <3>1. pc[p] = "done"
        BY <1>1, <1>11, <2>6
      <3>2. CASE (s.flag \in on) = (s.flag \in link.on)
        <4>1. \/ s.on = (s.flag \in link.on)
              \/ Opposed(p, [s EXCEPT !.on = ~@])
          BY <1>1, <1>11, <3>1 DEF StoryInv, EditInv
        <4> QED  BY <2>3, <3>2, <4>1
      <3>3. CASE (s.flag \in on) # (s.flag \in link.on)
        <4>1. Opposed(p, [flag |-> s.flag, on |-> s.flag \in on])
          BY <1>6, <2>1, <2>3, <2>6, <3>3
        <4> QED  BY <2>4, <4>1
      <3> QED  BY <3>2, <3>3
    <2> QED  BY <2>5, <2>6
  <1>12. \A p \in Req : pc'[p] \in {"lookUp", "insert", "refresh"} => job[p].kind = "sign"
    BY <1>1 DEF StoryInv, EditInv
  <1>13. EditInv'
    BY <1>1, <1>3, <1>10, <1>11, <1>12 DEF EditInv, Opposed
  <1> QED  BY <1>7, <1>8, <1>9, <1>13 DEF StoryInv

LEMMA AdvanceKeepsStory ==
  ASSUME PagesInv, StoryInv, NEW r \in Req, Advance(r)
  PROVE  StoryInv'
  <1> USE DEF Running, Over
  <1>0. pc[r] = "lookUp" => job[r].kind = "sign"
    BY DEF StoryInv, EditInv
  <1>1. CASE CountView(r) \/ WriteRevocation(r)
    <2>1. PICK place \in {"profile", "done"} :
             /\ Goto(r, place) /\ pc[r] \in Running /\ UNCHANGED <<job, rows, inserted>>
             /\ place = "done" => job[r].kind # "edit"
      BY <1>1 DEF CountView, WriteRevocation
    <2>2. ASSUME link' # None PROVE link # None /\ link'.on = link.on
      <3>1. \/ link' = link
            \/ /\ link # None
               /\ \/ link' = [link EXCEPT !.views = @ + 1]
                  \/ link' = [link EXCEPT !.active = FALSE]
        BY <1>1, <2>2 DEF CountView, WriteRevocation
      <3>2. link # None => link \in Link
        BY DEF PagesInv, TypeOK
      <3> QED  BY <2>2, <3>1, <3>2 DEF Link
    <2> QED  BY <2>1, <2>2, MoveKeepsStory
  <1>2. CASE \/ LoadProfile(r) \/ ReadPortfolio(r) \/ ReadPortfolioRaises(r)
     \/ AvgBuyPrices(r) \/ AvgBuyPricesFail(r)
             \/ TradeContext(r) \/ LoadOwner(r) \/ LoadTradeKey(r) \/ WriteEditFails(r)
             \/ WriteRevocationFails(r) \/ LookUp(r) \/ RefreshRow(r) \/ Crash(r)
    <2>1. PICK place \in Running \cup Over :
             /\ Goto(r, place) /\ pc[r] \in Running /\ UNCHANGED <<job, rows, inserted, link>>
             /\ place \notin {"lookUp", "refresh"}
             /\ place = "insert" => pc[r] = "lookUp" /\ ~HasRow(job[r].key)
             /\ place = "done" => pc[r] \in {"lookUp", "refresh"}
             /\ (place = "failed" /\ job[r].kind = "sign") => pc[r] = "refresh" /\ r \notin rows
      BY <1>2 DEF LoadProfile, ReadPortfolio, ReadPortfolioRaises,
         AvgBuyPrices, AvgBuyPricesFail, TradeContext,
         LastPart, LoadOwner, LoadTradeKey, WriteEditFails, WriteRevocationFails, LookUp,
         RefreshRow, Crash, tables
    <2>2. place = "done" => job[r].kind # "edit"
      BY <1>0, <2>1 DEF StoryInv, EditInv
    <2> QED  BY <2>1, <2>2, MoveKeepsStory
  <1>3. CASE WriteEdit(r)
    BY <1>3, EditKeepsStory
  <1>4. CASE Insert(r)
    BY <1>4, InsertKeepsStory
  <1> QED  BY <1>1, <1>2, <1>3, <1>4 DEF Advance

\* What is not a request's step at most removes rows, or the link.
LEMMA OthersKeepStory ==
  ASSUME PagesInv, StoryInv, UNCHANGED <<pc, job, inserted>>,
         rows' \subseteq rows, link' # None => link' = link
  PROVE  StoryInv'
  <1>1. OrderInv'
    BY DEF StoryInv, OrderInv
  <1>2. RaceInv'
    BY DEF StoryInv, RaceInv, Overlap
  <1>3. ErrorsNeedARace'
    BY DEF StoryInv, ErrorsNeedARace, Overlap
  <1>4. EditInv'
    BY DEF StoryInv, EditInv, Opposed
  <1> QED  BY <1>1, <1>2, <1>3, <1>4 DEF StoryInv

LEMMA StepKeepsStory ==
  ASSUME PagesInv, StoryInv, [Next]_vars
  PROVE  StoryInv'
  <1>1. ASSUME NEW r \in Req, Ask(r) PROVE StoryInv'
    <2>1. PICK kind \in {"view", "edit", "revoke", "sign"}, payload \in Payloads \cup {{}},
               key \in Key \cup {None}, place \in Running \cup Over :
               /\ Begin(r, kind, place, payload, key)
               /\ place \notin {"insert", "refresh", "failed", "done"}
               /\ place = "lookUp" => kind = "sign"
               /\ kind = "edit" => payload \in Payloads
      BY <1>1, AskDoes
    <2> QED  BY <2>1, BeginKeepsStory
  <1>2. ASSUME NEW r \in Req, Advance(r) PROVE StoryInv'
    BY <1>2, AdvanceKeepsStory
  <1>3. CASE \/ DeleteProfile \/ \E there \in BOOLEAN : SetTradeKey(there)
             \/ \E u \in Follower : Unfollow(u)
             \/ Tick \/ UNCHANGED vars
    <2>1. /\ UNCHANGED <<pc, job, inserted>> /\ rows' \subseteq rows
          /\ link' # None => link' = link
      BY <1>3 DEF DeleteProfile, SetTradeKey, Unfollow, Tick, vars
    <2> QED  BY <2>1, OthersKeepStory
  <1> QED  BY <1>1, <1>2, <1>3 DEF Next

\* The inductive invariant of the races: who was over when a request began, who
\* may have inserted its row meanwhile, and who has asked for the opposite.
THEOREM StoryHolds == Spec => []StoryInv
  <1>1. PagesInv /\ StoryInv /\ [Next]_vars => StoryInv'
    BY StepKeepsStory
  <1> QED  BY InitStory, PagesHold, <1>1, PTL DEF Spec

\* A follow or a join that ends in an error met another for the same row that
\* ran beside it, or lost its own row before reading it again.
THEOREM RaceTheorem == Spec => []ErrorsNeedARace
  <1>1. StoryInv => ErrorsNeedARace
    BY DEF StoryInv
  <1> QED  BY <1>1, StoryHolds, PTL

\* What an edit asked for stays until an edit that was not over before it asks
\* for the opposite, however many edits overlap.
THEOREM EditTheorem == Spec => []EditsStick
  <1>1. StoryInv => EditsStick
    <2> SUFFICES ASSUME StoryInv, link # None, NEW r \in Req,
                        pc[r] = "done", job[r].kind = "edit", NEW s \in job[r].payload
                 PROVE  \/ s.on = (s.flag \in link.on)
                        \/ Opposed(r, [s EXCEPT !.on = ~@])
      BY DEF EditsStick, Opposed
    <2> QED  BY DEF StoryInv, EditInv
  <1> QED  BY <1>1, StoryHolds, PTL
=============================================================================

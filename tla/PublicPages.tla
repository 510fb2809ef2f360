---------------------------- MODULE PublicPages ----------------------------
(***************************************************************************)
(* A share link: its public page, the owner's edits of it, and those who   *)
(* follow it (backend/app/api/v1/share.py); and the waitlist, which signs  *)
(* people up the way a follow does (backend/app/api/v1/waitlist.py).       *)
(*                                                                         *)
(* A handler's SELECTs each see what is committed at that moment, and other *)
(* handlers run at its awaits.  The page is made of a copy of the link's   *)
(* row, read first; an edit writes the columns it changes and no other     *)
(* (the object's dirty attributes); a sign-up looks for its row before it  *)
(* inserts it, and the unique constraint refuses a second one.             *)
(***************************************************************************)
EXTENDS Integers, FiniteSets

CONSTANTS
    Req,           \* the requests, each made once
    Flag,          \* the boolean columns of the link
    Payloads,      \* what a PATCH may carry: sets of settings of flags
    Follower,      \* the users who may follow the link
    Email,         \* the addresses that may join the waitlist
    Expiry,        \* when the link expires: a tick, or None
    Faults,        \* what may go wrong
    MaxHandler,    \* bound: ticks a handler may take
    MaxTime,       \* bound: the last tick
    None

\* A flag and the value it is to have.
Setting == [flag : Flag, on : BOOLEAN]

Key == Follower \cup Email
FaultKind == {"garbled", "costBasis", "crash"}

ASSUME PagesAssumption ==
    /\ {"avg", "trade", "follow"} \subseteq Flag
    /\ Payloads \subseteq SUBSET Setting
    /\ \A p \in Payloads : \A s, t \in p : s.flag = t.flag => s = t   \* a field once
    /\ Expiry \in Nat \cup {None}
    /\ Faults \subseteq FaultKind
    /\ MaxHandler \in Nat /\ MaxTime \in Nat
    /\ Follower \cap Email = {}

VARIABLES
    clock,
    profile,    \* whether the profile's row is there
    tradeKey,   \* whether the profile has a trade key
    link,       \* the row of share_links, None when it is gone
    rows,       \* the rows of followed_portfolios (for this link) and of waitlist,
                \* each named by the request that inserted it
    pc, job,    \* per request: where it stands, its local variables
    counted,    \* ghost: the requests that counted a view
    changed,    \* ghost: changed[f]: when flag f last changed
    ended,      \* ghost: when the link was revoked or deleted
    inserted    \* ghost: the requests whose row was ever there

vars == <<clock, profile, tradeKey, link, rows, pc, job, counted, changed, ended, inserted>>

Running == {"count", "profile", "portfolio", "avg", "trade", "owner", "key", "write",
            "lookUp", "insert", "refresh"}
Over == {"shown", "notFound", "expired", "refused", "done", "failed", "died", "broken"}

Link == [active : BOOLEAN, on : SUBSET Flag, views : Nat]

\* on, active: the link as it was read; before: ghost, the requests that were
\* over when this one began.
Job == [kind : {"view", "edit", "revoke", "sign"}, began : Nat,
        on : SUBSET Flag, active : BOOLEAN,
        payload : SUBSET Setting, key : Key \cup {None}, before : SUBSET Req]

ASSUME NoneIsNothing == None \notin Nat \cup Link \cup Job \cup Key

InFlight == {r \in Req : pc[r] \in Running}

Init == /\ clock = 0
        /\ profile = TRUE
        /\ tradeKey = FALSE
        /\ \E on \in SUBSET (Flag \ {"trade"}) :
              link = [active |-> TRUE, on |-> on, views |-> 0]
        /\ rows = {}
        /\ pc = [r \in Req |-> "idle"]
        /\ job = [r \in Req |-> None]
        /\ counted = {}
        /\ changed = [f \in Flag |-> None]
        /\ ended = None
        /\ inserted = {}
-----------------------------------------------------------------------------
Goto(r, place) == pc' = [pc EXCEPT ![r] = place]

tables == <<clock, profile, tradeKey, link, rows, counted, changed, ended, inserted>>

\* Looked up by its token and is_active.
Active == link # None /\ link.active
Expired == Expiry # None /\ clock > Expiry

\* What a handler will use of the link it has read is this copy.
Begin(r, kind, place, payload, key) ==
    /\ pc[r] = "idle"
    /\ Goto(r, place)
    /\ job' = [job EXCEPT ![r] =
                  [kind |-> kind, began |-> clock,
                   on |-> IF kind \in {"view", "edit"} /\ link # None THEN link.on ELSE {},
                   active |-> kind = "revoke" /\ Active,
                   payload |-> payload, key |-> key,
                   before |-> {q \in Req : pc[q] \in Over}]]
    /\ UNCHANGED tables

(* The public page. *)

\* Bug to detect: the link is looked up by its token alone.
BeginViewOfRevoked(r) ==
    Begin(r, "view", IF link = None THEN "notFound" ELSE IF Expired THEN "expired" ELSE "count",
          {}, None)

BeginView(r) ==
    Begin(r, "view", IF ~Active THEN "notFound" ELSE IF Expired THEN "expired" ELSE "count",
          {}, None)

\* Bug to detect: the count is the one that was read, plus one.
CountViewFromCopy(r) ==
    /\ pc[r] = "count"
    /\ Goto(r, "profile")
    /\ link' = IF link = None THEN None
               ELSE [link EXCEPT !.views = Cardinality({q \in job[r].before : q \in counted}) + 1]
    /\ counted' = IF link = None THEN counted ELSE counted \cup {r}
    /\ UNCHANGED <<clock, profile, tradeKey, rows, job, changed, ended, inserted>>

\* One UPDATE, which adds to the count the row has by then; committed.
CountView(r) ==
    /\ pc[r] = "count"
    /\ Goto(r, "profile")
    /\ link' = IF link = None THEN None ELSE [link EXCEPT !.views = @ + 1]
    /\ counted' = IF link = None THEN counted ELSE counted \cup {r}
    /\ UNCHANGED <<clock, profile, tradeKey, rows, job, changed, ended, inserted>>

LoadProfile(r) ==
    /\ pc[r] = "profile"
    /\ Goto(r, IF profile THEN "portfolio" ELSE "notFound")
    /\ UNCHANGED <<tables, job>>

\* What the page can be traded on is added last.
LastPart(r) == IF "trade" \in job[r].on THEN "trade" ELSE "shown"

\* The keys and their balances; a venue that fails is left out (PortfolioCache).
ReadPortfolio(r) ==
    /\ pc[r] = "portfolio"
    /\ Goto(r, IF "avg" \in job[r].on THEN "avg" ELSE LastPart(r))
    /\ UNCHANGED <<tables, job>>

\* It raises on prices that are not of their form (PriceLookup): no page.
ReadPortfolioRaises(r) ==
    /\ pc[r] = "portfolio" /\ "garbled" \in Faults
    /\ Goto(r, "broken")
    /\ UNCHANGED <<tables, job>>

AvgBuyPrices(r) ==
    /\ pc[r] = "avg"
    /\ Goto(r, LastPart(r))
    /\ UNCHANGED <<tables, job>>

\* Bug to detect: the failure of the trade history is not caught.
AvgBuyPricesRaise(r) ==
    /\ pc[r] = "avg" /\ "costBasis" \in Faults
    /\ Goto(r, "failed")
    /\ UNCHANGED <<tables, job>>

\* The page is shown without the prices.
AvgBuyPricesFail(r) ==
    /\ pc[r] = "avg" /\ "costBasis" \in Faults
    /\ Goto(r, LastPart(r))
    /\ UNCHANGED <<tables, job>>

\* The trade keys and what was spent today, both as they are now.
TradeContext(r) ==
    /\ pc[r] = "trade"
    /\ Goto(r, "shown")
    /\ UNCHANGED <<tables, job>>
-----------------------------------------------------------------------------
(* The owner's handlers. *)

\* A PATCH or DELETE: the link, active or not, then its profile.
BeginEdit(r, payload) ==
    Begin(r, "edit", IF link = None THEN "notFound" ELSE "owner", payload, None)

BeginRevoke(r) ==
    Begin(r, "revoke", IF link = None THEN "notFound" ELSE "owner", {}, None)

AsksToTrade(payload) == [flag |-> "trade", on |-> TRUE] \in payload

LoadOwner(r) ==
    /\ pc[r] = "owner"
    /\ Goto(r, IF ~profile THEN "notFound"
               ELSE IF AsksToTrade(job[r].payload) THEN "key" ELSE "write")
    /\ UNCHANGED <<tables, job>>

\* can_trade = true needs a trade key, now.
LoadTradeKey(r) ==
    /\ pc[r] = "key"
    /\ Goto(r, IF tradeKey THEN "write" ELSE "refused")
    /\ UNCHANGED <<tables, job>>

\* The flags once the settings are applied.
With(on, settings) == {f \in Flag : \/ [flag |-> f, on |-> TRUE] \in settings
                                    \/ f \in on /\ [flag |-> f, on |-> FALSE] \notin settings}

\* The columns an UPDATE carries: those whose value differs from what was read.
Dirty(j) == {s \in j.payload : s.on # (s.flag \in j.on)}

Differs(on1, on2) == (on1 \cup on2) \ (on1 \cap on2)

\* Bug to detect: the whole row is written back.
WriteEditWhole(r) ==
    /\ pc[r] = "write" /\ job[r].kind = "edit" /\ link # None
    /\ Goto(r, "done")
    /\ link' = [link EXCEPT !.on = With(job[r].on, job[r].payload)]
    /\ changed' = [f \in Flag |-> IF f \in Differs(link.on, link'.on) THEN clock ELSE changed[f]]
    /\ UNCHANGED <<clock, profile, tradeKey, rows, job, counted, ended, inserted>>

WriteEdit(r) ==
    /\ pc[r] = "write" /\ job[r].kind = "edit" /\ link # None
    /\ Goto(r, "done")
    /\ link' = [link EXCEPT !.on = With(@, Dirty(job[r]))]
    /\ changed' = [f \in Flag |-> IF f \in Differs(link.on, link'.on) THEN clock ELSE changed[f]]
    /\ UNCHANGED <<clock, profile, tradeKey, rows, job, counted, ended, inserted>>

\* The row is gone: the UPDATE meets no row, or the row cannot be read again.
WriteEditFails(r) ==
    /\ pc[r] = "write" /\ job[r].kind = "edit" /\ link = None
    /\ Goto(r, "failed")
    /\ UNCHANGED <<tables, job>>

WriteRevocation(r) ==
    /\ pc[r] = "write" /\ job[r].kind = "revoke"
    /\ ~(link = None /\ job[r].active)
    /\ Goto(r, "done")
    /\ IF job[r].active
       THEN /\ link' = [link EXCEPT !.active = FALSE]
            /\ ended' = IF link.active THEN clock ELSE ended
       ELSE UNCHANGED <<link, ended>>
    /\ UNCHANGED <<clock, profile, tradeKey, rows, job, counted, changed, inserted>>

WriteRevocationFails(r) ==
    /\ pc[r] = "write" /\ job[r].kind = "revoke"
    /\ link = None /\ job[r].active
    /\ Goto(r, "failed")
    /\ UNCHANGED <<tables, job>>

SetTradeKey(there) ==
    /\ profile
    /\ tradeKey # there
    /\ tradeKey' = there
    /\ UNCHANGED <<clock, profile, link, rows, pc, job, counted, changed, ended, inserted>>

\* The link goes with its profile; who follows it stays.
DeleteProfile ==
    /\ profile
    /\ profile' = FALSE
    /\ tradeKey' = FALSE
    /\ link' = None
    /\ ended' = IF Active THEN clock ELSE ended
    /\ UNCHANGED <<clock, rows, pc, job, counted, changed, inserted>>
-----------------------------------------------------------------------------
(* Signing up: to follow the link, or for the waitlist. *)

\* An expired link can still be followed.
BeginFollow(r, u) ==
    Begin(r, "sign", IF ~Active THEN "notFound"
                     ELSE IF "follow" \notin link.on THEN "refused" ELSE "lookUp", {}, u)

BeginJoin(r, e) == Begin(r, "sign", "lookUp", {}, e)

\* Whether there is a row with the key, which is unique.
HasRow(key) == \E q \in rows : job[q].key = key

\* Bug to detect: a row that is there already is not looked for.
LookUpNothing(r) ==
    /\ pc[r] = "lookUp"
    /\ Goto(r, "insert")
    /\ UNCHANGED <<tables, job>>

\* A row that is there already is the answer.
LookUp(r) ==
    /\ pc[r] = "lookUp"
    /\ Goto(r, IF HasRow(job[r].key) THEN "done" ELSE "insert")
    /\ UNCHANGED <<tables, job>>

Insert(r) ==
    /\ pc[r] = "insert"
    /\ IF HasRow(job[r].key)
       THEN Goto(r, "failed") /\ UNCHANGED <<rows, inserted>>
       ELSE Goto(r, "refresh") /\ rows' = rows \cup {r} /\ inserted' = inserted \cup {r}
    /\ UNCHANGED <<clock, profile, tradeKey, link, job, counted, changed, ended>>

\* The row is read again by its id, and may be gone by then.
RefreshRow(r) ==
    /\ pc[r] = "refresh"
    /\ Goto(r, IF r \in rows THEN "done" ELSE "failed")
    /\ UNCHANGED <<tables, job>>

Unfollow(u) ==
    /\ HasRow(u)
    /\ rows' = {q \in rows : job[q].key # u}
    /\ UNCHANGED <<clock, profile, tradeKey, link, pc, job, counted, changed, ended, inserted>>
-----------------------------------------------------------------------------
\* The process dies: the transaction is rolled back.
Crash(r) ==
    /\ "crash" \in Faults
    /\ pc[r] \in Running
    /\ Goto(r, "died")
    /\ UNCHANGED <<tables, job>>

Tick ==
    /\ clock < MaxTime
    /\ \A r \in InFlight : clock < job[r].began + MaxHandler
    /\ clock' = clock + 1
    /\ UNCHANGED <<profile, tradeKey, link, rows, pc, job, counted, changed, ended, inserted>>

Ask(r) ==
    \/ BeginView(r) \/ BeginRevoke(r)
    \/ \E payload \in Payloads : BeginEdit(r, payload)
    \/ \E u \in Follower : BeginFollow(r, u)
    \/ \E e \in Email : BeginJoin(r, e)

Advance(r) ==
    \/ CountView(r) \/ LoadProfile(r) \/ ReadPortfolio(r) \/ ReadPortfolioRaises(r)
    \/ AvgBuyPrices(r) \/ AvgBuyPricesFail(r) \/ TradeContext(r)
    \/ LoadOwner(r) \/ LoadTradeKey(r) \/ WriteEdit(r) \/ WriteEditFails(r)
    \/ WriteRevocation(r) \/ WriteRevocationFails(r)
    \/ LookUp(r) \/ Insert(r) \/ RefreshRow(r)
    \/ Crash(r)

Next == \/ \E r \in Req : Ask(r) \/ Advance(r)
        \/ \E there \in BOOLEAN : SetTradeKey(there)
        \/ \E u \in Follower : Unfollow(u)
        \/ DeleteProfile
        \/ Tick

Spec == Init /\ [][Next]_vars
-----------------------------------------------------------------------------
(* Properties. *)

\* Type invariant.
TypeOK ==
    /\ clock \in Nat
    /\ profile \in BOOLEAN /\ tradeKey \in BOOLEAN
    /\ link \in Link \cup {None}
    /\ rows \subseteq Req /\ inserted \subseteq Req
    /\ pc \in [Req -> {"idle"} \cup Running \cup Over]
    /\ job \in [Req -> Job \cup {None}]
    /\ counted \subseteq Req
    /\ changed \in [Flag -> Nat \cup {None}]
    /\ ended \in Nat \cup {None}

\* However views, edits and each other's counts overlap, every view that was
\* counted is in the count, once.
NoViewIsLost == link # None => link.views = Cardinality(counted)

\* A page is no older than its handler: the link was there, active and not
\* expired when the handler began, and a setting the page shows otherwise than
\* the link has it was changed since then.
PageIsCurrent == \A r \in Req : pc[r] = "shown" =>
    LET since(when) == when # None /\ when >= job[r].began
    IN /\ Expiry # None => job[r].began <= Expiry
       /\ ~Active => since(ended)
       /\ link # None => \A f \in Differs(job[r].on, link.on) : since(changed[f])

\* A view that was counted gets its page, whatever the trade history does,
\* unless the process died, the profile was deleted meanwhile or the portfolio
\* could not be priced for an answer that is not of its form.
CountedIsShown == \A r \in counted : pc[r] \in Over =>
    \/ pc[r] \in {"shown", "died", "broken"}
    \/ pc[r] = "notFound" /\ ~profile

\* Request q was not over before r began, nor r before q.
Overlap(q, r) == q \notin job[r].before /\ r \notin job[q].before

\* What a finished edit asked for is what the link has, unless an edit that
\* was not over before it asked for the opposite: edits of other settings never
\* undo it.
EditsStick == link # None =>
    \A r \in Req : (pc[r] = "done" /\ job[r].kind = "edit") =>
        \A s \in job[r].payload :
            \/ s.on = (s.flag \in link.on)
            \/ \E q \in Req \ {r} : /\ job[q] # None /\ q \notin job[r].before
                                    /\ [s EXCEPT !.on = ~@] \in job[q].payload

\* A follow or a join is answered with an error only when another for the same
\* row, at the same time, got it, or its own row was removed before it was read
\* again: one after the other, both succeed.
ErrorsNeedARace == \A r \in Req : (pc[r] = "failed" /\ job[r].kind = "sign") =>
    \/ r \in inserted \ rows
    \/ \E q \in inserted \ {r} : job[q].key = job[r].key /\ Overlap(q, r)
=============================================================================

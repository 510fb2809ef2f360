------------------------ MODULE PortfolioCacheProofs ------------------------
(***************************************************************************)
(* Theorems about PortfolioCache, for every set of venues, every number of *)
(* requests and of handlers at once, every time to live and every          *)
(* combination of faults.                                                  *)
(***************************************************************************)
EXTENDS PortfolioCache, FiniteSetTheorems, TLAPS

\* The initial state satisfies the inductive invariant.
LEMMA InitFreshness == Init => Freshness
BY NoneIsNothing DEF Init, Freshness, TypeOK, HeldInv, EntryInv, Running, Over

\* A venue that was connected at some moment from t on stays such a venue: its
\* removal is dated, and dates only move forward.
LEMMA StaysConnected ==
    ASSUME TypeOK, [Next]_vars, NEW v \in Venue, NEW t \in Nat, t <= clock,
           ConnectedSince(v, t)
    PROVE  ConnectedSince(v, t)'
<1> USE NoneIsNothing DEF TypeOK, ConnectedSince
<1>1. ASSUME NEW w \in Venue, ConnectVenue(w) \/ DisconnectVenue(w)
      PROVE  ConnectedSince(v, t)'
  BY <1>1 DEF ConnectVenue, DisconnectVenue
<1>2. CASE DeleteProfile
  BY <1>2 DEF DeleteProfile
<1>3. CASE keys' = keys /\ gone' = gone
  BY <1>3
<1>4. ASSUME NEW r \in Req,
             (\E c \in Caller : Begin(r, c)) \/ Advance(r) \/ Crash(r)
      PROVE  keys' = keys /\ gone' = gone
  BY <1>4 DEF Begin, Advance, Crash, CacheHit, CacheMiss, CacheUnreadable, FetchBalances,
              PriceBalances, PricesRaise, SnapshotIsRecent, SnapshotIsDue, WriteSnapshot,
              SnapshotFails, StoreCache, StoreFails, dbVars
<1>5. CASE Tick \/ UNCHANGED vars
  BY <1>3, <1>5 DEF Tick, vars
<1>6. QED
  BY <1>1, <1>2, <1>3, <1>4, <1>5 DEF Next, OwnerStep

\* Where a running handler stands and what it holds.
LEMMA RunningJob ==
    ASSUME Freshness, NEW r \in Req, pc[r] \in Running
    PROVE  /\ job[r] \in Job /\ job[r].began \in Nat
           /\ job[r].keys \subseteq Venue /\ job[r].venues \subseteq job[r].keys
           /\ Fetched(r) \in Portfolio
BY DEF Freshness, TypeOK, HeldInv, Job, Fetched, Portfolio

\* What Finish does, whichever way it goes.
LEMMA FinishEffect ==
    ASSUME Freshness, NEW r \in Req, pc[r] \in Running, Finish(r)
    PROVE  \/ /\ pc' = [pc EXCEPT ![r] = "store"] /\ job' = job /\ answer' = answer
           \/ /\ pc' = [pc EXCEPT ![r] = "done"] /\ job' = [job EXCEPT ![r] = None]
              /\ answer' = [answer EXCEPT ![r] = Fetched(r)]
BY DEF Finish, Give, Goto

\* A handler that only moves on, or returns a portfolio, keeps the types of
\* its place, its variables and its answer, and its agreement with the clock.
LEMMA MoveOn ==
    ASSUME Freshness, NEW r \in Req, pc[r] \in Running, dbVars' = dbVars,
           \/ \E place \in Running :
                 /\ pc' = [pc EXCEPT ![r] = place]
                 /\ answer' = answer
                 /\ \/ job' = job
                    \/ job' = [job EXCEPT ![r].redis = FALSE]
                    \/ \E S \in SUBSET job[r].keys : job' = [job EXCEPT ![r].venues = S]
           \/ /\ pc' = [pc EXCEPT ![r] = "done"] /\ job' = [job EXCEPT ![r] = None]
              /\ \E data \in Portfolio : answer' = [answer EXCEPT ![r] = data]
           \/ /\ pc' = [pc EXCEPT ![r] = "died"] /\ job' = [job EXCEPT ![r] = None]
              /\ answer' = answer
           \/ /\ pc' = [pc EXCEPT ![r] = "broken"] /\ job' = [job EXCEPT ![r] = None]
              /\ answer' = answer
    PROVE  /\ pc' \in [Req -> {"idle"} \cup Running \cup Over]
           /\ job' \in [Req -> Job \cup {None}]
           /\ answer' \in [Req -> Portfolio \cup {None}]
           /\ HeldInv'
<1> USE NoneIsNothing DEF Freshness, TypeOK
<1>1. job[r] \in Job /\ job[r].keys \subseteq Venue /\ None \notin Job
  BY RunningJob DEF Portfolio, Entry, Snapshot
<1>2. UNCHANGED <<clock, keys, gone>>
  BY DEF dbVars
<1>3. ASSUME NEW place \in Running, pc' = [pc EXCEPT ![r] = place], answer' = answer,
             NEW j \in Job, job' = [job EXCEPT ![r] = j],
             j.began = job[r].began, j.keys = job[r].keys, j.venues \subseteq j.keys
      PROVE  /\ pc' \in [Req -> {"idle"} \cup Running \cup Over]
             /\ job' \in [Req -> Job \cup {None}]
             /\ answer' \in [Req -> Portfolio \cup {None}]
             /\ HeldInv'
  <2>1. /\ pc' \in [Req -> {"idle"} \cup Running \cup Over]
        /\ job' \in [Req -> Job \cup {None}]
        /\ answer' \in [Req -> Portfolio \cup {None}]
    BY <1>3
  <2>2. /\ pc'[r] = place /\ job'[r] = j /\ j # None
        /\ \A x \in Req \ {r} : pc'[x] = pc[x] /\ job'[x] = job[x]
    BY <1>1, <1>3
  <2>3. HeldInv'
    BY <1>2, <1>3, <2>2 DEF HeldInv, ConnectedSince, Running
  <2>4. QED
    BY <2>1, <2>3
<1>4. ASSUME NEW place \in Running, pc' = [pc EXCEPT ![r] = place], answer' = answer,
             \/ job' = job
             \/ job' = [job EXCEPT ![r].redis = FALSE]
             \/ \E S \in SUBSET job[r].keys : job' = [job EXCEPT ![r].venues = S]
      PROVE  /\ pc' \in [Req -> {"idle"} \cup Running \cup Over]
             /\ job' \in [Req -> Job \cup {None}]
             /\ answer' \in [Req -> Portfolio \cup {None}]
             /\ HeldInv'
  <2>1. CASE job' = job
    <3>1. job' = [job EXCEPT ![r] = job[r]]
      BY <2>1
    <3>2. QED
      BY <1>1, <1>3, <1>4, <3>1, RunningJob
  <2>2. CASE job' = [job EXCEPT ![r].redis = FALSE]
    <3> DEFINE j == [job[r] EXCEPT !.redis = FALSE]
    <3>1. /\ j \in Job /\ j.began = job[r].began /\ j.keys = job[r].keys
          /\ j.venues \subseteq j.keys
      BY <1>1, RunningJob DEF Job
    <3>2. job' = [job EXCEPT ![r] = j]
      BY <2>2
    <3> HIDE DEF j
    <3>3. QED
      BY <1>3, <1>4, <3>1, <3>2
  <2>3. ASSUME NEW S \in SUBSET job[r].keys, job' = [job EXCEPT ![r].venues = S]
        PROVE  /\ pc' \in [Req -> {"idle"} \cup Running \cup Over]
               /\ job' \in [Req -> Job \cup {None}]
               /\ answer' \in [Req -> Portfolio \cup {None}]
               /\ HeldInv'
    <3> DEFINE j == [job[r] EXCEPT !.venues = S]
    <3>1. /\ j \in Job /\ j.began = job[r].began /\ j.keys = job[r].keys
          /\ j.venues \subseteq j.keys
      BY <1>1 DEF Job
    <3>2. job' = [job EXCEPT ![r] = j]
      BY <2>3
    <3> HIDE DEF j
    <3>3. QED
      BY <1>3, <1>4, <3>1, <3>2
  <2>4. QED
    BY <1>4, <2>1, <2>2, <2>3
<1>5. ASSUME NEW place \in Over, pc' = [pc EXCEPT ![r] = place],
             job' = [job EXCEPT ![r] = None],
             \/ answer' = answer
             \/ place = "done" /\ \E data \in Portfolio : answer' = [answer EXCEPT ![r] = data]
      PROVE  /\ pc' \in [Req -> {"idle"} \cup Running \cup Over]
             /\ job' \in [Req -> Job \cup {None}]
             /\ answer' \in [Req -> Portfolio \cup {None}]
             /\ HeldInv'
  <2>1. /\ pc' \in [Req -> {"idle"} \cup Running \cup Over]
        /\ job' \in [Req -> Job \cup {None}]
        /\ answer' \in [Req -> Portfolio \cup {None}]
    BY <1>5
  <2>2. /\ pc'[r] \in Over /\ pc'[r] # "idle"
        /\ pc'[r] \in {"died", "broken"} => answer'[r] = None
        /\ \A x \in Req \ {r} : pc'[x] = pc[x] /\ job'[x] = job[x] /\ answer'[x] = answer[x]
    BY <1>5 DEF Over, HeldInv
  <2>3. HeldInv'
    BY <1>2, <2>2 DEF HeldInv, ConnectedSince, Running, Over
  <2>4. QED
    BY <2>1, <2>3
<1>6. QED
  BY <1>4, <1>5 DEF Over

\* Every request's own step preserves the invariant.
LEMMA AdvanceFresh ==
    ASSUME Freshness, NEW r \in Req, Advance(r) \/ Crash(r)
    PROVE  Freshness'
<1> USE NoneIsNothing
<1>1. pc[r] \in Running /\ dbVars' = dbVars
  BY DEF Advance, Crash, CacheHit, CacheMiss, CacheUnreadable, FetchBalances,
         PriceBalances, PricesRaise, SnapshotIsRecent, SnapshotIsDue, WriteSnapshot,
         SnapshotFails, StoreCache, StoreFails, Running, dbVars
<1>2. Fetched(r) \in Portfolio
  BY <1>1, RunningJob
<1>3. /\ pc' \in [Req -> {"idle"} \cup Running \cup Over]
      /\ job' \in [Req -> Job \cup {None}]
      /\ answer' \in [Req -> Portfolio \cup {None}]
      /\ HeldInv'
  <2>1. CASE CacheHit(r)
    <3>1. cache.data \in Portfolio
      BY <2>1 DEF CacheHit, LiveEntry, Freshness, TypeOK, Entry
    <3>2. QED
      BY <1>1, <2>1, <3>1, MoveOn DEF CacheHit, Give, Goto
  <2>2. CASE CacheMiss(r) \/ CacheUnreadable(r) \/ SnapshotIsDue(r)
    BY <1>1, <2>2, MoveOn DEF CacheMiss, CacheUnreadable, SnapshotIsDue, Goto, Running
  <2>3. ASSUME NEW S \in SUBSET Venue, FetchBalances(r, S)
        PROVE  \E T \in SUBSET job[r].keys :
                  /\ job' = [job EXCEPT ![r].venues = T]
                  /\ pc' = [pc EXCEPT ![r] = "priced"] /\ answer' = answer
    BY <2>3 DEF FetchBalances, Goto
  <2>4. CASE \E S \in SUBSET Venue : FetchBalances(r, S)
    BY <1>1, <2>3, <2>4, MoveOn DEF Running
  <2>5. CASE Finish(r)
    BY <1>1, <1>2, <2>5, FinishEffect, MoveOn DEF Running
  <2>6. CASE PriceBalances(r)
    BY <1>1, <2>5, <2>6, MoveOn DEF PriceBalances, Goto, Running
  <2>7. CASE SnapshotIsRecent(r) \/ WriteSnapshot(r) \/ SnapshotFails(r)
    BY <2>5, <2>7 DEF SnapshotIsRecent, WriteSnapshot, SnapshotFails
  <2>8. CASE StoreCache(r) \/ StoreFails(r)
    BY <1>1, <1>2, <2>8, MoveOn DEF StoreCache, StoreFails, Give, Goto
  <2>9. CASE PricesRaise(r) \/ Crash(r)
    BY <1>1, <2>9, MoveOn DEF PricesRaise, Crash, Goto
  <2>10. QED
    BY <2>1, <2>2, <2>4, <2>6, <2>7, <2>8, <2>9 DEF Advance
<1>4. snapshot' \in [Req -> Snapshot \cup {None}]
  <2>1. CASE WriteSnapshot(r)
    <3>1. [createdAt |-> job[r].began] \in Snapshot
      BY <1>1, RunningJob DEF Snapshot
    <3>2. QED
      BY <2>1, <3>1 DEF WriteSnapshot, Freshness, TypeOK
  <2>2. CASE snapshot' = snapshot
    BY <2>2 DEF Freshness, TypeOK
  <2>3. QED
    BY <2>1, <2>2
    DEF Advance, Crash, CacheHit, CacheMiss, CacheUnreadable, FetchBalances,
        PriceBalances, PricesRaise, SnapshotIsRecent, SnapshotIsDue, SnapshotFails,
        StoreCache, StoreFails
<1>5. cache' \in Entry \cup {None} /\ EntryInv'
  <2>1. CASE StoreCache(r)
    <3>1. cache' = [data |-> Fetched(r), stored |-> clock]
      BY <2>1 DEF StoreCache
    <3>2. /\ job[r].began \in Nat /\ job[r].began <= clock
          /\ clock <= job[r].began + MaxHandler
          /\ \A v \in job[r].venues : ConnectedSince(v, job[r].began)
      BY <1>1, RunningJob DEF Freshness, HeldInv
    <3>3. cache' \in Entry
      BY <1>2, <3>1 DEF Entry, Freshness, TypeOK
    <3>4. EntryInv'
      BY <1>1, <3>1, <3>2 DEF EntryInv, Fetched, dbVars, ConnectedSince, Freshness, TypeOK
    <3>5. QED
      BY <3>3, <3>4
  <2>2. CASE cache' = cache
    BY <1>1, <2>2 DEF Freshness, TypeOK, EntryInv, dbVars, ConnectedSince
  <2>3. QED
    BY <2>1, <2>2
    DEF Advance, Crash, CacheHit, CacheMiss, CacheUnreadable, FetchBalances,
        PriceBalances, PricesRaise, SnapshotIsRecent, SnapshotIsDue, WriteSnapshot,
        SnapshotFails, StoreFails
<1>6. QED
  BY <1>1, <1>3, <1>4, <1>5 DEF Freshness, TypeOK, dbVars

\* Every step preserves the invariant.
LEMMA StepFreshness == Freshness /\ [Next]_vars => Freshness'
<1> SUFFICES ASSUME Freshness, [Next]_vars PROVE Freshness'
  OBVIOUS
<1> USE NoneIsNothing DEF Freshness
<1>1. ASSUME UNCHANGED <<cache, pc, job, answer>>, clock' = clock, TypeOK'
      PROVE  Freshness'
  <2>1. \A r \in Req : pc[r] \in Running =>
           \A v \in job[r].keys : ConnectedSince(v, job[r].began)'
    <3>1. ASSUME NEW r \in Req, pc[r] \in Running, NEW v \in job[r].keys
          PROVE  ConnectedSince(v, job[r].began)'
      <4>1. /\ v \in Venue /\ job[r].began \in Nat /\ job[r].began <= clock
            /\ ConnectedSince(v, job[r].began)
        BY <3>1, RunningJob DEF HeldInv
      <4>2. QED
        BY <1>1, <4>1, StaysConnected DEF ConnectedSince
    <3>2. QED
      BY <3>1
  <2>2. HeldInv'
    BY <1>1, <2>1 DEF HeldInv, ConnectedSince
  <2>3. EntryInv'
    <3>1. ASSUME cache # None, NEW v \in cache.data.venues
          PROVE  ConnectedSince(v, cache.data.readAt)'
      <4>1. /\ v \in Venue /\ cache.data.readAt \in Nat /\ cache.data.readAt <= clock
            /\ ConnectedSince(v, cache.data.readAt)
        BY <3>1 DEF TypeOK, EntryInv, Entry, Portfolio
      <4>2. QED
        BY <1>1, <4>1, StaysConnected DEF ConnectedSince
    <3>2. QED
      BY <1>1, <3>1 DEF EntryInv, ConnectedSince
  <2>4. QED
    BY <1>1, <2>2, <2>3
<1>2. CASE OwnerStep
  <2>1. UNCHANGED <<cache, pc, job, answer>> /\ clock' = clock
    BY <1>2 DEF OwnerStep, ConnectVenue, DisconnectVenue, DeleteProfile
  <2>2. TypeOK'
    <3>1. /\ clock' \in Nat /\ cache' \in Entry \cup {None}
          /\ pc' \in [Req -> {"idle"} \cup Running \cup Over]
          /\ job' \in [Req -> Job \cup {None}] /\ answer' \in [Req -> Portfolio \cup {None}]
      BY <2>1 DEF TypeOK
    <3>2. CASE \E v \in Venue : ConnectVenue(v) \/ DisconnectVenue(v)
      <4>1. PICK v \in Venue : ConnectVenue(v) \/ DisconnectVenue(v)
        BY <3>2
      <4>2. /\ exists' = exists /\ snapshot' = snapshot /\ keys' \in {keys \cup {v}, keys \ {v}}
            /\ gone' \in {gone, [gone EXCEPT ![v] = clock]}
        BY <4>1 DEF ConnectVenue, DisconnectVenue
      <4>3. exists' \in BOOLEAN /\ keys' \subseteq Venue /\ gone' \in [Venue -> Nat \cup {None}]
        BY <4>2 DEF TypeOK
      <4>4. QED
        BY <3>1, <4>2, <4>3 DEF TypeOK
    <3>3. CASE DeleteProfile
      <4>1. /\ exists' \in BOOLEAN /\ keys' \subseteq Venue
            /\ gone' \in [Venue -> Nat \cup {None}] /\ snapshot' \in [Req -> Snapshot \cup {None}]
        BY <3>3 DEF DeleteProfile, TypeOK
      <4>2. QED
        BY <3>1, <4>1 DEF TypeOK
    <3>4. QED
      BY <1>2, <3>2, <3>3 DEF OwnerStep
  <2>3. QED
    BY <1>1, <2>1, <2>2
<1>3. ASSUME NEW r \in Req, NEW c \in Caller, Begin(r, c)
      PROVE  Freshness'
  <2> DEFINE new == [began |-> clock, history |-> c = "profile", redis |-> c # "share",
                     keys |-> keys, venues |-> {}]
  <2>1. new \in Job /\ new.began = clock /\ new.keys = keys /\ new.venues = {}
    BY DEF Job, TypeOK
  <2>2. None \notin Job
    BY DEF Job, Portfolio, Entry, Snapshot
  <2> DEFINE first == IF c = "share" THEN "fetch" ELSE "lookup"
  <2>3. /\ pc' = [pc EXCEPT ![r] = first] /\ job' = [job EXCEPT ![r] = new]
        /\ pc[r] = "idle" /\ UNCHANGED <<clock, exists, keys, gone, cache, snapshot, answer>>
    BY <1>3 DEF Begin, Goto, dbVars
  <2>3a. first \in Running
    BY DEF Running
  <2> HIDE DEF new, first
  <2>4. TypeOK'
    <3>1. /\ pc' \in [Req -> {"idle"} \cup Running \cup Over]
          /\ job' \in [Req -> Job \cup {None}]
      BY <2>3a, <2>1, <2>3 DEF TypeOK
    <3>2. QED
      BY <2>3, <3>1 DEF TypeOK
  <2>5. /\ pc'[r] = first /\ job'[r] = new /\ new # None /\ answer[r] = None
        /\ \A x \in Req \ {r} : pc'[x] = pc[x] /\ job'[x] = job[x]
    BY <2>1, <2>2, <2>3 DEF TypeOK, HeldInv
  <2>6. clock <= clock + MaxHandler
    BY PortfolioAssumption DEF TypeOK
  <2>7. HeldInv'
    BY <2>3a, <2>1, <2>3, <2>5, <2>6 DEF HeldInv, ConnectedSince, TypeOK, Running
  <2>8. EntryInv'
    BY <2>3 DEF EntryInv, ConnectedSince
  <2>9. QED
    BY <2>4, <2>7, <2>8
<1>4. CASE Tick
  <2>1. /\ clock' = clock + 1 /\ UNCHANGED <<exists, keys, gone, cache, snapshot, pc, job, answer>>
        /\ \A r \in Req : pc[r] \in Running => clock < job[r].began + MaxHandler
    BY <1>4 DEF Tick, InFlight
  <2>2. TypeOK'
    BY <2>1 DEF TypeOK
  <2>3. ASSUME NEW r \in Req, pc[r] \in Running
        PROVE  job[r].began <= clock + 1 /\ clock + 1 <= job[r].began + MaxHandler
    BY <2>1, <2>3, RunningJob, PortfolioAssumption DEF HeldInv, TypeOK
  <2>4. HeldInv'
    BY <2>1, <2>3 DEF HeldInv, ConnectedSince
  <2>5. EntryInv'
    BY <2>1 DEF EntryInv, ConnectedSince, TypeOK, Entry, Portfolio
  <2>6. QED
    BY <2>2, <2>4, <2>5
<1>5. CASE UNCHANGED vars
  BY <1>5 DEF vars, TypeOK, HeldInv, EntryInv, ConnectedSince
<1>6. QED
  BY <1>2, <1>3, <1>4, <1>5, AdvanceFresh DEF Next

\* In every state, what the running handlers and the cache hold shows only
\* venues that were connected when it was read.
THEOREM FreshnessHolds == Spec => []Freshness
BY InitFreshness, StepFreshness, PTL DEF Spec

\* No answer shows a venue that was disconnected longer ago than the life of
\* an entry and the handler that stored it.
THEOREM FreshAnswers == Spec => AnswersAreFresh
<1>1. ASSUME Freshness, [Next]_vars, NEW r \in Req, Answers(r)
      PROVE  /\ clock < answer'[r].readAt + CacheTTL + MaxHandler
             /\ \A v \in answer'[r].venues :
                   ConnectedSince(v, clock - CacheTTL - MaxHandler + 1)
  <2> USE <1>1, PortfolioAssumption, NoneIsNothing DEF Freshness, TypeOK
  <2>1. Advance(r)
    <3>1. PICK q \in Req : Advance(q)
      BY DEF Next, OwnerStep, ConnectVenue, DisconnectVenue, DeleteProfile,
             Begin, Crash, Tick, vars, Answers
    <3>2. \A x \in Req \ {q} : answer'[x] = answer[x]
      BY <3>1 DEF Advance, CacheHit, CacheMiss, CacheUnreadable, FetchBalances,
                  PriceBalances, PricesRaise, SnapshotIsRecent, SnapshotIsDue, WriteSnapshot,
                  SnapshotFails, StoreCache, StoreFails, Finish, Give
    <3>3. QED
      BY <3>1, <3>2 DEF Answers
  <2>2. ASSUME NEW data \in Portfolio, answer'[r] = data,
               clock < data.readAt + CacheTTL + MaxHandler,
               \A v \in data.venues : ConnectedSince(v, data.readAt)
        PROVE  /\ clock < answer'[r].readAt + CacheTTL + MaxHandler
               /\ \A v \in answer'[r].venues :
                     ConnectedSince(v, clock - CacheTTL - MaxHandler + 1)
    BY <2>2 DEF ConnectedSince, Portfolio
  <2>3. CASE CacheHit(r)
    <3>1. answer'[r] = cache.data /\ cache # None /\ clock < cache.stored + CacheTTL
      BY <2>3 DEF CacheHit, LiveEntry, Give
    <3>2. cache.data \in Portfolio /\ cache.data.readAt \in Nat /\ cache.stored \in Nat
      BY <3>1 DEF Entry, Portfolio
    <3>3. clock < cache.data.readAt + CacheTTL + MaxHandler
      BY <3>1, <3>2 DEF EntryInv
    <3>4. QED
      BY <2>2, <3>1, <3>2, <3>3 DEF EntryInv
  <2>4. CASE ~CacheHit(r)
    <3>1. pc[r] \in Running
      BY <2>1 DEF Advance, CacheHit, CacheMiss, CacheUnreadable, FetchBalances,
                  PriceBalances, PricesRaise, SnapshotIsRecent, SnapshotIsDue, WriteSnapshot,
                  SnapshotFails, StoreCache, StoreFails, Running
    <3>2. answer'[r] = Fetched(r)
      BY <2>1, <2>4 DEF Advance, CacheMiss, CacheUnreadable, FetchBalances,
                  PriceBalances, PricesRaise, SnapshotIsRecent, SnapshotIsDue, WriteSnapshot,
                  SnapshotFails, StoreCache, StoreFails, Finish, Give, Answers
    <3>3. /\ Fetched(r) \in Portfolio /\ Fetched(r).readAt = job[r].began
          /\ Fetched(r).venues \subseteq job[r].keys /\ job[r].began \in Nat
      BY <3>1, RunningJob DEF Fetched
    <3>4. clock < Fetched(r).readAt + CacheTTL + MaxHandler
      BY <3>1, <3>3 DEF HeldInv
    <3>5. QED
      BY <2>2, <3>1, <3>2, <3>3, <3>4 DEF HeldInv
  <2>5. QED
    BY <2>3, <2>4
<1>2. Freshness /\ [Next]_vars =>
        [\A r \in Req : Answers(r) =>
            /\ clock < answer'[r].readAt + CacheTTL + MaxHandler
            /\ \A v \in answer'[r].venues :
                  ConnectedSince(v, clock - CacheTTL - MaxHandler + 1)]_vars
  BY <1>1
<1>3. QED
  BY <1>2, FreshnessHolds, PTL DEF Spec, AnswersAreFresh

-----------------------------------------------------------------------------
(* A handler that is done has answered.                                    *)

\* A step ends a handler only with a portfolio.
LEMMA StepAbsorbs == Freshness /\ FaultsAreAbsorbed /\ [Next]_vars => FaultsAreAbsorbed'
<1> SUFFICES ASSUME Freshness, FaultsAreAbsorbed, [Next]_vars,
                    NEW q \in Req, pc'[q] = "done"
             PROVE  answer'[q] # None
  BY DEF FaultsAreAbsorbed
<1> USE NoneIsNothing DEF Freshness, TypeOK
<1>1. CASE UNCHANGED <<pc, answer>>
  BY <1>1 DEF FaultsAreAbsorbed
<1>2. ASSUME NEW r \in Req, NEW c \in Caller, Begin(r, c)
      PROVE  answer'[q] # None
  BY <1>2 DEF Begin, Goto, FaultsAreAbsorbed
<1>3. ASSUME NEW r \in Req, Crash(r)
      PROVE  answer'[q] # None
  BY <1>3 DEF Crash, Goto, FaultsAreAbsorbed
<1>4. ASSUME NEW r \in Req, Advance(r)
      PROVE  answer'[q] # None
  <2>1. \/ /\ \E place \in Running : pc' = [pc EXCEPT ![r] = place]
           /\ answer' = answer
        \/ \E portfolio \in Portfolio : Give(r, portfolio)
        \/ pc' = [pc EXCEPT ![r] = "broken"] /\ answer' = answer
    <3>1. pc[r] \in Running
      BY <1>4 DEF Advance, CacheHit, CacheMiss, CacheUnreadable, FetchBalances,
                  PriceBalances, PricesRaise, SnapshotIsRecent, SnapshotIsDue, WriteSnapshot,
                  SnapshotFails, StoreCache, StoreFails, Running
    <3>2. Fetched(r) \in Portfolio
      BY <3>1, RunningJob
    <3>3. CacheHit(r) => cache.data \in Portfolio
      BY DEF CacheHit, LiveEntry, Entry
    <3>4. QED
      BY <1>4, <3>2, <3>3 DEF Advance, CacheHit, CacheMiss, CacheUnreadable, FetchBalances,
                  PriceBalances, PricesRaise, SnapshotIsRecent, SnapshotIsDue, WriteSnapshot,
                  SnapshotFails, StoreCache, StoreFails, Finish, Goto, Running
  <2>2. CASE \E place \in Running : pc' = [pc EXCEPT ![r] = place] /\ answer' = answer
    BY <2>2 DEF Running, FaultsAreAbsorbed
  <2>3. CASE \E portfolio \in Portfolio : Give(r, portfolio)
    BY <2>3 DEF Give, Goto, FaultsAreAbsorbed
  <2>4. CASE pc' = [pc EXCEPT ![r] = "broken"] /\ answer' = answer
    BY <2>4 DEF FaultsAreAbsorbed
  <2>5. QED
    BY <2>1, <2>2, <2>3, <2>4
<1>5. QED
  BY <1>1, <1>2, <1>3, <1>4 DEF Next, OwnerStep, ConnectVenue, DisconnectVenue,
     DeleteProfile, Tick, vars

\* No fault of Redis, of a venue or of the database takes the answer from a
\* handler whose process lives, unless its prices came in an answer not of its form.
THEOREM AbsorbedTheorem == Spec => []FaultsAreAbsorbed
<1>1. Init => FaultsAreAbsorbed
  BY DEF Init, FaultsAreAbsorbed
<1>2. QED
  BY <1>1, StepAbsorbs, FreshnessHolds, PTL DEF Spec

-----------------------------------------------------------------------------
(* The snapshots of an hour.                                               *)

\* The requests handled at once.
FlightInv == IsFiniteSet(InFlight) /\ Cardinality(InFlight) <= MaxInFlight

Hour(a) == a..(a + Throttle - MaxHandler)

\* The requests that have a row of the hour from a on, or are about to write one.
Claims(a) == {r \in Req : \/ snapshot[r] # None /\ snapshot[r].createdAt \in Hour(a)
                          \/ pc[r] = "write" /\ job[r].began \in Hour(a)}

ClaimsInv == \A a \in Nat : IsFiniteSet(Claims(a)) /\ Cardinality(Claims(a)) <= MaxInFlight

LEMMA InitClaims == Init => FlightInv /\ ClaimsInv
<1> SUFFICES ASSUME Init PROVE FlightInv /\ ClaimsInv
  OBVIOUS
<1>1. InFlight = {} /\ \A a \in Nat : Claims(a) = {}
  BY DEF Init, InFlight, Claims, Running
<1>2. QED
  BY <1>1, FS_EmptySet, PortfolioAssumption DEF FlightInv, ClaimsInv

\* A request begins only where there is room for one more.
LEMMA StepFlight == Freshness /\ FlightInv /\ [Next]_vars => FlightInv'
<1> SUFFICES ASSUME Freshness, FlightInv, [Next]_vars PROVE FlightInv'
  OBVIOUS
<1>1. Cardinality(InFlight) \in Nat
  BY FS_CardinalityType DEF FlightInv
<1>2. CASE InFlight' \subseteq InFlight
  <2>1. IsFiniteSet(InFlight') /\ Cardinality(InFlight') <= Cardinality(InFlight)
    BY <1>2, FS_Subset DEF FlightInv
  <2>2. Cardinality(InFlight') \in Nat
    BY <2>1, FS_CardinalityType
  <2>3. QED
    BY <1>1, <2>1, <2>2, PortfolioAssumption DEF FlightInv
<1>3. ASSUME NEW r \in Req, NEW c \in Caller, Begin(r, c)
      PROVE  FlightInv'
  <2>1. InFlight' = InFlight \cup {r} /\ Cardinality(InFlight) < MaxInFlight
    BY <1>3 DEF Begin, Goto, InFlight, Running, Freshness, TypeOK
  <2>2. IsFiniteSet(InFlight') /\ Cardinality(InFlight') <= Cardinality(InFlight) + 1
    BY <1>1, <2>1, FS_AddElement DEF FlightInv
  <2>3. Cardinality(InFlight') \in Nat
    BY <2>2, FS_CardinalityType
  <2>4. QED
    BY <1>1, <2>1, <2>2, <2>3, PortfolioAssumption DEF FlightInv
<1>4. ASSUME NEW r \in Req, Advance(r) \/ Crash(r)
      PROVE  InFlight' \subseteq InFlight
  <2>1. /\ pc[r] \in Running
        /\ \A q \in Req : q # r => pc'[q] = pc[q]
    BY <1>4 DEF Advance, Crash, CacheHit, CacheMiss, CacheUnreadable, FetchBalances,
       PriceBalances, PricesRaise, SnapshotIsRecent, SnapshotIsDue, WriteSnapshot, SnapshotFails,
       StoreCache, StoreFails, Finish, Give, Goto, Running, Freshness, TypeOK
  <2>2. QED
    BY <2>1 DEF InFlight
<1>5. CASE pc' = pc
  BY <1>2, <1>5 DEF InFlight
<1>6. QED
  BY <1>2, <1>3, <1>4, <1>5 DEF Next, OwnerStep, ConnectVenue, DisconnectVenue,
     DeleteProfile, Tick, vars

\* A handler about to write has found no row of its hour: those that claim one
\* are all in flight.  Nothing else adds a claim.
LEMMA StepClaims == Freshness /\ FlightInv /\ ClaimsInv /\ [Next]_vars => ClaimsInv'
<1> SUFFICES ASSUME Freshness, FlightInv, ClaimsInv, [Next]_vars, NEW a \in Nat
             PROVE  IsFiniteSet(Claims(a)') /\ Cardinality(Claims(a)') <= MaxInFlight
  BY DEF ClaimsInv
<1> USE PortfolioAssumption, NoneIsNothing DEF Freshness, TypeOK
<1>1. ASSUME NEW S, IsFiniteSet(S), Cardinality(S) <= MaxInFlight, Claims(a)' \subseteq S
      PROVE  IsFiniteSet(Claims(a)') /\ Cardinality(Claims(a)') <= MaxInFlight
  <2>1. IsFiniteSet(Claims(a)') /\ Cardinality(Claims(a)') <= Cardinality(S)
    BY <1>1, FS_Subset
  <2>2. Cardinality(Claims(a)') \in Nat /\ Cardinality(S) \in Nat
    BY <1>1, <2>1, FS_CardinalityType
  <2>3. QED
    BY <1>1, <2>1, <2>2
<1>2. CASE Claims(a)' \subseteq Claims(a)
  BY <1>1, <1>2 DEF ClaimsInv
<1>3. ASSUME NEW r \in Req, SnapshotIsDue(r), job[r].began \in Hour(a)
      PROVE  Claims(a)' \subseteq InFlight
  <2>1. /\ pc[r] = "recent" /\ pc' = [pc EXCEPT ![r] = "write"]
        /\ UNCHANGED <<clock, snapshot, job>>
    BY <1>3 DEF SnapshotIsDue, Goto, dbVars
  <2>2. clock <= job[r].began + MaxHandler /\ job[r].began \in Nat
    BY <2>1, RunningJob DEF HeldInv, Running
  <2>3. ASSUME NEW q \in Req, snapshot[q] # None
        PROVE  snapshot[q].createdAt \notin Hour(a)
    <3>1. snapshot[q].createdAt \in Nat
      BY <2>3 DEF Snapshot
    <3>2. snapshot[q].createdAt < clock - Throttle
      BY <1>3, <2>3, <3>1 DEF SnapshotIsDue, Recently
    <3>3. clock - Throttle <= a
      BY <1>3, <2>2 DEF Hour
    <3>4. QED
      BY <3>1, <3>2, <3>3 DEF Hour
  <2>4. QED
    BY <2>1, <2>3 DEF Claims, InFlight, Running
<1>4. ASSUME NEW r \in Req, SnapshotIsDue(r), job[r].began \notin Hour(a)
      PROVE  Claims(a)' \subseteq Claims(a)
  BY <1>4 DEF SnapshotIsDue, Goto, Claims
<1>5. ASSUME NEW r \in Req, WriteSnapshot(r)
      PROVE  Claims(a)' \subseteq Claims(a)
  <2>1. /\ pc[r] = "write" /\ pc'[r] # "write"
        /\ \A q \in Req : q # r => pc'[q] = pc[q] /\ job'[q] = job[q] /\ snapshot'[q] = snapshot[q]
        /\ \/ snapshot' = snapshot
           \/ snapshot'[r].createdAt = job[r].began
    BY <1>5 DEF WriteSnapshot, Finish, Give, Goto
  <2>2. QED
    BY <2>1 DEF Claims
<1>6. ASSUME NEW r \in Req, (Advance(r) /\ ~SnapshotIsDue(r) /\ ~WriteSnapshot(r)) \/ Crash(r)
      PROVE  Claims(a)' \subseteq Claims(a)
  <2>1. /\ pc'[r] # "write" /\ snapshot' = snapshot
        /\ \A q \in Req : q # r => pc'[q] = pc[q] /\ job'[q] = job[q]
    BY <1>6 DEF Advance, Crash, CacheHit, CacheMiss, CacheUnreadable, FetchBalances,
       PriceBalances, PricesRaise, SnapshotIsRecent, SnapshotFails,
       StoreCache, StoreFails, Finish, Give, Goto
  <2>2. QED
    BY <2>1 DEF Claims
<1>7. ASSUME NEW r \in Req, NEW c \in Caller, Begin(r, c)
      PROVE  Claims(a)' \subseteq Claims(a)
  BY <1>7 DEF Begin, Goto, Claims
<1>8. DeleteProfile => Claims(a)' \subseteq Claims(a)
  BY DEF DeleteProfile, Claims
<1>9. UNCHANGED <<snapshot, pc, job>> => Claims(a)' \subseteq Claims(a)
  BY DEF Claims
<1>10. QED
  <2>1. (\E r \in Req : SnapshotIsDue(r) /\ job[r].began \in Hour(a))
           \/ Claims(a)' \subseteq Claims(a)
    BY <1>4, <1>5, <1>6, <1>7, <1>8, <1>9 DEF Next, OwnerStep, ConnectVenue,
       DisconnectVenue, Tick, vars
  <2>2. QED
    BY <1>1, <1>2, <1>3, <2>1 DEF FlightInv

\* However requests overlap, an hour less a handler's duration has no more
\* snapshots than there are handlers at once.
THEOREM SnapshotsTheorem == Spec => []SnapshotsBounded
<1>1. Freshness /\ ClaimsInv => SnapshotsBounded
  <2> SUFFICES ASSUME Freshness, ClaimsInv, NEW a \in 0..clock
               PROVE  Cardinality({r \in Req : /\ snapshot[r] # None
                                               /\ snapshot[r].createdAt \in Hour(a)})
                         <= MaxInFlight
    BY DEF SnapshotsBounded, Hour
  <2> DEFINE Rows == {r \in Req : snapshot[r] # None /\ snapshot[r].createdAt \in Hour(a)}
  <2>1. a \in Nat
    BY DEF Freshness, TypeOK
  <2>2. Rows \subseteq Claims(a)
    BY DEF Claims
  <2>3. IsFiniteSet(Claims(a)) /\ Cardinality(Claims(a)) <= MaxInFlight
    BY <2>1 DEF ClaimsInv
  <2>4. IsFiniteSet(Rows) /\ Cardinality(Rows) <= Cardinality(Claims(a))
    BY <2>2, <2>3, FS_Subset
  <2>5. Cardinality(Rows) \in Nat /\ Cardinality(Claims(a)) \in Nat
    BY <2>3, <2>4, FS_CardinalityType
  <2>6. QED
    BY <2>3, <2>4, <2>5, PortfolioAssumption
<1>2. QED
  BY <1>1, InitClaims, StepFlight, StepClaims, FreshnessHolds, PTL DEF Spec
=============================================================================

--------------------------- MODULE CostBasisProofs ---------------------------
(***************************************************************************)
(* Theorems about the cost basis: about its caches (CostBasisCache), for   *)
(* every number of processes, requests and handlers at once, every time to *)
(* live and every combination of faults, and about the books it is one of  *)
(* (TradeBooks), for every number of orders and trades, all prices and     *)
(* amounts, every venue and every tolerance.                               *)
(*                                                                         *)
(* The position and the realized P&L are folds over sequences, so what     *)
(* they are after one row more is proved first; then each property is an   *)
(* invariant that every row keeps.  Sums of fractions are compared as      *)
(* parts of one denominator.                                               *)
(***************************************************************************)
EXTENDS CostBasisCache, TradeBooks, SequenceTheorems, WellFoundedInduction, TLAPS

-----------------------------------------------------------------------------
(* The caches. *)

\* The initial state satisfies the inductive invariant.
LEMMA InitAge == CacheInit => AgeInv
BY CostBasisAssumption, NothingIsNoValue
DEF CacheInit, AgeInv, CacheTypeOK, HandlerInv, SharedInv, MemoInv, Handling, Ended

\* The time to live of a response is a number of ticks, the same one the code
\* computes.
LEMMA LifeIsNat ==
    ASSUME NEW data \in Response
    PROVE  TTLOf(data) = Life(data) /\ Life(data) \in Nat
BY CostBasisAssumption DEF TTLOf, Life

\* Every request's own step preserves the invariant.
LEMMA AdvanceAge ==
    ASSUME AgeInv, NEW r \in Request, Advance(r)
    PROVE  AgeInv'
<1> USE CostBasisAssumption, NothingIsNoValue DEF AgeInv, CacheTypeOK
<1>1. at[r] \in Handling /\ job[r] \in Job /\ job[r].process \in Process
  BY DEF Advance, MemoHit, MemoMiss, SharedHit, SharedMiss, SharedUnreadable, Compute,
         PortfolioRaises, StoreShared, StoreFails, Handling, HandlerInv, Job
<1>2. CASE MemoHit(r)
  <2>1. memo[job[r].process] \in Entry /\ memo[job[r].process].data \in Response
    BY <1>1, <1>2 DEF MemoHit, MemoLive, Entry
  <2>2. QED
    BY <1>1, <1>2, <2>1 DEF MemoHit, Give, Goto, HandlerInv, SharedInv, MemoInv, Handling, Ended
<1>3. CASE MemoMiss(r)
  BY <1>1, <1>3 DEF MemoMiss, Goto, HandlerInv, SharedInv, MemoInv, Handling, Ended
<1>4. CASE SharedHit(r)
  <2>1. shared \in Entry /\ shared.data \in Response /\ shared.until \in Nat
    BY <1>4 DEF SharedHit, SharedLive, Entry
  <2>2. Life(shared.data) \in Nat
    BY <2>1, LifeIsNat
  <2>3. [data |-> shared.data, until |-> clock + FullTTL] \in Entry
    BY <2>1 DEF Entry
  <2>4. CacheTypeOK'
    BY <1>1, <1>4, <2>1, <2>3 DEF SharedHit, Give, Goto, Remember, Handling, Ended
  <2>5. HandlerInv'
    BY <1>1, <1>4, <2>1 DEF SharedHit, Give, Goto, HandlerInv, Handling
  <2>6. SharedInv'
    BY <1>4 DEF SharedHit, SharedInv
  <2>7. /\ shared.data.computedAt \in Nat /\ shared.data.computedAt <= clock
        /\ clock + FullTTL < shared.data.computedAt + Life(shared.data) + FullTTL + MaxHandler
    BY <1>4, <2>1, <2>2 DEF SharedHit, SharedLive, SharedInv, Response
  <2>8. MemoInv'
    BY <1>1, <1>4, <2>7 DEF SharedHit, Remember, MemoInv
  <2>9. QED
    BY <2>4, <2>5, <2>6, <2>8
<1>5. CASE SharedMiss(r) \/ SharedUnreadable(r)
  <2>1. /\ UNCHANGED <<clock, memo, shared, answer>>
        /\ at' = [at EXCEPT ![r] = "compute"]
        /\ \/ job' = job
           \/ job' = [job EXCEPT ![r].redis = FALSE]
    BY <1>5 DEF SharedMiss, SharedUnreadable, Goto
  <2> DEFINE j == [job[r] EXCEPT !.redis = FALSE]
  <2>2. j \in Job /\ j.began = job[r].began
    BY <1>1 DEF Job
  <2>3. Nothing \notin Job
    BY NothingIsNoValue
  <2>4. PICK k \in Job : job' = [job EXCEPT ![r] = k] /\ k.began = job[r].began
    <3>1. CASE job' = job
      <4>1. job' = [job EXCEPT ![r] = job[r]]
        BY <3>1
      <4>2. QED
        BY <1>1, <4>1
    <3>2. CASE job' = [job EXCEPT ![r].redis = FALSE]
      <4>1. job' = [job EXCEPT ![r] = j]
        BY <3>2
      <4>2. QED
        BY <2>2, <4>1
    <3>3. QED
      BY <2>1, <3>1, <3>2
  <2> HIDE DEF j
  <2>5. CacheTypeOK'
    BY <2>1, <2>4 DEF Handling
  <2>6. /\ at'[r] = "compute" /\ job'[r] = k /\ k # Nothing
        /\ \A x \in Request \ {r} : at'[x] = at[x] /\ job'[x] = job[x]
    BY <2>1, <2>3, <2>4
  <2>7. HandlerInv'
    BY <1>1, <2>1, <2>4, <2>6 DEF HandlerInv, Handling
  <2>8. QED
    BY <2>1, <2>5, <2>7 DEF SharedInv, MemoInv
<1>6. ASSUME NEW degraded \in BOOLEAN, Compute(r, degraded)
      PROVE  AgeInv'
  <2> DEFINE data == [computedAt |-> clock, degraded |-> degraded]
  <2>1. data \in Response
    BY DEF Response
  <2>2. TTLOf(data) = Life(data) /\ Life(data) \in Nat
    BY <2>1, LifeIsNat
  <2>3. /\ memo' = [memo EXCEPT ![job[r].process] = [data |-> data, until |-> clock + TTLOf(data)]]
        /\ UNCHANGED <<clock, shared>>
        /\ at[r] = "compute"
        /\ \/ at' = [at EXCEPT ![r] = "store"] /\ job' = [job EXCEPT ![r].made = data]
              /\ answer' = answer
           \/ at' = [at EXCEPT ![r] = "done"] /\ job' = [job EXCEPT ![r] = Nothing]
              /\ answer' = [answer EXCEPT ![r] = data]
    BY <1>6 DEF Compute, Remember, Give, Goto
  <2> HIDE DEF data
  <2>4. [data |-> data, until |-> clock + TTLOf(data)] \in Entry
    BY <2>1, <2>2 DEF Entry
  <2>5. data.computedAt = clock
    BY DEF data
  <2>6. CacheTypeOK'
    BY <1>1, <2>1, <2>3, <2>4 DEF Handling, Ended, Job
  <2>7. HandlerInv'
    BY <1>1, <2>1, <2>3, <2>5 DEF HandlerInv, Handling, Job
  <2>8. SharedInv'
    BY <2>3 DEF SharedInv
  <2>9. clock + TTLOf(data) < clock + Life(data) + FullTTL + MaxHandler
    BY <2>2
  <2>10. MemoInv'
    BY <1>1, <2>3, <2>5, <2>9 DEF MemoInv
  <2>11. QED
    BY <2>6, <2>7, <2>8, <2>10
<1>7. CASE StoreShared(r)
  <2>1. /\ job[r].made \in Response
        /\ job[r].began <= job[r].made.computedAt /\ job[r].made.computedAt <= clock
        /\ clock <= job[r].began + MaxHandler
    BY <1>1, <1>7 DEF StoreShared, HandlerInv, Job
  <2>2. TTLOf(job[r].made) = Life(job[r].made) /\ Life(job[r].made) \in Nat
    BY <2>1, LifeIsNat
  <2>3. [data |-> job[r].made, until |-> clock + TTLOf(job[r].made)] \in Entry
    BY <2>1, <2>2 DEF Entry
  <2>4. CacheTypeOK'
    BY <1>1, <1>7, <2>1, <2>3 DEF StoreShared, Give, Goto, Handling, Ended
  <2>5. HandlerInv' /\ MemoInv'
    BY <1>1, <1>7, <2>1 DEF StoreShared, Give, Goto, HandlerInv, MemoInv, Handling
  <2>6. clock + TTLOf(job[r].made) <= job[r].made.computedAt + MaxHandler + Life(job[r].made)
    BY <1>1, <2>1, <2>2 DEF Job, Response
  <2>7. SharedInv'
    BY <1>7, <2>1, <2>6 DEF StoreShared, SharedInv
  <2>8. QED
    BY <2>4, <2>5, <2>7
<1>8. CASE StoreFails(r)
  <2>1. job[r].made \in Response
    BY <1>1, <1>8 DEF StoreFails, HandlerInv, Job
  <2>2. QED
    BY <1>1, <1>8, <2>1 DEF StoreFails, Give, Goto, HandlerInv, SharedInv, MemoInv, Handling, Ended
<1>9. CASE PortfolioRaises(r)
  BY <1>1, <1>9 DEF PortfolioRaises, Goto, HandlerInv, SharedInv, MemoInv, Handling, Ended
<1>10. QED
  BY <1>2, <1>3, <1>4, <1>5, <1>6, <1>7, <1>8, <1>9 DEF Advance

\* Every step preserves the invariant.
LEMMA StepAge == AgeInv /\ [CacheNext]_cacheVars => AgeInv'
<1> SUFFICES ASSUME AgeInv, [CacheNext]_cacheVars PROVE AgeInv'
  OBVIOUS
<1> USE CostBasisAssumption, NothingIsNoValue DEF AgeInv, CacheTypeOK
<1>1. ASSUME NEW r \in Request, NEW p \in Process, BeginRead(r, p)
      PROVE  AgeInv'
  <2> DEFINE new == [process |-> p, began |-> clock, redis |-> TRUE, made |-> Nothing]
  <2>1. new \in Job /\ new # Nothing /\ new.began = clock
    <3>1. new \in Job
      BY DEF Job
    <3>2. Nothing \notin Job
      BY DEF Job
    <3>3. QED
      BY <3>1, <3>2
  <2>2. /\ at' = [at EXCEPT ![r] = "memo"] /\ job' = [job EXCEPT ![r] = new]
        /\ at[r] = "idle" /\ UNCHANGED <<clock, memo, shared, answer>>
    BY <1>1 DEF BeginRead, Goto
  <2> HIDE DEF new
  <2>3. CacheTypeOK'
    BY <2>1, <2>2 DEF Handling
  <2>4. HandlerInv'
    <3>1. answer[r] = Nothing
      BY <2>2 DEF HandlerInv
    <3>2. /\ at'[r] = "memo" /\ job'[r] = new
          /\ \A x \in Request \ {r} : at'[x] = at[x] /\ job'[x] = job[x]
      BY <2>2
    <3>3. clock <= clock + MaxHandler
      OBVIOUS
    <3>4. QED
      BY <2>1, <2>2, <3>1, <3>2, <3>3 DEF HandlerInv
  <2>5. QED
    BY <2>2, <2>3, <2>4 DEF SharedInv, MemoInv
<1>2. ASSUME NEW p \in Process, Restart(p)
      PROVE  AgeInv'
  <2>1. /\ \A q \in Process : memo'[q] = IF q = p THEN Nothing ELSE memo[q]
        /\ \A r \in Request : \/ at'[r] = at[r] /\ job'[r] = job[r]
                              \/ at'[r] = "broken" /\ job'[r] = Nothing /\ at[r] \in Handling
        /\ UNCHANGED <<clock, shared, answer>>
    BY <1>2 DEF Restart, InFlight
  <2>2. CacheTypeOK'
    BY <1>2, <2>1 DEF Restart, Ended
  <2>3. HandlerInv' /\ SharedInv' /\ MemoInv'
    BY <2>1 DEF HandlerInv, SharedInv, MemoInv, Handling
  <2>4. QED
    BY <2>2, <2>3
<1>3. CASE Tick
  <2>1. clock' = clock + 1 /\ UNCHANGED <<memo, shared, at, job, answer>>
        /\ \A r \in Request : at[r] \in Handling => clock < job[r].began + MaxHandler
    BY <1>3 DEF Tick, InFlight
  <2>2. \A r \in Request : at[r] \in Handling =>
          /\ job[r] \in Job /\ job[r].began \in Nat
          /\ at[r] = "store" => job[r].made.computedAt \in Nat
    BY DEF HandlerInv, Job, Response
  <2>3. HandlerInv'
    <3>1. ASSUME NEW r \in Request, at[r] \in Handling
          PROVE  job[r].began <= clock + 1 /\ clock + 1 <= job[r].began + MaxHandler
      BY <2>1, <2>2, <3>1 DEF HandlerInv
    <3>2. ASSUME NEW r \in Request, at[r] = "store"
          PROVE  job[r].made.computedAt <= clock + 1
      BY <2>2, <3>2 DEF HandlerInv, Handling
    <3>3. QED
      BY <2>1, <3>1, <3>2 DEF HandlerInv
  <2>4. SharedInv' /\ MemoInv'
    <3>1. /\ shared # Nothing => shared.data.computedAt \in Nat
          /\ \A p \in Process : memo[p] # Nothing => memo[p].data.computedAt \in Nat
      BY DEF Entry, Response
    <3>2. QED
      BY <2>1, <3>1 DEF SharedInv, MemoInv
  <2>5. QED
    BY <2>1, <2>3, <2>4
<1>4. CASE UNCHANGED cacheVars
  BY <1>4 DEF cacheVars, HandlerInv, SharedInv, MemoInv
<1>5. QED
  BY <1>1, <1>2, <1>3, <1>4, AdvanceAge DEF CacheNext

\* In every state, what the memos and Redis hold is within its time, whichever
\* processes computed it and passed it on.
THEOREM AgeInvariant == CacheSpec => []AgeInv
<1>1. QED
  BY InitAge, StepAge, PTL DEF CacheSpec

\* No response is older, when it is given, than its time to live in Redis and
\* a full one in a memo, and the duration of the handler that computed it.
THEOREM AgeTheorem == CacheSpec => AgeBounded
<1>1. ASSUME AgeInv, [CacheNext]_cacheVars, NEW r \in Request, Answers(r)
      PROVE  clock < answer'[r].computedAt + Life(answer'[r]) + FullTTL + MaxHandler
  <2> USE <1>1, CostBasisAssumption, NothingIsNoValue DEF AgeInv, CacheTypeOK
  <2>1. Advance(r)
    <3>1. ~UNCHANGED answer
      BY <1>1 DEF Answers
    <3>2. PICK q \in Request : Advance(q)
      BY <1>1, <3>1 DEF CacheNext, BeginRead, Restart, Tick, cacheVars
    <3>3. \A x \in Request \ {q} : answer'[x] = answer[x]
      BY <3>2 DEF Advance, MemoHit, MemoMiss, SharedHit, SharedMiss, SharedUnreadable,
                  Compute, PortfolioRaises, StoreShared, StoreFails, Give
    <3>4. QED
      BY <1>1, <3>2, <3>3 DEF Answers
  <2>2. at[r] \in Handling /\ job[r] \in Job /\ job[r].process \in Process
    BY <2>1 DEF Advance, MemoHit, MemoMiss, SharedHit, SharedMiss, SharedUnreadable, Compute,
                PortfolioRaises, StoreShared, StoreFails, Handling, HandlerInv, Job
  <2>3. CASE MemoHit(r)
    <3>1. /\ answer'[r] = memo[job[r].process].data /\ memo[job[r].process] # Nothing
          /\ memo[job[r].process] \in Entry /\ clock <= memo[job[r].process].until
      BY <2>2, <2>3 DEF MemoHit, MemoLive, Give
    <3>2. memo[job[r].process].data \in Response /\ Life(memo[job[r].process].data) \in Nat
      BY <3>1, LifeIsNat DEF Entry
    <3>3. QED
      BY <2>2, <3>1, <3>2 DEF MemoInv, Entry, Response
  <2>4. CASE SharedHit(r)
    <3>1. answer'[r] = shared.data /\ shared # Nothing /\ clock < shared.until
      BY <2>4 DEF SharedHit, SharedLive, Give
    <3>2. shared.data \in Response /\ Life(shared.data) \in Nat /\ shared.until \in Nat
      BY <3>1, LifeIsNat DEF Entry
    <3>3. QED
      BY <3>1, <3>2 DEF SharedInv, Response
  <2>5. ASSUME NEW degraded \in BOOLEAN, Compute(r, degraded)
        PROVE  clock < answer'[r].computedAt + Life(answer'[r]) + FullTTL + MaxHandler
    <3>1. answer'[r] = [computedAt |-> clock, degraded |-> degraded]
      BY <1>1, <2>5 DEF Compute, Give, Answers
    <3>2. QED
      BY <3>1 DEF Life
  <2>6. CASE StoreShared(r) \/ StoreFails(r)
    <3>1. /\ answer'[r] = job[r].made /\ job[r].made \in Response
          /\ job[r].began <= job[r].made.computedAt /\ clock <= job[r].began + MaxHandler
      BY <2>2, <2>6 DEF StoreShared, StoreFails, Give, HandlerInv, Job
    <3>2. QED
      BY <2>2, <3>1 DEF Life, Response, Job
  <2>7. QED
    BY <1>1, <2>1, <2>3, <2>4, <2>5, <2>6
    DEF Advance, MemoMiss, SharedMiss, SharedUnreadable, PortfolioRaises, Answers
<1>2. AgeInv /\ [CacheNext]_cacheVars =>
        [\A r \in Request : Answers(r) =>
            clock < answer'[r].computedAt + Life(answer'[r]) + FullTTL + MaxHandler]_cacheVars
  BY <1>1
<1>3. QED
  BY <1>2, AgeInvariant, PTL DEF CacheSpec, AgeBounded

-----------------------------------------------------------------------------
(* Folds over sequences.  FoldLeft is the fold of a sequence's positions, the
   last first, and again nothing is known of it until the function it recurses
   by is known to exist; that, and what it does to a sequence that grows, is
   proved for each fold by induction over the length.                      *)

\* Induction over the numbers, of a set.
LEMMA Counting ==
    ASSUME NEW G, 0 \in G, \A k \in Nat : k \in G => k + 1 \in G
    PROVE  \A k \in Nat : k \in G
<1> SUFFICES ASSUME Nat \ G # {} PROVE FALSE
  OBVIOUS
<1> DEFINE R == OpToRel(<, Nat)
           rest == Nat \ G
<1>1. IsWellFoundedOn(R, Nat) /\ \A y, x \in Nat : y < x => <<y, x>> \in R
  BY NatLessThanWellFounded DEF OpToRel
<1>2. rest \subseteq Nat /\ rest # {} /\ \A x \in Nat : x \in rest <=> x \notin G
  OBVIOUS
<1> HIDE DEF R, rest
<1>3. PICK x \in rest : \A y \in rest : ~(<<y, x>> \in R)
  BY <1>1, <1>2, WFMin
<1>4. x \in Nat /\ x # 0 /\ x - 1 \in Nat /\ x - 1 < x /\ x = (x - 1) + 1
  <2>1. x \in Nat /\ x # 0
    BY <1>2, <1>3
  <2>2. QED
    BY <2>1
<1>5. x - 1 \in G
  BY <1>1, <1>2, <1>3, <1>4
<1>6. QED
  BY <1>2, <1>3, <1>4, <1>5

\* The last of some positions.
LEMMA LastPosition ==
    ASSUME NEW n \in Nat, NEW s \in SUBSET (1..n), s # {}
    PROVE  /\ Max(s) \in s /\ Max(s) \in 1..n
           /\ \A x \in s : x <= Max(s)
           /\ s \ {Max(s)} \in SUBSET (1..n)
<1> DEFINE G == {k \in Nat : \A t \in SUBSET (1..k) : t # {} => \E x \in t : \A y \in t : x >= y}
<1>1. 0 \in G
  <2>1. 1..0 = {}
    OBVIOUS
  <2>2. QED
    BY <2>1
<1>2. ASSUME NEW k \in G PROVE k + 1 \in G
  <2> SUFFICES ASSUME NEW t \in SUBSET (1..k + 1), t # {} PROVE \E x \in t : \A y \in t : x >= y
    OBVIOUS
  <2>1. CASE k + 1 \in t
    BY <2>1
  <2>2. CASE k + 1 \notin t
    <3>1. t \in SUBSET (1..k)
      BY <2>2
    <3>2. QED
      BY <1>2, <3>1
  <2>3. QED
    BY <2>1, <2>2
<1> HIDE DEF G
<1>3. n \in G
  BY <1>1, <1>2, Counting
<1>4. \E x \in s : \A y \in s : x >= y
  BY <1>3 DEF G
<1>5. Max(s) \in s /\ \A y \in s : Max(s) >= y
  BY <1>4 DEF Max
<1>6. QED
  BY <1>5

\* Of all positions the last is the length.
LEMMA LastOfAll ==
    ASSUME NEW n \in Nat
    PROVE  /\ 1..n + 1 # {} /\ Max(1..n + 1) = n + 1
           /\ (1..n + 1) \ {n + 1} = 1..n
<1>1. n + 1 \in Nat /\ 1..n + 1 \in SUBSET (1..n + 1) /\ n + 1 \in 1..n + 1
  OBVIOUS
<1>2. Max(1..n + 1) \in 1..n + 1 /\ \A x \in 1..n + 1 : x <= Max(1..n + 1)
  BY <1>1, LastPosition
<1>3. QED
  BY <1>1, <1>2

\* Induction over sets of positions, taking the last one away.
LEMMA ByLastPosition ==
    ASSUME NEW n \in Nat, NEW G, {} \in G,
           \A s \in SUBSET (1..n) : s # {} /\ s \ {Max(s)} \in G => s \in G
    PROVE  \A s \in SUBSET (1..n) : s \in G
<1> DEFINE H == {k \in Nat : \A s \in SUBSET (1..n) : s \in SUBSET (1..k) => s \in G}
<1>1. 0 \in H
  <2>1. \A s \in SUBSET (1..0) : s = {}
    OBVIOUS
  <2>2. QED
    BY <2>1
<1>2. ASSUME NEW k \in H PROVE k + 1 \in H
  <2> SUFFICES ASSUME NEW s \in SUBSET (1..n), s \in SUBSET (1..k + 1), s # {} PROVE s \in G
    OBVIOUS
  <2>1. Max(s) \in s /\ (\A x \in s : x <= Max(s)) /\ s \ {Max(s)} \in SUBSET (1..n)
    BY LastPosition
  <2>2. s \ {Max(s)} \in SUBSET (1..k)
    <3> SUFFICES ASSUME NEW x \in s, x # Max(s) PROVE x \in 1..k
      OBVIOUS
    <3>1. x \in 1..k + 1 /\ Max(s) \in 1..k + 1 /\ x <= Max(s) /\ k \in Nat
      BY <2>1
    <3>2. QED
      BY <3>1
  <2>3. QED
    BY <1>2, <2>1, <2>2
<1> HIDE DEF H
<1>3. n \in H
  BY <1>1, <1>2, Counting
<1>4. QED
  BY <1>3 DEF H

\* The function by which the position after some rows is computed.
PositionBy(name, rows, S, g) ==
    g = [s \in SUBSET S |-> IF s = {} THEN NoPosition
                            ELSE Take(g[s \ {Max(s)}], ParseFill(name, rows[Max(s)]))]

\* The position as the fold that FoldLeft stands for.
LEMMA PositionIsFold ==
    ASSUME NEW name, NEW rows, NEW n \in Nat, DOMAIN rows = 1..n
    PROVE  Position(name, rows) = (CHOOSE g : PositionBy(name, rows, 1..n, g))[1..n]
BY DEF Position, FoldLeft, MapThenFoldSet, PositionBy

\* There is a function the fold of the position recurses by.
LEMMA PositionFoldExists ==
    ASSUME NEW name, NEW rows, NEW n \in Nat
    PROVE  \E g : PositionBy(name, rows, 1..n, g)
<1> DEFINE G == {k \in Nat : \E g : PositionBy(name, rows, 1..k, g)}
<1>1. 0 \in G
  <2> DEFINE g == [s \in SUBSET (1..0) |-> NoPosition]
  <2>1. \A s \in SUBSET (1..0) : s = {}
    OBVIOUS
  <2>2. PositionBy(name, rows, 1..0, g)
    BY <2>1 DEF PositionBy
  <2>3. QED
    BY <2>2
<1>2. ASSUME NEW k \in Nat, k \in G PROVE k + 1 \in G
  <2>1. PICK g : PositionBy(name, rows, 1..k, g)
    BY <1>2
  <2> DEFINE step(s, v) == Take(v, ParseFill(name, rows[Max(s)]))
             h == [s \in SUBSET (1..k + 1) |->
                      IF k + 1 \in s THEN step(s, g[s \ {k + 1}]) ELSE g[s]]
  <2>2. ASSUME NEW s \in SUBSET (1..k + 1)
        PROVE  h[s] = IF s = {} THEN NoPosition ELSE step(s, h[s \ {Max(s)}])
    <3>1. CASE k + 1 \in s
      <4>1. s # {} /\ Max(s) = k + 1
        <5>1. Max(s) \in 1..k + 1 /\ k + 1 <= Max(s)
          BY <3>1, LastPosition
        <5>2. QED
          BY <3>1, <5>1
      <4>2. s \ {k + 1} \in SUBSET (1..k + 1) /\ k + 1 \notin s \ {k + 1}
        OBVIOUS
      <4> HIDE DEF step
      <4>3. h[s \ {k + 1}] = g[s \ {k + 1}]
        BY <4>2
      <4>4. QED
        BY <3>1, <4>1, <4>3
    <3>2. CASE k + 1 \notin s
      <4>1. s \in SUBSET (1..k)
        BY <3>2
      <4>2. g[s] = IF s = {} THEN NoPosition ELSE step(s, g[s \ {Max(s)}])
        BY <2>1, <4>1 DEF PositionBy
      <4>3. h[s] = g[s]
        BY <3>2
      <4>4. s # {} => h[s \ {Max(s)}] = g[s \ {Max(s)}]
        BY <3>2
      <4> HIDE DEF step, h
      <4>5. QED
        BY <4>2, <4>3, <4>4
    <3>3. QED
      BY <3>1, <3>2
  <2> DEFINE again == [s \in SUBSET (1..k + 1) |->
                          IF s = {} THEN NoPosition ELSE step(s, h[s \ {Max(s)}])]
  <2>3. h = again
    <3>1. \A s \in SUBSET (1..k + 1) : h[s] = again[s]
      <4> HIDE DEF h, step
      <4>1. QED
        BY <2>2
    <3>2. h = [s \in SUBSET (1..k + 1) |-> h[s]] /\ again = [s \in SUBSET (1..k + 1) |-> again[s]]
      <4> HIDE DEF step
      <4>1. QED
        OBVIOUS
    <3> HIDE DEF h, again
    <3>3. QED
      BY <3>1, <3>2
  <2>4. PositionBy(name, rows, 1..k + 1, h)
    <3> HIDE DEF h
    <3>1. QED
      BY <2>3 DEF PositionBy
  <2> HIDE DEF h
  <2>5. QED
    BY <2>4
<1> HIDE DEF G
<1>3. n \in G
  BY <1>1, <1>2, Counting
<1>4. QED
  BY <1>3 DEF G

\* Before the first trade there is no position.
LEMMA PositionOfNone ==
    ASSUME NEW name, NEW rows, DOMAIN rows = {}
    PROVE  Position(name, rows) = NoPosition
<1>1. 1..0 = {} /\ 0 \in Nat
  OBVIOUS
<1> DEFINE g == CHOOSE g : PositionBy(name, rows, 1..0, g)
<1>2. PositionBy(name, rows, 1..0, g)
  BY <1>1, PositionFoldExists
<1>3. Position(name, rows) = g[1..0]
  BY <1>1, PositionIsFold
<1> HIDE DEF g
<1>4. g[1..0] = NoPosition
  BY <1>1, <1>2 DEF PositionBy
<1>5. QED
  BY <1>3, <1>4

\* A trade is taken into the position after those before it.
LEMMA PositionOfMore ==
    ASSUME NEW name, NEW n \in Nat,
           NEW rows, DOMAIN rows = 1..n,
           NEW more, DOMAIN more = 1..n + 1, \A i \in 1..n : more[i] = rows[i]
    PROVE  Position(name, more) = Take(Position(name, rows), ParseFill(name, more[n + 1]))
<1> DEFINE g == CHOOSE g : PositionBy(name, rows, 1..n, g)
           h == CHOOSE h : PositionBy(name, more, 1..n + 1, h)
           G == {s \in SUBSET (1..n) : h[s] = g[s]}
<1>1. n + 1 \in Nat /\ PositionBy(name, rows, 1..n, g) /\ PositionBy(name, more, 1..n + 1, h)
  <2>1. n + 1 \in Nat
    OBVIOUS
  <2>2. PositionBy(name, rows, 1..n, g)
    BY PositionFoldExists
  <2>3. PositionBy(name, more, 1..n + 1, h)
    BY <2>1, PositionFoldExists
  <2>4. QED
    BY <2>1, <2>2, <2>3
<1>2. Position(name, rows) = g[1..n]
  BY PositionIsFold
<1>3. Position(name, more) = h[1..n + 1]
  BY <1>1, PositionIsFold
<1> HIDE DEF g, h
<1>4. {} \in G
  BY <1>1 DEF PositionBy
<1>5. ASSUME NEW s \in SUBSET (1..n), s # {}, s \ {Max(s)} \in G PROVE s \in G
  <2>1. Max(s) \in 1..n /\ s \ {Max(s)} \in SUBSET (1..n) /\ s \in SUBSET (1..n + 1)
    BY <1>5, LastPosition
  <2>2. more[Max(s)] = rows[Max(s)] /\ h[s \ {Max(s)}] = g[s \ {Max(s)}]
    BY <1>5, <2>1
  <2> DEFINE m == Max(s)
             t == s \ {m}
  <2> HIDE DEF m, t
  <2>3. h[s] = Take(h[t], ParseFill(name, more[m]))
    BY <1>1, <1>5, <2>1 DEF PositionBy, m, t
  <2>4. g[s] = Take(g[t], ParseFill(name, rows[m]))
    BY <1>1, <1>5, <2>1 DEF PositionBy, m, t
  <2>5. h[s] = g[s]
    BY <2>2, <2>3, <2>4 DEF m, t
  <2>6. QED
    BY <2>5
<1> HIDE DEF G
<1>6. 1..n \in G
  <2>1. \A s \in SUBSET (1..n) : s \in G
    BY <1>4, <1>5, ByLastPosition
  <2>2. QED
    BY <2>1
<1>7. h[1..n] = g[1..n]
  BY <1>6 DEF G
<1>8. /\ 1..n + 1 # {} /\ 1..n + 1 \in SUBSET (1..n + 1)
      /\ Max(1..n + 1) = n + 1 /\ (1..n + 1) \ {n + 1} = 1..n
  BY LastOfAll
<1>9. h[1..n + 1] = Take(h[1..n], ParseFill(name, more[n + 1]))
  BY <1>1, <1>8 DEF PositionBy
<1>10. QED
  BY <1>2, <1>3, <1>7, <1>9

\* One row of the P&L, and the function by which they are folded.
Enter(s, o) == IF o = None THEN s ELSE Book(s, o)

PnlBy(rows, S, g) ==
    g = [s \in SUBSET S |-> IF s = {} THEN NoBook
                            ELSE Enter(g[s \ {Max(s)}], rows[Max(s)])]

\* The book as the fold that FoldLeft stands for.
LEMMA PnlIsFold ==
    ASSUME NEW rows, NEW n \in Nat, DOMAIN rows = 1..n
    PROVE  Pnl(rows) = (CHOOSE g : PnlBy(rows, 1..n, g))[1..n]
BY DEF Pnl, FoldLeft, MapThenFoldSet, PnlBy, Enter

\* There is a function the fold of the book recurses by.
LEMMA PnlFoldExists ==
    ASSUME NEW rows, NEW n \in Nat
    PROVE  \E g : PnlBy(rows, 1..n, g)
<1> DEFINE G == {k \in Nat : \E g : PnlBy(rows, 1..k, g)}
<1>1. 0 \in G
  <2> DEFINE g == [s \in SUBSET (1..0) |-> NoBook]
  <2>1. \A s \in SUBSET (1..0) : s = {}
    OBVIOUS
  <2>2. PnlBy(rows, 1..0, g)
    BY <2>1 DEF PnlBy
  <2>3. QED
    BY <2>2
<1>2. ASSUME NEW k \in Nat, k \in G PROVE k + 1 \in G
  <2>1. PICK g : PnlBy(rows, 1..k, g)
    BY <1>2
  <2> DEFINE step(s, v) == Enter(v, rows[Max(s)])
             h == [s \in SUBSET (1..k + 1) |->
                      IF k + 1 \in s THEN step(s, g[s \ {k + 1}]) ELSE g[s]]
  <2>2. ASSUME NEW s \in SUBSET (1..k + 1)
        PROVE  h[s] = IF s = {} THEN NoBook ELSE step(s, h[s \ {Max(s)}])
    <3>1. CASE k + 1 \in s
      <4>1. s # {} /\ Max(s) = k + 1
        <5>1. Max(s) \in 1..k + 1 /\ k + 1 <= Max(s)
          BY <3>1, LastPosition
        <5>2. QED
          BY <3>1, <5>1
      <4>2. s \ {k + 1} \in SUBSET (1..k + 1) /\ k + 1 \notin s \ {k + 1}
        OBVIOUS
      <4> HIDE DEF step
      <4>3. h[s \ {k + 1}] = g[s \ {k + 1}]
        BY <4>2
      <4>4. QED
        BY <3>1, <4>1, <4>3
    <3>2. CASE k + 1 \notin s
      <4>1. s \in SUBSET (1..k)
        BY <3>2
      <4>2. g[s] = IF s = {} THEN NoBook ELSE step(s, g[s \ {Max(s)}])
        BY <2>1, <4>1 DEF PnlBy
      <4>3. h[s] = g[s]
        BY <3>2
      <4>4. s # {} => h[s \ {Max(s)}] = g[s \ {Max(s)}]
        BY <3>2
      <4> HIDE DEF step, h
      <4>5. QED
        BY <4>2, <4>3, <4>4
    <3>3. QED
      BY <3>1, <3>2
  <2> DEFINE again == [s \in SUBSET (1..k + 1) |->
                          IF s = {} THEN NoBook ELSE step(s, h[s \ {Max(s)}])]
  <2>3. h = again
    <3>1. \A s \in SUBSET (1..k + 1) : h[s] = again[s]
      <4> HIDE DEF h, step
      <4>1. QED
        BY <2>2
    <3>2. h = [s \in SUBSET (1..k + 1) |-> h[s]] /\ again = [s \in SUBSET (1..k + 1) |-> again[s]]
      <4> HIDE DEF step
      <4>1. QED
        OBVIOUS
    <3> HIDE DEF h, again
    <3>3. QED
      BY <3>1, <3>2
  <2>4. PnlBy(rows, 1..k + 1, h)
    <3> HIDE DEF h
    <3>1. QED
      BY <2>3 DEF PnlBy
  <2> HIDE DEF h
  <2>5. QED
    BY <2>4
<1> HIDE DEF G
<1>3. n \in G
  BY <1>1, <1>2, Counting
<1>4. QED
  BY <1>3 DEF G

\* The book begins empty.
LEMMA PnlOfNone ==
    ASSUME NEW rows, DOMAIN rows = {}
    PROVE  Pnl(rows) = NoBook
<1>1. 1..0 = {} /\ 0 \in Nat
  OBVIOUS
<1> DEFINE g == CHOOSE g : PnlBy(rows, 1..0, g)
<1>2. PnlBy(rows, 1..0, g)
  BY <1>1, PnlFoldExists
<1>3. Pnl(rows) = g[1..0]
  BY <1>1, PnlIsFold
<1> HIDE DEF g
<1>4. g[1..0] = NoBook
  BY <1>1, <1>2 DEF PnlBy
<1>5. QED
  BY <1>3, <1>4

\* A row is booked after those before it.
LEMMA PnlOfMore ==
    ASSUME NEW n \in Nat,
           NEW rows, DOMAIN rows = 1..n,
           NEW more, DOMAIN more = 1..n + 1, \A i \in 1..n : more[i] = rows[i]
    PROVE  Pnl(more) = Enter(Pnl(rows), more[n + 1])
<1> DEFINE g == CHOOSE g : PnlBy(rows, 1..n, g)
           h == CHOOSE h : PnlBy(more, 1..n + 1, h)
           G == {s \in SUBSET (1..n) : h[s] = g[s]}
<1>1. n + 1 \in Nat /\ PnlBy(rows, 1..n, g) /\ PnlBy(more, 1..n + 1, h)
  <2>1. n + 1 \in Nat
    OBVIOUS
  <2>2. PnlBy(rows, 1..n, g)
    BY PnlFoldExists
  <2>3. PnlBy(more, 1..n + 1, h)
    BY <2>1, PnlFoldExists
  <2>4. QED
    BY <2>1, <2>2, <2>3
<1>2. Pnl(rows) = g[1..n]
  BY PnlIsFold
<1>3. Pnl(more) = h[1..n + 1]
  BY <1>1, PnlIsFold
<1> HIDE DEF g, h
<1>4. {} \in G
  BY <1>1 DEF PnlBy
<1>5. ASSUME NEW s \in SUBSET (1..n), s # {}, s \ {Max(s)} \in G PROVE s \in G
  <2>1. Max(s) \in 1..n /\ s \ {Max(s)} \in SUBSET (1..n) /\ s \in SUBSET (1..n + 1)
    BY <1>5, LastPosition
  <2>2. more[Max(s)] = rows[Max(s)] /\ h[s \ {Max(s)}] = g[s \ {Max(s)}]
    BY <1>5, <2>1
  <2> DEFINE m == Max(s)
             t == s \ {m}
  <2> HIDE DEF m, t
  <2>3. h[s] = Enter(h[t], more[m])
    BY <1>1, <1>5, <2>1 DEF PnlBy, m, t
  <2>4. g[s] = Enter(g[t], rows[m])
    BY <1>1, <1>5, <2>1 DEF PnlBy, m, t
  <2>5. h[s] = g[s]
    BY <2>2, <2>3, <2>4 DEF m, t
  <2>6. QED
    BY <2>5
<1> HIDE DEF G
<1>6. 1..n \in G
  <2>1. \A s \in SUBSET (1..n) : s \in G
    BY <1>4, <1>5, ByLastPosition
  <2>2. QED
    BY <2>1
<1>7. h[1..n] = g[1..n]
  BY <1>6 DEF G
<1>8. /\ 1..n + 1 # {} /\ 1..n + 1 \in SUBSET (1..n + 1)
      /\ Max(1..n + 1) = n + 1 /\ (1..n + 1) \ {n + 1} = 1..n
  BY LastOfAll
<1>9. h[1..n + 1] = Enter(h[1..n], more[n + 1])
  BY <1>1, <1>8 DEF PnlBy
<1>10. QED
  BY <1>2, <1>3, <1>7, <1>9
-----------------------------------------------------------------------------
(* The types of fills and positions, and what one fill does to a position. *)

Cost == [num : Nat, den : Nat \ {0}]
Positions == [qty : Nat, cost : Cost, buys : BOOLEAN, skipped : BOOLEAN]
FillType == [side : Side, qty : Nat, cost : Nat, stable : BOOLEAN, fee : Nat, feeIn : Charged]

\* A position has a cost only as long as it is open, and was bought.
Sound(pos) == /\ pos.qty = 0 => pos.cost.num = 0
              /\ pos.qty > 0 => pos.buys

\* Whatever the adapter, a row keeps its amounts, and a fee is never negative.
LEMMA ParseType ==
    ASSUME NEW name \in VenueName, NEW row \in Row
    PROVE  /\ ParseFill(name, row) \in FillType
           /\ ParseFill(name, row).side = row.side
           /\ ParseFill(name, row).qty = row.qty
           /\ ParseFill(name, row).cost = row.cost
           /\ ParseFill(name, row).stable = row.stable
<1>1. /\ row.side \in Side /\ row.qty \in Nat /\ row.cost \in Nat /\ row.stable \in BOOLEAN
      /\ row.fee \in Int /\ -row.fee \in Int /\ row.feeIn \in Charged
  BY DEF Row
<1>2. ASSUME NEW fee \in Int, NEW feeIn \in Charged
      PROVE  /\ Fill(row, fee, feeIn) \in FillType
             /\ Fill(row, fee, feeIn).side = row.side
             /\ Fill(row, fee, feeIn).qty = row.qty
             /\ Fill(row, fee, feeIn).cost = row.cost
             /\ Fill(row, fee, feeIn).stable = row.stable
  <2>1. (IF fee > 0 THEN fee ELSE 0) \in Nat
    OBVIOUS
  <2>2. QED
    BY <1>1, <2>1 DEF Fill, FillType
<1> DEFINE unnamed == IF row.feeIn # "unnamed" THEN row.feeIn
                      ELSE IF row.side = "buy" THEN "base" ELSE "quote"
<1>3. "quote" \in Charged /\ unnamed \in Charged
  BY <1>1 DEF Charged
<1>4. ParseFill(name, row) \in {Fill(row, row.fee, row.feeIn), Fill(row, -row.fee, row.feeIn),
                                Fill(row, row.fee, "quote"), Fill(row, row.fee, unnamed)}
  BY DEF ParseFill, VenueName, BinanceFill, BinanceTrFill, GateioFill, OkxFill, KrakenFill,
         CoinbaseFill, BybitFill
<1> HIDE DEF unnamed
<1>5. QED
  BY <1>1, <1>2, <1>3, <1>4

\* An update of several fields, field by field.
LEMMA UpdatedCost ==
    ASSUME NEW pos \in Positions, NEW q, NEW c
    PROVE  [pos EXCEPT !.qty = q, !.cost = c]
             = [qty |-> q, cost |-> c, buys |-> pos.buys, skipped |-> pos.skipped]
<1> DEFINE pos1 == [pos EXCEPT !.qty = q]
<1>1. pos = [qty |-> pos.qty, cost |-> pos.cost, buys |-> pos.buys, skipped |-> pos.skipped]
  BY DEF Positions
<1>2. pos1 = [qty |-> q, cost |-> pos.cost, buys |-> pos.buys, skipped |-> pos.skipped]
  BY <1>1
<1>3. [pos EXCEPT !.qty = q, !.cost = c] = [pos1 EXCEPT !.cost = c]
  OBVIOUS
<1> HIDE DEF pos1
<1>4. [pos1 EXCEPT !.cost = c] = [qty |-> q, cost |-> c, buys |-> pos.buys, skipped |-> pos.skipped]
  BY <1>2
<1>5. QED
  BY <1>3, <1>4

LEMMA UpdatedBuys ==
    ASSUME NEW pos \in Positions, NEW q, NEW c, NEW b
    PROVE  [pos EXCEPT !.qty = q, !.cost = c, !.buys = b]
             = [qty |-> q, cost |-> c, buys |-> b, skipped |-> pos.skipped]
<1> DEFINE pos2 == [pos EXCEPT !.qty = q, !.cost = c]
<1>1. pos2 = [qty |-> q, cost |-> c, buys |-> pos.buys, skipped |-> pos.skipped]
  BY UpdatedCost, Zenon
<1>2. [pos EXCEPT !.qty = q, !.cost = c, !.buys = b] = [pos2 EXCEPT !.buys = b]
  OBVIOUS
<1> HIDE DEF pos2
<1>3. [pos2 EXCEPT !.buys = b] = [qty |-> q, cost |-> c, buys |-> b, skipped |-> pos.skipped]
  BY <1>1
<1>4. QED
  BY <1>2, <1>3

LEMMA UpdatedSkipped ==
    ASSUME NEW pos \in Positions, NEW b
    PROVE  [pos EXCEPT !.skipped = b]
             = [qty |-> pos.qty, cost |-> pos.cost, buys |-> pos.buys, skipped |-> b]
<1>1. pos = [qty |-> pos.qty, cost |-> pos.cost, buys |-> pos.buys, skipped |-> pos.skipped]
  BY DEF Positions
<1>2. QED
  BY <1>1

\* The ways a position changes.
LEMMA Taken ==
    ASSUME NEW pos \in Positions, NEW f \in FillType
    PROVE  /\ ~f.stable =>
                 Take(pos, f) = [qty |-> pos.qty, cost |-> pos.cost, buys |-> pos.buys, skipped |-> TRUE]
           /\ f.stable /\ (f.qty = 0 \/ (f.side = "buy" /\ Received(f) <= 0)) => Take(pos, f) = pos
           /\ f.stable /\ f.side = "buy" /\ f.qty > 0 /\ Received(f) > 0 =>
                 Take(pos, f) = [qty |-> pos.qty + Received(f), cost |-> Plus(pos.cost, Frac(Paid(f), 1)),
                                 buys |-> TRUE, skipped |-> pos.skipped]
           /\ f.stable /\ f.side = "sell" /\ f.qty > 0 /\ pos.qty <= f.qty =>
                 Take(pos, f) = [qty |-> 0, cost |-> Frac(0, 1), buys |-> pos.buys,
                                 skipped |-> pos.skipped]
           /\ f.stable /\ f.side = "sell" /\ f.qty > 0 /\ pos.qty > f.qty =>
                 Take(pos, f) = [qty |-> pos.qty - f.qty, cost |-> CostOf(pos.cost, pos.qty - f.qty, pos.qty),
                                 buys |-> pos.buys, skipped |-> pos.skipped]
<1>1. /\ pos = [qty |-> pos.qty, cost |-> pos.cost, buys |-> pos.buys, skipped |-> pos.skipped]
      /\ pos.qty \in Nat /\ f.qty \in Nat /\ f.fee \in Nat
  BY DEF Positions, FillType
<1>2. Received(f) \in Int
  BY <1>1 DEF Received
<1>3. ASSUME ~f.stable
      PROVE  Take(pos, f) = [qty |-> pos.qty, cost |-> pos.cost, buys |-> pos.buys, skipped |-> TRUE]
  <2>1. Take(pos, f) = [pos EXCEPT !.skipped = TRUE]
    BY <1>3 DEF Take
  <2>2. QED
    BY <2>1, UpdatedSkipped, Zenon
<1>4. ASSUME f.stable, f.qty = 0 \/ (f.side = "buy" /\ Received(f) <= 0)
      PROVE  Take(pos, f) = pos
  BY <1>1, <1>2, <1>4 DEF Take, TakeBuy
<1>5. ASSUME f.stable, f.side = "buy", f.qty > 0, Received(f) > 0
      PROVE  Take(pos, f) = [qty |-> pos.qty + Received(f), cost |-> Plus(pos.cost, Frac(Paid(f), 1)),
                             buys |-> TRUE, skipped |-> pos.skipped]
  <2>1. /\ f.stable /\ ~(f.qty <= 0) /\ ~(Received(f) <= 0)
        /\ Take(pos, f) = TakeBuy(pos, f)
    BY <1>1, <1>2, <1>5 DEF Take
  <2>2. TakeBuy(pos, f) = [pos EXCEPT !.qty = pos.qty + Received(f),
                                      !.cost = Plus(pos.cost, Frac(Paid(f), 1)), !.buys = TRUE]
    BY <2>1 DEF TakeBuy
  <2>3. QED
    BY <2>1, <2>2, UpdatedBuys, Zenon
<1>6. ASSUME f.stable, f.side = "sell", f.qty > 0, pos.qty <= f.qty
      PROVE  Take(pos, f) = [qty |-> 0, cost |-> Frac(0, 1), buys |-> pos.buys, skipped |-> pos.skipped]
  <2>1. /\ f.stable /\ ~(f.qty <= 0) /\ pos.qty - f.qty <= 0
        /\ Take(pos, f) = TakeSell(pos, f)
    BY <1>1, <1>6 DEF Take
  <2>2. TakeSell(pos, f) = [pos EXCEPT !.qty = 0, !.cost = Frac(0, 1)]
    BY <2>1 DEF TakeSell
  <2> DEFINE none == 0
  <2>3. TakeSell(pos, f) = [pos EXCEPT !.qty = none, !.cost = Frac(0, 1)]
    BY <2>2
  <2> HIDE DEF none
  <2>4. TakeSell(pos, f)
          = [qty |-> none, cost |-> Frac(0, 1), buys |-> pos.buys, skipped |-> pos.skipped]
    BY <2>3, UpdatedCost, Zenon
  <2>5. QED
    BY <2>1, <2>4 DEF none
<1>7. ASSUME f.stable, f.side = "sell", f.qty > 0, pos.qty > f.qty
      PROVE  Take(pos, f) = [qty |-> pos.qty - f.qty, cost |-> CostOf(pos.cost, pos.qty - f.qty, pos.qty),
                             buys |-> pos.buys, skipped |-> pos.skipped]
  <2>1. /\ f.stable /\ ~(f.qty <= 0) /\ ~(pos.qty - f.qty <= 0)
        /\ Take(pos, f) = TakeSell(pos, f)
    BY <1>1, <1>7 DEF Take
  <2>2. TakeSell(pos, f) = [pos EXCEPT !.qty = pos.qty - f.qty,
                                       !.cost = CostOf(pos.cost, pos.qty - f.qty, pos.qty)]
    BY <2>1 DEF TakeSell
  <2>3. QED
    BY <2>1, <2>2, UpdatedCost, Zenon
<1>8. QED
  BY <1>3, <1>4, <1>5, <1>6, <1>7

\* What a fill does to the coins of a position.
LEMMA TakenCoins ==
    ASSUME NEW pos \in Positions, NEW f \in FillType
    PROVE  /\ Take(pos, f).skipped = (pos.skipped \/ ~f.stable)
           /\ f.side = "buy" /\ f.stable =>
                 Take(pos, f).qty
                   = pos.qty + (IF f.qty > 0 /\ Received(f) > 0 THEN Received(f) ELSE 0)
           /\ f.side = "sell" /\ f.stable =>
                 Take(pos, f).qty = IF pos.qty <= f.qty THEN 0 ELSE pos.qty - f.qty
           /\ ~f.stable => Take(pos, f).qty = pos.qty
<1>1. /\ pos.qty \in Nat /\ pos.skipped \in BOOLEAN /\ f.qty \in Nat /\ f.fee \in Nat
      /\ f.stable \in BOOLEAN /\ f.side \in Side
  BY DEF Positions, FillType
<1>2. Received(f) \in Int
  BY <1>1 DEF Received
<1>3. CASE ~f.stable
  <2>1. Take(pos, f).skipped = TRUE /\ Take(pos, f).qty = pos.qty
    BY <1>3, Taken
  <2>2. QED
    BY <1>1, <1>3, <2>1
<1>4. CASE f.stable /\ (f.qty = 0 \/ (f.side = "buy" /\ Received(f) <= 0))
  <2>1. Take(pos, f) = pos
    BY <1>4, Taken
  <2>2. QED
    BY <1>1, <1>2, <1>4, <2>1
<1>5. CASE f.stable /\ f.side = "buy" /\ f.qty > 0 /\ Received(f) > 0
  <2>1. Take(pos, f).skipped = pos.skipped /\ Take(pos, f).qty = pos.qty + Received(f)
    BY <1>5, Taken
  <2>2. QED
    BY <1>1, <1>5, <2>1
<1>6. CASE f.stable /\ f.side = "sell" /\ f.qty > 0
  <2>1. CASE pos.qty <= f.qty
    <3>1. Take(pos, f).skipped = pos.skipped /\ Take(pos, f).qty = 0
      BY <1>6, <2>1, Taken
    <3>2. QED
      BY <1>1, <1>6, <2>1, <3>1
  <2>2. CASE pos.qty > f.qty
    <3>1. Take(pos, f).skipped = pos.skipped /\ Take(pos, f).qty = pos.qty - f.qty
      BY <1>6, <2>2, Taken
    <3>2. QED
      BY <1>1, <1>6, <2>2, <3>1
  <2>3. QED
    BY <1>1, <2>1, <2>2
<1>7. \/ ~f.stable
      \/ f.stable /\ (f.qty = 0 \/ (f.side = "buy" /\ Received(f) <= 0))
      \/ f.stable /\ f.side = "buy" /\ f.qty > 0 /\ Received(f) > 0
      \/ f.stable /\ f.side = "sell" /\ f.qty > 0
  BY <1>1, <1>2 DEF Side
<1>8. QED
  BY <1>3, <1>4, <1>5, <1>6, <1>7, Zenon

\* A fill makes a position of a position.
LEMMA TakeType ==
    ASSUME NEW pos \in Positions, Sound(pos), NEW f \in FillType
    PROVE  Take(pos, f) \in Positions /\ Sound(Take(pos, f))
<1>1. /\ pos.qty \in Nat /\ pos.cost \in Cost /\ pos.buys \in BOOLEAN /\ pos.skipped \in BOOLEAN
      /\ pos.cost.num \in Nat /\ pos.cost.den \in Nat \ {0}
      /\ pos.qty = 0 => pos.cost.num = 0
      /\ pos.qty > 0 => pos.buys
  BY DEF Positions, Cost, Sound
<1>2. f.qty \in Nat /\ f.cost \in Nat /\ f.fee \in Nat /\ f.stable \in BOOLEAN /\ f.side \in Side
  BY DEF FillType
<1>3. ASSUME NEW qty \in Nat, NEW cost \in Cost, NEW buys \in BOOLEAN, NEW skipped \in BOOLEAN,
             qty = 0 => cost.num = 0, qty > 0 => buys,
             Take(pos, f) = [qty |-> qty, cost |-> cost, buys |-> buys, skipped |-> skipped]
      PROVE  Take(pos, f) \in Positions /\ Sound(Take(pos, f))
  <2>1. Take(pos, f) \in Positions
    BY <1>3 DEF Positions
  <2>2. QED
    BY <1>3, <2>1 DEF Sound
<1>4. ASSUME NEW num \in Nat, NEW den \in Nat \ {0}
      PROVE  Frac(num, den) \in Cost /\ Frac(num, den).num = num
  BY DEF Frac, Cost
<1>5. Received(f) \in Int /\ Paid(f) \in Nat
  BY <1>2 DEF Received, Paid
<1>6. CASE ~f.stable
  <2>1. Take(pos, f) = [qty |-> pos.qty, cost |-> pos.cost, buys |-> pos.buys, skipped |-> TRUE]
    BY <1>6, Taken
  <2>2. QED
    BY <1>1, <1>3, <2>1
<1>7. CASE f.stable /\ (f.qty = 0 \/ (f.side = "buy" /\ Received(f) <= 0))
  BY <1>7, Taken
<1>8. CASE f.stable /\ f.side = "buy" /\ f.qty > 0 /\ Received(f) > 0
  <2> DEFINE qty == pos.qty + Received(f)
             num == pos.cost.num + Paid(f) * pos.cost.den
             cost == Plus(pos.cost, Frac(Paid(f), 1))
             buys == TRUE
  <2>1. qty \in Nat /\ qty > 0 /\ num \in Nat
    BY <1>1, <1>5, <1>8
  <2>2. pos.cost.den * 1 = pos.cost.den /\ pos.cost.num * 1 = pos.cost.num
    BY <1>1
  <2>3. cost = Frac(num, pos.cost.den)
    BY <2>2 DEF Plus, Frac
  <2>4. cost \in Cost
    BY <1>1, <1>4, <2>1, <2>3
  <2>5. /\ Take(pos, f) = [qty |-> qty, cost |-> cost, buys |-> buys, skipped |-> pos.skipped]
        /\ buys /\ buys \in BOOLEAN
    BY <1>8, Taken
  <2>6. qty = 0 => cost.num = 0
    BY <2>1
  <2> HIDE DEF qty, num, cost, buys
  <2>7. QED
    BY <1>1, <1>3, <2>1, <2>4, <2>5, <2>6, Zenon
<1>9. CASE f.stable /\ f.side = "sell" /\ f.qty > 0 /\ pos.qty <= f.qty
  <2>1. Take(pos, f) = [qty |-> 0, cost |-> Frac(0, 1), buys |-> pos.buys, skipped |-> pos.skipped]
    BY <1>9, Taken
  <2>2. Frac(0, 1) \in Cost /\ Frac(0, 1).num = 0
    BY <1>4
  <2>3. QED
    BY <1>1, <1>3, <2>1, <2>2
<1>10. CASE f.stable /\ f.side = "sell" /\ f.qty > 0 /\ pos.qty > f.qty
  <2> DEFINE left == pos.qty - f.qty
             num == pos.cost.num * left
             den == pos.cost.den * pos.qty
             cost == CostOf(pos.cost, left, pos.qty)
  <2>1. left \in Nat /\ left > 0 /\ pos.qty > 0
    BY <1>1, <1>2, <1>10
  <2>2. num \in Nat /\ den \in Nat \ {0}
    BY <1>1, <2>1
  <2>3. cost = Frac(num, den)
    BY DEF CostOf
  <2>4. cost \in Cost
    BY <1>4, <2>2, <2>3
  <2>5. Take(pos, f) = [qty |-> left, cost |-> cost, buys |-> pos.buys, skipped |-> pos.skipped]
    BY <1>10, Taken
  <2> HIDE DEF left, num, den, cost
  <2>6. QED
    BY <1>1, <1>3, <2>1, <2>4, <2>5
<1>11. \/ ~f.stable
       \/ f.stable /\ (f.qty = 0 \/ (f.side = "buy" /\ Received(f) <= 0))
       \/ f.stable /\ f.side = "buy" /\ f.qty > 0 /\ Received(f) > 0
       \/ f.stable /\ f.side = "sell" /\ f.qty > 0 /\ pos.qty <= f.qty
       \/ f.stable /\ f.side = "sell" /\ f.qty > 0 /\ pos.qty > f.qty
  BY <1>1, <1>2, <1>5 DEF Side
<1>12. QED
  BY <1>6, <1>7, <1>8, <1>9, <1>10, <1>11, Zenon
-----------------------------------------------------------------------------
(* Fractions over one denominator, where they are as many parts of it as their
   sums, differences and comparisons say.                                  *)

Fraction == [num : Int, den : Nat \ {0}]

\* The fraction is n of d parts.
Parts(f, n, d) == f.num * d = n * f.den

LEMMA FracType ==
    ASSUME NEW n \in Int, NEW d \in Nat \ {0}
    PROVE  Frac(n, d) \in Fraction /\ Frac(n, d).num = n /\ Frac(n, d).den = d
BY DEF Frac, Fraction

LEMMA FractionFields ==
    ASSUME NEW a \in Fraction
    PROVE  a.num \in Int /\ a.den \in Nat \ {0}
BY DEF Fraction

\* Whole numbers only, without the records.
LEMMA Scaling ==
    ASSUME NEW a \in Int, NEW b \in Int, NEW m \in Int, NEW e \in Int, NEW k \in Int, NEW l \in Int,
           a * e = m * b
    PROVE  /\ a * (e * k) = (m * k) * b
           /\ (a * k) * (e * l) = (m * k) * (b * l)
OBVIOUS

LEMMA Adding ==
    ASSUME NEW a \in Int, NEW b \in Int, NEW c \in Int, NEW d \in Int,
           NEW m \in Int, NEW n \in Int, NEW e \in Int,
           a * e = m * b, c * e = n * d
    PROVE  (a * d + c * b) * e = (m + n) * (b * d)
OBVIOUS

LEMMA Comparing ==
    ASSUME NEW a \in Int, NEW b \in Nat \ {0}, NEW c \in Int, NEW d \in Nat \ {0},
           NEW m \in Int, NEW n \in Int, NEW e \in Nat \ {0},
           a * e = m * b, c * e = n * d
    PROVE  (a * d <= c * b <=> m <= n) /\ (a * d = c * b <=> m = n)
<1>1. a * d <= c * b <=> m <= n
  OBVIOUS
<1>2. a * d = c * b <=> m = n
  OBVIOUS
<1>3. QED
  BY <1>1, <1>2

\* Parts of a finer denominator.
LEMMA PartsOfFrac ==
    ASSUME NEW n \in Int, NEW d \in Nat \ {0}, NEW k \in Int
    PROVE  Parts(Frac(n, d), n * k, d * k)
<1>1. n * d = n * d
  OBVIOUS
<1>2. n * (d * k) = (n * k) * d
  BY <1>1, Scaling
<1>3. QED
  BY <1>2, FracType DEF Parts

LEMMA PartsOfWhole ==
    ASSUME NEW n \in Int, NEW e \in Int
    PROVE  Parts(Frac(n, 1), n * e, e)
BY FracType DEF Parts

\* Sums and differences are those of the parts.
LEMMA PartsOfPlus ==
    ASSUME NEW a \in Fraction, NEW b \in Fraction, NEW e \in Int, NEW m \in Int, NEW n \in Int,
           Parts(a, m, e), Parts(b, n, e)
    PROVE  Plus(a, b) \in Fraction /\ Parts(Plus(a, b), m + n, e)
<1>1. /\ a.num \in Int /\ a.den \in Nat \ {0} /\ b.num \in Int /\ b.den \in Nat \ {0}
      /\ a.num * e = m * a.den /\ b.num * e = n * b.den
  BY FractionFields DEF Parts
<1> DEFINE num == a.num * b.den + b.num * a.den
           den == a.den * b.den
<1>2. num * e = (m + n) * den
  <2> DEFINE an == a.num
             ad == a.den
             bn == b.num
             bd == b.den
  <2>1. /\ an \in Int /\ ad \in Int /\ bn \in Int /\ bd \in Int
        /\ an * e = m * ad /\ bn * e = n * bd
    BY <1>1
  <2> HIDE DEF an, ad, bn, bd
  <2>2. (an * bd + bn * ad) * e = (m + n) * (ad * bd)
    BY <2>1, Adding
  <2>3. QED
    BY <2>2 DEF an, ad, bn, bd
<1>3. num \in Int /\ den \in Nat \ {0} /\ Plus(a, b) = Frac(num, den)
  BY <1>1 DEF Plus
<1> HIDE DEF num, den
<1>4. QED
  BY <1>2, <1>3, FracType DEF Parts

LEMMA PartsOfMinus ==
    ASSUME NEW a \in Fraction, NEW b \in Fraction, NEW e \in Int, NEW m \in Int, NEW n \in Int,
           Parts(a, m, e), Parts(b, n, e)
    PROVE  Minus(a, b) \in Fraction /\ Parts(Minus(a, b), m - n, e)
<1>1. b.num \in Int /\ b.den \in Nat \ {0} /\ b.num * e = n * b.den
  BY FractionFields DEF Parts
<1> DEFINE c == Frac(-b.num, b.den)
           k == -n
<1>2. k \in Int /\ c \in Fraction /\ c.num = -b.num /\ c.den = b.den /\ m + k = m - n
  BY <1>1, FracType
<1>3. Parts(c, k, e)
  <2>1. (-b.num) * e = (-n) * b.den
    BY <1>1
  <2>2. QED
    BY <1>2, <2>1 DEF Parts
<1>4. Minus(a, b) = Plus(a, c)
  BY DEF Minus
<1> HIDE DEF c, k
<1>5. Plus(a, c) \in Fraction /\ Parts(Plus(a, c), m + k, e)
  BY <1>2, <1>3, PartsOfPlus
<1>6. QED
  BY <1>2, <1>4, <1>5

\* The cost of some of the coins, over a denominator finer by all of them.
LEMMA PartsOfCost ==
    ASSUME NEW a \in Fraction, NEW e \in Int, NEW m \in Int, Parts(a, m, e),
           NEW qty \in Int, NEW of \in Nat \ {0}
    PROVE  /\ CostOf(a, qty, of) \in Fraction
           /\ Parts(CostOf(a, qty, of), m * qty, e * of)
           /\ Parts(a, m * of, e * of)
<1>1. a.num \in Int /\ a.den \in Nat \ {0} /\ a.num * e = m * a.den
  BY FractionFields DEF Parts
<1> DEFINE num == a.num * qty
           den == a.den * of
<1>2. num \in Int /\ den \in Nat \ {0} /\ CostOf(a, qty, of) = Frac(num, den)
  BY <1>1 DEF CostOf
<1>3. num * (e * of) = (m * qty) * den
  <2> DEFINE an == a.num
             ad == a.den
  <2>1. an \in Int /\ ad \in Int /\ of \in Int /\ an * e = m * ad
    BY <1>1
  <2> HIDE DEF an, ad
  <2>2. (an * qty) * (e * of) = (m * qty) * (ad * of)
    BY <2>1, Scaling
  <2>3. QED
    BY <2>2 DEF an, ad
<1>4. a.num * (e * of) = (m * of) * a.den
  BY <1>1, Scaling
<1> HIDE DEF num, den
<1>5. QED
  BY <1>2, <1>3, <1>4, FracType DEF Parts

LEMMA PartsScaled ==
    ASSUME NEW a \in Fraction, NEW e \in Int, NEW m \in Int, Parts(a, m, e), NEW k \in Int
    PROVE  Parts(a, m * k, e * k)
BY FractionFields, Scaling DEF Parts

\* Fractions compare as their parts do.
LEMMA PartsCompare ==
    ASSUME NEW a \in Fraction, NEW b \in Fraction, NEW e \in Nat \ {0}, NEW m \in Int, NEW n \in Int,
           Parts(a, m, e), Parts(b, n, e)
    PROVE  (Leq(a, b) <=> m <= n) /\ (Same(a, b) <=> m = n)
<1>1. /\ a.num \in Int /\ a.den \in Nat \ {0} /\ b.num \in Int /\ b.den \in Nat \ {0}
      /\ a.num * e = m * a.den /\ b.num * e = n * b.den
  BY FractionFields DEF Parts
<1>2. /\ a.num * b.den <= b.num * a.den <=> m <= n
      /\ a.num * b.den = b.num * a.den <=> m = n
  <2> DEFINE an == a.num
             ad == a.den
             bn == b.num
             bd == b.den
  <2>1. /\ an \in Int /\ ad \in Nat \ {0} /\ bn \in Int /\ bd \in Nat \ {0}
        /\ an * e = m * ad /\ bn * e = n * bd
    BY <1>1
  <2> HIDE DEF an, ad, bn, bd
  <2>2. (an * bd <= bn * ad <=> m <= n) /\ (an * bd = bn * ad <=> m = n)
    BY <2>1, Comparing
  <2>3. QED
    BY <2>2 DEF an, ad, bn, bd
<1>3. QED
  BY <1>2 DEF Leq, Same

\* Two fractions, as parts of one denominator.
LEMMA CommonParts ==
    ASSUME NEW a \in Fraction, NEW b \in Fraction
    PROVE  \E m \in Int, n \in Int, e \in Nat \ {0} : Parts(a, m, e) /\ Parts(b, n, e)
<1>1. a.num \in Int /\ a.den \in Nat \ {0} /\ b.num \in Int /\ b.den \in Nat \ {0}
  BY FractionFields
<1>2. a.num * (a.den * b.den) = (a.num * b.den) * a.den
  BY <1>1
<1>3. b.num * (a.den * b.den) = (b.num * a.den) * b.den
  BY <1>1
<1>4. a.num * b.den \in Int /\ b.num * a.den \in Int /\ a.den * b.den \in Nat \ {0}
  BY <1>1
<1>5. QED
  BY <1>2, <1>3, <1>4 DEF Parts
-----------------------------------------------------------------------------
(* What a trade leaves in the venue's history, and what is read of it. *)

\* The charge of a row; negative when the venue pays a rebate.
ChargeOf(row) == IF venue = "okx" THEN -row.fee ELSE row.fee

\* What may be charged, by the side of the trade.
LEMMA ChargeType ==
    ASSUME NEW side \in Side, NEW charge \in Charge(side)
    PROVE  /\ charge.fee \in {-1, 0, 1} /\ charge.feeIn \in {"base", "quote", "other"}
           /\ side = "sell" => charge.feeIn # "base"
           /\ charge.fee < 0 => venue \in {"okx", "bybit"}
<1> DEFINE ownSide == IF side = "buy" THEN "base" ELSE "quote"
<1>1. ownSide \in {"base", "quote"} /\ (side = "sell" => ownSide # "base")
  BY DEF Side
<1>2. \/ charge = [fee |-> 0, feeIn |-> ownSide]
      \/ venue \in {"kraken", "coinbase"} /\ charge = [fee |-> 1, feeIn |-> "quote"]
      \/ venue \in {"okx", "bybit"} /\ charge = [fee |-> -1, feeIn |-> ownSide]
      \/ charge = [fee |-> 1, feeIn |-> ownSide]
      \/ charge = [fee |-> 1, feeIn |-> "other"]
  <2> HIDE DEF ownSide
  <2>1. \/ charge = [fee |-> 0, feeIn |-> ownSide]
        \/ charge \in (CASE venue \in {"kraken", "coinbase"} -> {[fee |-> 1, feeIn |-> "quote"]}
             [] venue \in {"okx", "bybit"} -> {[fee |-> n, feeIn |-> ownSide] : n \in {-1, 1}}
             [] venue = "bybitClassic" -> {[fee |-> 1, feeIn |-> ownSide]}
             [] OTHER -> {[fee |-> 1, feeIn |-> in] : in \in {ownSide, "other"}})
    BY DEF Charge, ownSide
  <2>2. CASE venue \in {"kraken", "coinbase"}
    BY <2>1, <2>2
  <2>3. CASE venue \in {"okx", "bybit"}
    BY <2>1, <2>3
  <2>4. CASE venue = "bybitClassic"
    BY <2>1, <2>4
  <2>5. CASE venue \notin {"kraken", "coinbase", "okx", "bybit", "bybitClassic"}
    BY <2>1, <2>5
  <2>6. QED
    BY <2>2, <2>3, <2>4, <2>5
<1> HIDE DEF ownSide
<1>3. QED
  BY <1>1, <1>2

\* The row of a trade is typed; parsed, it has the amounts of the trade and, when
\* the venue took something, the charge and its currency.
LEMMA ParseReported ==
    ASSUME venue \in VenueName, NEW side \in Side, NEW qty \in Nat, NEW cost \in Nat,
           NEW stable \in BOOLEAN, NEW charge \in Charge(side)
    PROVE  LET row == Reported(side, qty, cost, stable, charge)
               f == ParseFill(venue, row)
           IN /\ row \in Row /\ f \in FillType
              /\ f.side = side /\ f.qty = qty /\ f.cost = cost /\ f.stable = stable
              /\ f.fee = IF charge.fee > 0 THEN charge.fee ELSE 0
              /\ charge.fee > 0 => f.feeIn = charge.feeIn
              /\ ChargeOf(row) = charge.fee
<1> DEFINE row == Reported(side, qty, cost, stable, charge)
           f == ParseFill(venue, row)
<1>1. /\ charge.fee \in Int /\ -charge.fee \in Int /\ -(-charge.fee) = charge.fee
      /\ charge.feeIn \in Charged
  BY ChargeType DEF Charged
<1>2. /\ row.side = side /\ row.qty = qty /\ row.cost = cost /\ row.stable = stable
      /\ row.fee = IF venue = "okx" THEN -charge.fee ELSE charge.fee
      /\ row.feeIn = IF venue \in {"kraken", "coinbase", "bybitClassic"} THEN "unnamed" ELSE charge.feeIn
  BY DEF Reported
<1>3. row \in Row
  <2> DEFINE fee == IF venue = "okx" THEN -charge.fee ELSE charge.fee
             feeIn == IF venue \in {"kraken", "coinbase", "bybitClassic"} THEN "unnamed" ELSE charge.feeIn
  <2>1. fee \in Int /\ feeIn \in Charged
    BY <1>1 DEF Charged
  <2>2. row = [side |-> side, qty |-> qty, cost |-> cost, stable |-> stable, fee |-> fee, feeIn |-> feeIn]
    BY DEF Reported
  <2> HIDE DEF fee, feeIn, row
  <2>3. QED
    BY <2>1, <2>2 DEF Row
<1>4. ChargeOf(row) = charge.fee
  BY <1>1, <1>2 DEF ChargeOf
<1> HIDE DEF row
<1>5. /\ f \in FillType
      /\ f.side = side /\ f.qty = qty /\ f.cost = cost /\ f.stable = stable
  BY <1>2, <1>3, ParseType
<1>6. /\ f.fee = IF charge.fee > 0 THEN charge.fee ELSE 0
      /\ charge.fee > 0 => f.feeIn = charge.feeIn
  <2>1. ASSUME NEW fee, NEW feeIn
        PROVE  Fill(row, fee, feeIn).fee = (IF fee > 0 THEN fee ELSE 0) /\ Fill(row, fee, feeIn).feeIn = feeIn
    BY DEF Fill
  <2>2. CASE venue \in {"binance", "binancetr", "gateio"}
    <3>1. f = Fill(row, row.fee, row.feeIn) /\ row.fee = charge.fee /\ row.feeIn = charge.feeIn
      BY <1>2, <2>2 DEF ParseFill, BinanceFill, BinanceTrFill, GateioFill
    <3>2. QED
      BY <2>1, <3>1
  <2>3. CASE venue = "okx"
    <3>1. f = Fill(row, -row.fee, row.feeIn) /\ -row.fee = charge.fee /\ row.feeIn = charge.feeIn
      BY <1>1, <1>2, <2>3 DEF ParseFill, OkxFill
    <3>2. QED
      BY <2>1, <3>1
  <2>4. CASE venue \in {"kraken", "coinbase"}
    <3>1. f = Fill(row, row.fee, "quote") /\ row.fee = charge.fee
      BY <1>2, <2>4 DEF ParseFill, KrakenFill, CoinbaseFill
    <3>2. charge.fee > 0 => charge.feeIn = "quote"
      <4>1. \/ charge = [fee |-> 0, feeIn |-> IF side = "buy" THEN "base" ELSE "quote"]
            \/ charge = [fee |-> 1, feeIn |-> "quote"]
        BY <2>4 DEF Charge
      <4>2. QED
        BY <4>1
    <3>3. QED
      BY <2>1, <3>1, <3>2
  <2>5. CASE venue = "bybit"
    <3>1. row.feeIn = charge.feeIn /\ row.fee = charge.fee /\ charge.feeIn # "unnamed"
      BY <1>2, <2>5, ChargeType
    <3>2. f = Fill(row, row.fee, row.feeIn)
      BY <2>5, <3>1 DEF ParseFill, BybitFill
    <3>3. QED
      BY <2>1, <3>1, <3>2
  <2>6. CASE venue = "bybitClassic"
    <3>1. /\ f = Fill(row, row.fee, IF side = "buy" THEN "base" ELSE "quote")
          /\ row.fee = charge.fee
      BY <1>2, <2>6 DEF ParseFill, BybitFill
    <3>2. charge.feeIn = IF side = "buy" THEN "base" ELSE "quote"
      <4> DEFINE ownSide == IF side = "buy" THEN "base" ELSE "quote"
      <4>1. Charge(side) = {[fee |-> 0, feeIn |-> ownSide]} \cup {[fee |-> 1, feeIn |-> ownSide]}
        BY <2>6 DEF Charge
      <4> HIDE DEF ownSide
      <4>2. charge.feeIn = ownSide
        BY <4>1
      <4>3. QED
        BY <4>2 DEF ownSide
    <3>3. QED
      BY <2>1, <3>1, <3>2
  <2>7. QED
    BY <2>2, <2>3, <2>4, <2>5, <2>6 DEF VenueName
<1>7. QED
  BY <1>3, <1>4, <1>5, <1>6 DEF row
-----------------------------------------------------------------------------
(* The steps, as the books see them, and the types. *)

Basis == [held : Nat, deposited : Nat, withdrawn : Nat, bought : Nat, sold : Nat,
          otherSold : Nat, rows : Nat]
Walks == [i : Nat, pos : Positions, counted : Nat, otherSeen : Nat, exact : BOOLEAN]

RequestsTyped ==
    /\ pc \in [Req -> {"idle"} \cup Running \cup Over]
    /\ order \in [Req -> Order \cup {None}]
    /\ \A r \in Req : pc[r] \notin {"idle", "failed"} => order[r] \in Order
    /\ begun \in Seq(Req) /\ overlap \subseteq Req

BooksTyped ==
    /\ venue \in Venues /\ trades \in Seq(Row)
    /\ held \in Nat /\ deposited \in Nat /\ withdrawn \in Nat
    /\ bought \in Nat /\ sold \in Nat /\ otherSold \in Nat /\ outside \in Nat
    /\ Position(venue, trades) \in Positions /\ Sound(Position(venue, trades))

BasisTyped ==
    /\ basis = None => walk = NoWalk
    /\ basis # None => /\ basis \in Basis /\ basis.held > 0
                       /\ basis.sold <= sold /\ basis.rows <= Len(trades)

WalkTyped == walk \in Walks /\ Sound(walk.pos) /\ walk.i <= Len(trades)

\* A trade for at least one coin.
Traded(side, qty, cost, stable, charge) ==
    /\ side \in Side /\ qty \in Nat \ {0} /\ cost \in Nat /\ stable \in BOOLEAN
    /\ charge \in Charge(side)
    /\ Trade(side, qty, cost, stable, charge)
    /\ UNCHANGED <<venue, deposited, withdrawn, basis, walk>>

\* Everything else leaves the history alone.
NotTraded ==
    /\ UNCHANGED <<venue, trades, bought, sold, otherSold>>
    /\ \/ UNCHANGED <<held, deposited, withdrawn, basis, walk>>
       \/ /\ held' = held + 1 /\ deposited' = deposited + 1
          /\ UNCHANGED <<withdrawn, basis, walk>>
       \/ /\ held > 0 /\ held' = held - 1 /\ withdrawn' = withdrawn + 1
          /\ UNCHANGED <<deposited, basis, walk>>
       \/ ReadHoldings \/ TakeRow \/ ReadTrades

\* What is placed: the venue fills so much of the order at a price.
Filled(r, price, qty) ==
    [side |-> order[r].side, usd |-> order[r].usd, amount |-> Answered(qty),
     whole |-> (qty * price = order[r].usd)]

\* What an order that is placed leads to.
LEMMA PlaceFills ==
    ASSUME RequestsTyped, NEW r \in Req, Place(r)
    PROVE  \E price \in Nat \ {0}, qty \in Nat :
              /\ order[r] \in Order /\ qty * price <= order[r].usd
              /\ Filled(r, price, qty) \in Order /\ order' = [order EXCEPT ![r] = Filled(r, price, qty)]
              /\ \/ qty = 0 /\ UNCHANGED <<trades, held, bought, sold, otherSold>>
                 \/ /\ qty > 0
                    /\ \E charge \in Charge(order[r].side) :
                          Trade(order[r].side, qty, qty * price, TRUE, charge)
<1>1. order[r] \in Order
  BY DEF RequestsTyped, Place
<1> DEFINE old == order[r]
           Fills1(price, qty) ==
              \/ qty = 0 /\ UNCHANGED <<trades, held, bought, sold, otherSold>>
              \/ /\ qty > 0
                 /\ \E charge \in Charge(old.side) : Trade(old.side, qty, qty * price, TRUE, charge)
<1>2. PICK price \in Prices : \E qty \in 0..(old.usd \div price) :
        /\ Fills1(price, qty)
        /\ order' = [order EXCEPT ![r].amount = Answered(qty), ![r].whole = (qty * price = old.usd)]
  BY DEF Place
<1>3. PICK qty \in 0..(old.usd \div price) :
        /\ Fills1(price, qty)
        /\ order' = [order EXCEPT ![r].amount = Answered(qty), ![r].whole = (qty * price = old.usd)]
  BY <1>2
<1> HIDE DEF Fills1
<1>4. price \in Nat \ {0} /\ old.usd \in Nat /\ old.side \in Side
  BY <1>1, BooksAssumption DEF Order
<1>5. qty \in Nat /\ qty * price <= old.usd
  <2> DEFINE usd == old.usd
             most == usd \div price
  <2>1. usd \in Nat /\ most \in Nat /\ price * most <= usd
    BY <1>4
  <2>2. qty \in Nat /\ qty <= most
    BY <1>3, <2>1
  <2> HIDE DEF usd, most
  <2>3. price * qty <= price * most /\ qty * price = price * qty
    BY <1>4, <2>1, <2>2
  <2> DEFINE x == qty * price
             y == price * most
  <2>4. x \in Nat /\ y \in Nat /\ x <= y /\ y <= usd
    BY <1>4, <2>1, <2>2, <2>3
  <2> HIDE DEF x, y
  <2>5. x <= usd
    BY <2>1, <2>4
  <2>6. QED
    BY <2>2, <2>5 DEF x, usd
<1> DEFINE amount == Answered(qty)
           whole == (qty * price = old.usd)
<1>6. amount \in Nat \cup {None} /\ whole \in BOOLEAN
  BY <1>5 DEF Answered
<1>7. /\ old = [side |-> old.side, usd |-> old.usd, amount |-> old.amount, whole |-> old.whole]
      /\ order' = [order EXCEPT ![r] = [[old EXCEPT !.amount = amount] EXCEPT !.whole = whole]]
  BY <1>1, <1>3 DEF RequestsTyped, Order
<1>8. Filled(r, price, qty) = [side |-> old.side, usd |-> old.usd, amount |-> amount, whole |-> whole]
  BY DEF Filled
<1> HIDE DEF old, amount, whole
<1>9. [[old EXCEPT !.amount = amount] EXCEPT !.whole = whole]
        = [side |-> old.side, usd |-> old.usd, amount |-> amount, whole |-> whole]
  <2> DEFINE mid == [old EXCEPT !.amount = amount]
  <2>1. mid = [side |-> old.side, usd |-> old.usd, amount |-> amount, whole |-> old.whole]
    BY <1>7
  <2> HIDE DEF mid
  <2>2. [mid EXCEPT !.whole = whole]
          = [side |-> old.side, usd |-> old.usd, amount |-> amount, whole |-> whole]
    BY <2>1
  <2>3. QED
    BY <2>2 DEF mid
<1>10. Filled(r, price, qty) \in Order
  BY <1>4, <1>6, <1>8 DEF Order
<1>11. order' = [order EXCEPT ![r] = Filled(r, price, qty)]
  BY <1>7, <1>8, <1>9
<1>12. QED
  BY <1>1, <1>3, <1>4, <1>5, <1>10, <1>11 DEF Fills1, old

\* Every step trades, or leaves the history alone.
LEMMA KindOfStep ==
    ASSUME RequestsTyped, [Next]_vars
    PROVE  \/ \E side, qty, cost, stable, charge : Traded(side, qty, cost, stable, charge)
           \/ NotTraded
<1>1. ASSUME NEW r \in Req, Begin(r) \/ Record(r) \/ NotFilled(r)
      PROVE  NotTraded
  BY <1>1 DEF Begin, Record, NotFilled, NotTraded
<1>2. ASSUME NEW r \in Req, Place(r)
      PROVE  \/ \E side, qty, cost, stable, charge : Traded(side, qty, cost, stable, charge)
             \/ NotTraded
  <2>1. PICK price \in Nat \ {0}, qty \in Nat :
          /\ order[r] \in Order
          /\ \/ qty = 0 /\ UNCHANGED <<trades, held, bought, sold, otherSold>>
             \/ /\ qty > 0
                /\ \E charge \in Charge(order[r].side) :
                      Trade(order[r].side, qty, qty * price, TRUE, charge)
    BY <1>2, PlaceFills
  <2>2. UNCHANGED <<venue, deposited, withdrawn, basis, walk>>
    BY <1>2 DEF Place
  <2>3. CASE qty = 0 /\ UNCHANGED <<trades, held, bought, sold, otherSold>>
    BY <2>2, <2>3 DEF NotTraded
  <2>4. CASE qty > 0 /\ \E charge \in Charge(order[r].side) :
                Trade(order[r].side, qty, qty * price, TRUE, charge)
    <3>1. PICK charge \in Charge(order[r].side) : Trade(order[r].side, qty, qty * price, TRUE, charge)
      BY <2>4
    <3>2. order[r].side \in Side /\ qty \in Nat \ {0} /\ qty * price \in Nat
      BY <2>1, <2>4 DEF Order
    <3>3. Traded(order[r].side, qty, qty * price, TRUE, charge)
      BY <2>2, <3>1, <3>2 DEF Traded
    <3>4. QED
      BY <3>3
  <2>5. QED
    BY <2>1, <2>3, <2>4
<1>3. ASSUME OutsideTrade
      PROVE  \E side, qty, cost, stable, charge : Traded(side, qty, cost, stable, charge)
  <2>1. PICK t \in Outside : \E charge \in Charge(t.side) :
          Trade(t.side, t.qty, t.qty * t.price, t.stable, charge)
    BY <1>3 DEF OutsideTrade
  <2>2. PICK charge \in Charge(t.side) : Trade(t.side, t.qty, t.qty * t.price, t.stable, charge)
    BY <2>1
  <2>3. t.side \in Side /\ t.qty \in Nat \ {0} /\ t.price \in Nat \ {0} /\ t.stable \in BOOLEAN
    BY BooksAssumption DEF OutsideTrades
  <2>4. t.qty * t.price \in Nat
    BY <2>3
  <2>5. UNCHANGED <<venue, deposited, withdrawn, basis, walk>>
    BY <1>3 DEF OutsideTrade
  <2>6. Traded(t.side, t.qty, t.qty * t.price, t.stable, charge)
    BY <2>2, <2>3, <2>4, <2>5 DEF Traded
  <2>7. QED
    BY <2>6
<1>4. ASSUME Deposit \/ Withdraw \/ UNCHANGED vars
      PROVE  NotTraded
  BY <1>4 DEF Deposit, Withdraw, vars, NotTraded
<1>5. ASSUME ReadHoldings \/ TakeRow \/ ReadTrades
      PROVE  NotTraded
  <2>1. UNCHANGED <<venue, trades, bought, sold, otherSold>>
    BY <1>5 DEF ReadHoldings, TakeRow, ReadTrades
  <2>2. QED
    BY <1>5, <2>1 DEF NotTraded
<1>6. QED
  BY <1>1, <1>2, <1>3, <1>4, <1>5 DEF Next

\* A trade adds its row to the history, and its fill to the position.
LEMMA TradeGrows ==
    ASSUME BooksTyped,
           NEW side, NEW qty, NEW cost, NEW stable, NEW charge,
           Traded(side, qty, cost, stable, charge)
    PROVE  LET row == Reported(side, qty, cost, stable, charge) IN
           /\ venue \in VenueName
           /\ trades' \in Seq(Row)
           /\ Len(trades) \in Nat /\ Len(trades') = Len(trades) + 1
           /\ \A i \in 1..Len(trades) : trades[i] \in Row /\ trades'[i] = trades[i]
           /\ trades'[Len(trades) + 1] = row
           /\ ParseFill(venue, row) \in FillType
           /\ Position(venue, trades)' = Take(Position(venue, trades), ParseFill(venue, row))
<1> DEFINE row == Reported(side, qty, cost, stable, charge)
<1>1. venue \in VenueName /\ venue' = venue /\ trades' = Append(trades, row)
  BY BooksAssumption DEF BooksTyped, Traded, Trade
<1>2. row \in Row /\ ParseFill(venue, row) \in FillType
  BY <1>1, ParseReported DEF Traded
<1> HIDE DEF row
<1>3. trades \in Seq(Row)
  BY DEF BooksTyped
<1>4. /\ trades' \in Seq(Row) /\ Len(trades) \in Nat /\ Len(trades') = Len(trades) + 1
      /\ DOMAIN trades = 1..Len(trades) /\ DOMAIN trades' = 1..Len(trades) + 1
      /\ \A i \in 1..Len(trades) : trades[i] \in Row /\ trades'[i] = trades[i]
      /\ trades'[Len(trades) + 1] = row
  BY <1>1, <1>2, <1>3
<1>5. Position(venue, trades') = Take(Position(venue, trades), ParseFill(venue, trades'[Len(trades) + 1]))
  <2> DEFINE n == Len(trades)
             rows == trades
             more == trades'
  <2>1. n \in Nat /\ DOMAIN rows = 1..n /\ DOMAIN more = 1..n + 1 /\ \A i \in 1..n : more[i] = rows[i]
    BY <1>4
  <2> HIDE DEF n, rows, more
  <2>2. Position(venue, more) = Take(Position(venue, rows), ParseFill(venue, more[n + 1]))
    BY <2>1, PositionOfMore
  <2>3. QED
    BY <2>2 DEF n, rows, more
<1>6. Position(venue, trades)' = Position(venue, trades')
  BY <1>1
<1>7. QED
  BY <1>1, <1>2, <1>4, <1>5, <1>6 DEF row

\* The types are kept, one group of variables after the other.
LEMMA RequestsStayTyped ==
    ASSUME RequestsTyped, [Next]_vars
    PROVE  RequestsTyped'
<1>1. ASSUME NEW r \in Req, Begin(r) PROVE RequestsTyped'
  <2>1. PICK side \in Side, usd \in Amounts :
          order' = [order EXCEPT ![r] = [side |-> side, usd |-> usd, amount |-> None, whole |-> FALSE]]
    BY <1>1 DEF Begin
  <2> DEFINE o == [side |-> side, usd |-> usd, amount |-> None, whole |-> FALSE]
  <2>2. o \in Order
    BY BooksAssumption DEF Order
  <2>3. order' = [order EXCEPT ![r] = o]
    BY <2>1
  <2> HIDE DEF o
  <2>4. order' \in [Req -> Order \cup {None}] /\ order'[r] \in Order
        /\ \A q \in Req \ {r} : order'[q] = order[q]
    BY <2>2, <2>3 DEF RequestsTyped
  <2>5. pc' \in [Req -> {"idle"} \cup Running \cup Over] /\ \A q \in Req \ {r} : pc'[q] = pc[q]
    BY <1>1 DEF Begin, RequestsTyped, Running
  <2>6. begun' \in Seq(Req) /\ overlap' \subseteq Req
    BY <1>1 DEF Begin, RequestsTyped
  <2>7. QED
    BY <2>4, <2>5, <2>6 DEF RequestsTyped
<1>2. ASSUME NEW r \in Req, Place(r) PROVE RequestsTyped'
  <2>1. PICK price \in Nat \ {0}, qty \in Nat :
          Filled(r, price, qty) \in Order /\ order' = [order EXCEPT ![r] = Filled(r, price, qty)]
    BY <1>2, PlaceFills
  <2>2. order' \in [Req -> Order \cup {None}] /\ order'[r] \in Order
        /\ \A q \in Req \ {r} : order'[q] = order[q]
    BY <2>1 DEF RequestsTyped
  <2>3. pc' \in [Req -> {"idle"} \cup Running \cup Over] /\ \A q \in Req \ {r} : pc'[q] = pc[q]
    BY <1>2 DEF Place, RequestsTyped, Running
  <2>4. begun' \in Seq(Req) /\ overlap' \subseteq Req
    BY <1>2 DEF Place, RequestsTyped
  <2>5. QED
    BY <2>2, <2>3, <2>4 DEF RequestsTyped
<1>3. ASSUME NEW r \in Req, Record(r) \/ NotFilled(r) PROVE RequestsTyped'
  <2>1. /\ pc' \in [Req -> {"idle"} \cup Running \cup Over]
        /\ \A q \in Req \ {r} : pc'[q] = pc[q]
        /\ Record(r) => pc[r] = "record"
        /\ NotFilled(r) => pc'[r] = "failed"
    BY <1>3 DEF Record, NotFilled, RequestsTyped, Running, Over
  <2>2. /\ UNCHANGED <<begun, overlap>>
        /\ Record(r) => order' = order
        /\ NotFilled(r) => order' = [order EXCEPT ![r] = None]
    BY <1>3 DEF Record, NotFilled
  <2>3. /\ order' \in [Req -> Order \cup {None}]
        /\ \A q \in Req \ {r} : order'[q] = order[q]
        /\ Record(r) => order'[r] = order[r]
    BY <1>3, <2>2 DEF RequestsTyped
  <2>4. \A q \in Req : pc'[q] \notin {"idle", "failed"} => order'[q] \in Order
    BY <1>3, <2>1, <2>3 DEF RequestsTyped
  <2>5. QED
    BY <2>1, <2>2, <2>3, <2>4 DEF RequestsTyped
<1>4. ASSUME OutsideTrade \/ Deposit \/ Withdraw \/ ReadHoldings \/ TakeRow \/ ReadTrades \/ UNCHANGED vars
      PROVE  RequestsTyped'
  BY <1>4 DEF OutsideTrade, Deposit, Withdraw, ReadHoldings, TakeRow, ReadTrades, vars, RequestsTyped
<1>5. QED
  BY <1>1, <1>2, <1>3, <1>4 DEF Next

LEMMA BooksStayTyped ==
    ASSUME RequestsTyped, BooksTyped, [Next]_vars
    PROVE  BooksTyped'
<1>1. outside' \in Nat
  <2>1. outside \in Nat
    BY DEF BooksTyped
  <2>2. ASSUME NEW r \in Req, Begin(r) \/ Place(r) \/ Record(r) \/ NotFilled(r)
        PROVE  outside' = outside
    BY <2>2 DEF Begin, Place, Record, NotFilled
  <2>3. OutsideTrade => outside' = outside + 1
    BY DEF OutsideTrade
  <2>4. Deposit \/ Withdraw \/ ReadHoldings \/ TakeRow \/ ReadTrades \/ UNCHANGED vars => outside' = outside
    BY DEF Deposit, Withdraw, ReadHoldings, TakeRow, ReadTrades, vars
  <2>5. QED
    BY <2>1, <2>2, <2>3, <2>4 DEF Next
<1>2. ASSUME NEW side, NEW qty, NEW cost, NEW stable, NEW charge,
             Traded(side, qty, cost, stable, charge)
      PROVE  BooksTyped'
  <2>1. Position(venue, trades)' \in Positions /\ Sound(Position(venue, trades)')
    <3> DEFINE f == ParseFill(venue, Reported(side, qty, cost, stable, charge))
               pos == Position(venue, trades)
    <3>1. f \in FillType /\ Position(venue, trades)' = Take(pos, f)
      BY <1>2, TradeGrows
    <3>2. pos \in Positions /\ Sound(pos)
      BY DEF BooksTyped
    <3> HIDE DEF f, pos
    <3>3. QED
      BY <3>1, <3>2, TakeType
  <2>2. trades' \in Seq(Row)
    BY <1>2, TradeGrows
  <2>3. /\ charge.fee \in {-1, 0, 1} /\ (side = "sell" => charge.feeIn # "base")
        /\ side \in {"buy", "sell"} /\ qty \in Nat \ {0} /\ stable \in BOOLEAN
    BY <1>2, ChargeType DEF Traded, Side
  <2>4. /\ held \in Nat /\ bought \in Nat /\ sold \in Nat /\ otherSold \in Nat
        /\ side = "sell" => qty <= held
        /\ held' = held + (IF side = "buy" THEN qty ELSE -qty) - (IF charge.feeIn = "base" THEN charge.fee ELSE 0)
        /\ bought' = bought + (IF side = "buy" /\ stable THEN held' - held ELSE 0)
        /\ sold' = sold + (IF side = "sell" /\ stable THEN qty ELSE 0)
        /\ otherSold' = otherSold + (IF side = "sell" /\ ~stable THEN qty ELSE 0)
    BY <1>2 DEF BooksTyped, Traded, Trade
  <2>5. held' \in Nat /\ (side = "buy" => held' >= held)
    BY <2>3, <2>4
  <2>6. bought' \in Nat /\ sold' \in Nat /\ otherSold' \in Nat
    BY <2>3, <2>4, <2>5
  <2>7. UNCHANGED <<venue, deposited, withdrawn>>
    BY <1>2 DEF Traded
  <2>8. Sound(Position(venue, trades))'
    BY <2>1 DEF Sound
  <2>9. QED
    BY <1>1, <2>1, <2>2, <2>5, <2>6, <2>7, <2>8 DEF BooksTyped
<1>3. CASE NotTraded
  <2>1. /\ held \in Nat /\ deposited \in Nat /\ withdrawn \in Nat
    BY DEF BooksTyped
  <2>2. held' \in Nat /\ deposited' \in Nat /\ withdrawn' \in Nat
    BY <1>3, <2>1 DEF NotTraded, ReadHoldings, TakeRow, ReadTrades
  <2>3. UNCHANGED <<venue, trades, bought, sold, otherSold>>
    BY <1>3 DEF NotTraded
  <2>4. Position(venue, trades)' = Position(venue, trades)
    BY <2>3
  <2>5. QED
    BY <1>1, <2>2, <2>3, <2>4 DEF BooksTyped, Sound
<1>4. QED
  BY <1>2, <1>3, KindOfStep

\* Nothing is walked at first, nor between two computations.
LEMMA NoWalkTyped ==
    /\ NoWalk \in Walks /\ NoWalk.pos = NoPosition /\ NoWalk.i = 0
    /\ NoWalk.counted = 0 /\ NoWalk.otherSeen = 0 /\ Sound(NoWalk.pos)
    /\ NoPosition \in Positions /\ NoPosition.qty = 0 /\ NoPosition.skipped = FALSE
<1>1. Frac(0, 1) \in Cost /\ Frac(0, 1).num = 0
  BY DEF Frac, Cost
<1>2. /\ NoPosition \in Positions /\ Sound(NoPosition)
      /\ NoPosition.qty = 0 /\ NoPosition.skipped = FALSE
  BY <1>1 DEF NoPosition, Positions, Sound
<1>3. /\ NoWalk.pos = NoPosition /\ NoWalk.i = 0 /\ NoWalk.counted = 0 /\ NoWalk.otherSeen = 0
      /\ NoWalk \in Walks
  BY <1>2 DEF NoWalk, Walks
<1>4. QED
  BY <1>2, <1>3

\* What a fill that is taken up to twice does to a position.
LEMMA TimesTaken ==
    ASSUME NEW pos \in Positions, Sound(pos), NEW f \in FillType, NEW n \in {0, 1, 2}
    PROVE  LET new == TakeTimes(pos, f, n) IN
           /\ new \in Positions /\ Sound(new)
           /\ n = 1 => new = Take(pos, f)
           /\ new.skipped = (pos.skipped \/ (n > 0 /\ ~f.stable))
           /\ Credited(f) \in Nat
           /\ new.qty <= pos.qty + n * Credited(f)
           /\ f.stable /\ f.side = "buy" => new.qty >= pos.qty
<1> DEFINE one == Take(pos, f)
           two == Take(one, f)
<1>1. one \in Positions /\ Sound(one)
  BY TakeType
<1> HIDE DEF one
<1>2. two \in Positions /\ Sound(two)
  BY <1>1, TakeType
<1>3. f.qty \in Nat /\ f.fee \in Nat /\ f.stable \in BOOLEAN /\ f.side \in {"buy", "sell"}
  BY DEF FillType, Side
<1>4. Received(f) \in Int
  BY <1>3 DEF Received
<1>5. Credited(f) \in Nat
  BY <1>4 DEF Credited
<1>6. ASSUME NEW p \in Positions
      PROVE  /\ Take(p, f).skipped = (p.skipped \/ ~f.stable)
             /\ Take(p, f).qty <= p.qty + Credited(f)
             /\ f.stable /\ f.side = "buy" => Take(p, f).qty >= p.qty
  <2>1. p.qty \in Nat
    BY DEF Positions
  <2>2. /\ Take(p, f).skipped = (p.skipped \/ ~f.stable)
        /\ f.side = "buy" /\ f.stable =>
              Take(p, f).qty = p.qty + (IF f.qty > 0 /\ Received(f) > 0 THEN Received(f) ELSE 0)
        /\ f.side = "sell" /\ f.stable =>
              Take(p, f).qty = IF p.qty <= f.qty THEN 0 ELSE p.qty - f.qty
        /\ ~f.stable => Take(p, f).qty = p.qty
    BY TakenCoins
  <2>3. CASE f.side = "buy" /\ f.stable
    BY <1>4, <2>1, <2>2, <2>3 DEF Credited
  <2>4. CASE f.side = "sell" /\ f.stable
    BY <1>3, <1>5, <2>1, <2>2, <2>4
  <2>5. CASE ~f.stable
    BY <1>5, <2>1, <2>2, <2>5
  <2>6. QED
    BY <1>3, <2>3, <2>4, <2>5
<1>7. /\ one.skipped = (pos.skipped \/ ~f.stable) /\ one.qty <= pos.qty + Credited(f)
      /\ f.stable /\ f.side = "buy" => one.qty >= pos.qty
  BY <1>6 DEF one
<1>8. /\ two.skipped = (one.skipped \/ ~f.stable) /\ two.qty <= one.qty + Credited(f)
      /\ f.stable /\ f.side = "buy" => two.qty >= one.qty
  BY <1>1, <1>6
<1>9. pos.qty \in Nat /\ one.qty \in Nat /\ two.qty \in Nat /\ pos.skipped \in BOOLEAN
  BY <1>1, <1>2 DEF Positions
<1>10. /\ n = 0 => TakeTimes(pos, f, n) = pos
       /\ n = 1 => TakeTimes(pos, f, n) = one
       /\ n = 2 => TakeTimes(pos, f, n) = two
  BY DEF TakeTimes, one
<1> HIDE DEF two
<1>11. CASE n = 0
  BY <1>5, <1>9, <1>10, <1>11
<1>12. CASE n = 1
  BY <1>1, <1>5, <1>7, <1>9, <1>10, <1>12 DEF one
<1>13. CASE n = 2
  BY <1>1, <1>2, <1>3, <1>5, <1>7, <1>8, <1>9, <1>10, <1>13
<1>14. QED
  BY <1>11, <1>12, <1>13

\* How far the walk is once the fill f was taken n times.
Walked(f, n) ==
    [i |-> walk.i + 1, pos |-> TakeTimes(walk.pos, f, n),
     counted |-> walk.counted + n * Credited(f),
     otherSeen |-> walk.otherSeen + (IF n > 0 THEN SoldForOther(f) ELSE 0),
     exact |-> walk.exact /\ n = 1]

\* The next row of the history is taken up to twice.
LEMMA RowTaken ==
    ASSUME BooksTyped, WalkTyped, TakeRow
    PROVE  \E n \in {0, 1, 2}, f \in Fills :
              /\ walk' = Walked(f, n) /\ walk'.pos = TakeTimes(walk.pos, f, n)
              /\ walk.i + 1 \in 1..Len(trades) /\ f = ParseFill(venue, trades[walk.i + 1])
              /\ f \in FillType /\ f.stable = trades[walk.i + 1].stable
              /\ f.side = trades[walk.i + 1].side
<1> DEFINE k == walk.i + 1
           row == trades[k]
           f == ParseFill(venue, row)
<1>1. /\ k \in 1..Len(trades) /\ row \in Row /\ venue \in VenueName
  <2>1. walk.i \in Nat /\ Len(trades) \in Nat /\ walk.i < Len(trades) /\ trades \in Seq(Row)
    BY DEF WalkTyped, Walks, TakeRow, BooksTyped
  <2>2. venue \in VenueName
    BY BooksAssumption DEF BooksTyped
  <2>3. QED
    BY <2>1, <2>2
<1>2. Deliveries(row) \subseteq {0, 1, 2}
  BY DEF Deliveries
<1>3. PICK n \in Deliveries(row) : walk' = Walked(f, n)
  BY DEF TakeRow, Walked
<1>4. f \in Fills
  BY <1>1 DEF Fills
<1> HIDE DEF k, row
<1>5. f \in FillType /\ f.stable = row.stable /\ f.side = row.side
  BY <1>1, ParseType
<1> HIDE DEF f
<1>6. walk'.pos = TakeTimes(walk.pos, f, n)
  BY <1>3 DEF Walked
<1>7. QED
  BY <1>1, <1>2, <1>3, <1>4, <1>5, <1>6 DEF f, row, k

LEMMA BasisStaysTyped ==
    ASSUME RequestsTyped, BooksTyped, BasisTyped, [Next]_vars
    PROVE  BasisTyped'
<1>1. /\ held \in Nat /\ deposited \in Nat /\ withdrawn \in Nat /\ bought \in Nat /\ sold \in Nat
      /\ otherSold \in Nat /\ Len(trades) \in Nat
  BY DEF BooksTyped
<1>2. ASSUME NEW side, NEW qty, NEW cost, NEW stable, NEW charge,
             Traded(side, qty, cost, stable, charge)
      PROVE  BasisTyped'
  <2>1. basis' = basis /\ walk' = walk /\ sold <= sold' /\ sold' \in Nat
    BY <1>1, <1>2 DEF Traded, Trade
  <2>2. Len(trades) <= Len(trades') /\ Len(trades') \in Nat
    BY <1>1, <1>2, TradeGrows
  <2>3. CASE basis = None
    BY <2>1, <2>3 DEF BasisTyped
  <2>4. CASE basis # None
    <3>1. basis \in Basis /\ basis.held > 0 /\ basis.sold <= sold /\ basis.rows <= Len(trades)
      BY <2>4 DEF BasisTyped
    <3>2. basis.sold \in Nat /\ basis.rows \in Nat
      BY <3>1 DEF Basis
    <3>3. basis.sold <= sold' /\ basis.rows <= Len(trades')
      BY <1>1, <2>1, <2>2, <3>1, <3>2
    <3>4. QED
      BY <2>1, <2>4, <3>1, <3>3 DEF BasisTyped
  <2>5. QED
    BY <2>3, <2>4
<1>3. CASE NotTraded
  <2>1. sold' = sold /\ trades' = trades
    BY <1>3 DEF NotTraded
  <2>2. CASE UNCHANGED <<basis, walk>>
    BY <2>1, <2>2 DEF BasisTyped
  <2>3. CASE ReadHoldings
    <3>1. /\ held > 0
          /\ basis' = [held |-> held, deposited |-> deposited, withdrawn |-> withdrawn,
                       bought |-> bought, sold |-> sold, otherSold |-> otherSold,
                       rows |-> Len(trades)]
      BY <2>3 DEF ReadHoldings
    <3> DEFINE new == basis'
    <3>2. new \in Basis /\ new.held > 0 /\ new.sold <= sold /\ new.rows <= Len(trades)
      BY <1>1, <3>1 DEF Basis
    <3>3. walk' = NoWalk
      BY <2>3 DEF ReadHoldings, BasisTyped
    <3>4. QED
      BY <2>1, <3>2, <3>3 DEF BasisTyped
  <2>4. CASE TakeRow
    <3>1. basis' = basis /\ basis # None
      BY <2>4 DEF TakeRow
    <3>2. QED
      BY <2>1, <3>1 DEF BasisTyped
  <2>5. CASE ReadTrades
    BY <2>5 DEF ReadTrades, BasisTyped
  <2>6. QED
    BY <1>3, <2>2, <2>3, <2>4, <2>5 DEF NotTraded
<1>4. QED
  BY <1>2, <1>3, KindOfStep

LEMMA WalkStaysTyped ==
    ASSUME RequestsTyped, BooksTyped, WalkTyped, [Next]_vars
    PROVE  WalkTyped'
<1>1. /\ walk \in Walks /\ Sound(walk.pos) /\ walk.i <= Len(trades)
      /\ walk.i \in Nat /\ walk.pos \in Positions /\ walk.counted \in Nat /\ walk.otherSeen \in Nat
      /\ walk.exact \in BOOLEAN /\ Len(trades) \in Nat
  BY DEF WalkTyped, Walks, BooksTyped
<1>2. Sound(walk.pos)' <=> Sound(walk'.pos)
  BY DEF Sound
<1>3. ASSUME NEW side, NEW qty, NEW cost, NEW stable, NEW charge,
             Traded(side, qty, cost, stable, charge)
      PROVE  WalkTyped'
  <2>1. walk' = walk /\ Len(trades') = Len(trades) + 1
    BY <1>3, TradeGrows DEF Traded
  <2>2. QED
    BY <1>1, <1>2, <2>1 DEF WalkTyped
<1>4. CASE NotTraded
  <2>1. trades' = trades
    BY <1>4 DEF NotTraded
  <2>2. CASE walk' = walk
    BY <1>1, <1>2, <2>1, <2>2 DEF WalkTyped
  <2>3. CASE walk' = NoWalk
    BY <1>1, <1>2, <2>1, <2>3, NoWalkTyped DEF WalkTyped
  <2>4. CASE TakeRow
    <3>1. PICK n \in {0, 1, 2}, f \in Fills :
            /\ walk' = Walked(f, n) /\ walk.i + 1 \in 1..Len(trades) /\ f \in FillType
      BY <2>4, RowTaken
    <3> DEFINE pos == walk.pos
               new == TakeTimes(pos, f, n)
    <3>2. new \in Positions /\ Sound(new) /\ Credited(f) \in Nat
      <4>1. pos \in Positions /\ Sound(pos)
        BY <1>1
      <4> HIDE DEF pos
      <4>2. QED
        BY <3>1, <4>1, TimesTaken
    <3>3. SoldForOther(f) \in Nat
      BY <3>1 DEF SoldForOther, FillType
    <3> HIDE DEF new
    <3>4. /\ walk'.i = walk.i + 1 /\ walk'.pos = new
          /\ walk' = [i |-> walk.i + 1, pos |-> new, counted |-> walk.counted + n * Credited(f),
                      otherSeen |-> walk.otherSeen + (IF n > 0 THEN SoldForOther(f) ELSE 0),
                      exact |-> walk.exact /\ n = 1]
      BY <3>1 DEF Walked, new
    <3>5. /\ walk.i + 1 \in Nat /\ walk.i + 1 <= Len(trades)
          /\ walk.counted + n * Credited(f) \in Nat
          /\ walk.otherSeen + (IF n > 0 THEN SoldForOther(f) ELSE 0) \in Nat
      <4> DEFINE c == Credited(f)
                 o == SoldForOther(f)
      <4>1. c \in Nat /\ o \in Nat
        BY <3>2, <3>3
      <4> HIDE DEF c, o
      <4>2. n * c \in Nat /\ (IF n > 0 THEN o ELSE 0) \in Nat
        BY <4>1
      <4> DEFINE m == n * c
                 p == IF n > 0 THEN o ELSE 0
      <4> HIDE DEF m, p
      <4>3. walk.counted + m \in Nat /\ walk.otherSeen + p \in Nat
        BY <1>1, <4>2 DEF m, p
      <4>4. walk.i + 1 \in Nat /\ walk.i + 1 <= Len(trades)
        BY <1>1, <3>1
      <4>5. QED
        BY <4>3, <4>4 DEF c, o, m, p
    <3>6. walk' \in Walks
      BY <3>2, <3>4, <3>5 DEF Walks
    <3>7. QED
      BY <1>2, <2>1, <3>2, <3>4, <3>5, <3>6 DEF WalkTyped
  <2>5. QED
    BY <1>4, <2>2, <2>3, <2>4 DEF NotTraded, ReadHoldings, ReadTrades
<1>5. QED
  BY <1>3, <1>4, KindOfStep
-----------------------------------------------------------------------------
(* What the position has, what the account holds and what the walk counts. *)

Pos == Position(venue, trades)

\* The position after the first n rows.
Upto(n) == Position(venue, [i \in 1..n |-> trades[i]])

LEMMA UptoNone == Upto(0) = NoPosition
<1>1. DOMAIN [i \in 1..0 |-> trades[i]] = {}
  OBVIOUS
<1>2. QED
  BY <1>1, PositionOfNone DEF Upto

LEMMA UptoAll ==
    ASSUME BooksTyped
    PROVE  Upto(Len(trades)) = Pos
<1>1. trades \in Seq(Row)
  BY DEF BooksTyped
<1>2. trades = [i \in 1..Len(trades) |-> trades[i]]
  BY <1>1
<1>3. QED
  BY <1>2 DEF Upto, Pos

LEMMA UptoMore ==
    ASSUME NEW n \in Nat
    PROVE  Upto(n + 1) = Take(Upto(n), ParseFill(venue, trades[n + 1]))
<1> DEFINE rows == [i \in 1..n |-> trades[i]]
           more == [i \in 1..n + 1 |-> trades[i]]
<1>1. /\ DOMAIN rows = 1..n /\ DOMAIN more = 1..n + 1 /\ \A i \in 1..n : more[i] = rows[i]
      /\ more[n + 1] = trades[n + 1]
  OBVIOUS
<1> HIDE DEF rows, more
<1>2. Position(venue, more) = Take(Position(venue, rows), ParseFill(venue, more[n + 1]))
  BY <1>1, PositionOfMore
<1>3. QED
  BY <1>1, <1>2 DEF Upto, rows, more

\* The venue paid a rebate for a trade.
RebatePaid ==
    venue \in {"okx", "bybit"} /\ \E i \in 1..Len(trades) : ChargeOf(trades[i]) < 0

\* The history alone can explain the holdings.
Undisturbed == (\A f \in Fills : f.stable) /\ ~RebatePaid

\* The account has at least what came in and did not go out, whatever came by
\* trades for other coins; undisturbed, the position has all of it.
HeldHasAll == held >= deposited - withdrawn + bought - sold - otherSold
PositionHasAll == Undisturbed /\ deposited = 0 => Pos.qty >= held + withdrawn

\* The walk has at most what it counted, and tells what it cannot count.
WalkCounts ==
    /\ walk.pos.qty <= walk.counted
    /\ walk.otherSeen > 0 => walk.pos.skipped
    /\ Undisturbed => ~walk.pos.skipped

\* With every row taken once it is at the position after those rows.
WalkIsExact == walk.exact => walk.pos = Upto(walk.i)

\* What was true of the account is true of the holdings that were read.
BasisHasAll ==
    basis # None =>
        basis.held >= basis.deposited - basis.withdrawn + basis.bought - basis.sold - basis.otherSold
RowsHaveAll ==
    basis # None /\ Undisturbed /\ basis.deposited = 0 => Upto(basis.rows).qty >= basis.held

NoSaleSince ==
    basis # None /\ sold = basis.sold =>
        \A i \in 1..Len(trades) :
            i > basis.rows /\ trades[i].stable => trades[i].side = "buy"

\* An exact walk past the rows of then has all that was held then.
WalkHasAll ==
    /\ basis # None /\ Undisturbed /\ basis.deposited = 0 /\ sold = basis.sold
    /\ walk.exact /\ walk.i >= basis.rows
    => walk.pos.qty >= basis.held

Covered == /\ HeldHasAll /\ PositionHasAll
           /\ WalkCounts /\ WalkIsExact
           /\ BasisHasAll /\ RowsHaveAll /\ NoSaleSince /\ WalkHasAll

\* What a trade does to the coins of the account and of the position.
LEMMA TradedCoins ==
    ASSUME BooksTyped,
           NEW side, NEW qty, NEW cost, NEW stable, NEW charge,
           Traded(side, qty, cost, stable, charge)
    PROVE  /\ qty \in Nat \ {0} /\ Pos.qty \in Nat /\ Pos'.qty \in Nat
           /\ held' \in Int /\ bought' \in Int /\ sold' \in Int /\ otherSold' \in Int
           /\ held' - (bought' - sold' - otherSold') >= held - (bought - sold - otherSold)
           /\ stable /\ side = "buy" =>
                 /\ charge.fee >= 0 => Pos'.qty - Pos.qty = held' - held
                 /\ sold' = sold
           /\ stable /\ side = "sell" =>
                 /\ Pos'.qty = IF Pos.qty <= qty THEN 0 ELSE Pos.qty - qty
                 /\ held' = held - qty /\ qty <= held
                 /\ sold' = sold + qty
           /\ ~stable => sold' = sold
           /\ side \in {"buy", "sell"} /\ stable \in BOOLEAN
<1> DEFINE f == ParseFill(venue, Reported(side, qty, cost, stable, charge))
<1>1. /\ side \in Side /\ qty \in Nat \ {0} /\ cost \in Nat /\ stable \in BOOLEAN
      /\ charge \in Charge(side) /\ venue \in VenueName
  BY TradeGrows DEF Traded
<1>2. /\ f \in FillType
      /\ f.side = side /\ f.qty = qty /\ f.cost = cost /\ f.stable = stable
      /\ f.fee = IF charge.fee > 0 THEN charge.fee ELSE 0
      /\ charge.fee > 0 => f.feeIn = charge.feeIn
  <2>1. qty \in Nat
    BY <1>1
  <2>2. QED
    BY <1>1, <2>1, ParseReported
<1>3. Pos \in Positions /\ Pos' = Take(Pos, f)
  BY TradeGrows DEF Pos, BooksTyped
<1>4. Pos.qty \in Nat /\ Pos.skipped \in BOOLEAN /\ Pos'.qty \in Nat
  <2>1. Sound(Pos) /\ f \in FillType
    BY <1>2 DEF Pos, BooksTyped
  <2> HIDE DEF f
  <2>2. Pos' \in Positions
    BY <1>3, <2>1, TakeType
  <2>3. QED
    BY <1>3, <2>2 DEF Positions
<1> HIDE DEF f
<1>5. /\ charge.fee \in {-1, 0, 1} /\ (side = "sell" => charge.feeIn # "base")
      /\ side \in {"buy", "sell"}
  BY <1>1, ChargeType DEF Side
<1>6. /\ held \in Nat /\ bought \in Nat /\ sold \in Nat /\ otherSold \in Nat
      /\ side = "sell" => qty <= held
      /\ held' = held + (IF side = "buy" THEN qty ELSE -qty) - (IF charge.feeIn = "base" THEN charge.fee ELSE 0)
      /\ bought' = bought + (IF side = "buy" /\ stable THEN held' - held ELSE 0)
      /\ sold' = sold + (IF side = "sell" /\ stable THEN qty ELSE 0)
      /\ otherSold' = otherSold + (IF side = "sell" /\ ~stable THEN qty ELSE 0)
  BY DEF BooksTyped, Traded, Trade
<1>7. /\ held' \in Int /\ (side = "buy" => held' >= held) /\ (side = "sell" => held' = held - qty)
  BY <1>1, <1>5, <1>6
<1>8. /\ bought' \in Int /\ sold' \in Int /\ otherSold' \in Int
      /\ held' - (bought' - sold' - otherSold') >= held - (bought - sold - otherSold)
  BY <1>1, <1>5, <1>6, <1>7
<1>9. ASSUME stable, side = "buy", charge.fee >= 0
      PROVE  Pos'.qty - Pos.qty = held' - held
  <2>1. Pos'.qty = Pos.qty + (IF qty > 0 /\ Received(f) > 0 THEN Received(f) ELSE 0)
    <3>1. f \in FillType /\ f.side = "buy" /\ f.stable /\ f.qty = qty
      BY <1>2, <1>9
    <3>2. Take(Pos, f).qty
            = Pos.qty + (IF f.qty > 0 /\ Received(f) > 0 THEN Received(f) ELSE 0)
      BY <1>3, <3>1, TakenCoins
    <3>3. QED
      BY <1>3, <3>1, <3>2
  <2>2. Received(f) = IF charge.fee > 0 /\ charge.feeIn = "base" THEN qty - 1 ELSE qty
    <3>1. CASE charge.fee > 0
      BY <1>1, <1>2, <1>5, <3>1 DEF Received
    <3>2. CASE ~(charge.fee > 0)
      BY <1>1, <1>2, <1>5, <3>2 DEF Received
    <3>3. QED
      BY <3>1, <3>2
  <2>3. Received(f) \in Nat /\ Pos'.qty = Pos.qty + Received(f)
    BY <1>1, <1>4, <2>1, <2>2
  <2>4. held' = held + qty - (IF charge.feeIn = "base" THEN charge.fee ELSE 0)
    BY <1>6, <1>9
  <2>5. QED
    BY <1>1, <1>4, <1>5, <1>6, <1>9, <2>2, <2>3, <2>4
<1>10. ASSUME stable, side = "sell"
       PROVE  Pos'.qty = IF Pos.qty <= qty THEN 0 ELSE Pos.qty - qty
  BY <1>2, <1>3, <1>10, TakenCoins
<1>11. QED
  BY <1>1, <1>4, <1>5, <1>6, <1>7, <1>8, <1>9, <1>10

\* What a trade adds to what was charged and filled.
LEMMA TradedRows ==
    ASSUME BooksTyped,
           NEW side, NEW qty, NEW cost, NEW stable, NEW charge,
           Traded(side, qty, cost, stable, charge)
    PROVE  LET f == ParseFill(venue, Reported(side, qty, cost, stable, charge)) IN
           /\ RebatePaid \/ charge.fee < 0 => RebatePaid'
           /\ Fills' = Fills \cup {f}
           /\ Pos' = Take(Pos, f)
           /\ f \in FillType /\ f.stable = stable /\ f.side = side /\ f.qty = qty /\ f.cost = cost
<1> DEFINE row == Reported(side, qty, cost, stable, charge)
           f == ParseFill(venue, row)
           n == Len(trades)
<1>1. /\ side \in Side /\ qty \in Nat /\ cost \in Nat /\ stable \in BOOLEAN
      /\ charge \in Charge(side) /\ venue \in VenueName /\ venue' = venue
  BY TradeGrows DEF Traded
<1>2. /\ f \in FillType /\ f.stable = stable /\ ChargeOf(row) = charge.fee
      /\ f.side = side /\ f.qty = qty /\ f.cost = cost
  BY <1>1, ParseReported
<1>3. /\ n \in Nat /\ Len(trades') = n + 1
      /\ \A i \in 1..n : trades'[i] = trades[i]
      /\ trades'[n + 1] = row
      /\ Pos' = Take(Pos, f)
  BY TradeGrows DEF Pos
<1>4. \A x : ChargeOf(x)' = ChargeOf(x)
  BY <1>1 DEF ChargeOf
<1>5. charge.fee < 0 => venue \in {"okx", "bybit"}
  BY <1>1, ChargeType
<1>6. RebatePaid' <=> /\ venue \in {"okx", "bybit"}
                      /\ \E i \in 1..Len(trades') : ChargeOf(trades'[i]) < 0
  BY <1>1 DEF RebatePaid, ChargeOf
<1>7. Fills' = {ParseFill(venue, trades'[i]) : i \in 1..Len(trades')}
  BY <1>1 DEF Fills
<1> HIDE DEF row
<1>8. RebatePaid \/ charge.fee < 0 => RebatePaid'
  <2>1. CASE RebatePaid
    <3>1. PICK i \in 1..n : ChargeOf(trades[i]) < 0
      BY <2>1 DEF RebatePaid
    <3>2. i \in 1..Len(trades') /\ trades'[i] = trades[i]
      BY <1>3
    <3>3. QED
      BY <1>6, <2>1, <3>1, <3>2 DEF RebatePaid
  <2>2. CASE charge.fee < 0
    <3>1. n + 1 \in 1..Len(trades')
      BY <1>3
    <3>2. QED
      BY <1>2, <1>3, <1>5, <1>6, <2>2, <3>1
  <2>3. QED
    BY <2>1, <2>2
<1>9. Fills' = Fills \cup {f}
  <2>1. 1..Len(trades') = 1..n \cup {n + 1}
    BY <1>3
  <2> HIDE DEF n
  <2>2. Fills' = {ParseFill(venue, trades'[i]) : i \in 1..n} \cup {ParseFill(venue, trades'[n + 1])}
    BY <1>7, <2>1
  <2>3. {ParseFill(venue, trades'[i]) : i \in 1..n} = {ParseFill(venue, trades[i]) : i \in 1..n}
    BY <1>3
  <2>4. Fills = {ParseFill(venue, trades[i]) : i \in 1..n}
    BY DEF Fills, n
  <2>5. QED
    BY <1>3, <2>2, <2>3, <2>4
<1>10. QED
  BY <1>2, <1>3, <1>8, <1>9 DEF row

\* A trade leaves what was walked, and what was read, where it is.
LEMMA TradeLeaves ==
    ASSUME BooksTyped, BasisTyped,
           NEW side, NEW qty, NEW cost, NEW stable, NEW charge,
           Traded(side, qty, cost, stable, charge)
    PROVE  /\ Undisturbed' => Undisturbed /\ stable /\ charge.fee >= 0
           /\ \A n \in 0..Len(trades) : Upto(n)' = Upto(n)
           /\ basis # None /\ sold' = basis.sold => sold = basis.sold /\ (stable => side = "buy")
<1> DEFINE f == ParseFill(venue, Reported(side, qty, cost, stable, charge))
<1>1. /\ RebatePaid \/ charge.fee < 0 => RebatePaid'
      /\ Fills' = Fills \cup {f} /\ f.stable = stable
  BY TradedRows
<1>2. charge.fee \in Int
  BY ChargeType DEF Traded
<1> HIDE DEF f
<1>3. Undisturbed' => Undisturbed /\ stable /\ charge.fee >= 0
  BY <1>1, <1>2 DEF Undisturbed
<1>4. ASSUME NEW n \in 0..Len(trades) PROVE Upto(n)' = Upto(n)
  <2>1. /\ Len(trades) \in Nat /\ venue' = venue
        /\ \A i \in 1..Len(trades) : trades'[i] = trades[i]
    BY TradeGrows DEF Traded
  <2>2. [i \in 1..n |-> trades'[i]] = [i \in 1..n |-> trades[i]]
    BY <2>1
  <2>3. QED
    BY <2>1, <2>2 DEF Upto
<1>5. ASSUME basis # None, sold' = basis.sold
      PROVE  sold = basis.sold /\ (stable => side = "buy")
  <2>1. basis.sold <= sold /\ basis.sold \in Nat /\ sold \in Nat
    BY <1>5 DEF BasisTyped, Basis, BooksTyped
  <2>2. /\ qty \in Nat \ {0} /\ side \in {"buy", "sell"} /\ stable \in BOOLEAN
        /\ stable /\ side = "buy" => sold' = sold
        /\ stable /\ side = "sell" => sold' = sold + qty
        /\ ~stable => sold' = sold
    BY TradedCoins
  <2>3. QED
    BY <1>5, <2>1, <2>2
<1>6. QED
  BY <1>3, <1>4, <1>5

\* A trade keeps the books covered.
LEMMA TradeKeepsCovered ==
    ASSUME BooksTyped, BasisTyped, WalkTyped, Covered,
           NEW side, NEW qty, NEW cost, NEW stable, NEW charge,
           Traded(side, qty, cost, stable, charge)
    PROVE  Covered'
<1> DEFINE old == Pos.qty
           new == Pos'.qty
           h == held'
<1>1. /\ held \in Nat /\ deposited \in Nat /\ withdrawn \in Nat /\ bought \in Nat /\ sold \in Nat
      /\ otherSold \in Nat /\ Len(trades) \in Nat /\ charge.fee \in Int
      /\ walk.i \in 0..Len(trades)
  BY ChargeType DEF BooksTyped, Traded, WalkTyped, Walks
<1>2. UNCHANGED <<venue, deposited, withdrawn, basis, walk>>
  BY DEF Traded
<1>3. basis # None => basis.rows \in 0..Len(trades) /\ basis.rows \in Nat
  BY <1>1 DEF BasisTyped, Basis
<1>4. /\ Undisturbed' => Undisturbed /\ stable /\ charge.fee >= 0
      /\ \A n \in 0..Len(trades) : Upto(n)' = Upto(n)
      /\ basis # None /\ sold' = basis.sold => sold = basis.sold /\ (stable => side = "buy")
  BY TradeLeaves
<1>5. HeldHasAll'
  <2>1. /\ held' \in Int /\ bought' \in Int /\ sold' \in Int /\ otherSold' \in Int
        /\ held' - (bought' - sold' - otherSold') >= held - (bought - sold - otherSold)
    BY TradedCoins
  <2>2. held >= deposited - withdrawn + bought - sold - otherSold
    BY DEF Covered, HeldHasAll
  <2> DEFINE b == bought'
             s == sold'
             o == otherSold'
  <2>3. /\ h \in Int /\ b \in Int /\ s \in Int /\ o \in Int
        /\ h - (b - s - o) >= held - (bought - sold - otherSold)
    BY <2>1
  <2> HIDE DEF h, b, s, o
  <2>4. h >= deposited - withdrawn + b - s - o
    BY <1>1, <2>2, <2>3
  <2>5. QED
    BY <1>2, <2>4 DEF HeldHasAll, h, b, s, o
<1>6. PositionHasAll'
  <2>1. /\ old \in Nat /\ new \in Nat /\ qty \in Nat \ {0} /\ side \in {"buy", "sell"} /\ h \in Int
        /\ stable /\ side = "buy" /\ charge.fee >= 0 => new - old = h - held
        /\ stable /\ side = "sell" =>
              (new = IF old <= qty THEN 0 ELSE old - qty) /\ h = held - qty /\ qty <= held
    BY TradedCoins
  <2>2. Undisturbed /\ deposited = 0 => old >= held + withdrawn
    BY DEF Covered, PositionHasAll, old
  <2> HIDE DEF old, new, h
  <2>3. SUFFICES ASSUME Undisturbed', deposited = 0 PROVE new >= h + withdrawn
    BY <1>2 DEF PositionHasAll, new, h
  <2>4. old >= held + withdrawn /\ stable /\ charge.fee >= 0
    BY <1>4, <2>2, <2>3
  <2>5. CASE side = "buy"
    BY <1>1, <2>1, <2>4, <2>5
  <2>6. CASE side = "sell"
    BY <1>1, <2>1, <2>4, <2>6
  <2>7. QED
    BY <2>1, <2>5, <2>6
<1>7. WalkCounts' /\ WalkIsExact' /\ BasisHasAll' /\ RowsHaveAll'
  <2>1. WalkCounts /\ WalkIsExact /\ BasisHasAll /\ RowsHaveAll
    BY DEF Covered
  <2>2. WalkCounts' /\ BasisHasAll'
    BY <1>2, <1>4, <2>1 DEF WalkCounts, BasisHasAll
  <2>3. Upto(walk.i)' = Upto(walk.i)
    <3>1. \A n \in 0..Len(trades) : Upto(n)' = Upto(n)
      BY <1>4
    <3>2. Upto(walk.i)' = Position(venue', [i \in 1..walk'.i |-> trades'[i]])
      BY DEF Upto
    <3>3. \A n : Upto(n)' = Position(venue', [i \in 1..n |-> trades'[i]])
      BY DEF Upto
    <3>4. QED
      BY <1>1, <1>2, <3>1, <3>2, <3>3
  <2>4. WalkIsExact'
    BY <1>2, <2>1, <2>3 DEF WalkIsExact
  <2>5. basis # None => Upto(basis.rows)' = Upto(basis.rows)
    <3>1. \A n \in 0..Len(trades) : Upto(n)' = Upto(n)
      BY <1>4
    <3>2. Upto(basis.rows)' = Position(venue', [i \in 1..basis'.rows |-> trades'[i]])
      BY DEF Upto
    <3>3. \A n : Upto(n)' = Position(venue', [i \in 1..n |-> trades'[i]])
      BY DEF Upto
    <3>4. QED
      BY <1>2, <1>3, <3>1, <3>2, <3>3
  <2>6. RowsHaveAll'
    BY <1>2, <1>4, <2>1, <2>5 DEF RowsHaveAll
  <2>7. QED
    BY <2>2, <2>4, <2>6
<1>8. NoSaleSince'
  <2>1. SUFFICES ASSUME basis # None, sold' = basis.sold,
                        NEW i \in 1..Len(trades'), i > basis.rows, trades'[i].stable
                 PROVE  trades'[i].side = "buy"
    BY <1>2 DEF NoSaleSince
  <2> DEFINE row == Reported(side, qty, cost, stable, charge)
  <2>2. /\ Len(trades') = Len(trades) + 1 /\ \A k \in 1..Len(trades) : trades'[k] = trades[k]
        /\ trades'[Len(trades) + 1] = row
    BY TradeGrows
  <2>3. CASE i \in 1..Len(trades)
    <3>1. \A k \in 1..Len(trades) : k > basis.rows /\ trades[k].stable => trades[k].side = "buy"
      BY <1>4, <2>1 DEF Covered, NoSaleSince
    <3>2. QED
      BY <2>1, <2>2, <2>3, <3>1
  <2>4. CASE i = Len(trades) + 1
    <3>1. row.stable = stable /\ row.side = side
      BY DEF Reported
    <3> HIDE DEF row
    <3>2. QED
      BY <1>4, <2>1, <2>2, <2>4, <3>1
  <2>5. QED
    BY <1>1, <2>1, <2>2, <2>3, <2>4
<1>9. WalkHasAll'
  BY <1>2, <1>4 DEF Covered, WalkHasAll
<1>10. QED
  BY <1>5, <1>6, <1>7, <1>8, <1>9 DEF Covered

\* So does reading the holdings: what is true of the account is true of them.
LEMMA HoldingsKeepCovered ==
    ASSUME BooksTyped, BasisTyped, WalkTyped, Covered, ReadHoldings
    PROVE  Covered'
<1> DEFINE new == basis'
<1>1. /\ held \in Nat /\ deposited \in Nat /\ withdrawn \in Nat /\ Len(trades) \in Nat
      /\ Pos.qty \in Nat
  BY DEF BooksTyped, Pos, Positions
<1>2. /\ new.held = held /\ new.deposited = deposited /\ new.withdrawn = withdrawn
      /\ new.bought = bought /\ new.sold = sold /\ new.otherSold = otherSold
      /\ new.rows = Len(trades)
  BY DEF ReadHoldings
<1>3. /\ UNCHANGED <<venue, trades, held, deposited, withdrawn, bought, sold, otherSold, walk>>
      /\ basis = None
  BY DEF ReadHoldings
<1>4. walk = NoWalk
  BY <1>3 DEF BasisTyped
<1>5. Undisturbed' = Undisturbed /\ Pos' = Pos
  BY <1>3 DEF Undisturbed, Fills, RebatePaid, ChargeOf, Pos
<1>6. HeldHasAll' /\ PositionHasAll' /\ WalkCounts'
  BY <1>3, <1>5 DEF Covered, HeldHasAll, PositionHasAll, WalkCounts
<1>7. WalkIsExact'
  <2>1. Upto(walk.i)' = Upto(walk.i)
    BY <1>3 DEF Upto
  <2>2. QED
    BY <1>3, <2>1 DEF Covered, WalkIsExact
<1>8. BasisHasAll'
  <2>1. new.held >= new.deposited - new.withdrawn + new.bought - new.sold - new.otherSold
    BY <1>2 DEF Covered, HeldHasAll
  <2>2. QED
    BY <2>1 DEF BasisHasAll
<1>9. RowsHaveAll'
  <2>1. Upto(basis.rows)' = Pos
    <3>1. Upto(basis.rows)' = Position(venue', [i \in 1..basis'.rows |-> trades'[i]])
      BY DEF Upto
    <3>2. Upto(Len(trades)) = Pos
      BY UptoAll
    <3>3. QED
      BY <1>2, <1>3, <3>1, <3>2 DEF Upto
  <2>2. Undisturbed /\ deposited = 0 => Pos.qty >= held
    BY <1>1 DEF Covered, PositionHasAll
  <2>3. QED
    BY <1>2, <1>5, <2>1, <2>2 DEF RowsHaveAll
<1>10. NoSaleSince'
  BY <1>1, <1>2, <1>3 DEF NoSaleSince
<1>11. WalkHasAll'
  <2>1. SUFFICES ASSUME Undisturbed, deposited = 0, walk.i >= Len(trades) PROVE walk.pos.qty >= held
    BY <1>2, <1>3, <1>5 DEF WalkHasAll
  <2>2. Len(trades) = 0
    BY <1>1, <1>4, <2>1, NoWalkTyped
  <2>3. Pos = NoPosition
    BY <2>2, UptoAll, UptoNone
  <2>4. Pos.qty >= held
    BY <1>1, <2>1 DEF Covered, PositionHasAll
  <2>5. QED
    BY <1>4, <2>3, <2>4, NoWalkTyped
<1>12. QED
  BY <1>6, <1>7, <1>8, <1>9, <1>10, <1>11 DEF Covered

\* So does a row, however often it is delivered.
LEMMA RowKeepsCovered ==
    ASSUME BooksTyped, BasisTyped, WalkTyped, Covered, TakeRow
    PROVE  Covered'
<1>1. /\ UNCHANGED <<venue, trades, held, deposited, withdrawn, bought, sold, otherSold, basis>>
      /\ basis # None
  BY DEF TakeRow
<1>2. Undisturbed' = Undisturbed /\ Pos' = Pos
  BY <1>1 DEF Undisturbed, Fills, RebatePaid, ChargeOf, Pos
<1>3. PICK n \in {0, 1, 2}, f \in Fills :
        /\ walk' = Walked(f, n)
        /\ walk.i + 1 \in 1..Len(trades) /\ f = ParseFill(venue, trades[walk.i + 1])
        /\ f \in FillType /\ f.stable = trades[walk.i + 1].stable
        /\ f.side = trades[walk.i + 1].side
  BY RowTaken
<1> DEFINE pos == walk.pos
           new == TakeTimes(pos, f, n)
           c == Credited(f)
<1>4. /\ walk.i \in Nat /\ pos \in Positions /\ Sound(pos) /\ walk.counted \in Nat
      /\ walk.otherSeen \in Nat /\ pos.qty \in Nat /\ pos.skipped \in BOOLEAN
      /\ walk.exact \in BOOLEAN
  BY DEF WalkTyped, Walks, Positions
<1>5. /\ walk'.i = walk.i + 1 /\ walk'.pos = new
      /\ walk'.counted = walk.counted + n * c
      /\ walk'.otherSeen = walk.otherSeen + (IF n > 0 THEN SoldForOther(f) ELSE 0)
      /\ walk'.exact = (walk.exact /\ n = 1)
  BY <1>3 DEF Walked
<1>6. /\ new \in Positions /\ (n = 1 => new = Take(pos, f))
      /\ new.skipped = (pos.skipped \/ (n > 0 /\ ~f.stable))
      /\ c \in Nat /\ new.qty <= pos.qty + n * c
      /\ f.stable /\ f.side = "buy" => new.qty >= pos.qty
  <2>1. pos \in Positions /\ Sound(pos) /\ f \in FillType
    BY <1>3, <1>4
  <2> HIDE DEF pos
  <2>2. LET next == TakeTimes(pos, f, n) IN
        /\ next \in Positions /\ Sound(next)
        /\ n = 1 => next = Take(pos, f)
        /\ next.skipped = (pos.skipped \/ (n > 0 /\ ~f.stable))
        /\ Credited(f) \in Nat
        /\ next.qty <= pos.qty + n * Credited(f)
        /\ f.stable /\ f.side = "buy" => next.qty >= pos.qty
    BY <2>1, TimesTaken
  <2>3. QED
    BY <2>2
<1>7. new.qty \in Nat
  BY <1>6 DEF Positions
<1> HIDE DEF new, c, pos
<1>8. HeldHasAll' /\ PositionHasAll' /\ BasisHasAll'
  BY <1>1, <1>2 DEF Covered, HeldHasAll, PositionHasAll, BasisHasAll
<1>9. RowsHaveAll' /\ NoSaleSince'
  <2>1. Upto(basis.rows)' = Upto(basis.rows)
    BY <1>1 DEF Upto
  <2>2. QED
    BY <1>1, <1>2, <2>1 DEF Covered, RowsHaveAll, NoSaleSince
<1>10. WalkCounts'
  <2>1. /\ pos.qty <= walk.counted /\ (walk.otherSeen > 0 => pos.skipped)
        /\ Undisturbed => ~pos.skipped
    BY DEF Covered, WalkCounts, pos
  <2>2. new.qty <= walk.counted + n * c
    <3>1. n * c \in Nat
      BY <1>6
    <3> DEFINE m == n * c
    <3> HIDE DEF m
    <3>2. m \in Nat /\ new.qty <= pos.qty + m
      BY <1>6, <3>1 DEF m
    <3>3. new.qty <= walk.counted + m
      BY <1>4, <1>7, <2>1, <3>2
    <3>4. QED
      BY <3>3 DEF m
  <2>3. walk'.otherSeen > 0 => new.skipped
    <3>1. CASE n > 0 /\ ~f.stable
      BY <1>6, <3>1
    <3>2. CASE ~(n > 0 /\ ~f.stable)
      <4>1. walk'.otherSeen = walk.otherSeen
        BY <1>3, <1>4, <1>5, <3>2 DEF SoldForOther
      <4>2. QED
        BY <1>6, <2>1, <4>1
    <3>3. QED
      BY <3>1, <3>2
  <2>4. Undisturbed => ~new.skipped
    BY <1>3, <1>6, <2>1 DEF Undisturbed
  <2>5. QED
    BY <1>2, <1>5, <2>2, <2>3, <2>4 DEF WalkCounts
<1>11. walk'.exact => walk'.pos = Upto(walk.i + 1)
  <2>1. SUFFICES ASSUME walk.exact, n = 1 PROVE new = Upto(walk.i + 1)
    BY <1>5
  <2>2. pos = Upto(walk.i)
    BY <2>1 DEF Covered, WalkIsExact, pos
  <2>3. new = Take(pos, ParseFill(venue, trades[walk.i + 1]))
    BY <1>3, <1>6, <2>1
  <2> DEFINE k == walk.i
  <2>4. k \in Nat
    BY <1>4
  <2> HIDE DEF k
  <2>5. Upto(k + 1) = Take(Upto(k), ParseFill(venue, trades[k + 1]))
    BY <2>4, UptoMore
  <2>6. QED
    BY <2>2, <2>3, <2>5 DEF k
<1>12. WalkIsExact'
  <2>1. Upto(walk.i)' = Upto(walk.i + 1)
    BY <1>1, <1>5 DEF Upto
  <2>2. QED
    BY <1>11, <2>1 DEF WalkIsExact
<1>13. WalkHasAll'
  <2>1. SUFFICES ASSUME Undisturbed, basis.deposited = 0, sold = basis.sold, walk.exact, n = 1,
                        walk.i + 1 >= basis.rows
                 PROVE  new.qty >= basis.held
    BY <1>1, <1>2, <1>5 DEF WalkHasAll
  <2>2. /\ basis.rows \in Nat /\ basis.held \in Nat
    BY <1>1 DEF BasisTyped, Basis
  <2>3. CASE walk.i + 1 = basis.rows
    <3>1. new = Upto(basis.rows)
      BY <1>5, <1>11, <2>1, <2>3
    <3>2. QED
      BY <1>1, <2>1, <3>1 DEF Covered, RowsHaveAll
  <2>4. CASE walk.i >= basis.rows
    <3>1. pos.qty >= basis.held
      BY <1>1, <2>1, <2>4 DEF Covered, WalkHasAll, pos
    <3>2. f.stable
      BY <1>3, <2>1 DEF Undisturbed
    <3>3. walk.i + 1 > basis.rows
      BY <1>4, <2>2, <2>4
    <3>4. f.side = "buy"
      <4>1. \A i \in 1..Len(trades) : i > basis.rows /\ trades[i].stable => trades[i].side = "buy"
        BY <1>1, <2>1 DEF Covered, NoSaleSince
      <4>2. QED
        BY <1>3, <3>2, <3>3, <4>1
    <3>5. QED
      BY <1>4, <1>6, <1>7, <2>2, <3>1, <3>2, <3>4
  <2>5. QED
    BY <1>4, <2>1, <2>2, <2>3, <2>4
<1>14. QED
  BY <1>8, <1>9, <1>10, <1>12, <1>13 DEF Covered

\* So does every other step.
LEMMA OthersKeepCovered ==
    ASSUME BooksTyped, BasisTyped, WalkTyped, Covered, NotTraded
    PROVE  Covered'
<1>1. /\ held \in Nat /\ deposited \in Nat /\ withdrawn \in Nat /\ bought \in Nat /\ sold \in Nat
      /\ otherSold \in Nat /\ Pos.qty \in Nat
  BY DEF BooksTyped, Positions, Pos
<1>2. UNCHANGED <<venue, trades, bought, sold, otherSold>>
  BY DEF NotTraded
<1>3. Pos' = Pos /\ Undisturbed' = Undisturbed
  BY <1>2 DEF Pos, Undisturbed, Fills, RebatePaid, ChargeOf
<1>4. CASE UNCHANGED <<basis, walk>>
  <2> DEFINE h == held'
             d == deposited'
             w == withdrawn'
  <2>1. \/ h = held /\ d = deposited /\ w = withdrawn
        \/ h = held + 1 /\ d = deposited + 1 /\ w = withdrawn
        \/ h = held - 1 /\ d = deposited /\ w = withdrawn + 1
    BY DEF NotTraded, ReadHoldings, TakeRow, ReadTrades
  <2> HIDE DEF h, d, w
  <2>2. /\ h \in Int /\ d \in Int /\ w \in Int /\ h - d + w = held - deposited + withdrawn
        /\ d = 0 => deposited = 0 /\ h + w = held + withdrawn
    BY <1>1, <2>1
  <2>3. h >= d - w + bought - sold - otherSold
    BY <1>1, <2>2 DEF Covered, HeldHasAll
  <2>4. Undisturbed /\ d = 0 => Pos.qty >= h + w
    BY <1>1, <2>2 DEF Covered, PositionHasAll
  <2>5. HeldHasAll' /\ PositionHasAll'
    BY <1>2, <1>3, <2>3, <2>4 DEF HeldHasAll, PositionHasAll, h, d, w
  <2>6. Upto(walk.i)' = Upto(walk.i) /\ Upto(basis.rows)' = Upto(basis.rows)
    BY <1>2, <1>4 DEF Upto
  <2>7. WalkCounts' /\ WalkIsExact' /\ BasisHasAll' /\ RowsHaveAll'
    BY <1>2, <1>3, <1>4, <2>6 DEF Covered, WalkCounts, WalkIsExact, BasisHasAll, RowsHaveAll
  <2>8. NoSaleSince' /\ WalkHasAll'
    BY <1>2, <1>3, <1>4 DEF Covered, NoSaleSince, WalkHasAll
  <2>9. QED
    BY <2>5, <2>7, <2>8 DEF Covered
<1>5. CASE ReadTrades
  <2>1. basis' = None /\ walk' = NoWalk /\ UNCHANGED <<held, deposited, withdrawn>>
    BY <1>5 DEF ReadTrades
  <2>2. HeldHasAll' /\ PositionHasAll'
    BY <1>2, <1>3, <2>1 DEF Covered, HeldHasAll, PositionHasAll
  <2>3. WalkCounts'
    BY <2>1, NoWalkTyped DEF WalkCounts
  <2>4. Upto(walk.i)' = NoPosition
    <3>1. Upto(walk.i)' = Position(venue', [i \in 1..walk'.i |-> trades'[i]])
      BY DEF Upto
    <3>2. QED
      BY <1>2, <2>1, <3>1, NoWalkTyped, UptoNone DEF Upto
  <2>5. WalkIsExact'
    BY <2>1, <2>4, NoWalkTyped DEF WalkIsExact
  <2>6. BasisHasAll' /\ RowsHaveAll' /\ NoSaleSince' /\ WalkHasAll'
    BY <2>1 DEF BasisHasAll, RowsHaveAll, NoSaleSince, WalkHasAll
  <2>7. QED
    BY <2>2, <2>3, <2>5, <2>6 DEF Covered
<1>6. QED
  BY <1>4, <1>5, HoldingsKeepCovered, RowKeepsCovered DEF NotTraded

\* At first there is nothing in the books.
LEMMA InitBooks ==
    ASSUME Init
    PROVE  /\ RequestsTyped /\ BooksTyped /\ BasisTyped /\ WalkTyped
           /\ Pos = NoPosition /\ Len(trades) = 0 /\ Fills = {}
<1>1. trades = <<>> /\ Len(trades) = 0 /\ DOMAIN trades = {} /\ 1..Len(trades) = {}
  BY DEF Init
<1>2. Pos = NoPosition
  BY <1>1, PositionOfNone DEF Pos
<1>3. NoPosition \in Positions /\ Sound(NoPosition)
  <2>1. Frac(0, 1) \in Cost /\ Frac(0, 1).num = 0
    BY DEF Frac, Cost
  <2>2. QED
    BY <2>1 DEF NoPosition, Positions, Sound
<1>4. BooksTyped
  BY <1>1, <1>2, <1>3 DEF Init, BooksTyped, Pos
<1>5. RequestsTyped /\ BasisTyped
  BY DEF Init, RequestsTyped, BasisTyped
<1>6. WalkTyped
  BY <1>1, NoWalkTyped DEF Init, WalkTyped
<1>7. QED
  BY <1>1, <1>2, <1>4, <1>5, <1>6 DEF Fills

\* The inductive invariant of the coverage.
Books == RequestsTyped /\ BooksTyped /\ BasisTyped /\ WalkTyped /\ Covered

\* An account of what is held: the account has at least what came in and did not
\* go out, a walk through the history has at most what it counted, and all that
\* was held when it took every row once and nothing but buys came since; the same
\* of the holdings that were read (ReadHoldings, TakeRow: get_cost_basis, get_fills
\* and compute_avco).
THEOREM BooksHold == Spec => []Books
<1>1. ASSUME Init PROVE Books
  <2>1. RequestsTyped /\ BooksTyped /\ BasisTyped /\ WalkTyped /\ Pos = NoPosition
    BY <1>1, InitBooks
  <2>2. /\ held = 0 /\ deposited = 0 /\ withdrawn = 0 /\ bought = 0 /\ sold = 0 /\ otherSold = 0
        /\ basis = None /\ walk = NoWalk
    BY <1>1 DEF Init
  <2>3. HeldHasAll /\ PositionHasAll
    BY <2>1, <2>2, NoWalkTyped DEF HeldHasAll, PositionHasAll
  <2>4. WalkCounts /\ WalkIsExact
    BY <2>2, NoWalkTyped, UptoNone DEF WalkCounts, WalkIsExact
  <2>5. BasisHasAll /\ RowsHaveAll /\ NoSaleSince /\ WalkHasAll
    BY <2>2 DEF BasisHasAll, RowsHaveAll, NoSaleSince, WalkHasAll
  <2>6. QED
    BY <2>1, <2>3, <2>4, <2>5 DEF Books, Covered
<1>2. ASSUME Books, [Next]_vars PROVE Books'
  <2>1. RequestsTyped' /\ BooksTyped' /\ BasisTyped' /\ WalkTyped'
    BY <1>2, RequestsStayTyped, BooksStayTyped, BasisStaysTyped, WalkStaysTyped DEF Books
  <2>2. Covered'
    BY <1>2, KindOfStep, TradeKeepsCovered, OthersKeepCovered DEF Books
  <2>3. QED
    BY <2>1, <2>2 DEF Books
<1>3. QED
  BY <1>1, <1>2, PTL DEF Spec

\* Types: the history is a sequence of rows, what is counted is a number, and the
\* position computed from whatever rows are delivered is never negative and has a
\* cost only as long as it is open (the state of TradeBooks).
THEOREM BooksTypes == Spec => []TypeOK
<1>1. ASSUME Books PROVE TypeOK
  <2>1. RequestsTyped /\ BooksTyped /\ WalkTyped
    BY <1>1 DEF Books
  <2>2. /\ walk.pos.qty \in Nat /\ walk.pos.cost.num \in Nat
        /\ walk.pos.qty = 0 => walk.pos.cost.num = 0
        /\ walk.i \in 0..Len(trades) /\ walk.counted \in Nat
    BY <2>1 DEF BooksTyped, WalkTyped, Walks, Positions, Cost, Sound
  <2>3. QED
    BY <2>1, <2>2 DEF RequestsTyped, BooksTyped, TypeOK
<1>2. QED
  BY <1>1, BooksHold, PTL

\* Whoever is told "full" bought what is held, in trades that the history may
\* deliver not at all or twice (compute_avco and its callers).
THEOREM FullTheorem == Spec => []FullIsExplained
<1>1. ASSUME Books, basis # None, Answer = "full"
      PROVE  CoverDen * (basis.deposited - basis.withdrawn - basis.sold
                         - (basis.otherSold - walk.otherSeen) - (walk.counted - basis.bought))
               <= (CoverDen - CoverNum) * basis.held
  <2>1. /\ ~walk.pos.skipped
        /\ ~(walk.pos.qty * CoverDen < basis.held * CoverNum)
    BY <1>1 DEF Answer, Coverage
  <2>2. /\ walk.pos.qty <= walk.counted /\ (walk.otherSeen > 0 => walk.pos.skipped)
        /\ basis.held >= basis.deposited - basis.withdrawn + basis.bought - basis.sold - basis.otherSold
        /\ basis \in Basis /\ walk \in Walks
    BY <1>1 DEF Books, Covered, WalkCounts, BasisHasAll, BasisTyped, WalkTyped
  <2> DEFINE x == basis.deposited - basis.withdrawn - basis.sold
                  - (basis.otherSold - walk.otherSeen) - (walk.counted - basis.bought)
             q == walk.pos.qty
             h == basis.held
  <2>3. /\ q \in Nat /\ h \in Nat /\ x \in Int /\ q <= h - x
        /\ CoverNum \in Nat /\ CoverDen \in Nat
        /\ ~(q * CoverDen < h * CoverNum)
    <3>1. /\ basis.held \in Nat /\ basis.deposited \in Nat /\ basis.withdrawn \in Nat
          /\ basis.bought \in Nat /\ basis.sold \in Nat /\ basis.otherSold \in Nat
          /\ walk.pos.qty \in Nat /\ walk.counted \in Nat /\ walk.otherSeen \in Nat
      BY <2>2 DEF Basis, Walks, Positions
    <3>2. walk.otherSeen = 0
      BY <2>1, <2>2, <3>1
    <3>3. q <= h - x /\ x \in Int
      BY <2>2, <3>1, <3>2
    <3>4. QED
      BY <2>1, <3>1, <3>3, BooksAssumption
  <2> HIDE DEF x, q, h
  <2>4. CoverDen * x <= (CoverDen - CoverNum) * h
    <3>1. CoverDen * q <= CoverDen * (h - x)
      BY <2>3
    <3>2. CoverDen * (h - x) = CoverDen * h - CoverDen * x
      BY <2>3
    <3>3. (CoverDen - CoverNum) * h = CoverDen * h - h * CoverNum
      BY <2>3
    <3>4. q * CoverDen = CoverDen * q /\ h * CoverNum <= q * CoverDen
      BY <2>3
    <3> DEFINE dq == CoverDen * q
               dh == CoverDen * h
               dx == CoverDen * x
               nh == h * CoverNum
    <3>5. dq \in Int /\ dh \in Int /\ dx \in Int /\ nh \in Int
      BY <2>3
    <3>6. dq <= dh - dx /\ nh <= dq
      BY <3>1, <3>2, <3>4
    <3>7. dx <= dh - nh
      <4> HIDE DEF dq, dh, dx, nh
      <4>1. QED
        BY <3>5, <3>6
    <3>8. QED
      BY <3>3, <3>7
  <2>5. QED
    BY <2>4 DEF x, h
<1>2. Books => FullIsExplained
  BY <1>1 DEF FullIsExplained
<1>3. QED
  BY <1>2, BooksHold, PTL

\* Whoever is told less than "full" has a reason, a history that is cut short or
\* not delivered row by row among them (compute_avco, its partial and its none).
THEOREM PartialTheorem == Spec => []PartialHasAReason
<1>1. ASSUME Books, basis # None, Answer # "full",
             ~(basis.deposited > 0), walk.exact, walk.i >= basis.rows,
             \A f \in Fills : f.stable, ~RebatePaid, ~(sold > basis.sold)
      PROVE  FALSE
  <2>1. /\ basis \in Basis /\ basis.held > 0 /\ basis.sold <= sold
        /\ walk.pos \in Positions /\ Sound(walk.pos) /\ sold \in Nat
    BY <1>1 DEF Books, BasisTyped, BooksTyped, WalkTyped, Walks
  <2>2. /\ walk.pos.qty \in Nat /\ basis.held \in Nat /\ basis.deposited \in Nat /\ basis.sold \in Nat
    BY <2>1 DEF Basis, Positions
  <2>3. Undisturbed
    BY <1>1 DEF Undisturbed
  <2>4. basis.deposited = 0 /\ sold = basis.sold
    BY <1>1, <2>1, <2>2
  <2>5. walk.pos.qty >= basis.held /\ ~walk.pos.skipped
    BY <1>1, <2>3, <2>4 DEF Books, Covered, WalkHasAll, WalkCounts
  <2>6. walk.pos.qty # 0 /\ walk.pos.buys
    BY <2>1, <2>2, <2>5 DEF Sound
  <2>7. ~(walk.pos.qty * CoverDen < basis.held * CoverNum)
    <3> DEFINE q == walk.pos.qty
               h == basis.held
    <3>1. q \in Nat /\ h \in Nat /\ h <= q /\ CoverNum \in Nat /\ CoverDen \in Nat /\ CoverNum <= CoverDen
      BY <2>2, <2>5, BooksAssumption
    <3> HIDE DEF q, h
    <3>2. h * CoverNum <= h * CoverDen /\ h * CoverDen <= q * CoverDen
      BY <3>1
    <3>3. ~(q * CoverDen < h * CoverNum)
      BY <3>1, <3>2
    <3>4. QED
      BY <3>3 DEF q, h
  <2>8. QED
    BY <1>1, <2>5, <2>6, <2>7 DEF Answer, Coverage
<1>2. Books => PartialHasAReason
  BY <1>1 DEF PartialHasAReason, RebatePaid, ChargeOf
<1>3. QED
  BY <1>2, BooksHold, PTL
-----------------------------------------------------------------------------
(* The average price and the prices of the buys. *)

\* Whole numbers: n over d * q is the old average, c over r the price of a buy.
LEMMA Mediant ==
    ASSUME NEW a \in Nat, NEW b \in Nat \ {0}, NEW n \in Nat, NEW d \in Nat \ {0}, NEW q \in Nat \ {0},
           NEW c \in Nat, NEW r \in Nat \ {0}
    PROVE  /\ a * (d * q) <= n * b =>
                 \/ a * (d * (q + r)) <= (n + c * d) * b
                 \/ c * (d * (q + r)) <= (n + c * d) * r
           /\ n * b <= a * (d * q) =>
                 \/ (n + c * d) * b <= a * (d * (q + r))
                 \/ (n + c * d) * r <= c * (d * (q + r))
<1> DEFINE u == a * (d * r)
           v == (c * d) * b
           x == c * (d * q)
           y == n * r
<1>1. /\ a * (d * (q + r)) = a * (d * q) + u
      /\ (n + c * d) * b = n * b + v
      /\ c * (d * (q + r)) = x + (c * d) * r
      /\ (n + c * d) * r = y + (c * d) * r
  <2>1. a * (d * (q + r)) = a * (d * q) + u
    OBVIOUS
  <2>2. (n + c * d) * b = n * b + v
    OBVIOUS
  <2>3. c * (d * (q + r)) = x + (c * d) * r
    OBVIOUS
  <2>4. (n + c * d) * r = y + (c * d) * r
    OBVIOUS
  <2>5. QED
    BY <2>1, <2>2, <2>3, <2>4
<1>2. /\ q * u = (a * (d * q)) * r /\ q * v = x * b /\ (n * b) * r = y * b
  <2>1. q * u = (a * (d * q)) * r
    OBVIOUS
  <2>2. q * v = x * b
    OBVIOUS
  <2>3. (n * b) * r = y * b
    OBVIOUS
  <2>4. QED
    BY <2>1, <2>2, <2>3
<1> DEFINE o == a * (d * q)
           p == n * b
           k == (c * d) * r
<1>3. /\ u \in Int /\ v \in Int /\ x \in Int /\ y \in Int /\ o \in Int /\ p \in Int /\ k \in Int
  OBVIOUS
<1>4. /\ a * (d * (q + r)) = o + u /\ (n + c * d) * b = p + v
      /\ c * (d * (q + r)) = x + k /\ (n + c * d) * r = y + k
      /\ q * u = o * r /\ q * v = x * b /\ p * r = y * b
  BY <1>1, <1>2
<1> HIDE DEF u, v, x, y, o, p, k
<1>5. ASSUME o <= p, y <= x PROVE o + u <= p + v
  <2>1. o * r <= p * r /\ y * b <= x * b
    <3>1. o * r <= p * r
      BY <1>3, <1>5
    <3>2. y * b <= x * b
      BY <1>3, <1>5
    <3>3. QED
      BY <3>1, <3>2
  <2>2. q * u <= q * v
    <3> DEFINE s1 == o * r
               s2 == p * r
               s3 == x * b
    <3>1. s1 \in Int /\ s2 \in Int /\ s3 \in Int /\ s1 <= s2 /\ s2 <= s3 /\ q * u = s1 /\ q * v = s3
      BY <1>3, <1>4, <2>1
    <3> HIDE DEF s1, s2, s3
    <3>2. QED
      BY <3>1
  <2>3. u <= v
    BY <1>3, <2>2
  <2>4. QED
    BY <1>3, <1>5, <2>3
<1>6. ASSUME p <= o, x <= y PROVE p + v <= o + u
  <2>1. p * r <= o * r /\ x * b <= y * b
    <3>1. p * r <= o * r
      BY <1>3, <1>6
    <3>2. x * b <= y * b
      BY <1>3, <1>6
    <3>3. QED
      BY <3>1, <3>2
  <2>2. q * v <= q * u
    <3> DEFINE s1 == o * r
               s2 == p * r
               s3 == x * b
    <3>1. s1 \in Int /\ s2 \in Int /\ s3 \in Int /\ s2 <= s1 /\ s3 <= s2 /\ q * u = s1 /\ q * v = s3
      BY <1>3, <1>4, <2>1
    <3> HIDE DEF s1, s2, s3
    <3>2. QED
      BY <3>1
  <2>3. v <= u
    BY <1>3, <2>2
  <2>4. QED
    BY <1>3, <1>6, <2>3
<1>7. (o <= p => o + u <= p + v \/ x + k <= y + k) /\ (p <= o => p + v <= o + u \/ y + k <= x + k)
  BY <1>3, <1>5, <1>6
<1>8. QED
  BY <1>4, <1>7 DEF o, p

\* A sale scales the cost with the coins.
LEMMA Remaining ==
    ASSUME NEW a \in Nat, NEW b \in Nat \ {0}, NEW n \in Nat, NEW d \in Nat \ {0}, NEW q \in Nat \ {0},
           NEW l \in Nat \ {0}
    PROVE  /\ a * (d * q) <= n * b => a * ((d * q) * l) <= (n * l) * b
           /\ n * b <= a * (d * q) => (n * l) * b <= a * ((d * q) * l)
<1> DEFINE o == a * (d * q)
           p == n * b
<1>1. a * ((d * q) * l) = o * l
  OBVIOUS
<1>2. (n * l) * b = p * l
  OBVIOUS
<1>3. o \in Int /\ p \in Int
  OBVIOUS
<1> HIDE DEF o, p
<1>4. (o <= p => o * l <= p * l) /\ (p <= o => p * l <= o * l)
  BY <1>3
<1>5. QED
  BY <1>1, <1>2, <1>4 DEF o, p

\* The average price of a position, the price of a buy.
Average(pos) == Frac(pos.cost.num, pos.cost.den * pos.qty)
Price(f) == Frac(Paid(f), Received(f))

\* The average lies between two of the prices.
Between(pos, buys) ==
    pos.qty > 0 =>
        /\ \E f \in buys : Leq(Price(f), Average(pos))
        /\ \E f \in buys : Leq(Average(pos), Price(f))

BuysOf(fills) == {f \in fills : f.side = "buy" /\ f.stable /\ Received(f) > 0}

\* The price of a buy.
LEMMA PriceParts ==
    ASSUME NEW f \in FillType, Received(f) > 0
    PROVE  /\ Price(f).num = Paid(f) /\ Price(f).den = Received(f)
           /\ Paid(f) \in Nat /\ Received(f) \in Nat \ {0}
<1>1. f.qty \in Nat /\ f.cost \in Nat /\ f.fee \in Nat
  BY DEF FillType
<1>2. Paid(f) \in Nat /\ Received(f) \in Nat \ {0}
  BY <1>1 DEF Paid, Received
<1>3. QED
  BY <1>2, FracType DEF Price

\* A buy draws the average towards its price, a sale leaves it where it is.
LEMMA TakeBetween ==
    ASSUME NEW pos \in Positions, Sound(pos), NEW fills \in SUBSET FillType, NEW f \in FillType,
           Between(pos, BuysOf(fills))
    PROVE  Between(Take(pos, f), BuysOf(fills \cup {f}))
<1> DEFINE new == Take(pos, f)
           q == pos.qty
           n == pos.cost.num
           d == pos.cost.den
           c == Paid(f)
           r == Received(f)
<1>1. q \in Nat /\ n \in Nat /\ d \in Nat \ {0} /\ (q = 0 => n = 0)
  BY DEF Positions, Cost, Sound
<1>2. f.qty \in Nat /\ f.stable \in BOOLEAN /\ f.side \in Side /\ r \in Int /\ c \in Nat
  BY DEF FillType, Received, Paid
<1>3. BuysOf(fills) \subseteq BuysOf(fills \cup {f})
  BY DEF BuysOf
<1>4. \A g \in BuysOf(fills) :
          /\ Price(g).num \in Nat /\ Price(g).den \in Nat \ {0}
          /\ Leq(Price(g), Average(pos)) <=> Price(g).num * (d * q) <= n * Price(g).den
          /\ Leq(Average(pos), Price(g)) <=> n * Price(g).den <= Price(g).num * (d * q)
  <2> SUFFICES ASSUME NEW g \in BuysOf(fills)
               PROVE  /\ Price(g).num \in Nat /\ Price(g).den \in Nat \ {0}
                      /\ Leq(Price(g), Average(pos)) <=> Price(g).num * (d * q) <= n * Price(g).den
                      /\ Leq(Average(pos), Price(g)) <=> n * Price(g).den <= Price(g).num * (d * q)
    OBVIOUS
  <2>1. Price(g).num \in Nat /\ Price(g).den \in Nat \ {0}
    BY PriceParts DEF BuysOf
  <2>2. Average(pos).num = n /\ Average(pos).den = d * q
    BY DEF Average, Frac
  <2>3. QED
    BY <2>1, <2>2 DEF Leq
<1>5. CASE new.qty = 0
  BY <1>5 DEF Between
<1>6. CASE new.qty = q /\ new.cost = pos.cost
  <2>1. Average(new) = Average(pos)
    BY <1>6 DEF Average
  <2>2. QED
    BY <1>3, <1>6, <2>1 DEF Between
<1>7. CASE f.stable /\ f.side = "buy" /\ f.qty > 0 /\ r > 0
  <2>1. /\ new.qty = q + r /\ new.cost = Plus(pos.cost, Frac(c, 1))
    BY <1>7, Taken
  <2>2. new.cost.num = n + c * d /\ new.cost.den = d
    <3>1. n * 1 = n /\ d * 1 = d
      BY <1>1
    <3>2. QED
      BY <2>1, <3>1 DEF Plus, Frac
  <2>3. Average(new).num = n + c * d /\ Average(new).den = d * (q + r)
    BY <2>1, <2>2 DEF Average, Frac
  <2>4. f \in BuysOf(fills \cup {f}) /\ Price(f).num = c /\ Price(f).den = r /\ r \in Nat \ {0}
    BY <1>7, PriceParts DEF BuysOf
  <2>5. \A g : /\ Leq(Price(g), Average(new)) <=> Price(g).num * (d * (q + r)) <= (n + c * d) * Price(g).den
               /\ Leq(Average(new), Price(g)) <=> (n + c * d) * Price(g).den <= Price(g).num * (d * (q + r))
    BY <2>3 DEF Leq
  <2> HIDE DEF new, q, n, d, c, r
  <2>6. CASE q = 0
    <3>1. c * (d * (q + r)) = (n + c * d) * r
      <4>1. n = 0 /\ q + r = r /\ n + c * d = c * d
        BY <1>1, <1>2, <2>4, <2>6
      <4>2. c * (d * r) = (c * d) * r
        BY <1>1, <1>2, <2>4
      <4>3. QED
        BY <4>1, <4>2
    <3> DEFINE s == (n + c * d) * r
    <3>2. s <= s
      BY <1>1, <1>2, <2>4
    <3>3. Leq(Price(f), Average(new)) /\ Leq(Average(new), Price(f))
      BY <2>4, <2>5, <3>1, <3>2
    <3>4. QED
      BY <2>4, <3>3 DEF Between, new
  <2>7. CASE q > 0
    <3>1. pos.qty > 0
      BY <2>7 DEF q
    <3>2. PICK g \in BuysOf(fills) : Leq(Price(g), Average(pos))
      BY <3>1 DEF Between
    <3>3. PICK h \in BuysOf(fills) : Leq(Average(pos), Price(h))
      BY <3>1 DEF Between
    <3>4. q \in Nat \ {0}
      BY <1>1, <2>7
    <3>5. Leq(Price(g), Average(new)) \/ Leq(Price(f), Average(new))
      <4> DEFINE a == Price(g).num
                 b == Price(g).den
      <4>1. a \in Nat /\ b \in Nat \ {0} /\ a * (d * q) <= n * b
        BY <1>4, <3>2
      <4>2. (a * (d * (q + r)) <= (n + c * d) * b) <=> Leq(Price(g), Average(new))
        BY <2>5
      <4>3. (c * (d * (q + r)) <= (n + c * d) * r) <=> Leq(Price(f), Average(new))
        BY <2>4, <2>5
      <4> HIDE DEF a, b
      <4>4. \/ a * (d * (q + r)) <= (n + c * d) * b
            \/ c * (d * (q + r)) <= (n + c * d) * r
        BY <1>1, <1>2, <2>4, <3>4, <4>1, Mediant
      <4>5. QED
        BY <4>2, <4>3, <4>4
    <3>6. Leq(Average(new), Price(h)) \/ Leq(Average(new), Price(f))
      <4> DEFINE a == Price(h).num
                 b == Price(h).den
      <4>1. a \in Nat /\ b \in Nat \ {0} /\ n * b <= a * (d * q)
        BY <1>4, <3>3
      <4>2. ((n + c * d) * b <= a * (d * (q + r))) <=> Leq(Average(new), Price(h))
        BY <2>5
      <4>3. ((n + c * d) * r <= c * (d * (q + r))) <=> Leq(Average(new), Price(f))
        BY <2>4, <2>5
      <4> HIDE DEF a, b
      <4>4. \/ (n + c * d) * b <= a * (d * (q + r))
            \/ (n + c * d) * r <= c * (d * (q + r))
        BY <1>1, <1>2, <2>4, <3>4, <4>1, Mediant
      <4>5. QED
        BY <4>2, <4>3, <4>4
    <3>7. QED
      BY <1>3, <2>4, <3>2, <3>3, <3>5, <3>6 DEF Between, new
  <2>8. QED
    BY <1>1, <2>6, <2>7 DEF new
<1>8. CASE f.stable /\ f.side = "sell" /\ f.qty > 0 /\ q > f.qty
  <2> DEFINE l == q - f.qty
  <2>1. new.qty = l /\ new.cost = CostOf(pos.cost, l, q)
    BY <1>8, Taken
  <2>2. l \in Nat \ {0} /\ q \in Nat \ {0}
    BY <1>1, <1>2, <1>8
  <2>3. Average(new).num = n * l /\ Average(new).den = (d * q) * l
    BY <2>1 DEF Average, CostOf, Frac
  <2>4. \A g : /\ Leq(Price(g), Average(new)) <=> Price(g).num * ((d * q) * l) <= (n * l) * Price(g).den
               /\ Leq(Average(new), Price(g)) <=> (n * l) * Price(g).den <= Price(g).num * ((d * q) * l)
    BY <2>3 DEF Leq
  <2>5. pos.qty > 0
    BY <2>2
  <2> HIDE DEF new, q, n, d, l
  <2>6. ASSUME NEW g \in BuysOf(fills)
        PROVE  /\ Leq(Price(g), Average(pos)) => Leq(Price(g), Average(new))
               /\ Leq(Average(pos), Price(g)) => Leq(Average(new), Price(g))
    <3> DEFINE a == Price(g).num
               b == Price(g).den
    <3>1. /\ a \in Nat /\ b \in Nat \ {0}
          /\ Leq(Price(g), Average(pos)) <=> a * (d * q) <= n * b
          /\ Leq(Average(pos), Price(g)) <=> n * b <= a * (d * q)
      BY <1>4
    <3>2. /\ Leq(Price(g), Average(new)) <=> a * ((d * q) * l) <= (n * l) * b
          /\ Leq(Average(new), Price(g)) <=> (n * l) * b <= a * ((d * q) * l)
      BY <2>4
    <3> HIDE DEF a, b
    <3>3. /\ a * (d * q) <= n * b => a * ((d * q) * l) <= (n * l) * b
          /\ n * b <= a * (d * q) => (n * l) * b <= a * ((d * q) * l)
      BY <1>1, <2>2, <3>1, Remaining
    <3>4. QED
      BY <3>1, <3>2, <3>3
  <2>7. QED
    BY <1>3, <2>5, <2>6 DEF Between, new
<1>9. \/ new = pos
      \/ ~f.stable
      \/ f.stable /\ f.side = "buy" /\ f.qty > 0 /\ r > 0
      \/ f.stable /\ f.side = "sell" /\ f.qty > 0 /\ q <= f.qty
      \/ f.stable /\ f.side = "sell" /\ f.qty > 0 /\ q > f.qty
  <2>1. \/ ~f.stable
        \/ f.stable /\ (f.qty = 0 \/ (f.side = "buy" /\ r <= 0))
        \/ f.stable /\ f.side = "buy" /\ f.qty > 0 /\ r > 0
        \/ f.stable /\ f.side = "sell" /\ f.qty > 0 /\ q <= f.qty
        \/ f.stable /\ f.side = "sell" /\ f.qty > 0 /\ q > f.qty
    <3> HIDE DEF new, q, r
    <3>1. QED
      BY <1>1, <1>2 DEF Side
  <2>2. f.stable /\ (f.qty = 0 \/ (f.side = "buy" /\ r <= 0)) => new = pos
    BY Taken
  <2>3. QED
    BY <2>1, <2>2
<1>10. /\ ~f.stable => new.qty = q /\ new.cost = pos.cost
       /\ f.stable /\ f.side = "sell" /\ f.qty > 0 /\ q <= f.qty => new.qty = 0
  BY Taken
<1>11. QED
  <2> HIDE DEF new
  <2>1. new = pos => new.qty = q /\ new.cost = pos.cost
    OBVIOUS
  <2>2. QED
    BY <1>5, <1>6, <1>7, <1>8, <1>9, <1>10, <2>1 DEF new

\* What is known of the average in every state.
Averaged == Fills \in SUBSET FillType /\ Between(walk.pos, BuysOf(Fills))

\* The average stays between the prices when the fill is one of those known.
LEMMA TimesBetween ==
    ASSUME NEW pos \in Positions, Sound(pos), NEW fills \in SUBSET FillType, NEW f \in fills,
           NEW n \in {0, 1, 2}, Between(pos, BuysOf(fills))
    PROVE  Between(TakeTimes(pos, f, n), BuysOf(fills))
<1>1. f \in FillType /\ fills \cup {f} = fills
  OBVIOUS
<1> DEFINE one == Take(pos, f)
<1>2. one \in Positions /\ Sound(one)
  BY <1>1, TakeType
<1>3. Between(one, BuysOf(fills \cup {f}))
  BY <1>1, TakeBetween
<1>4. Between(one, BuysOf(fills))
  BY <1>1, <1>3
<1> HIDE DEF one
<1>5. Between(Take(one, f), BuysOf(fills \cup {f}))
  BY <1>1, <1>2, <1>4, TakeBetween
<1>6. Between(Take(one, f), BuysOf(fills))
  BY <1>1, <1>5
<1>7. TakeTimes(pos, f, n) \in {pos, one, Take(one, f)}
  BY DEF TakeTimes, one
<1>8. QED
  BY <1>4, <1>6, <1>7

LEMMA AveragedHolds == Spec => []Averaged
<1>1. Init => Averaged
  <2>1. Init => walk.pos.qty = 0 /\ Fills = {}
    BY InitBooks, NoWalkTyped DEF Init, NoPosition
  <2>2. QED
    BY <2>1 DEF Averaged, Between
<1>2. ASSUME Books, Averaged, [Next]_vars PROVE Averaged'
  <2>1. /\ Fills \in SUBSET FillType /\ Between(walk.pos, BuysOf(Fills))
        /\ walk.pos \in Positions /\ Sound(walk.pos)
    BY <1>2 DEF Averaged, Books, WalkTyped, Walks
  <2>2. Between(walk.pos, BuysOf(Fills))' <=> Between(walk'.pos, BuysOf(Fills'))
    BY DEF Between, BuysOf, Average, Price, Paid, Received, Leq, Frac
  <2>3. ASSUME NEW side, NEW qty, NEW cost, NEW stable, NEW charge,
               Traded(side, qty, cost, stable, charge)
        PROVE  Averaged'
    <3> DEFINE f == ParseFill(venue, Reported(side, qty, cost, stable, charge))
    <3>1. Fills' = Fills \cup {f} /\ f \in FillType
      BY <1>2, <2>3, TradedRows DEF Books
    <3>2. walk' = walk
      BY <2>3 DEF Traded
    <3> HIDE DEF f
    <3>3. Fills' \in SUBSET FillType /\ BuysOf(Fills) \subseteq BuysOf(Fills')
      BY <2>1, <3>1 DEF BuysOf
    <3>4. Between(walk.pos, BuysOf(Fills'))
      BY <2>1, <3>3 DEF Between
    <3>5. QED
      BY <2>2, <3>2, <3>3, <3>4 DEF Averaged
  <2>4. CASE NotTraded
    <3>1. Fills' = Fills
      BY <2>4 DEF NotTraded, Fills
    <3>2. CASE walk' = walk
      BY <2>1, <2>2, <3>1, <3>2 DEF Averaged
    <3>3. CASE walk' = NoWalk
      <4>1. Between(walk'.pos, BuysOf(Fills'))
        BY <3>3, NoWalkTyped DEF Between, NoPosition
      <4>2. QED
        BY <2>1, <2>2, <3>1, <4>1 DEF Averaged
    <3>4. CASE TakeRow
      <4>1. PICK n \in {0, 1, 2}, f \in Fills : walk'.pos = TakeTimes(walk.pos, f, n)
        BY <1>2, <3>4, RowTaken DEF Books
      <4>2. Between(walk'.pos, BuysOf(Fills))
        BY <2>1, <4>1, TimesBetween
      <4>3. QED
        BY <2>1, <2>2, <3>1, <4>2 DEF Averaged
    <3>5. QED
      BY <2>4, <3>2, <3>3, <3>4 DEF NotTraded, ReadHoldings, ReadTrades
  <2>5. QED
    BY <1>2, <2>3, <2>4, KindOfStep DEF Books
<1>3. QED
  BY <1>1, <1>2, BooksHold, PTL DEF Spec

\* The average price lies between the lowest and the highest price paid, fees
\* included, whatever was sold in between and at whatever price, and whatever rows
\* of the history are missing or delivered twice (compute_avco).
THEOREM AverageTheorem == Spec => []AverageIsOfBuys
<1>1. ASSUME Between(walk.pos, BuysOf(Fills)) PROVE AverageIsOfBuys
  <2>1. BuysOf(Fills) = Buys
    BY DEF BuysOf, Buys
  <2>2. QED
    BY <1>1, <2>1 DEF Between, Average, Price, AverageIsOfBuys
<1>2. Averaged => Between(walk.pos, BuysOf(Fills))
  BY DEF Averaged
<1>3. QED
  BY <1>1, <1>2, AveragedHolds, PTL
-----------------------------------------------------------------------------
(* The types of the P&L, and what one row does to it. *)

Ledger == [qty : Nat, cost : Fraction, realized : Fraction, bought : Nat, sold : Nat]

\* Records with some of their fields replaced.
LEMMA UpdatedLedger ==
    ASSUME NEW s \in Ledger, NEW q, NEW c
    PROVE  [s EXCEPT !.qty = q, !.cost = c]
             = [qty |-> q, cost |-> c, realized |-> s.realized, bought |-> s.bought, sold |-> s.sold]
<1> DEFINE s1 == [s EXCEPT !.qty = q]
<1>1. s = [qty |-> s.qty, cost |-> s.cost, realized |-> s.realized, bought |-> s.bought, sold |-> s.sold]
  BY DEF Ledger
<1>2. s1 = [qty |-> q, cost |-> s.cost, realized |-> s.realized, bought |-> s.bought, sold |-> s.sold]
  BY <1>1
<1>3. [s EXCEPT !.qty = q, !.cost = c] = [s1 EXCEPT !.cost = c]
  OBVIOUS
<1> HIDE DEF s1
<1>4. [s1 EXCEPT !.cost = c]
        = [qty |-> q, cost |-> c, realized |-> s.realized, bought |-> s.bought, sold |-> s.sold]
  BY <1>2
<1>5. QED
  BY <1>3, <1>4

LEMMA UpdatedBought ==
    ASSUME NEW s \in Ledger, NEW q, NEW c, NEW b
    PROVE  [s EXCEPT !.qty = q, !.cost = c, !.bought = b]
             = [qty |-> q, cost |-> c, realized |-> s.realized, bought |-> b, sold |-> s.sold]
<1> DEFINE s2 == [s EXCEPT !.qty = q, !.cost = c]
<1>1. s2 = [qty |-> q, cost |-> c, realized |-> s.realized, bought |-> s.bought, sold |-> s.sold]
  BY UpdatedLedger, Zenon
<1>2. [s EXCEPT !.qty = q, !.cost = c, !.bought = b] = [s2 EXCEPT !.bought = b]
  OBVIOUS
<1> HIDE DEF s2
<1>3. [s2 EXCEPT !.bought = b]
        = [qty |-> q, cost |-> c, realized |-> s.realized, bought |-> b, sold |-> s.sold]
  BY <1>1
<1>4. QED
  BY <1>2, <1>3

LEMMA UpdatedSold ==
    ASSUME NEW s \in Ledger, NEW w
    PROVE  [s EXCEPT !.sold = w]
             = [qty |-> s.qty, cost |-> s.cost, realized |-> s.realized, bought |-> s.bought, sold |-> w]
<1>1. s = [qty |-> s.qty, cost |-> s.cost, realized |-> s.realized, bought |-> s.bought, sold |-> s.sold]
  BY DEF Ledger
<1>2. QED
  BY <1>1

LEMMA UpdatedSale ==
    ASSUME NEW s \in Ledger, NEW q, NEW c, NEW r, NEW w
    PROVE  [s EXCEPT !.qty = q, !.cost = c, !.realized = r, !.sold = w]
             = [qty |-> q, cost |-> c, realized |-> r, bought |-> s.bought, sold |-> w]
<1> DEFINE s2 == [s EXCEPT !.qty = q, !.cost = c]
           s3 == [s2 EXCEPT !.realized = r]
<1>1. s2 = [qty |-> q, cost |-> c, realized |-> s.realized, bought |-> s.bought, sold |-> s.sold]
  BY UpdatedLedger, Zenon
<1>2. [s EXCEPT !.qty = q, !.cost = c, !.realized = r, !.sold = w] = [s3 EXCEPT !.sold = w]
  OBVIOUS
<1> HIDE DEF s2
<1>3. s3 = [qty |-> q, cost |-> c, realized |-> r, bought |-> s.bought, sold |-> s.sold]
  BY <1>1
<1> HIDE DEF s3
<1>4. [s3 EXCEPT !.sold = w] = [qty |-> q, cost |-> c, realized |-> r, bought |-> s.bought, sold |-> w]
  BY <1>3
<1>5. QED
  BY <1>2, <1>4

\* What is taken off the book by a sale: no more than it has.
Cut(s, o) == IF o.amount < s.qty THEN o.amount ELSE s.qty

Proceeds(s, o) == Frac(Cut(s, o) * o.usd, o.amount)
Spent(s, o) == CostOf(s.cost, Cut(s, o), s.qty)

\* The ways the book changes.
LEMMA Booked ==
    ASSUME NEW s \in Ledger, NEW o \in Order
    PROVE  /\ o.side = "buy" =>
                 Book(s, o) = [qty |-> s.qty + o.amount, cost |-> Plus(s.cost, Frac(o.usd, 1)),
                               realized |-> s.realized, bought |-> s.bought + o.usd, sold |-> s.sold]
           /\ o.side = "sell" /\ Cut(s, o) = 0 =>
                 Book(s, o) = [qty |-> s.qty, cost |-> s.cost, realized |-> s.realized,
                               bought |-> s.bought, sold |-> s.sold + o.usd]
           /\ o.side = "sell" /\ Cut(s, o) # 0 =>
                 Book(s, o) = [qty |-> s.qty - Cut(s, o), cost |-> Minus(s.cost, Spent(s, o)),
                               realized |-> Plus(s.realized, Minus(Proceeds(s, o), Spent(s, o))),
                               bought |-> s.bought, sold |-> s.sold + o.usd]
<1>1. ASSUME o.side = "buy"
      PROVE  Book(s, o) = [qty |-> s.qty + o.amount, cost |-> Plus(s.cost, Frac(o.usd, 1)),
                           realized |-> s.realized, bought |-> s.bought + o.usd, sold |-> s.sold]
  <2>1. Book(s, o) = [s EXCEPT !.qty = s.qty + o.amount, !.cost = Plus(s.cost, Frac(o.usd, 1)),
                               !.bought = s.bought + o.usd]
    BY <1>1 DEF Book, BookBuy
  <2>2. QED
    BY <2>1, UpdatedBought, Zenon
<1>2. ASSUME o.side = "sell", Cut(s, o) = 0
      PROVE  Book(s, o) = [qty |-> s.qty, cost |-> s.cost, realized |-> s.realized,
                           bought |-> s.bought, sold |-> s.sold + o.usd]
  <2>1. Book(s, o) = [s EXCEPT !.sold = s.sold + o.usd]
    BY <1>2 DEF Book, BookSell, Cut
  <2>2. QED
    BY <2>1, UpdatedSold, Zenon
<1>3. ASSUME o.side = "sell", Cut(s, o) # 0
      PROVE  Book(s, o) = [qty |-> s.qty - Cut(s, o), cost |-> Minus(s.cost, Spent(s, o)),
                           realized |-> Plus(s.realized, Minus(Proceeds(s, o), Spent(s, o))),
                           bought |-> s.bought, sold |-> s.sold + o.usd]
  <2>1. Book(s, o) = [s EXCEPT !.qty = s.qty - Cut(s, o), !.cost = Minus(s.cost, Spent(s, o)),
                               !.realized = Plus(s.realized, Minus(Proceeds(s, o), Spent(s, o))),
                               !.sold = s.sold + o.usd]
    <3>1. Book(s, o) = BookSell(s, o)
      BY <1>3 DEF Book
    <3>2. BookSell(s, o) =
            IF Cut(s, o) = 0 THEN [s EXCEPT !.sold = s.sold + o.usd]
            ELSE [s EXCEPT !.qty = s.qty - Cut(s, o), !.cost = Minus(s.cost, Spent(s, o)),
                           !.realized = Plus(s.realized, Minus(Proceeds(s, o), Spent(s, o))),
                           !.sold = s.sold + o.usd]
      BY Zenon DEF BookSell, Cut, Spent, Proceeds
    <3>3. QED
      BY <1>3, <3>1, <3>2, Zenon
  <2>2. QED
    BY <2>1, UpdatedSale, Zenon
<1>4. QED
  BY <1>1, <1>2, <1>3

\* What the P&L counts: the gain that was realized and what the sold coins cost.
Counted(s) == Plus(s.realized, Minus(Frac(s.bought, 1), s.cost))

\* The figures in parts of one denominator.
LEMMA CountedParts ==
    ASSUME NEW s \in Ledger, NEW e \in Nat \ {0}, NEW r \in Int, NEW c \in Int,
           Parts(s.realized, r, e), Parts(s.cost, c, e)
    PROVE  /\ Leq(Counted(s), Frac(s.sold, 1)) <=> r + (s.bought * e - c) <= s.sold * e
           /\ Same(Counted(s), Frac(s.sold, 1)) <=> r + (s.bought * e - c) = s.sold * e
<1>1. /\ s.realized \in Fraction /\ s.cost \in Fraction /\ s.bought \in Int /\ s.sold \in Int
      /\ e \in Int /\ 1 \in Nat \ {0}
  BY DEF Ledger
<1>2. /\ Frac(s.bought, 1) \in Fraction /\ Parts(Frac(s.bought, 1), s.bought * e, e)
      /\ Frac(s.sold, 1) \in Fraction /\ Parts(Frac(s.sold, 1), s.sold * e, e)
  BY <1>1, FracType, PartsOfWhole
<1> DEFINE b == s.bought * e
           w == s.sold * e
           fb == Frac(s.bought, 1)
           fw == Frac(s.sold, 1)
           rest == Minus(fb, s.cost)
<1>3. b \in Int /\ w \in Int
  BY <1>1
<1>4. fb \in Fraction /\ fw \in Fraction /\ Parts(fb, b, e) /\ Parts(fw, w, e)
  BY <1>2
<1>5. Counted(s) = Plus(s.realized, rest)
  BY DEF Counted
<1> HIDE DEF b, w, fb, fw
<1>6. rest \in Fraction /\ Parts(rest, b - c, e) /\ b - c \in Int
  BY <1>1, <1>3, <1>4, PartsOfMinus
<1> HIDE DEF rest
<1> DEFINE m == b - c
<1>7. m \in Int /\ Parts(rest, m, e)
  BY <1>6
<1> HIDE DEF m
<1>8. Plus(s.realized, rest) \in Fraction /\ Parts(Plus(s.realized, rest), r + m, e) /\ r + m \in Int
  BY <1>1, <1>6, <1>7, PartsOfPlus
<1> DEFINE k == r + m
           sum == Plus(s.realized, rest)
<1>9. k \in Int /\ sum \in Fraction /\ Parts(sum, k, e)
  BY <1>8
<1> HIDE DEF k, sum
<1>10. (Leq(sum, fw) <=> k <= w) /\ (Same(sum, fw) <=> k = w)
  BY <1>3, <1>4, <1>9, PartsCompare
<1>11. QED
  BY <1>5, <1>10 DEF k, m, b, w, fw, sum

\* A row leaves a ledger; what it counts never exceeds what came in, and is all
\* of it when the book has the coins that are sold.
LEMMA BookAddsUp ==
    ASSUME NEW s \in Ledger, NEW o \in Order, o.amount \in Nat
    PROVE  /\ Book(s, o) \in Ledger
           /\ Leq(Counted(s), Frac(s.sold, 1)) =>
                 Leq(Counted(Book(s, o)), Frac(Book(s, o).sold, 1))
           /\ Same(Counted(s), Frac(s.sold, 1)) /\ (o.side = "sell" => o.amount \in 1..s.qty) =>
                 Same(Counted(Book(s, o)), Frac(Book(s, o).sold, 1))
<1> DEFINE new == Book(s, o)
           u == o.usd
           a == o.amount
           q == s.qty
           cut == Cut(s, o)
<1>1. /\ q \in Nat /\ s.cost \in Fraction /\ s.realized \in Fraction /\ s.bought \in Nat /\ s.sold \in Nat
      /\ o.side \in {"buy", "sell"} /\ u \in Nat /\ a \in Nat
      /\ cut \in Nat /\ cut <= a /\ cut <= q /\ (a <= q => cut = a)
  BY DEF Ledger, Order, Side, Cut
<1>2. PICK r \in Int, c \in Int, e \in Nat \ {0} : Parts(s.realized, r, e) /\ Parts(s.cost, c, e)
  BY <1>1, CommonParts
<1>3. /\ Leq(Counted(s), Frac(s.sold, 1)) <=> r + (s.bought * e - c) <= s.sold * e
      /\ Same(Counted(s), Frac(s.sold, 1)) <=> r + (s.bought * e - c) = s.sold * e
  BY <1>2, CountedParts
<1>4. ASSUME NEW cost \in Fraction, NEW realized \in Fraction, NEW qty \in Nat, NEW bought1 \in Nat,
             NEW sold1 \in Nat,
             new = [qty |-> qty, cost |-> cost, realized |-> realized, bought |-> bought1, sold |-> sold1]
      PROVE  /\ new \in Ledger
             /\ new.cost = cost /\ new.realized = realized /\ new.bought = bought1 /\ new.sold = sold1
  <2> HIDE DEF new
  <2>1. QED
    BY <1>4 DEF Ledger
<1>5. CASE o.side = "buy"
  <2> DEFINE cost == Plus(s.cost, Frac(u, 1))
  <2>1. Frac(u, 1) \in Fraction /\ Parts(Frac(u, 1), u * e, e) /\ u * e \in Int /\ e \in Int
    <3>1. e \in Int /\ u \in Int /\ 1 \in Nat \ {0} /\ u * e \in Int
      BY <1>1, <1>2
    <3> HIDE DEF u
    <3>2. QED
      BY <3>1, FracType, PartsOfWhole
  <2>2. cost \in Fraction /\ Parts(cost, c + u * e, e)
    <3> DEFINE f == Frac(u, 1)
               k == u * e
    <3>1. f \in Fraction /\ Parts(f, k, e) /\ k \in Int /\ e \in Int
      BY <2>1
    <3> HIDE DEF f, k
    <3>2. Plus(s.cost, f) \in Fraction /\ Parts(Plus(s.cost, f), c + k, e)
      BY <1>1, <1>2, <3>1, PartsOfPlus
    <3>3. QED
      BY <3>2 DEF f, k
  <2>3. new = [qty |-> q + a, cost |-> cost, realized |-> s.realized, bought |-> s.bought + u, sold |-> s.sold]
    BY <1>5, Booked
  <2>4. q + a \in Nat /\ s.bought + u \in Nat /\ c + u * e \in Int
    BY <1>1, <1>2
  <2> HIDE DEF cost, new, q, a, u
  <2>5. new \in Ledger /\ new.cost = cost /\ new.realized = s.realized /\ new.bought = s.bought + u /\ new.sold = s.sold
    BY <1>1, <1>4, <2>2, <2>3, <2>4
  <2>6. /\ Leq(Counted(new), Frac(new.sold, 1)) <=> r + ((s.bought + u) * e - (c + u * e)) <= s.sold * e
        /\ Same(Counted(new), Frac(new.sold, 1)) <=> r + ((s.bought + u) * e - (c + u * e)) = s.sold * e
    <3> DEFINE c1 == c + u * e
    <3>1. c1 \in Int /\ Parts(new.cost, c1, e) /\ Parts(new.realized, r, e)
      BY <1>2, <2>2, <2>4, <2>5
    <3> HIDE DEF c1
    <3>2. /\ Leq(Counted(new), Frac(new.sold, 1)) <=> r + (new.bought * e - c1) <= new.sold * e
          /\ Same(Counted(new), Frac(new.sold, 1)) <=> r + (new.bought * e - c1) = new.sold * e
      BY <1>2, <2>5, <3>1, CountedParts
    <3>3. QED
      BY <2>5, <3>2 DEF c1
  <2>7. r + ((s.bought + u) * e - (c + u * e)) = r + (s.bought * e - c)
    BY <1>1, <1>2
  <2>8. QED
    BY <1>3, <2>5, <2>6, <2>7 DEF new
<1>6. CASE o.side = "sell" /\ cut = 0
  <2>1. new = [qty |-> q, cost |-> s.cost, realized |-> s.realized, bought |-> s.bought, sold |-> s.sold + u]
    BY <1>6, Booked
  <2>2. s.sold + u \in Nat
    BY <1>1
  <2>3. a \in 1..q => FALSE
    BY <1>1, <1>6
  <2> HIDE DEF new, q, u, a, cut
  <2>4. new \in Ledger /\ new.cost = s.cost /\ new.realized = s.realized /\ new.bought = s.bought /\ new.sold = s.sold + u
    BY <1>1, <1>4, <2>1, <2>2
  <2>5. Leq(Counted(new), Frac(new.sold, 1)) <=> r + (s.bought * e - c) <= (s.sold + u) * e
    BY <1>2, <2>4, CountedParts
  <2>6. s.sold * e <= (s.sold + u) * e
    BY <1>1, <1>2
  <2>7. r + (s.bought * e - c) \in Int /\ s.sold * e \in Int /\ (s.sold + u) * e \in Int
    BY <1>1, <1>2
  <2>8. Leq(Counted(s), Frac(s.sold, 1)) => Leq(Counted(new), Frac(new.sold, 1))
    <3> DEFINE x == r + (s.bought * e - c)
               y == s.sold * e
               z == (s.sold + u) * e
    <3>1. x \in Int /\ y \in Int /\ z \in Int /\ y <= z
      BY <2>6, <2>7
    <3>2. (Leq(Counted(s), Frac(s.sold, 1)) <=> x <= y) /\ (Leq(Counted(new), Frac(new.sold, 1)) <=> x <= z)
      BY <1>3, <2>5
    <3> HIDE DEF x, y, z
    <3>3. QED
      BY <3>1, <3>2
  <2>9. QED
    BY <1>6, <2>3, <2>4, <2>8 DEF new, a, q
<1>7. CASE o.side = "sell" /\ cut # 0
  <2> DEFINE spent == Spent(s, o)
             proceeds == Proceeds(s, o)
             gain == Minus(proceeds, spent)
             cost == Minus(s.cost, spent)
             realized == Plus(s.realized, gain)
  <2>1. new = [qty |-> q - cut, cost |-> cost, realized |-> realized, bought |-> s.bought, sold |-> s.sold + u]
    BY <1>7, Booked
  <2>2. /\ q \in Nat \ {0} /\ a \in Nat \ {0} /\ cut \in Nat \ {0} /\ q - cut \in Nat /\ s.sold + u \in Nat
        /\ e \in Int /\ q \in Int /\ a \in Int /\ cut \in Int
    BY <1>1, <1>2, <1>7
  <2>3. spent = CostOf(s.cost, cut, q) /\ proceeds = Frac(cut * u, a)
    BY DEF Spent, Proceeds
  <2> HIDE DEF spent, proceeds, new, q, a, u, cut
  \* Everything in parts of (e * q) * a.
  <2> DEFINE f == (e * q) * a
             rf == (r * q) * a
             cf == (c * q) * a
             xf == (c * cut) * a
             yf == (cut * u) * (e * q)
  <2>4. f \in Nat \ {0} /\ rf \in Int /\ cf \in Int /\ xf \in Int /\ yf \in Int
    <3>1. e * q \in Nat \ {0} /\ r * q \in Int /\ c * q \in Int /\ c * cut \in Int /\ cut * u \in Nat
      BY <1>1, <1>2, <2>2
    <3>2. QED
      BY <2>2, <3>1
  <2>5. spent \in Fraction /\ Parts(spent, xf, f) /\ Parts(s.cost, cf, f)
    <3> DEFINE eq == e * q
               cc == c * cut
               cq == c * q
    <3>1. spent \in Fraction /\ Parts(spent, cc, eq) /\ Parts(s.cost, cq, eq)
      BY <1>1, <1>2, <2>2, <2>3, PartsOfCost
    <3>2. eq \in Int /\ cc \in Int /\ cq \in Int
      BY <1>2, <2>2
    <3> HIDE DEF eq, cc, cq
    <3>3. Parts(spent, cc * a, eq * a) /\ Parts(s.cost, cq * a, eq * a)
      BY <1>1, <2>2, <3>1, <3>2, PartsScaled
    <3>4. QED
      BY <3>1, <3>3 DEF eq, cc, cq
  <2>6. Parts(s.realized, rf, f)
    <3> DEFINE eq == e * q
               rq == r * q
    <3>1. Parts(s.realized, rq, eq)
      BY <1>1, <1>2, <2>2, PartsScaled
    <3>2. eq \in Int /\ rq \in Int
      BY <1>2, <2>2
    <3> HIDE DEF eq, rq
    <3>3. Parts(s.realized, rq * a, eq * a)
      BY <1>1, <2>2, <3>1, <3>2, PartsScaled
    <3>4. QED
      BY <3>3 DEF eq, rq
  <2>7. proceeds \in Fraction /\ Parts(proceeds, yf, f)
    <3> DEFINE cu == cut * u
               eq == e * q
    <3>1. cu \in Int /\ eq \in Int
      BY <1>1, <1>2, <2>2
    <3>2. proceeds = Frac(cu, a)
      BY <2>3
    <3>3. f = eq * a /\ yf = cu * eq
      OBVIOUS
    <3> HIDE DEF cu, eq
    <3>4. Parts(Frac(cu, a), cu * eq, a * eq) /\ Frac(cu, a) \in Fraction
      BY <2>2, <3>1, PartsOfFrac, FracType
    <3>5. a * eq = eq * a
      BY <2>2, <3>1
    <3>6. QED
      BY <3>2, <3>3, <3>4, <3>5
  <2>8. yf <= u * f /\ (cut = a => yf = u * f)
    <3>1. yf = (u * (e * q)) * cut /\ u * f = (u * (e * q)) * a
      BY <1>1, <1>2, <2>2
    <3> DEFINE k == u * (e * q)
    <3>2. k \in Nat
      BY <1>1, <1>2, <2>2
    <3> HIDE DEF k
    <3>3. k * cut <= k * a
      BY <1>1, <2>2, <3>2
    <3>4. yf = k * cut /\ u * f = k * a
      BY <3>1 DEF k
    <3> HIDE DEF yf, f
    <3>5. QED
      BY <3>3, <3>4
  <2>9. u * f \in Int /\ s.sold * f \in Int /\ s.bought * f \in Int /\ (s.sold + u) * f = s.sold * f + u * f
    BY <1>1, <2>4
  <2>10. r * (q * a) = rf /\ c * (q * a) = cf /\ e * (q * a) = f
    BY <1>2, <2>2
  <2>11. /\ Leq(Counted(s), Frac(s.sold, 1)) <=> rf + (s.bought * f - cf) <= s.sold * f
         /\ Same(Counted(s), Frac(s.sold, 1)) <=> rf + (s.bought * f - cf) = s.sold * f
    <3> HIDE DEF f, rf, cf
    <3>1. QED
      BY <2>4, <2>5, <2>6, CountedParts
  <2> HIDE DEF f, rf, cf, xf, yf
  <2>12. cost \in Fraction /\ Parts(cost, cf - xf, f)
    <3>1. s.cost \in Fraction /\ f \in Int /\ cf \in Int /\ xf \in Int
      BY <1>1, <2>4
    <3>2. QED
      BY <2>5, <3>1, PartsOfMinus
  <2>13. gain \in Fraction /\ Parts(gain, yf - xf, f)
    <3>1. f \in Int /\ xf \in Int /\ yf \in Int
      BY <2>4
    <3>2. QED
      BY <2>5, <2>7, <3>1, PartsOfMinus
  <2> HIDE DEF cost, gain
  <2>14. realized \in Fraction /\ Parts(realized, rf + (yf - xf), f)
    <3> DEFINE k == yf - xf
    <3>1. k \in Int /\ Parts(gain, k, f)
      BY <2>4, <2>13
    <3> HIDE DEF k
    <3>2. realized \in Fraction /\ Parts(realized, rf + k, f)
      BY <1>1, <2>4, <2>6, <2>13, <3>1, PartsOfPlus
    <3>3. QED
      BY <3>2 DEF k
  <2> HIDE DEF realized
  <2>15. /\ new \in Ledger
         /\ new.cost = cost /\ new.realized = realized /\ new.bought = s.bought /\ new.sold = s.sold + u
    BY <1>1, <1>4, <2>1, <2>2, <2>12, <2>14
  <2> DEFINE r1 == rf + (yf - xf)
             c1 == cf - xf
             b == s.bought * f
             w == s.sold * f
             uf == u * f
             wu == (s.sold + u) * f
  <2>16. /\ r1 \in Int /\ c1 \in Int /\ b \in Int /\ w \in Int /\ uf \in Int /\ wu = w + uf
         /\ r1 + (b - c1) = rf + (b - cf) + yf
         /\ yf <= uf /\ (cut = a => yf = uf)
    BY <2>4, <2>8, <2>9
  <2>17. /\ Leq(Counted(new), Frac(new.sold, 1)) <=> r1 + (b - c1) <= wu
         /\ Same(Counted(new), Frac(new.sold, 1)) <=> r1 + (b - c1) = wu
    <3>1. Parts(new.realized, r1, f) /\ Parts(new.cost, c1, f)
      BY <2>12, <2>14, <2>15
    <3>2. r1 \in Int /\ c1 \in Int /\ new \in Ledger /\ f \in Nat \ {0}
      BY <2>4, <2>15, <2>16
    <3> HIDE DEF r1, c1
    <3>3. /\ Leq(Counted(new), Frac(new.sold, 1)) <=> r1 + (new.bought * f - c1) <= new.sold * f
          /\ Same(Counted(new), Frac(new.sold, 1)) <=> r1 + (new.bought * f - c1) = new.sold * f
      BY <3>1, <3>2, CountedParts
    <3>4. new.bought * f = b /\ new.sold * f = wu
      BY <2>15
    <3> HIDE DEF b, wu
    <3>5. QED
      BY <3>3, <3>4
  <2>18. /\ Leq(Counted(s), Frac(s.sold, 1)) <=> rf + (b - cf) <= w
         /\ Same(Counted(s), Frac(s.sold, 1)) <=> rf + (b - cf) = w
    BY <2>11
  <2> HIDE DEF r1, c1, b, w, uf, wu
  <2>19. Leq(Counted(s), Frac(s.sold, 1)) => Leq(Counted(new), Frac(new.sold, 1))
    BY <2>4, <2>16, <2>17, <2>18
  <2>20. cut = a /\ Same(Counted(s), Frac(s.sold, 1)) => Same(Counted(new), Frac(new.sold, 1))
    BY <2>4, <2>16, <2>17, <2>18
  <2>21. a \in 1..q => cut = a
    BY <1>1, <2>2
  <2>22. QED
    BY <1>7, <2>15, <2>19, <2>20, <2>21 DEF new, a, q
<1>8. QED
  BY <1>1, <1>5, <1>6, <1>7

\* What the P&L reads.
LEMMA RowsRead ==
    ASSUME RequestsTyped
    PROVE  /\ Len(begun) \in Nat /\ Len(PnlRows) = Len(begun) /\ DOMAIN PnlRows = 1..Len(begun)
           /\ \A i \in 1..Len(begun) :
                 \/ PnlRows[i] = None
                 \/ PnlRows[i] \in Order /\ PnlRows[i].amount \in Nat
           /\ \A k \in 0..Len(begun) :
                 /\ DOMAIN SubSeq(PnlRows, 1, k) = 1..k
                 /\ \A i \in 1..k : SubSeq(PnlRows, 1, k)[i] = PnlRows[i]
           /\ SubSeq(PnlRows, 1, Len(begun)) = PnlRows
<1> DEFINE n == Len(begun)
<1>1. n \in Nat /\ \A i \in 1..n : begun[i] \in Req
  BY DEF RequestsTyped
<1>2. \A i \in 1..n : \/ PnlRow(begun[i]) = None
                      \/ PnlRow(begun[i]) \in Order /\ PnlRow(begun[i]).amount \in Nat
  <2> SUFFICES ASSUME NEW i \in 1..n, PnlRow(begun[i]) # None
               PROVE  PnlRow(begun[i]) \in Order /\ PnlRow(begun[i]).amount \in Nat
    OBVIOUS
  <2> DEFINE r == begun[i]
  <2>1. r \in Req /\ PnlRow(r) = order[r] /\ pc[r] = "filled" /\ order[r].amount # None
    BY <1>1 DEF PnlRow
  <2>2. order[r] \in Order
    BY <2>1 DEF RequestsTyped
  <2>3. QED
    BY <2>1, <2>2 DEF Order
<1>3. PnlRows = [i \in 1..n |-> PnlRow(begun[i])]
  BY DEF PnlRows
<1> HIDE DEF n
<1>4. PnlRows \in Seq(Order \cup {None}) /\ Len(PnlRows) = n /\ DOMAIN PnlRows = 1..n
  BY <1>1, <1>2, <1>3
<1>5. \A i \in 1..n : PnlRows[i] = PnlRow(begun[i])
  BY <1>3
<1>6. \A k \in 0..n : /\ DOMAIN SubSeq(PnlRows, 1, k) = 1..k
                      /\ \A i \in 1..k : SubSeq(PnlRows, 1, k)[i] = PnlRows[i]
  BY <1>1, <1>4
<1>7. SubSeq(PnlRows, 1, n) = PnlRows
  BY <1>1, <1>4
<1>8. QED
  BY <1>1, <1>2, <1>4, <1>5, <1>6, <1>7 DEF n

\* The empty book adds up.
LEMMA EmptyBook ==
    /\ NoBook \in Ledger /\ NoBook.qty = 0 /\ NoBook.cost = Frac(0, 1)
    /\ Leq(Counted(NoBook), Frac(NoBook.sold, 1)) /\ Same(Counted(NoBook), Frac(NoBook.sold, 1))
<1>1. Frac(0, 1) \in Fraction /\ Parts(Frac(0, 1), 0, 1)
  BY DEF Frac, Fraction, Parts
<1>2. NoBook \in Ledger /\ NoBook.qty = 0 /\ NoBook.cost = Frac(0, 1)
      /\ NoBook.realized = Frac(0, 1) /\ NoBook.bought = 0 /\ NoBook.sold = 0
  BY <1>1 DEF NoBook, Ledger
<1> DEFINE one == 1
<1>3. one \in Nat \ {0} /\ Parts(NoBook.realized, 0, one) /\ Parts(NoBook.cost, 0, one)
  BY <1>1, <1>2
<1> HIDE DEF one
<1>4. /\ Leq(Counted(NoBook), Frac(NoBook.sold, 1)) <=> 0 + (NoBook.bought * one - 0) <= NoBook.sold * one
      /\ Same(Counted(NoBook), Frac(NoBook.sold, 1)) <=> 0 + (NoBook.bought * one - 0) = NoBook.sold * one
  <2>1. 0 \in Int
    OBVIOUS
  <2>2. QED
    BY <1>2, <1>3, <2>1, CountedParts
<1>5. QED
  BY <1>2, <1>4 DEF one

\* After any number of the rows the figures add up.
LEMMA PrefixesAddUp ==
    ASSUME RequestsTyped
    PROVE  LET s == Pnl(PnlRows) IN
           /\ s \in Ledger
           /\ Leq(Counted(s), Frac(s.sold, 1))
           /\ (\A i \in 1..Len(begun) : ~Clamped(PnlRows, i)) => Same(Counted(s), Frac(s.sold, 1))
<1> DEFINE n == Len(begun)
           Pre(k) == Pnl(SubSeq(PnlRows, 1, k))
           G == {k \in Nat : k <= n =>
                   /\ Pre(k) \in Ledger
                   /\ Leq(Counted(Pre(k)), Frac(Pre(k).sold, 1))
                   /\ (\A i \in 1..k : ~Clamped(PnlRows, i)) =>
                         Same(Counted(Pre(k)), Frac(Pre(k).sold, 1))}
<1>1. n \in Nat
  BY RowsRead
<1>2. 0 \in G
  <2>1. DOMAIN SubSeq(PnlRows, 1, 0) = {}
    <3>1. 0 \in 0..n /\ 1..0 = {}
      BY <1>1
    <3>2. QED
      BY <3>1, RowsRead
  <2>2. Pre(0) = NoBook
    BY <2>1, PnlOfNone
  <2>3. QED
    BY <2>2, EmptyBook
<1>3. ASSUME NEW k \in Nat, k \in G PROVE k + 1 \in G
  <2>1. SUFFICES ASSUME k + 1 <= n
                 PROVE  /\ Pre(k + 1) \in Ledger
                        /\ Leq(Counted(Pre(k + 1)), Frac(Pre(k + 1).sold, 1))
                        /\ (\A i \in 1..k + 1 : ~Clamped(PnlRows, i)) =>
                              Same(Counted(Pre(k + 1)), Frac(Pre(k + 1).sold, 1))
    OBVIOUS
  <2>2. k \in 0..n /\ k + 1 \in 0..n /\ k + 1 \in 1..n /\ k + 1 \in Nat /\ k <= n
    BY <1>1, <2>1
  <2> DEFINE s == Pre(k)
             o == PnlRows[k + 1]
  <2>3. /\ s \in Ledger /\ Leq(Counted(s), Frac(s.sold, 1))
        /\ (\A i \in 1..k : ~Clamped(PnlRows, i)) => Same(Counted(s), Frac(s.sold, 1))
    BY <1>3, <2>2
  <2>4. Pre(k + 1) = Enter(s, o)
    <3> DEFINE rows == SubSeq(PnlRows, 1, k)
               more == SubSeq(PnlRows, 1, k + 1)
    <3>1. /\ DOMAIN rows = 1..k /\ DOMAIN more = 1..k + 1
          /\ \A i \in 1..k : more[i] = rows[i]
          /\ more[k + 1] = o
      BY <2>2, RowsRead
    <3> HIDE DEF rows, more, o
    <3>2. Pnl(more) = Enter(Pnl(rows), more[k + 1])
      BY <3>1, PnlOfMore
    <3>3. QED
      BY <3>1, <3>2 DEF rows, more
  <2>5. (\A i \in 1..k + 1 : ~Clamped(PnlRows, i)) => (\A i \in 1..k : ~Clamped(PnlRows, i)) /\ ~Clamped(PnlRows, k + 1)
    BY <2>2
  <2>6. CASE o = None
    BY <2>3, <2>4, <2>5, <2>6 DEF Enter
  <2>7. CASE o # None
    <3>1. o \in Order /\ o.amount \in Nat
      BY <2>2, <2>7, RowsRead
    <3>2. Pre(k + 1) = Book(s, o)
      BY <2>4, <2>7 DEF Enter
    <3>3. ~Clamped(PnlRows, k + 1) => (o.side = "sell" => o.amount \in 1..s.qty)
      <4>1. (k + 1) - 1 = k
        OBVIOUS
      <4>2. Clamped(PnlRows, k + 1)
              <=> /\ o # None /\ o.side = "sell"
                  /\ o.amount \notin 1..s.qty
        BY <4>1 DEF Clamped
      <4>3. QED
        BY <2>7, <4>2
    <3> HIDE DEF Pre, s, o
    <3>4. /\ Book(s, o) \in Ledger
          /\ Leq(Counted(Book(s, o)), Frac(Book(s, o).sold, 1))
          /\ Same(Counted(s), Frac(s.sold, 1)) /\ (o.side = "sell" => o.amount \in 1..s.qty) =>
                Same(Counted(Book(s, o)), Frac(Book(s, o).sold, 1))
      BY <2>3, <3>1, BookAddsUp
    <3>5. QED
      BY <2>3, <2>5, <3>2, <3>3, <3>4
  <2>8. QED
    BY <2>6, <2>7
<1> HIDE DEF G
<1>4. n \in G
  BY <1>1, <1>2, <1>3, Counting
<1>5. Pre(n) = Pnl(PnlRows)
  BY RowsRead
<1>6. QED
  <2>1. n <= n
    BY <1>1
  <2>2. QED
    BY <1>4, <1>5, <2>1 DEF G

\* The figures of the P&L add up: nothing is counted that did not come in, and all
\* of it is unless a sale had more coins than the book knew of (the clamped sell
\* of compute_profile_pnl).
THEOREM MoneyTheorem == Spec => []MoneyAddsUp
<1>1. ASSUME Books PROVE MoneyAddsUp
  <2>1. RequestsTyped /\ Len(PnlRows) = Len(begun)
    BY <1>1, RowsRead DEF Books
  <2>2. QED
    BY <2>1, PrefixesAddUp DEF MoneyAddsUp, Counted
<1>2. QED
  BY <1>1, BooksHold, PTL
-----------------------------------------------------------------------------
(* The two books, order by order. *)

\* The P&L has as many coins as the position, and no lower a cost.
Agree(s, pos) == s.qty = pos.qty /\ Leq(pos.cost, s.cost)

\* An order and its fill, gross: both books take it, and agree as much as before
\* but for what was ordered and not filled.
LEMMA BothTake ==
    ASSUME NEW s \in Ledger, NEW pos \in Positions, Sound(pos), Agree(s, pos),
           NEW o \in Order, o.amount \in Nat, NEW f \in FillType,
           f.stable, f.qty > 0, f.side = o.side, f.qty = o.amount, f.cost <= o.usd,
           f.fee = 0 \/ f.feeIn = "other"
    PROVE  /\ Agree(Book(s, o), Take(pos, f))
           /\ Same(pos.cost, s.cost) /\ f.cost = o.usd => Same(Take(pos, f).cost, Book(s, o).cost)
<1> DEFINE new == Book(s, o)
           after == Take(pos, f)
           u == o.usd
           a == o.amount
           q == s.qty
           cut == Cut(s, o)
           paid == f.cost
<1>1. /\ q \in Nat /\ s.cost \in Fraction /\ pos.qty = q
      /\ o.side \in {"buy", "sell"} /\ u \in Nat /\ a \in Nat \ {0} /\ paid \in Nat /\ paid <= u
      /\ cut = IF a < q THEN a ELSE q
  BY DEF Agree, Ledger, Order, Side, Cut, FillType
<1>2. pos.cost \in Fraction /\ pos.cost.num \in Nat /\ (q = 0 => pos.cost.num = 0)
  BY <1>1 DEF Positions, Cost, Fraction, Sound
<1>3. PICK p \in Int, c \in Int, e \in Nat \ {0} : Parts(pos.cost, p, e) /\ Parts(s.cost, c, e)
  BY <1>1, <1>2, CommonParts
<1>4. p <= c /\ (Same(pos.cost, s.cost) <=> p = c) /\ e \in Int
  <2>1. (Leq(pos.cost, s.cost) <=> p <= c) /\ (Same(pos.cost, s.cost) <=> p = c)
    BY <1>1, <1>2, <1>3, PartsCompare
  <2>2. QED
    BY <2>1 DEF Agree
<1>5. ASSUME NEW e1 \in Nat \ {0}, NEW p1 \in Int, NEW c1 \in Int,
             after.cost \in Fraction, new.cost \in Fraction,
             Parts(after.cost, p1, e1), Parts(new.cost, c1, e1),
             new.qty = after.qty, p1 <= c1, p = c /\ paid = u => p1 = c1
      PROVE  /\ Agree(new, after)
             /\ Same(pos.cost, s.cost) /\ paid = u => Same(after.cost, new.cost)
  <2> HIDE DEF new, after, paid, u
  <2>1. (Leq(after.cost, new.cost) <=> p1 <= c1) /\ (Same(after.cost, new.cost) <=> p1 = c1)
    BY <1>5, PartsCompare
  <2>2. QED
    BY <1>4, <1>5, <2>1 DEF Agree
<1>6. Received(f) = a /\ Paid(f) = paid
  <2>1. f.fee \in Nat /\ f.qty = a /\ a \in Nat
    BY <1>1 DEF FillType
  <2>2. CASE f.fee = 0
    BY <1>1, <2>1, <2>2 DEF Received, Paid
  <2>3. CASE f.feeIn = "other"
    BY <1>1, <2>1, <2>3 DEF Received, Paid
  <2>4. QED
    BY <2>2, <2>3
<1>7. CASE o.side = "buy"
  <2>1. new.qty = q + a /\ new.cost = Plus(s.cost, Frac(u, 1))
    BY <1>7, Booked
  <2>2. after.qty = q + a /\ after.cost = Plus(pos.cost, Frac(paid, 1))
    <3>1. Received(f) > 0
      BY <1>1, <1>6
    <3>2. after.qty = pos.qty + Received(f) /\ after.cost = Plus(pos.cost, Frac(Paid(f), 1))
      BY <1>7, <3>1, Taken
    <3>3. QED
      BY <1>1, <1>6, <3>2
  <2> DEFINE fu == Frac(u, 1)
             fp == Frac(paid, 1)
             ue == u * e
             pe == paid * e
  <2>3. /\ fu \in Fraction /\ Parts(fu, ue, e) /\ ue \in Int
        /\ fp \in Fraction /\ Parts(fp, pe, e) /\ pe \in Int
    <3>1. u \in Int /\ paid \in Int /\ 1 \in Nat \ {0} /\ ue \in Int /\ pe \in Int
      BY <1>1, <1>4
    <3> HIDE DEF u, paid
    <3>2. QED
      BY <1>4, <3>1, FracType, PartsOfWhole
  <2>4. pe <= ue /\ (paid = u => pe = ue)
    <3>1. paid \in Nat /\ u \in Nat /\ e \in Nat /\ paid <= u
      BY <1>1, <1>3
    <3> HIDE DEF paid, u
    <3>2. QED
      BY <3>1
  <2> HIDE DEF new, after, fu, fp, ue, pe, q, u, paid
  <2>5. Plus(s.cost, fu) \in Fraction /\ Parts(Plus(s.cost, fu), c + ue, e)
    BY <1>1, <1>3, <1>4, <2>3, PartsOfPlus
  <2>6. Plus(pos.cost, fp) \in Fraction /\ Parts(Plus(pos.cost, fp), p + pe, e)
    BY <1>2, <1>3, <1>4, <2>3, PartsOfPlus
  <2> DEFINE p1 == p + pe
             c1 == c + ue
  <2>7. p1 \in Int /\ c1 \in Int /\ p1 <= c1 /\ (p = c /\ paid = u => p1 = c1)
    BY <1>3, <1>4, <2>3, <2>4
  <2>8. after.cost \in Fraction /\ new.cost \in Fraction /\ Parts(after.cost, p1, e) /\ Parts(new.cost, c1, e)
        /\ new.qty = after.qty
    BY <2>1, <2>2, <2>5, <2>6 DEF fu, fp
  <2> HIDE DEF p1, c1
  <2>9. Agree(new, after) /\ (Same(pos.cost, s.cost) /\ paid = u => Same(after.cost, new.cost))
    BY <1>3, <1>5, <2>7, <2>8
  <2>10. QED
    BY <2>9 DEF new, after, paid, u
<1>8. CASE o.side = "sell" /\ cut = 0
  <2>1. q = 0
    BY <1>1, <1>8
  <2>2. new.qty = 0 /\ new.cost = s.cost
    BY <1>8, <2>1, Booked
  <2>3. after.qty = 0 /\ after.cost = Frac(0, 1)
    <3>1. pos.qty <= f.qty
      BY <1>1, <2>1
    <3>2. QED
      BY <1>8, <3>1, Taken
  <2>4. p = 0
    <3>1. pos.cost.num * e = p * pos.cost.den /\ pos.cost.num = 0
          /\ pos.cost.den \in Nat \ {0}
      BY <1>2, <1>3, <2>1, FractionFields DEF Parts
    <3> DEFINE d == pos.cost.den
    <3>2. d \in Nat \ {0} /\ p * d = 0
      BY <1>4, <3>1
    <3> HIDE DEF d
    <3>3. QED
      BY <1>3, <3>2
  <2>5. Frac(0, 1) \in Fraction /\ Parts(Frac(0, 1), 0, e)
    BY <1>4 DEF Frac, Fraction, Parts
  <2> HIDE DEF new, after, q, u, paid
  <2>6. 0 \in Int /\ 0 <= c /\ (p = c => 0 = c)
    BY <1>3, <1>4, <2>4
  <2>7. after.cost \in Fraction /\ new.cost \in Fraction /\ Parts(after.cost, 0, e) /\ Parts(new.cost, c, e)
        /\ new.qty = after.qty
    BY <1>1, <1>3, <2>2, <2>3, <2>5
  <2>8. Agree(new, after) /\ (Same(pos.cost, s.cost) /\ paid = u => Same(after.cost, new.cost))
    BY <1>3, <1>5, <2>6, <2>7
  <2>9. QED
    BY <2>8 DEF new, after, paid, u
<1>9. CASE o.side = "sell" /\ cut # 0
  <2>1. /\ q \in Nat \ {0} /\ cut \in Nat \ {0} /\ cut <= q /\ q \in Int /\ cut \in Int
        /\ a < q => cut = a
        /\ ~(a < q) => cut = q
    BY <1>1, <1>9
  <2> DEFINE eq == e * q
             pq == p * q
             cq == c * q
             cc == c * cut
             spent == Spent(s, o)
  <2>2. eq \in Nat \ {0} /\ pq \in Int /\ cq \in Int /\ cc \in Int /\ eq \in Int
    BY <1>3, <2>1
  <2>3. new.qty = q - cut /\ new.cost = Minus(s.cost, spent)
    BY <1>9, Booked
  <2>4. spent = CostOf(s.cost, cut, q)
    BY DEF Spent
  <2> HIDE DEF spent, new, after, q, cut, u, a, paid
  <2>5. spent \in Fraction /\ Parts(spent, cc, eq) /\ Parts(s.cost, cq, eq)
    BY <1>1, <1>3, <1>4, <2>1, <2>4, PartsOfCost
  <2> HIDE DEF eq, pq, cq, cc
  <2>6. new.cost \in Fraction /\ Parts(new.cost, cq - cc, eq)
    <3>1. Minus(s.cost, spent) \in Fraction /\ Parts(Minus(s.cost, spent), cq - cc, eq)
      BY <1>1, <2>2, <2>5, PartsOfMinus
    <3>2. QED
      BY <2>3, <3>1
  <2>7. CASE a < q
    <3> DEFINE l == q - a
               pl == p * l
               c1 == cq - cc
    <3>1. l \in Int /\ pl \in Int /\ c1 \in Int /\ a \in Nat
      BY <1>1, <1>3, <2>1, <2>2
    <3>2. after.qty = l /\ after.cost = CostOf(pos.cost, l, q)
      <4>1. f.stable /\ f.side = "sell" /\ f.qty > 0 /\ pos.qty > f.qty
        BY <1>1, <1>9, <2>1, <2>7 DEF a
      <4>2. after.qty = pos.qty - f.qty /\ after.cost = CostOf(pos.cost, pos.qty - f.qty, pos.qty)
        BY <4>1, Taken DEF after
      <4>3. pos.qty = q /\ f.qty = a
        BY <1>1 DEF a
      <4>4. QED
        BY <4>2, <4>3
    <3>3. pl <= c1 /\ (p = c => pl = c1)
      <4>1. cq - cc = c * l
        BY <1>3, <2>1, <2>7, <3>1 DEF cq, cc
      <4>2. l \in Nat
        BY <1>1, <2>1, <2>7
      <4> HIDE DEF l
      <4>3. p * l <= c * l
        BY <1>3, <1>4, <4>2
      <4>4. QED
        BY <4>1, <4>3
    <3>4. new.qty = after.qty
      BY <2>1, <2>3, <2>7, <3>2
    <3>5. after.cost \in Fraction /\ Parts(after.cost, pl, eq)
      <4> HIDE DEF l
      <4>1. CostOf(pos.cost, l, q) \in Fraction /\ Parts(CostOf(pos.cost, l, q), p * l, e * q)
        BY <1>2, <1>3, <1>4, <2>1, <3>1, PartsOfCost
      <4>2. QED
        BY <3>2, <4>1 DEF eq
    <3>6. new.cost \in Fraction /\ Parts(new.cost, c1, eq)
      BY <2>6
    <3> HIDE DEF l, pl, c1
    <3>7. Agree(new, after) /\ (Same(pos.cost, s.cost) /\ paid = u => Same(after.cost, new.cost))
      BY <1>5, <2>2, <3>1, <3>3, <3>4, <3>5, <3>6
    <3>8. QED
      BY <3>7 DEF new, after, paid, u
  <2>8. CASE ~(a < q)
    <3>1. after.qty = 0 /\ after.cost = Frac(0, 1)
      <4>1. f.stable /\ f.side = "sell" /\ f.qty > 0 /\ pos.qty <= f.qty
        BY <1>1, <1>9, <2>1, <2>8 DEF a
      <4>2. QED
        BY <4>1, Taken DEF after
    <3>2. cut = q /\ new.qty = 0
      BY <2>1, <2>3, <2>8
    <3>3. cq - cc = 0
      BY <2>2, <3>2 DEF cq, cc
    <3>4. after.cost \in Fraction /\ Parts(after.cost, 0, eq)
      BY <2>2, <3>1 DEF Frac, Fraction, Parts
    <3>5. new.cost \in Fraction /\ Parts(new.cost, 0, eq)
      BY <2>6, <3>3
    <3>6. 0 \in Int /\ 0 <= 0 /\ new.qty = after.qty
      BY <3>1, <3>2
    <3>7. Agree(new, after) /\ (Same(pos.cost, s.cost) /\ paid = u => Same(after.cost, new.cost))
      BY <1>5, <2>2, <3>4, <3>5, <3>6
    <3>8. QED
      BY <3>7 DEF new, after, paid, u
  <2>9. QED
    BY <2>7, <2>8
<1>10. QED
  BY <1>1, <1>7, <1>8, <1>9

\* An order that was not filled at all is booked with its amount in dollars.
LEMMA NothingFilled ==
    ASSUME NEW s \in Ledger, NEW pos \in Positions, Agree(s, pos),
           NEW o \in Order, o.amount = 0
    PROVE  /\ Agree(Book(s, o), pos)
           /\ Same(pos.cost, s.cost) /\ o.usd = 0 => Same(pos.cost, Book(s, o).cost)
<1> DEFINE new == Book(s, o)
           u == o.usd
<1>1. /\ s.qty \in Nat /\ s.cost \in Fraction /\ pos.qty = s.qty
      /\ o.side \in {"buy", "sell"} /\ u \in Nat
  BY DEF Agree, Ledger, Order, Side
<1>2. pos.cost \in Fraction
  BY DEF Positions, Cost, Fraction
<1>3. CASE o.side = "buy"
  <2>1. new.qty = s.qty + 0 /\ new.cost = Plus(s.cost, Frac(u, 1))
    BY <1>3, Booked
  <2>2. PICK p \in Int, c \in Int, e \in Nat \ {0} : Parts(pos.cost, p, e) /\ Parts(s.cost, c, e)
    BY <1>1, <1>2, CommonParts
  <2>3. p <= c /\ (Same(pos.cost, s.cost) <=> p = c) /\ e \in Int
    <3>1. (Leq(pos.cost, s.cost) <=> p <= c) /\ (Same(pos.cost, s.cost) <=> p = c)
      BY <1>1, <1>2, <2>2, PartsCompare
    <3>2. QED
      BY <3>1 DEF Agree
  <2> DEFINE fu == Frac(u, 1)
             ue == u * e
  <2>4. fu \in Fraction /\ Parts(fu, ue, e) /\ ue \in Nat /\ ue \in Int /\ (u = 0 => ue = 0)
    <3>1. u \in Int /\ 1 \in Nat \ {0} /\ ue \in Nat /\ (u = 0 => ue = 0)
      BY <1>1, <2>2
    <3> HIDE DEF u
    <3>2. QED
      BY <2>3, <3>1, FracType, PartsOfWhole
  <2> HIDE DEF new, u, fu, ue
  <2>5. Plus(s.cost, fu) \in Fraction /\ Parts(Plus(s.cost, fu), c + ue, e)
    BY <1>1, <2>2, <2>3, <2>4, PartsOfPlus
  <2> DEFINE c1 == c + ue
  <2>6. c1 \in Int /\ p <= c1 /\ (u = 0 => c1 = c) /\ new.cost \in Fraction /\ Parts(new.cost, c1, e)
    BY <2>1, <2>2, <2>3, <2>4, <2>5 DEF fu
  <2> HIDE DEF c1
  <2>7. (Leq(pos.cost, new.cost) <=> p <= c1) /\ (Same(pos.cost, new.cost) <=> p = c1)
    BY <1>2, <2>2, <2>6, PartsCompare
  <2>8. new.qty = pos.qty
    BY <1>1, <2>1
  <2>9. QED
    BY <2>3, <2>6, <2>7, <2>8 DEF Agree, new, u
<1>4. CASE o.side = "sell"
  <2>1. Cut(s, o) = 0
    BY <1>1 DEF Cut
  <2>2. new.qty = s.qty /\ new.cost = s.cost
    BY <1>4, <2>1, Booked
  <2>3. QED
    BY <2>2 DEF Agree
<1>5. QED
  BY <1>1, <1>3, <1>4
-----------------------------------------------------------------------------
(* The requests in the order they began. *)

\* A request is in the order once, from its beginning on.
BegunOnce ==
    /\ \A i, j \in 1..Len(begun) : begun[i] = begun[j] => i = j
    /\ \A i \in 1..Len(begun) : pc[begun[i]] # "idle"

\* One at a time: the one that runs is the last that began.
OneAtATime ==
    overlap = {} => \A r \in Req : pc[r] \in Running => Len(begun) > 0 /\ begun[Len(begun)] = r

Begun == BegunOnce /\ OneAtATime

\* A request that begins is the last in the order.
LEMMA BegunGrows ==
    ASSUME RequestsTyped, NEW r \in Req, Begin(r)
    PROVE  /\ Len(begun) \in Nat /\ Len(begun') = Len(begun) + 1
           /\ \A i \in 1..Len(begun) : begun[i] \in Req /\ begun'[i] = begun[i]
           /\ begun'[Len(begun) + 1] = r
BY DEF Begin, RequestsTyped

\* Every step keeps the order.
LEMMA BegunStays ==
    ASSUME RequestsTyped, Begun, [Next]_vars
    PROVE  Begun'
<1>1. ASSUME NEW r \in Req, Begin(r) PROVE Begun'
  <2> DEFINE n == Len(begun)
             old == begun
             new == begun'
  <2>1. /\ n \in Nat /\ Len(new) = n + 1
        /\ \A i \in 1..n : old[i] \in Req /\ new[i] = old[i]
        /\ new[n + 1] = r
    BY <1>1, BegunGrows
  <2>2. /\ pc[r] = "idle" /\ pc'[r] = "place" /\ \A q \in Req \ {r} : pc'[q] = pc[q]
    BY <1>1 DEF Begin, RequestsTyped
  <2>3. \A i, j \in 1..n : old[i] = old[j] => i = j
    BY DEF Begun, BegunOnce
  <2>4. \A i \in 1..n : pc[old[i]] # "idle"
    BY DEF Begun, BegunOnce
  <2> HIDE DEF n, old, new
  <2>5. \A i \in 1..n : old[i] # r
    BY <2>2, <2>4
  <2>6. \A i, j \in 1..n + 1 : new[i] = new[j] => i = j
    <3> SUFFICES ASSUME NEW i \in 1..n + 1, NEW j \in 1..n + 1, new[i] = new[j] PROVE i = j
      OBVIOUS
    <3>1. (i \in 1..n \/ i = n + 1) /\ (j \in 1..n \/ j = n + 1)
      BY <2>1
    <3>2. QED
      BY <2>1, <2>3, <2>5, <3>1
  <2>7. \A i \in 1..n + 1 : pc'[new[i]] # "idle"
    <3> SUFFICES ASSUME NEW i \in 1..n + 1 PROVE pc'[new[i]] # "idle"
      OBVIOUS
    <3>1. CASE i = n + 1
      BY <2>1, <2>2, <3>1
    <3>2. CASE i \in 1..n
      BY <2>1, <2>2, <2>4, <2>5, <3>2
    <3>3. QED
      BY <2>1, <3>1, <3>2
  <2>8. BegunOnce'
    BY <2>1, <2>6, <2>7 DEF BegunOnce, new
  <2>9. OneAtATime'
    <3> SUFFICES ASSUME overlap' = {}, NEW q \in Req, pc'[q] \in Running PROVE Len(new) > 0 /\ new[Len(new)] = q
      BY DEF OneAtATime, new
    <3>1. \A p \in Req : pc[p] \notin Running
      BY <1>1 DEF Begin
    <3>2. q = r
      BY <2>2, <3>1
    <3>3. QED
      BY <2>1, <3>2
  <2>10. QED
    BY <2>8, <2>9 DEF Begun
<1>2. ASSUME \A q \in Req : /\ pc[q] # "idle" => pc'[q] # "idle"
                            /\ pc'[q] \in Running => pc[q] \in Running,
             UNCHANGED <<begun, overlap>>
      PROVE  Begun'
  <2>1. \A i \in 1..Len(begun) : begun[i] \in Req
    BY DEF RequestsTyped
  <2>2. QED
    BY <1>2, <2>1 DEF Begun, BegunOnce, OneAtATime
<1>3. ASSUME NEW r \in Req, Place(r) \/ Record(r) \/ NotFilled(r) PROVE Begun'
  <2>1. UNCHANGED <<begun, overlap>>
    BY <1>3 DEF Place, Record, NotFilled
  <2>2. /\ pc[r] \in Running /\ pc'[r] # "idle" /\ \A q \in Req \ {r} : pc'[q] = pc[q]
    BY <1>3 DEF Place, Record, NotFilled, Running, Over, RequestsTyped
  <2>3. QED
    BY <1>2, <2>1, <2>2
<1>4. ASSUME OutsideTrade \/ Deposit \/ Withdraw \/ ReadHoldings \/ TakeRow \/ ReadTrades \/ UNCHANGED vars
      PROVE  Begun'
  <2>1. UNCHANGED <<pc, begun, overlap>>
    BY <1>4 DEF OutsideTrade, Deposit, Withdraw, ReadHoldings, TakeRow, ReadTrades, vars
  <2>2. QED
    BY <1>2, <2>1
<1>5. QED
  BY <1>1, <1>3, <1>4 DEF Next
-----------------------------------------------------------------------------
(* The books agree as soon as the venue has executed an order, if its row is
   taken for granted.                                                      *)

Placed == {"record", "filled"}

AheadRow(place, o) == IF place \in Placed /\ o.amount # None THEN o ELSE None
AheadRows == [i \in 1..Len(begun) |-> AheadRow(pc[begun[i]], order[begun[i]])]

\* Binance, all trades CoinHQ's, one after the other, none lost or charged for.
Quiet ==
    /\ venue = "binance" /\ outside = 0 /\ overlap = {}
    /\ \A r \in Req : pc[r] # "failed"
    /\ \A f \in Fills : f.fee = 0 \/ f.feeIn = "other"

\* Every order was filled in full.
AllWhole == \A r \in Req : pc[r] \in Placed => order[r].whole

\* The invariant behind BooksAgree, which every step of an order keeps.
Agreement ==
    Quiet => /\ Pnl(AheadRows) \in Ledger
             /\ Agree(Pnl(AheadRows), Pos)
             /\ AllWhole => Same(Pos.cost, Pnl(AheadRows).cost)

\* A new request changes nothing yet.
LEMMA BeginAgrees ==
    ASSUME RequestsTyped, Begun, Agreement, NEW r \in Req, Begin(r)
    PROVE  Agreement'
<1> DEFINE n == Len(begun)
           rows == AheadRows
           more == AheadRows'
<1>1. /\ n \in Nat /\ Len(begun') = n + 1
      /\ \A i \in 1..n : begun[i] \in Req /\ begun'[i] = begun[i]
      /\ begun'[n + 1] = r
  BY BegunGrows
<1>2. /\ pc[r] = "idle" /\ pc'[r] = "place"
      /\ \A q \in Req \ {r} : pc'[q] = pc[q] /\ order'[q] = order[q]
      /\ UNCHANGED <<venue, trades, outside>> /\ overlap \subseteq overlap'
  BY DEF Begin, RequestsTyped
<1>3. \A i \in 1..n : begun[i] # r
  BY <1>2 DEF Begun, BegunOnce
<1>4. /\ DOMAIN rows = 1..n /\ DOMAIN more = 1..n + 1
      /\ \A i \in 1..n : rows[i] = AheadRow(pc[begun[i]], order[begun[i]])
      /\ \A i \in 1..n + 1 : more[i] = AheadRow(pc'[begun'[i]], order'[begun'[i]])
  BY <1>1 DEF AheadRows
<1>5. more[n + 1] = None
  <2>1. n + 1 \in 1..n + 1
    BY <1>1
  <2>2. more[n + 1] = AheadRow(pc'[r], order'[r])
    BY <1>1, <1>4, <2>1
  <2>3. QED
    BY <1>2, <2>2 DEF AheadRow, Placed
<1>6. \A i \in 1..n : more[i] = rows[i]
  <2> SUFFICES ASSUME NEW i \in 1..n PROVE more[i] = rows[i]
    OBVIOUS
  <2>1. i \in 1..n + 1 /\ begun'[i] = begun[i] /\ begun[i] \in Req \ {r}
    BY <1>1, <1>3
  <2>2. QED
    BY <1>2, <1>4, <2>1
<1> HIDE DEF n, rows, more
<1>7. Pnl(more) = Pnl(rows)
  BY <1>1, <1>4, <1>5, <1>6, PnlOfMore DEF Enter
<1>8. Pos' = Pos /\ Fills' = Fills
  BY <1>2 DEF Pos, Fills
<1>9. Quiet' => Quiet
  <2>1. ASSUME Quiet' PROVE \A q \in Req : pc[q] # "failed"
    BY <1>2, <2>1 DEF Quiet
  <2>2. ASSUME Quiet' PROVE overlap = {}
    BY <1>2, <2>2 DEF Quiet
  <2>3. QED
    BY <1>2, <1>8, <2>1, <2>2 DEF Quiet
<1>10. AllWhole' => AllWhole
  BY <1>2 DEF AllWhole, Placed
<1>11. QED
  <2>1. Pnl(AheadRows)' = Pnl(AheadRows)
    BY <1>7 DEF rows, more
  <2>2. QED
    BY <1>8, <1>9, <1>10, <2>1 DEF Agreement

\* An order that was executed is taken by both books.
LEMMA PlaceAgrees ==
    ASSUME RequestsTyped, BooksTyped, Begun, Agreement, NEW r \in Req, Place(r), Quiet'
    PROVE  /\ Pnl(AheadRows)' \in Ledger
           /\ Agree(Pnl(AheadRows)', Pos')
           /\ AllWhole' => Same(Pos'.cost, Pnl(AheadRows)'.cost)
<1>1. PICK price \in Nat \ {0}, qty \in Nat :
        /\ order[r] \in Order /\ qty * price <= order[r].usd
        /\ Filled(r, price, qty) \in Order /\ order' = [order EXCEPT ![r] = Filled(r, price, qty)]
        /\ \/ qty = 0 /\ UNCHANGED <<trades, held, bought, sold, otherSold>>
           \/ /\ qty > 0
              /\ \E charge \in Charge(order[r].side) :
                    Trade(order[r].side, qty, qty * price, TRUE, charge)
  BY PlaceFills
<1>2. /\ pc[r] = "place" /\ pc'[r] = "record"
      /\ \A q \in Req \ {r} : pc'[q] = pc[q] /\ order'[q] = order[q]
      /\ order'[r] = Filled(r, price, qty)
      /\ UNCHANGED <<venue, outside, begun, overlap, deposited, withdrawn, basis, walk>>
  BY <1>1 DEF Place, RequestsTyped
<1>3. venue = "binance" /\ overlap = {} /\ outside = 0
  BY <1>2 DEF Quiet
<1> DEFINE n == Len(begun)
           m == n - 1
           old == AheadRows
           new == AheadRows'
           pre == [i \in 1..m |-> old[i]]
           o == Filled(r, price, qty)
<1>4. /\ n \in Nat /\ m \in Nat /\ n = m + 1 /\ begun[m + 1] = r
      /\ \A i \in 1..n : begun[i] \in Req
  <2>1. n \in Nat /\ \A i \in 1..n : begun[i] \in Req
    BY DEF RequestsTyped
  <2>2. n > 0 /\ begun[n] = r
    BY <1>2, <1>3 DEF Begun, OneAtATime, Running
  <2>3. QED
    BY <2>1, <2>2
<1>5. \A i \in 1..m : begun[i] # r
  <2> SUFFICES ASSUME NEW i \in 1..m, begun[i] = r PROVE FALSE
    OBVIOUS
  <2> HIDE DEF n, m
  <2>1. i \in 1..n /\ n \in 1..n /\ i # n /\ n = Len(begun)
    BY <1>4 DEF n
  <2>2. begun[i] = begun[n]
    BY <1>4
  <2>3. QED
    BY <2>1, <2>2 DEF Begun, BegunOnce
<1>6. /\ o \in Order /\ o.side = order[r].side /\ o.usd = order[r].usd /\ o.amount = qty
      /\ o.whole = (qty * price = o.usd)
  BY <1>1, <1>3 DEF Filled, Answered
<1>7. /\ DOMAIN old = 1..m + 1 /\ DOMAIN new = 1..m + 1 /\ DOMAIN pre = 1..m
      /\ \A i \in 1..m + 1 : old[i] = AheadRow(pc[begun[i]], order[begun[i]])
      /\ \A i \in 1..m + 1 : new[i] = AheadRow(pc'[begun[i]], order'[begun[i]])
      /\ \A i \in 1..m : pre[i] = old[i]
  BY <1>2, <1>4 DEF AheadRows
<1>8. m + 1 \in 1..m + 1 /\ \A i \in 1..m : i \in 1..m + 1
  BY <1>4
<1>9. old[m + 1] = None
  BY <1>2, <1>4, <1>7, <1>8 DEF AheadRow, Placed
<1>10. new[m + 1] = o /\ o # None
  <2>1. qty # None /\ o # None
    BY <1>6, NoneIsNothing
  <2>2. new[m + 1] = AheadRow(pc'[r], order'[r])
    BY <1>4, <1>7, <1>8
  <2> HIDE DEF o
  <2>3. AheadRow("record", o) = o
    BY <1>6, <2>1 DEF AheadRow, Placed
  <2>4. order'[r] = o /\ pc'[r] = "record"
    BY <1>2 DEF o
  <2>5. QED
    BY <2>1, <2>2, <2>3, <2>4
<1>11. \A i \in 1..m : new[i] = pre[i]
  <2> SUFFICES ASSUME NEW i \in 1..m PROVE new[i] = pre[i]
    OBVIOUS
  <2>1. begun[i] \in Req \ {r} /\ i \in 1..m + 1
    BY <1>4, <1>5, <1>8
  <2>2. pc'[begun[i]] = pc[begun[i]] /\ order'[begun[i]] = order[begun[i]]
    BY <1>2, <2>1
  <2>3. QED
    BY <1>7, <2>1, <2>2
<1> HIDE DEF n, m, old, new, pre, o
<1>12. Pnl(old) = Pnl(pre)
  BY <1>4, <1>7, <1>9, PnlOfMore DEF Enter
<1>13. Pnl(new) = Book(Pnl(pre), o)
  BY <1>4, <1>7, <1>10, <1>11, PnlOfMore DEF Enter
<1> DEFINE s == Pnl(pre)
<1>14. Fills \subseteq Fills'
  <2>1. CASE UNCHANGED trades
    BY <1>2, <2>1 DEF Fills
  <2>2. CASE \E side, q, cost, stable, charge : Traded(side, q, cost, stable, charge)
    BY <2>2, TradedRows
  <2>3. \/ UNCHANGED trades
        \/ \E side, q, cost, stable, charge : Traded(side, q, cost, stable, charge)
    <3>1. [Next]_vars
      BY DEF Next
    <3>2. QED
      BY <3>1, KindOfStep DEF NotTraded
  <2>4. QED
    BY <2>1, <2>2, <2>3
<1>15. Quiet
  <2>1. \A q \in Req : pc[q] # "failed"
    BY <1>2 DEF Quiet
  <2>2. \A f \in Fills : f.fee = 0 \/ f.feeIn = "other"
    BY <1>14 DEF Quiet
  <2>3. QED
    BY <1>3, <2>1, <2>2 DEF Quiet
<1>16. AllWhole' => AllWhole /\ qty * price = o.usd
  <2>1. ASSUME AllWhole' PROVE order'[r].whole
    BY <1>2, <2>1 DEF AllWhole, Placed
  <2>2. order'[r] = o
    BY <1>2 DEF o
  <2>3. ASSUME AllWhole' PROVE AllWhole
    BY <1>2, <2>3 DEF AllWhole, Placed
  <2>4. QED
    BY <1>6, <2>1, <2>2, <2>3
<1>17. s \in Ledger /\ Agree(s, Pos) /\ (AllWhole => Same(Pos.cost, s.cost))
  BY <1>12, <1>15 DEF Agreement, old
<1>18. Pos \in Positions /\ Sound(Pos)
  BY DEF BooksTyped, Pos
<1> HIDE DEF s
<1>19. Book(s, o) \in Ledger
  BY <1>6, <1>17, BookAddsUp
<1>20. CASE qty = 0 /\ UNCHANGED <<trades, held, bought, sold, otherSold>>
  <2>1. Pos' = Pos
    BY <1>2, <1>20 DEF Pos
  <2>2. o.amount = 0
    BY <1>6, <1>20
  <2>3. /\ Agree(Book(s, o), Pos)
        /\ Same(Pos.cost, s.cost) /\ o.usd = 0 => Same(Pos.cost, Book(s, o).cost)
    BY <1>6, <1>17, <1>18, <2>2, NothingFilled
  <2>4. qty * price = o.usd => o.usd = 0
    BY <1>1, <1>20
  <2>5. QED
    BY <1>13, <1>16, <1>17, <1>19, <2>1, <2>3, <2>4 DEF new, s
<1>21. CASE qty > 0 /\ \E charge \in Charge(order[r].side) :
                          Trade(order[r].side, qty, qty * price, TRUE, charge)
  <2>1. qty * price \in Nat
    BY <1>1
  <2>2. PICK charge \in Charge(order[r].side) : Trade(order[r].side, qty, qty * price, TRUE, charge)
    BY <1>21
  <2>3. Traded(order[r].side, qty, qty * price, TRUE, charge)
    <3>1. order[r].side \in Side /\ qty \in Nat \ {0} /\ TRUE \in BOOLEAN
      BY <1>1, <1>21 DEF Order
    <3>2. QED
      BY <1>2, <2>1, <2>2, <3>1 DEF Traded
  <2>4. PICK side, amount, paid, stable :
            /\ side = order[r].side /\ amount = qty /\ paid = qty * price /\ stable = TRUE
            /\ Traded(side, amount, paid, stable, charge)
    BY <2>3, Zenon
  <2> DEFINE f == ParseFill(venue, Reported(side, amount, paid, stable, charge))
  <2>5. /\ Fills' = Fills \cup {f} /\ Pos' = Take(Pos, f) /\ f \in FillType
        /\ f.stable = stable /\ f.side = side /\ f.qty = amount /\ f.cost = paid
    <3>1. Traded(side, amount, paid, stable, charge)
      BY <2>4
    <3>2. QED
      BY <3>1, TradedRows
  <2> HIDE DEF f
  <2>6. f.stable /\ (f.fee = 0 \/ f.feeIn = "other")
    BY <2>4, <2>5 DEF Quiet
  <2>7. /\ Agree(Book(s, o), Take(Pos, f))
        /\ Same(Pos.cost, s.cost) /\ f.cost = o.usd => Same(Take(Pos, f).cost, Book(s, o).cost)
    <3>1. /\ o.amount \in Nat /\ f.qty > 0 /\ f.side = o.side /\ f.qty = o.amount /\ f.cost <= o.usd
      BY <1>1, <1>6, <1>21, <2>4, <2>5
    <3>2. QED
      BY <1>6, <1>17, <1>18, <2>5, <2>6, <3>1, BothTake
  <2>8. AllWhole' => f.cost = o.usd
    BY <1>16, <2>4, <2>5
  <2>9. QED
    BY <1>13, <1>16, <1>17, <1>19, <2>5, <2>7, <2>8 DEF new, s
<1>22. QED
  BY <1>1, <1>20, <1>21

\* Every step keeps the agreement.
LEMMA AgreementStays ==
    ASSUME RequestsTyped, BooksTyped, Begun, Agreement, [Next]_vars
    PROVE  Agreement'
<1>1. ASSUME NEW r \in Req, Begin(r) PROVE Agreement'
  BY <1>1, BeginAgrees
<1>2. ASSUME NEW r \in Req, Place(r) PROVE Agreement'
  BY <1>2, PlaceAgrees DEF Agreement
<1>3. ASSUME UNCHANGED <<venue, trades, outside, begun, overlap, order>>,
             \A q \in Req : /\ pc'[q] \in Placed <=> pc[q] \in Placed
                            /\ pc[q] = "failed" => pc'[q] = "failed"
      PROVE  Agreement'
  <2>1. Pos' = Pos /\ Fills' = Fills
    BY <1>3 DEF Pos, Fills
  <2>2. AheadRows' = AheadRows
    <3>1. \A i \in 1..Len(begun) : begun[i] \in Req
      BY DEF RequestsTyped
    <3>2. \A i \in 1..Len(begun) : AheadRow(pc'[begun[i]], order[begun[i]]) = AheadRow(pc[begun[i]], order[begun[i]])
      BY <1>3, <3>1 DEF AheadRow
    <3>3. AheadRows' = [i \in 1..Len(begun) |-> AheadRow(pc'[begun[i]], order[begun[i]])]
      BY <1>3 DEF AheadRows
    <3>4. QED
      BY <3>2, <3>3 DEF AheadRows
  <2>3. Pnl(AheadRows)' = Pnl(AheadRows)
    BY <2>2
  <2>4. (Quiet' => Quiet) /\ (AllWhole' => AllWhole)
    BY <1>3, <2>1 DEF Quiet, AllWhole
  <2>5. QED
    BY <2>1, <2>3, <2>4 DEF Agreement
<1>4. ASSUME NEW r \in Req, Record(r) PROVE Agreement'
  <2>1. /\ UNCHANGED <<venue, trades, outside, begun, overlap, order>>
        /\ \A q \in Req : /\ pc'[q] \in Placed <=> pc[q] \in Placed
                          /\ pc[q] = "failed" => pc'[q] = "failed"
    BY <1>4 DEF Record, RequestsTyped, Placed
  <2>2. QED
    BY <1>3, <2>1
<1>5. ASSUME NEW r \in Req, NotFilled(r) PROVE Agreement'
  <2>1. pc'[r] = "failed"
    BY <1>5 DEF NotFilled, RequestsTyped
  <2>2. QED
    BY <2>1 DEF Agreement, Quiet
<1>6. ASSUME OutsideTrade PROVE Agreement'
  <2>1. outside \in Nat /\ outside' = outside + 1
    BY <1>6 DEF OutsideTrade, BooksTyped
  <2>2. outside' # 0
    BY <2>1
  <2>3. QED
    BY <2>2 DEF Agreement, Quiet
<1>7. ASSUME Deposit \/ Withdraw \/ ReadHoldings \/ TakeRow \/ ReadTrades \/ UNCHANGED vars
      PROVE  Agreement'
  <2>1. UNCHANGED <<venue, trades, outside, begun, overlap, order, pc>>
    BY <1>7 DEF Deposit, Withdraw, ReadHoldings, TakeRow, ReadTrades, vars
  <2>2. QED
    BY <1>3, <2>1
<1>8. QED
  BY <1>1, <1>2, <1>4, <1>5, <1>6, <1>7 DEF Next

\* It holds in every state.
LEMMA AgreementHolds == Spec => [](Begun /\ Agreement)
<1>1. ASSUME Init PROVE Begun /\ Agreement
  <2>1. Pos = NoPosition /\ begun = <<>> /\ Len(begun) = 0
    BY <1>1, InitBooks DEF Init
  <2>2. \A r \in Req : pc[r] = "idle"
    BY <1>1 DEF Init
  <2>3. Begun
    BY <2>1, <2>2 DEF Begun, BegunOnce, OneAtATime, Running
  <2>4. Pnl(AheadRows) = NoBook
    <3>1. DOMAIN AheadRows = {}
      BY <2>1 DEF AheadRows
    <3>2. QED
      BY <3>1, PnlOfNone
  <2>5. Pos.qty = 0 /\ Pos.cost = Frac(0, 1)
    BY <2>1 DEF NoPosition
  <2>6. Leq(Frac(0, 1), Frac(0, 1)) /\ Same(Frac(0, 1), Frac(0, 1))
    BY DEF Leq, Same, Frac
  <2>7. QED
    BY <2>3, <2>4, <2>5, <2>6, EmptyBook DEF Agreement, Agree
<1>2. ASSUME Books, Begun, Agreement, [Next]_vars PROVE Begun' /\ Agreement'
  BY <1>2, BegunStays, AgreementStays DEF Books
<1>3. QED
  BY <1>1, <1>2, BooksHold, PTL DEF Spec

\* The two books agree when all trades are CoinHQ's, one after the other, on a venue
\* that reports the amount, and none was lost or charged for: the same coins, and a
\* cost that is as high, or higher when an order was filled in part
\* (compute_avco against compute_profile_pnl).
THEOREM AgreementTheorem == Spec => []BooksAgree
<1>1. ASSUME Agreement, venue = "binance", outside = 0, overlap = {},
             \A r \in Req : pc[r] \in {"idle", "filled"},
             \A f \in Fills : f.fee = 0 \/ f.feeIn = "other",
             RequestsTyped
      PROVE  /\ Pnl(PnlRows).qty = Pos.qty
             /\ Leq(Pos.cost, Pnl(PnlRows).cost)
             /\ (\A r \in Req : pc[r] = "filled" => order[r].whole) => Same(Pos.cost, Pnl(PnlRows).cost)
  <2>1. Quiet
    BY <1>1 DEF Quiet
  <2>2. AheadRows = PnlRows
    <3>1. \A i \in 1..Len(begun) : begun[i] \in Req
      BY <1>1 DEF RequestsTyped
    <3>2. \A r \in Req : pc[r] \in Placed <=> pc[r] = "filled"
      BY <1>1 DEF Placed
    <3>3. \A i \in 1..Len(begun) : AheadRow(pc[begun[i]], order[begun[i]]) = PnlRow(begun[i])
      BY <3>1, <3>2 DEF AheadRow, PnlRow
    <3>4. QED
      BY <3>3 DEF AheadRows, PnlRows
  <2>3. (\A r \in Req : pc[r] = "filled" => order[r].whole) => AllWhole
    BY <1>1 DEF AllWhole, Placed
  <2>4. QED
    BY <1>1, <2>1, <2>2, <2>3 DEF Agreement, Agree
<1>2. Agreement /\ RequestsTyped => BooksAgree
  BY <1>1 DEF BooksAgree, Pos
<1>3. Books => RequestsTyped
  BY DEF Books
<1>4. QED
  BY <1>2, <1>3, AgreementHolds, BooksHold, PTL
=============================================================================

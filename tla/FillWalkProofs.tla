--------------------------- MODULE FillWalkProofs ---------------------------
(***************************************************************************)
(* Theorems about FillWalk, for every adapter, any number of markets and   *)
(* windows, and pages, budgets and histories of any size.                  *)
(***************************************************************************)
EXTENDS FillWalk, FiniteSetTheorems, SequenceTheorems, TLAPS

-----------------------------------------------------------------------------
(* The inductive invariant.                                                *)

PoolType == [calls : Nat, active : SUBSET Lane, queue : Seq(Lane),
             ended : [Lane -> Ends \cup {None}]]

\* The lanes still to be called.
Waiting(p) == p.active \cup {p.queue[i] : i \in DOMAIN p.queue}

\* A pool within its bounds: no lane is in it twice, and none that has ended.
PoolOK(p) ==
    /\ IsFiniteSet(p.active) /\ Cardinality(p.active) <= Style.conc
    /\ Style.budget => p.calls <= MaxCalls
    /\ \A i, j \in DOMAIN p.queue : p.queue[i] = p.queue[j] => i = j
    /\ \A i \in DOMAIN p.queue : p.queue[i] \notin p.active
    /\ \A l \in Waiting(p) : p.ended[l] = None

\* Trade i lies in the part of lane l's history its pages have covered.
Covered(l, i) ==
    IF Style.paging = "forward" THEN i <= pos[l]
    ELSE Newest(l) - pos[l] < i

\* A lane that did not fail keeps what its pages covered, and one that is done
\* has covered everything there was.
Kept(l) ==
    /\ pool.ended[l] # "failed" =>
         \A i \in 1..old[l] : Covered(l, i) => got[l][i] > 0
    /\ pool.ended[l] = "done" => \A i \in 1..old[l] : got[l][i] > 0

\* The numbers of a lane agree, and a capped one has a page left when called.
LaneOK(l) ==
    /\ old[l] <= trades[l]
    /\ pages[l] > 0 => old[l] <= top[l] /\ top[l] <= trades[l]
    /\ pages[l] = 0 => pos[l] = 0
    /\ Style.cap => pages[l] <= MaxPages
    /\ Style.cap /\ l \in Waiting(pool) => pages[l] < MaxPages

Walked ==
    /\ TypeOK
    /\ PageLimit <= served
    /\ PoolOK(pool)
    /\ \A l \in Lane : LaneOK(l) /\ Kept(l)

-----------------------------------------------------------------------------
(* What the table of adapters says of each of them.                        *)
LEMMA StyleFacts ==
    ASSUME adapter \in Adapters
    PROVE  /\ Style.conc \in Nat \ {0} /\ Style.budget \in BOOLEAN /\ Style.cap \in BOOLEAN
           /\ Style.slot \in {"call", "lane"}
           /\ Style.slot = "call" => Style.budget
           /\ Style.paging \in {"forward", "numbered", "offset", "back"}
           /\ Style.lanes \subseteq Nat \ {0}
           /\ Style.budget \/ Style.lanes = {1}
           /\ Style.budget \/ Style.cap
           /\ Style.fails \in {"answer", "walk", "lane"}
           /\ adapter = "kraken" <=> Style.paging = "offset"
           /\ adapter = "coinbase" => Style.paging = "back"
           /\ adapter = "bybit" => Style.paging = "back"
           /\ adapter = "gateio" <=> Style.paging = "numbered"
<1>1. adapter \in {"binance", "binancetr", "gateio", "bybit", "kraken", "okx", "coinbase"}
  BY AdaptersAssumption DEF Walkers
<1>2. /\ MaxMarkets \in Nat \ {0} /\ MaxWindows \in Nat \ {0} /\ Concurrency \in Nat \ {0}
  BY BoundsAssumption
<1>3. /\ 1..MaxMarkets \subseteq Nat \ {0}
      /\ {MaxWindows} \subseteq Nat \ {0}
      /\ {1} \subseteq Nat \ {0}
  BY <1>2
<1>4. CASE adapter = "binance"
  BY <1>2, <1>3, <1>4 DEF Style, Walkers, Binance, Many
<1>5. CASE adapter = "binancetr"
  BY <1>2, <1>3, <1>5 DEF Style, Walkers, BinanceTR, Many
<1>6. CASE adapter = "gateio"
  BY <1>2, <1>3, <1>6 DEF Style, Walkers, Gateio, Many
<1>7. CASE adapter = "bybit"
  BY <1>2, <1>3, <1>7 DEF Style, Walkers, Bybit, Many
<1>8. CASE adapter = "kraken"
  BY <1>3, <1>8 DEF Style, Walkers, Kraken, Single
<1>9. CASE adapter = "okx"
  BY <1>3, <1>9 DEF Style, Walkers, OKX, Single
<1>10. CASE adapter = "coinbase"
  BY <1>3, <1>10 DEF Style, Walkers, Coinbase, Single
<1>11. QED
  BY <1>1, <1>4, <1>5, <1>6, <1>7, <1>8, <1>9, <1>10

\* The first n members of a queue are at most n lanes.
LEMMA Few ==
    ASSUME NEW f, NEW n \in Nat
    PROVE  /\ IsFiniteSet({f[i] : i \in 1..n})
           /\ Cardinality({f[i] : i \in 1..n}) \in Nat
           /\ Cardinality({f[i] : i \in 1..n}) <= n
<1> DEFINE T == {f[i] : i \in 1..n}
           g == [i \in 1..n |-> f[i]]
<1>1. g \in Surjection(1..n, T)
  BY DEF Surjection
<1>2. IsFiniteSet(1..n) /\ Cardinality(1..n) = n
  BY FS_Interval
<1>3. IsFiniteSet(T) /\ Cardinality(T) <= n
  BY <1>1, <1>2, FS_Surjection
<1>4. QED
  BY <1>3, FS_CardinalityType

\* A pool field by field.
LEMMA PoolFields ==
    ASSUME NEW p \in PoolType
    PROVE  p = [calls |-> p.calls, active |-> p.active, queue |-> p.queue, ended |-> p.ended]
BY DEF PoolType

\* The histories have lengths.
LEMMA OldAreNumbers ==
    ASSUME TypeOK
    PROVE  Len(old) \in Nat /\ Lane = 1..Len(old) /\ \A l \in Lane : old[l] \in Nat
<1>1. old \in Seq(0..MaxOld) /\ Lane = 1..Len(old)
  BY DEF TypeOK, Lane
<1>2. Len(old) \in Nat
  BY <1>1, LenProperties
<1>3. ASSUME NEW l \in Lane PROVE old[l] \in Nat
  <2>1. old[l] \in 0..MaxOld
    BY <1>1, ElementOfSeq
  <2>2. QED
    BY <2>1, BoundsAssumption
<1>4. QED
  BY <1>1, <1>2, <1>3

\* What a sequence leaves when its first n elements are taken off.
LEMMA RestOfSequence ==
    ASSUME NEW S, NEW s, NEW n \in Nat, Len(s) \in Nat, n <= Len(s),
           \A i \in 1..Len(s) : s[i] \in S
    PROVE  /\ SubSeq(s, n + 1, Len(s)) \in Seq(S)
           /\ Len(SubSeq(s, n + 1, Len(s))) = Len(s) - n
           /\ DOMAIN SubSeq(s, n + 1, Len(s)) = 1..(Len(s) - n)
           /\ \A i \in 1..(Len(s) - n) :
                SubSeq(s, n + 1, Len(s))[i] = s[i + n] /\ i + n \in 1..Len(s) /\ s[i + n] \in S
<1> DEFINE rest == SubSeq(s, n + 1, Len(s))
<1>1. /\ rest \in Seq(S)
      /\ Len(rest) = IF n + 1 <= Len(s) THEN Len(s) - (n + 1) + 1 ELSE 0
      /\ \A i \in 1..(Len(s) - (n + 1) + 1) : rest[i] = s[(n + 1) + i - 1]
  <2>1. n + 1 \in Int /\ Len(s) \in Int /\ \A i \in (n + 1)..Len(s) : s[i] \in S
    OBVIOUS
  <2>2. QED
    BY <2>1, SubSeqProperties
<1> HIDE DEF rest
<1>2. Len(rest) = Len(s) - n
  BY <1>1
<1>3. DOMAIN rest = 1..Len(rest)
  BY <1>1
<1>4. ASSUME NEW i \in 1..(Len(s) - n)
      PROVE  rest[i] = s[i + n] /\ i + n \in 1..Len(s)
  <2>1. i + n \in 1..Len(s)
    OBVIOUS
  <2>2. i \in 1..(Len(s) - (n + 1) + 1) /\ (n + 1) + i - 1 = i + n
    OBVIOUS
  <2>3. QED
    BY <1>1, <2>1, <2>2
<1>5. QED
  BY <1>1, <1>2, <1>3, <1>4 DEF rest

\* Free slots are given within the bounds, to lanes that waited, and whoever
\* ends then ends for want of budget.
LEMMA AdmitLemma ==
    ASSUME adapter \in Adapters, NEW p \in PoolType, PoolOK(p)
    PROVE  /\ Admit(p) \in PoolType
           /\ PoolOK(Admit(p))
           /\ Waiting(Admit(p)) \subseteq Waiting(p)
           /\ \A l \in Lane :
                \/ Admit(p).ended[l] = p.ended[l]
                \/ p.ended[l] = None /\ Admit(p).ended[l] = "budget"
<1> DEFINE room == Style.conc - Cardinality(p.active)
           want == Least(room, Len(p.queue))
           n == IF Style.slot = "lane" /\ Style.budget THEN Least(want, Left(p)) ELSE want
           rest == SubSeq(p.queue, n + 1, Len(p.queue))
           spent == {rest[i] : i \in IF n < want THEN DOMAIN rest ELSE {}}
           first == {p.queue[i] : i \in 1..n}
           q == [calls |-> IF Style.slot = "lane" THEN p.calls + n ELSE p.calls,
                 active |-> p.active \cup first,
                 queue |-> IF n < want THEN <<>> ELSE rest,
                 ended |-> [l \in Lane |-> IF l \in spent THEN "budget" ELSE p.ended[l]]]
<1>1. Admit(p) = q
  BY DEF Admit
<1>2. /\ Style.conc \in Nat /\ Style.budget \in BOOLEAN
      /\ Style.slot \in {"call", "lane"} /\ MaxCalls \in Nat
  BY StyleFacts, BoundsAssumption
<1>3. /\ p.calls \in Nat /\ p.active \subseteq Lane /\ p.queue \in Seq(Lane)
      /\ p.ended \in [Lane -> Ends \cup {None}]
  BY DEF PoolType
<1>4. /\ Cardinality(p.active) \in Nat /\ room \in Nat
      /\ Len(p.queue) \in Nat /\ DOMAIN p.queue = 1..Len(p.queue)
  BY <1>2, <1>3, FS_CardinalityType DEF PoolOK
<1>5. /\ want \in Nat /\ want <= room /\ want <= Len(p.queue)
  BY <1>4 DEF Least
<1>6. Style.budget => Left(p) \in Nat
  BY <1>2, <1>3 DEF Left, PoolOK
<1>7. /\ n \in Nat /\ n <= want
      /\ Style.slot = "lane" /\ Style.budget => n <= Left(p)
  BY <1>5, <1>6 DEF Least
<1> HIDE DEF room, want, n
<1>8. /\ rest \in Seq(Lane) /\ Len(rest) = Len(p.queue) - n
      /\ \A i \in 1..Len(rest) : rest[i] = p.queue[i + n] /\ i + n \in DOMAIN p.queue
  <2>1. /\ n \in Nat /\ Len(p.queue) \in Nat /\ n <= Len(p.queue)
        /\ \A i \in 1..Len(p.queue) : p.queue[i] \in Lane
    BY <1>3, <1>4, <1>5, <1>7
  <2>2. /\ rest \in Seq(Lane) /\ Len(rest) = Len(p.queue) - n
        /\ DOMAIN rest = 1..(Len(p.queue) - n)
        /\ \A i \in 1..(Len(p.queue) - n) : rest[i] = p.queue[i + n] /\ i + n \in 1..Len(p.queue)
    BY <2>1, RestOfSequence
  <2>3. QED
    BY <1>4, <2>2
<1>9. \A i \in 1..n : i \in DOMAIN p.queue /\ p.queue[i] \in Lane
  BY <1>3, <1>4, <1>5, <1>7
<1>10. q \in PoolType
  <2>1. q.calls \in Nat
    BY <1>3, <1>7
  <2>2. q.active \subseteq Lane
    BY <1>3, <1>9
  <2>3. q.queue \in Seq(Lane)
    BY <1>8
  <2>4. q.ended \in [Lane -> Ends \cup {None}]
    BY <1>3 DEF Ends
  <2>5. QED
    BY <2>1, <2>2, <2>3, <2>4 DEF PoolType
<1>11. IsFiniteSet(q.active) /\ Cardinality(q.active) <= Style.conc
  <2>1. IsFiniteSet(first) /\ Cardinality(first) \in Nat /\ Cardinality(first) <= n
    BY <1>7, Few
  <2>2. IsFiniteSet(p.active)
    BY DEF PoolOK
  <2>3. /\ IsFiniteSet(p.active \cup first)
        /\ Cardinality(p.active \cup first) =
             Cardinality(p.active) + Cardinality(first) - Cardinality(p.active \cap first)
    BY <2>1, <2>2, FS_Union
  <2>4. Cardinality(p.active \cap first) \in Nat
    BY <2>2, FS_Subset, FS_CardinalityType
  <2>5. Cardinality(p.active) + n <= Style.conc
    BY <1>2, <1>4, <1>5, <1>7 DEF room
  <2>6. QED
    BY <1>2, <1>4, <1>7, <2>1, <2>3, <2>4, <2>5
<1>12. Style.budget => q.calls <= MaxCalls
  BY <1>2, <1>3, <1>7 DEF Left, PoolOK
<1>13. \A i \in DOMAIN q.queue : \E j \in DOMAIN p.queue :
          /\ j = i + n /\ q.queue[i] = p.queue[j]
  BY <1>8
<1>14. \A i, j \in DOMAIN q.queue : q.queue[i] = q.queue[j] => i = j
  <2> SUFFICES ASSUME NEW i \in DOMAIN q.queue, NEW j \in DOMAIN q.queue,
                      q.queue[i] = q.queue[j]
               PROVE  i = j
    OBVIOUS
  <2>1. i + n = j + n
    BY <1>13 DEF PoolOK
  <2>2. i \in Nat /\ j \in Nat
    BY <1>8
  <2>3. QED
    BY <1>7, <2>1, <2>2
<1>15. \A i \in DOMAIN q.queue : q.queue[i] \notin q.active
  <2> SUFFICES ASSUME NEW i \in DOMAIN q.queue, q.queue[i] \in first PROVE FALSE
    BY <1>13 DEF PoolOK
  <2>1. PICK k \in 1..n : q.queue[i] = p.queue[k]
    OBVIOUS
  <2>2. i + n = k
    BY <1>9, <1>13, <2>1 DEF PoolOK
  <2>3. i \in Nat /\ i >= 1
    BY <1>8
  <2>4. QED
    BY <1>7, <2>2, <2>3
<1>16. Waiting(q) \subseteq Waiting(p)
  <2> SUFFICES ASSUME NEW l \in Waiting(q) PROVE l \in Waiting(p)
    OBVIOUS
  <2>1. CASE l \in p.active
    BY <2>1 DEF Waiting
  <2>2. CASE l \in first
    BY <1>9, <2>2 DEF Waiting
  <2>3. CASE l \in {q.queue[i] : i \in DOMAIN q.queue}
    <3>1. PICK i \in DOMAIN q.queue : l = q.queue[i]
      BY <2>3
    <3>2. PICK j \in DOMAIN p.queue : j = i + n /\ q.queue[i] = p.queue[j]
      BY <1>13
    <3> HIDE DEF q
    <3>3. QED
      BY <3>1, <3>2 DEF Waiting
  <2>4. l \in p.active \cup first \cup {q.queue[i] : i \in DOMAIN q.queue}
    <3>1. q.active = p.active \cup first
      OBVIOUS
    <3> HIDE DEF q, first
    <3>2. QED
      BY <3>1 DEF Waiting
  <2> HIDE DEF q, first
  <2>5. QED
    BY <2>1, <2>2, <2>3, <2>4
<1>17. \A l \in Waiting(q) : q.ended[l] = None
  <2> SUFFICES ASSUME NEW l \in Waiting(q) PROVE q.ended[l] = None
    OBVIOUS
  <2>1. l \in Lane
    BY <1>10 DEF Waiting, PoolType
  <2>2. p.ended[l] = None
    BY <1>16 DEF PoolOK
  <2>3. l \notin spent
    <3> SUFFICES ASSUME n < want, NEW k \in 1..Len(rest), l = rest[k] PROVE FALSE
      BY <1>8
    <3>0. q.queue = <<>> /\ DOMAIN q.queue = {}
      OBVIOUS
    <3>1. l \in q.active
      BY <3>0 DEF Waiting
    <3>2. k + n \in DOMAIN p.queue /\ l = p.queue[k + n]
      BY <1>8
    <3>3. l \in first
      BY <3>1, <3>2 DEF PoolOK
    <3>4. PICK j \in 1..n : l = p.queue[j]
      BY <3>3
    <3>5. k + n = j
      BY <1>9, <3>2, <3>4 DEF PoolOK
    <3>6. k \in Nat /\ k >= 1
      BY <1>8
    <3>7. QED
      BY <1>7, <3>5, <3>6
  <2>4. QED
    BY <2>1, <2>2, <2>3
<1>18. PoolOK(q)
  BY <1>11, <1>12, <1>14, <1>15, <1>17 DEF PoolOK
<1>19. \A l \in Lane : \/ q.ended[l] = p.ended[l]
                       \/ p.ended[l] = None /\ q.ended[l] = "budget"
  <2> SUFFICES ASSUME NEW l \in Lane, l \in spent PROVE p.ended[l] = None
    OBVIOUS
  <2>1. PICK k \in 1..Len(rest) : l = rest[k]
    BY <1>8
  <2>2. k + n \in DOMAIN p.queue /\ l = p.queue[k + n]
    BY <1>8, <2>1
  <2>3. QED
    BY <2>2 DEF PoolOK, Waiting
<1> HIDE DEF q
<1>20. QED
  BY <1>1, <1>10, <1>16, <1>18, <1>19

\* A lane that leaves has ended, for the reason given, and is called no more.
LEMMA LeaveLemma ==
    ASSUME adapter \in Adapters, NEW p \in PoolType, PoolOK(p),
           NEW l \in p.active, NEW why \in Ends
    PROVE  /\ Leave(p, l, why) \in PoolType
           /\ PoolOK(Leave(p, l, why))
           /\ Waiting(Leave(p, l, why)) \subseteq Waiting(p) \ {l}
           /\ Leave(p, l, why).ended[l] = why
           /\ \A m \in Lane \ {l} :
                \/ Leave(p, l, why).ended[m] = p.ended[m]
                \/ p.ended[m] = None /\ Leave(p, l, why).ended[m] = "budget"
<1> DEFINE p1 == [p EXCEPT !.active = @ \ {l}]
           q == [p1 EXCEPT !.ended[l] = why]
<1>1. /\ p.calls \in Nat /\ p.active \subseteq Lane /\ p.queue \in Seq(Lane)
      /\ p.ended \in [Lane -> Ends \cup {None}] /\ l \in Lane /\ why # None
      /\ why \in Ends
  BY BoundsAssumption DEF PoolType, Ends
<1>2. q = [calls |-> p.calls, active |-> p.active \ {l}, queue |-> p.queue,
           ended |-> [p.ended EXCEPT ![l] = why]]
  <2>1. p1 = [calls |-> p.calls, active |-> p.active \ {l}, queue |-> p.queue, ended |-> p.ended]
    <3>1. p = [calls |-> p.calls, active |-> p.active, queue |-> p.queue, ended |-> p.ended]
      BY PoolFields
    <3>2. ASSUME NEW c, NEW a, NEW r, NEW e, NEW b,
                 p = [calls |-> c, active |-> a, queue |-> r, ended |-> e]
          PROVE  [p EXCEPT !.active = b] = [calls |-> c, active |-> b, queue |-> r, ended |-> e]
      BY <3>2
    <3>3. QED
      BY <3>1, <3>2
  <2> HIDE DEF p1
  <2>2. QED
    BY <2>1
<1>3. q \in PoolType
  BY <1>1, <1>2 DEF PoolType
<1>4. Waiting(q) \subseteq Waiting(p) \ {l}
  BY <1>2 DEF Waiting, PoolOK
<1>5. IsFiniteSet(q.active) /\ Cardinality(q.active) <= Style.conc
  <2>1. /\ IsFiniteSet(p.active \ {l})
        /\ Cardinality(p.active \ {l}) = Cardinality(p.active) - 1
    BY FS_RemoveElement DEF PoolOK
  <2>2. Cardinality(p.active) \in Nat /\ Style.conc \in Nat
    BY StyleFacts, FS_CardinalityType DEF PoolOK
  <2>3. QED
    BY <1>2, <2>1, <2>2 DEF PoolOK
<1>6. PoolOK(q)
  <2>1. \A m \in Waiting(q) : q.ended[m] = None
    BY <1>1, <1>2, <1>4 DEF PoolOK, Waiting
  <2>2. QED
    BY <1>2, <1>5, <2>1 DEF PoolOK
<1>7. Leave(p, l, why) = Admit(q)
  BY DEF Leave
<1>8. q.ended[l] = why /\ \A m \in Lane \ {l} : q.ended[m] = p.ended[m]
  BY <1>1, <1>2
<1> HIDE DEF q
<1>9. QED
  BY <1>1, <1>3, <1>4, <1>6, <1>7, <1>8, AdmitLemma

\* A lane that claims its next call and queues behind the others.
LEMMA RequeuedOK ==
    ASSUME adapter \in Adapters, NEW p \in PoolType, PoolOK(p), NEW l \in p.active,
           MayCall(p), NEW q,
           q = [calls |-> p.calls + 1, active |-> p.active \ {l},
                queue |-> Append(p.queue, l), ended |-> p.ended]
    PROVE  q \in PoolType /\ PoolOK(q) /\ Waiting(q) \subseteq Waiting(p)
<1>1. /\ p.calls \in Nat /\ p.active \subseteq Lane /\ p.queue \in Seq(Lane)
      /\ p.ended \in [Lane -> Ends \cup {None}] /\ l \in Lane /\ MaxCalls \in Nat
  BY BoundsAssumption DEF PoolType
<1>2. /\ Append(p.queue, l) \in Seq(Lane)
      /\ Len(p.queue) \in Nat /\ DOMAIN p.queue = 1..Len(p.queue)
      /\ DOMAIN Append(p.queue, l) = 1..(Len(p.queue) + 1)
      /\ Append(p.queue, l)[Len(p.queue) + 1] = l
      /\ \A i \in 1..Len(p.queue) : Append(p.queue, l)[i] = p.queue[i]
  BY <1>1
<1>3. q \in PoolType
  <2>1. p.calls + 1 \in Nat /\ p.active \ {l} \subseteq Lane
    BY <1>1
  <2>2. QED
    BY <1>1, <1>2, <2>1 DEF PoolType
<1>4. Style.budget => q.calls <= MaxCalls
  BY <1>1 DEF MayCall, Left
<1>5. \A i \in DOMAIN q.queue :
          \/ i \in DOMAIN p.queue /\ q.queue[i] = p.queue[i]
          \/ i = Len(p.queue) + 1 /\ q.queue[i] = l
  BY <1>2
<1>6. Waiting(q) \subseteq Waiting(p)
  BY <1>5 DEF Waiting
<1>7. IsFiniteSet(q.active) /\ Cardinality(q.active) <= Style.conc
  <2>1. /\ IsFiniteSet(p.active \ {l})
        /\ Cardinality(p.active \ {l}) = Cardinality(p.active) - 1
    BY FS_RemoveElement DEF PoolOK
  <2>2. Cardinality(p.active) \in Nat /\ Style.conc \in Nat
    BY StyleFacts, FS_CardinalityType DEF PoolOK
  <2>3. QED
    BY <2>1, <2>2 DEF PoolOK
<1>8. \A i, j \in DOMAIN q.queue : q.queue[i] = q.queue[j] => i = j
  BY <1>5 DEF PoolOK
<1>9. \A i \in DOMAIN q.queue : q.queue[i] \notin q.active
  BY <1>5 DEF PoolOK
<1>10. \A m \in Waiting(q) : q.ended[m] = None
  BY <1>6 DEF PoolOK
<1>11. QED
  BY <1>3, <1>4, <1>6, <1>7, <1>8, <1>9, <1>10 DEF PoolOK

LEMMA Requeues ==
    ASSUME adapter \in Adapters, NEW p \in PoolType, PoolOK(p), NEW l \in p.active,
           MayCall(p), Style.slot # "lane"
    PROVE  \E q \in PoolType :
             /\ Continue(p, l) = Admit(q) /\ PoolOK(q) /\ Waiting(q) \subseteq Waiting(p)
             /\ q.calls = p.calls + 1 /\ q.active = p.active \ {l}
             /\ q.queue = Append(p.queue, l) /\ q.ended = p.ended
<1> DEFINE p1 == [p EXCEPT !.calls = @ + 1]
           p2 == [p1 EXCEPT !.active = @ \ {l}]
           q == [p2 EXCEPT !.queue = Append(@, l)]
<1>1. Continue(p, l) = Admit(q)
  BY DEF Continue
<1>2. p1 = [calls |-> p.calls + 1, active |-> p.active, queue |-> p.queue, ended |-> p.ended]
  BY PoolFields
<1> HIDE DEF p1
<1>3. p2 = [calls |-> p.calls + 1, active |-> p.active \ {l}, queue |-> p.queue,
            ended |-> p.ended]
  BY <1>2
<1> HIDE DEF p2
<1>4. q = [calls |-> p.calls + 1, active |-> p.active \ {l},
           queue |-> Append(p.queue, l), ended |-> p.ended]
  <2>1. p2.queue = p.queue
    BY <1>3
  <2>2. ASSUME NEW s
        PROVE  [p2 EXCEPT !.queue = s] =
                 [calls |-> p.calls + 1, active |-> p.active \ {l}, queue |-> s,
                  ended |-> p.ended]
    BY <1>3
  <2>3. QED
    BY <2>1, <2>2
<1> HIDE DEF q
<1>5. q \in PoolType /\ PoolOK(q) /\ Waiting(q) \subseteq Waiting(p)
  BY <1>4, RequeuedOK
<1>6. QED
  BY <1>1, <1>4, <1>5

\* A lane that goes on claims a call of the budget, if there is one.
LEMMA ContinueLemma ==
    ASSUME adapter \in Adapters, NEW p \in PoolType, PoolOK(p), NEW l \in p.active
    PROVE  /\ Continue(p, l) \in PoolType
           /\ PoolOK(Continue(p, l))
           /\ Waiting(Continue(p, l)) \subseteq Waiting(p)
           /\ \A m \in Lane :
                \/ Continue(p, l).ended[m] = p.ended[m]
                \/ p.ended[m] = None /\ Continue(p, l).ended[m] = "budget"
<1>1. /\ p.calls \in Nat /\ p.active \subseteq Lane /\ p.queue \in Seq(Lane)
      /\ p.ended \in [Lane -> Ends \cup {None}] /\ l \in Lane /\ MaxCalls \in Nat
      /\ p.ended[l] = None
  BY BoundsAssumption DEF PoolType, PoolOK, Waiting
<1>2. CASE ~MayCall(p)
  BY <1>1, <1>2, LeaveLemma DEF Continue, Ends
<1>3. CASE MayCall(p) /\ Style.slot = "lane"
  <2> DEFINE q == [p EXCEPT !.calls = @ + 1]
  <2>1. q = [calls |-> p.calls + 1, active |-> p.active, queue |-> p.queue, ended |-> p.ended]
    BY PoolFields
  <2>2. q \in PoolType
    BY <1>1, <2>1 DEF PoolType
  <2>3. Style.budget => q.calls <= MaxCalls
    BY <1>1, <1>3, <2>1 DEF MayCall, Left
  <2>4. Waiting(q) = Waiting(p)
    BY <2>1 DEF Waiting
  <2>5. PoolOK(q)
    BY <2>1, <2>3, <2>4 DEF PoolOK
  <2>6. Continue(p, l) = q
    BY <1>3 DEF Continue
  <2>7. q.ended = p.ended
    BY <2>1
  <2> HIDE DEF q
  <2>8. QED
    BY <2>2, <2>4, <2>5, <2>6, <2>7
<1>4. CASE MayCall(p) /\ Style.slot # "lane"
  <2>1. PICK q \in PoolType :
          /\ Continue(p, l) = Admit(q) /\ PoolOK(q) /\ Waiting(q) \subseteq Waiting(p)
          /\ q.ended = p.ended
    BY <1>4, Requeues
  <2>2. QED
    BY <2>1, AdmitLemma
<1>5. QED
  BY <1>2, <1>3, <1>4

-----------------------------------------------------------------------------
(* What a page adds.                                                       *)

\* After a page the lane has covered that page besides what it had, and all of
\* its history if the adapter takes the page for the last.
LEMMA PageLemma ==
    ASSUME Walked, NEW l \in Lane
    PROVE  /\ Page(l) \subseteq Trade
           /\ Read(l) \in Nat
           /\ Newest(l) \in Nat /\ old[l] <= Newest(l) /\ Newest(l) <= trades[l]
           /\ \A i \in 1..old[l] :
                \/ Covered(l, i)
                \/ i \in Page(l)
                \/ IF Style.paging = "forward" THEN Read(l) < i
                   ELSE i <= Newest(l) - Read(l)
           /\ \A cursor \in {TRUE} \cup (IF MayLackCursor(l) THEN {FALSE} ELSE {}) :
                Last(l, cursor) => \A i \in 1..old[l] : Covered(l, i) \/ i \in Page(l)
<1>1. /\ adapter \in Adapters /\ served \in Nat /\ PageLimit \in Nat \ {0}
      /\ PageLimit <= served /\ MaxTrades \in Nat
      /\ old[l] \in Nat /\ trades[l] \in 0..MaxTrades /\ top[l] \in 0..MaxTrades
      /\ pos[l] \in Nat /\ pages[l] \in Nat
      /\ old[l] <= trades[l]
      /\ pages[l] > 0 => old[l] <= top[l] /\ top[l] <= trades[l]
  <2>1. /\ adapter \in Adapters /\ served \in Nat /\ PageLimit \in Nat \ {0}
        /\ PageLimit <= served /\ MaxTrades \in Nat
        /\ trades[l] \in 0..MaxTrades /\ top[l] \in 0..MaxTrades
        /\ pos[l] \in Nat /\ pages[l] \in Nat
    BY BoundsAssumption DEF Walked, TypeOK
  <2>2. old[l] \in Nat
    BY OldAreNumbers DEF Walked
  <2>3. LaneOK(l)
    BY DEF Walked
  <2>4. QED
    BY <2>1, <2>2, <2>3 DEF LaneOK
<1>2. Newest(l) \in Nat /\ old[l] <= Newest(l) /\ Newest(l) <= trades[l]
  BY <1>1 DEF Newest, Counted
<1> DEFINE k == IF Style.paging = "forward" THEN pos[l]
                ELSE Newest(l) - pos[l] - served
<1>3. Page(l) = {i \in 1..trades[l] : k < i /\ i <= k + served}
  BY DEF Page
<1>4. k \in Int
  BY <1>1, <1>2
<1>5. /\ Cardinality(Page(l)) \in Nat
      /\ 0 <= k /\ k + served <= trades[l] => Cardinality(Page(l)) = served
      /\ 0 <= k /\ k <= trades[l] /\ trades[l] < k + served =>
           Cardinality(Page(l)) = trades[l] - k
      /\ trades[l] < k => Cardinality(Page(l)) = 0
      /\ k < 0 /\ 0 <= k + served /\ k + served <= trades[l] =>
           Cardinality(Page(l)) = k + served
      /\ k + served < 0 => Cardinality(Page(l)) = 0
  <2>1. trades[l] \in Nat /\ served \in Nat
    BY <1>1
  <2> DEFINE a == IF 0 <= k THEN k + 1 ELSE 1
             b == IF k + served <= trades[l] THEN k + served ELSE trades[l]
  <2> HIDE DEF k
  <2>2. a \in Int /\ b \in Int
    BY <1>4, <2>1
  <2>3. {i \in 1..trades[l] : k < i /\ i <= k + served} = a..b
    BY <1>4, <2>1
  <2>4. Cardinality(a..b) = IF a > b THEN 0 ELSE b - a + 1
    BY <2>2, FS_Interval
  <2>5. Cardinality(Page(l)) = IF a > b THEN 0 ELSE b - a + 1
    BY <1>3, <2>3, <2>4
  <2>6. QED
    BY <1>4, <2>1, <2>5
<1>6. /\ Read(l) = pos[l] + (IF Style.paging = "numbered" THEN served
                             ELSE Cardinality(Page(l)))
      /\ Read(l) \in Nat
  BY <1>1, <1>5 DEF Read
<1>7. Page(l) \subseteq Trade
  BY <1>1, <1>3 DEF Trade
<1>8. CASE Style.paging = "forward"
  <2>1. k = pos[l]
    BY <1>8
  <2>2. \A i \in 1..old[l] : i \in Page(l) <=> pos[l] < i /\ i <= pos[l] + served
    BY <1>1, <1>3, <2>1
  <2>3. /\ \A i \in 1..old[l] : Covered(l, i) <=> i <= pos[l]
        /\ adapter \notin {"kraken", "coinbase", "bybit"}
    BY <1>1, <1>8, StyleFacts DEF Covered
  <2>4. \A i \in 1..old[l] : Covered(l, i) \/ i \in Page(l) \/ Read(l) < i
    BY <1>1, <1>5, <1>6, <1>8, <2>1, <2>2, <2>3
  <2>5. Cardinality(Page(l)) < PageLimit =>
          \A i \in 1..old[l] : Covered(l, i) \/ i \in Page(l)
    BY <1>1, <1>5, <2>1, <2>2, <2>3
  <2>6. Newest(l) <= Read(l) => \A i \in 1..old[l] : Covered(l, i) \/ i \in Page(l)
    BY <1>1, <1>2, <1>6, <2>4
  <2>7. ASSUME NEW cursor \in {TRUE} \cup (IF MayLackCursor(l) THEN {FALSE} ELSE {}),
               Last(l, cursor)
        PROVE  \A i \in 1..old[l] : Covered(l, i) \/ i \in Page(l)
    BY <2>3, <2>5, <2>7 DEF Last
  <2>8. QED
    BY <1>2, <1>6, <1>7, <1>8, <2>4, <2>7
<1>9. CASE Style.paging # "forward"
  <2>1. k = Newest(l) - pos[l] - served
    BY <1>9
  <2>2. \A i \in 1..old[l] :
            i \in Page(l) <=> Newest(l) - pos[l] - served < i /\ i <= Newest(l) - pos[l]
    BY <1>1, <1>2, <1>3, <2>1
  <2>3. \A i \in 1..old[l] : Covered(l, i) <=> Newest(l) - pos[l] < i
    BY <1>9 DEF Covered
  <2>4. \A i \in 1..old[l] : Covered(l, i) \/ i \in Page(l) \/ i <= Newest(l) - Read(l)
    <3> SUFFICES ASSUME NEW i \in 1..old[l], ~Covered(l, i), i \notin Page(l)
                 PROVE  i <= Newest(l) - Read(l)
      OBVIOUS
    <3>1. i \in Nat /\ i >= 1 /\ i <= k
      BY <1>1, <1>2, <2>1, <2>2, <2>3
    <3>2. 0 <= k /\ k + served <= trades[l]
      BY <1>1, <1>2, <1>4, <2>1, <3>1
    <3>3. Read(l) = pos[l] + served
      BY <1>5, <1>6, <3>2
    <3>4. QED
      BY <1>1, <1>2, <2>1, <3>1, <3>3
  <2>5. Cardinality(Page(l)) < PageLimit =>
          \A i \in 1..old[l] : Covered(l, i) \/ i \in Page(l)
    BY <1>1, <1>2, <1>5, <2>1, <2>2, <2>3
  <2>6. Newest(l) <= Read(l) => \A i \in 1..old[l] : Covered(l, i) \/ i \in Page(l)
    BY <1>1, <1>2, <1>6, <2>4
  <2>7. Page(l) = {} => \A i \in 1..old[l] : Covered(l, i) \/ i \in Page(l)
    BY <1>1, <2>5, FS_EmptySet
  <2>8. ASSUME NEW cursor \in {TRUE} \cup (IF MayLackCursor(l) THEN {FALSE} ELSE {}),
               Last(l, cursor)
        PROVE  \A i \in 1..old[l] : Covered(l, i) \/ i \in Page(l)
    <3>1. CASE adapter = "coinbase"
      <4>1. Page(l) = {} \/ ~cursor
        BY <2>8, <3>1 DEF Last
      <4>2. ~cursor => Read(l) >= Newest(l)
        BY <3>1 DEF MayLackCursor
      <4>3. QED
        BY <1>2, <1>6, <2>6, <2>7, <4>1, <4>2
    <3>2. CASE adapter = "kraken"
      <4>1. Page(l) = {} \/ Read(l) >= trades[l]
        BY <2>8, <3>2 DEF Last
      <4>2. Newest(l) = trades[l]
        BY <1>1, <3>2, StyleFacts DEF Newest, Counted
      <4>3. QED
        BY <1>2, <1>6, <2>6, <2>7, <4>1, <4>2
    <3>3. CASE adapter = "bybit"
      <4>1. Cardinality(Page(l)) < PageLimit \/ ~cursor
        BY <2>8, <3>3 DEF Last
      <4>2. ~cursor => Read(l) >= Newest(l)
        BY <3>3 DEF MayLackCursor
      <4>3. QED
        BY <1>2, <1>6, <2>5, <2>6, <4>1, <4>2
    <3>4. CASE adapter \notin {"coinbase", "kraken", "bybit"}
      BY <2>5, <2>8, <3>4 DEF Last
    <3>5. QED
      BY <3>1, <3>2, <3>3, <3>4
  <2>9. QED
    BY <1>2, <1>6, <1>7, <1>9, <2>4, <2>8
<1>10. QED
  BY <1>8, <1>9

-----------------------------------------------------------------------------
(* The invariant holds at the start.                                       *)
LEMMA InitWalked == Init => Walked
<1> SUFFICES ASSUME Init PROVE Walked
  OBVIOUS
<1>1. /\ adapter \in Adapters /\ PageLimit \in Nat \ {0} /\ MaxTrades \in Nat
      /\ MaxOld \in Nat /\ MaxOld <= MaxTrades /\ MaxCalls \in Nat \ {0}
      /\ MaxPages \in Nat \ {0}
  BY BoundsAssumption DEF Init
<1>2. PICK n \in Style.lanes : old \in [1..n -> 0..MaxOld] /\ edge \in [1..n -> 0..MaxEdge]
  BY DEF Init
<1>3. /\ n \in Nat /\ old \in Seq(0..MaxOld) /\ Len(old) = n /\ Lane = 1..n
  BY <1>1, <1>2, StyleFacts DEF Lane
<1>4. TypeOK /\ pool \in PoolType /\ PoolOK(pool)
  <2> DEFINE first == IF Style.slot = "call" THEN Least(MaxCalls, Len(old)) ELSE Len(old)
             q == [calls |-> IF Style.slot = "call" THEN first ELSE 0,
                   active |-> {},
                   queue |-> [i \in 1..first |-> i],
                   ended |-> [l \in Lane |-> IF l <= first THEN None ELSE "budget"]]
  <2>1. pool = Admit(q)
    BY DEF Init, Started
  <2>2. /\ first \in Nat /\ first <= n
        /\ Style.slot = "call" => first <= MaxCalls
    BY <1>1, <1>3 DEF Least
  <2>3. /\ [i \in 1..first |-> i] \in Seq(Lane)
        /\ DOMAIN [i \in 1..first |-> i] = 1..first
    BY <1>3, <2>2
  <2> HIDE DEF first
  <2>4. q \in PoolType
    BY <1>3, <2>2, <2>3 DEF PoolType, Ends
  <2>5. PoolOK(q)
    <3>1. IsFiniteSet(q.active) /\ Cardinality(q.active) <= Style.conc
      BY <1>1, StyleFacts, FS_EmptySet
    <3>2. Style.budget => q.calls <= MaxCalls
      BY <1>1, <2>2
    <3>3. Waiting(q) \subseteq 1..first
      BY DEF Waiting
    <3>4. \A l \in Waiting(q) : q.ended[l] = None
      BY <1>3, <2>2, <3>3
    <3>5. QED
      BY <3>1, <3>2, <3>4 DEF PoolOK
  <2> HIDE DEF q
  <2>6. pool \in PoolType /\ PoolOK(pool)
    BY <1>1, <2>1, <2>4, <2>5, AdmitLemma
  <2>7. /\ trades \in [Lane -> 0..MaxTrades] /\ top \in [Lane -> 0..MaxTrades]
        /\ pos \in [Lane -> Nat] /\ pages \in [Lane -> Nat]
        /\ got \in [Lane -> [Trade -> Nat]]
    BY <1>1, <1>2, <1>3 DEF Init
  <2>8. /\ served \in Nat /\ answer \in {None, "fills", "none"}
        /\ edge \in [Lane -> 0..MaxEdge]
    BY <1>1, <1>2, <1>3 DEF Init
  <2>9. QED
    BY <1>1, <1>3, <2>6, <2>7, <2>8 DEF TypeOK, PoolType
<1>5. PageLimit <= served
  BY <1>1 DEF Init
<1>6. ASSUME NEW l \in Lane PROVE LaneOK(l) /\ Kept(l)
  <2>1. /\ old[l] \in Nat /\ trades[l] = old[l] /\ pos[l] = 0 /\ pages[l] = 0
    <3>1. old[l] \in 0..MaxOld
      BY <1>2, <1>3
    <3>2. trades = old /\ pos = [m \in Lane |-> 0] /\ pages = [m \in Lane |-> 0]
      BY DEF Init
    <3>3. QED
      BY <1>1, <3>1, <3>2
  <2>2. LaneOK(l)
    BY <1>1, <2>1 DEF LaneOK
  <2>3. \A i \in 1..old[l] : ~Covered(l, i)
    BY <2>1 DEF Covered, Newest, Counted
  <2>4. pool.ended[l] # "done"
    <3> DEFINE first == IF Style.slot = "call" THEN Least(MaxCalls, Len(old)) ELSE Len(old)
               q == [calls |-> IF Style.slot = "call" THEN first ELSE 0,
                     active |-> {},
                     queue |-> [i \in 1..first |-> i],
                     ended |-> [m \in Lane |-> IF m <= first THEN None ELSE "budget"]]
    <3>1. pool = Admit(q) /\ q.ended[l] \in {None, "budget"}
      BY DEF Init, Started
    <3>2. pool.ended[l] \in {q.ended[l], "budget"}
      BY <3>1 DEF Admit
    <3>3. QED
      BY <3>1, <3>2, BoundsAssumption
  <2>5. QED
    BY <2>2, <2>3, <2>4 DEF Kept
<1>7. QED
  BY <1>4, <1>5, <1>6 DEF Walked

-----------------------------------------------------------------------------
(* Every step keeps it.                                                    *)

\* What follows a page: only this lane and those in want of budget end, and
\* this one as done only if the page was taken for the last.
LEMMA AfterPageLemma ==
    ASSUME Walked, NEW l \in pool.active, NEW cursor \in BOOLEAN,
           NEW q, q = AfterPage(l, cursor)
    PROVE  /\ q \in PoolType /\ PoolOK(q)
           /\ Waiting(q) \subseteq Waiting(pool)
           /\ q.ended[l] # "failed"
           /\ q.ended[l] = "done" => Last(l, cursor)
           /\ Style.cap /\ l \in Waiting(q) => pages[l] + 1 # MaxPages
           /\ \A m \in Lane \ {l} :
                \/ q.ended[m] = pool.ended[m]
                \/ pool.ended[m] = None /\ q.ended[m] = "budget"
<1>1. /\ adapter \in Adapters /\ pool \in PoolType /\ PoolOK(pool) /\ l \in Lane
      /\ pool.ended[l] = None
  BY DEF Walked, TypeOK, PoolType, PoolOK, Waiting
<1>2. None \notin Ends
  BY BoundsAssumption DEF Ends
<1>3. ASSUME NEW why \in {"done", "cut", "cap"}, q = Leave(pool, l, why),
             why = "done" => Last(l, cursor)
      PROVE  /\ q \in PoolType /\ PoolOK(q)
             /\ Waiting(q) \subseteq Waiting(pool)
             /\ q.ended[l] # "failed"
             /\ q.ended[l] = "done" => Last(l, cursor)
             /\ Style.cap /\ l \in Waiting(q) => pages[l] + 1 # MaxPages
             /\ \A m \in Lane \ {l} :
                  \/ q.ended[m] = pool.ended[m]
                  \/ pool.ended[m] = None /\ q.ended[m] = "budget"
  <2>1. why \in Ends
    BY DEF Ends
  <2>2. q.ended[l] = why /\ Waiting(q) \subseteq Waiting(pool) \ {l}
    BY <1>1, <1>3, <2>1, LeaveLemma
  <2>3. /\ q \in PoolType /\ PoolOK(q)
        /\ \A m \in Lane \ {l} :
             \/ q.ended[m] = pool.ended[m]
             \/ pool.ended[m] = None /\ q.ended[m] = "budget"
    BY <1>1, <1>3, <2>1, LeaveLemma
  <2>4. QED
    BY <1>3, <2>2, <2>3
<1>4. CASE Last(l, cursor)
  BY <1>3, <1>4 DEF AfterPage
<1>5. CASE ~Last(l, cursor) /\ ~cursor
  BY <1>3, <1>5 DEF AfterPage
<1>6. CASE ~Last(l, cursor) /\ cursor /\ Style.cap /\ pages[l] + 1 = MaxPages
  BY <1>3, <1>6 DEF AfterPage
<1>7. CASE ~Last(l, cursor) /\ cursor /\ ~(Style.cap /\ pages[l] + 1 = MaxPages)
  <2>1. q = Continue(pool, l)
    BY <1>7 DEF AfterPage
  <2>2. /\ q \in PoolType /\ PoolOK(q) /\ Waiting(q) \subseteq Waiting(pool)
        /\ \A m \in Lane :
             \/ q.ended[m] = pool.ended[m]
             \/ pool.ended[m] = None /\ q.ended[m] = "budget"
    BY <1>1, <2>1, ContinueLemma
  <2>3. q.ended[l] \notin {"done", "failed"}
    BY <1>1, <1>2, <2>2 DEF Ends
  <2>4. QED
    BY <1>7, <2>2, <2>3
<1>8. QED
  BY <1>4, <1>5, <1>6, <1>7

\* A pool within its bounds remains so when only the pool is another.
LEMMA NextPool ==
    ASSUME adapter' = adapter, old' = old, pool' \in PoolType, PoolOK(pool')
    PROVE  Style' = Style /\ Lane' = Lane /\ PoolOK(pool)' /\ Waiting(pool)' = Waiting(pool')
<1>1. Style' = Style /\ Lane' = Lane
  BY DEF Style, Lane
<1>2. QED
  BY <1>1 DEF PoolOK, Waiting

LEMMA PageStep ==
    ASSUME Walked, NEW l \in Lane, PageArrives(l)
    PROVE  Walked'
<1>1. PICK cursor \in {TRUE} \cup (IF MayLackCursor(l) THEN {FALSE} ELSE {}) :
        pool' = AfterPage(l, cursor)
  BY DEF PageArrives
<1>2. /\ l \in pool.active /\ adapter' = adapter /\ old' = old /\ served' = served
      /\ edge' = edge /\ trades' = trades /\ answer' = answer
      /\ got' = [got EXCEPT ![l] = [i \in Trade |-> IF i \in Page(l) THEN @[i] + 1 ELSE @[i]]]
      /\ pos' = [pos EXCEPT ![l] = Read(l)]
      /\ top' = [top EXCEPT ![l] = Newest(l)]
      /\ pages' = [pages EXCEPT ![l] = @ + 1]
  BY DEF PageArrives
<1>3. /\ cursor \in BOOLEAN /\ l \in Waiting(pool)
      /\ pool.ended[l] = None /\ TypeOK
  BY <1>2 DEF Walked, PoolOK, Waiting
<1>4. /\ pool' \in PoolType /\ PoolOK(pool')
      /\ Waiting(pool') \subseteq Waiting(pool)
      /\ pool'.ended[l] # "failed"
      /\ pool'.ended[l] = "done" => Last(l, cursor)
      /\ Style.cap /\ l \in Waiting(pool') => pages[l] + 1 # MaxPages
      /\ \A m \in Lane \ {l} :
           \/ pool'.ended[m] = pool.ended[m]
           \/ pool.ended[m] = None /\ pool'.ended[m] = "budget"
  BY <1>1, <1>2, <1>3, AfterPageLemma
<1>5. Style' = Style /\ Lane' = Lane /\ PoolOK(pool)' /\ Waiting(pool)' = Waiting(pool')
  BY <1>2, <1>4, NextPool
<1>6. /\ Page(l) \subseteq Trade /\ Read(l) \in Nat
      /\ Newest(l) \in Nat /\ old[l] <= Newest(l) /\ Newest(l) <= trades[l]
      /\ \A i \in 1..old[l] :
           \/ Covered(l, i)
           \/ i \in Page(l)
           \/ IF Style.paging = "forward" THEN Read(l) < i
              ELSE i <= Newest(l) - Read(l)
      /\ Last(l, cursor) => \A i \in 1..old[l] : Covered(l, i) \/ i \in Page(l)
  BY PageLemma
<1>7. /\ MaxTrades \in Nat /\ MaxPages \in Nat
      /\ trades \in [Lane -> 0..MaxTrades] /\ top \in [Lane -> 0..MaxTrades]
      /\ pos \in [Lane -> Nat] /\ pages \in [Lane -> Nat] /\ got \in [Lane -> [Trade -> Nat]]
      /\ old \in Seq(0..MaxOld) /\ MaxOld \in Nat /\ MaxOld <= MaxTrades
  BY <1>3, BoundsAssumption DEF TypeOK
<1>8. TypeOK'
  <2>1. top' \in [Lane -> 0..MaxTrades] /\ pos' \in [Lane -> Nat] /\ pages' \in [Lane -> Nat]
    <3>1. /\ trades[l] \in 0..MaxTrades /\ top \in [Lane -> 0..MaxTrades]
          /\ pos \in [Lane -> Nat] /\ pages \in [Lane -> Nat] /\ MaxTrades \in Nat
      BY <1>7
    <3>2. Newest(l) \in 0..MaxTrades
      BY <1>6, <3>1
    <3>3. pages[l] + 1 \in Nat
      BY <3>1
    <3>4. QED
      BY <1>2, <1>6, <3>1, <3>2, <3>3
  <2>2. [i \in Trade |-> IF i \in Page(l) THEN got[l][i] + 1 ELSE got[l][i]] \in [Trade -> Nat]
    BY <1>7
  <2>3. got' \in [Lane -> [Trade -> Nat]]
    BY <1>2, <1>7, <2>2
  <2>4. QED
    BY <1>2, <1>3, <1>4, <1>5, <2>1, <2>3 DEF TypeOK, PoolType
<1>9. Newest(l)' = Newest(l)
  <2>1. pages'[l] # 0 /\ top'[l] = Newest(l)
    BY <1>2, <1>7
  <2>2. QED
    BY <1>2, <1>5, <2>1 DEF Newest, Counted
<1>10. \A i \in Trade : got'[l][i] = IF i \in Page(l) THEN got[l][i] + 1 ELSE got[l][i]
  BY <1>2, <1>7
<1>11. \A i \in 1..old[l] : i \in Trade
  <2>1. old[l] \in 0..MaxOld
    BY <1>7 DEF Lane
  <2>2. QED
    BY <1>7, <2>1 DEF Trade
<1>12. \A i \in 1..old[l] : Covered(l, i) \/ i \in Page(l) => got'[l][i] > 0
  <2>1. \A i \in 1..old[l] : Covered(l, i) => got[l][i] > 0
    <3>1. None # "failed"
      BY BoundsAssumption
    <3>2. QED
      BY <1>3, <3>1 DEF Walked, Kept
  <2>2. \A i \in 1..old[l] : got[l][i] \in Nat
    BY <1>7, <1>11
  <2>3. QED
    BY <1>10, <1>11, <2>1, <2>2
<1>13. LaneOK(l)' /\ Kept(l)'
  <2>1. LaneOK(l)'
    <3>1. LaneOK(l) /\ pages[l] \in Nat
      BY <1>7 DEF Walked
    <3>2. pages'[l] = pages[l] + 1 /\ top'[l] = Newest(l)
      BY <1>2, <1>7
    <3>3. QED
      BY <1>2, <1>3, <1>4, <1>5, <1>6, <1>7, <3>1, <3>2 DEF LaneOK
  <2>2. \A i \in 1..old[l] : Covered(l, i)' => Covered(l, i) \/ i \in Page(l)
    <3>1. pos'[l] = Read(l)
      BY <1>2, <1>7
    <3> SUFFICES ASSUME NEW i \in 1..old[l], Covered(l, i)'
                 PROVE  Covered(l, i) \/ i \in Page(l)
      OBVIOUS
    <3>2. IF Style.paging = "forward" THEN i <= Read(l)
          ELSE Newest(l) - Read(l) < i
      BY <1>5, <1>9, <3>1 DEF Covered
    <3>3. i \in Nat
      BY <1>11 DEF Trade
    <3>4. QED
      BY <1>6, <3>2, <3>3
  <2>3. Kept(l)'
    BY <1>2, <1>4, <1>6, <1>12, <2>2 DEF Kept
  <2>4. QED
    BY <2>1, <2>3
<1>14. ASSUME NEW m \in Lane \ {l} PROVE LaneOK(m)' /\ Kept(m)'
  <2>1. /\ LaneOK(m) /\ Kept(m)
        /\ pos'[m] = pos[m] /\ top'[m] = top[m] /\ pages'[m] = pages[m] /\ got'[m] = got[m]
    BY <1>2, <1>7 DEF Walked
  <2>2. LaneOK(m)'
    BY <1>2, <1>4, <1>5, <2>1 DEF LaneOK
  <2>3. \A i \in 1..old[m] : Covered(m, i)' <=> Covered(m, i)
    BY <1>2, <1>5, <2>1 DEF Covered, Newest, Counted
  <2>4. /\ pool'.ended[m] = "failed" <=> pool.ended[m] = "failed"
        /\ pool'.ended[m] = "done" => pool.ended[m] = "done"
    BY <1>4, BoundsAssumption
  <2>5. QED
    BY <1>2, <2>1, <2>2, <2>3, <2>4 DEF Kept
<1>15. QED
  BY <1>2, <1>5, <1>8, <1>13, <1>14 DEF Walked

\* A step that ends lanes, none of them as done, and forgets at most the rows of
\* a lane that failed.
LEMMA EndingStep ==
    ASSUME Walked, pool' \in PoolType, PoolOK(pool'),
           Waiting(pool') \subseteq Waiting(pool),
           UNCHANGED <<adapter, served, old, edge, trades, top, pos, pages>>,
           answer' \in {None, "fills", "none"},
           got' \in [Lane -> [Trade -> Nat]],
           \A m \in Lane :
              /\ pool.ended[m] = "failed" => pool'.ended[m] = "failed"
              /\ pool'.ended[m] = "done" => pool.ended[m] = "done"
              /\ got'[m] # got[m] => pool'.ended[m] = "failed"
    PROVE  Walked'
<1>1. Style' = Style /\ Lane' = Lane /\ PoolOK(pool)' /\ Waiting(pool)' = Waiting(pool')
  BY NextPool
<1>2. TypeOK'
  BY <1>1 DEF Walked, TypeOK, PoolType
<1>3. ASSUME NEW m \in Lane PROVE LaneOK(m)' /\ Kept(m)'
  <2>1. LaneOK(m) /\ Kept(m)
    BY DEF Walked
  <2>2. LaneOK(m)'
    BY <1>1, <2>1 DEF LaneOK
  <2>3. \A i \in 1..old[m] : Covered(m, i)' <=> Covered(m, i)
    BY <1>1 DEF Covered, Newest, Counted
  <2>4. "failed" # "done"
    OBVIOUS
  <2>5. QED
    BY <2>1, <2>2, <2>3, <2>4 DEF Kept
<1>4. QED
  BY <1>1, <1>2, <1>3 DEF Walked

LEMMA NoRowsStep ==
    ASSUME Walked, NEW l \in Lane, NoRows(l)
    PROVE  Walked'
<1>1. /\ adapter \in Adapters /\ pool \in PoolType /\ PoolOK(pool)
      /\ got \in [Lane -> [Trade -> Nat]] /\ answer \in {None, "fills", "none"}
  BY DEF Walked, TypeOK, PoolType
<1>2. /\ l \in pool.active /\ pool' = Leave(pool, l, "cut") /\ got' = got /\ answer' = answer
      /\ UNCHANGED <<adapter, served, old, edge, trades, top, pos, pages>>
  BY DEF NoRows
<1>3. "cut" \in Ends
  BY DEF Ends
<1>4. /\ pool' \in PoolType /\ PoolOK(pool') /\ Waiting(pool') \subseteq Waiting(pool)
      /\ pool'.ended[l] = "cut" /\ pool.ended[l] = None
      /\ \A m \in Lane \ {l} :
           \/ pool'.ended[m] = pool.ended[m]
           \/ pool.ended[m] = None /\ pool'.ended[m] = "budget"
  BY <1>1, <1>2, <1>3, LeaveLemma DEF PoolOK, Waiting
<1>5. \A m \in Lane :
         /\ pool.ended[m] = "failed" => pool'.ended[m] = "failed"
         /\ pool'.ended[m] = "done" => pool.ended[m] = "done"
  BY <1>4, BoundsAssumption
<1>6. QED
  BY <1>1, <1>2, <1>4, <1>5, EndingStep

LEMMA CallFailsStep ==
    ASSUME Walked, NEW l \in Lane, CallFails(l)
    PROVE  Walked'
<1>1. /\ adapter \in Adapters /\ pool \in PoolType /\ PoolOK(pool)
      /\ got \in [Lane -> [Trade -> Nat]] /\ answer \in {None, "fills", "none"}
      /\ pool.ended \in [Lane -> Ends \cup {None}]
  BY DEF Walked, TypeOK, PoolType
<1>2. /\ l \in pool.active
      /\ got' = [got EXCEPT ![l] = [i \in Trade |-> 0]]
      /\ answer' \in {None, "fills", "none"}
      /\ UNCHANGED <<adapter, served, old, edge, trades, top, pos, pages>>
  BY <1>1 DEF CallFails
<1>3. /\ got' \in [Lane -> [Trade -> Nat]]
      /\ \A m \in Lane \ {l} : got'[m] = got[m]
  BY <1>1, <1>2
<1>4. /\ pool.ended[l] = None /\ None \notin Ends
  BY <1>1, <1>2, BoundsAssumption DEF PoolOK, Waiting, Ends
<1>5. CASE Style.fails = "walk"
  <2> DEFINE e == [m \in Lane |-> IF pool.ended[m] = None THEN "failed" ELSE pool.ended[m]]
  <2>1. pool' = [calls |-> pool.calls, active |-> {}, queue |-> <<>>, ended |-> e]
    BY <1>5 DEF CallFails
  <2>2. e \in [Lane -> Ends \cup {None}]
    BY <1>1 DEF Ends
  <2>3. pool' \in PoolType
    BY <1>1, <2>1, <2>2 DEF PoolType
  <2>4. Waiting(pool') = {}
    BY <2>1 DEF Waiting
  <2>5. IsFiniteSet(pool'.active) /\ Cardinality(pool'.active) <= Style.conc
    BY <1>1, <2>1, StyleFacts, FS_EmptySet
  <2>6. PoolOK(pool')
    <3>1. DOMAIN pool'.queue = {} /\ pool'.calls = pool.calls
      BY <2>1
    <3>2. QED
      BY <1>1, <2>4, <2>5, <3>1 DEF PoolOK
  <2>7. \A m \in Lane :
           /\ pool.ended[m] = "failed" => pool'.ended[m] = "failed"
           /\ pool'.ended[m] = "done" => pool.ended[m] = "done"
           /\ got'[m] # got[m] => pool'.ended[m] = "failed"
    BY <1>3, <1>4, <2>1
  <2>8. QED
    BY <1>2, <1>3, <2>3, <2>4, <2>6, <2>7, EndingStep
<1>6. CASE Style.fails # "walk"
  <2>1. pool' = Leave(pool, l, "failed") /\ "failed" \in Ends
    BY <1>6 DEF CallFails, Ends
  <2>2. /\ pool' \in PoolType /\ PoolOK(pool') /\ Waiting(pool') \subseteq Waiting(pool)
        /\ pool'.ended[l] = "failed"
        /\ \A m \in Lane \ {l} :
             \/ pool'.ended[m] = pool.ended[m]
             \/ pool.ended[m] = None /\ pool'.ended[m] = "budget"
    BY <1>1, <1>2, <2>1, LeaveLemma
  <2>3. \A m \in Lane :
           /\ pool.ended[m] = "failed" => pool'.ended[m] = "failed"
           /\ pool'.ended[m] = "done" => pool.ended[m] = "done"
           /\ got'[m] # got[m] => pool'.ended[m] = "failed"
    BY <1>3, <1>4, <2>2 DEF Ends
  <2>4. QED
    BY <1>2, <1>3, <2>2, <2>3, EndingStep
<1>7. QED
  BY <1>5, <1>6

LEMMA ReturnStep ==
    ASSUME Walked, Return
    PROVE  Walked'
<1>1. /\ pool' = pool /\ got' = got /\ answer' \in {None, "fills", "none"}
      /\ UNCHANGED <<adapter, served, old, edge, trades, top, pos, pages>>
  BY DEF Return
<1>2. pool \in PoolType /\ PoolOK(pool) /\ got \in [Lane -> [Trade -> Nat]]
  BY DEF Walked, TypeOK, PoolType
<1>3. QED
  BY <1>1, <1>2, EndingStep

\* A new trade is newer than all that a lane has or will have to cover.
LEMMA NewTradeStep ==
    ASSUME Walked, NEW l \in Lane, NewTrade(l)
    PROVE  Walked'
<1>1. /\ pool \in PoolType /\ PoolOK(pool) /\ TypeOK
      /\ trades \in [Lane -> 0..MaxTrades] /\ top \in [Lane -> 0..MaxTrades]
      /\ pos \in [Lane -> Nat] /\ pages \in [Lane -> Nat] /\ MaxTrades \in Nat
      /\ old \in Seq(0..MaxOld) /\ MaxOld \in Nat
  BY BoundsAssumption DEF Walked, TypeOK, PoolType
<1>2. /\ trades' = [trades EXCEPT ![l] = @ + 1] /\ trades[l] < MaxTrades
      /\ UNCHANGED <<adapter, served, old, edge, top, pos, pages, got, pool, answer>>
  BY DEF NewTrade
<1>3. Style' = Style /\ Lane' = Lane /\ PoolOK(pool)' /\ Waiting(pool)' = Waiting(pool')
  BY <1>1, <1>2, NextPool
<1>4. trades' \in [Lane -> 0..MaxTrades] /\ \A m \in Lane : trades[m] <= trades'[m]
  BY <1>1, <1>2
<1>5. TypeOK'
  BY <1>1, <1>2, <1>3, <1>4 DEF TypeOK
<1>6. ASSUME NEW m \in Lane PROVE LaneOK(m)' /\ Kept(m)'
  <2>1. LaneOK(m) /\ Kept(m)
    BY DEF Walked
  <2>2. /\ old[m] \in Nat /\ trades[m] \in Nat /\ trades'[m] \in Nat /\ top[m] \in Nat
        /\ pos[m] \in Nat /\ trades[m] <= trades'[m]
    BY <1>1, <1>4, OldAreNumbers
  <2>3. LaneOK(m)'
    BY <1>2, <1>3, <2>1, <2>2 DEF LaneOK
  <2>4. Newest(m) <= Newest(m)' /\ Newest(m) \in Nat /\ Newest(m)' \in Nat
    BY <1>2, <1>3, <2>2 DEF Newest, Counted
  <2>5. \A i \in 1..old[m] : Covered(m, i)' => Covered(m, i)
    <3> SUFFICES ASSUME NEW i \in 1..old[m], Covered(m, i)' PROVE Covered(m, i)
      OBVIOUS
    <3>1. CASE Style.paging = "forward"
      BY <1>2, <1>3, <3>1 DEF Covered
    <3>2. CASE Style.paging # "forward"
      <4>1. Newest(m)' - pos[m] < i
        BY <1>2, <1>3, <3>2 DEF Covered
      <4>2. QED
        BY <2>2, <2>4, <3>2, <4>1 DEF Covered
    <3>3. QED
      BY <3>1, <3>2
  <2>6. QED
    BY <1>2, <2>1, <2>3, <2>5 DEF Kept
<1>7. QED
  BY <1>2, <1>3, <1>5, <1>6 DEF Walked

LEMMA StutterStep ==
    ASSUME Walked, UNCHANGED vars
    PROVE  Walked'
<1>1. /\ pool' = pool /\ got' = got /\ answer' = answer
      /\ UNCHANGED <<adapter, served, old, edge, trades, top, pos, pages>>
  BY DEF vars
<1>2. /\ pool \in PoolType /\ PoolOK(pool) /\ got \in [Lane -> [Trade -> Nat]]
      /\ answer \in {None, "fills", "none"}
  BY DEF Walked, TypeOK, PoolType
<1>3. QED
  BY <1>1, <1>2, EndingStep

\* The inductive invariant: what the pages of a lane have covered is kept, what
\* it ended as done is all of it, and the pool is within its bounds.
THEOREM WalkedHolds == Spec => []Walked
<1>1. Init => Walked
  BY InitWalked
<1>2. Walked /\ [Next]_vars => Walked'
  <2> SUFFICES ASSUME Walked, [Next]_vars PROVE Walked'
    OBVIOUS
  <2>1. ASSUME NEW l \in Lane, PageArrives(l) PROVE Walked'
    BY <2>1, PageStep
  <2>2. ASSUME NEW l \in Lane, NoRows(l) PROVE Walked'
    BY <2>2, NoRowsStep
  <2>3. ASSUME NEW l \in Lane, CallFails(l) PROVE Walked'
    BY <2>3, CallFailsStep
  <2>4. ASSUME NEW l \in Lane, NewTrade(l) PROVE Walked'
    BY <2>4, NewTradeStep
  <2>5. CASE Return
    BY <2>5, ReturnStep
  <2>6. CASE UNCHANGED vars
    BY <2>6, StutterStep
  <2>7. QED
    BY <2>1, <2>2, <2>3, <2>4, <2>5, <2>6 DEF Next, CallEnds
<1>3. QED
  BY <1>1, <1>2, PTL DEF Spec

\* A lane that believes it reached the end of its history has every trade there
\* was when the walk began: in every adapter, whatever the venue's pages, the
\* budget and the trades made meanwhile.
THEOREM CompleteTheorem == Spec => []CompleteWhenDone
<1>1. Walked => CompleteWhenDone
  BY DEF Walked, Kept, CompleteWhenDone
<1>2. QED
  BY <1>1, WalkedHolds, PTL

\* The call budget, the pages of a lane and the semaphore are kept to, however
\* the lanes' answers interleave and also after a failed gather.
THEOREM CallsTheorem == Spec => []CallsBounded
<1>1. Walked => CallsBounded
  BY DEF Walked, PoolOK, LaneOK, CallsBounded
<1>2. QED
  BY <1>1, WalkedHolds, PTL

-----------------------------------------------------------------------------
(* No fill is counted twice but for the trades made meanwhile.             *)

Doubled(l) == {i \in Trade : got[l][i] > 1}

\* The trades a lane has read and its cursor is still to pass: the account traded
\* while it was read by offsets, and its history slid under them.
Ahead(l) ==
    {i \in Trade : /\ got[l][i] > 0
                   /\ IF Style.paging = "forward" THEN pos[l] < i
                      ELSE i <= top[l] - pos[l]}

\* What is doubled or may yet be is no more than the trades made since the walk
\* began and seen by the lane; and only offsets have any of it.
Once(l) ==
    /\ pages[l] = 0 => \A i \in Trade : got[l][i] = 0
    /\ ~Counted => Doubled(l) = {} /\ Ahead(l) = {}
    /\ pages[l] > 0 => Cardinality(Doubled(l) \cup Ahead(l)) <= top[l] - old[l]

OnceInv == Walked /\ \A l \in Lane : Once(l)

\* The numbers of a lane.
LEMMA LaneNumbers ==
    ASSUME Walked, NEW l \in Lane
    PROVE  /\ served \in Nat /\ trades[l] \in Nat /\ top[l] \in Nat /\ old[l] \in Nat
           /\ pos[l] \in Nat /\ pages[l] \in Nat /\ got[l] \in [Trade -> Nat]
           /\ old[l] <= trades[l]
           /\ pages[l] > 0 => old[l] <= top[l] /\ top[l] <= trades[l]
<1>1. TypeOK /\ LaneOK(l) /\ MaxOld \in Nat /\ MaxTrades \in Nat
  BY BoundsAssumption DEF Walked
<1>2. old[l] \in 0..MaxOld
  BY <1>1 DEF TypeOK, Lane
<1>3. /\ trades[l] \in 0..MaxTrades /\ top[l] \in 0..MaxTrades
      /\ pos[l] \in Nat /\ pages[l] \in Nat /\ got[l] \in [Trade -> Nat] /\ served \in Nat
  BY <1>1 DEF TypeOK
<1>4. QED
  BY <1>1, <1>2, <1>3 DEF LaneOK

\* A page lies between the cursor before it and the cursor after it.
LEMMA PageBounds ==
    ASSUME Walked, NEW l \in Lane, NEW i \in Page(l)
    PROVE  IF Style.paging = "forward" THEN pos[l] < i /\ i <= Read(l)
           ELSE Newest(l) - Read(l) < i /\ i <= Newest(l) - pos[l]
<1>1. /\ served \in Nat /\ trades[l] \in Nat /\ pos[l] \in Nat
      /\ Newest(l) \in Nat /\ Newest(l) <= trades[l] /\ Read(l) \in Nat
  BY PageLemma, LaneNumbers
<1> DEFINE k == IF Style.paging = "forward" THEN pos[l]
                ELSE Newest(l) - pos[l] - served
           a == IF 0 <= k THEN k + 1 ELSE 1
           b == IF k + served <= trades[l] THEN k + served ELSE trades[l]
<1>2. k \in Int
  BY <1>1
<1>3. Page(l) = {j \in 1..trades[l] : k < j /\ j <= k + served}
  BY DEF Page
<1>4. /\ Style.paging = "forward" => k = pos[l]
      /\ Style.paging # "forward" => k = Newest(l) - pos[l] - served
  OBVIOUS
<1> HIDE DEF k
<1>5. /\ Page(l) = a..b /\ a \in Int /\ b \in Int
  BY <1>1, <1>2, <1>3
<1>6. Cardinality(Page(l)) = b - a + 1 /\ a <= i /\ i <= b /\ i \in Int
  <2>1. Cardinality(a..b) = IF a > b THEN 0 ELSE b - a + 1
    BY <1>5, FS_Interval
  <2> HIDE DEF a, b
  <2>2. a <= i /\ i <= b /\ i \in Int
    BY <1>5
  <2>3. QED
    BY <1>5, <2>1, <2>2
<1>7. Read(l) = pos[l] + (IF Style.paging = "numbered" THEN served ELSE b - a + 1)
  BY <1>6 DEF Read
<1>8. CASE Style.paging = "forward"
  BY <1>1, <1>4, <1>6, <1>7, <1>8
<1>9. CASE Style.paging # "forward"
  BY <1>1, <1>4, <1>6, <1>7, <1>9
<1>10. QED
  BY <1>8, <1>9

\* What doubles can be is a finite number of trades.
LEMMA Countable ==
    ASSUME NEW S, S \subseteq Trade
    PROVE  IsFiniteSet(S) /\ Cardinality(S) \in Nat
<1>1. MaxTrades \in Nat
  BY BoundsAssumption
<1>2. IsFiniteSet(Trade)
  BY <1>1, FS_Interval DEF Trade
<1>3. QED
  BY <1>2, FS_Subset, FS_CardinalityType

\* A lane whose own numbers stay remains as it was.
LEMMA OnceKept ==
    ASSUME NEW l \in Lane, Once(l), adapter' = adapter,
           old' = old, top'[l] = top[l], pos'[l] = pos[l], pages'[l] = pages[l],
           got'[l] = got[l]
    PROVE  Once(l)'
<1>1. Style' = Style
  BY DEF Style
<1>2. Doubled(l)' = Doubled(l) /\ Ahead(l)' = Ahead(l)
  BY <1>1 DEF Doubled, Ahead, Trade
<1>3. QED
  BY <1>1, <1>2 DEF Once, Trade, Counted

\* The page that comes doubles only what was ahead of the cursor.
LEMMA OncePage ==
    ASSUME Walked, NEW l \in Lane, Once(l), PageArrives(l)
    PROVE  Once(l)'
<1>1. /\ adapter' = adapter /\ old' = old
      /\ got' = [got EXCEPT ![l] = [i \in Trade |-> IF i \in Page(l) THEN @[i] + 1 ELSE @[i]]]
      /\ pos' = [pos EXCEPT ![l] = Read(l)]
      /\ top' = [top EXCEPT ![l] = Newest(l)]
      /\ pages' = [pages EXCEPT ![l] = @ + 1]
  BY DEF PageArrives
<1>2. /\ pos \in [Lane -> Nat] /\ top \in [Lane -> 0..MaxTrades]
      /\ pages \in [Lane -> Nat] /\ got \in [Lane -> [Trade -> Nat]]
      /\ old[l] \in Nat
  BY LaneNumbers DEF Walked, TypeOK
<1>3. /\ got'[l] = [i \in Trade |-> IF i \in Page(l) THEN got[l][i] + 1 ELSE got[l][i]]
      /\ pos'[l] = Read(l) /\ top'[l] = Newest(l) /\ pages'[l] = pages[l] + 1
      /\ pages[l] \in Nat /\ pos[l] \in Nat /\ top[l] \in Nat /\ trades[l] \in Nat
      /\ got[l] \in [Trade -> Nat]
  BY <1>1, <1>2, LaneNumbers
<1>4. /\ Page(l) \subseteq Trade /\ Read(l) \in Nat
      /\ Newest(l) \in Nat /\ old[l] <= Newest(l)
  BY PageLemma
<1>5. Style' = Style
  BY <1>1 DEF Style
<1>6. LaneOK(l)
  BY DEF Walked
<1>7. /\ Doubled(l)' = {i \in Trade : got'[l][i] > 1}
      /\ Ahead(l)' = {i \in Trade : /\ got'[l][i] > 0
                                    /\ IF Style.paging = "forward" THEN Read(l) < i
                                       ELSE i <= Newest(l) - Read(l)}
  BY <1>3, <1>5 DEF Doubled, Ahead, Trade
<1>8. ASSUME NEW i \in Trade
      PROVE  /\ got[l][i] \in Nat
             /\ got'[l][i] = IF i \in Page(l) THEN got[l][i] + 1 ELSE got[l][i]
             /\ i \in Nat
  <2>1. i \in 1..MaxTrades /\ MaxTrades \in Nat
    BY BoundsAssumption DEF Trade
  <2>2. QED
    BY <1>3, <2>1
<1>9. ASSUME NEW i \in Ahead(l)'
      PROVE  i \in Trade /\ i \notin Page(l) /\ got[l][i] > 0
  <2>1. i \notin Page(l)
    BY <1>4, <1>7, <1>8, PageBounds
  <2>2. QED
    BY <1>7, <1>8, <2>1
<1>10. CASE pages[l] = 0
  <2>1. \A i \in Trade : got[l][i] = 0
    BY <1>10 DEF Once
  <2>2. Doubled(l)' = {} /\ Ahead(l)' = {}
    BY <1>7, <1>8, <1>9, <2>1
  <2>3. Cardinality((Doubled(l) \cup Ahead(l))') = 0
    BY <2>2, FS_EmptySet
  <2>4. QED
    BY <1>1, <1>2, <1>3, <1>4, <1>5, <2>2, <2>3 DEF Once
<1>11. CASE pages[l] # 0 /\ ~Counted
  <2>1. /\ Doubled(l) = {} /\ Ahead(l) = {} /\ Newest(l) = top[l]
    BY <1>11 DEF Once, Newest, Counted
  <2>2. ASSUME NEW i \in Page(l) PROVE got[l][i] = 0
    <3>1. i \in Trade /\ got[l][i] \in Nat
      BY <1>4, <1>8
    <3>2. i \notin Ahead(l)
      BY <2>1
    <3>3. IF Style.paging = "forward" THEN pos[l] < i ELSE i <= top[l] - pos[l]
      BY <2>1, PageBounds
    <3>4. QED
      BY <3>1, <3>2, <3>3 DEF Ahead
  <2>3. Doubled(l)' = {}
    <3> SUFFICES ASSUME NEW i \in Trade, got'[l][i] > 1 PROVE FALSE
      BY <1>7
    <3>1. got[l][i] > 1
      BY <1>8, <2>2
    <3>2. QED
      BY <2>1, <3>1 DEF Doubled
  <2>4. Ahead(l)' = {}
    <3> SUFFICES ASSUME NEW i \in Ahead(l)' PROVE FALSE
      OBVIOUS
    <3>1. i \in Trade /\ got[l][i] > 0 /\ i \in Nat
      BY <1>8, <1>9
    <3>2. IF Style.paging = "forward" THEN Read(l) < i ELSE i <= top[l] - Read(l)
      BY <1>7, <2>1
    <3>3. pos[l] <= Read(l)
      <4>1. Cardinality(Page(l)) \in Nat /\ served \in Nat
        BY <1>4, Countable, LaneNumbers
      <4>2. QED
        BY <1>3, <4>1 DEF Read
    <3>4. IF Style.paging = "forward" THEN pos[l] < i ELSE i <= top[l] - pos[l]
      BY <1>3, <1>4, <3>1, <3>2, <3>3
    <3>5. QED
      BY <2>1, <3>1, <3>4 DEF Ahead
  <2>5. Cardinality((Doubled(l) \cup Ahead(l))') = 0
    BY <2>3, <2>4, FS_EmptySet
  <2>6. QED
    BY <1>1, <1>2, <1>3, <1>4, <1>5, <2>3, <2>4, <2>5 DEF Once
<1>12. CASE pages[l] # 0 /\ Counted
  <2> DEFINE before == Doubled(l) \cup Ahead(l)
             slid == (top[l] - pos[l] + 1)..(Newest(l) - pos[l])
  <2>1. Newest(l) = trades[l] /\ top[l] <= Newest(l) /\ Style.paging # "forward"
    BY <1>3, <1>6, <1>12 DEF Newest, Counted, LaneOK
  <2>2. /\ IsFiniteSet(before) /\ Cardinality(before) \in Nat
        /\ Cardinality(before) <= top[l] - old[l]
    BY <1>3, <1>12, Countable DEF Once, Doubled, Ahead
  <2>3. IsFiniteSet(slid) /\ Cardinality(slid) = Newest(l) - top[l]
    <3> DEFINE a == top[l] - pos[l] + 1
               b == Newest(l) - pos[l]
    <3>1. /\ a \in Int /\ b \in Int
          /\ (IF a > b THEN 0 ELSE b - a + 1) = Newest(l) - top[l]
      BY <1>3, <1>4, <2>1
    <3>2. slid = a..b
      OBVIOUS
    <3> HIDE DEF a, b, slid
    <3>3. QED
      BY <3>1, <3>2, FS_Interval
  <2>4. (Doubled(l) \cup Ahead(l))' \subseteq before \cup slid
    <3> SUFFICES ASSUME NEW i \in (Doubled(l) \cup Ahead(l))', i \notin Doubled(l)
                 PROVE  i \in Ahead(l) \/ i \in slid
      OBVIOUS
    <3>1. i \in Trade /\ got[l][i] > 0
      BY <1>7, <1>8, <1>9 DEF Doubled
    <3>2. i \in Nat /\ got[l][i] \in Nat
      BY <1>8, <3>1
    <3>3. i <= Newest(l) - pos[l]
      <4>1. CASE i \in Page(l)
        BY <2>1, <4>1, PageBounds
      <4>2. CASE i \in Ahead(l)'
        <5>1. i <= Newest(l) - Read(l)
          BY <1>7, <2>1, <4>2
        <5>2. Cardinality(Page(l)) \in Nat /\ served \in Nat
          BY <1>4, Countable, LaneNumbers
        <5>3. QED
          BY <1>3, <1>4, <3>2, <5>1, <5>2 DEF Read
      <4>3. i \in Page(l) \/ i \in Ahead(l)'
        BY <1>7, <1>8, <3>1 DEF Doubled
      <4>4. QED
        BY <4>1, <4>2, <4>3
    <3>4. QED
      BY <1>3, <1>4, <2>1, <3>1, <3>2, <3>3 DEF Ahead
  <2>5. /\ IsFiniteSet(before \cup slid)
        /\ Cardinality(before \cup slid) <= Newest(l) - old[l]
    <3>1. /\ IsFiniteSet(before \cup slid)
          /\ Cardinality(before \cup slid) =
               Cardinality(before) + Cardinality(slid) - Cardinality(before \cap slid)
      BY <2>2, <2>3, FS_Union
    <3>2. Cardinality(before \cap slid) \in Nat
      BY <2>2, FS_Subset, FS_CardinalityType
    <3> HIDE DEF before, slid
    <3>3. QED
      BY <1>2, <1>3, <1>4, <2>2, <2>3, <3>1, <3>2
  <2>6. /\ Cardinality((Doubled(l) \cup Ahead(l))') <= Cardinality(before \cup slid)
        /\ Cardinality((Doubled(l) \cup Ahead(l))') \in Nat
        /\ Cardinality(before \cup slid) \in Nat
    BY <2>4, <2>5, FS_Subset, FS_CardinalityType
  <2>7. Cardinality((Doubled(l) \cup Ahead(l))') <= Newest(l) - old[l]
    BY <1>2, <1>4, <2>5, <2>6
  <2>8. Cardinality(Doubled(l)' \cup Ahead(l)') <= top'[l] - old'[l]
    BY <1>1, <1>3, <2>7
  <2>9. QED
    BY <1>3, <1>5, <1>12, <2>8 DEF Once, Counted
<1>13. QED
  BY <1>10, <1>11, <1>12

THEOREM OnceHolds == Spec => []OnceInv
<1>1. Init => OnceInv
  <2> SUFFICES ASSUME Init, NEW l \in Lane PROVE Once(l)
    BY InitWalked DEF OnceInv
  <2>1. pages[l] = 0 /\ \A i \in Trade : got[l][i] = 0
    BY DEF Init
  <2>2. Doubled(l) = {} /\ Ahead(l) = {}
    BY <2>1 DEF Doubled, Ahead
  <2>3. QED
    BY <2>1, <2>2 DEF Once
<1>2. OnceInv /\ Walked' /\ [Next]_vars => OnceInv'
  <2> SUFFICES ASSUME Walked, \A l \in Lane : Once(l), Walked', [Next]_vars,
                      NEW l \in Lane
               PROVE  Once(l)'
    <3>1. ASSUME [Next]_vars PROVE Lane' = Lane
      BY <3>1 DEF Next, PageArrives, NoRows, CallFails, Return, NewTrade, vars, Lane
    <3>2. QED
      BY <3>1 DEF OnceInv
  <2>1. ASSUME adapter' = adapter, old' = old, top' = top, pos' = pos, pages' = pages,
               got'[l] = got[l]
        PROVE  Once(l)'
    BY <2>1, OnceKept
  <2>2. ASSUME NEW m \in Lane, PageArrives(m) PROVE Once(l)'
    <3>1. CASE m = l
      BY <2>2, <3>1, OncePage
    <3>2. CASE m # l
      <4>1. /\ adapter' = adapter /\ old' = old /\ top'[l] = top[l] /\ pos'[l] = pos[l]
            /\ pages'[l] = pages[l] /\ got'[l] = got[l]
        BY <2>2, <3>2 DEF PageArrives, Walked, TypeOK
      <4>2. QED
        BY <4>1, OnceKept
    <3>3. QED
      BY <3>1, <3>2
  <2>3. ASSUME NEW m \in Lane, NoRows(m) PROVE Once(l)'
    BY <2>1, <2>3 DEF NoRows
  <2>4. ASSUME NEW m \in Lane, CallFails(m) PROVE Once(l)'
    <3>1. CASE m = l
      <4>1. /\ adapter' = adapter /\ old' = old /\ top' = top /\ pos' = pos /\ pages' = pages
            /\ got'[l] = [i \in Trade |-> 0]
        BY <2>4, <3>1 DEF CallFails, Walked, TypeOK
      <4>2. Doubled(l)' = {} /\ Ahead(l)' = {}
        BY <4>1 DEF Doubled, Ahead, Trade
      <4>3. pages[l] > 0 => 0 <= top[l] - old[l]
        BY LaneNumbers
      <4>4. Style' = Style
        BY <4>1 DEF Style
      <4>5. Cardinality(Doubled(l)' \cup Ahead(l)') = 0
        BY <4>2, FS_EmptySet
      <4>6. QED
        BY <4>1, <4>2, <4>3, <4>4, <4>5 DEF Once, Trade
    <3>2. CASE m # l
      BY <2>1, <2>4, <3>2 DEF CallFails, Walked, TypeOK
    <3>3. QED
      BY <3>1, <3>2
  <2>5. ASSUME NEW m \in Lane, NewTrade(m) PROVE Once(l)'
    BY <2>1, <2>5 DEF NewTrade
  <2>6. CASE Return
    BY <2>1, <2>6 DEF Return
  <2>7. CASE UNCHANGED vars
    BY <2>1, <2>7 DEF vars
  <2>8. QED
    BY <2>2, <2>3, <2>4, <2>5, <2>6, <2>7 DEF Next
<1>3. QED
  BY <1>1, <1>2, WalkedHolds, PTL DEF Spec

\* A fill is delivered twice only where pages are counted from the newest trade or
\* two windows share an end, and no more fills are than the account traded in the
\* lane during the walk and made at that end, whatever the size of a page.
THEOREM DoublesTheorem == Spec => []DoublesExplained
<1>1. OnceInv => DoublesExplained
  <2> SUFFICES ASSUME OnceInv, NEW l \in Lane
               PROVE  /\ \A i \in Trade : Times(l, i) > 1 => Counted \/ i <= edge[l]
                      /\ Doubles(l) <= trades[l] - old[l] + edge[l]
    BY DEF DoublesExplained
  <2>1. Once(l) /\ LaneOK(l)
    BY DEF OnceInv, Walked
  <2>2. /\ old[l] \in Nat /\ trades[l] \in Nat /\ top[l] \in Nat /\ pages[l] \in Nat
        /\ got[l] \in [Trade -> Nat]
    BY LaneNumbers DEF OnceInv
  <2>3. edge[l] \in Nat
    <3>1. edge[l] \in 0..MaxEdge /\ MaxEdge \in Nat
      BY BoundsAssumption DEF OnceInv, Walked, TypeOK
    <3>2. QED
      BY <3>1
  <2> DEFINE twice == {i \in Trade : Times(l, i) > 1}
             shared == 1..edge[l]
  <2>4. ASSUME NEW i \in twice, ~(i <= edge[l]) PROVE i \in Doubled(l)
    <3>1. i \in Trade /\ Times(l, i) > 1 /\ got[l][i] \in Nat
      BY <2>2
    <3>2. Times(l, i) = got[l][i]
      BY <2>4, <3>1 DEF Times
    <3>3. QED
      BY <3>1, <3>2 DEF Doubled
  <2>5. twice \subseteq Doubled(l) \cup shared
    <3> SUFFICES ASSUME NEW i \in twice, ~(i \in shared) PROVE i \in Doubled(l)
      OBVIOUS
    <3>1. i \in 1..MaxTrades /\ MaxTrades \in Nat
      BY BoundsAssumption DEF Trade
    <3>2. ~(i <= edge[l])
      BY <2>3, <3>1
    <3>3. QED
      BY <2>4, <3>2
  <2>6. \A i \in Trade : Times(l, i) > 1 => Counted \/ i <= edge[l]
    <3> SUFFICES ASSUME NEW i \in Trade, Times(l, i) > 1, ~(i <= edge[l]) PROVE Counted
      OBVIOUS
    <3>1. i \in Doubled(l)
      BY <2>4
    <3>2. QED
      BY <2>1, <3>1 DEF Once
  <2>7. /\ IsFiniteSet(Doubled(l)) /\ Cardinality(Doubled(l)) \in Nat
        /\ Cardinality(Doubled(l)) <= trades[l] - old[l]
    <3>1. CASE pages[l] = 0
      <4>1. Doubled(l) = {}
        BY <2>1, <3>1 DEF Once, Doubled
      <4>2. QED
        BY <2>1, <2>2, <4>1, FS_EmptySet DEF LaneOK
    <3>2. CASE pages[l] > 0
      <4>1. /\ IsFiniteSet(Doubled(l) \cup Ahead(l))
            /\ Cardinality(Doubled(l) \cup Ahead(l)) \in Nat
        BY Countable DEF Doubled, Ahead
      <4>2. /\ IsFiniteSet(Doubled(l))
            /\ Cardinality(Doubled(l)) <= Cardinality(Doubled(l) \cup Ahead(l))
            /\ Cardinality(Doubled(l)) \in Nat
        BY <4>1, FS_Subset, FS_CardinalityType
      <4>3. QED
        BY <2>1, <2>2, <3>2, <4>1, <4>2 DEF Once, LaneOK
    <3>3. QED
      BY <2>2, <3>1, <3>2
  <2>8. IsFiniteSet(shared) /\ Cardinality(shared) = edge[l]
    BY <2>3, FS_Interval
  <2>9. /\ IsFiniteSet(Doubled(l) \cup shared)
        /\ Cardinality(Doubled(l) \cup shared) <= trades[l] - old[l] + edge[l]
    <3>1. /\ IsFiniteSet(Doubled(l) \cup shared)
          /\ Cardinality(Doubled(l) \cup shared) =
               Cardinality(Doubled(l)) + Cardinality(shared)
                 - Cardinality(Doubled(l) \cap shared)
      BY <2>7, <2>8, FS_Union
    <3>2. Cardinality(Doubled(l) \cap shared) \in Nat
      BY <2>7, FS_Intersection, FS_CardinalityType
    <3> HIDE DEF shared
    <3>3. QED
      BY <2>2, <2>3, <2>7, <2>8, <3>1, <3>2
  <2>10. /\ Cardinality(twice) <= Cardinality(Doubled(l) \cup shared)
         /\ Cardinality(twice) \in Nat /\ Cardinality(Doubled(l) \cup shared) \in Nat
    BY <2>5, <2>9, FS_Subset, FS_CardinalityType
  <2>11. Doubles(l) <= trades[l] - old[l] + edge[l]
    <3>1. Doubles(l) = Cardinality(twice)
      BY DEF Doubles
    <3> HIDE DEF twice, shared
    <3>2. QED
      BY <2>2, <2>3, <2>9, <2>10, <3>1
  <2>12. QED
    BY <2>6, <2>11
<1>2. QED
  BY <1>1, OnceHolds, PTL

-----------------------------------------------------------------------------
(* When the budget runs out it is the last lanes that go without.          *)

\* The lanes queued for their first call are the last ones, in order.
Suffix(p) == \A i \in DOMAIN p.queue : p.queue[i] = Len(old) - Len(p.queue) + i

Queued(p) == {p.queue[i] : i \in DOMAIN p.queue}

InOrder ==
    /\ Style.slot = "lane" =>
         /\ Suffix(pool)
         /\ \A l \in Queued(pool) : pages[l] = 0
         /\ \A l \in Lane : Unserved(l) => Queued(pool) = {}
    /\ DustGoesWithout

DustInv == Walked /\ InOrder

\* What giving slots does to a pool: no lane but those in except ends, or the
\* budget is spent and every lane from some place on ends, all of them queued.
Goes(p, q, except) ==
    \/ /\ \A m \in Lane \ except : q.ended[m] = p.ended[m]
       /\ Style.slot = "lane" => Suffix(q) /\ Queued(q) \subseteq Queued(p)
    \/ /\ Style.slot = "lane" /\ Queued(q) = {} /\ Suffix(q)
       /\ \E k \in Nat :
            /\ \A m \in Lane : k < m => m \in Queued(p) /\ q.ended[m] = "budget"
            /\ \A m \in Lane \ except : m <= k => q.ended[m] = p.ended[m]

LEMMA AdmitGoes ==
    ASSUME adapter \in Adapters, NEW p \in PoolType, PoolOK(p),
           Len(old) \in Nat, Lane = 1..Len(old),
           Style.slot = "lane" => Suffix(p)
    PROVE  Goes(p, Admit(p), {})
<1> DEFINE room == Style.conc - Cardinality(p.active)
           want == Least(room, Len(p.queue))
           n == IF Style.slot = "lane" /\ Style.budget THEN Least(want, Left(p)) ELSE want
           rest == SubSeq(p.queue, n + 1, Len(p.queue))
           spent == {rest[i] : i \in IF n < want THEN DOMAIN rest ELSE {}}
           first == {p.queue[i] : i \in 1..n}
           q == [calls |-> IF Style.slot = "lane" THEN p.calls + n ELSE p.calls,
                 active |-> p.active \cup first,
                 queue |-> IF n < want THEN <<>> ELSE rest,
                 ended |-> [l \in Lane |-> IF l \in spent THEN "budget" ELSE p.ended[l]]]
<1>1. Admit(p) = q
  BY DEF Admit
<1>2. /\ Style.conc \in Nat /\ Style.budget \in BOOLEAN
      /\ Style.slot \in {"call", "lane"} /\ MaxCalls \in Nat
  BY StyleFacts, BoundsAssumption
<1>3. /\ p.calls \in Nat /\ p.active \subseteq Lane /\ p.queue \in Seq(Lane)
      /\ p.ended \in [Lane -> Ends \cup {None}]
  BY DEF PoolType
<1>4. /\ Cardinality(p.active) \in Nat /\ room \in Nat
      /\ Len(p.queue) \in Nat /\ DOMAIN p.queue = 1..Len(p.queue)
  BY <1>2, <1>3, FS_CardinalityType DEF PoolOK
<1>5. /\ want \in Nat /\ want <= room /\ want <= Len(p.queue)
  BY <1>4 DEF Least
<1>6. Style.budget => Left(p) \in Nat
  BY <1>2, <1>3 DEF Left, PoolOK
<1>7. /\ n \in Nat /\ n <= want
      /\ n < want => Style.slot = "lane"
  BY <1>5, <1>6 DEF Least
<1> HIDE DEF room, want, n
<1>8. /\ rest \in Seq(Lane) /\ Len(rest) = Len(p.queue) - n /\ DOMAIN rest = 1..Len(rest)
      /\ \A i \in 1..Len(rest) : rest[i] = p.queue[i + n] /\ i + n \in DOMAIN p.queue
  <2>1. /\ n \in Nat /\ Len(p.queue) \in Nat /\ n <= Len(p.queue)
        /\ \A i \in 1..Len(p.queue) : p.queue[i] \in Lane
    BY <1>3, <1>4, <1>5, <1>7
  <2>2. /\ rest \in Seq(Lane) /\ Len(rest) = Len(p.queue) - n
        /\ DOMAIN rest = 1..(Len(p.queue) - n)
        /\ \A i \in 1..(Len(p.queue) - n) : rest[i] = p.queue[i + n] /\ i + n \in 1..Len(p.queue)
    BY <2>1, RestOfSequence
  <2>3. QED
    BY <1>4, <2>2
<1> HIDE DEF rest
<1>9. ASSUME Style.slot = "lane", NEW i \in 1..Len(rest)
      PROVE  rest[i] = Len(old) - Len(rest) + i /\ rest[i] \in Queued(p)
  <2>1. /\ i + n \in DOMAIN p.queue /\ rest[i] = p.queue[i + n]
        /\ Len(rest) = Len(p.queue) - n /\ i \in Nat
    BY <1>8
  <2>2. p.queue[i + n] = Len(old) - Len(p.queue) + (i + n)
    BY <1>9, <2>1 DEF Suffix
  <2>3. rest[i] \in Queued(p)
    BY <2>1 DEF Queued
  <2>4. Len(old) - Len(p.queue) + (i + n) = Len(old) - Len(rest) + i
    <3>1. Len(p.queue) \in Nat /\ n \in Nat
      BY <1>4, <1>7
    <3>2. QED
      BY <2>1, <3>1
  <2>5. QED
    BY <2>1, <2>2, <2>3, <2>4
<1>10. CASE n < want
  <2>1. Style.slot = "lane" /\ n \in Nat
    BY <1>7, <1>10
  <2>2. q.queue = <<>> /\ DOMAIN q.queue = {}
    BY <1>10
  <2>3. Queued(q) = {} /\ Suffix(q)
    BY <2>2 DEF Queued, Suffix
  <2> DEFINE k == Len(old) - Len(rest)
  <2>4. Len(rest) \in Nat /\ Len(rest) > 0
    BY <1>4, <1>5, <1>7, <1>8, <1>10
  <2>5. k \in Nat
    <3>1. 1 \in 1..Len(rest)
      BY <2>4
    <3>2. rest[1] = Len(old) - Len(rest) + 1
      BY <1>9, <2>1, <3>1
    <3>3. rest[1] \in 1..Len(old)
      BY <1>8, <3>1
    <3>4. QED
      BY <2>4, <3>2, <3>3
  <2>6. ASSUME NEW m \in Lane, k < m
        PROVE  m \in Queued(p) /\ q.ended[m] = "budget"
    <3>1. m - k \in 1..Len(rest) /\ m = Len(old) - Len(rest) + (m - k)
      BY <2>4, <2>5, <2>6
    <3>2. m = rest[m - k] /\ m \in Queued(p)
      BY <1>9, <2>1, <3>1
    <3>3. m \in spent
      BY <1>8, <1>10, <3>1, <3>2
    <3>4. QED
      BY <3>2, <3>3
  <2>7. ASSUME NEW m \in Lane, m <= k
        PROVE  q.ended[m] = p.ended[m]
    <3>1. m \notin spent
      <4> SUFFICES ASSUME NEW i \in 1..Len(rest), m = rest[i] PROVE FALSE
        BY <1>8
      <4>1. m = k + i /\ i \in Nat /\ i >= 1
        BY <1>9, <2>1
      <4>2. QED
        BY <2>5, <2>7, <4>1
    <3>2. QED
      BY <3>1
  <2> HIDE DEF q, k
  <2>8. Goes(p, q, {})
    BY <2>1, <2>3, <2>5, <2>6, <2>7 DEF Goes
  <2>9. QED
    BY <1>1, <2>8
<1>11. CASE ~(n < want)
  <2>1. spent = {} /\ q.queue = rest
    BY <1>11
  <2>2. \A m \in Lane : q.ended[m] = p.ended[m]
    BY <2>1
  <2>3. Style.slot = "lane" => Suffix(q) /\ Queued(q) \subseteq Queued(p)
    <3>1. Style.slot = "lane" => Suffix(q)
      BY <1>8, <1>9, <2>1 DEF Suffix
    <3>2. Style.slot = "lane" => Queued(q) \subseteq Queued(p)
      <4> SUFFICES ASSUME Style.slot = "lane", NEW i \in 1..Len(rest)
                   PROVE  rest[i] \in Queued(p)
        BY <1>8, <2>1 DEF Queued
      <4>1. QED
        BY <1>9
    <3>3. QED
      BY <3>1, <3>2
  <2> HIDE DEF q
  <2>4. Goes(p, q, {})
    BY <2>2, <2>3 DEF Goes
  <2>5. QED
    BY <1>1, <2>4
<1>12. QED
  BY <1>10, <1>11

\* The same of a pool that differs from p at one lane only.
LEMMA GoesFrom ==
    ASSUME NEW p \in PoolType, NEW p1 \in PoolType, NEW q, NEW l \in Lane,
           Goes(p1, q, {}),
           \A m \in Lane \ {l} : p1.ended[m] = p.ended[m],
           Style.slot = "lane" => p1.queue = p.queue
    PROVE  Goes(p, q, {l})
<1>1. Style.slot = "lane" => Queued(p1) = Queued(p)
  BY DEF Queued
<1>2. QED
  BY <1>1 DEF Goes

\* A pool that lane l has left.
LEMMA WithoutLane ==
    ASSUME NEW p \in PoolType, NEW l \in p.active, NEW why \in Ends, NEW q,
           q = [[p EXCEPT !.active = @ \ {l}] EXCEPT !.ended[l] = why]
    PROVE  q = [calls |-> p.calls, active |-> p.active \ {l}, queue |-> p.queue,
                ended |-> [p.ended EXCEPT ![l] = why]]
<1> DEFINE p1 == [p EXCEPT !.active = @ \ {l}]
           e == [p.ended EXCEPT ![l] = why]
<1>1. p1 = [calls |-> p.calls, active |-> p.active \ {l}, queue |-> p.queue, ended |-> p.ended]
  BY PoolFields
<1>2. q = [p1 EXCEPT !.ended[l] = why]
  OBVIOUS
<1> HIDE DEF p1
<1>3. p1.ended = p.ended
  BY <1>1
<1>4. q = [p1 EXCEPT !.ended = e]
  BY <1>2, <1>3
<1> HIDE DEF e
<1>5. q = [calls |-> p.calls, active |-> p.active \ {l}, queue |-> p.queue, ended |-> e]
  BY <1>1, <1>4
<1>6. QED
  BY <1>5 DEF e

\* A pool whose lane l has given its slot back.
LEMMA WithoutOK ==
    ASSUME adapter \in Adapters, NEW p \in PoolType, PoolOK(p), NEW l \in p.active,
           NEW why \in Ends, NEW q,
           q = [calls |-> p.calls, active |-> p.active \ {l}, queue |-> p.queue,
                ended |-> [p.ended EXCEPT ![l] = why]]
    PROVE  q \in PoolType /\ PoolOK(q)
<1>1. /\ p.calls \in Nat /\ p.active \subseteq Lane /\ p.queue \in Seq(Lane)
      /\ p.ended \in [Lane -> Ends \cup {None}] /\ l \in Lane /\ why \in Ends
  BY DEF PoolType
<1>2. q \in PoolType
  BY <1>1 DEF PoolType
<1>3. /\ IsFiniteSet(p.active \ {l})
      /\ Cardinality(p.active \ {l}) = Cardinality(p.active) - 1
  BY FS_RemoveElement DEF PoolOK
<1>4. Cardinality(p.active) \in Nat /\ Style.conc \in Nat
  BY StyleFacts, FS_CardinalityType DEF PoolOK
<1>5. IsFiniteSet(q.active) /\ Cardinality(q.active) <= Style.conc
  BY <1>3, <1>4 DEF PoolOK
<1>6. \A m \in Waiting(q) : q.ended[m] = None
  BY <1>1 DEF PoolOK, Waiting
<1>7. QED
  BY <1>2, <1>5, <1>6 DEF PoolOK

LEMMA LeaveGoes ==
    ASSUME adapter \in Adapters, NEW p \in PoolType, PoolOK(p),
           Len(old) \in Nat, Lane = 1..Len(old),
           Style.slot = "lane" => Suffix(p), NEW l \in p.active, NEW why \in Ends
    PROVE  Goes(p, Leave(p, l, why), {l})
<1> DEFINE q == [[p EXCEPT !.active = @ \ {l}] EXCEPT !.ended[l] = why]
<1>1. /\ p.calls \in Nat /\ p.active \subseteq Lane /\ p.queue \in Seq(Lane)
      /\ p.ended \in [Lane -> Ends \cup {None}] /\ l \in Lane /\ why \in Ends
  BY DEF PoolType
<1>2. q = [calls |-> p.calls, active |-> p.active \ {l}, queue |-> p.queue,
           ended |-> [p.ended EXCEPT ![l] = why]]
  BY WithoutLane
<1>3. q \in PoolType /\ PoolOK(q)
  BY <1>2, WithoutOK
<1>4. /\ \A m \in Lane \ {l} : q.ended[m] = p.ended[m]
      /\ q.queue = p.queue
  BY <1>1, <1>2
<1>5. Leave(p, l, why) = Admit(q)
  BY DEF Leave
<1> HIDE DEF q
<1>6. Style.slot = "lane" => Suffix(q)
  BY <1>4 DEF Suffix
<1>7. Goes(q, Admit(q), {})
  BY <1>3, <1>6, AdmitGoes
<1>8. QED
  BY <1>1, <1>3, <1>4, <1>5, <1>7, GoesFrom

\* With a slot per call nobody ends for want of a slot.
LEMMA AdmitCalls ==
    ASSUME NEW p, Style.slot = "call", Style.conc \in Nat,
           Cardinality(p.active) \in Nat, Len(p.queue) \in Nat
    PROVE  \A m \in Lane : Admit(p).ended[m] = p.ended[m]
<1> DEFINE want == Least(Style.conc - Cardinality(p.active), Len(p.queue))
<1>1. want \in Int
  BY DEF Least
<1> HIDE DEF want
<1>2. ~(want < want)
  BY <1>1
<1> DEFINE n == IF Style.slot = "lane" /\ Style.budget THEN Least(want, Left(p)) ELSE want
           rest == SubSeq(p.queue, n + 1, Len(p.queue))
           spent == {rest[i] : i \in IF n < want THEN DOMAIN rest ELSE {}}
<1>3. spent = {}
  BY <1>2
<1>4. Admit(p).ended = [m \in Lane |-> IF m \in spent THEN "budget" ELSE p.ended[m]]
  BY DEF Admit, want
<1> HIDE DEF spent
<1>5. QED
  BY <1>3, <1>4

LEMMA ContinueGoes ==
    ASSUME adapter \in Adapters, NEW p \in PoolType, PoolOK(p),
           Len(old) \in Nat, Lane = 1..Len(old),
           Style.slot = "lane" => Suffix(p), NEW l \in p.active
    PROVE  Goes(p, Continue(p, l), {l})
<1>1. /\ p.calls \in Nat /\ p.active \subseteq Lane /\ p.queue \in Seq(Lane)
      /\ p.ended \in [Lane -> Ends \cup {None}] /\ l \in Lane
      /\ Style.slot \in {"call", "lane"} /\ Style.conc \in Nat
  BY StyleFacts DEF PoolType
<1>2. CASE ~MayCall(p)
  BY <1>1, <1>2, LeaveGoes DEF Continue, Ends
<1>3. CASE MayCall(p) /\ Style.slot = "lane"
  <2> DEFINE q == [p EXCEPT !.calls = @ + 1]
  <2>1. q = [calls |-> p.calls + 1, active |-> p.active, queue |-> p.queue, ended |-> p.ended]
    BY PoolFields
  <2>2. Continue(p, l) = q
    BY <1>3 DEF Continue
  <2>3. q.ended = p.ended /\ q.queue = p.queue
    BY <2>1
  <2> HIDE DEF q
  <2>4. QED
    BY <1>3, <2>2, <2>3 DEF Goes, Suffix, Queued
<1>4. CASE MayCall(p) /\ Style.slot = "call"
  <2>1. PICK q \in PoolType :
          /\ Continue(p, l) = Admit(q) /\ PoolOK(q)
          /\ q.active = p.active \ {l} /\ q.queue = Append(p.queue, l)
          /\ q.ended = p.ended
    BY <1>4, Requeues
  <2>2. Cardinality(p.active \ {l}) \in Nat
    BY FS_RemoveElement, FS_CardinalityType DEF PoolOK
  <2>3. Len(Append(p.queue, l)) \in Nat
    BY <1>1
  <2>4. \A m \in Lane : Admit(q).ended[m] = q.ended[m]
    BY <1>1, <1>4, <2>1, <2>2, <2>3, AdmitCalls
  <2>5. QED
    BY <1>4, <2>1, <2>4 DEF Goes
<1>5. QED
  BY <1>1, <1>2, <1>3, <1>4

\* The numbers of the lanes.
LEMMA Lanes ==
    ASSUME Walked
    PROVE  Len(old) \in Nat /\ Lane = 1..Len(old)
<1>1. old \in Seq(0..MaxOld)
  BY DEF Walked, TypeOK
<1>2. QED
  BY <1>1 DEF Lane

\* When a lane's call ends so, the lanes stay in order.
LEMMA GoesInOrder ==
    ASSUME Walked, InOrder, NEW l \in pool.active,
           adapter' = adapter, old' = old,
           Goes(pool, pool', {l}),
           \A m \in Lane \ {l} : pages'[m] = pages[m],
           pool'.ended[l] = "budget" => pages'[l] # 0
    PROVE  InOrder'
<1>1. Style' = Style /\ Lane' = Lane
  BY DEF Style, Lane
<1>2. /\ l \in Lane /\ pool.ended[l] = None /\ None # "budget" /\ l \notin Queued(pool)
  BY BoundsAssumption DEF Walked, TypeOK, PoolOK, Waiting, Queued
<1>3. ~Unserved(l) /\ ~Unserved(l)'
  BY <1>2 DEF Unserved
<1>4. Queued(pool) \subseteq Lane
  BY DEF Walked, TypeOK, Queued
<1>5. Queued(pool)' = Queued(pool') /\ Suffix(pool)' = Suffix(pool')
  BY DEF Queued, Suffix
<1>6. CASE /\ \A m \in Lane \ {l} : pool'.ended[m] = pool.ended[m]
           /\ Style.slot = "lane" => Suffix(pool') /\ Queued(pool') \subseteq Queued(pool)
  <2>1. \A m \in Lane : Unserved(m)' <=> Unserved(m)
    BY <1>3, <1>6 DEF Unserved
  <2>2. DustGoesWithout'
    BY <1>1, <2>1 DEF DustGoesWithout, InOrder
  <2>3. ASSUME Style.slot = "lane"
        PROVE  /\ Suffix(pool')
               /\ \A m \in Queued(pool') : pages'[m] = 0
               /\ \A m \in Lane : Unserved(m)' => Queued(pool') = {}
    BY <1>2, <1>4, <1>6, <2>1, <2>3 DEF InOrder
  <2>4. QED
    BY <1>1, <1>5, <2>2, <2>3 DEF InOrder
<1>7. CASE /\ Style.slot = "lane" /\ Queued(pool') = {} /\ Suffix(pool')
           /\ \E k \in Nat :
                /\ \A m \in Lane : k < m => m \in Queued(pool) /\ pool'.ended[m] = "budget"
                /\ \A m \in Lane \ {l} : m <= k => pool'.ended[m] = pool.ended[m]
  <2>1. PICK k \in Nat :
          /\ \A m \in Lane : k < m => m \in Queued(pool) /\ pool'.ended[m] = "budget"
          /\ \A m \in Lane \ {l} : m <= k => pool'.ended[m] = pool.ended[m]
    BY <1>7
  <2>2. \A m \in Lane : m \in Nat
    BY Lanes
  <2>3. \A m \in Lane : k < m => Unserved(m)'
    BY <1>2, <1>7, <2>1 DEF InOrder, Unserved
  <2>4. \A m \in Lane : m <= k => (Unserved(m)' <=> Unserved(m))
    BY <1>3, <2>1 DEF Unserved
  <2>5. ASSUME NEW a \in Lane, NEW b \in Lane, a < b, Unserved(a)'
        PROVE  Unserved(b)'
    <3>1. CASE k < b
      BY <2>3, <3>1
    <3>2. CASE b <= k
      <4>1. a <= k
        BY <2>2, <2>5, <3>2
      <4>2. Unserved(b)
        BY <2>4, <2>5, <4>1 DEF InOrder, DustGoesWithout
      <4>3. QED
        BY <2>4, <3>2, <4>2
    <3>3. QED
      BY <2>2, <3>1, <3>2
  <2>6. DustGoesWithout'
    BY <1>1, <2>5 DEF DustGoesWithout
  <2>7. QED
    BY <1>5, <1>7, <2>6 DEF InOrder
<1>8. QED
  BY <1>6, <1>7 DEF Goes

LEMMA InitInOrder == Init => InOrder
<1> SUFFICES ASSUME Init PROVE InOrder
  OBVIOUS
<1>1. Walked /\ adapter \in Adapters /\ MaxCalls \in Nat /\ None # "budget"
  BY InitWalked, BoundsAssumption DEF Init
<1>2. Len(old) \in Nat /\ Lane = 1..Len(old) /\ \A m \in Lane : pages[m] = 0
  BY <1>1, Lanes DEF Init
<1>3. Style.slot \in {"call", "lane"} /\ Style.conc \in Nat
  BY <1>1, StyleFacts
<1> DEFINE first == IF Style.slot = "call" THEN Least(MaxCalls, Len(old)) ELSE Len(old)
           q == [calls |-> IF Style.slot = "call" THEN first ELSE 0,
                 active |-> {},
                 queue |-> [i \in 1..first |-> i],
                 ended |-> [m \in Lane |-> IF m <= first THEN None ELSE "budget"]]
<1>4. pool = Admit(q)
  BY DEF Init, Started
<1>5. /\ first \in Nat /\ first <= Len(old)
      /\ Style.slot = "call" => first <= MaxCalls
      /\ Style.slot = "lane" => first = Len(old)
  BY <1>1, <1>2 DEF Least
<1> HIDE DEF first
<1>6. /\ q.queue = [i \in 1..first |-> i] /\ q.queue \in Seq(Lane)
      /\ Len(q.queue) = first /\ DOMAIN q.queue = 1..first
      /\ \A i \in 1..first : q.queue[i] = i
  BY <1>2, <1>5
<1>7. /\ q.calls = IF Style.slot = "call" THEN first ELSE 0
      /\ q.active = {}
      /\ q.ended = [m \in Lane |-> IF m <= first THEN None ELSE "budget"]
      /\ q = [calls |-> q.calls, active |-> q.active, queue |-> q.queue, ended |-> q.ended]
  OBVIOUS
<1> HIDE DEF q
<1>8. CASE Style.slot = "call"
  <2>1. Cardinality(q.active) \in Nat
    BY <1>7, FS_EmptySet
  <2>2. \A m \in Lane : pool.ended[m] = q.ended[m]
    BY <1>3, <1>4, <1>5, <1>6, <1>8, <2>1, AdmitCalls
  <2>3. \A m \in Lane : Unserved(m) <=> first < m
    BY <1>1, <1>2, <1>5, <1>7, <2>2 DEF Unserved
  <2>4. DustGoesWithout
    BY <1>2, <1>5, <2>3 DEF DustGoesWithout
  <2>5. QED
    BY <1>8, <2>4 DEF InOrder
<1>9. CASE Style.slot = "lane"
  <2>1. \A m \in Lane : q.ended[m] = None
    BY <1>2, <1>5, <1>7, <1>9
  <2>2. q \in PoolType
    <3>1. q.calls \in Nat /\ q.active \subseteq Lane
      BY <1>5, <1>7
    <3>2. q.ended \in [Lane -> Ends \cup {None}]
      BY <1>7 DEF Ends
    <3>3. QED
      BY <1>6, <1>7, <3>1, <3>2 DEF PoolType
  <2>3. PoolOK(q)
    <3>1. IsFiniteSet(q.active) /\ Cardinality(q.active) <= Style.conc
      BY <1>3, <1>7, FS_EmptySet
    <3>2. q.calls <= MaxCalls
      BY <1>1, <1>7, <1>9
    <3>3. Waiting(q) \subseteq Lane
      BY <1>2, <1>5, <1>6, <1>7 DEF Waiting
    <3>4. QED
      BY <1>6, <1>7, <2>1, <3>1, <3>2, <3>3 DEF PoolOK
  <2>4. Suffix(q)
    BY <1>2, <1>5, <1>6, <1>9 DEF Suffix
  <2>5. Goes(q, pool, {})
    BY <1>1, <1>2, <1>4, <2>2, <2>3, <2>4, AdmitGoes
  <2>6. \A m \in Queued(pool) : pages[m] = 0
    BY <1>1, <1>2 DEF Queued, Walked, TypeOK
  <2>7. CASE /\ \A m \in Lane \ {} : pool.ended[m] = q.ended[m]
             /\ Style.slot = "lane" => Suffix(pool) /\ Queued(pool) \subseteq Queued(q)
    <3>1. \A m \in Lane : ~Unserved(m)
      BY <1>1, <2>1, <2>7 DEF Unserved
    <3>2. QED
      BY <1>9, <2>6, <2>7, <3>1 DEF InOrder, DustGoesWithout
  <2>8. CASE /\ Style.slot = "lane" /\ Queued(pool) = {} /\ Suffix(pool)
             /\ \E k \in Nat :
                  /\ \A m \in Lane : k < m => m \in Queued(q) /\ pool.ended[m] = "budget"
                  /\ \A m \in Lane \ {} : m <= k => pool.ended[m] = q.ended[m]
    <3>1. PICK k \in Nat :
            /\ \A m \in Lane : k < m => pool.ended[m] = "budget"
            /\ \A m \in Lane : m <= k => pool.ended[m] = q.ended[m]
      BY <2>8
    <3>2. \A m \in Lane : m \in Nat
      BY <1>2
    <3>3. \A m \in Lane : Unserved(m) <=> k < m
      BY <1>1, <1>2, <2>1, <3>1, <3>2 DEF Unserved
    <3>4. DustGoesWithout
      BY <3>2, <3>3 DEF DustGoesWithout
    <3>5. QED
      BY <2>8, <3>4 DEF InOrder
  <2>9. QED
    BY <2>5, <2>7, <2>8 DEF Goes
<1>10. QED
  BY <1>3, <1>8, <1>9

THEOREM DustHolds == Spec => []DustInv
<1>1. Init => DustInv
  BY InitWalked, InitInOrder DEF DustInv
<1>2. DustInv /\ Walked' /\ [Next]_vars => DustInv'
  <2> SUFFICES ASSUME Walked, InOrder, [Next]_vars PROVE InOrder'
    BY DEF DustInv
  <2>1. /\ adapter \in Adapters /\ pool \in PoolType /\ PoolOK(pool)
        /\ Len(old) \in Nat /\ Lane = 1..Len(old)
        /\ Style.slot = "lane" => Suffix(pool)
    BY Lanes DEF Walked, TypeOK, PoolType, InOrder
  <2>2. ASSUME NEW l \in Lane, PageArrives(l) PROVE InOrder'
    <3>1. PICK cursor \in {TRUE} \cup (IF MayLackCursor(l) THEN {FALSE} ELSE {}) :
            pool' = AfterPage(l, cursor)
      BY <2>2 DEF PageArrives
    <3>2. /\ l \in pool.active /\ adapter' = adapter /\ old' = old
          /\ pages' = [pages EXCEPT ![l] = @ + 1]
      BY <2>2 DEF PageArrives
    <3>3. pages \in [Lane -> Nat]
      BY DEF Walked, TypeOK
    <3>4. pages'[l] # 0 /\ \A m \in Lane \ {l} : pages'[m] = pages[m]
      BY <3>2, <3>3
    <3>5. Goes(pool, pool', {l})
      BY <2>1, <3>1, <3>2, LeaveGoes, ContinueGoes DEF AfterPage, Ends
    <3>6. QED
      BY <3>2, <3>4, <3>5, GoesInOrder
  <2>3. ASSUME NEW l \in Lane, l \in pool.active, NEW why \in Ends \ {"budget"},
               pool' = Leave(pool, l, why), UNCHANGED <<adapter, old, pages>>
        PROVE  InOrder'
    <3>1. Goes(pool, pool', {l}) /\ pool'.ended[l] = why
      BY <2>1, <2>3, LeaveGoes, LeaveLemma
    <3>2. QED
      BY <2>3, <3>1, GoesInOrder
  <2>4. ASSUME NEW l \in Lane, NoRows(l) PROVE InOrder'
    BY <2>3, <2>4 DEF NoRows, Ends
  <2>5. ASSUME NEW l \in Lane, CallFails(l) PROVE InOrder'
    <3>1. CASE Style.fails # "walk"
      BY <2>3, <2>5, <3>1 DEF CallFails, Ends
    <3>2. CASE Style.fails = "walk"
      <4>1. /\ UNCHANGED <<adapter, old, pages>> /\ pool'.queue = <<>>
            /\ pool'.ended = [m \in Lane |-> IF pool.ended[m] = None THEN "failed"
                                             ELSE pool.ended[m]]
        BY <2>5, <3>2 DEF CallFails
      <4>2. Style' = Style /\ Lane' = Lane
        BY <4>1 DEF Style, Lane
      <4>3. \A m \in Lane : Unserved(m)' <=> Unserved(m)
        BY <4>1, BoundsAssumption DEF Unserved
      <4>4. Queued(pool)' = {} /\ Suffix(pool)'
        BY <4>1 DEF Queued, Suffix
      <4>5. DustGoesWithout'
        BY <4>2, <4>3 DEF DustGoesWithout, InOrder
      <4>6. QED
        BY <4>4, <4>5 DEF InOrder
    <3>3. QED
      BY <3>1, <3>2
  <2>6. ASSUME UNCHANGED <<adapter, old, pages, pool>> PROVE InOrder'
    BY <2>6 DEF InOrder, DustGoesWithout, Unserved, Suffix, Queued, Style, Lane
  <2>7. ASSUME NEW l \in Lane, NewTrade(l) PROVE InOrder'
    BY <2>6, <2>7 DEF NewTrade
  <2>8. CASE Return
    BY <2>6, <2>8 DEF Return
  <2>9. CASE UNCHANGED vars
    BY <2>6, <2>9 DEF vars
  <2>10. QED
    BY <2>2, <2>4, <2>5, <2>7, <2>8, <2>9 DEF Next
<1>3. QED
  BY <1>1, <1>2, WalkedHolds, PTL DEF Spec

\* Once a lane ends without a single call no later lane gets one: it is the least
\* valuable assets, or the oldest windows, that the budget leaves out, however
\* the calls of the others interleave and fail.
THEOREM DustTheorem == Spec => []DustGoesWithout
<1>1. DustInv => DustGoesWithout
  BY DEF DustInv, InOrder
<1>2. QED
  BY <1>1, DustHolds, PTL
-----------------------------------------------------------------------------
(* What WalkEnds rests on, besides the fairness of the calls: as long as a *)
(* lane has not ended a call is outstanding, every call takes the walk     *)
(* further, and there are only so many calls.                              *)

\* No lane that has not ended is forgotten.
NoneForgotten(p) == \A l \in Lane : p.ended[l] = None => l \in Waiting(p)

\* Nor is a slot free while a lane waits for one.
SlotsUsed(p) ==
    /\ p.queue # <<>> => Cardinality(p.active) = Style.conc
    /\ NoneForgotten(p)

UsedInv == Walked /\ SlotsUsed(pool)

\* When no call is outstanding no lane waits, and all of them have ended.
WalkGoesOn ==
    pool.active = {} => pool.queue = <<>> /\ \A l \in Lane : pool.ended[l] # None

\* The lanes of a queue without repetitions are as many as their places.
LEMMA AsMany ==
    ASSUME NEW f, NEW n \in Nat, \A i, j \in 1..n : f[i] = f[j] => i = j
    PROVE  /\ IsFiniteSet({f[i] : i \in 1..n})
           /\ Cardinality({f[i] : i \in 1..n}) = n
<1> DEFINE T == {f[i] : i \in 1..n}
           g == [i \in 1..n |-> f[i]]
<1>1. g \in Bijection(1..n, T)
  <2>1. g \in [1..n -> T] /\ \A i \in 1..n : g[i] = f[i]
    OBVIOUS
  <2>2. g \in Injection(1..n, T)
    BY <2>1 DEF Injection, IsInjective
  <2>3. \A t \in T : \E i \in 1..n : g[i] = t
    OBVIOUS
  <2>4. QED
    BY <2>1, <2>2, <2>3 DEF Bijection, Surjection
<1>2. IsFiniteSet(1..n) /\ Cardinality(1..n) = n
  BY FS_Interval
<1> HIDE DEF g, T
<1>3. IsFiniteSet(T) /\ Cardinality(T) = Cardinality(1..n)
  <2>1. ExistsBijection(1..n, T)
    BY <1>1 DEF ExistsBijection
  <2>2. QED
    BY <1>2, <2>1, FS_Bijection
<1>4. QED
  BY <1>2, <1>3 DEF T

\* Whatever slots were free, they are given to the lanes that wait.
LEMMA AdmitUses ==
    ASSUME adapter \in Adapters, NEW p \in PoolType, PoolOK(p), NoneForgotten(p)
    PROVE  SlotsUsed(Admit(p))
<1> DEFINE room == Style.conc - Cardinality(p.active)
           want == Least(room, Len(p.queue))
           n == IF Style.slot = "lane" /\ Style.budget THEN Least(want, Left(p)) ELSE want
           rest == SubSeq(p.queue, n + 1, Len(p.queue))
           spent == {rest[i] : i \in IF n < want THEN DOMAIN rest ELSE {}}
           first == {p.queue[i] : i \in 1..n}
           q == [calls |-> IF Style.slot = "lane" THEN p.calls + n ELSE p.calls,
                 active |-> p.active \cup first,
                 queue |-> IF n < want THEN <<>> ELSE rest,
                 ended |-> [l \in Lane |-> IF l \in spent THEN "budget" ELSE p.ended[l]]]
<1>1. Admit(p) = q
  BY DEF Admit
<1>2. /\ Style.conc \in Nat /\ Style.budget \in BOOLEAN
      /\ Style.slot \in {"call", "lane"} /\ MaxCalls \in Nat /\ "budget" # None
  BY StyleFacts, BoundsAssumption
<1>3. /\ p.calls \in Nat /\ p.active \subseteq Lane /\ p.queue \in Seq(Lane)
      /\ p.ended \in [Lane -> Ends \cup {None}]
  BY DEF PoolType
<1>4. /\ Cardinality(p.active) \in Nat /\ room \in Nat
      /\ Len(p.queue) \in Nat /\ DOMAIN p.queue = 1..Len(p.queue)
  BY <1>2, <1>3, FS_CardinalityType DEF PoolOK
<1>5. /\ want \in Nat /\ want <= room /\ want <= Len(p.queue)
      /\ want = room \/ want = Len(p.queue)
  BY <1>4 DEF Least
<1>6. Style.budget => Left(p) \in Nat
  BY <1>2, <1>3 DEF Left, PoolOK
<1>7. n \in Nat /\ n <= want
  BY <1>5, <1>6 DEF Least
<1> HIDE DEF want, n
<1>8. /\ Len(rest) = Len(p.queue) - n /\ DOMAIN rest = 1..(Len(p.queue) - n)
      /\ \A i \in 1..(Len(p.queue) - n) : rest[i] = p.queue[i + n]
  <2>1. /\ n <= Len(p.queue) /\ \A i \in 1..Len(p.queue) : p.queue[i] \in Lane
    BY <1>3, <1>4, <1>5, <1>7
  <2>2. Len(p.queue) \in Nat /\ n \in Nat
    BY <1>4, <1>7
  <2>3. QED
    BY <2>1, <2>2, RestOfSequence
<1> HIDE DEF rest
<1>9. q.queue # <<>> => Cardinality(q.active) = Style.conc
  <2> SUFFICES ASSUME q.queue # <<>> PROVE Cardinality(p.active \cup first) = Style.conc
    OBVIOUS
  <2>1. ~(n < want) /\ rest # <<>>
    OBVIOUS
  <2>2. n = want
    BY <1>5, <1>7, <2>1
  <2>3. want # Len(p.queue)
    <3>1. rest \in Seq(Lane)
      BY <1>3, <1>4, <1>5, <1>7, RestOfSequence DEF rest
    <3>2. Len(rest) # 0
      BY <2>1, <3>1, EmptySeq
    <3>3. QED
      BY <1>4, <1>8, <2>2, <3>2
  <2>4. n = Style.conc - Cardinality(p.active)
    BY <1>5, <2>2, <2>3 DEF room
  <2>5. /\ IsFiniteSet(first) /\ Cardinality(first) = n
    <3>1. \A i, j \in 1..n : p.queue[i] = p.queue[j] => i = j
      BY <1>4, <1>5, <1>7 DEF PoolOK
    <3>2. QED
      BY <1>7, <3>1, AsMany
  <2>6. p.active \cap first = {}
    BY <1>4, <1>5, <1>7 DEF PoolOK
  <2>7. Cardinality(p.active \cup first) = Cardinality(p.active) + Cardinality(first)
    <3>1. /\ IsFiniteSet(p.active)
          /\ Cardinality(p.active \cup first) =
               Cardinality(p.active) + Cardinality(first) - Cardinality(p.active \cap first)
      BY <2>5, FS_Union DEF PoolOK
    <3>2. Cardinality(p.active \cap first) = 0
      BY <2>6, FS_EmptySet
    <3>3. QED
      BY <1>4, <1>7, <2>5, <3>1, <3>2
  <2>8. QED
    BY <1>2, <1>4, <1>7, <2>4, <2>5, <2>7
<1>10. ASSUME NEW l \in Lane, q.ended[l] = None PROVE l \in Waiting(q)
  <2>1. l \notin spent /\ p.ended[l] = None
    BY <1>2, <1>10
  <2>2. l \in p.active \/ \E i \in DOMAIN p.queue : l = p.queue[i]
    BY <2>1 DEF NoneForgotten, Waiting
  <2>3. CASE l \in p.active
    BY <2>3 DEF Waiting
  <2>4. ASSUME NEW i \in DOMAIN p.queue, l = p.queue[i] PROVE l \in Waiting(q)
    <3>1. CASE i <= n
      <4>1. i \in 1..n
        BY <1>4, <1>7, <3>1
      <4>2. QED
        BY <2>4, <4>1 DEF Waiting
    <3>2. CASE ~(i <= n)
      <4>1. i - n \in 1..(Len(p.queue) - n) /\ (i - n) + n = i
        BY <1>4, <1>7, <3>2
      <4>2. i - n \in DOMAIN rest /\ rest[i - n] = l
        BY <1>8, <2>4, <4>1
      <4>3. ~(n < want)
        BY <2>1, <4>2
      <4>4. q.queue = rest
        BY <4>3
      <4> HIDE DEF q
      <4>5. QED
        BY <4>2, <4>4 DEF Waiting
    <3>3. QED
      BY <3>1, <3>2
  <2>5. QED
    BY <2>2, <2>3, <2>4
<1> HIDE DEF q
<1>11. QED
  BY <1>1, <1>9, <1>10 DEF SlotsUsed, NoneForgotten

\* A slot given back goes on to whoever waits.
LEMMA LeaveUses ==
    ASSUME adapter \in Adapters, NEW p \in PoolType, PoolOK(p), NoneForgotten(p),
           NEW l \in p.active, NEW why \in Ends
    PROVE  SlotsUsed(Leave(p, l, why))
<1> DEFINE q == [[p EXCEPT !.active = @ \ {l}] EXCEPT !.ended[l] = why]
<1>1. /\ p.calls \in Nat /\ p.active \subseteq Lane /\ p.queue \in Seq(Lane)
      /\ p.ended \in [Lane -> Ends \cup {None}] /\ l \in Lane /\ why \in Ends /\ why # None
  BY BoundsAssumption DEF PoolType, Ends
<1>2. q = [calls |-> p.calls, active |-> p.active \ {l}, queue |-> p.queue,
           ended |-> [p.ended EXCEPT ![l] = why]]
  BY WithoutLane
<1>3. Leave(p, l, why) = Admit(q)
  BY DEF Leave
<1>4. q \in PoolType /\ PoolOK(q)
  BY <1>2, WithoutOK
<1> HIDE DEF q
<1>5. NoneForgotten(q)
  <2> SUFFICES ASSUME NEW m \in Lane, q.ended[m] = None PROVE m \in Waiting(q)
    BY DEF NoneForgotten
  <2>1. m # l /\ p.ended[m] = None
    BY <1>1, <1>2
  <2>2. m \in Waiting(p)
    BY <2>1 DEF NoneForgotten
  <2>3. QED
    BY <1>2, <2>1, <2>2 DEF Waiting
<1>6. QED
  BY <1>3, <1>4, <1>5, AdmitUses

\* A lane that goes on waits its turn behind the others.
LEMMA ContinueUses ==
    ASSUME adapter \in Adapters, NEW p \in PoolType, PoolOK(p), SlotsUsed(p), NEW l \in p.active
    PROVE  SlotsUsed(Continue(p, l))
<1>1. /\ p.calls \in Nat /\ p.active \subseteq Lane /\ p.queue \in Seq(Lane)
      /\ p.ended \in [Lane -> Ends \cup {None}] /\ l \in Lane /\ MaxCalls \in Nat
  BY BoundsAssumption DEF PoolType
<1>2. CASE ~MayCall(p)
  BY <1>2, LeaveUses DEF Continue, Ends, SlotsUsed
<1>3. CASE MayCall(p) /\ Style.slot = "lane"
  <2> DEFINE q == [p EXCEPT !.calls = @ + 1]
  <2>1. q = [calls |-> p.calls + 1, active |-> p.active, queue |-> p.queue, ended |-> p.ended]
    BY PoolFields
  <2>2. Continue(p, l) = q
    BY <1>3 DEF Continue
  <2>3. q.active = p.active /\ q.queue = p.queue /\ q.ended = p.ended
    BY <2>1
  <2> HIDE DEF q
  <2>4. QED
    BY <2>2, <2>3 DEF SlotsUsed, NoneForgotten, Waiting
<1>4. CASE MayCall(p) /\ Style.slot # "lane"
  <2>1. PICK q \in PoolType :
          /\ Continue(p, l) = Admit(q) /\ PoolOK(q)
          /\ q.active = p.active \ {l} /\ q.queue = Append(p.queue, l)
          /\ q.ended = p.ended
    BY <1>4, Requeues
  <2>2. NoneForgotten(q)
    <3> SUFFICES ASSUME NEW m \in Lane, q.ended[m] = None PROVE m \in Waiting(q)
      BY DEF NoneForgotten
    <3>1. m \in Waiting(p)
      BY <2>1 DEF SlotsUsed, NoneForgotten
    <3>2. /\ Len(p.queue) \in Nat /\ DOMAIN p.queue = 1..Len(p.queue)
          /\ DOMAIN q.queue = 1..(Len(p.queue) + 1)
          /\ q.queue[Len(p.queue) + 1] = l
          /\ \A i \in 1..Len(p.queue) : q.queue[i] = p.queue[i]
      BY <1>1, <2>1
    <3>3. CASE m = l
      BY <3>2, <3>3 DEF Waiting
    <3>4. CASE m \in p.active \ {l}
      BY <2>1, <3>4 DEF Waiting
    <3>5. ASSUME NEW i \in DOMAIN p.queue, m = p.queue[i] PROVE m \in Waiting(q)
      BY <3>2, <3>5 DEF Waiting
    <3>6. QED
      BY <3>1, <3>3, <3>4, <3>5 DEF Waiting
  <2>3. QED
    BY <2>1, <2>2, AdmitUses
<1>5. QED
  BY <1>2, <1>3, <1>4

\* The pool asyncio.gather starts with: every lane it may ask for is queued.
LEMMA StartPool ==
    ASSUME Init
    PROVE  \E q \in PoolType :
             /\ pool = Admit(q) /\ PoolOK(q) /\ NoneForgotten(q) /\ q.active = {}
             /\ Style.slot # "lane" => \A m \in Waiting(q) : 0 < q.calls
<1>1. Walked /\ adapter \in Adapters /\ MaxCalls \in Nat /\ None # "budget"
  BY InitWalked, BoundsAssumption DEF Init
<1>2. Len(old) \in Nat /\ Lane = 1..Len(old)
  BY <1>1, Lanes
<1>3. Style.slot \in {"call", "lane"} /\ Style.conc \in Nat
  BY <1>1, StyleFacts
<1> DEFINE first == IF Style.slot = "call" THEN Least(MaxCalls, Len(old)) ELSE Len(old)
           q == [calls |-> IF Style.slot = "call" THEN first ELSE 0,
                 active |-> {},
                 queue |-> [i \in 1..first |-> i],
                 ended |-> [m \in Lane |-> IF m <= first THEN None ELSE "budget"]]
<1>4. pool = Admit(q)
  BY DEF Init, Started
<1>5. /\ first \in Nat /\ first <= Len(old)
      /\ Style.slot = "call" => first <= MaxCalls
  BY <1>1, <1>2 DEF Least
<1> HIDE DEF first
<1>6. /\ q.queue = [i \in 1..first |-> i] /\ q.queue \in Seq(Lane)
      /\ DOMAIN q.queue = 1..first
      /\ \A i \in 1..first : q.queue[i] = i
  BY <1>2, <1>5
<1>7. /\ q.calls = IF Style.slot = "call" THEN first ELSE 0
      /\ q.active = {}
      /\ q.ended = [m \in Lane |-> IF m <= first THEN None ELSE "budget"]
      /\ q = [calls |-> q.calls, active |-> q.active, queue |-> q.queue, ended |-> q.ended]
  OBVIOUS
<1> HIDE DEF q
<1>8. q \in PoolType
  <2>1. q.calls \in Nat /\ q.active \subseteq Lane
    BY <1>5, <1>7
  <2>2. q.ended \in [Lane -> Ends \cup {None}]
    BY <1>7 DEF Ends
  <2>3. QED
    BY <1>6, <1>7, <2>1, <2>2 DEF PoolType
<1>9. \A m \in Lane : m \in Waiting(q) <=> m <= first
  BY <1>2, <1>5, <1>6, <1>7 DEF Waiting
<1>10. PoolOK(q)
  <2>1. IsFiniteSet(q.active) /\ Cardinality(q.active) <= Style.conc
    BY <1>3, <1>7, FS_EmptySet
  <2>2. q.calls <= MaxCalls
    BY <1>1, <1>3, <1>5, <1>7
  <2>3. Waiting(q) \subseteq Lane
    BY <1>2, <1>5, <1>6, <1>7 DEF Waiting
  <2>4. \A m \in Waiting(q) : q.ended[m] = None
    BY <1>7, <1>9, <2>3
  <2>5. QED
    BY <1>6, <1>7, <2>1, <2>2, <2>4 DEF PoolOK
<1>11. NoneForgotten(q)
  BY <1>1, <1>7, <1>9 DEF NoneForgotten
<1>12. Style.slot # "lane" => \A m \in Waiting(q) : 0 < q.calls
  <2> SUFFICES ASSUME Style.slot # "lane", NEW m \in Waiting(q) PROVE 0 < q.calls
    OBVIOUS
  <2>1. m \in 1..first
    BY <1>6, <1>7 DEF Waiting
  <2>2. q.calls = first
    BY <1>3, <1>7
  <2>3. QED
    BY <1>5, <2>1, <2>2
<1>13. QED
  BY <1>4, <1>7, <1>8, <1>10, <1>11, <1>12

LEMMA InitUsed == Init => SlotsUsed(pool)
<1> SUFFICES ASSUME Init PROVE SlotsUsed(pool)
  OBVIOUS
<1>1. adapter \in Adapters
  BY DEF Init
<1>2. QED
  BY <1>1, StartPool, AdmitUses

\* No slot is free while a lane waits for one, and no lane is forgotten.
THEOREM UsedHolds == Spec => []UsedInv
<1>1. Init => UsedInv
  BY InitWalked, InitUsed DEF UsedInv
<1>2. UsedInv /\ Walked' /\ [Next]_vars => UsedInv'
  <2> SUFFICES ASSUME Walked, SlotsUsed(pool), [Next]_vars PROVE SlotsUsed(pool)'
    BY DEF UsedInv
  <2>1. /\ adapter \in Adapters /\ pool \in PoolType /\ PoolOK(pool) /\ NoneForgotten(pool)
    BY DEF Walked, TypeOK, PoolType, SlotsUsed
  <2>2. ASSUME adapter' = adapter, old' = old, SlotsUsed(pool') PROVE SlotsUsed(pool)'
    <3>1. Style' = Style /\ Lane' = Lane
      BY <2>2 DEF Style, Lane
    <3>2. QED
      BY <2>2, <3>1 DEF SlotsUsed, NoneForgotten, Waiting
  <2>3. ASSUME NEW l \in Lane, PageArrives(l) PROVE SlotsUsed(pool)'
    <3>1. PICK cursor \in {TRUE} \cup (IF MayLackCursor(l) THEN {FALSE} ELSE {}) :
            pool' = AfterPage(l, cursor)
      BY <2>3 DEF PageArrives
    <3>2. l \in pool.active /\ adapter' = adapter /\ old' = old
      BY <2>3 DEF PageArrives
    <3>3. SlotsUsed(AfterPage(l, cursor))
      BY <2>1, <3>2, LeaveUses, ContinueUses DEF AfterPage, Ends
    <3>4. QED
      BY <2>2, <3>1, <3>2, <3>3
  <2>4. ASSUME NEW l \in Lane, NoRows(l) PROVE SlotsUsed(pool)'
    <3>1. l \in pool.active /\ adapter' = adapter /\ old' = old /\ pool' = Leave(pool, l, "cut")
      BY <2>4 DEF NoRows
    <3>2. "cut" \in Ends
      BY DEF Ends
    <3>3. QED
      BY <2>1, <2>2, <3>1, <3>2, LeaveUses
  <2>5. ASSUME NEW l \in Lane, CallFails(l) PROVE SlotsUsed(pool)'
    <3>1. l \in pool.active /\ adapter' = adapter /\ old' = old
      BY <2>5 DEF CallFails
    <3>2. CASE Style.fails # "walk"
      <4>1. pool' = Leave(pool, l, "failed") /\ "failed" \in Ends
        BY <2>5, <3>2 DEF CallFails, Ends
      <4>2. QED
        BY <2>1, <2>2, <3>1, <4>1, LeaveUses
    <3>3. CASE Style.fails = "walk"
      <4>1. /\ pool'.queue = <<>>
            /\ pool'.ended = [m \in Lane |-> IF pool.ended[m] = None THEN "failed"
                                             ELSE pool.ended[m]]
        BY <2>5, <3>3 DEF CallFails
      <4>2. "failed" # None
        BY BoundsAssumption
      <4>3. SlotsUsed(pool')
        BY <4>1, <4>2 DEF SlotsUsed, NoneForgotten
      <4>4. QED
        BY <2>2, <3>1, <4>3
    <3>4. QED
      BY <3>2, <3>3
  <2>6. ASSUME UNCHANGED <<adapter, old, pool>> PROVE SlotsUsed(pool)'
    BY <2>2, <2>6
  <2>7. ASSUME NEW l \in Lane, NewTrade(l) PROVE SlotsUsed(pool)'
    BY <2>6, <2>7 DEF NewTrade
  <2>8. CASE Return
    BY <2>6, <2>8 DEF Return
  <2>9. CASE UNCHANGED vars
    BY <2>6, <2>9 DEF vars
  <2>10. QED
    BY <2>3, <2>4, <2>5, <2>7, <2>8, <2>9 DEF Next
<1>3. QED
  BY <1>1, <1>2, WalkedHolds, PTL DEF Spec

\* As long as a lane has not ended, a call is outstanding, and it is the calls
\* that fairness brings to an end: nobody waits for a slot nobody gives back,
\* whatever the number of lanes and slots and whichever calls fail.
THEOREM GoesOnTheorem == Spec => []WalkGoesOn
<1>1. UsedInv => WalkGoesOn
  <2> SUFFICES ASSUME UsedInv, pool.active = {}
               PROVE  pool.queue = <<>> /\ \A l \in Lane : pool.ended[l] # None
    BY DEF WalkGoesOn
  <2>1. Cardinality(pool.active) = 0 /\ Style.conc # 0
    BY FS_EmptySet, StyleFacts DEF UsedInv, Walked, TypeOK
  <2>2. pool.queue = <<>> /\ DOMAIN pool.queue = {}
    BY <2>1 DEF UsedInv, SlotsUsed
  <2>3. QED
    BY <2>2 DEF UsedInv, SlotsUsed, NoneForgotten, Waiting
<1>2. QED
  BY <1>1, UsedHolds, PTL

\* An ended lane stays as it ended and reads nothing more; and a call that ends
\* takes its lane a page further or is its last.
Advances ==
    \A l \in Lane :
        /\ pages[l] <= pages'[l]
        /\ pool.ended[l] # None => pool'.ended[l] = pool.ended[l] /\ pages'[l] = pages[l]
        /\ CallEnds(l) => pages[l] < pages'[l] \/ pool'.ended[l] # None

\* What a page does to the lanes.
LEMMA PageAdvances ==
    ASSUME Walked, NEW l \in Lane, PageArrives(l)
    PROVE  /\ pages[l] < pages'[l] /\ pool.ended[l] = None
           /\ \A m \in Lane \ {l} :
                /\ pages'[m] = pages[m]
                /\ pool.ended[m] # None => pool'.ended[m] = pool.ended[m]
<1>1. PICK cursor \in {TRUE} \cup (IF MayLackCursor(l) THEN {FALSE} ELSE {}) :
        pool' = AfterPage(l, cursor)
  BY DEF PageArrives
<1>2. l \in pool.active /\ pages' = [pages EXCEPT ![l] = @ + 1] /\ pages \in [Lane -> Nat]
  BY DEF PageArrives, Walked, TypeOK
<1>3. \A m \in Lane \ {l} :
        \/ pool'.ended[m] = pool.ended[m]
        \/ pool.ended[m] = None /\ pool'.ended[m] = "budget"
  BY <1>1, <1>2, AfterPageLemma
<1>4. pool.ended[l] = None
  BY <1>2 DEF Walked, PoolOK, Waiting
<1>5. QED
  BY <1>2, <1>3, <1>4

\* What any other end of a call does to them.
LEMMA EndAdvances ==
    ASSUME Walked, NEW l \in Lane, NoRows(l) \/ CallFails(l)
    PROVE  /\ pages' = pages /\ pool'.ended[l] # None
           /\ \A m \in Lane : pool.ended[m] # None => pool'.ended[m] = pool.ended[m]
<1>1. /\ adapter \in Adapters /\ pool \in PoolType /\ PoolOK(pool) /\ None \notin Ends
      /\ l \in pool.active /\ pages' = pages
  BY BoundsAssumption DEF Walked, TypeOK, PoolType, Ends, NoRows, CallFails
<1>2. pool.ended[l] = None
  BY <1>1 DEF PoolOK, Waiting
<1>3. ASSUME NEW why \in Ends, pool' = Leave(pool, l, why)
      PROVE  /\ pool'.ended[l] # None
             /\ \A m \in Lane : pool.ended[m] # None => pool'.ended[m] = pool.ended[m]
  <2>1. /\ pool'.ended[l] = why
        /\ \A m \in Lane \ {l} :
             \/ pool'.ended[m] = pool.ended[m]
             \/ pool.ended[m] = None /\ pool'.ended[m] = "budget"
    BY <1>1, <1>3, LeaveLemma
  <2>2. QED
    BY <1>1, <1>2, <2>1
<1>4. CASE NoRows(l)
  BY <1>1, <1>3, <1>4 DEF NoRows, Ends
<1>5. CASE CallFails(l) /\ Style.fails # "walk"
  BY <1>1, <1>3, <1>5 DEF CallFails, Ends
<1>6. CASE CallFails(l) /\ Style.fails = "walk"
  <2>1. /\ pool'.ended = [m \in Lane |-> IF pool.ended[m] = None THEN "failed"
                                         ELSE pool.ended[m]]
        /\ "failed" # None
    BY <1>6, BoundsAssumption DEF CallFails
  <2>2. QED
    BY <1>1, <2>1
<1>7. QED
  BY <1>4, <1>5, <1>6

\* The walk only goes on: whatever happens no lane takes a step back, and none
\* of the calls is in vain.
THEOREM AdvancesTheorem == Spec => [][Advances]_vars
<1>1. Walked /\ [Next]_vars => [Advances]_vars
  <2> SUFFICES ASSUME Walked, Next, NEW l \in Lane
               PROVE  /\ pages[l] <= pages'[l]
                      /\ pool.ended[l] # None =>
                           pool'.ended[l] = pool.ended[l] /\ pages'[l] = pages[l]
                      /\ CallEnds(l) => pages[l] < pages'[l] \/ pool'.ended[l] # None
    BY DEF Advances
  <2>1. \A m \in Lane : pages[m] \in Nat
    BY DEF Walked, TypeOK
  <2>2. CallEnds(l) => pages[l] < pages'[l] \/ pool'.ended[l] # None
    BY PageAdvances, EndAdvances DEF CallEnds
  <2>3. ASSUME NEW m \in Lane, PageArrives(m)
        PROVE  /\ pages[l] <= pages'[l]
               /\ pool.ended[l] # None =>
                    pool'.ended[l] = pool.ended[l] /\ pages'[l] = pages[l]
    <3>1. CASE l = m
      <4>1. pages[l] < pages'[l] /\ pool.ended[l] = None
        BY <2>3, <3>1, PageAdvances
      <4>2. pages'[l] = pages[l] + 1
        BY <2>3, <3>1 DEF PageArrives, Walked, TypeOK
      <4>3. QED
        BY <2>1, <4>1, <4>2
    <3>2. CASE l # m
      BY <2>1, <2>3, <3>2, PageAdvances
    <3>3. QED
      BY <3>1, <3>2
  <2>4. ASSUME NEW m \in Lane, NoRows(m) \/ CallFails(m)
        PROVE  /\ pages[l] <= pages'[l]
               /\ pool.ended[l] # None =>
                    pool'.ended[l] = pool.ended[l] /\ pages'[l] = pages[l]
    BY <2>1, <2>4, EndAdvances
  <2>5. ASSUME pages' = pages, pool' = pool
        PROVE  /\ pages[l] <= pages'[l]
               /\ pool.ended[l] # None =>
                    pool'.ended[l] = pool.ended[l] /\ pages'[l] = pages[l]
    BY <2>1, <2>5
  <2>6. QED
    BY <2>2, <2>3, <2>4, <2>5 DEF Next, NewTrade, Return
<1>2. QED
  BY <1>1, WalkedHolds, PTL DEF Spec

-----------------------------------------------------------------------------
(* No lane reads more pages than there are calls.                          *)

\* The lanes whose next page is already counted among the calls.
Paid(p) == IF Style.slot = "lane" THEN p.active ELSE Waiting(p)

\* Every page a lane has read, and the next one of those in paid, is a call.
Claims(calls, paid, read) ==
    Style.budget =>
        \A l \in Lane : read[l] <= calls /\ (l \in paid => read[l] < calls)

ClaimedInv == DustInv /\ Claims(pool.calls, Paid(pool), pages)

PagesBounded ==
    \A l \in Lane : pages[l] <= IF Style.budget THEN MaxCalls ELSE MaxPages

\* A lane that gets a slot has its first call counted on entry, or had it
\* counted when it queued.
LEMMA AdmitClaims ==
    ASSUME adapter \in Adapters, NEW p \in PoolType, PoolOK(p),
           NEW read \in [Lane -> Nat], Claims(p.calls, Paid(p), read),
           Style.slot = "lane" => \A m \in Queued(p) : read[m] = 0
    PROVE  Claims(Admit(p).calls, Paid(Admit(p)), read)
<1> SUFFICES ASSUME Style.budget, NEW l \in Lane
             PROVE  /\ read[l] <= Admit(p).calls
                    /\ l \in Paid(Admit(p)) => read[l] < Admit(p).calls
  BY DEF Claims
<1> DEFINE room == Style.conc - Cardinality(p.active)
           want == Least(room, Len(p.queue))
           n == IF Style.slot = "lane" /\ Style.budget THEN Least(want, Left(p)) ELSE want
<1>1. /\ Admit(p).calls = IF Style.slot = "lane" THEN p.calls + n ELSE p.calls
      /\ Admit(p).active = p.active \cup {p.queue[i] : i \in 1..n}
  BY DEF Admit
<1>2. /\ p.calls \in Nat /\ read[l] \in Nat /\ p.queue \in Seq(Lane)
      /\ read[l] <= p.calls /\ (l \in Paid(p) => read[l] < p.calls)
  BY DEF PoolType, Claims
<1>3. CASE Style.slot = "lane"
  <2>1. n \in Nat /\ n <= Len(p.queue) /\ Len(p.queue) \in Nat
    <3>1. /\ Style.conc \in Nat /\ MaxCalls \in Nat /\ Len(p.queue) \in Nat
      BY <1>2, StyleFacts, BoundsAssumption
    <3>2. room \in Nat
      BY <3>1, FS_CardinalityType DEF PoolOK
    <3>3. want \in Nat /\ want <= Len(p.queue)
      BY <3>1, <3>2 DEF Least
    <3>4. Left(p) \in Nat
      BY <1>2, <3>1 DEF Left, PoolOK
    <3>5. QED
      BY <3>1, <3>3, <3>4 DEF Least
  <2> HIDE DEF n
  <2>2. read[l] <= p.calls + n
    BY <1>2, <2>1
  <2>3. CASE l \in p.active
    BY <1>1, <1>2, <1>3, <2>1, <2>3 DEF Paid
  <2>4. ASSUME NEW i \in 1..n, l = p.queue[i] PROVE read[l] < p.calls + n
    <3>1. l \in Queued(p)
      BY <1>2, <2>1, <2>4 DEF Queued
    <3>2. read[l] = 0
      BY <1>3, <3>1
    <3>3. QED
      BY <1>2, <2>1, <3>2
  <2>5. QED
    BY <1>1, <1>3, <2>2, <2>3, <2>4 DEF Paid
<1>4. CASE Style.slot # "lane"
  <2>1. Waiting(Admit(p)) \subseteq Waiting(p)
    BY AdmitLemma
  <2>2. QED
    BY <1>1, <1>2, <1>4, <2>1 DEF Paid
<1>5. QED
  BY <1>3, <1>4

LEMMA LeaveClaims ==
    ASSUME adapter \in Adapters, NEW p \in PoolType, PoolOK(p),
           NEW l \in p.active, NEW why \in Ends,
           NEW read \in [Lane -> Nat], Claims(p.calls, Paid(p) \ {l}, read),
           Style.slot = "lane" => \A m \in Queued(p) : read[m] = 0
    PROVE  Claims(Leave(p, l, why).calls, Paid(Leave(p, l, why)), read)
<1> DEFINE q == [[p EXCEPT !.active = @ \ {l}] EXCEPT !.ended[l] = why]
<1>1. p.ended \in [Lane -> Ends \cup {None}] /\ l \in Lane
  BY DEF PoolType
<1>2. q = [calls |-> p.calls, active |-> p.active \ {l}, queue |-> p.queue,
           ended |-> [p.ended EXCEPT ![l] = why]]
  BY WithoutLane
<1>3. Leave(p, l, why) = Admit(q)
  BY DEF Leave
<1>4. q \in PoolType /\ PoolOK(q)
  BY <1>2, WithoutOK
<1>5. q.calls = p.calls /\ q.active = p.active \ {l} /\ q.queue = p.queue
  BY <1>2
<1> HIDE DEF q
<1>6. Paid(q) \subseteq Paid(p) \ {l} /\ Queued(q) = Queued(p)
  BY <1>5 DEF Paid, Waiting, Queued, PoolOK
<1>7. Claims(q.calls, Paid(q), read)
  BY <1>5, <1>6 DEF Claims
<1>8. QED
  BY <1>3, <1>4, <1>6, <1>7, AdmitClaims

LEMMA ContinueClaims ==
    ASSUME adapter \in Adapters, NEW p \in PoolType, PoolOK(p), NEW l \in p.active,
           NEW read \in [Lane -> Nat], Claims(p.calls, Paid(p) \ {l}, read),
           Style.slot = "lane" => \A m \in Queued(p) : read[m] = 0
    PROVE  Claims(Continue(p, l).calls, Paid(Continue(p, l)), read)
<1>1. p.calls \in Nat /\ \A m \in Lane : read[m] \in Nat
  BY DEF PoolType
<1>2. \A S : Claims(p.calls + 1, S, read)
  BY <1>1 DEF Claims
<1>3. CASE ~MayCall(p)
  BY <1>3, LeaveClaims DEF Continue, Ends
<1>4. CASE MayCall(p) /\ Style.slot = "lane"
  <2>1. Continue(p, l).calls = p.calls + 1
    BY <1>4, PoolFields DEF Continue
  <2>2. QED
    BY <1>2, <2>1
<1>5. CASE MayCall(p) /\ Style.slot # "lane"
  <2>1. PICK q \in PoolType :
          /\ Continue(p, l) = Admit(q) /\ PoolOK(q) /\ q.calls = p.calls + 1
    BY <1>5, Requeues
  <2>2. Claims(q.calls, Paid(q), read)
    BY <1>2, <2>1
  <2>3. QED
    BY <1>5, <2>1, <2>2, AdmitClaims
<1>6. QED
  BY <1>3, <1>4, <1>5

LEMMA InitClaimed == Init => Claims(pool.calls, Paid(pool), pages)
<1> SUFFICES ASSUME Init PROVE Claims(pool.calls, Paid(pool), pages)
  OBVIOUS
<1>1. PICK q \in PoolType :
        /\ pool = Admit(q) /\ PoolOK(q) /\ q.active = {}
        /\ Style.slot # "lane" => \A m \in Waiting(q) : 0 < q.calls
  BY StartPool
<1>2. /\ adapter \in Adapters /\ pages \in [Lane -> Nat] /\ pages = [m \in Lane |-> 0]
      /\ Queued(q) \subseteq Lane /\ q.calls \in Nat
  BY InitWalked DEF Init, Walked, TypeOK, PoolType, Queued
<1>3. \A m \in Lane : pages[m] = 0
  BY <1>2
<1>4. Claims(q.calls, Paid(q), pages)
  BY <1>1, <1>2, <1>3 DEF Claims, Paid
<1>5. QED
  BY <1>1, <1>2, <1>3, <1>4, AdmitClaims

\* Every page read is a call, and so is the next one of a lane with a slot.
THEOREM ClaimedHolds == Spec => []ClaimedInv
<1>1. Init => ClaimedInv
  BY InitWalked, InitInOrder, InitClaimed DEF ClaimedInv, DustInv
<1>2. ClaimedInv /\ DustInv' /\ [Next]_vars => ClaimedInv'
  <2> SUFFICES ASSUME DustInv, Claims(pool.calls, Paid(pool), pages), [Next]_vars
               PROVE  Claims(pool.calls, Paid(pool), pages)'
    BY DEF ClaimedInv
  <2>1. /\ adapter \in Adapters /\ pool \in PoolType /\ PoolOK(pool)
        /\ pages \in [Lane -> Nat]
        /\ Style.slot = "lane" => \A m \in Queued(pool) : pages[m] = 0
    BY DEF DustInv, Walked, TypeOK, PoolType, InOrder
  <2>2. ASSUME adapter' = adapter, old' = old, Claims(pool'.calls, Paid(pool'), pages')
        PROVE  Claims(pool.calls, Paid(pool), pages)'
    <3>1. Style' = Style /\ Lane' = Lane
      BY <2>2 DEF Style, Lane
    <3>2. QED
      BY <2>2, <3>1 DEF Claims, Paid, Waiting
  <2>3. ASSUME NEW l \in Lane, PageArrives(l) PROVE Claims(pool.calls, Paid(pool), pages)'
    <3>1. PICK cursor \in {TRUE} \cup (IF MayLackCursor(l) THEN {FALSE} ELSE {}) :
            pool' = AfterPage(l, cursor)
      BY <2>3 DEF PageArrives
    <3>2. /\ l \in pool.active /\ adapter' = adapter /\ old' = old
          /\ pages' = [pages EXCEPT ![l] = @ + 1]
      BY <2>3 DEF PageArrives
    <3>3. pages' \in [Lane -> Nat]
      BY <2>1, <3>2
    <3>4. pages'[l] = pages[l] + 1 /\ \A m \in Lane \ {l} : pages'[m] = pages[m]
      BY <2>1, <3>2
    <3>5. l \in Paid(pool) /\ l \notin Queued(pool) /\ pool.calls \in Nat
      BY <2>1, <3>2 DEF Paid, Waiting, Queued, PoolOK, PoolType
    <3>6. Claims(pool.calls, Paid(pool) \ {l}, pages')
      BY <2>1, <3>4, <3>5 DEF Claims
    <3>7. Style.slot = "lane" => \A m \in Queued(pool) : pages'[m] = 0
      BY <2>1, <3>4, <3>5 DEF Queued, PoolType
    <3>8. Claims(AfterPage(l, cursor).calls, Paid(AfterPage(l, cursor)), pages')
      BY <2>1, <3>2, <3>3, <3>6, <3>7, LeaveClaims, ContinueClaims DEF AfterPage, Ends
    <3>9. QED
      BY <2>2, <3>1, <3>2, <3>8
  <2>4. ASSUME NEW l \in Lane, l \in pool.active, NEW why \in Ends,
               pool' = Leave(pool, l, why), UNCHANGED <<adapter, old, pages>>
        PROVE  Claims(pool.calls, Paid(pool), pages)'
    <3>1. Claims(pool.calls, Paid(pool) \ {l}, pages)
      BY DEF Claims
    <3>2. QED
      BY <2>1, <2>2, <2>4, <3>1, LeaveClaims
  <2>5. ASSUME NEW l \in Lane, NoRows(l) PROVE Claims(pool.calls, Paid(pool), pages)'
    BY <2>4, <2>5 DEF NoRows, Ends
  <2>6. ASSUME NEW l \in Lane, CallFails(l) PROVE Claims(pool.calls, Paid(pool), pages)'
    <3>1. CASE Style.fails # "walk"
      BY <2>4, <2>6, <3>1 DEF CallFails, Ends
    <3>2. CASE Style.fails = "walk"
      <4>1. /\ UNCHANGED <<adapter, old, pages>>
            /\ pool'.calls = pool.calls /\ pool'.active = {} /\ pool'.queue = <<>>
        BY <2>6, <3>2 DEF CallFails
      <4>2. Paid(pool') = {}
        BY <4>1 DEF Paid, Waiting
      <4>3. Claims(pool'.calls, Paid(pool'), pages')
        BY <4>1, <4>2 DEF Claims
      <4>4. QED
        BY <2>2, <4>1, <4>3
    <3>3. QED
      BY <3>1, <3>2
  <2>7. ASSUME UNCHANGED <<adapter, old, pages, pool>>
        PROVE  Claims(pool.calls, Paid(pool), pages)'
    BY <2>2, <2>7
  <2>8. ASSUME NEW l \in Lane, NewTrade(l) PROVE Claims(pool.calls, Paid(pool), pages)'
    BY <2>7, <2>8 DEF NewTrade
  <2>9. CASE Return
    BY <2>7, <2>9 DEF Return
  <2>10. CASE UNCHANGED vars
    BY <2>7, <2>10 DEF vars
  <2>11. QED
    BY <2>3, <2>5, <2>6, <2>8, <2>9, <2>10 DEF Next
<1>3. QED
  BY <1>1, <1>2, DustHolds, PTL DEF Spec

\* No lane reads more pages than the budget has calls or, where there is no
\* budget, than the cap allows: with AdvancesTheorem, every walk is a walk of
\* finitely many steps, however long the histories and however many the lanes.
THEOREM PagesTheorem == Spec => []PagesBounded
<1>1. ClaimedInv => PagesBounded
  <2> SUFFICES ASSUME ClaimedInv, NEW l \in Lane
               PROVE  pages[l] <= IF Style.budget THEN MaxCalls ELSE MaxPages
    BY DEF PagesBounded
  <2>1. /\ adapter \in Adapters /\ pages[l] \in Nat /\ pool.calls \in Nat
        /\ MaxCalls \in Nat /\ PoolOK(pool) /\ LaneOK(l)
    BY BoundsAssumption DEF ClaimedInv, DustInv, Walked, TypeOK
  <2>2. CASE Style.budget
    BY <2>1, <2>2 DEF ClaimedInv, Claims, PoolOK
  <2>3. CASE ~Style.budget
    BY <2>1, <2>3, StyleFacts DEF LaneOK
  <2>4. QED
    BY <2>2, <2>3
<1>2. QED
  BY <1>1, ClaimedHolds, PTL
=============================================================================

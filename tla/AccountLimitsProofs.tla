------------------------ MODULE AccountLimitsProofs ------------------------
(***************************************************************************)
(* Theorems about AccountLimits, for every tier, every number of requests  *)
(* and of handlers at once.                                                *)
(***************************************************************************)
EXTENDS AccountLimits, FiniteSetTheorems, TLAPS

\* No more exchanges than keys or handlers name them.
LEMMA FewExchanges ==
    ASSUME NEW S, IsFiniteSet(S), NEW f
    PROVE  LET T == {f[x].exchange : x \in S}
           IN  IsFiniteSet(T) /\ Cardinality(T) <= Cardinality(S)
<1> DEFINE T == {f[x].exchange : x \in S}
           g == [x \in S |-> f[x].exchange]
<1>1. g \in Surjection(S, T)
  BY DEF Surjection
<1>2. QED
  BY <1>1, FS_Surjection

\* A subset is within the bound of the whole.
LEMMA SubsetWithin ==
    ASSUME NEW S, NEW T, IsFiniteSet(T), S \subseteq T, NEW m \in Int, Cardinality(T) <= m
    PROVE  Cardinality(S) <= m
<1>1. IsFiniteSet(S) /\ Cardinality(S) <= Cardinality(T)
  BY FS_Subset
<1>2. Cardinality(S) \in Nat /\ Cardinality(T) \in Nat
  BY <1>1, FS_CardinalityType
<1>3. QED
  BY <1>1, <1>2

\* The union of two finite sets within their bounds.
LEMMA UnionWithin ==
    ASSUME NEW S, IsFiniteSet(S), NEW T, IsFiniteSet(T),
           NEW m \in Int, NEW n \in Int, Cardinality(S) <= m, Cardinality(T) <= n
    PROVE  IsFiniteSet(S \cup T) /\ Cardinality(S \cup T) <= m + n
<1>1. IsFiniteSet(S \cup T)
  BY FS_Union
<1>2. Cardinality(S \cup T) = Cardinality(S) + Cardinality(T) - Cardinality(S \cap T)
  BY FS_Union
<1>3. IsFiniteSet(S \cap T)
  BY FS_Subset
<1>4. /\ Cardinality(S) \in Nat /\ Cardinality(T) \in Nat
      /\ Cardinality(S \cap T) \in Nat /\ Cardinality(S \cup T) \in Nat
  BY <1>1, <1>3, FS_CardinalityType
<1>5. QED
  BY <1>1, <1>2, <1>4

\* Everything the invariant counts is finite, in any state.
LEMMA Finite ==
    /\ IsFiniteSet(InFlight) /\ IsFiniteSet(Profiles) /\ IsFiniteSet(Creating)
    /\ IsFiniteSet(ProfileClaims)
    /\ \A p : /\ IsFiniteSet(KeysOf(p)) /\ IsFiniteSet(Adding(p))
              /\ IsFiniteSet(ExchangesOf(p)) /\ IsFiniteSet(ExchangeClaims(p))
    /\ \A n : IsFiniteSet(Named(n)) /\ IsFiniteSet(Taking(n)) /\ IsFiniteSet(NameClaims(n))
<1>1. ASSUME NEW S \in SUBSET Req PROVE IsFiniteSet(S)
  BY LimitsAssumption, FS_Subset
<1>2. /\ IsFiniteSet(InFlight) /\ IsFiniteSet(Profiles) /\ IsFiniteSet(Creating)
      /\ IsFiniteSet(ProfileClaims)
  BY <1>1 DEF InFlight, Profiles, Creating, ProfileClaims
<1>3. ASSUME NEW p
      PROVE  /\ IsFiniteSet(KeysOf(p)) /\ IsFiniteSet(Adding(p))
             /\ IsFiniteSet(ExchangesOf(p)) /\ IsFiniteSet(ExchangeClaims(p))
  <2>1. IsFiniteSet(KeysOf(p)) /\ IsFiniteSet(Adding(p))
    BY <1>1 DEF KeysOf, Adding
  <2>2. IsFiniteSet(ExchangesOf(p)) /\ IsFiniteSet({job[r].exchange : r \in Adding(p)})
    BY <2>1, FewExchanges DEF ExchangesOf
  <2>3. QED
    BY <2>1, <2>2, FS_Union DEF ExchangeClaims
<1>4. ASSUME NEW n
      PROVE  IsFiniteSet(Named(n)) /\ IsFiniteSet(Taking(n)) /\ IsFiniteSet(NameClaims(n))
  BY <1>1 DEF Named, Taking, NameClaims
<1>5. QED
  BY <1>2, <1>3, <1>4

\* The initial state satisfies the inductive invariant: nothing is claimed.
LEMMA InitClaims == Init => Claims
<1> SUFFICES ASSUME Init PROVE Claims
  OBVIOUS
<1>1. TypeOK /\ AskedInv
  BY DEF Init, TypeOK, AskedInv, Running, Over
<1>2. /\ InFlight = {} /\ ProfileClaims = {}
      /\ \A p \in Req : KeysOf(p) = {} /\ Adding(p) = {}
      /\ \A n \in Name : NameClaims(n) = {}
  BY NoneIsNothing DEF Init, InFlight, Running, ProfileClaims, Profiles, Creating,
                       KeysOf, Adding, NameClaims, Named, Taking
<1>3. \A p \in Req : ExchangeClaims(p) = {}
  BY <1>2 DEF ExchangeClaims, ExchangesOf
<1>4. /\ Cardinality({}) = 0 /\ 0 <= MaxInFlight
      /\ MaxProfiles # Unlimited => 0 <= MaxProfiles + MaxInFlight - 1
      /\ MaxExchanges # Unlimited => 0 <= MaxExchanges + MaxInFlight - 1
  BY FS_EmptySet, LimitsAssumption
<1>5. InFlightInv /\ ProfilesInv /\ ExchangesInv /\ NamesInv
  <2>1. /\ Cardinality(InFlight) = 0 /\ Cardinality(ProfileClaims) = 0
        /\ \A p \in Req : Cardinality(ExchangeClaims(p)) = 0
        /\ \A n \in Name : Cardinality(NameClaims(n)) = 0
    BY <1>2, <1>3, <1>4, Zenon
  <2>2. QED
    BY <1>4, <2>1 DEF InFlightInv, ProfilesInv, ExchangesInv, NamesInv
<1>6. QED
  BY <1>1, <1>5 DEF Claims

\* A step by which nobody claims anything new keeps the counted invariants.
LEMMA NothingNew ==
    ASSUME Claims
    PROVE  /\ InFlight' \subseteq InFlight => InFlightInv'
           /\ ProfileClaims' \subseteq ProfileClaims => ProfilesInv'
           /\ (\A p \in Req : ExchangeClaims(p)' \subseteq ExchangeClaims(p)) => ExchangesInv'
           /\ (\A n \in Name : NameClaims(n)' \subseteq NameClaims(n)) => NamesInv'
<1> USE Finite
<1>1. /\ MaxInFlight \in Int
      /\ MaxProfiles + MaxInFlight - 1 \in Int
      /\ MaxExchanges + MaxInFlight - 1 \in Int
  BY LimitsAssumption DEF Unlimited
<1>2. QED
  BY <1>1, SubsetWithin DEF Claims, InFlightInv, ProfilesInv, ExchangesInv, NamesInv

\* A limit that is checked leaves room for every handler there can be.
LEMMA RoomForHandlers ==
    ASSUME NEW S, IsFiniteSet(S), NEW T, IsFiniteSet(T), NEW limit \in Nat \cup {Unlimited},
           Below(Cardinality(S), limit), limit # Unlimited, Cardinality(T) <= MaxInFlight
    PROVE  Cardinality(S \cup T) <= limit + MaxInFlight - 1
<1>1. Cardinality(S) \in Nat
  BY FS_CardinalityType
<1>2. Cardinality(S) <= limit - 1 /\ limit - 1 \in Int /\ MaxInFlight \in Int
  BY <1>1, LimitsAssumption DEF Below, Unlimited
<1>3. Cardinality(S \cup T) <= (limit - 1) + MaxInFlight
  BY <1>2, UnionWithin
<1>4. QED
  BY <1>2, <1>3, Finite, LimitsAssumption DEF Unlimited

\* A request begins: one more handler, and for a profile one more claim, whose
\* count has just been looked at.
LEMMA BeginKeeps ==
    ASSUME Claims, NEW r \in Req, Begins(r)
    PROVE  Claims'
<1> USE Finite
<1>1. InFlight' \subseteq InFlight \cup {r} /\ pc[r] = "idle"
  BY DEF Begins, BeginCreate, BeginAddKey, Begin, Goto, InFlight, Claims, TypeOK
<1>2. InFlightInv'
  <2>1. Cardinality(InFlight) < MaxInFlight
    BY DEF Begins, BeginCreate, BeginAddKey, Begin
  <2>2. Cardinality(InFlight \cup {r}) <= Cardinality(InFlight) + 1
    <3>1. Cardinality(InFlight) \in Nat
      BY FS_CardinalityType
    <3>2. Cardinality(InFlight \cup {r}) \in {Cardinality(InFlight), Cardinality(InFlight) + 1}
      BY FS_AddElement, Zenon
    <3>3. QED
      BY <3>1, <3>2
  <2>3. IsFiniteSet(InFlight \cup {r})
    BY FS_AddElement
  <2>4. Cardinality(InFlight') <= Cardinality(InFlight \cup {r})
    BY <1>1, <2>3, FS_Subset
  <2>5. IsFiniteSet(InFlight')
    BY <1>1, <2>3, FS_Subset
  <2>6. /\ Cardinality(InFlight) \in Nat /\ Cardinality(InFlight \cup {r}) \in Nat
        /\ Cardinality(InFlight') \in Nat
    BY <2>3, <2>5, FS_CardinalityType
  <2>7. QED
    BY <2>1, <2>2, <2>4, <2>6, LimitsAssumption DEF InFlightInv
<1>3. TypeOK' /\ AskedInv'
  BY <1>1 DEF Begins, BeginCreate, BeginAddKey, Begin, Goto, Claims, TypeOK, AskedInv,
              Running, Over
<1>4. /\ Profiles' = Profiles
      /\ \A p \in Req : ExchangeClaims(p)' \subseteq ExchangeClaims(p)
      /\ \A n \in Name : NameClaims(n)' \subseteq NameClaims(n)
  <2>1. /\ profile' = profile /\ key' = key
        /\ pc'[r] \in {"name", "refused", "exchanges"}
        /\ \A q \in Req \ {r} : pc'[q] = pc[q] /\ job'[q] = job[q]
    BY DEF Begins, BeginCreate, BeginAddKey, Begin, Goto, Claims, TypeOK
  <2>2. \A p \in Req : /\ KeysOf(p)' = KeysOf(p)
                       /\ Adding(p)' = Adding(p)
                       /\ \A q \in Adding(p) : job'[q].exchange = job[q].exchange
    BY <1>1, <2>1 DEF KeysOf, Adding
  <2>3. \A p \in Req : ExchangesOf(p)' = ExchangesOf(p)
    BY <2>1, <2>2 DEF ExchangesOf
  <2>4. \A p \in Req : ExchangeClaims(p)' \subseteq ExchangeClaims(p)
    BY <2>2, <2>3 DEF ExchangeClaims
  <2>5. \A n \in Name : NameClaims(n)' \subseteq NameClaims(n)
    BY <1>1, <2>1 DEF NameClaims, Named, Taking
  <2>6. QED
    BY <2>1, <2>4, <2>5 DEF Profiles
<1>5. CASE pc'[r] = "name"
  <2>1. Below(Cardinality(Profiles), MaxProfiles)
    BY <1>5 DEF Begins, BeginCreate, BeginAddKey, Begin, Goto, Claims, TypeOK
  <2>2. Creating' \subseteq InFlight'
    BY DEF Creating, InFlight, Running
  <2>3. IsFiniteSet(InFlight')
    BY <1>1, FS_AddElement, FS_Subset
  <2>4. IsFiniteSet(Creating') /\ Cardinality(Creating') <= Cardinality(InFlight')
    BY <2>2, <2>3, FS_Subset
  <2>5. Cardinality(Creating') <= MaxInFlight
    BY <1>2, <2>3, <2>4, FS_CardinalityType, LimitsAssumption DEF InFlightInv
  <2>6. MaxProfiles \in Nat \cup {Unlimited} /\ IsFiniteSet(Profiles)
    BY LimitsAssumption
  <2>7. ASSUME MaxProfiles # Unlimited
        PROVE  Cardinality(Profiles \cup Creating') <= MaxProfiles + MaxInFlight - 1
    BY <2>1, <2>4, <2>5, <2>6, <2>7, RoomForHandlers
  <2>8. ProfilesInv'
    BY <2>7, <1>4 DEF ProfilesInv, ProfileClaims
  <2>9. QED
    BY <1>2, <1>3, <1>4, <2>8, NothingNew DEF Claims
<1>6. CASE pc'[r] # "name"
  <2>1. Creating' \subseteq Creating
    BY <1>6, <1>1 DEF Creating, Begins, BeginCreate, BeginAddKey, Begin, Goto, Claims, TypeOK
  <2>2. ProfileClaims' \subseteq ProfileClaims
    BY <2>1, <1>4 DEF ProfileClaims
  <2>3. QED
    BY <1>2, <1>3, <1>4, <2>2, NothingNew DEF Claims
<1>7. QED
  BY <1>5, <1>6

\* The handler create_profile past its count: the name is claimed when no row
\* has it, and a claim becomes a row.
LEMMA CreateKeeps ==
    ASSUME Claims, NEW r \in Req, LookUpName(r) \/ InsertProfile(r) \/ RefreshProfile(r)
    PROVE  Claims'
<1> USE Finite
<1>1. /\ pc[r] \in {"name", "insertProfile", "refreshProfile"}
      /\ key' = key /\ job' = job
      /\ \A q \in Req \ {r} : pc'[q] = pc[q] /\ profile'[q] = profile[q]
      /\ pc'[r] \in {"insertProfile", "refreshProfile", "created", "refused", "broken"}
  BY DEF LookUpName, InsertProfile, RefreshProfile, Goto, Claims, TypeOK
<1>2. InFlight' \subseteq InFlight
  BY <1>1 DEF InFlight, Running
<1>3. TypeOK' /\ AskedInv'
  <2>1. job[r] \in Name
    BY <1>1 DEF Claims, AskedInv
  <2>2. TypeOK'
    BY <2>1 DEF LookUpName, InsertProfile, RefreshProfile, Goto, Claims, TypeOK, Running, Over
  <2>3. AskedInv'
    BY <1>1, <2>1 DEF Claims, AskedInv
  <2>4. QED
    BY <2>2, <2>3
<1>4. \A p \in Req : ExchangeClaims(p)' \subseteq ExchangeClaims(p)
  <2>1. \A p \in Req : KeysOf(p)' = KeysOf(p) /\ Adding(p)' = Adding(p)
    BY <1>1 DEF KeysOf, Adding
  <2>2. QED
    BY <1>1, <2>1 DEF ExchangeClaims, ExchangesOf
<1>5. ProfileClaims' \subseteq ProfileClaims
  BY <1>1 DEF ProfileClaims, Profiles, Creating, LookUpName, InsertProfile, RefreshProfile,
              Goto, Claims, TypeOK
<1>6. NamesInv'
  <2>1. ASSUME NEW n \in Name, LookUpName(r), job[r] = n, Named(n) = {}
        PROVE  Cardinality(NameClaims(n)') <= MaxInFlight
    <3>1. NameClaims(n)' \subseteq InFlight
      BY <2>1, <1>1 DEF NameClaims, Named, Taking, InFlight, Running, LookUpName
    <3>2. IsFiniteSet(NameClaims(n)') /\ Cardinality(NameClaims(n)') <= Cardinality(InFlight)
      BY <3>1, FS_Subset
    <3>3. Cardinality(NameClaims(n)') \in Nat /\ Cardinality(InFlight) \in Nat
      BY <3>2, FS_CardinalityType
    <3>4. QED
      BY <3>2, <3>3, LimitsAssumption DEF Claims, InFlightInv
  <2>2. ASSUME NEW n \in Name, ~(LookUpName(r) /\ job[r] = n /\ Named(n) = {})
        PROVE  NameClaims(n)' \subseteq NameClaims(n)
    <3>1. CASE LookUpName(r)
      <4>1. Cardinality(Named(n)) = 0 <=> Named(n) = {}
        BY FS_EmptySet
      <4>2. QED
        BY <3>1, <4>1, <2>2, <1>1 DEF NameClaims, Named, Taking, LookUpName, Goto, Claims, TypeOK
    <3>2. CASE InsertProfile(r) \/ RefreshProfile(r)
      BY <3>2, <1>1 DEF NameClaims, Named, Taking, InsertProfile, RefreshProfile, Goto,
                        Claims, TypeOK
    <3>3. QED
      BY <3>1, <3>2
  <2>3. ASSUME NEW n \in Name
        PROVE  Cardinality(NameClaims(n)') <= MaxInFlight
    <3>1. CASE LookUpName(r) /\ job[r] = n /\ Named(n) = {}
      BY <3>1, <2>1
    <3>2. CASE ~(LookUpName(r) /\ job[r] = n /\ Named(n) = {})
      <4>1. IsFiniteSet(NameClaims(n)') /\ Cardinality(NameClaims(n)') <= Cardinality(NameClaims(n))
        BY <3>2, <2>2, FS_Subset
      <4>2. Cardinality(NameClaims(n)') \in Nat /\ Cardinality(NameClaims(n)) \in Nat
        BY <4>1, FS_CardinalityType
      <4>3. QED
        BY <4>1, <4>2, LimitsAssumption DEF Claims, NamesInv
    <3>3. QED
      BY <3>1, <3>2
  <2>4. QED
    BY <2>3 DEF NamesInv
<1>7. QED
  BY <1>2, <1>3, <1>4, <1>5, <1>6, NothingNew DEF Claims

\* The handler add_key past its first read: an exchange is claimed when it is
\* there already or the limit leaves room, and a claim becomes a row.
LEMMA AddKeyKeeps ==
    ASSUME Claims, NEW r \in Req,
           CheckExchanges(r) \/ KeyAccepted(r) \/ KeyRefused(r) \/ InsertKey(r) \/ RefreshKey(r)
    PROVE  Claims'
<1> USE Finite
<1>1. /\ pc[r] \in {"exchanges", "validate", "insertKey", "refreshKey"}
      /\ profile' = profile /\ job' = job
      /\ \A q \in Req \ {r} : pc'[q] = pc[q] /\ key'[q] = key[q]
      /\ pc'[r] \in {"validate", "insertKey", "refreshKey", "created", "refused", "broken"}
      /\ job[r] \in KeyRow
  BY DEF CheckExchanges, KeyAccepted, KeyRefused, InsertKey, RefreshKey, Goto, Claims,
         TypeOK, AskedInv
<1>2. InFlight' \subseteq InFlight
  BY <1>1 DEF InFlight, Running
<1>3. TypeOK' /\ AskedInv'
  <2>1. TypeOK'
    BY <1>1 DEF CheckExchanges, KeyAccepted, KeyRefused, InsertKey, RefreshKey, Goto, Claims,
                TypeOK, Running, Over
  <2>2. AskedInv'
    BY <1>1 DEF Claims, AskedInv
  <2>3. QED
    BY <2>1, <2>2
<1>4. ProfileClaims' \subseteq ProfileClaims
  BY <1>1 DEF ProfileClaims, Profiles, Creating
<1>5. \A n \in Name : NameClaims(n)' \subseteq NameClaims(n)
  BY <1>1 DEF NameClaims, Named, Taking
<1>6. ExchangesInv'
  <2> DEFINE p == job[r].profile
  <2>1. CASE ~CheckExchanges(r)
    <3>1. /\ pc'[r] \in {"validate", "insertKey"} => pc[r] = "validate"
          /\ key'[r] # None => key'[r] = key[r] \/ (pc[r] = "insertKey" /\ key'[r] = job[r])
      BY <2>1, <1>1 DEF KeyAccepted, KeyRefused, InsertKey, RefreshKey, Goto, Claims, TypeOK
    <3>2. \A q \in Req : Adding(q)' \subseteq Adding(q)
      BY <3>1, <1>1 DEF Adding
    <3>3. ASSUME NEW q \in Req PROVE ExchangeClaims(q)' \subseteq ExchangeClaims(q)
      <4>1. ASSUME NEW e \in ExchangesOf(q)' PROVE e \in ExchangeClaims(q)
        <5>1. PICK k \in Req : key'[k] # None /\ key'[k].profile = q /\ e = key'[k].exchange
          BY <4>1 DEF ExchangesOf, KeysOf
        <5>2. CASE key'[k] = key[k]
          BY <5>1, <5>2 DEF ExchangeClaims, ExchangesOf, KeysOf
        <5>3. CASE key'[k] # key[k]
          <6>1. k = r /\ pc[r] = "insertKey" /\ key'[r] = job[r]
            BY <5>1, <5>3, <3>1, <1>1
          <6>2. r \in Adding(q) /\ e = job[r].exchange
            BY <6>1, <5>1 DEF Adding
          <6>3. QED
            BY <6>2 DEF ExchangeClaims
        <5>4. QED
          BY <5>2, <5>3
      <4>2. {job'[k].exchange : k \in Adding(q)'} \subseteq {job[k].exchange : k \in Adding(q)}
        BY <3>2, <1>1
      <4>3. QED
        BY <4>1, <4>2 DEF ExchangeClaims
    <3>4. QED
      BY <3>3, NothingNew
  <2>2. CASE CheckExchanges(r)
    <3>1. /\ key' = key /\ pc'[r] \in {"validate", "refused"} /\ pc[r] = "exchanges"
          /\ pc'[r] = "validate" => \/ job[r].exchange \in ExchangesOf(p)
                                   \/ Below(Cardinality(ExchangesOf(p)), MaxExchanges)
      BY <2>2, <1>1 DEF CheckExchanges, Goto, Claims, TypeOK
    <3>2. \A q : ExchangesOf(q)' = ExchangesOf(q)
      BY <3>1 DEF ExchangesOf, KeysOf
    <3>3. /\ \A q \in Req : q # p => Adding(q)' = Adding(q)
          /\ Adding(p)' \subseteq Adding(p) \cup {r}
          /\ pc'[r] = "refused" => Adding(p)' = Adding(p)
      BY <3>1, <1>1 DEF Adding
    <3>4. CASE pc'[r] = "refused" \/ job[r].exchange \in ExchangesOf(p)
      <4>1. ASSUME NEW q \in Req PROVE ExchangeClaims(q)' \subseteq ExchangeClaims(q)
        BY <3>2, <3>3, <3>4, <1>1 DEF ExchangeClaims
      <4>2. QED
        BY <4>1, NothingNew
    <3>5. CASE pc'[r] = "validate" /\ Below(Cardinality(ExchangesOf(p)), MaxExchanges)
      <4>1. ASSUME NEW q \in Req, q # p PROVE ExchangeClaims(q)' = ExchangeClaims(q)
        BY <4>1, <3>2, <3>3, <1>1 DEF ExchangeClaims
      <4>2. ASSUME MaxExchanges # Unlimited
            PROVE  Cardinality(ExchangeClaims(p)') <= MaxExchanges + MaxInFlight - 1
        <5> DEFINE T == {job[k].exchange : k \in Adding(p)'}
        <5>1. Adding(p)' \subseteq InFlight
          BY <3>1, <1>1 DEF Adding, InFlight, Running
        <5>2. IsFiniteSet(Adding(p)') /\ Cardinality(Adding(p)') <= Cardinality(InFlight)
          BY <5>1, FS_Subset
        <5>3. IsFiniteSet(T) /\ Cardinality(T) <= Cardinality(Adding(p)')
          BY <5>2, FewExchanges
        <5>4. Cardinality(T) <= MaxInFlight
          <6>1. /\ Cardinality(T) \in Nat /\ Cardinality(Adding(p)') \in Nat
                /\ Cardinality(InFlight) \in Nat
            BY <5>2, <5>3, FS_CardinalityType
          <6>2. QED
            BY <6>1, <5>2, <5>3, LimitsAssumption DEF Claims, InFlightInv
        <5>5. MaxExchanges \in Nat \cup {Unlimited} /\ IsFiniteSet(ExchangesOf(p))
          BY LimitsAssumption
        <5>6. Cardinality(ExchangesOf(p) \cup T) <= MaxExchanges + MaxInFlight - 1
          BY <5>3, <5>4, <5>5, <3>5, <4>2, RoomForHandlers
        <5>7. ExchangeClaims(p)' = ExchangesOf(p) \cup T
          BY <3>2, <1>1 DEF ExchangeClaims
        <5>8. QED
          BY <5>6, <5>7
      <4>3. ASSUME MaxExchanges # Unlimited, NEW q \in Req
            PROVE  Cardinality(ExchangeClaims(q)') <= MaxExchanges + MaxInFlight - 1
        <5>1. CASE q = p
          BY <4>2, <4>3, <5>1, <1>1
        <5>2. CASE q # p
          <6>1. ExchangeClaims(q)' = ExchangeClaims(q)
            BY <4>1, <5>2
          <6>2. Cardinality(ExchangeClaims(q)) <= MaxExchanges + MaxInFlight - 1
            BY <4>3 DEF Claims, ExchangesInv
          <6>3. QED
            BY <6>1, <6>2
        <5>3. QED
          BY <5>1, <5>2
      <4>4. QED
        BY <4>3 DEF ExchangesInv
    <3>6. QED
      BY <3>1, <3>4, <3>5
  <2>3. QED
    BY <2>1, <2>2
<1>7. QED
  BY <1>2, <1>3, <1>4, <1>5, <1>6, NothingNew DEF Claims

\* A deletion takes rows away and touches no handler.
LEMMA DeletionKeeps ==
    ASSUME Claims, NEW r \in Req, DeleteProfile(r) \/ DeleteKey(r)
    PROVE  Claims'
<1>1. /\ pc' = pc /\ job' = job
      /\ \A q \in Req : profile'[q] # None => profile'[q] = profile[q]
      /\ \A q \in Req : key'[q] # None => key'[q] = key[q]
  BY DEF DeleteProfile, DeleteKey, Claims, TypeOK
<1>2. TypeOK' /\ AskedInv'
  BY <1>1 DEF DeleteProfile, DeleteKey, Claims, TypeOK, AskedInv
<1>3. InFlight' \subseteq InFlight /\ ProfileClaims' \subseteq ProfileClaims
  BY <1>1 DEF InFlight, ProfileClaims, Profiles, Creating
<1>4. ASSUME NEW p \in Req PROVE ExchangeClaims(p)' \subseteq ExchangeClaims(p)
  BY <1>1 DEF ExchangeClaims, ExchangesOf, KeysOf, Adding
<1>5. ASSUME NEW n \in Name PROVE NameClaims(n)' \subseteq NameClaims(n)
  BY <1>1, NoneIsNothing DEF NameClaims, Named, Taking
<1>6. QED
  BY <1>2, <1>3, <1>4, <1>5, NothingNew DEF Claims

\* The inductive invariant: whatever interleaves, everything claimed stays
\* within the limits and the number of handlers.
THEOREM ClaimsHold == Spec => []Claims
<1>1. Init => Claims
  BY InitClaims
<1>2. Claims /\ [Next]_vars => Claims'
  <2> SUFFICES ASSUME Claims, [Next]_vars PROVE Claims'
    OBVIOUS
  <2>1. CASE Next
    <3>1. PICK r \in Req : Begins(r) \/ Advance(r) \/ DeleteProfile(r) \/ DeleteKey(r)
      BY <2>1 DEF Next
    <3>2. CASE Begins(r)
      BY <3>2, BeginKeeps
    <3>3. CASE Advance(r)
      BY <3>3, CreateKeeps, AddKeyKeeps DEF Advance
    <3>4. CASE DeleteProfile(r) \/ DeleteKey(r)
      BY <3>4, DeletionKeeps
    <3>5. QED
      BY <3>1, <3>2, <3>3, <3>4
  <2>2. CASE UNCHANGED vars
    BY <2>2 DEF vars, Claims, TypeOK, AskedInv, InFlightInv, ProfilesInv, ExchangesInv, NamesInv,
                InFlight, ProfileClaims, Profiles, Creating, ExchangeClaims, ExchangesOf, KeysOf,
                Adding, NameClaims, Named, Taking
  <2>3. QED
    BY <2>1, <2>2
<1>3. QED
  BY <1>1, <1>2, PTL DEF Spec

\* What is there is part of what is claimed.
LEMMA RowsAreClaims ==
    ASSUME Claims
    PROVE  LimitsBounded /\ NamesBounded
<1> USE Finite
<1>1. /\ MaxInFlight \in Int
      /\ MaxProfiles + MaxInFlight - 1 \in Int
      /\ MaxExchanges + MaxInFlight - 1 \in Int
  BY LimitsAssumption DEF Unlimited
<1>2. /\ Profiles \subseteq ProfileClaims
      /\ \A p \in Req : ExchangesOf(p) \subseteq ExchangeClaims(p)
      /\ \A n \in Name : Named(n) \subseteq NameClaims(n)
  BY DEF ProfileClaims, ExchangeClaims, NameClaims
<1>3. QED
  BY <1>1, <1>2, SubsetWithin DEF Claims, ProfilesInv, ExchangesInv, NamesInv, LimitsBounded,
                          NamesBounded

\* Tier limits under concurrency: never more profiles, nor exchanges in one
\* profile, than the limit and one for every other request handled at once.
THEOREM LimitsTheorem == Spec => []LimitsBounded
<1>1. Claims => LimitsBounded
  BY RowsAreClaims
<1>2. QED
  BY <1>1, ClaimsHold, PTL

\* A name is never given more often than requests are handled at once.
THEOREM NamesTheorem == Spec => []NamesBounded
<1>1. Claims => NamesBounded
  BY RowsAreClaims
<1>2. QED
  BY <1>1, ClaimsHold, PTL
=============================================================================

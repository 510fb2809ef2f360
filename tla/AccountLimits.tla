--------------------------- MODULE AccountLimits ---------------------------
(***************************************************************************)
(* The profiles and exchange keys of one user: create_profile and          *)
(* delete_profile of backend/app/api/v1/profiles.py, add_key and           *)
(* delete_key of keys.py, under the limits of the user's tier              *)
(* (backend/app/core/limits.py).                                           *)
(*                                                                         *)
(* Both creating handlers look at the rows, and insert one later, without  *)
(* a lock; add_key asks the exchange in between.  Names of profiles are    *)
(* unique by a look-up only; a key is unique by a constraint as well.      *)
(*                                                                         *)
(* A row is identified by the request that inserted it.  Users share no    *)
(* rows, so one stands for all.                                            *)
(***************************************************************************)
EXTENDS Integers, FiniteSets

CONSTANTS
    Name, Exchange, Req,
    MaxProfiles,    \* max_profiles of the tier
    MaxExchanges,   \* max_exchanges_per_profile of the tier
    MaxInFlight,    \* bound: requests handled at once
    None            \* no row, no local variables

Unlimited == -1
KeyType == {"read_only", "trade"}

ASSUME LimitsAssumption ==
    /\ MaxProfiles \in Nat \cup {Unlimited}
    /\ MaxExchanges \in Nat \cup {Unlimited}
    /\ MaxInFlight \in Nat \ {0}
    /\ IsFiniteSet(Req)

VARIABLES
    profile,    \* profile[r]: the name of the profile request r created
    key,        \* key[r]: the row of exchange_keys request r inserted
    pc, job     \* per request: where it stands, what it was asked

vars == <<profile, key, pc, job>>

Running == {"name", "insertProfile", "refreshProfile",
            "exchanges", "validate", "insertKey", "refreshKey"}
Over == {"created", "refused", "broken"}

KeyRow == [profile : Req, exchange : Exchange, type : KeyType]

ASSUME NoneIsNothing == None \notin Name \cup KeyRow

InFlight == {r \in Req : pc[r] \in Running}

Init == /\ profile = [r \in Req |-> None]
        /\ key = [r \in Req |-> None]
        /\ pc = [r \in Req |-> "idle"]
        /\ job = [r \in Req |-> None]

-----------------------------------------------------------------------------
Goto(r, place) == pc' = [pc EXCEPT ![r] = place]

Begin(r, asked, place) ==
    /\ pc[r] = "idle"
    /\ Cardinality(InFlight) < MaxInFlight
    /\ Goto(r, place)
    /\ job' = [job EXCEPT ![r] = asked]
    /\ UNCHANGED <<profile, key>>

\* Bug to detect: the row about to be inserted is not counted.
BelowOrAt(count, limit) == limit = Unlimited \/ count <= limit

Below(count, limit) == limit = Unlimited \/ count < limit

(* The handler create_profile. *)

Profiles == {q \in Req : profile[q] # None}

Named(n) == {q \in Req : profile[q] = n}

\* The profiles are counted by the handler's first SELECT.
BeginCreate(r, n) ==
    Begin(r, n, IF Below(Cardinality(Profiles), MaxProfiles) THEN "name" ELSE "refused")

\* Bug to detect: names are not looked up.
LookUpNothing(r) ==
    /\ pc[r] = "name"
    /\ Goto(r, "insertProfile")
    /\ UNCHANGED <<profile, key, job>>

\* scalar_one_or_none: an error when two rows have the name already.
LookUpName(r) ==
    LET n == Cardinality(Named(job[r]))
    IN /\ pc[r] = "name"
       /\ Goto(r, IF n = 0 THEN "insertProfile" ELSE IF n = 1 THEN "refused" ELSE "broken")
       /\ UNCHANGED <<profile, key, job>>

InsertProfile(r) ==
    /\ pc[r] = "insertProfile"
    /\ profile' = [profile EXCEPT ![r] = job[r]]
    /\ Goto(r, "refreshProfile")
    /\ UNCHANGED <<key, job>>

\* The committed row is read again, and may have been deleted meanwhile.
RefreshProfile(r) ==
    /\ pc[r] = "refreshProfile"
    /\ Goto(r, IF profile[r] # None THEN "created" ELSE "broken")
    /\ UNCHANGED <<profile, key, job>>

(* The handler add_key. *)

KeysOf(p) == {q \in Req : key[q] # None /\ key[q].profile = p}

ExchangesOf(p) == {key[q].exchange : q \in KeysOf(p)}

BeginAddKey(r, row) == profile[row.profile] # None /\ Begin(r, row, "exchanges")

\* Bug to detect: a read-only and a trade key are counted apart.
CheckExchangesOfType(r) ==
    LET known == {key[q].exchange : q \in {k \in KeysOf(job[r].profile) :
                                              key[k].type = job[r].type}}
    IN /\ pc[r] = "exchanges"
       /\ Goto(r, IF job[r].exchange \in known \/ Below(Cardinality(known), MaxExchanges)
                  THEN "validate" ELSE "refused")
       /\ UNCHANGED <<profile, key, job>>

\* Distinct exchanges count, not keys; one that is there already is free.
CheckExchanges(r) ==
    LET known == ExchangesOf(job[r].profile)
    IN /\ pc[r] = "exchanges"
       /\ Goto(r, IF job[r].exchange \in known \/ Below(Cardinality(known), MaxExchanges)
                  THEN "validate" ELSE "refused")
       /\ UNCHANGED <<profile, key, job>>

\* The exchange is asked what the key may do; it may be unreachable.
KeyAccepted(r) ==
    /\ pc[r] = "validate"
    /\ Goto(r, "insertKey")
    /\ UNCHANGED <<profile, key, job>>

KeyRefused(r) ==
    /\ pc[r] = "validate"
    /\ Goto(r, "refused")
    /\ UNCHANGED <<profile, key, job>>

\* The database refuses a second key of the same kind, and a key of a profile
\* that is gone; the error is not handled.
InsertKey(r) ==
    /\ pc[r] = "insertKey"
    /\ IF profile[job[r].profile] = None \/ \E q \in Req : key[q] = job[r]
       THEN Goto(r, "broken") /\ UNCHANGED key
       ELSE Goto(r, "refreshKey") /\ key' = [key EXCEPT ![r] = job[r]]
    /\ UNCHANGED <<profile, job>>

RefreshKey(r) ==
    /\ pc[r] = "refreshKey"
    /\ Goto(r, IF key[r] # None THEN "created" ELSE "broken")
    /\ UNCHANGED <<profile, key, job>>

(* The user's deletions, each one short transaction. *)

DeleteProfile(p) ==
    /\ profile[p] # None
    /\ profile' = [profile EXCEPT ![p] = None]
    /\ key' = [q \in Req |-> IF q \in KeysOf(p) THEN None ELSE key[q]]
    /\ UNCHANGED <<pc, job>>

DeleteKey(q) ==
    /\ key[q] # None
    /\ key' = [key EXCEPT ![q] = None]
    /\ UNCHANGED <<profile, pc, job>>

-----------------------------------------------------------------------------
Begins(r) == \/ \E n \in Name : BeginCreate(r, n)
             \/ \E row \in KeyRow : BeginAddKey(r, row)

Advance(r) ==
    \/ LookUpName(r) \/ InsertProfile(r) \/ RefreshProfile(r)
    \/ CheckExchanges(r) \/ KeyAccepted(r) \/ KeyRefused(r)
    \/ InsertKey(r) \/ RefreshKey(r)

Next == \E r \in Req : Begins(r) \/ Advance(r) \/ DeleteProfile(r) \/ DeleteKey(r)

Spec == Init /\ [][Next]_vars

-----------------------------------------------------------------------------
(* Properties. *)

\* Type invariant.
TypeOK ==
    /\ profile \in [Req -> Name \cup {None}]
    /\ key \in [Req -> KeyRow \cup {None}]
    /\ pc \in [Req -> {"idle"} \cup Running \cup Over]
    /\ job \in [Req -> Name \cup KeyRow \cup {None}]

\* How far a tier's limits can be exceeded.  Counting and inserting are apart,
\* and an exchange may be asked in between; still, whatever is created and
\* deleted meanwhile, there are never more profiles, nor exchanges in one
\* profile, than the limit and one for every other request handled at once.
LimitsBounded ==
    /\ MaxProfiles # Unlimited =>
          Cardinality(Profiles) <= MaxProfiles + MaxInFlight - 1
    /\ MaxExchanges # Unlimited => \A p \in Req :
          Cardinality(ExchangesOf(p)) <= MaxExchanges + MaxInFlight - 1

\* As many profiles of one name as requests are handled at once, and no more:
\* a name given so often is not given again later.
NamesBounded == \A n \in Name : Cardinality(Named(n)) <= MaxInFlight

-----------------------------------------------------------------------------
(* The inductive invariant: rows, together with what is sure to be tried. *)

Creating == {r \in Req : pc[r] \in {"name", "insertProfile"}}

Adding(p) == {r \in Req : pc[r] \in {"validate", "insertKey"} /\ job[r].profile = p}

Taking(n) == {r \in Req : pc[r] = "insertProfile" /\ job[r] = n}

ProfileClaims == Profiles \cup Creating
ExchangeClaims(p) == ExchangesOf(p) \cup {job[r].exchange : r \in Adding(p)}
NameClaims(n) == Named(n) \cup Taking(n)

\* Creating handlers were asked for a name, adding ones for a key.
AskedInv == \A r \in Req :
    /\ pc[r] \in {"name", "insertProfile", "refreshProfile"} => job[r] \in Name
    /\ pc[r] \in {"exchanges", "validate", "insertKey", "refreshKey"} => job[r] \in KeyRow

InFlightInv == Cardinality(InFlight) <= MaxInFlight

ProfilesInv == MaxProfiles # Unlimited =>
    Cardinality(ProfileClaims) <= MaxProfiles + MaxInFlight - 1

ExchangesInv == MaxExchanges # Unlimited => \A p \in Req :
    Cardinality(ExchangeClaims(p)) <= MaxExchanges + MaxInFlight - 1

NamesInv == \A n \in Name : Cardinality(NameClaims(n)) <= MaxInFlight

Claims == TypeOK /\ AskedInv /\ InFlightInv /\ ProfilesInv /\ ExchangesInv /\ NamesInv
=============================================================================

---------------------------- MODULE OrderLedger ----------------------------
(***************************************************************************)
(* What the trading service promises about its audit log, with no word of  *)
(* links, limits, keys or handlers.                                        *)
(*                                                                         *)
(* A request is accepted, its order may reach the exchange once, and it is *)
(* concluded once: concluding writes its log entry, if it writes one, and  *)
(* nothing changes that entry afterwards except the deletion of the whole  *)
(* account.  "filled" is only ever written for an order the exchange       *)
(* executed.  When nothing fails (Reliable) the log is also complete: a    *)
(* request of a live account is concluded "filled" exactly if its order    *)
(* was executed.                                                           *)
(***************************************************************************)
CONSTANTS
    Req,        \* the trade requests
    Reliable    \* TRUE: no process dies and no exchange answer is lost

VARIABLES
    phase,      \* phase[r]: where request r stands
    venue,      \* the requests whose order the exchange executed
    entry,      \* entry[r]: what the audit log says of r
    erased      \* the requests of deleted accounts

vars == <<phase, venue, entry, erased>>

Phase == {"new", "open", "over"}
Entry == {"none", "filled", "failed"}

Init == /\ phase = [r \in Req |-> "new"]
        /\ venue = {}
        /\ entry = [r \in Req |-> "none"]
        /\ erased = {}

Accept(r) == /\ phase[r] = "new"
             /\ phase' = [phase EXCEPT ![r] = "open"]
             /\ UNCHANGED <<venue, entry, erased>>

Execute(r) == /\ phase[r] = "open"
              /\ r \notin venue
              /\ venue' = venue \cup {r}
              /\ UNCHANGED <<phase, entry, erased>>

\* The entries a request may be concluded with.
Truthful(r, e) ==
    /\ e = "filled" => r \in venue
    /\ r \in erased => e = "none"
    /\ (Reliable /\ r \notin erased) => (e = "filled" <=> r \in venue)

Conclude(r, e) == /\ phase[r] = "open"
                  /\ Truthful(r, e)
                  /\ phase' = [phase EXCEPT ![r] = "over"]
                  /\ entry' = [entry EXCEPT ![r] = e]
                  /\ UNCHANGED <<venue, erased>>

\* An account is deleted, and its whole log with it.
Erase(S) == /\ erased' = erased \cup S
            /\ entry' = [r \in Req |-> IF r \in S THEN "none" ELSE entry[r]]
            /\ UNCHANGED <<phase, venue>>

Next == \/ \E r \in Req : Accept(r) \/ Execute(r)
        \/ \E r \in Req, e \in Entry : Conclude(r, e)
        \/ \E S \in SUBSET Req : Erase(S)

Spec == Init /\ [][Next]_vars
=============================================================================

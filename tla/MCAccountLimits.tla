-------------------------- MODULE MCAccountLimits --------------------------
(* Small instances of AccountLimits for TLC. *)
EXTENDS AccountLimits, TLC

AccountSymmetry ==
    Permutations(Req) \cup Permutations(Name) \cup Permutations(Exchange)
=============================================================================

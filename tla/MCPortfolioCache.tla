-------------------------- MODULE MCPortfolioCache --------------------------
(* Small instances of PortfolioCache for TLC. *)
EXTENDS PortfolioCache, TLC

RequestSymmetry == Permutations(Req)
VenueSymmetry == Permutations(Req) \cup Permutations(Venue)
=============================================================================

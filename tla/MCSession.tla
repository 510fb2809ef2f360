----------------------------- MODULE MCSession -----------------------------
(* A small instance of Session for TLC. *)
EXTENDS Session, TLC

SessionSymmetry == Permutations(Login) \cup Permutations(Callback) \cup Permutations(Account)
                   \cup Permutations(Email)
=============================================================================

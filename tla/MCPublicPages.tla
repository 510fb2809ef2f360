--------------------------- MODULE MCPublicPages ---------------------------
(* A small instance of PublicPages for TLC. *)
EXTENDS PublicPages, TLC

Flags == {"avg", "trade", "follow"}
On(f) == [flag |-> f, on |-> TRUE]
Off(f) == [flag |-> f, on |-> FALSE]
Patches == {{On("avg")}, {Off("avg"), On("trade")}, {On("follow")}}

PagesSymmetry == Permutations(Req)
=============================================================================

----------------------------- MODULE MCFillWalk -----------------------------
(* A small instance of FillWalk for TLC: every adapter. *)
EXTENDS FillWalk

AllAdapters == DOMAIN Walkers
=============================================================================

----------------------------- MODULE MCListener -----------------------------
(* Two listeners that share a handful of connection objects. *)
EXTENDS Listener, TLC

Symmetry == Permutations(Conns)
=============================================================================

-------------------------- MODULE MCClientSession --------------------------
(***************************************************************************)
(* Symmetry for the safety runs of ClientSession: objects of one kind are  *)
(* interchangeable, and so are the workers.                                *)
(***************************************************************************)
EXTENDS SessionRefinement, TLC

Symmetry ==
  Permutations(RSocks) \cup Permutations(RObjs)
    \cup Permutations(BObjs) \cup Permutations(Workers)
=============================================================================

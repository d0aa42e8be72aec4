------------------------------ MODULE MCFrames -------------------------------
(***************************************************************************)
(* Frames for TLC: a root activity and its child.                          *)
(***************************************************************************)
EXTENDS Frames, TLC

CONSTANTS root, child

Two == (root :> None) @@ (child :> root)

Plain == {[discardable |-> FALSE, priority |-> "lru"]}

Symmetry == Permutations(Frames)
=============================================================================

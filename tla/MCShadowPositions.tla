------------------------- MODULE MCShadowPositions -------------------------
(* Two calls in flight for one follower, one slot and two decisions. *)
EXTENDS ShadowPositions, TLC

Symmetry == Permutations(Calls) \cup Permutations(Sources)
=============================================================================

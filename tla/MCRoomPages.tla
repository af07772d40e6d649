------------------------------ MODULE MCRoomPages ------------------------------
(* Constants of RoomPages for TLC. *)
EXTENDS RoomPages, TLC

\* Pages run the same code, and nothing tells one source from another.
Symmetry == Permutations(Pages) \cup Permutations(Sources)
=============================================================================

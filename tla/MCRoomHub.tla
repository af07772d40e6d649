------------------------------ MODULE MCRoomHub ------------------------------
(* Constants of RoomHub for TLC. *)
EXTENDS RoomHub, TLC

\* The goroutines of different clients run the same code and hub objects are
\* interchangeable until they are allocated: safety runs use this symmetry.
Symmetry == Permutations(Clients) \cup Permutations(Hubs)
=============================================================================

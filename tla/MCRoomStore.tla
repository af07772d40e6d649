------------------------------ MODULE MCRoomStore -----------------------------
(* Constants of RoomStore for TLC. *)
EXTENDS RoomStore, TLC

\* Rooms are compared by their IDs only, and handlers run the same code.
Symmetry == Permutations(Rooms) \cup Permutations(Handlers)
=============================================================================

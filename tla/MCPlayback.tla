------------------------------ MODULE MCPlayback ------------------------------
(* Constants of Playback for TLC. *)
EXTENDS Playback, TLC

\* Clients run the same code; the sender of an event is compared, never ordered.
Symmetry == Permutations(Clients)
=============================================================================

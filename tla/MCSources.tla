------------------------------- MODULE MCSources -------------------------------
(* Constants of Sources for TLC. *)
EXTENDS Sources, TLC

\* Sources are compared by their IDs only, and handlers run the same code.
Symmetry == Permutations(Sources) \cup Permutations(Handlers)
=============================================================================

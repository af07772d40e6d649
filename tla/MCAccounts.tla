------------------------------ MODULE MCAccounts ------------------------------
(* Constants of Accounts for TLC. *)
EXTENDS Accounts, TLC

\* Users and names are only compared.
Symmetry == Permutations(Users) \cup Permutations(Names)
=============================================================================

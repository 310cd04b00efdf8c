------------------------------ MODULE EscrowMC ------------------------------
(* Small instances of Escrow for TLC. *)
EXTENDS Escrow, TLC

\* Accounts, web workers and sales are interchangeable.
Symmetry == Permutations(Users) \cup Permutations(Requests) \cup Permutations(Sales)
=============================================================================

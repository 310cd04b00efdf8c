---------------------------- MODULE ReputationMC ----------------------------
(* Small instances of Reputation, and of the Escrow in it, for TLC. *)
EXTENDS Reputation, TLC

\* Accounts, sales and web workers are interchangeable.
Symmetry == Permutations(Users) \cup Permutations(Sales)
            \cup Permutations(Requests) \cup Permutations(Raters)
=============================================================================

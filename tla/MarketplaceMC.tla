--------------------------- MODULE MarketplaceMC ---------------------------
(* Small instances of Marketplace for TLC. *)
EXTENDS Marketplace, TLC

\* Accounts and web workers are interchangeable.
Symmetry == Permutations(Users) \cup Permutations(Requests) \cup Permutations(Raters)
=============================================================================

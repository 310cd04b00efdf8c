----------------------------- MODULE AuctionsMC -----------------------------
(* Small instances of Auctions for TLC. *)
EXTENDS Auctions, TLC

\* Accounts and web workers are interchangeable.
Symmetry == Permutations(Users) \cup Permutations(Requests)
=============================================================================

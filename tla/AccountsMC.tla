----------------------------- MODULE AccountsMC -----------------------------
(* Small instances of Accounts for TLC. *)
EXTENDS Accounts, TLC

\* Mailboxes, spellings and workers are interchangeable.
Symmetry == Permutations(Mailboxes) \cup Permutations(Spellings) \cup Permutations(Workers)
=============================================================================

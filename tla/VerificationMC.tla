--------------------------- MODULE VerificationMC ---------------------------
(* Small instances of Verification for TLC. *)
EXTENDS Verification, TLC

\* Workers and document names are interchangeable, accounts are not: one of
\* them is an administrator.
Symmetry == Permutations(Workers) \cup Permutations(Docs)
=============================================================================

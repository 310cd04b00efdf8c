---------------------------- MODULE PublicationMC ----------------------------
(* Small instances of Publication for TLC. *)
EXTENDS Publication, TLC

\* Sellers, categories and pages are interchangeable.
Symmetry == Permutations(Sellers) \cup Permutations(Categories) \cup Permutations(Pages)
=============================================================================

------------------------------ MODULE MCCatalog ------------------------------
(* Small instances of Catalog for TLC. *)
EXTENDS Catalog, TLC

\* Identities, names and calls are interchangeable.
Symmetry == Permutations(Requests) \cup Permutations(Products \ {Unknown}) \cup Permutations(Categories)
              \cup Permutations(Locations) \cup Permutations(Skus)
              \cup Permutations(CategoryNames) \cup Permutations(LocationNames)
=============================================================================

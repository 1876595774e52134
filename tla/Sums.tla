-------------------------------- MODULE Sums --------------------------------
(***************************************************************************)
(* Sums over sets of what programs count.  A sum is the number of units     *)
(* that its terms stand for, so that facts about finite sets do where an    *)
(* induction over the set would be needed.                                  *)
(***************************************************************************)
EXTENDS Naturals, FiniteSets

\* f[x] units for every x of S.
UnitsOf(f, S) == UNION {{x} \X (1 .. f[x]) : x \in S}

\* The sum of f over S.
Total(f, S) == Cardinality(UnitsOf(f, S))
=============================================================================

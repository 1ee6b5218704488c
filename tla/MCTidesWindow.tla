---------------------------- MODULE MCTidesWindow ----------------------------
EXTENDS TidesWindow

\* Bound: one identity with carry at a time.  The order in which a start interns
\* several is then no choice, and identities are interchangeable.
OneOwed == Cardinality(carried) <= 1

Symmetric == Permutations(Ident)
=============================================================================

----------------------------- MODULE MCConsole -----------------------------
EXTENDS Console, TLC

\* The readers are interchangeable.
Symmetry == Permutations(Reader)
=============================================================================

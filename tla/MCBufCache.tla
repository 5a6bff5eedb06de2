----------------------------- MODULE MCBufCache -----------------------------
EXTENDS BufCache, TLC

\* Buffers, sectors and processes are interchangeable; the list starts in any order.
Symmetry == Permutations(Buf) \cup Permutations(Sector) \cup Permutations(Proc)
=============================================================================

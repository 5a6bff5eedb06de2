------------------------------ MODULE MCInode ------------------------------
EXTENDS Inode, TLC

\* Processes and names are interchangeable.
Symmetry == Permutations(Proc) \cup Permutations(Name)
=============================================================================

------------------------------ MODULE MC_FileIO ------------------------------
EXTENDS FileIO, TLC
\* Files are interchangeable.
Symmetry == Permutations(Files)
=============================================================================

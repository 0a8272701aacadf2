--------------------------- MODULE MCBlocAllocator ---------------------------
(* BlocAllocator on a small volume.                                        *)
EXTENDS BlocAllocator, TLC

\* Files are interchangeable: nothing orders or names them.
FileSymmetry == Permutations(Files)
=============================================================================

------------------------------- MODULE MCIFile -------------------------------
(* IFile on a volume of a few blocs with small tables.                     *)
EXTENDS IFile, TLC

FileSymmetry == Permutations(Files)

\* What the next steps depend on: got is what the last one returned.
Remembered == <<disk, super, inumber, fd, deleted>>

\* BOUND: nothing is explored beyond the first delete_ifile; BlocAllocator
\* says what becomes of the free blocs from there on.
NotDeleted == ~deleted
=============================================================================

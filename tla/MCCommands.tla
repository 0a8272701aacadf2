----------------------------- MODULE MCCommands -----------------------------
(* Commands on three small volumes.                                        *)
EXTENDS Commands

\* Nothing, a sector that ends with the octet 0xFF, and a sector and an octet
\* behind it.
MCInputs == {<< >>, <<1, OCTET - 1>>, <<1, 0, 1>>}

\* What the next steps depend on.
Remembered == <<vols, deleted>>

\* BOUND: nothing is explored beyond the first if_dfile, or once the super bloc
\* of volume 0 is lost.
Explored == ~deleted /\ ~SuperLost
=============================================================================

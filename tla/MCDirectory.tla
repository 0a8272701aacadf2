----------------------------- MODULE MCDirectory -----------------------------
(* Directory on a volume with room for one directory more than full.       *)
EXTENDS Directory, FiniteSets

CONSTANTS a, c, l

MCNames == {a, c}

MCPaths == {<< >>, <<EMPTY>>, <<a>>, <<c>>, <<l>>, <<a, c>>}

MCCreations == {<<<<a>>, "DIRECTORY">>, <<<<l>>, "NORMAL">>, <<<<a, c>>, "NORMAL">>}

\* What the next steps depend on: answer is what the last one said.
Remembered == <<disk, super, kills>>

\* BOUND: inodes that no directory names, but the root.
MaxOrphans == 1

\* BOUND: the blocs handed out on a volume where a call was killed.
MaxTaken == 6

Explored ==
    /\ ~SuperLost
    /\ Cardinality(InodeBlocs \ { link[4] : link \in Links }) <= MaxOrphans + 1
    /\ kills > 0 /\ disk[0].kind = "super" => disk[0].first_free <= MaxTaken + 1
=============================================================================

------------------------------ MODULE Namespace ------------------------------
(***************************************************************************)
(* What src/file.c does for its callers: it keeps a tree of names.         *)
(*                                                                         *)
(* A directory is a row of Capacity places.  A file is made in the first    *)
(* free place, whether its name is there or not; a name stands for the      *)
(* first place that has it.  The file made in a full directory is lost.     *)
(* Deleting a file takes its name away and nothing else.                   *)
(*                                                                         *)
(* file.h promises more: that a file is not made under a name that is       *)
(* there, and that a directory with files in it is not deleted.             *)
(* FileHeaderHolds of Directory says so, and the code breaks both.          *)
(*                                                                         *)
(* A call that is killed has done what it does, nothing of it, or left one  *)
(* place torn.  Once a bloc was asked of a full volume nothing is promised. *)
(***************************************************************************)
EXTENDS Integers, SequencesExt

CONSTANTS Names, Long, Cut, Paths, Creations, Inumbers,
  Capacity      \* places of a directory

VARIABLES
  links,    \* <<directory, place, name, inumber>>
  types,    \* types[i]: the type of inode i
  root,     \* the inode of "/", 0 before there is one
  answer,   \* the last call, its pathname and what it returned
  killed,   \* a call was killed
  full      \* a bloc was asked of a full volume

vars == <<links, types, root, answer, killed, full>>

EMPTY == 0
HEADER == -3    \* no inode and no name
STOPPED == -4
RETURN_SUCCESS == 0
RETURN_FAILURE == -1
ENTRY == 2

Answer(call, path, ret) == [call |-> call, path |-> path, ret |-> ret]

NoAnswer == Answer("none", << >>, -2)

IsDirectory(i) == i \in DOMAIN types /\ types[i] = "DIRECTORY"

Places(d, name) == { link[2] : link \in { l \in links : l[1] = d /\ l[3] = name } }

FreePlaces(d) == (0 .. Capacity - 1) \ { l[2] : l \in { k \in links : k[1] = d } }

\* The link a name of directory d stands for.
First(d, name) ==
    LET place == Min(Places(d, name))
    IN  CHOOSE l \in links : l[1] = d /\ l[2] = place

\* The inode of a pathname, 0 if it has none.
Lookup(path) ==
    LET walk(i, name) ==
          IF name = EMPTY \/ i = 0 THEN i
          ELSE IF IsDirectory(i) /\ Places(i, name) # {} THEN First(i, name)[4]
          ELSE 0
    IN  IF path = << >> THEN 0 ELSE FoldLeft(walk, root, path)

\* The directory a pathname is in, 0 if there is none.
Directory(path) ==
    LET d == Lookup([path EXCEPT ![Len(path)] = EMPTY])
    IN  IF path # << >> /\ IsDirectory(d) THEN d ELSE 0

Stored(name) == IF name = Long THEN Cut ELSE name

Typed(i, type) == [j \in DOMAIN types \cup {i} |-> IF j = i THEN type ELSE types[j]]

-----------------------------------------------------------------------------
Init ==
    /\ links = {}
    /\ types = << >>
    /\ root = 0
    /\ answer = NoAnswer
    /\ killed = FALSE
    /\ full = FALSE

Format ==
    /\ root = 0
    /\ \E i \in Inumbers : types' = (i :> "DIRECTORY") /\ root' = i
    /\ answer' = NoAnswer
    /\ UNCHANGED <<links, killed, full>>

\* A program starts or ends.
Between ==
    /\ answer' = NoAnswer
    /\ UNCHANGED <<links, types, root, killed, full>>

Create(path, type) ==
    LET d == Directory(path)
    IN  /\ answer' = Answer("create", path, RETURN_SUCCESS)
        /\ d # 0
        /\ \E i \in Inumbers \ DOMAIN types :
              /\ types' = Typed(i, type)
              /\ links' = links \cup
                   IF FreePlaces(d) = {} THEN {}
                   ELSE {<<d, Min(FreePlaces(d)), Stored(Last(path)), i>>}
        /\ UNCHANGED <<root, killed, full>>

Found(path) == Directory(path) # 0 /\ Places(Directory(path), Last(path)) # {}

Unlinked(path) == links \ {First(Directory(path), Last(path))}

Delete(path) ==
    /\ answer' = Answer("delete", path, ENTRY)
    /\ Found(path)
    /\ links' = Unlinked(path)
    /\ UNCHANGED <<types, root, killed, full>>

Open(path) ==
    /\ Lookup(path) # 0
    /\ answer' = Answer("open", path, Lookup(path))
    /\ UNCHANGED <<links, types, root, killed, full>>

Fail(path) ==
    /\ \/ answer' = Answer("create", path, RETURN_FAILURE) /\ Directory(path) = 0
       \/ answer' = Answer("delete", path, RETURN_FAILURE) /\ ~Found(path)
       \/ answer' = Answer("open", path, RETURN_FAILURE) /\ Lookup(path) = 0
    /\ UNCHANGED <<links, types, root, killed, full>>

-----------------------------------------------------------------------------
(* Calls that do not return.                                               *)

\* One more place of a directory may have been spoiled.
Torn(left) ==
    \/ links' = left
    \/ \E d \in { i \in DOMAIN types : IsDirectory(i) }, k \in 0 .. Capacity - 1 :
         /\ ~\E l \in left : l[1] = d /\ l[2] = k
         /\ links' = left \cup {<<d, k, EMPTY, HEADER>>}

\* The file is made, and maybe its place taken, by its name or another one.
Begun(path, type) ==
    \E i \in Inumbers \ DOMAIN types :
      /\ types' = Typed(i, type)
      /\ LET d == Directory(path)
         IN  \/ Torn(links)
             \/ /\ d # 0 /\ FreePlaces(d) # {}
                /\ \E name \in Names \cup {EMPTY, HEADER} :
                      Torn(links \cup {<<d, Min(FreePlaces(d)), name, i>>})

Interrupted(call, path) ==
    /\ answer' = Answer(call, path, STOPPED)
    /\ killed'
    /\ UNCHANGED <<root, full>>
    /\ \/ Torn(links) /\ UNCHANGED types
       \/ /\ call = "create"
          /\ \E creation \in Creations : creation[1] = path /\ Begun(path, creation[2])
       \/ /\ call = "delete"
          /\ Found(path) /\ Torn(Unlinked(path)) /\ UNCHANGED types
       \/ /\ call = "mknfs"
          /\ root = 0 /\ links' = {}
          /\ types' \in {<< >>} \cup { i :> "DIRECTORY" : i \in Inumbers }

Next ==
    \/ Between \/ Format \/ Interrupted("mknfs", << >>)
    \/ \E creation \in Creations : Create(creation[1], creation[2])
    \/ \E path \in Paths :
          \/ Fail(path) \/ Open(path) \/ Delete(path)
          \/ \E call \in {"create", "delete", "open"} : Interrupted(call, path)
    \/ full \/ full'

Spec == Init /\ [][Next]_vars
=============================================================================

---------------------------- MODULE BlocAllocator ----------------------------
(***************************************************************************)
(* The life of the blocs of a volume: programs run one after the other,     *)
(* each loads the super bloc, calls new_bloc and free_bloc on behalf of     *)
(* files, and ends or is killed, possibly between two sector writes of a    *)
(* call (every write_bloc is one write_sector: src/volume.c:154).           *)
(*                                                                         *)
(* Memory changes at once when a call starts, since nothing else reads the  *)
(* memory of the process; its writes reach the disk one by one.             *)
(***************************************************************************)
EXTENDS Blocs, FiniteSets

CONSTANT Files      \* those on whose behalf blocs are taken and given back

VARIABLES
  disk,     \* [Bloc -> contents]: what survives the process
  super,    \* super_courant of the running program, NoSuper when none runs
  todo,     \* sector writes of the current call that are still to come
  owned,    \* history: owned[f] is the set of blocs the file f was given
  given,    \* history: blocs given since the last free_bloc or mknfs
  freed,    \* history: free_bloc was called since the disk was formatted
  cut       \* history: a call was cut short since the last mknfs

vars == <<disk, super, todo, owned, given, freed, cut>>

(***************************************************************************)
(* What the caller of new_bloc stores at once in the bloc it gets: an inode *)
(* (create_inode), or null octets that will be a table or data              *)
(* (aux_vbloc_of_fbloc).  It never starts like a free bloc.                 *)
(***************************************************************************)
Used == [kind |-> "used"]

Supers ==
    [kind : {"super"}, root : {NULL_BLOC}, nb_free_blc : Nat, first_free : Bloc]

FreeBlcs == [kind : {"free"}, nb_free_blocs : Nat, next : Bloc]

Contents == { Zero, Used } \cup Supers \cup FreeBlcs

Idle == super # NoSuper /\ todo = << >>

\* The call under way will store Used in bloc b: new_bloc has returned b.
Handed(b) == todo # << >> /\ todo[Len(todo)] = <<b, Used>>

(***************************************************************************)
(* BOUND.  Once blocs were freed the list may lead past the end of the      *)
(* volume, through sectors this module does not have: it is followed while  *)
(* its head lies inside.  Nothing bounds it before the first free_bloc.     *)
(***************************************************************************)
HeadInVolume == freed /\ super.nb_free_blc > 0 => super.first_free < NSector

-----------------------------------------------------------------------------
(* The disk is formatted (frmt) and mknfs has made a file system.          *)
Init ==
    /\ disk = InitSuper(Machine([b \in Bloc |-> Zero], NoSuper)).disk
    /\ super = NoSuper
    /\ todo = << >>
    /\ owned = [f \in Files |-> {}]
    /\ given = {}
    /\ freed = FALSE
    /\ cut = FALSE

\* A program starts and loads the super bloc; it stops there if the magic is wrong.
Mount ==
    LET m == LoadSuper(Machine(disk, NoSuper))
    IN  /\ super = NoSuper
        /\ m.ok
        /\ super' = m.super
        /\ UNCHANGED <<disk, todo, owned, given, freed, cut>>

\* mknfs on a volume already in use: the files it held are given up.
Format ==
    LET m == InitSuper(Machine(disk, NoSuper))
    IN  /\ super = NoSuper
        /\ super' = m.super
        /\ todo' = m.log
        /\ owned' = [f \in Files |-> {}]
        /\ given' = {}
        /\ cut' = FALSE
        /\ UNCHANGED <<disk, freed>>

\* new_bloc, and the first write of its caller to the bloc it got.
Take ==
    LET m == NewBloc(Machine(disk, super))
        w == WriteBloc(m, m.ret, Used)
    IN  /\ Idle
        /\ HeadInVolume
        /\ m.ok
        /\ super' = w.super
        /\ todo' = w.log
        /\ UNCHANGED <<disk, owned, given, freed, cut>>

\* The assert of read_free_bloc stops the program.
TakeStopped ==
    /\ Idle
    /\ HeadInVolume
    /\ ~NewBloc(Machine(disk, super)).ok
    /\ super' = NoSuper
    /\ UNCHANGED <<disk, todo, owned, given, freed, cut>>

\* free_bloc, on a bloc its owner gives back.
GiveBack(f, b) ==
    LET m == FreeBloc(Machine(disk, super), b)
    IN  /\ Idle
        /\ b \in owned[f]
        /\ super' = m.super
        /\ todo' = m.log
        /\ owned' = [owned EXCEPT ![f] = @ \ {b}]
        /\ given' = {}
        /\ freed' = TRUE
        /\ UNCHANGED <<disk, cut>>

\* History: bloc b now belongs to file f.
Give(f, b) ==
    /\ owned' = [owned EXCEPT ![f] = @ \cup {b}]
    /\ given' = given \cup {b}

\* write_sector: the next write of the call reaches the disk.
WriteSector ==
    LET bloc == todo[1][1]
    IN  /\ todo # << >>
        /\ disk' = [disk EXCEPT ![bloc] = todo[1][2]]
        /\ todo' = Tail(todo)
        /\ IF Len(todo) = 1 /\ todo[1][2] = Used /\ bloc # NULL_BLOC
             THEN \E f \in Files : Give(f, bloc)
             ELSE UNCHANGED <<owned, given>>
        /\ UNCHANGED <<super, freed, cut>>

\* The program ends, or is killed with writes still to come.
Exit ==
    /\ super # NoSuper
    /\ super' = NoSuper
    /\ todo' = << >>
    /\ cut' = IF todo = << >> THEN cut ELSE TRUE
    /\ UNCHANGED <<disk, owned, given, freed>>

Next ==
    \/ Mount
    \/ Format
    \/ Take
    \/ TakeStopped
    \/ \E f \in Files, b \in Bloc : GiveBack(f, b)
    \/ WriteSector
    \/ Exit

Spec == Init /\ [][Next]_vars

-----------------------------------------------------------------------------
(* The variables keep their types.                                         *)
TypeOK ==
    /\ disk \in [Bloc -> Contents]
    /\ super \in { NoSuper } \cup Supers
    /\ todo \in Seq(Bloc \X Contents)
    /\ owned \in [Files -> SUBSET Bloc]
    /\ given \in SUBSET Bloc
    /\ freed \in BOOLEAN
    /\ cut \in BOOLEAN

(***************************************************************************)
(* A bloc new_bloc hands out belongs to no file and lies inside the volume, *)
(* whatever was killed in the middle of a call, as long as no bloc has ever *)
(* been freed.                                                              *)
(***************************************************************************)
NewBlocIsFresh ==
    ~freed => \A b \in Bloc \ {NULL_BLOC} :
                 Handed(b) => /\ b \in 1 .. NSector - 1
                              /\ \A f \in Files : b \notin owned[f]

(***************************************************************************)
(* Even after blocs were freed, new_bloc does not hand out the same bloc    *)
(* twice between two calls of free_bloc, unless a call was cut short: the   *)
(* assert of read_free_bloc stops the program first.                        *)
(***************************************************************************)
NeverTwiceBetweenFrees ==
    ~cut => \A b \in Bloc \ {NULL_BLOC} : Handed(b) => b \notin given

(***************************************************************************)
(* As long as no bloc was freed and no call was cut short, the assert of    *)
(* read_free_bloc cannot fail: while the super bloc counts a free bloc, its *)
(* first_free leads to the header of a run.                                 *)
(***************************************************************************)
HeadIsAHeader ==
    Idle /\ ~freed /\ ~cut /\ super.nb_free_blc > 0
      => disk[super.first_free].kind = "free"

(***************************************************************************)
(* As long as no bloc was freed and no call was cut short, every bloc of    *)
(* the volume but the super bloc either belongs to a file or is counted     *)
(* free by the super bloc, never both: new_bloc loses none.  (On a volume   *)
(* of two blocs new_bloc never hands out the only one: the 0 it returns is  *)
(* the next of the header.)                                                 *)
(***************************************************************************)
NoBlocLost ==
    Idle /\ ~freed /\ ~cut /\ NSector > 2
      => UNION { owned[f] : f \in Files }
           = (1 .. NSector - 1)
               \ (super.first_free .. super.first_free + super.nb_free_blc - 1)

(***************************************************************************)
(* Between two calls the super bloc in memory is the one on disk: a program *)
(* killed there loses nothing.  The exception is a full volume, on which    *)
(* the caller of new_bloc has written over bloc 0.                          *)
(***************************************************************************)
SuperIsSaved ==
    Idle => \/ disk[0] = super
            \/ disk[0] = Used /\ super.nb_free_blc = 0

(***************************************************************************)
(* "Retourne un nouveau bloc sur le volume courant" (filesystem.c:229): a   *)
(* bloc handed out belongs to no file.  Not so once blocs have been freed.  *)
(***************************************************************************)
NewBlocIsNew ==
    \A b \in Bloc \ {NULL_BLOC}, f \in Files : Handed(b) => b \notin owned[f]

(***************************************************************************)
(* "assert(super->magic == SUPER_MAGIC)" (filesystem.c:102): as long as no   *)
(* bloc was freed and no call was cut short, the next program can load the  *)
(* super bloc of the volume.  Not so once the volume is full: create_inode  *)
(* writes its inode to the bloc 0 new_bloc returned.                        *)
(***************************************************************************)
NextMountLoads ==
    super = NoSuper /\ ~freed /\ ~cut => disk[NULL_BLOC].kind = "super"
=============================================================================

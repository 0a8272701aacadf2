-------------------------------- MODULE Blocs --------------------------------
(***************************************************************************)
(* The blocs of one volume and the calls of src/filesystem.c that manage    *)
(* its super bloc and its list of free blocs.                               *)
(*                                                                         *)
(* A call is an operator from a machine to a machine.  A machine is what a  *)
(* process sees while the call runs:                                        *)
(*   disk   the blocs of the volume, as the sector writes left them,        *)
(*   super  super_courant, the copy of the super bloc in memory,            *)
(*   ok     FALSE once an assert or an exit has stopped the process,        *)
(*   ret    the value the last call returned,                               *)
(*   log    the sector writes of the call, in the order it issued them.     *)
(* A specification that lets a call happen at once keeps disk and super; a  *)
(* specification with crashes replays log one write at a time.              *)
(***************************************************************************)
EXTENDS Integers, Sequences

CONSTANT NSector    \* volume.nsector: the volume owns the blocs 0 .. NSector-1

(***************************************************************************)
(* A super bloc and one bloc to manage is the least volume mknfs can format.*)
(* The 16-bit fields of the on-disk structures hold every bloc number: a    *)
(* disk has HDA_MAXCYLINDER * HDA_MAXSECTOR = 32768 sectors (hw_info.h:10). *)
(***************************************************************************)
ASSUME NSectorAssumption == NSector \in Nat /\ NSector > 1 /\ NSector <= 32768

NULL_BLOC == 0

(***************************************************************************)
(* Nothing checks a bloc number against the size of the volume, so bloc     *)
(* NSector, the sector just behind the volume, is part of the picture.      *)
(***************************************************************************)
Bloc == 0 .. NSector

-----------------------------------------------------------------------------
(* The contents of a bloc.  "kind" is the magic number the readers test.   *)

Zero == [kind |-> "zero"]           \* 512 null octets: no magic number

Super(root, nb, first) ==
    [kind |-> "super", root |-> root, nb_free_blc |-> nb, first_free |-> first]

FreeBlc(nb, next) ==
    [kind |-> "free", nb_free_blocs |-> nb, next |-> next]

NoSuper == [kind |-> "none"]        \* super_courant = NULL

Stopped(m) == [m EXCEPT !.ok = FALSE]

Return(m, v) == [m EXCEPT !.ret = v]

\* A process that has loaded nothing yet, on disk d with super block s in memory.
Machine(d, s) ==
    [disk |-> d, super |-> s, ok |-> TRUE, ret |-> NULL_BLOC, log |-> << >>]

-----------------------------------------------------------------------------
(* Sector writes and the super bloc.                                       *)

WriteBloc(m, bloc, content) ==
    IF m.ok
      THEN [m EXCEPT !.disk[bloc] = content,
                     !.log = Append(@, <<bloc, content>>)]
      ELSE m

CleanBloc(m, bloc) == WriteBloc(m, bloc, Zero)

SaveSuper(m) == WriteBloc(m, 0, m.super)

\* read_super_bloc: the assert on SUPER_MAGIC stops the process.
LoadSuper(m) ==
    IF m.disk[0].kind = "super"
      THEN [m EXCEPT !.super = m.disk[0]]
      ELSE Stopped(m)

\* Mutant: bloc 0 counted as free.
InitSuperCountsBlocZero(m) ==
    LET fresh == Super(NULL_BLOC, NSector, 1)
    IN  WriteBloc(WriteBloc([m EXCEPT !.super = fresh], 0, fresh),
                  1, FreeBlc(NSector - 1, NULL_BLOC))

\* init_super: the blocs 1 .. NSector-1 are one run of free blocs.
InitSuper(m) ==
    LET fresh == Super(NULL_BLOC, NSector - 1, 1)
    IN  WriteBloc(WriteBloc([m EXCEPT !.super = fresh], 0, fresh),
                  1, FreeBlc(NSector - 1, NULL_BLOC))

-----------------------------------------------------------------------------
(* The list of free blocs: super.first_free is the head, and a head is the  *)
(* header of a run of nb_free_blocs blocs.                                  *)

\* Mutant: no test for a full volume.
NewBlocOfFullVolume(m) ==
    LET first == m.super.first_free
        taken == [m EXCEPT !.super.nb_free_blc = @ - 1,
                           !.super.first_free = first + 1]
    IN  IF ~m.ok THEN m
        ELSE IF m.disk[first].kind # "free" THEN Stopped(m)
        ELSE Return(WriteBloc(SaveSuper(taken), first + 1, m.disk[first]), first)

\* Mutant: the magic of the head of the list is not tested.
NewBlocUnchecked(m) ==
    LET first == m.super.first_free
        head  == IF m.disk[first].kind = "free" THEN m.disk[first]
                                                ELSE FreeBlc(0, NULL_BLOC)
        taken == [m EXCEPT !.super.nb_free_blc = @ - 1]
    IN  IF ~m.ok THEN m
        ELSE IF m.super.nb_free_blc = 0 THEN Return(m, NULL_BLOC)
        ELSE IF head.nb_free_blocs = 1
          THEN Return(SaveSuper([taken EXCEPT !.super.first_free = head.next]),
                      head.next)
          ELSE Return(WriteBloc(
                        SaveSuper([taken EXCEPT !.super.first_free = first + 1]),
                        first + 1, head),
                      first)

\* Mutant: the header of the run is not written one bloc on.
NewBlocLeavesHeader(m) ==
    LET first == m.super.first_free
        taken == [m EXCEPT !.super.nb_free_blc = @ - 1,
                           !.super.first_free = first + 1]
    IN  IF ~m.ok THEN m
        ELSE IF m.super.nb_free_blc = 0 THEN Return(m, NULL_BLOC)
        ELSE IF m.disk[first].kind # "free" THEN Stopped(m)
        ELSE Return(SaveSuper(taken), first)

\* Mutant: the free blocs are not counted down.
NewBlocUncounted(m) ==
    LET first == m.super.first_free
        taken == [m EXCEPT !.super.first_free = first + 1]
    IN  IF ~m.ok THEN m
        ELSE IF m.super.nb_free_blc = 0 THEN Return(m, NULL_BLOC)
        ELSE IF m.disk[first].kind # "free" THEN Stopped(m)
        ELSE Return(WriteBloc(SaveSuper(taken), first + 1, m.disk[first]), first)

NewBloc(m) ==
    LET first == m.super.first_free
        head  == m.disk[first]
        Taken(next) == SaveSuper([m EXCEPT !.super =
                         Super(m.super.root, m.super.nb_free_blc - 1, next)])
    IN  IF ~m.ok THEN m
        ELSE IF m.super.nb_free_blc = 0 THEN Return(m, NULL_BLOC)
        ELSE IF head.kind # "free" THEN Stopped(m)
        ELSE IF head.nb_free_blocs = 1
          \* The value returned is the new head of the list.
          THEN Return(Taken(head.next), head.next)
          \* The header moves one bloc on, its nb_free_blocs as it was.
          ELSE Return(WriteBloc(Taken(first + 1), first + 1, head), first)

\* Mutant: the super bloc is not saved.
FreeBlocUnsaved(m, bloc) ==
    LET old    == m.super.first_free
        pushed == [m EXCEPT !.super.first_free = bloc,
                            !.super.nb_free_blc = @ + 1]
    IN  WriteBloc(CleanBloc(pushed, bloc), bloc, FreeBlc(1, old))

\* The caller holds a loaded super bloc or the volume is read first.
FreeBloc(m, bloc) ==
    LET loaded == IF m.super = NoSuper THEN LoadSuper(m) ELSE m
        old    == loaded.super
        pushed == [loaded EXCEPT !.super =
                     Super(old.root, old.nb_free_blc + 1, bloc)]
    IN  IF ~loaded.ok THEN loaded
        ELSE WriteBloc(CleanBloc(SaveSuper(pushed), bloc),
                       bloc, FreeBlc(1, old.first_free))
=============================================================================

---------------------------- MODULE Inodes_proofs ----------------------------
(***************************************************************************)
(* The calls of filesystem.c on the blocs of files, for tables of any size  *)
(* and a volume of any size: what new_bloc, the lookup and the allocation   *)
(* of a file bloc do to a volume on which nothing was freed.                *)
(*                                                                         *)
(* The double indirect table is left out: an allocation there loses blocs   *)
(* (run ifile_double).                                                     *)
(***************************************************************************)
EXTENDS Inodes, TLAPS

USE NSectorAssumption, InodesAssumption

-----------------------------------------------------------------------------
(* Machines.                                                               *)

Fields == {"disk", "super", "ok", "ret", "log"}

\* m is a machine that no assert and no exit has stopped.
Running(m) == DOMAIN m = Fields /\ m.ok

Put(d, b, c) == [d EXCEPT ![b] = c]

(* A process that has just started.                                        *)
LEMMA MachineIs ==
    ASSUME NEW d, NEW s
    PROVE  /\ Running(Machine(d, s))
           /\ Machine(d, s).disk = d /\ Machine(d, s).super = s
  BY DEF Machine, Running, Fields

(* A write changes one bloc.                                               *)
LEMMA WriteIs ==
    ASSUME NEW m, Running(m), NEW b, NEW c
    PROVE  /\ Running(WriteBloc(m, b, c))
           /\ WriteBloc(m, b, c).disk = Put(m.disk, b, c)
           /\ WriteBloc(m, b, c).super = m.super
           /\ WriteBloc(m, b, c).ret = m.ret
  BY DEF WriteBloc, Running, Fields, Put

(* What a call returns changes nothing else.                               *)
LEMMA ReturnIs ==
    ASSUME NEW m, Running(m), NEW v
    PROVE  /\ Running(Return(m, v))
           /\ Return(m, v).disk = m.disk /\ Return(m, v).super = m.super
           /\ Return(m, v).ret = v
  BY DEF Return, Running, Fields

\* A change of the super bloc in memory.
Changed(m, t) == [m EXCEPT !.super = t]

(* A change of the super bloc in memory, saved at once.                    *)
LEMMA SaveIs ==
    ASSUME NEW m, Running(m), NEW t
    PROVE  /\ Running(SaveSuper(Changed(m, t)))
           /\ SaveSuper(Changed(m, t)).disk = Put(m.disk, 0, t)
           /\ SaveSuper(Changed(m, t)).super = t
  <1>1. /\ Running(Changed(m, t)) /\ Changed(m, t).super = t
        /\ Changed(m, t).disk = m.disk
    BY DEF Running, Fields, Changed
  <1> QED
    BY <1>1, WriteIs DEF SaveSuper

(* A call that has stopped wrote what it wrote.                            *)
LEMMA StoppedIs ==
    ASSUME NEW m, DOMAIN m = Fields
    PROVE  /\ DOMAIN Stopped(m) = Fields
           /\ ~Stopped(m).ok
           /\ Stopped(m).disk = m.disk /\ Stopped(m).super = m.super
  BY DEF Stopped, Fields

\* The blocs of a volume, with contents of C.
Disk(C, d) == d \in [Bloc -> C]

(* Blocs after a write.                                                    *)
LEMMA PutIs ==
    ASSUME NEW C, NEW d, Disk(C, d), NEW b \in Bloc, NEW c \in C
    PROVE  /\ Disk(C, Put(d, b, c))
           /\ Put(d, b, c)[b] = c
           /\ \A x \in Bloc : x # b => Put(d, b, c)[x] = d[x]
  BY DEF Put, Disk

-----------------------------------------------------------------------------
(* Contents of blocs.                                                      *)

TableBlocs == [kind : {"table"}, entries : [Index -> Bloc]]

(***************************************************************************)
(* A set of contents in which the calls of filesystem.c stay: whatever root *)
(* a super bloc, or type an inode, or octets a data bloc of the set has.    *)
(***************************************************************************)
ClosedFree(C) == Zero \in C /\ \A nb \in Nat, next \in Bloc : FreeBlc(nb, next) \in C

ClosedSuper(C) ==
    \A c \in C : c.kind = "super" =>
      /\ c.nb_free_blc \in Nat /\ c.first_free \in Bloc
      /\ \A nb \in Nat, first \in Bloc : Super(c.root, nb, first) \in C

ClosedTable(C) ==
    /\ TableBlocs \subseteq C
    /\ \A c \in C : c.kind = "table" => c \in TableBlocs

ClosedInode(C) ==
    \A c \in C : c.kind = "inode" =>
      /\ c.taille \in 0 .. MaxFbloc
      /\ c.direct \in [Index -> Bloc] /\ c.indirect \in Bloc /\ c.double \in Bloc
      /\ c = Inode(c.type, c.taille, c.direct, c.indirect, c.double)
      /\ \A taille \in 0 .. MaxFbloc, direct \in [Index -> Bloc],
            indirect \in Bloc, double \in Bloc :
           Inode(c.type, taille, direct, indirect, double) \in C

Complete(C) == ClosedFree(C) /\ ClosedSuper(C) /\ ClosedTable(C) /\ ClosedInode(C)

(* The kinds of what is written.                                           *)
LEMMA Kinds ==
    /\ Zero.kind = "zero"
    /\ \A root, nb, first : /\ Super(root, nb, first).kind = "super"
                            /\ Super(root, nb, first).root = root
                            /\ Super(root, nb, first).nb_free_blc = nb
                            /\ Super(root, nb, first).first_free = first
    /\ \A nb, next : /\ FreeBlc(nb, next).kind = "free"
                     /\ FreeBlc(nb, next).nb_free_blocs = nb
                     /\ FreeBlc(nb, next).next = next
    /\ \A entries : Table(entries).kind = "table" /\ Table(entries).entries = entries
    /\ NoSuper.kind = "none"
  BY DEF Zero, Super, FreeBlc, Table, NoSuper

(* The fields of an inode.                                                 *)
LEMMA InodeIs ==
    ASSUME NEW type, NEW taille, NEW direct, NEW indirect, NEW double,
           NEW n, n = Inode(type, taille, direct, indirect, double)
    PROVE  /\ n.kind = "inode" /\ n.type = type /\ n.taille = taille
           /\ n.direct = direct /\ n.indirect = indirect /\ n.double = double
           /\ DOMAIN n = {"kind", "type", "taille", "direct", "indirect", "double"}
  BY DEF Inode

-----------------------------------------------------------------------------
(* The free blocs.                                                         *)

Header == FreeBlc(NSector - 1, NULL_BLOC)

\* The free blocs are one run up to the end of the volume, and its header is as
\* init_super wrote it.
FreeRun(d, s) ==
    /\ s.nb_free_blc > 0 =>
         /\ s.first_free \in 1 .. NSector - 1
         /\ s.first_free + s.nb_free_blc = NSector
         /\ d[s.first_free] = Header
    /\ s.nb_free_blc = 0 => s.first_free = (IF NSector = 2 THEN 0 ELSE NSector)

\* The super bloc in memory is the one on disk, or was lost on a full volume.
Saved(d, s) == d[0] = s \/ (s.nb_free_blc = 0 /\ d[0].kind # "super")

FreeBlocs(C, d, s) ==
    /\ Disk(C, d)
    /\ s \in C /\ s.kind = "super"
    /\ FreeRun(d, s) /\ Saved(d, s)

\* What a write may change: a bloc handed out, or bloc 0 of a full volume.
MayWrite(s, b, c) ==
    b \in 1 .. s.first_free - 1 \/ (b = 0 /\ s.nb_free_blc = 0 /\ c.kind # "super")

(* The free blocs stay as they are.                                        *)
LEMMA FreeBlocsKept ==
    ASSUME NEW C, Complete(C), NEW d, NEW s, FreeBlocs(C, d, s),
           NEW b \in Bloc, NEW c \in C, MayWrite(s, b, c)
    PROVE  FreeBlocs(C, Put(d, b, c), s)
  <1>1. /\ Disk(C, d) /\ s.first_free \in Bloc /\ s.nb_free_blc \in Nat
        /\ 0 \in Bloc
    BY DEF FreeBlocs, Complete, ClosedSuper, Bloc
  <1>2. /\ Disk(C, Put(d, b, c)) /\ Put(d, b, c)[b] = c
        /\ \A x \in Bloc : x # b => Put(d, b, c)[x] = d[x]
    BY <1>1, PutIs
  <1>3. FreeRun(Put(d, b, c), s)
    BY <1>1, <1>2 DEF FreeBlocs, FreeRun, MayWrite, Bloc
  <1>4. Saved(Put(d, b, c), s)
    BY <1>1, <1>2 DEF FreeBlocs, Saved, MayWrite, Bloc
  <1> QED
    BY <1>2, <1>3, <1>4 DEF FreeBlocs

\* Bloc 0 was written over by a call that found the volume full.
Lost(m) == m.super.nb_free_blc = 0 /\ m.disk[0].kind # "super"

(***************************************************************************)
(* What new_bloc has done: it returns the first free bloc and the run is    *)
(* one shorter, or the volume is full and it returns 0.                     *)
(***************************************************************************)
Taken(C, m, r) ==
    /\ Running(r)
    /\ FreeBlocs(C, r.disk, r.super)
    /\ Lost(m) => Lost(r)
    /\ \A b \in 1 .. m.super.first_free - 1 : r.disk[b] = m.disk[b]
    /\ \/ /\ r.ret = NULL_BLOC /\ r.super.nb_free_blc = 0
          /\ 1 .. r.super.first_free - 1 = 1 .. m.super.first_free - 1
       \/ /\ r.ret = m.super.first_free /\ r.ret \in 1 .. NSector - 1
          /\ r.super.first_free = r.ret + 1

(* new_bloc, on a full volume, on the volume of two blocs and on others.   *)
LEMMA NewBlocIs ==
    ASSUME NEW C, Complete(C), NEW m, Running(m), FreeBlocs(C, m.disk, m.super)
    PROVE  Taken(C, m, NewBloc(m))
  <1> DEFINE s == m.super
             first == s.first_free
             Less(next) == Super(s.root, s.nb_free_blc - 1, next)
  <1>1. /\ Disk(C, m.disk) /\ first \in Bloc /\ s.nb_free_blc \in Nat
        /\ s \in C /\ s.kind = "super" /\ m.ok /\ 0 \in Bloc
    BY DEF FreeBlocs, Complete, ClosedSuper, Running, Bloc
  <1>2. CASE s.nb_free_blc = 0
    <2>1. NewBloc(m) = Return(m, NULL_BLOC)
      BY <1>1, <1>2 DEF NewBloc
    <2> QED
      BY <1>2, <2>1, ReturnIs DEF Taken, Lost
  <1>3. CASE s.nb_free_blc # 0
    <2>1. /\ first \in 1 .. NSector - 1 /\ first + s.nb_free_blc = NSector
          /\ m.disk[first] = Header
      BY <1>1, <1>3 DEF FreeBlocs, FreeRun
    <2>2. /\ Header.kind = "free" /\ Header.nb_free_blocs = NSector - 1
          /\ Header.next = NULL_BLOC /\ Header \in C
      BY Kinds DEF Header, Complete, ClosedFree, Bloc, NULL_BLOC
    <2>3. CASE NSector = 2
      <3> DEFINE saved == SaveSuper(Changed(m, Less(NULL_BLOC)))
      <3>1. NewBloc(m) = Return(saved, NULL_BLOC)
        BY <1>1, <1>3, <2>1, <2>2, <2>3 DEF NewBloc, Changed
      <3>2. /\ Running(saved) /\ saved.super = Less(NULL_BLOC)
            /\ saved.disk = Put(m.disk, 0, Less(NULL_BLOC))
        BY SaveIs
      <3> HIDE DEF saved
      <3>3. /\ Less(NULL_BLOC) \in C
            /\ Less(NULL_BLOC).kind = "super" /\ Less(NULL_BLOC).nb_free_blc = 0
            /\ Less(NULL_BLOC).first_free = 0
        <4>1. s.nb_free_blc - 1 = 0 /\ 0 \in Nat /\ NULL_BLOC \in Bloc /\ NULL_BLOC = 0
          BY <1>1, <2>1, <2>3 DEF NULL_BLOC, Bloc
        <4> QED
          BY <1>1, <4>1, Kinds DEF Complete, ClosedSuper
      <3>4. /\ Disk(C, saved.disk) /\ saved.disk[0] = saved.super
        BY <1>1, <3>2, <3>3, PutIs
      <3>5. FreeBlocs(C, saved.disk, saved.super)
        BY <2>3, <3>2, <3>3, <3>4 DEF FreeBlocs, FreeRun, Saved
      <3>6. first = 1
        BY <2>1, <2>3
      <3> QED
        BY <1>3, <3>1, <3>2, <3>3, <3>5, <3>6, ReturnIs DEF Taken, Lost
    <2>4. CASE NSector # 2
      <3> DEFINE t == Less(first + 1)
                 saved == SaveSuper(Changed(m, t))
                 written == WriteBloc(saved, first + 1, Header)
      <3>1. NewBloc(m) = Return(written, first)
        BY <1>1, <1>3, <2>1, <2>2, <2>4 DEF NewBloc, Changed
      <3>2. /\ Running(saved) /\ saved.super = t /\ saved.disk = Put(m.disk, 0, t)
        BY SaveIs
      <3>3. /\ t \in C /\ t.kind = "super" /\ t.first_free = first + 1
            /\ t.nb_free_blc = s.nb_free_blc - 1 /\ first + 1 \in Bloc
        <4>1. s.nb_free_blc - 1 \in Nat /\ first + 1 \in Bloc
          BY <1>1, <1>3, <2>1 DEF Bloc
        <4> QED
          BY <1>1, <4>1, Kinds DEF Complete, ClosedSuper
      <3> HIDE DEF saved, t
      <3>4. /\ Running(written) /\ written.super = t
            /\ written.disk = Put(Put(m.disk, 0, t), first + 1, Header)
        BY <3>2, WriteIs
      <3> HIDE DEF written
      <3>5. /\ Disk(C, written.disk)
            /\ written.disk[0] = t /\ written.disk[first + 1] = Header
            /\ \A x \in Bloc \ {0, first + 1} : written.disk[x] = m.disk[x]
        <4>1. /\ Disk(C, Put(m.disk, 0, t)) /\ Put(m.disk, 0, t)[0] = t
              /\ \A x \in Bloc : x # 0 => Put(m.disk, 0, t)[x] = m.disk[x]
          <5>1. Disk(C, m.disk) /\ 0 \in Bloc /\ t \in C
            BY <1>1, <3>3
          <5> QED
            BY ONLY <5>1, PutIs
        <4>2. 0 \in Bloc /\ 0 # first + 1 /\ first + 1 \in Bloc /\ Header \in C
          BY <2>1, <2>2, <3>3 DEF Bloc
        <4> DEFINE saving == Put(m.disk, 0, t)
        <4>3. /\ Disk(C, saving) /\ saving[0] = t
              /\ \A x \in Bloc : x # 0 => saving[x] = m.disk[x]
          BY ONLY <4>1
        <4>4. written.disk = Put(saving, first + 1, Header)
          BY ONLY <3>4
        <4> HIDE DEF saving
        <4>5. /\ Disk(C, Put(saving, first + 1, Header))
              /\ Put(saving, first + 1, Header)[first + 1] = Header
              /\ \A x \in Bloc : x # first + 1 => Put(saving, first + 1, Header)[x] = saving[x]
          BY ONLY <4>2, <4>3, PutIs
        <4> QED
          BY ONLY <4>2, <4>3, <4>4, <4>5
      <3>6. FreeBlocs(C, written.disk, written.super)
        BY <1>1, <1>3, <2>1, <2>4, <3>3, <3>4, <3>5 DEF FreeBlocs, FreeRun, Saved
      <3>7. \A b \in 1 .. first - 1 : written.disk[b] = m.disk[b]
        BY <2>1, <3>5 DEF Bloc
      <3> QED
        BY <1>3, <2>1, <3>1, <3>3, <3>4, <3>6, <3>7, ReturnIs DEF Taken, Lost
    <2> QED
      BY <2>3, <2>4
  <1> QED
    BY <1>2, <1>3

-----------------------------------------------------------------------------
(* The blocs that files own.                                               *)

Fbloc == 0 .. 2 * NB_BLOCS - 1

\* The slots of an inode: one for each file bloc, and one for its indirect table.
TableSlot == 2 * NB_BLOCS

Slot == 0 .. 2 * NB_BLOCS

Named(d, i, k) == IF k = TableSlot THEN d[i].indirect ELSE NamedBloc(d, i, k)

\* Inode i, its indirect table and its data are what they should be; its taille
\* follows the direct table and the making of the indirect one.
ShapeOf(d, i) ==
    /\ d[i].kind = "inode" /\ d[i].double = NULL_BLOC /\ d[i].taille <= 2 * NB_BLOCS
    /\ \A k \in Index : d[i].direct[k] # NULL_BLOC => d[i].taille > k
    /\ d[i].indirect # NULL_BLOC => d[i].taille > NB_BLOCS /\ IsTable(d[d[i].indirect])
    /\ \A k \in Fbloc : Named(d, i, k) # NULL_BLOC => d[Named(d, i, k)].kind \in {"zero", "data"}

Shaped(d, I) == \A i \in I : ShapeOf(d, i)

\* No bloc is in two slots.
Apart(d, I) ==
    \A i, j \in I : \A k, l \in Slot :
       Named(d, i, k) # NULL_BLOC /\ Named(d, i, k) = Named(d, j, l) => i = j /\ k = l

\* The inodes I and the blocs in their slots are the blocs U.
Covers(d, I, U) ==
    /\ I \subseteq U
    /\ \A i \in I : \A k \in Slot : Named(d, i, k) # NULL_BLOC => Named(d, i, k) \in U \ I
    /\ \A b \in U \ I : \E i \in I : \E k \in Slot : Named(d, i, k) = b

Owned(d, I, U) == NULL_BLOC \notin U /\ Shaped(d, I) /\ Apart(d, I) /\ Covers(d, I, U)

\* A volume on which nothing was freed, with the inodes I.
Volume(C, d, s, I) == FreeBlocs(C, d, s) /\ Owned(d, I, 1 .. s.first_free - 1)

(* Slots and indices.                                                      *)
LEMMA SlotIs ==
    /\ Slot = Fbloc \cup {TableSlot} /\ TableSlot \notin Fbloc
    /\ Index \subseteq Fbloc /\ NB_BLOCS \in Nat
    /\ \A k \in Fbloc \ Index : k - NB_BLOCS \in Index /\ k >= NB_BLOCS /\ k \in Nat
    /\ \A k, l \in Fbloc \ Index : k - NB_BLOCS = l - NB_BLOCS => k = l
    /\ \A k \in Index : k < NB_BLOCS /\ k \in Nat
  BY DEF Slot, Fbloc, TableSlot, Index

(* The slots of an inode, one kind after the other.                        *)
LEMMA NamedIs ==
    ASSUME NEW d, NEW i
    PROVE  /\ Named(d, i, TableSlot) = d[i].indirect
           /\ \A k \in Index : Named(d, i, k) = d[i].direct[k]
           /\ \A k \in Fbloc \ Index :
                Named(d, i, k) = IF d[i].indirect = NULL_BLOC THEN NULL_BLOC
                                 ELSE Entries(d[d[i].indirect])[k - NB_BLOCS]
  <1>1. Named(d, i, TableSlot) = d[i].indirect
    BY DEF Named
  <1>2. ASSUME NEW k \in Index
        PROVE  Named(d, i, k) = d[i].direct[k]
    BY SlotIs DEF Named, NamedBloc
  <1>3. ASSUME NEW k \in Fbloc \ Index
        PROVE  Named(d, i, k) = IF d[i].indirect = NULL_BLOC THEN NULL_BLOC
                                ELSE Entries(d[d[i].indirect])[k - NB_BLOCS]
    <2>1. k # TableSlot /\ ~(k < NB_BLOCS) /\ k - 2 * NB_BLOCS < 0
      BY SlotIs DEF Fbloc
    <2> QED
      BY <2>1 DEF Named, NamedBloc, EntryOf
  <1> QED
    BY <1>1, <1>2, <1>3

\* The name in slot k of inode i, as NamedFrom has it.
NameIn(d, i, k) ==
    IF k = TableSlot THEN <<i, NB_BLOCS, d[i].indirect>>
    ELSE IF k \in Index THEN <<i, k, d[i].direct[k]>>
    ELSE <<d[i].indirect, k - NB_BLOCS, Entries(d[d[i].indirect])[k - NB_BLOCS]>>

(* The names of a file are those in its slots.                             *)
LEMMA NamesIs ==
    ASSUME NEW d, NEW i, d[i].double = NULL_BLOC
    PROVE  /\ NamedFrom(d, i) = { NameIn(d, i, k) : k \in { l \in Slot : Named(d, i, l) # NULL_BLOC } }
           /\ \A k \in Slot : Named(d, i, k) # NULL_BLOC => NameIn(d, i, k)[3] = Named(d, i, k)
  <1> DEFINE t == d[i].indirect
             e == Entries(d[t])
             Full == { l \in Slot : Named(d, i, l) # NULL_BLOC }
  <1>1. /\ Slot = Index \cup (Fbloc \ Index) \cup {TableSlot} /\ TableSlot \notin Fbloc
        /\ Index \subseteq Fbloc
    BY SlotIs
  <1>2. \A k \in Index : Named(d, i, k) = d[i].direct[k] /\ NameIn(d, i, k) = <<i, k, d[i].direct[k]>>
    BY <1>1, NamedIs DEF NameIn
  <1>3. Named(d, i, TableSlot) = t /\ NameIn(d, i, TableSlot) = <<i, NB_BLOCS, t>>
    BY NamedIs DEF NameIn
  <1>4. \A k \in Fbloc \ Index :
           /\ Named(d, i, k) = IF t = NULL_BLOC THEN NULL_BLOC ELSE e[k - NB_BLOCS]
           /\ NameIn(d, i, k) = <<t, k - NB_BLOCS, e[k - NB_BLOCS]>>
    BY <1>1, NamedIs DEF NameIn
  <1>5. \A k \in Index : k + NB_BLOCS \in Fbloc \ Index /\ (k + NB_BLOCS) - NB_BLOCS = k
    BY DEF Index, Fbloc
  <1>6. \A k \in Fbloc \ Index : k - NB_BLOCS \in Index
    BY SlotIs
  <1>7. EntriesOf(d, NULL_BLOC) = {}
    BY DEF EntriesOf
  <1>8. NamedFrom(d, i) =
          { n \in { <<i, k, d[i].direct[k]>> : k \in Index } \cup {<<i, NB_BLOCS, t>>}
                  \cup {<<i, NB_BLOCS + 1, NULL_BLOC>>} \cup EntriesOf(d, t) : n[3] # NULL_BLOC }
    <2>1. { x[3] : x \in EntriesOf(d, d[i].double) } = {}
      BY <1>7
    <2> QED
      BY <1>7, <2>1 DEF NamedFrom
  <1>9. EntriesOf(d, t) = IF t = NULL_BLOC THEN {} ELSE { <<t, k, e[k]>> : k \in Index }
    BY DEF EntriesOf
  <1> HIDE DEF e, t
  <1>10. ASSUME NEW n \in NamedFrom(d, i)
         PROVE  \E k \in Full : n = NameIn(d, i, k)
    <2>1. CASE \E k \in Index : n = <<i, k, d[i].direct[k]>>
      BY <1>1, <1>2, <1>8, <2>1
    <2>2. CASE n = <<i, NB_BLOCS, t>>
      BY <1>1, <1>3, <1>8, <2>2
    <2>3. CASE n \in EntriesOf(d, t)
      <3>1. PICK k \in Index : n = <<t, k, e[k]>> /\ t # NULL_BLOC /\ e[k] # NULL_BLOC
        BY <1>8, <1>9, <2>3
      <3>2. k + NB_BLOCS \in Full /\ n = NameIn(d, i, k + NB_BLOCS)
        BY <1>1, <1>4, <1>5, <3>1
      <3> QED
        BY <3>2
    <2>4. n # <<i, NB_BLOCS + 1, NULL_BLOC>>
      BY <1>8
    <2> QED
      BY <1>8, <2>1, <2>2, <2>3, <2>4
  <1>11. ASSUME NEW k \in Full
         PROVE  NameIn(d, i, k) \in NamedFrom(d, i)
    <2>1. CASE k \in Index
      BY <1>2, <1>8, <2>1
    <2>2. CASE k = TableSlot
      BY <1>3, <1>8, <2>2
    <2>3. CASE k \in Fbloc \ Index
      <3>1. t # NULL_BLOC /\ e[k - NB_BLOCS] # NULL_BLOC
        BY <1>4, <2>3
      <3>2. NameIn(d, i, k) \in EntriesOf(d, t)
        BY <1>4, <1>6, <1>9, <2>3, <3>1
      <3> QED
        BY <1>4, <1>8, <2>3, <3>1, <3>2
    <2> QED
      BY <1>1, <2>1, <2>2, <2>3
  <1>12. \A k \in Slot : Named(d, i, k) # NULL_BLOC => NameIn(d, i, k)[3] = Named(d, i, k)
    BY <1>1, <1>2, <1>3, <1>4
  <1> QED
    BY <1>10, <1>11, <1>12

(* The file blocs below the double indirect table.                         *)
LEMMA FblocIs ==
    /\ MaxFbloc \in Nat /\ 2 * NB_BLOCS < MaxFbloc
    /\ \A k \in Fbloc : k + 1 \in 0 .. MaxFbloc
  <1>1. NB_BLOCS * NB_BLOCS \in Nat /\ NB_BLOCS * NB_BLOCS > 0
    OBVIOUS
  <1>2. (2 + NB_BLOCS) * NB_BLOCS = 2 * NB_BLOCS + NB_BLOCS * NB_BLOCS
    OBVIOUS
  <1>3. MaxFbloc \in Nat /\ 2 * NB_BLOCS < MaxFbloc
    BY <1>1, <1>2 DEF MaxFbloc
  <1>4. \A k \in Fbloc : k + 1 \in 0 .. MaxFbloc
    BY <1>3 DEF Fbloc
  <1> QED
    BY <1>3, <1>4

(* What the slots of an inode name is read from the inode and its table.   *)
LEMMA SameNames ==
    ASSUME NEW d, NEW d2, NEW i, d2[i] = d[i],
           d[i].indirect # NULL_BLOC => Entries(d2[d[i].indirect]) = Entries(d[d[i].indirect])
    PROVE  \A k \in Slot : Named(d2, i, k) = Named(d, i, k)
  <1> SUFFICES ASSUME NEW k \in Slot
               PROVE  Named(d2, i, k) = Named(d, i, k)
    OBVIOUS
  <1>1. CASE k = TableSlot
    BY <1>1, NamedIs
  <1>2. CASE k \in Index
    BY <1>2, NamedIs
  <1>3. CASE k \in Fbloc \ Index
    BY <1>3, NamedIs
  <1> QED
    BY <1>1, <1>2, <1>3, SlotIs

(* One bloc changes, and it is not one of inode j.                         *)
LEMMA Untouched ==
    ASSUME NEW d, NEW I, NEW U, Owned(d, I, U), NEW j \in I,
           NEW w, w # j, \A k \in Slot : Named(d, j, k) # NULL_BLOC => Named(d, j, k) # w,
           NEW d2, \A x \in U : x # w => d2[x] = d[x]
    PROVE  /\ d2[j] = d[j]
           /\ \A k \in Slot : Named(d2, j, k) = Named(d, j, k)
           /\ \A k \in Slot : Named(d, j, k) # NULL_BLOC => d2[Named(d, j, k)] = d[Named(d, j, k)]
           /\ ShapeOf(d2, j)
  <1>1. j \in U /\ d2[j] = d[j]
    BY DEF Owned, Covers
  <1>2. \A k \in Slot : Named(d, j, k) # NULL_BLOC => d2[Named(d, j, k)] = d[Named(d, j, k)]
    BY DEF Owned, Covers
  <1>3. d[j].indirect # NULL_BLOC => d2[d[j].indirect] = d[d[j].indirect]
    BY <1>2, NamedIs, SlotIs
  <1>4. \A k \in Slot : Named(d2, j, k) = Named(d, j, k)
    BY <1>1, <1>3, SameNames
  <1>5. ShapeOf(d, j)
    BY DEF Owned, Shaped
  <1>6. \A k \in Fbloc : Named(d2, j, k) # NULL_BLOC => d2[Named(d2, j, k)].kind \in {"zero", "data"}
    BY <1>2, <1>4, <1>5, SlotIs DEF ShapeOf
  <1>7. ShapeOf(d2, j)
    BY <1>1, <1>3, <1>5, <1>6 DEF ShapeOf
  <1> QED
    BY <1>1, <1>2, <1>4, <1>7

\* Bloc b is in slot k of inode i, and nothing else has changed.
Fills(d, d2, I, i, k, b) ==
    \A j \in I : \A l \in Slot :
       Named(d2, j, l) = IF j = i /\ l = k THEN b ELSE Named(d, j, l)

\* The blocs in use once b was asked for.
With(U, b) == IF b = NULL_BLOC THEN U ELSE U \cup {b}

(* A bloc that nobody owned comes into an empty slot, or nothing does.     *)
LEMMA OneMore ==
    ASSUME NEW d, NEW I, NEW U, Owned(d, I, U),
           NEW i \in I, NEW k \in Slot, Named(d, i, k) = NULL_BLOC,
           NEW b, b \notin U, NEW d2, Shaped(d2, I), Fills(d, d2, I, i, k, b)
    PROVE  Owned(d2, I, With(U, b))
  <1> DEFINE V == IF b = NULL_BLOC THEN U ELSE U \cup {b}
  <1>0. \A j \in I : \A l \in Slot :
           Named(d2, j, l) = IF j = i /\ l = k THEN b ELSE Named(d, j, l)
    BY DEF Fills
  <1>1. NULL_BLOC \notin V
    BY DEF Owned
  <1>2. Apart(d2, I)
    BY <1>0 DEF Owned, Apart, Covers
  <1>3. Covers(d2, I, V)
    <2>1. I \subseteq V
      BY DEF Owned, Covers
    <2>2. \A j \in I : \A l \in Slot : Named(d2, j, l) # NULL_BLOC => Named(d2, j, l) \in V \ I
      BY <1>0 DEF Owned, Covers
    <2>3. ASSUME NEW x \in V \ I
          PROVE  \E j \in I : \E l \in Slot : Named(d2, j, l) = x
      <3>1. CASE x \in U
        <4>1. PICK j \in I, l \in Slot : Named(d, j, l) = x
          BY <2>3, <3>1 DEF Owned, Covers
        <4>2. x # NULL_BLOC
          BY <3>1 DEF Owned
        <4> QED
          BY <1>0, <4>1, <4>2
      <3>2. CASE x \notin U
        BY <1>0, <2>3, <3>2
      <3> QED
        BY <3>1, <3>2
    <2> QED
      BY <2>1, <2>2, <2>3 DEF Covers
  <1> QED
    BY <1>1, <1>2, <1>3 DEF Owned, With
-----------------------------------------------------------------------------
(* One bloc more for a file.                                               *)

\* What the naming of a bloc in slot k of inode i leaves as it was: all other
\* slots but that of the table, the blocs in all slots and what they hold. The
\* new bloc is clean.
Keeps(d, d2, I, i, k) ==
    /\ \A j \in I : d2[j].type = d[j].type /\ d2[j].taille >= d[j].taille
    /\ \A j \in I \ {i} : d2[j] = d[j]
    /\ \A j \in I : \A l \in Slot : Named(d, j, l) # NULL_BLOC => Named(d2, j, l) = Named(d, j, l)
    /\ \A j \in I : \A l \in Fbloc : j # i \/ l # k => Named(d2, j, l) = Named(d, j, l)
    /\ \A j \in I : \A l \in Fbloc :
         Named(d, j, l) # NULL_BLOC => d2[Named(d, j, l)] = d[Named(d, j, l)]
    /\ Named(d, i, k) = NULL_BLOC /\ Named(d2, i, k) # NULL_BLOC => d2[Named(d2, i, k)] = Zero

\* The inode grown, with bloc b in its direct table; with b as its indirect one.
InDirect(inode, k, b) == [Grown(inode, k) EXCEPT !.direct[k] = b]
AsIndirect(inode, k, b) == [Grown(inode, k) EXCEPT !.indirect = b]

(* The changes of an inode, field by field.                                *)
LEMMA InodeChanged ==
    ASSUME NEW type, NEW taille, NEW direct, NEW indirect, NEW double, NEW k, NEW b
    PROVE  LET n == Inode(type, taille, direct, indirect, double)
           IN  /\ InDirect(n, k, b)
                    = Inode(type, Larger(taille, k + 1), [direct EXCEPT ![k] = b], indirect, double)
               /\ AsIndirect(n, k, b) = Inode(type, Larger(taille, k + 1), direct, b, double)
  <1> DEFINE n == Inode(type, taille, direct, indirect, double)
             t == Larger(taille, k + 1)
  <1>1. Grown(n, k) = Inode(type, t, direct, indirect, double)
    BY DEF Grown, Inode
  <1> HIDE DEF n, t
  <1>2. [Inode(type, t, direct, indirect, double) EXCEPT !.direct[k] = b]
          = Inode(type, t, [direct EXCEPT ![k] = b], indirect, double)
    BY DEF Inode
  <1>3. [Inode(type, t, direct, indirect, double) EXCEPT !.indirect = b]
          = Inode(type, t, direct, b, double)
    BY DEF Inode
  <1> QED
    BY <1>1, <1>2, <1>3 DEF InDirect, AsIndirect, n, t

(* A grown inode is an inode: with a bloc more in its direct table.         *)
LEMMA GrownIs ==
    ASSUME NEW C, Complete(C), NEW n \in C, n.kind = "inode", NEW k \in Index, NEW b \in Bloc
    PROVE  /\ InDirect(n, k, b) \in C
           /\ InDirect(n, k, b).kind = "inode" /\ InDirect(n, k, b).type = n.type
           /\ InDirect(n, k, b).direct = [n.direct EXCEPT ![k] = b]
           /\ InDirect(n, k, b).indirect = n.indirect /\ InDirect(n, k, b).double = n.double
           /\ InDirect(n, k, b).taille = Larger(n.taille, k + 1)
  <1>0. k \in Fbloc
    BY SlotIs
  <1>1. /\ n.taille \in 0 .. MaxFbloc
        /\ n.direct \in [Index -> Bloc] /\ n.indirect \in Bloc /\ n.double \in Bloc
        /\ n = Inode(n.type, n.taille, n.direct, n.indirect, n.double)
        /\ \A taille \in 0 .. MaxFbloc, direct \in [Index -> Bloc],
              indirect \in Bloc, double \in Bloc :
             Inode(n.type, taille, direct, indirect, double) \in C
    BY DEF Complete, ClosedInode
  <1>2. Larger(n.taille, k + 1) \in 0 .. MaxFbloc
    BY <1>0, <1>1, FblocIs DEF Larger
  <1>3. /\ InDirect(n, k, b) = Inode(n.type, Larger(n.taille, k + 1),
                                     [n.direct EXCEPT ![k] = b], n.indirect, n.double)
        /\ AsIndirect(n, k, b) = Inode(n.type, Larger(n.taille, k + 1), n.direct, b, n.double)
    <2> DEFINE t == n.type
               u == n.taille
               d == n.direct
               e == n.indirect
               f == n.double
    <2> HIDE DEF t, u, d, e, f
    <2>1. n = Inode(t, u, d, e, f)
      BY <1>1 DEF t, u, d, e, f
    <2>2. /\ InDirect(n, k, b) = Inode(t, Larger(u, k + 1), [d EXCEPT ![k] = b], e, f)
          /\ AsIndirect(n, k, b) = Inode(t, Larger(u, k + 1), d, b, f)
      BY <2>1, InodeChanged
    <2> QED
      BY <2>2 DEF t, u, d, e, f
  <1>4. [n.direct EXCEPT ![k] = b] \in [Index -> Bloc]
    BY <1>1
  <1> QED
    BY <1>1, <1>2, <1>3, <1>4, InodeIs

(* And with an indirect table.                                             *)
LEMMA TableGrownIs ==
    ASSUME NEW C, Complete(C), NEW n \in C, n.kind = "inode", NEW k \in Fbloc, NEW b \in Bloc
    PROVE  /\ AsIndirect(n, k, b) \in C
           /\ AsIndirect(n, k, b).kind = "inode" /\ AsIndirect(n, k, b).type = n.type
           /\ AsIndirect(n, k, b).direct = n.direct
           /\ AsIndirect(n, k, b).indirect = b /\ AsIndirect(n, k, b).double = n.double
           /\ AsIndirect(n, k, b).taille = Larger(n.taille, k + 1)
  <1>1. /\ n.taille \in 0 .. MaxFbloc
        /\ n.direct \in [Index -> Bloc] /\ n.indirect \in Bloc /\ n.double \in Bloc
        /\ n = Inode(n.type, n.taille, n.direct, n.indirect, n.double)
        /\ \A taille \in 0 .. MaxFbloc, direct \in [Index -> Bloc],
              indirect \in Bloc, double \in Bloc :
             Inode(n.type, taille, direct, indirect, double) \in C
    BY DEF Complete, ClosedInode
  <1>2. Larger(n.taille, k + 1) \in 0 .. MaxFbloc
    BY <1>1, FblocIs DEF Larger
  <1>3. /\ InDirect(n, k, b) = Inode(n.type, Larger(n.taille, k + 1),
                                     [n.direct EXCEPT ![k] = b], n.indirect, n.double)
        /\ AsIndirect(n, k, b) = Inode(n.type, Larger(n.taille, k + 1), n.direct, b, n.double)
    <2> DEFINE t == n.type
               u == n.taille
               d == n.direct
               e == n.indirect
               f == n.double
    <2> HIDE DEF t, u, d, e, f
    <2>1. n = Inode(t, u, d, e, f)
      BY <1>1 DEF t, u, d, e, f
    <2>2. /\ InDirect(n, k, b) = Inode(t, Larger(u, k + 1), [d EXCEPT ![k] = b], e, f)
          /\ AsIndirect(n, k, b) = Inode(t, Larger(u, k + 1), d, b, f)
      BY <2>1, InodeChanged
    <2> QED
      BY <2>2 DEF t, u, d, e, f
  <1> QED
    BY <1>1, <1>2, <1>3, InodeIs

(* The blocs of a file are of the volume; its table has entries.           *)
LEMMA Owns ==
    ASSUME NEW C, Complete(C), NEW d, Disk(C, d), NEW I, NEW U, Owned(d, I, U),
           U \subseteq Bloc, NEW i \in I
    PROVE  /\ i \in Bloc /\ i # NULL_BLOC /\ d[i] \in C /\ d[i].kind = "inode"
           /\ d[i].direct \in [Index -> Bloc] /\ d[i].taille \in Nat
           /\ d[i].indirect \in Bloc
           /\ \A k \in Slot : Named(d, i, k) \in Bloc /\ Named(d, i, k) # i
           /\ d[i].indirect # NULL_BLOC => Entries(d[d[i].indirect]) \in [Index -> Bloc]
  <1>1. i \in Bloc /\ i # NULL_BLOC /\ d[i].kind = "inode"
    BY DEF Owned, Covers, Shaped, ShapeOf
  <1>2. ASSUME NEW b \in Bloc
        PROVE  d[b] \in C
    BY DEF Disk
  <1>3. d[i].direct \in [Index -> Bloc] /\ d[i].taille \in Nat /\ d[i].indirect \in Bloc
    BY <1>1, <1>2 DEF Complete, ClosedInode
  <1>4. \A k \in Slot : Named(d, i, k) \in Bloc /\ Named(d, i, k) # i
    <2>1. NULL_BLOC \in Bloc
      BY DEF Bloc, NULL_BLOC
    <2> QED
      BY <1>1, <2>1 DEF Owned, Covers
  <1>5. ASSUME d[i].indirect # NULL_BLOC
        PROVE  Entries(d[d[i].indirect]) \in [Index -> Bloc]
    <2> DEFINE c == d[d[i].indirect]
    <2>1. c \in C
      BY <1>2, <1>3
    <2>2. NoBlocs \in [Index -> Bloc]
      BY DEF NoBlocs, Bloc, NULL_BLOC
    <2> HIDE DEF c
    <2>3. c.kind = "table" => c.entries \in [Index -> Bloc]
      BY <2>1 DEF Complete, ClosedTable, TableBlocs
    <2>4. Entries(c) \in [Index -> Bloc]
      BY <2>2, <2>3 DEF Entries
    <2> QED
      BY <2>4 DEF c
  <1> QED
    BY <1>1, <1>2, <1>3, <1>4, <1>5

(* What a change of inode i leaves alone.                                  *)
LEMMA OtherInodes ==
    ASSUME NEW d, NEW I, NEW U, Owned(d, I, U), NEW i \in I,
           NEW d2, \A x \in U : x # i => d2[x] = d[x]
    PROVE  /\ \A j \in I \ {i} : /\ d2[j] = d[j] /\ ShapeOf(d2, j)
                                 /\ \A l \in Slot : Named(d2, j, l) = Named(d, j, l)
           /\ \A j \in I : \A l \in Slot :
                Named(d, j, l) # NULL_BLOC => d2[Named(d, j, l)] = d[Named(d, j, l)]
           /\ d[i].indirect # NULL_BLOC => d2[d[i].indirect] = d[d[i].indirect]
  <1>1. \A j \in I : \A l \in Slot :
           Named(d, j, l) # NULL_BLOC => Named(d, j, l) \in U /\ Named(d, j, l) # i
    BY DEF Owned, Covers
  <1>2. ASSUME NEW j \in I \ {i}
        PROVE  /\ d2[j] = d[j] /\ ShapeOf(d2, j)
               /\ \A l \in Slot : Named(d2, j, l) = Named(d, j, l)
    <2>1. \A l \in Slot : Named(d, j, l) # NULL_BLOC => Named(d, j, l) # i
      BY <1>1
    <2> QED
      BY <2>1, Untouched
  <1>3. d[i].indirect # NULL_BLOC => d2[d[i].indirect] = d[d[i].indirect]
    BY <1>1, NamedIs, SlotIs
  <1> QED
    BY <1>1, <1>2, <1>3

(* A bloc named in the direct table of inode i.                            *)
LEMMA NameDirect ==
    ASSUME NEW C, Complete(C), NEW d, Disk(C, d), NEW I, NEW U, Owned(d, I, U), U \subseteq Bloc,
           NEW i \in I, NEW k \in Index, Named(d, i, k) = NULL_BLOC,
           NEW b \in Bloc, b \notin U,
           NEW d2, \A x \in U : x # i => d2[x] = d[x],
           d2[i] = InDirect(d[i], k, b), b # NULL_BLOC => d2[b] = Zero
    PROVE  /\ Owned(d2, I, With(U, b))
           /\ Keeps(d, d2, I, i, k)
           /\ Named(d2, i, k) = b
  <1>1. /\ d[i] \in C /\ d[i].kind = "inode" /\ d[i].direct \in [Index -> Bloc]
        /\ d[i].taille \in Nat /\ ShapeOf(d, i)
        /\ k \in Slot /\ k \in Fbloc /\ k # TableSlot
    BY Owns, SlotIs DEF Owned, Shaped
  <1>2. /\ d2[i].kind = "inode" /\ d2[i].type = d[i].type
        /\ d2[i].direct = [d[i].direct EXCEPT ![k] = b]
        /\ d2[i].indirect = d[i].indirect /\ d2[i].double = d[i].double
        /\ d2[i].taille = Larger(d[i].taille, k + 1)
    BY <1>1, GrownIs, SlotIs
  <1>3. /\ d2[i].taille \in Nat /\ d2[i].taille >= d[i].taille /\ d2[i].taille > k
        /\ d2[i].taille <= 2 * NB_BLOCS
        /\ \A l \in Index : d2[i].direct[l] = IF l = k THEN b ELSE d[i].direct[l]
    <2>1. k \in Nat /\ k < 2 * NB_BLOCS /\ d[i].taille <= 2 * NB_BLOCS
      BY <1>1 DEF Fbloc, ShapeOf
    <2>2. /\ d2[i].taille \in Nat /\ d2[i].taille >= d[i].taille /\ d2[i].taille > k
          /\ d2[i].taille <= 2 * NB_BLOCS
      BY <1>1, <1>2, <2>1 DEF Larger
    <2> QED
      BY <1>1, <1>2, <2>2
  <1>4. /\ \A j \in I \ {i} : /\ d2[j] = d[j] /\ ShapeOf(d2, j)
                              /\ \A l \in Slot : Named(d2, j, l) = Named(d, j, l)
        /\ \A j \in I : \A l \in Slot :
             Named(d, j, l) # NULL_BLOC => d2[Named(d, j, l)] = d[Named(d, j, l)]
        /\ d[i].indirect # NULL_BLOC => d2[d[i].indirect] = d[d[i].indirect]
    BY OtherInodes
  <1>5. \A l \in Slot : Named(d2, i, l) = IF l = k THEN b ELSE Named(d, i, l)
    <2> SUFFICES ASSUME NEW l \in Slot
                 PROVE  Named(d2, i, l) = IF l = k THEN b ELSE Named(d, i, l)
      OBVIOUS
    <2>1. CASE l = TableSlot
      BY <1>2, <2>1, NamedIs, SlotIs
    <2>2. CASE l \in Index
      BY <1>3, <2>2, NamedIs
    <2>3. CASE l \in Fbloc \ Index
      BY <1>2, <1>4, <2>3, NamedIs
    <2> QED
      BY <2>1, <2>2, <2>3, SlotIs
  <1>6. ShapeOf(d2, i)
    <2>1. \A l \in Fbloc : Named(d2, i, l) # NULL_BLOC => d2[Named(d2, i, l)].kind \in {"zero", "data"}
      BY <1>1, <1>4, <1>5, SlotIs, Kinds DEF ShapeOf
    <2>2. ASSUME NEW l \in Index, d2[i].direct[l] # NULL_BLOC
          PROVE  d2[i].taille > l
      <3>1. l = k \/ d[i].taille > l
        BY <1>1, <1>3, <2>2 DEF ShapeOf
      <3> QED
        BY <1>1, <1>3, <3>1, SlotIs
    <2>3. ASSUME d2[i].indirect # NULL_BLOC
          PROVE  d2[i].taille > NB_BLOCS /\ IsTable(d2[d2[i].indirect])
      <3>1. d[i].taille > NB_BLOCS /\ IsTable(d[d[i].indirect])
        BY <1>1, <1>2, <2>3 DEF ShapeOf
      <3> QED
        BY <1>1, <1>2, <1>3, <1>4, <2>3, <3>1
    <2> QED
      BY <1>1, <1>2, <1>3, <2>1, <2>2, <2>3 DEF ShapeOf
  <1>7. Shaped(d2, I)
    BY <1>4, <1>6 DEF Shaped
  <1>8. \A j \in I : \A l \in Slot :
           Named(d2, j, l) = IF j = i /\ l = k THEN b ELSE Named(d, j, l)
    BY <1>4, <1>5
  <1>9. Owned(d2, I, With(U, b))
    BY <1>1, <1>7, <1>8, OneMore DEF Fills
  <1>10. Keeps(d, d2, I, i, k)
    <2>1. \A j \in I : d2[j].type = d[j].type /\ d2[j].taille >= d[j].taille
      <3>1. \A j \in I : d[j].taille \in Nat
        BY Owns
      <3> QED
        BY <1>2, <1>3, <1>4, <3>1
    <2>2. d2[Named(d2, i, k)] = Zero \/ Named(d2, i, k) = NULL_BLOC
      BY <1>1, <1>5
    <2> QED
      BY <1>4, <1>8, <2>1, <2>2, SlotIs DEF Keeps
  <1> QED
    BY <1>1, <1>5, <1>9, <1>10

(* A bloc named as the indirect table of inode i.                          *)
LEMMA NameTable ==
    ASSUME NEW C, Complete(C), NEW d, Disk(C, d), NEW I, NEW U, Owned(d, I, U), U \subseteq Bloc,
           NEW i \in I, NEW k \in Fbloc \ Index, d[i].indirect = NULL_BLOC,
           NEW b \in Bloc, b \notin U,
           NEW d2, \A x \in U : x # i => d2[x] = d[x],
           d2[i] = AsIndirect(d[i], k, b), b # NULL_BLOC => d2[b] = Zero
    PROVE  /\ Owned(d2, I, With(U, b))
           /\ Keeps(d, d2, I, i, k)
           /\ d2[i].indirect = b
           /\ Named(d, i, k) = NULL_BLOC /\ Named(d2, i, k) = NULL_BLOC
  <1>1. /\ d[i] \in C /\ d[i].kind = "inode"
        /\ d[i].taille \in Nat /\ ShapeOf(d, i)
        /\ TableSlot \in Slot /\ k \in Fbloc /\ k # TableSlot /\ k \in Slot
        /\ Named(d, i, TableSlot) = NULL_BLOC
    BY Owns, SlotIs, NamedIs DEF Owned, Shaped
  <1>2. /\ d2[i].kind = "inode" /\ d2[i].type = d[i].type
        /\ d2[i].direct = d[i].direct
        /\ d2[i].indirect = b /\ d2[i].double = d[i].double
        /\ d2[i].taille = Larger(d[i].taille, k + 1)
    BY <1>1, TableGrownIs
  <1>3. /\ d2[i].taille \in Nat /\ d2[i].taille >= d[i].taille /\ d2[i].taille > NB_BLOCS
        /\ d2[i].taille <= 2 * NB_BLOCS
    <2>1. k \in Nat /\ k >= NB_BLOCS /\ k < 2 * NB_BLOCS /\ d[i].taille <= 2 * NB_BLOCS
      BY <1>1 DEF Fbloc, Index, ShapeOf
    <2> QED
      BY <1>1, <1>2, <2>1 DEF Larger
  <1>4. /\ \A j \in I \ {i} : /\ d2[j] = d[j] /\ ShapeOf(d2, j)
                              /\ \A l \in Slot : Named(d2, j, l) = Named(d, j, l)
        /\ \A j \in I : \A l \in Slot :
             Named(d, j, l) # NULL_BLOC => d2[Named(d, j, l)] = d[Named(d, j, l)]
    BY OtherInodes
  <1>5. \A l \in Slot : Named(d2, i, l) = IF l = TableSlot THEN b ELSE Named(d, i, l)
    <2> SUFFICES ASSUME NEW l \in Slot
                 PROVE  Named(d2, i, l) = IF l = TableSlot THEN b ELSE Named(d, i, l)
      OBVIOUS
    <2>1. CASE l = TableSlot
      BY <1>2, <2>1, NamedIs
    <2>2. CASE l \in Index
      BY <1>2, <2>2, NamedIs, SlotIs
    <2>3. CASE l \in Fbloc \ Index
      <3>1. Named(d, i, l) = NULL_BLOC
        BY <2>3, NamedIs
      <3>2. Entries(Zero) = NoBlocs /\ NoBlocs[l - NB_BLOCS] = NULL_BLOC
        BY <2>3, SlotIs, Kinds DEF Entries, NoBlocs
      <3>3. Named(d2, i, l) = NULL_BLOC
        BY <1>2, <2>3, <3>2, NamedIs
      <3> QED
        BY <2>3, <3>1, <3>3, SlotIs
    <2> QED
      BY <2>1, <2>2, <2>3, SlotIs
  <1>6. ShapeOf(d2, i)
    <2>1. \A l \in Fbloc : Named(d2, i, l) # NULL_BLOC => d2[Named(d2, i, l)].kind \in {"zero", "data"}
      BY <1>1, <1>4, <1>5, SlotIs DEF ShapeOf
    <2>2. ASSUME NEW l \in Index, d2[i].direct[l] # NULL_BLOC
          PROVE  d2[i].taille > l
      <3>1. d[i].taille > l
        BY <1>1, <1>2, <2>2 DEF ShapeOf
      <3> QED
        BY <1>1, <1>3, <3>1, SlotIs
    <2>3. ASSUME d2[i].indirect # NULL_BLOC
          PROVE  IsTable(d2[d2[i].indirect])
      BY <1>2, <2>3, Kinds DEF IsTable
    <2> QED
      BY <1>1, <1>2, <1>3, <2>1, <2>2, <2>3 DEF ShapeOf
  <1>7. Shaped(d2, I)
    BY <1>4, <1>6 DEF Shaped
  <1>8. \A j \in I : \A l \in Slot :
           Named(d2, j, l) = IF j = i /\ l = TableSlot THEN b ELSE Named(d, j, l)
    BY <1>4, <1>5
  <1>9. Owned(d2, I, With(U, b))
    BY <1>1, <1>7, <1>8, OneMore DEF Fills
  <1>10. Named(d, i, k) = NULL_BLOC /\ Named(d2, i, k) = NULL_BLOC
    BY <1>1, <1>5, NamedIs
  <1>11. Keeps(d, d2, I, i, k)
    <2>1. \A j \in I : d2[j].type = d[j].type /\ d2[j].taille >= d[j].taille
      <3>1. \A j \in I : d[j].taille \in Nat
        BY Owns
      <3> QED
        BY <1>2, <1>3, <1>4, <3>1
    <2> QED
      BY <1>1, <1>4, <1>8, <1>10, <2>1, SlotIs DEF Keeps
  <1> QED
    BY <1>2, <1>9, <1>10, <1>11

(* A bloc named in the indirect table of inode i.                          *)
LEMMA NameEntry ==
    ASSUME NEW C, Complete(C), NEW d, Disk(C, d), NEW I, NEW U, Owned(d, I, U), U \subseteq Bloc,
           NEW i \in I, NEW k \in Fbloc \ Index, Named(d, i, k) = NULL_BLOC,
           NEW t, t = d[i].indirect, t # NULL_BLOC,
           NEW b \in Bloc, b \notin U,
           NEW d2, \A x \in U : x # t => d2[x] = d[x],
           d2[t] = Table([Entries(d[t]) EXCEPT ![k - NB_BLOCS] = b]), b # NULL_BLOC => d2[b] = Zero
    PROVE  /\ Owned(d2, I, With(U, b))
           /\ Keeps(d, d2, I, i, k)
           /\ Named(d2, i, k) = b
  <1>1. /\ ShapeOf(d, i) /\ Entries(d[t]) \in [Index -> Bloc]
        /\ TableSlot \in Slot /\ k \in Fbloc /\ k # TableSlot /\ k \in Slot
        /\ Named(d, i, TableSlot) = t
    BY Owns, SlotIs, NamedIs DEF Owned, Shaped
  <1>2. t \in U /\ t \notin I
    BY <1>1 DEF Owned, Covers
  <1>3. d2[i] = d[i]
    BY <1>2 DEF Owned, Covers
  <1>4. \A j \in I \ {i} : \A l \in Slot : Named(d, j, l) # NULL_BLOC => Named(d, j, l) # t
    BY <1>1 DEF Owned, Apart
  <1>5. \A j \in I \ {i} : /\ d2[j] = d[j] /\ ShapeOf(d2, j)
                           /\ \A l \in Slot : Named(d2, j, l) = Named(d, j, l)
                           /\ \A l \in Slot :
                                Named(d, j, l) # NULL_BLOC => d2[Named(d, j, l)] = d[Named(d, j, l)]
    <2> SUFFICES ASSUME NEW j \in I \ {i}
                 PROVE  /\ d2[j] = d[j] /\ ShapeOf(d2, j)
                        /\ \A l \in Slot : Named(d2, j, l) = Named(d, j, l)
                        /\ \A l \in Slot :
                             Named(d, j, l) # NULL_BLOC => d2[Named(d, j, l)] = d[Named(d, j, l)]
      OBVIOUS
    <2>1. /\ t # j
          /\ \A l \in Slot : Named(d, j, l) # NULL_BLOC => Named(d, j, l) # t
      BY <1>2, <1>4
    <2>2. /\ Owned(d, I, U) /\ j \in I /\ d2[j] = d[j]
          /\ \A x \in U : x # t => d2[x] = d[x]
      BY <1>2 DEF Owned, Covers
    <2>3. /\ ShapeOf(d2, j)
          /\ \A l \in Slot : Named(d2, j, l) = Named(d, j, l)
          /\ \A l \in Slot :
               Named(d, j, l) # NULL_BLOC => d2[Named(d, j, l)] = d[Named(d, j, l)]
      BY ONLY <2>1, <2>2, Untouched
    <2> QED
      BY <2>2, <2>3
  <1>6. \A l \in Fbloc : Named(d, i, l) # NULL_BLOC => d2[Named(d, i, l)] = d[Named(d, i, l)]
    <2> SUFFICES ASSUME NEW l \in Fbloc, Named(d, i, l) # NULL_BLOC
                 PROVE  d2[Named(d, i, l)] = d[Named(d, i, l)]
      OBVIOUS
    <2>1. l \in Slot /\ l # TableSlot
      BY SlotIs
    <2>2. Named(d, i, l) # t /\ Named(d, i, l) \in U
      BY <1>1, <2>1 DEF Owned, Apart, Covers
    <2> QED
      BY <2>2
  <1>7. \A l \in Slot : Named(d2, i, l) = IF l = k THEN b ELSE Named(d, i, l)
    <2> SUFFICES ASSUME NEW l \in Slot
                 PROVE  Named(d2, i, l) = IF l = k THEN b ELSE Named(d, i, l)
      OBVIOUS
    <2>1. CASE l = TableSlot
      BY <1>1, <1>3, <2>1, NamedIs
    <2>2. CASE l \in Index
      BY <1>3, <2>2, NamedIs
    <2>3. CASE l \in Fbloc \ Index
      <3>1. Entries(d2[t]) = [Entries(d[t]) EXCEPT ![k - NB_BLOCS] = b]
        BY Kinds DEF Entries
      <3>2. /\ l - NB_BLOCS \in Index /\ k - NB_BLOCS \in Index
            /\ l # k => l - NB_BLOCS # k - NB_BLOCS
        BY <2>3, SlotIs
      <3>3. Entries(d2[t])[l - NB_BLOCS] = IF l = k THEN b ELSE Entries(d[t])[l - NB_BLOCS]
        BY <1>1, <3>1, <3>2
      <3> QED
        BY <1>3, <2>3, <3>3, NamedIs
    <2> QED
      BY <2>1, <2>2, <2>3, SlotIs
  <1>8. ShapeOf(d2, i)
    <2>1. \A l \in Fbloc : Named(d2, i, l) # NULL_BLOC => d2[Named(d2, i, l)].kind \in {"zero", "data"}
      BY <1>1, <1>6, <1>7, SlotIs, Kinds DEF ShapeOf
    <2>2. IsTable(d2[t])
      BY Kinds DEF IsTable
    <2> QED
      BY <1>1, <1>3, <2>1, <2>2 DEF ShapeOf
  <1>9. Shaped(d2, I)
    BY <1>5, <1>8 DEF Shaped
  <1>10. \A j \in I : \A l \in Slot :
            Named(d2, j, l) = IF j = i /\ l = k THEN b ELSE Named(d, j, l)
    BY <1>5, <1>7
  <1>11. Owned(d2, I, With(U, b))
    BY <1>1, <1>9, <1>10, OneMore DEF Fills
  <1>12. Keeps(d, d2, I, i, k)
    <2>1. \A j \in I : d2[j].type = d[j].type /\ d2[j].taille >= d[j].taille
      <3>1. \A j \in I : d[j].taille \in Nat
        BY Owns
      <3> QED
        BY <1>3, <1>5, <3>1
    <2>2. d2[Named(d2, i, k)] = Zero \/ Named(d2, i, k) = NULL_BLOC
      BY <1>1, <1>7
    <2>3. \A j \in I : \A l \in Fbloc :
            Named(d, j, l) # NULL_BLOC => d2[Named(d, j, l)] = d[Named(d, j, l)]
      BY <1>5, <1>6, SlotIs
    <2> QED
      BY <1>5, <1>10, <2>1, <2>2, <2>3, SlotIs DEF Keeps
  <1> QED
    BY <1>1, <1>7, <1>11, <1>12
-----------------------------------------------------------------------------
(* The lookup and the allocation of a file bloc.                           *)

\* The blocs handed out.
Used(s) == 1 .. s.first_free - 1

(* A write to a bloc handed out, or to bloc 0 of a full volume.            *)
LEMMA WriteKept ==
    ASSUME NEW C, Complete(C), NEW m, Running(m), FreeBlocs(C, m.disk, m.super),
           NEW b \in Bloc, NEW c \in C, MayWrite(m.super, b, c)
    PROVE  /\ Running(WriteBloc(m, b, c))
           /\ FreeBlocs(C, WriteBloc(m, b, c).disk, WriteBloc(m, b, c).super)
           /\ WriteBloc(m, b, c).super = m.super /\ WriteBloc(m, b, c).ret = m.ret
           /\ WriteBloc(m, b, c).disk[b] = c
           /\ Lost(m) => Lost(WriteBloc(m, b, c))
           /\ \A x \in Bloc : x # b => WriteBloc(m, b, c).disk[x] = m.disk[x]
  <1> DEFINE r == WriteBloc(m, b, c)
             d == m.disk
             s == m.super
  <1>1. /\ Running(r) /\ r.super = s /\ r.ret = m.ret /\ r.disk = Put(d, b, c)
    BY WriteIs
  <1>2. FreeBlocs(C, d, s) /\ Disk(C, d) /\ MayWrite(s, b, c)
    BY DEF FreeBlocs
  <1> HIDE DEF r, d, s
  <1>3. FreeBlocs(C, Put(d, b, c), s)
    BY <1>2, FreeBlocsKept
  <1>4. /\ Put(d, b, c)[b] = c
        /\ \A x \in Bloc : x # b => Put(d, b, c)[x] = d[x]
    BY <1>2, PutIs
  <1>5. /\ Running(r) /\ FreeBlocs(C, r.disk, r.super) /\ r.super = s /\ r.ret = m.ret
        /\ r.disk[b] = c /\ \A x \in Bloc : x # b => r.disk[x] = d[x]
    BY <1>1, <1>3, <1>4
  <1>6. Lost(m) => Lost(r)
    <2>1. 0 \in Bloc /\ (b = 0 => c.kind # "super")
      BY <1>2 DEF MayWrite, Bloc
    <2> QED
      BY <1>5, <2>1 DEF Lost, d, s
  <1> QED
    BY <1>5, <1>6 DEF r, d, s

\* The machine r that asked machine m for a bloc, named it in what it wrote at
\* bloc at, and cleaned it.
Grows(C, m, r, at, c) ==
    /\ Running(r) /\ FreeBlocs(C, r.disk, r.super)
    /\ r.ret \in Bloc /\ r.ret \notin Used(m.super)
    /\ Used(r.super) = With(Used(m.super), r.ret)
    /\ r.disk[at] = c
    /\ \A x \in Used(m.super) : x # at => r.disk[x] = m.disk[x]
    /\ r.ret # NULL_BLOC => r.disk[r.ret] = Zero
    /\ r.ret = NULL_BLOC \/ Lost(m) => Lost(r)

(* What new_bloc hands out nobody had.                                     *)
LEMMA TakenIs ==
    ASSUME NEW C, Complete(C), NEW m, NEW r, Taken(C, m, r),
           FreeBlocs(C, m.disk, m.super)
    PROVE  /\ r.ret \in Bloc /\ r.ret \notin Used(m.super)
           /\ Used(r.super) = With(Used(m.super), r.ret)
           /\ Used(m.super) \subseteq Used(r.super) /\ Used(r.super) \subseteq Bloc
           /\ r.ret = NULL_BLOC \/ r.ret \in Used(r.super)
           /\ r.ret = NULL_BLOC => r.super.nb_free_blc = 0
  <1>1. m.super.first_free \in Bloc /\ r.super.first_free \in Bloc
    BY DEF Taken, FreeBlocs, Complete, ClosedSuper
  <1>2. CASE /\ r.ret = NULL_BLOC /\ r.super.nb_free_blc = 0
             /\ Used(r.super) = Used(m.super)
    <2>1. 0 \notin Used(m.super) /\ Used(m.super) \subseteq Bloc
      BY <1>1 DEF Used, Bloc
    <2> QED
      BY <1>2, <2>1 DEF With, Bloc, NULL_BLOC
  <1>3. CASE /\ r.ret = m.super.first_free /\ r.ret \in 1 .. NSector - 1
             /\ r.super.first_free = r.ret + 1
    <2>1. Used(m.super) = 1 .. r.ret - 1 /\ Used(r.super) = 1 .. r.ret
      BY <1>3 DEF Used
    <2>2. /\ r.ret \in Bloc /\ r.ret # NULL_BLOC
          /\ r.ret \notin 1 .. r.ret - 1 /\ r.ret \in 1 .. r.ret
          /\ 1 .. r.ret = (1 .. r.ret - 1) \cup {r.ret}
          /\ 1 .. r.ret \subseteq Bloc
      BY <1>3 DEF Bloc, NULL_BLOC
    <2> QED
      BY <2>1, <2>2 DEF With
  <1> QED
    BY <1>2, <1>3 DEF Taken, Used

(* The bloc is named, then cleaned.                                        *)
LEMMA NameThenClean ==
    ASSUME NEW C, Complete(C), NEW m, FreeBlocs(C, m.disk, m.super),
           NEW r, Taken(C, m, r), NEW at \in Used(m.super), NEW c \in C
    PROVE  Grows(C, m, CleanFound(WriteBloc(r, at, c)), at, c)
  <1> DEFINE w == WriteBloc(r, at, c)
             v == WriteBloc(w, r.ret, Zero)
  <1>1. /\ r.ret \in Bloc /\ r.ret \notin Used(m.super)
        /\ Used(r.super) = With(Used(m.super), r.ret)
        /\ Used(m.super) \subseteq Used(r.super) /\ Used(r.super) \subseteq Bloc
        /\ r.ret = NULL_BLOC \/ r.ret \in Used(r.super)
        /\ r.ret = NULL_BLOC => r.super.nb_free_blc = 0
    BY TakenIs
  <1>2. /\ Running(r) /\ FreeBlocs(C, r.disk, r.super)
        /\ \A x \in Used(m.super) : r.disk[x] = m.disk[x]
        /\ Lost(m) => Lost(r)
    BY DEF Taken, Used
  <1>3. at \in Bloc /\ MayWrite(r.super, at, c)
    BY <1>1 DEF MayWrite, Used
  <1>4. /\ Running(w) /\ FreeBlocs(C, w.disk, w.super)
        /\ w.super = r.super /\ w.ret = r.ret
        /\ w.disk[at] = c /\ \A x \in Bloc : x # at => w.disk[x] = r.disk[x]
        /\ Lost(r) => Lost(w)
    BY <1>2, <1>3, WriteKept
  <1>5. CleanFound(w) = v
    BY <1>4 DEF CleanFound, WriteFound
  <1>6. Zero \in C /\ MayWrite(w.super, r.ret, Zero)
    BY <1>1, <1>4, Kinds DEF MayWrite, Used, Complete, ClosedFree, NULL_BLOC
  <1> HIDE DEF w
  <1>7. /\ Running(v) /\ FreeBlocs(C, v.disk, v.super)
        /\ v.super = w.super /\ v.ret = w.ret
        /\ v.disk[r.ret] = Zero /\ \A x \in Bloc : x # r.ret => v.disk[x] = w.disk[x]
        /\ Lost(w) => Lost(v)
    BY <1>1, <1>4, <1>6, WriteKept
  <1> HIDE DEF v
  <1>8. v.disk[at] = c /\ \A x \in Used(m.super) : x # at => v.disk[x] = m.disk[x]
    BY <1>1, <1>2, <1>3, <1>4, <1>7
  <1>9. v.ret = NULL_BLOC => Lost(v)
    BY <1>1, <1>4, <1>7, Kinds DEF Lost, NULL_BLOC
  <1>10. Grows(C, m, v, at, c)
    BY <1>1, <1>2, <1>4, <1>7, <1>8, <1>9 DEF Grows
  <1> QED
    BY <1>5, <1>10 DEF w

(* The bloc is cleaned, then named.                                        *)
LEMMA CleanThenName ==
    ASSUME NEW C, Complete(C), NEW m, FreeBlocs(C, m.disk, m.super),
           NEW r, Taken(C, m, r), NEW at \in Used(m.super), NEW c \in C
    PROVE  Grows(C, m, WriteBloc(CleanFound(r), at, c), at, c)
  <1> DEFINE w == WriteBloc(r, r.ret, Zero)
             v == WriteBloc(w, at, c)
  <1>1. /\ r.ret \in Bloc /\ r.ret \notin Used(m.super)
        /\ Used(r.super) = With(Used(m.super), r.ret)
        /\ Used(m.super) \subseteq Used(r.super) /\ Used(r.super) \subseteq Bloc
        /\ r.ret = NULL_BLOC \/ r.ret \in Used(r.super)
        /\ r.ret = NULL_BLOC => r.super.nb_free_blc = 0
    BY TakenIs
  <1>2. /\ Running(r) /\ FreeBlocs(C, r.disk, r.super)
        /\ \A x \in Used(m.super) : r.disk[x] = m.disk[x]
        /\ Lost(m) => Lost(r)
    BY DEF Taken, Used
  <1>3. Zero \in C /\ MayWrite(r.super, r.ret, Zero)
    BY <1>1, Kinds DEF MayWrite, Used, Complete, ClosedFree, NULL_BLOC
  <1>4. /\ Running(w) /\ FreeBlocs(C, w.disk, w.super)
        /\ w.super = r.super /\ w.ret = r.ret
        /\ w.disk[r.ret] = Zero /\ \A x \in Bloc : x # r.ret => w.disk[x] = r.disk[x]
        /\ Lost(r) => Lost(w)
    BY <1>1, <1>2, <1>3, WriteKept
  <1>5. WriteBloc(CleanFound(r), at, c) = v
    BY DEF CleanFound, WriteFound
  <1>6. at \in Bloc /\ MayWrite(w.super, at, c)
    BY <1>1, <1>4 DEF MayWrite, Used
  <1> HIDE DEF w
  <1>7. /\ Running(v) /\ FreeBlocs(C, v.disk, v.super)
        /\ v.super = w.super /\ v.ret = w.ret
        /\ v.disk[at] = c /\ \A x \in Bloc : x # at => v.disk[x] = w.disk[x]
        /\ Lost(w) => Lost(v)
    BY <1>4, <1>6, WriteKept
  <1> HIDE DEF v
  <1>8. \A x \in Used(m.super) : x # at => v.disk[x] = m.disk[x]
    BY <1>1, <1>2, <1>4, <1>7
  <1>9. v.disk[r.ret] = Zero
    BY <1>1, <1>4, <1>7
  <1>10. v.ret = NULL_BLOC => Lost(v)
    BY <1>1, <1>4, <1>7, <1>9, Kinds DEF Lost, NULL_BLOC
  <1>11. Grows(C, m, v, at, c)
    BY <1>1, <1>2, <1>4, <1>7, <1>8, <1>9, <1>10 DEF Grows
  <1> QED
    BY <1>5, <1>11 DEF w, v

\* The machine r that found bloc b and did nothing to machine m.
Finds(m, r, b) == Running(r) /\ r.disk = m.disk /\ r.super = m.super /\ r.ret = b

\* The parts of aux_vbloc_of_fbloc, with their do_allocate.
LookEntry(found, idx) == IndirectEntry(found, found.ret, idx, FALSE)
MakeEntry(found, idx) == IndirectEntry(found, found.ret, idx, TRUE)
MakeDirect(m, i, k) == Direct(m, i, k, TRUE)
MakeIndirect(m, i, k) == Indirect(m, i, k, TRUE)

\* Inode i can be read, and its indirect table.
Readable(d, i) ==
    /\ d[i].kind = "inode"
    /\ d[i].indirect # NULL_BLOC => IsTable(d[d[i].indirect])

(* A lookup that may not allocate returns the bloc named, and does nothing. *)
LEMMA LookupIs ==
    ASSUME NEW m, Running(m), m.super # NoSuper, NEW i, Readable(m.disk, i),
           NEW k \in Fbloc
    PROVE  Finds(m, VblocOfFbloc(m, i, k), Named(m.disk, i, k))
  <1> DEFINE n == m.disk[i]
             t == n.indirect
  <1>1. m.ok /\ n.kind = "inode"
    BY DEF Running, Readable
  <1>2. \A v : Finds(m, Return(m, v), v)
    BY ReturnIs DEF Finds
  <1>3. CASE k \in Index
    <2>1. VblocOfFbloc(m, i, k) = Direct(m, i, k, FALSE)
      <3>1. k < NB_BLOCS
        BY <1>3, SlotIs
      <3> QED
        BY <1>1, <3>1 DEF VblocOfFbloc, AuxVblocOfFbloc
    <2>2. Named(m.disk, i, k) = n.direct[k]
      BY <1>3, NamedIs
    <2> QED
      BY <1>2, <2>1, <2>2 DEF Direct
  <1>4. CASE k \notin Index
    <2>1. VblocOfFbloc(m, i, k) = Indirect(m, i, k, FALSE)
      <3>1. k < 2 * NB_BLOCS /\ ~(k < NB_BLOCS)
        BY <1>4 DEF Fbloc, Index
      <3> QED
        BY <1>1, <3>1 DEF VblocOfFbloc, AuxVblocOfFbloc
    <2>2. CASE t = NULL_BLOC
      <3>1. Named(m.disk, i, k) = NULL_BLOC
        BY <1>4, <2>2, NamedIs
      <3> QED
        BY <1>2, <2>1, <2>2, <3>1 DEF Indirect
    <2>3. CASE t # NULL_BLOC
      <3> DEFINE found == Return(m, t)
      <3>1. Running(found) /\ found.ok /\ found.super = m.super /\ found.disk = m.disk /\ found.ret = t
        BY ReturnIs DEF Running
      <3>2. IsTable(m.disk[t])
        BY <2>3 DEF Readable
      <3>3. Named(m.disk, i, k) = Entries(m.disk[t])[k - NB_BLOCS]
        BY <1>4, <2>3, NamedIs
      <3>4. VblocOfFbloc(m, i, k) = LookEntry(found, k - NB_BLOCS)
        BY <2>1, <2>3 DEF Indirect, LookEntry
      <3> HIDE DEF found
      <3>5. LookEntry(found, k - NB_BLOCS)
              = Return(found, Entries(m.disk[t])[k - NB_BLOCS])
        BY <3>1, <3>2 DEF LookEntry, IndirectEntry
      <3>6. \A v : Finds(found, Return(found, v), v)
        BY <3>1, ReturnIs DEF Finds
      <3>7. Finds(found, VblocOfFbloc(m, i, k), Named(m.disk, i, k))
        BY <3>3, <3>4, <3>5, <3>6
      <3> QED
        BY <3>1, <3>7 DEF Finds
    <2> QED
      BY <2>2, <2>3
  <1> QED
    BY <1>3, <1>4

\* A process that nothing has stopped, on a volume on which nothing was freed.
OnVolume(C, m, I) == Running(m) /\ Volume(C, m.disk, m.super, I)

\* What an allocation for file bloc k of inode i does, found or made: it returns
\* the bloc the inode then names, and 0 only when the volume was full.
Allocates(C, m, r, I, i, k) ==
    /\ OnVolume(C, r, I)
    /\ Keeps(m.disk, r.disk, I, i, k)
    /\ r.ret = Named(r.disk, i, k)
    /\ r.ret = NULL_BLOC \/ Lost(m) => Lost(r)

(* What machines on a volume have.                                         *)
LEMMA OnVolumeIs ==
    ASSUME NEW C, Complete(C), NEW m, NEW I, OnVolume(C, m, I)
    PROVE  /\ Running(m) /\ m.ok /\ FreeBlocs(C, m.disk, m.super)
           /\ Disk(C, m.disk) /\ Owned(m.disk, I, Used(m.super))
           /\ Used(m.super) \subseteq Bloc /\ 0 \notin Used(m.super)
           /\ I \subseteq Used(m.super)
           /\ m.super.kind = "super" /\ m.super # NoSuper
           /\ \A i \in I : ShapeOf(m.disk, i) /\ Readable(m.disk, i)
  <1>1. /\ Running(m) /\ m.ok /\ FreeBlocs(C, m.disk, m.super)
        /\ Disk(C, m.disk) /\ Owned(m.disk, I, Used(m.super))
        /\ m.super.kind = "super" /\ m.super.first_free \in Bloc
    BY DEF OnVolume, Volume, Used, FreeBlocs, Running, Complete, ClosedSuper
  <1>2. Used(m.super) \subseteq Bloc /\ 0 \notin Used(m.super)
    BY <1>1 DEF Used, Bloc
  <1>3. I \subseteq Used(m.super) /\ \A i \in I : ShapeOf(m.disk, i) /\ Readable(m.disk, i)
    BY <1>1 DEF Owned, Covers, Shaped, ShapeOf, Readable
  <1> QED
    BY <1>1, <1>2, <1>3, Kinds

(* Nothing is done to a volume.                                            *)
LEMMA KeepsSame ==
    ASSUME NEW C, Complete(C), NEW d, Disk(C, d), NEW I, NEW U, Owned(d, I, U), U \subseteq Bloc,
           NEW i \in I, NEW k \in Fbloc
    PROVE  Keeps(d, d, I, i, k)
  <1>1. \A j \in I : d[j].taille \in Nat
    BY Owns
  <1> QED
    BY <1>1 DEF Keeps

(* Two namings, one after the other.                                       *)
LEMMA KeepsTwice ==
    ASSUME NEW C, Complete(C), NEW I, NEW i \in I, NEW k \in Fbloc,
           NEW d1, NEW d2, NEW d3, Keeps(d1, d2, I, i, k), Keeps(d2, d3, I, i, k),
           \A j \in I : d1[j].taille \in Nat /\ d2[j].taille \in Nat /\ d3[j].taille \in Nat
    PROVE  Keeps(d1, d3, I, i, k)
  <1>1. \A j \in I : d3[j].type = d1[j].type /\ d3[j].taille >= d1[j].taille
    BY DEF Keeps
  <1>2. \A j \in I \ {i} : d3[j] = d1[j]
    BY DEF Keeps
  <1>3. \A j \in I : \A l \in Slot : Named(d1, j, l) # NULL_BLOC => Named(d3, j, l) = Named(d1, j, l)
    BY DEF Keeps
  <1>4. \A j \in I : \A l \in Fbloc : j # i \/ l # k => Named(d3, j, l) = Named(d1, j, l)
    BY DEF Keeps
  <1>5. ASSUME NEW j \in I, NEW l \in Fbloc, Named(d1, j, l) # NULL_BLOC
        PROVE  d3[Named(d1, j, l)] = d1[Named(d1, j, l)]
    <2>1. l \in Slot
      BY SlotIs
    <2>2. Named(d2, j, l) = Named(d1, j, l) /\ d2[Named(d1, j, l)] = d1[Named(d1, j, l)]
      BY <1>5, <2>1 DEF Keeps
    <2> QED
      BY <1>5, <2>2 DEF Keeps
  <1>6. ASSUME Named(d1, i, k) = NULL_BLOC, Named(d3, i, k) # NULL_BLOC
        PROVE  d3[Named(d3, i, k)] = Zero
    <2>1. k \in Slot
      BY SlotIs
    <2>2. CASE Named(d2, i, k) = NULL_BLOC
      BY <1>6, <2>2 DEF Keeps
    <2>3. CASE Named(d2, i, k) # NULL_BLOC
      <3>1. Named(d3, i, k) = Named(d2, i, k) /\ d3[Named(d2, i, k)] = d2[Named(d2, i, k)]
        BY <2>1, <2>3 DEF Keeps
      <3>2. d2[Named(d2, i, k)] = Zero
        BY <1>6, <2>3 DEF Keeps
      <3> QED
        BY <3>1, <3>2
    <2> QED
      BY <2>2, <2>3
  <1> QED
    BY <1>1, <1>2, <1>3, <1>4, <1>5, <1>6 DEF Keeps

(* The bloc was there.                                                     *)
LEMMA FoundIs ==
    ASSUME NEW C, Complete(C), NEW m, NEW I, OnVolume(C, m, I), NEW i \in I, NEW k \in Fbloc,
           Named(m.disk, i, k) # NULL_BLOC,
           NEW r, Finds(m, r, Named(m.disk, i, k))
    PROVE  Allocates(C, m, r, I, i, k)
  <1>1. Keeps(m.disk, m.disk, I, i, k)
    BY OnVolumeIs, KeepsSame
  <1> QED
    BY <1>1 DEF Finds, Allocates, OnVolume, Lost

(* A volume after a bloc was named.                                        *)
LEMMA GrownVolume ==
    ASSUME NEW C, NEW m, NEW r, NEW at, NEW c, Grows(C, m, r, at, c), NEW I,
           Owned(r.disk, I, With(Used(m.super), r.ret))
    PROVE  OnVolume(C, r, I)
  BY DEF Grows, OnVolume, Volume, Used

(* A bloc of the direct table.                                             *)
LEMMA DirectIs ==
    ASSUME NEW C, Complete(C), NEW m, NEW I, OnVolume(C, m, I), NEW i \in I, NEW k \in Index
    PROVE  Allocates(C, m, MakeDirect(m, i, k), I, i, k)
  <1> DEFINE n == m.disk[i]
             r == NewBloc(m)
             c == InDirect(n, k, r.ret)
             w == CleanFound(WriteBloc(r, i, c))
  <1>1. /\ Running(m) /\ FreeBlocs(C, m.disk, m.super)
        /\ Disk(C, m.disk) /\ Owned(m.disk, I, Used(m.super))
        /\ Used(m.super) \subseteq Bloc /\ i \in Used(m.super)
    BY OnVolumeIs
  <1>2. n \in C /\ n.kind = "inode" /\ Named(m.disk, i, k) = n.direct[k] /\ k \in Fbloc
    BY <1>1, Owns, NamedIs, SlotIs
  <1>3. CASE n.direct[k] # NULL_BLOC
    <2>1. MakeDirect(m, i, k) = Return(m, Named(m.disk, i, k))
      BY <1>2, <1>3 DEF MakeDirect, Direct
    <2>2. Finds(m, MakeDirect(m, i, k), Named(m.disk, i, k))
      BY <1>1, <2>1, ReturnIs DEF Finds
    <2> QED
      BY <1>2, <1>3, <2>2, FoundIs
  <1>4. CASE n.direct[k] = NULL_BLOC
    <2>1. MakeDirect(m, i, k) = w
      BY <1>4 DEF MakeDirect, Direct, NameFound, InDirect
    <2>2. Taken(C, m, r)
      BY <1>1, NewBlocIs
    <2>3. r.ret \in Bloc
      BY <1>1, <2>2, TakenIs
    <2>4. c \in C
      <3>1. Complete(C) /\ n \in C /\ n.kind = "inode" /\ r.ret \in Bloc /\ k \in Index
        BY <1>2, <2>3
      <3> HIDE DEF n, r
      <3> QED
        BY ONLY <3>1, GrownIs
    <2>5. Grows(C, m, w, i, c)
      BY <1>1, <2>2, <2>4, NameThenClean
    <2>6. w.ret = r.ret
      <3>1. Running(WriteBloc(r, i, c)) /\ WriteBloc(r, i, c).ret = r.ret
        BY <2>2, WriteIs DEF Taken
      <3> QED
        BY <3>1, WriteIs DEF CleanFound, WriteFound
    <2> HIDE DEF w
    <2>7. /\ w.ret \in Bloc /\ w.ret \notin Used(m.super)
          /\ \A x \in Used(m.super) : x # i => w.disk[x] = m.disk[x]
          /\ w.disk[i] = InDirect(m.disk[i], k, w.ret)
          /\ w.ret # NULL_BLOC => w.disk[w.ret] = Zero
          /\ w.ret = NULL_BLOC \/ Lost(m) => Lost(w)
      BY <2>5, <2>6 DEF Grows
    <2>8. /\ Owned(w.disk, I, With(Used(m.super), w.ret))
          /\ Keeps(m.disk, w.disk, I, i, k)
          /\ Named(w.disk, i, k) = w.ret
      <3> DEFINE d == m.disk
                 d2 == w.disk
                 b == w.ret
                 U == Used(m.super)
      <3>1. /\ Disk(C, d) /\ Owned(d, I, U) /\ U \subseteq Bloc /\ Named(d, i, k) = NULL_BLOC
            /\ b \in Bloc /\ b \notin U /\ d2[i] = InDirect(d[i], k, b)
            /\ b # NULL_BLOC => d2[b] = Zero
            /\ \A x \in U : x # i => d2[x] = d[x]
        BY <1>1, <1>2, <1>4, <2>7
      <3> HIDE DEF d, d2, b, U
      <3>2. Owned(d2, I, With(U, b)) /\ Keeps(d, d2, I, i, k) /\ Named(d2, i, k) = b
        BY <3>1, NameDirect
      <3> QED
        BY <3>2 DEF d, d2, b, U
    <2> QED
      BY <2>1, <2>5, <2>7, <2>8, GrownVolume DEF Allocates
  <1> QED
    BY <1>3, <1>4

\* The table grown.
Entered(entries, x, b) == Table([entries EXCEPT ![x] = b])

(* A table with a bloc more is a table.                                    *)
LEMMA TableIs ==
    ASSUME NEW C, Complete(C), NEW e \in [Index -> Bloc], NEW x \in Index, NEW b \in Bloc
    PROVE  Entered(e, x, b) \in C
  <1>1. [e EXCEPT ![x] = b] \in [Index -> Bloc]
    OBVIOUS
  <1> QED
    BY <1>1 DEF Complete, ClosedTable, TableBlocs, Table, Entered

(* A bloc of the indirect table.                                           *)
LEMMA EntryIs ==
    ASSUME NEW C, Complete(C), NEW m, NEW I, OnVolume(C, m, I), NEW i \in I,
           NEW k \in Fbloc \ Index, m.disk[i].indirect # NULL_BLOC, m.ret = m.disk[i].indirect
    PROVE  Allocates(C, m, MakeEntry(m, k - NB_BLOCS), I, i, k)
  <1> DEFINE t == m.disk[i].indirect
             e == Entries(m.disk[t])
             idx == k - NB_BLOCS
             r == NewBloc(m)
             c == Entered(e, idx, r.ret)
             w == CleanFound(WriteBloc(r, t, c))
  <1>1. /\ Running(m) /\ m.ok /\ FreeBlocs(C, m.disk, m.super)
        /\ Disk(C, m.disk) /\ Owned(m.disk, I, Used(m.super))
        /\ Used(m.super) \subseteq Bloc /\ ShapeOf(m.disk, i)
    BY OnVolumeIs
  <1>2. /\ Named(m.disk, i, k) = e[idx] /\ k \in Fbloc
        /\ e \in [Index -> Bloc] /\ IsTable(m.disk[t])
    <2>1. Named(m.disk, i, k) = e[idx]
      BY NamedIs
    <2>2. e \in [Index -> Bloc]
      BY <1>1, Owns
    <2> QED
      BY <1>1, <2>1, <2>2 DEF ShapeOf
  <1>3. CASE e[idx] # NULL_BLOC
    <2>1. MakeEntry(m, idx) = Return(m, Named(m.disk, i, k))
      BY <1>1, <1>2, <1>3 DEF MakeEntry, IndirectEntry
    <2>2. Finds(m, MakeEntry(m, idx), Named(m.disk, i, k))
      BY <1>1, <2>1, ReturnIs DEF Finds
    <2>3. k \in Fbloc /\ Named(m.disk, i, k) # NULL_BLOC
      BY <1>2, <1>3
    <2>4. Complete(C) /\ OnVolume(C, m, I) /\ i \in I
      OBVIOUS
    <2> QED
      BY ONLY <2>2, <2>3, <2>4, FoundIs
  <1>4. CASE e[idx] = NULL_BLOC
    <2>1. MakeEntry(m, idx) = w
      BY <1>1, <1>2, <1>4 DEF MakeEntry, IndirectEntry, NameFound, Entered
    <2>2. Taken(C, m, r)
      BY <1>1, NewBlocIs
    <2>3. r.ret \in Bloc
      BY <1>1, <2>2, TakenIs
    <2>4. c \in C
      <3>1. e \in [Index -> Bloc] /\ r.ret \in Bloc /\ idx \in Index
        BY <1>2, <2>3, SlotIs
      <3> HIDE DEF e, r, idx
      <3> QED
        BY <3>1, TableIs
    <2>5. t \in Used(m.super)
      BY <1>1, NamedIs, SlotIs DEF Owned, Covers
    <2>6. Grows(C, m, w, t, c)
      BY <1>1, <2>2, <2>4, <2>5, NameThenClean
    <2>7. w.ret = r.ret
      <3>1. Running(WriteBloc(r, t, c)) /\ WriteBloc(r, t, c).ret = r.ret
        BY <2>2, WriteIs DEF Taken
      <3> QED
        BY <3>1, WriteIs DEF CleanFound, WriteFound
    <2> HIDE DEF w
    <2>8. /\ w.ret \in Bloc /\ w.ret \notin Used(m.super)
          /\ \A x \in Used(m.super) : x # t => w.disk[x] = m.disk[x]
          /\ w.disk[t] = Entered(e, idx, w.ret)
          /\ w.ret # NULL_BLOC => w.disk[w.ret] = Zero
          /\ w.ret = NULL_BLOC \/ Lost(m) => Lost(w)
      BY <2>6, <2>7 DEF Grows
    <2>9. /\ Owned(w.disk, I, With(Used(m.super), w.ret))
          /\ Keeps(m.disk, w.disk, I, i, k)
          /\ Named(w.disk, i, k) = w.ret
      <3> DEFINE d == m.disk
                 d2 == w.disk
                 b == w.ret
                 U == Used(m.super)
      <3>1. /\ Disk(C, d) /\ Owned(d, I, U) /\ U \subseteq Bloc /\ Named(d, i, k) = NULL_BLOC
            /\ b \in Bloc /\ b \notin U /\ t = d[i].indirect /\ t # NULL_BLOC
            /\ d2[t] = Table([Entries(d[t]) EXCEPT ![k - NB_BLOCS] = b])
            /\ b # NULL_BLOC => d2[b] = Zero
            /\ \A x \in U : x # t => d2[x] = d[x]
        <4>1. /\ Disk(C, d) /\ Owned(d, I, U) /\ U \subseteq Bloc /\ Named(d, i, k) = NULL_BLOC
              /\ t = d[i].indirect /\ t # NULL_BLOC
          BY <1>1, <1>2, <1>4
        <4>2. d2[t] = Table([Entries(d[t]) EXCEPT ![k - NB_BLOCS] = b])
          BY <2>8 DEF Entered
        <4> QED
          BY ONLY <2>8, <4>1, <4>2
      <3> HIDE DEF d, d2, b, U, t
      <3>2. Owned(d2, I, With(U, b)) /\ Keeps(d, d2, I, i, k) /\ Named(d2, i, k) = b
        BY <3>1, NameEntry
      <3> QED
        BY <3>2 DEF d, d2, b, U
    <2> QED
      BY <2>1, <2>6, <2>8, <2>9, GrownVolume DEF Allocates
  <1> QED
    BY <1>3, <1>4

(* No bloc for the table: the entry is made in bloc 0, which is cleaned.   *)
LEMMA EntryOfNothing ==
    ASSUME NEW C, Complete(C), NEW m, NEW I, OnVolume(C, m, I), NEW i \in I,
           NEW k \in Fbloc \ Index, m.disk[i].indirect = NULL_BLOC, m.ret = NULL_BLOC,
           m.super.nb_free_blc = 0, m.disk[0] = Zero
    PROVE  Allocates(C, m, MakeEntry(m, k - NB_BLOCS), I, i, k)
  <1> DEFINE idx == k - NB_BLOCS
             r == Return(m, NULL_BLOC)
             c == Entered(NoBlocs, idx, NULL_BLOC)
             w == WriteBloc(r, 0, c)
             v == WriteBloc(w, 0, Zero)
  <1>1. /\ Running(m) /\ m.ok /\ FreeBlocs(C, m.disk, m.super)
        /\ Disk(C, m.disk) /\ Owned(m.disk, I, Used(m.super))
        /\ Used(m.super) \subseteq Bloc /\ 0 \notin Used(m.super) /\ i \in Used(m.super)
    BY OnVolumeIs
  <1>2. /\ Running(r) /\ r.disk = m.disk /\ r.super = m.super /\ r.ret = 0
    BY <1>1, ReturnIs DEF NULL_BLOC
  <1>3. NewBloc(m) = r
    BY <1>1 DEF NewBloc
  <1>4. IsTable(Zero) /\ Entries(Zero) = NoBlocs /\ NoBlocs[idx] = NULL_BLOC
    BY SlotIs, Kinds DEF IsTable, Entries, NoBlocs
  <1>5. c \in C /\ Zero \in C /\ c.kind # "super" /\ Zero.kind # "super"
    <2>1. NoBlocs \in [Index -> Bloc] /\ NULL_BLOC \in Bloc /\ idx \in Index
      BY SlotIs DEF NoBlocs, Bloc, NULL_BLOC
    <2>2. c \in C
      <3> HIDE DEF idx
      <3> QED
        BY <2>1, TableIs
    <2> QED
      BY <2>2, Kinds DEF Complete, ClosedFree, Entered
  <1> HIDE DEF r
  <1>6. /\ Running(w) /\ FreeBlocs(C, w.disk, w.super) /\ w.super = m.super /\ w.ret = 0
        /\ \A x \in Bloc : x # 0 => w.disk[x] = m.disk[x]
    <2>1. 0 \in Bloc /\ FreeBlocs(C, r.disk, r.super) /\ MayWrite(r.super, 0, c)
      BY <1>1, <1>2, <1>5 DEF MayWrite, Bloc
    <2> HIDE DEF c
    <2> QED
      BY <1>2, <1>5, <2>1, WriteKept
  <1>7. MakeEntry(m, idx) = v
    <2>1. MakeEntry(m, idx) = CleanFound(WriteBloc(r, 0, c))
      <3>1. /\ m.ok /\ NewBloc(m) = r /\ r.ret = NULL_BLOC /\ m.ret = 0
            /\ IsTable(m.disk[0]) /\ Entries(m.disk[0]) = NoBlocs /\ NoBlocs[idx] = NULL_BLOC
        BY <1>1, <1>2, <1>3, <1>4 DEF NULL_BLOC
      <3> HIDE DEF idx
      <3> QED
        BY <3>1 DEF MakeEntry, IndirectEntry, NameFound, Entered
    <2> QED
      BY <1>6, <2>1 DEF CleanFound, WriteFound
  <1> HIDE DEF w
  <1>8. /\ Running(v) /\ FreeBlocs(C, v.disk, v.super) /\ v.super = m.super /\ v.ret = 0
        /\ v.disk[0] = Zero
        /\ \A x \in Bloc : x # 0 => v.disk[x] = m.disk[x]
    <2>1. 0 \in Bloc /\ MayWrite(w.super, 0, Zero)
      BY <1>5, <1>6 DEF MayWrite, Bloc
    <2> QED
      BY <1>5, <1>6, <2>1, WriteKept
  <1> HIDE DEF v
  <1>9. \A x \in Used(m.super) : v.disk[x] = m.disk[x]
    BY <1>1, <1>8
  <1>10. /\ \A j \in I : ShapeOf(v.disk, j) /\ v.disk[j] = m.disk[j]
         /\ \A j \in I : \A l \in Slot : Named(v.disk, j, l) = Named(m.disk, j, l)
         /\ \A j \in I : \A l \in Slot : Named(m.disk, j, l) # NULL_BLOC
              => v.disk[Named(m.disk, j, l)] = m.disk[Named(m.disk, j, l)]
    <2> SUFFICES ASSUME NEW j \in I
                 PROVE  /\ ShapeOf(v.disk, j) /\ v.disk[j] = m.disk[j]
                        /\ \A l \in Slot : Named(v.disk, j, l) = Named(m.disk, j, l)
                        /\ \A l \in Slot : Named(m.disk, j, l) # NULL_BLOC
                             => v.disk[Named(m.disk, j, l)] = m.disk[Named(m.disk, j, l)]
      OBVIOUS
    <2> DEFINE d == m.disk
               d2 == v.disk
               U == Used(m.super)
    <2>1. /\ Owned(d, I, U) /\ 0 # j
          /\ \A l \in Slot : Named(d, j, l) # NULL_BLOC => Named(d, j, l) # 0
          /\ \A x \in U : x # 0 => d2[x] = d[x]
      BY <1>1, <1>9 DEF Owned, Covers, NULL_BLOC
    <2> HIDE DEF d, d2, U
    <2>2. /\ d2[j] = d[j]
          /\ \A l \in Slot : Named(d2, j, l) = Named(d, j, l)
          /\ \A l \in Slot : Named(d, j, l) # NULL_BLOC => d2[Named(d, j, l)] = d[Named(d, j, l)]
          /\ ShapeOf(d2, j)
      BY <2>1, Untouched
    <2> QED
      BY <2>2 DEF d, d2
  <1>11. Owned(v.disk, I, Used(m.super))
    BY <1>1, <1>10 DEF Owned, Shaped, Apart, Covers
  <1>12. Named(m.disk, i, k) = NULL_BLOC
    BY NamedIs
  <1>13. Keeps(m.disk, v.disk, I, i, k)
    <2>1. \A j \in I : m.disk[j].taille \in Nat
      BY <1>1, Owns
    <2> QED
      BY <1>10, <1>12, <2>1, SlotIs DEF Keeps
  <1>14. OnVolume(C, v, I)
    BY <1>8, <1>11 DEF OnVolume, Volume, Used
  <1>15. v.ret = Named(v.disk, i, k) /\ Lost(v)
    BY <1>8, <1>10, <1>12, SlotIs, Kinds DEF Lost, NULL_BLOC
  <1> QED
    BY <1>7, <1>13, <1>14, <1>15 DEF Allocates

(* A bloc of the indirect table, which is made if it must be.              *)
LEMMA IndirectIs ==
    ASSUME NEW C, Complete(C), NEW m, NEW I, OnVolume(C, m, I), NEW i \in I,
           NEW k \in Fbloc \ Index
    PROVE  Allocates(C, m, MakeIndirect(m, i, k), I, i, k)
  <1> DEFINE n == m.disk[i]
             t == n.indirect
             r == NewBloc(m)
             c == AsIndirect(n, k, r.ret)
             w == WriteBloc(CleanFound(r), i, c)
  <1>1. /\ Running(m) /\ m.ok /\ FreeBlocs(C, m.disk, m.super)
        /\ Disk(C, m.disk) /\ Owned(m.disk, I, Used(m.super))
        /\ Used(m.super) \subseteq Bloc /\ i \in Used(m.super)
    BY OnVolumeIs
  <1>2. n \in C /\ n.kind = "inode" /\ k \in Fbloc
    BY <1>1, Owns
  <1>3. CASE t # NULL_BLOC
    <2> DEFINE found == Return(m, t)
    <2>1. MakeIndirect(m, i, k) = MakeEntry(found, k - NB_BLOCS)
      BY <1>3 DEF MakeIndirect, MakeEntry, Indirect
    <2>2. Finds(m, found, t)
      BY <1>1, ReturnIs DEF Finds
    <2> HIDE DEF found
    <2>3. /\ OnVolume(C, found, I) /\ found.disk = m.disk /\ found.ret = found.disk[i].indirect
          /\ Lost(m) => Lost(found)
      BY <2>2 DEF OnVolume, Finds, Lost
    <2>4. Allocates(C, found, MakeEntry(found, k - NB_BLOCS), I, i, k)
      BY <1>3, <2>3, EntryIs
    <2> QED
      BY <2>1, <2>3, <2>4 DEF Allocates
  <1>4. CASE t = NULL_BLOC
    <2>2. Taken(C, m, r)
      BY <1>1, NewBlocIs
    <2>1. MakeIndirect(m, i, k) = MakeEntry(w, k - NB_BLOCS)
      <3>1. CleanFound(r).ret = r.ret
        BY <2>2, WriteIs DEF Taken, CleanFound, WriteFound
      <3>2. MakeIndirect(m, i, k) = MakeEntry(NameFound(CleanFound(r), i, LAMBDA b : AsIndirect(n, k, b)),
                                              k - NB_BLOCS)
        BY <1>4 DEF MakeIndirect, MakeEntry, Indirect, NameFound, AsIndirect
      <3> QED
        BY <3>1, <3>2 DEF NameFound
    <2>3. r.ret \in Bloc
      BY <1>1, <2>2, TakenIs
    <2>4. c \in C
      <3>1. Complete(C) /\ n \in C /\ n.kind = "inode" /\ r.ret \in Bloc /\ k \in Fbloc
        BY <1>2, <2>3
      <3> HIDE DEF n, r
      <3> QED
        BY ONLY <3>1, TableGrownIs
    <2>5. Grows(C, m, w, i, c)
      BY <1>1, <2>2, <2>4, CleanThenName
    <2>6. w.ret = r.ret
      <3>1. Running(CleanFound(r)) /\ CleanFound(r).ret = r.ret
        BY <2>2, WriteIs DEF Taken, CleanFound, WriteFound
      <3> QED
        BY <3>1, WriteIs
    <2>7. w.ret = NULL_BLOC => w.disk[0] = Zero
      <3>1. /\ Running(r) /\ CleanFound(r).disk = Put(r.disk, r.ret, Zero)
            /\ Running(CleanFound(r)) /\ Disk(C, r.disk) /\ Zero \in C
        BY <2>2, WriteIs DEF Taken, CleanFound, WriteFound, FreeBlocs, Complete, ClosedFree
      <3>2. w.disk = Put(CleanFound(r).disk, i, c)
        BY <3>1, WriteIs
      <3>3. i # 0 /\ 0 \in Bloc /\ i \in Bloc
        BY <1>1 DEF Used, Bloc
      <3> DEFINE d == r.disk
                 e == CleanFound(r).disk
                 f == w.disk
      <3>4. /\ r.ret = NULL_BLOC => e = Put(d, 0, Zero)
            /\ f = Put(e, i, c) /\ Disk(C, d) /\ Zero \in C /\ c \in C
        BY <2>4, <3>1, <3>2 DEF NULL_BLOC
      <3> HIDE DEF d, e, f, c
      <3>5. r.ret = NULL_BLOC => Disk(C, e) /\ e[0] = Zero
        BY <3>3, <3>4, PutIs
      <3>6. r.ret = NULL_BLOC => f[0] = Zero
        BY <3>3, <3>4, <3>5, PutIs
      <3> QED
        BY <2>6, <3>6 DEF f
    <2> HIDE DEF w
    <2>8. /\ w.ret \in Bloc /\ w.ret \notin Used(m.super)
          /\ \A x \in Used(m.super) : x # i => w.disk[x] = m.disk[x]
          /\ w.disk[i] = AsIndirect(m.disk[i], k, w.ret)
          /\ w.ret # NULL_BLOC => w.disk[w.ret] = Zero
          /\ w.ret = NULL_BLOC \/ Lost(m) => Lost(w)
      BY <2>5, <2>6 DEF Grows
    <2>9. /\ Owned(w.disk, I, With(Used(m.super), w.ret))
          /\ Keeps(m.disk, w.disk, I, i, k)
          /\ w.disk[i].indirect = w.ret
      <3> DEFINE d == m.disk
                 d2 == w.disk
                 b == w.ret
                 U == Used(m.super)
      <3>1. /\ Disk(C, d) /\ Owned(d, I, U) /\ U \subseteq Bloc /\ d[i].indirect = NULL_BLOC
            /\ b \in Bloc /\ b \notin U /\ d2[i] = AsIndirect(d[i], k, b)
            /\ b # NULL_BLOC => d2[b] = Zero
            /\ \A x \in U : x # i => d2[x] = d[x]
        BY <1>1, <1>4, <2>8
      <3> HIDE DEF d, d2, b, U
      <3>2. Owned(d2, I, With(U, b)) /\ Keeps(d, d2, I, i, k) /\ d2[i].indirect = b
        BY <3>1, NameTable
      <3> QED
        BY <3>2 DEF d, d2, b, U
    <2>10. OnVolume(C, w, I)
      BY <2>5, <2>9, GrownVolume
    <2> DEFINE v == MakeEntry(w, k - NB_BLOCS)
    <2>11. Allocates(C, w, v, I, i, k)
      <3>1. CASE w.ret = NULL_BLOC
        <4>1. w.super.nb_free_blc = 0 /\ w.disk[0] = Zero
          BY <2>7, <2>8, <3>1 DEF Lost
        <4> QED
          BY <2>9, <2>10, <3>1, <4>1, EntryOfNothing
      <3>2. CASE w.ret # NULL_BLOC
        BY <2>9, <2>10, <3>2, EntryIs
      <3> QED
        BY <3>1, <3>2
    <2> HIDE DEF v
    <2>12. \A j \in I : m.disk[j].taille \in Nat /\ w.disk[j].taille \in Nat /\ v.disk[j].taille \in Nat
      <3>1. \A x, j : OnVolume(C, x, I) /\ j \in I => x.disk[j].taille \in Nat
        BY OnVolumeIs, Owns
      <3> QED
        BY <2>10, <2>11, <3>1 DEF Allocates
    <2>13. Keeps(m.disk, v.disk, I, i, k)
      <3>1. Keeps(m.disk, w.disk, I, i, k) /\ Keeps(w.disk, v.disk, I, i, k)
        BY <2>9, <2>11 DEF Allocates
      <3> QED
        BY <1>2, <2>12, <3>1, KeepsTwice
    <2> QED
      BY <2>1, <2>8, <2>11, <2>13 DEF Allocates, v
  <1> QED
    BY <1>3, <1>4

(***************************************************************************)
(* An allocation keeps the volume in order: it returns the bloc that the    *)
(* inode names from then on, clean if it is new, and touches no other       *)
(* file; 0 is returned when the volume is full, and the super bloc is then  *)
(* lost on disk.                                                            *)
(***************************************************************************)
LEMMA AllocateIs ==
    ASSUME NEW C, Complete(C), NEW m, NEW I, OnVolume(C, m, I), NEW i \in I, NEW k \in Fbloc
    PROVE  Allocates(C, m, AllocateVblocOfFbloc(m, i, k), I, i, k)
  <1>1. m.ok /\ m.super # NoSuper /\ m.disk[i].kind = "inode"
    BY OnVolumeIs DEF ShapeOf
  <1>2. CASE k \in Index
    <2>1. k < NB_BLOCS
      BY <1>2, SlotIs
    <2>2. AllocateVblocOfFbloc(m, i, k) = MakeDirect(m, i, k)
      BY <1>1, <2>1 DEF AllocateVblocOfFbloc, AuxVblocOfFbloc, MakeDirect
    <2> QED
      BY <1>2, <2>2, DirectIs
  <1>3. CASE k \notin Index
    <2>1. k < 2 * NB_BLOCS /\ ~(k < NB_BLOCS)
      BY <1>3 DEF Fbloc, Index
    <2>2. AllocateVblocOfFbloc(m, i, k) = MakeIndirect(m, i, k)
      BY <1>1, <2>1 DEF AllocateVblocOfFbloc, AuxVblocOfFbloc, MakeIndirect
    <2> QED
      BY <1>3, <2>2, IndirectIs
  <1> QED
    BY <1>2, <1>3
-----------------------------------------------------------------------------
(* What files hold.                                                        *)

\* What file bloc k of inode i holds; a hole is null octets.
Held(d, i, k) == IF Named(d, i, k) = NULL_BLOC THEN Zero ELSE d[Named(d, i, k)]

\* The files I hold the same in d2 as in d.
SameHeld(d, d2, I) == \A j \in I : \A l \in Fbloc : Held(d2, j, l) = Held(d, j, l)

(* What a file holds is data.                                              *)
LEMMA HeldIs ==
    ASSUME NEW C, Complete(C), NEW m, NEW I, OnVolume(C, m, I), NEW i \in I, NEW k \in Fbloc
    PROVE  /\ Held(m.disk, i, k) \in C /\ Held(m.disk, i, k).kind \in {"zero", "data"}
           /\ m.disk[i].kind = "inode" /\ m.disk[i].taille \in Nat
           /\ k < NB_BLOCS \/ (k = NB_BLOCS) =>
                (Held(m.disk, i, k) # Zero => k < m.disk[i].taille)
  <1>1. /\ Disk(C, m.disk) /\ Owned(m.disk, I, Used(m.super))
        /\ Used(m.super) \subseteq Bloc /\ ShapeOf(m.disk, i)
    BY OnVolumeIs
  <1>2. k \in Slot
    BY SlotIs
  <1>3. Named(m.disk, i, k) \in Bloc /\ m.disk[i].taille \in Nat
    BY <1>1, <1>2, Owns
  <1>4. Held(m.disk, i, k) \in C /\ Held(m.disk, i, k).kind \in {"zero", "data"}
    <2>1. \A b \in Bloc : m.disk[b] \in C
      BY <1>1 DEF Disk
    <2> QED
      BY <1>1, <1>3, <2>1, Kinds DEF Held, ShapeOf, Complete, ClosedFree
  <1>5. ASSUME k < NB_BLOCS \/ k = NB_BLOCS, Held(m.disk, i, k) # Zero
        PROVE  k < m.disk[i].taille
    <2>1. Named(m.disk, i, k) # NULL_BLOC
      BY <1>5 DEF Held
    <2>2. CASE k \in Index
      <3>1. m.disk[i].direct[k] # NULL_BLOC
        BY <2>1, <2>2, NamedIs
      <3> QED
        BY <1>1, <1>3, <2>2, <3>1, SlotIs DEF ShapeOf
    <2>3. CASE k \notin Index
      <3>1. m.disk[i].indirect # NULL_BLOC
        BY <2>1, <2>3, NamedIs
      <3>2. k = NB_BLOCS
        BY <1>5, <2>3 DEF Fbloc, Index
      <3> QED
        BY <1>1, <1>3, <3>1, <3>2 DEF ShapeOf
    <2> QED
      BY <2>2, <2>3
  <1> QED
    BY <1>1, <1>3, <1>4, <1>5 DEF ShapeOf

(* An allocation changes nothing of what files hold.                       *)
LEMMA AllocateHolds ==
    ASSUME NEW C, NEW m, NEW r, NEW I, NEW i \in I, NEW k \in Fbloc,
           Allocates(C, m, r, I, i, k)
    PROVE  SameHeld(m.disk, r.disk, I)
  <1> SUFFICES ASSUME NEW j \in I, NEW l \in Fbloc
               PROVE  Held(r.disk, j, l) = Held(m.disk, j, l)
    BY DEF SameHeld
  <1>1. l \in Slot /\ k \in Slot
    BY SlotIs
  <1>2. Keeps(m.disk, r.disk, I, i, k)
    BY DEF Allocates
  <1>3. CASE Named(m.disk, j, l) # NULL_BLOC
    BY <1>1, <1>2, <1>3 DEF Keeps, Held
  <1>4. CASE Named(m.disk, j, l) = NULL_BLOC /\ j = i /\ l = k
    BY <1>2, <1>4 DEF Keeps, Held
  <1>5. CASE Named(m.disk, j, l) = NULL_BLOC /\ (j # i \/ l # k)
    BY <1>2, <1>5 DEF Keeps, Held
  <1> QED
    BY <1>3, <1>4, <1>5

\* The machine w in which the bloc that machine r has found for file bloc k of
\* inode i was written with c; without a bloc, bloc 0 of the full volume was.
Stores(C, r, w, I, i, k, c) ==
    /\ OnVolume(C, w, I)
    /\ w.ret = r.ret
    /\ Lost(r) => Lost(w)
    /\ \A j \in I : w.disk[j] = r.disk[j]
    /\ \A j \in I : \A l \in Fbloc :
         Held(w.disk, j, l) = IF j = i /\ l = k /\ r.ret # NULL_BLOC THEN c ELSE Held(r.disk, j, l)

(* Data is written where it belongs.                                       *)
LEMMA StoreIs ==
    ASSUME NEW C, Complete(C), NEW r, NEW I, OnVolume(C, r, I), NEW i \in I, NEW k \in Fbloc,
           r.ret = Named(r.disk, i, k), r.ret # NULL_BLOC,
           NEW c \in C, c.kind \in {"zero", "data"}
    PROVE  Stores(C, r, WriteFound(r, c), I, i, k, c)
  <1> DEFINE w == WriteFound(r, c)
             t == Named(r.disk, i, k)
  <1>1. /\ Running(r) /\ FreeBlocs(C, r.disk, r.super)
        /\ Owned(r.disk, I, Used(r.super)) /\ Used(r.super) \subseteq Bloc
        /\ 0 \notin Used(r.super) /\ k \in Slot /\ TableSlot \in Slot /\ k # TableSlot
    BY OnVolumeIs, SlotIs
  <1>2. t \in Used(r.super) /\ t \notin I /\ t # NULL_BLOC
    BY <1>1 DEF Owned, Covers
  <1>3. MayWrite(r.super, t, c) /\ t \in Bloc /\ w = WriteBloc(r, t, c)
    BY <1>1, <1>2 DEF MayWrite, Used, WriteFound
  <1> HIDE DEF t, w
  <1>4. /\ Running(w) /\ FreeBlocs(C, w.disk, w.super)
        /\ w.super = r.super /\ w.ret = r.ret
        /\ w.disk[t] = c /\ (Lost(r) => Lost(w))
        /\ \A x \in Bloc : x # t => w.disk[x] = r.disk[x]
    BY <1>1, <1>3, WriteKept
  <1>5. \A j \in I : w.disk[j] = r.disk[j] /\ j \in Used(r.super)
    BY <1>1, <1>2, <1>4 DEF Owned, Covers
  <1>6. \A j \in I : \A l \in Slot : Named(r.disk, j, l) = t => j = i /\ l = k
    BY <1>1, <1>2 DEF Owned, Apart, t
  <1>7. \A j \in I : r.disk[j].indirect # NULL_BLOC =>
          w.disk[r.disk[j].indirect] = r.disk[r.disk[j].indirect]
    <2> SUFFICES ASSUME NEW j \in I, r.disk[j].indirect # NULL_BLOC
                 PROVE  w.disk[r.disk[j].indirect] = r.disk[r.disk[j].indirect]
      OBVIOUS
    <2>1. Named(r.disk, j, TableSlot) = r.disk[j].indirect
      BY NamedIs
    <2>2. r.disk[j].indirect \in Used(r.super) /\ r.disk[j].indirect # t
      BY <1>1, <1>6, <2>1 DEF Owned, Covers
    <2> QED
      BY <1>1, <1>4, <2>2
  <1>8. \A j \in I : \A l \in Slot : Named(w.disk, j, l) = Named(r.disk, j, l)
    BY <1>5, <1>7, SameNames
  <1>9. \A j \in I : \A l \in Fbloc : Named(r.disk, j, l) # NULL_BLOC =>
          w.disk[Named(r.disk, j, l)] = IF j = i /\ l = k THEN c ELSE r.disk[Named(r.disk, j, l)]
    <2> SUFFICES ASSUME NEW j \in I, NEW l \in Fbloc, Named(r.disk, j, l) # NULL_BLOC
                 PROVE  w.disk[Named(r.disk, j, l)]
                          = IF j = i /\ l = k THEN c ELSE r.disk[Named(r.disk, j, l)]
      OBVIOUS
    <2>1. l \in Slot
      BY SlotIs
    <2>2. CASE j = i /\ l = k
      BY <1>4, <2>2 DEF t
    <2>3. CASE ~(j = i /\ l = k)
      <3>1. Named(r.disk, j, l) \in Used(r.super) /\ Named(r.disk, j, l) # t
        BY <1>1, <1>6, <2>1, <2>3 DEF Owned, Covers
      <3> QED
        BY <1>1, <1>4, <2>3, <3>1
    <2> QED
      BY <2>2, <2>3
  <1>10. ASSUME NEW j \in I
         PROVE  ShapeOf(w.disk, j)
    <2>1. ShapeOf(r.disk, j) /\ w.disk[j] = r.disk[j]
      BY <1>5, OnVolumeIs
    <2>2. \A l \in Fbloc : Named(w.disk, j, l) # NULL_BLOC
            => w.disk[Named(w.disk, j, l)].kind \in {"zero", "data"}
      <3> SUFFICES ASSUME NEW l \in Fbloc, Named(w.disk, j, l) # NULL_BLOC
                   PROVE  w.disk[Named(w.disk, j, l)].kind \in {"zero", "data"}
        OBVIOUS
      <3>1. Named(w.disk, j, l) = Named(r.disk, j, l)
        BY <1>8, SlotIs
      <3>2. r.disk[Named(r.disk, j, l)].kind \in {"zero", "data"}
        BY <2>1, <3>1 DEF ShapeOf
      <3>3. \/ w.disk[Named(r.disk, j, l)] = c
            \/ w.disk[Named(r.disk, j, l)] = r.disk[Named(r.disk, j, l)]
        BY <1>9, <3>1
      <3> QED
        BY <3>1, <3>2, <3>3
    <2>3. r.disk[j].indirect # NULL_BLOC =>
            w.disk[r.disk[j].indirect] = r.disk[r.disk[j].indirect]
      BY <1>7
    <2> QED
      BY <2>1, <2>2, <2>3 DEF ShapeOf
  <1>11. Owned(w.disk, I, Used(r.super))
    BY <1>1, <1>8, <1>10 DEF Owned, Shaped, Apart, Covers
  <1>12. OnVolume(C, w, I)
    BY <1>4, <1>11 DEF OnVolume, Volume, Used
  <1>13. ASSUME NEW j \in I, NEW l \in Fbloc
         PROVE  Held(w.disk, j, l)
                  = IF j = i /\ l = k /\ r.ret # NULL_BLOC THEN c ELSE Held(r.disk, j, l)
    <2>1. Named(w.disk, j, l) = Named(r.disk, j, l)
      BY <1>8, SlotIs
    <2> QED
      BY <1>2, <1>9, <2>1 DEF Held, t
  <1> QED
    BY <1>4, <1>5, <1>12, <1>13 DEF Stores, w

(* Data is written over the super bloc of a full volume.                   *)
LEMMA StoreOfFull ==
    ASSUME NEW C, Complete(C), NEW r, NEW I, OnVolume(C, r, I), NEW i \in I, NEW k \in Fbloc,
           r.ret = NULL_BLOC, Lost(r),
           NEW c \in C, c.kind # "super"
    PROVE  Stores(C, r, WriteFound(r, c), I, i, k, c)
  <1> DEFINE w == WriteFound(r, c)
             d == r.disk
             d2 == w.disk
             U == Used(r.super)
  <1>1. /\ Running(r) /\ FreeBlocs(C, d, r.super)
        /\ Owned(d, I, U) /\ U \subseteq Bloc /\ 0 \notin U
    BY OnVolumeIs
  <1>2. MayWrite(r.super, 0, c) /\ 0 \in Bloc /\ w = WriteBloc(r, 0, c)
    BY DEF MayWrite, Lost, WriteFound, NULL_BLOC, Bloc
  <1> HIDE DEF w
  <1>3. /\ Running(w) /\ FreeBlocs(C, d2, w.super)
        /\ w.super = r.super /\ w.ret = r.ret /\ Lost(w)
        /\ \A x \in U : d2[x] = d[x]
    BY <1>1, <1>2, WriteKept
  <1> HIDE DEF d, d2, U
  <1>4. \A j \in I : /\ d2[j] = d[j] /\ ShapeOf(d2, j)
                     /\ \A l \in Slot : Named(d2, j, l) = Named(d, j, l)
                     /\ \A l \in Slot : Named(d, j, l) # NULL_BLOC
                          => d2[Named(d, j, l)] = d[Named(d, j, l)]
    <2> SUFFICES ASSUME NEW j \in I
                 PROVE  /\ d2[j] = d[j] /\ ShapeOf(d2, j)
                        /\ \A l \in Slot : Named(d2, j, l) = Named(d, j, l)
                        /\ \A l \in Slot : Named(d, j, l) # NULL_BLOC
                             => d2[Named(d, j, l)] = d[Named(d, j, l)]
      OBVIOUS
    <2>1. /\ Owned(d, I, U) /\ 0 # j
          /\ \A l \in Slot : Named(d, j, l) # NULL_BLOC => Named(d, j, l) # 0
          /\ \A x \in U : x # 0 => d2[x] = d[x]
      BY <1>1, <1>3 DEF Owned, Covers, NULL_BLOC
    <2> QED
      BY <2>1, Untouched
  <1>5. Owned(d2, I, U)
    BY <1>1, <1>4 DEF Owned, Shaped, Apart, Covers
  <1>6. OnVolume(C, w, I)
    BY <1>3, <1>5 DEF OnVolume, Volume, Used, U, d2
  <1>7. ASSUME NEW j \in I, NEW l \in Fbloc
        PROVE  Held(d2, j, l) = Held(d, j, l)
    BY <1>4, SlotIs DEF Held
  <1> QED
    BY <1>3, <1>4, <1>6, <1>7 DEF Stores, w, d, d2
-----------------------------------------------------------------------------
(* New inodes and new volumes.                                             *)

\* The machine r that has created an inode on machine m, or found no bloc.
Creates(C, m, r, I, inode) ==
    /\ OnVolume(C, r, With(I, r.ret))
    /\ r.ret \in Bloc /\ r.ret \notin I
    /\ r.ret # NULL_BLOC => r.disk[r.ret] = inode
    /\ r.ret = NULL_BLOC \/ Lost(m) => Lost(r)
    /\ \A j \in I : r.disk[j] = m.disk[j]
    /\ SameHeld(m.disk, r.disk, I)
    /\ r.ret # NULL_BLOC => \A l \in Fbloc : Held(r.disk, r.ret, l) = Zero

(* A new file has no bloc but its inode, and no other file has changed.    *)
LEMMA CreateIs ==
    ASSUME NEW C, Complete(C), NEW m, NEW I, OnVolume(C, m, I), NEW type,
           Inode(type, 0, NoBlocs, NULL_BLOC, NULL_BLOC) \in C
    PROVE  Creates(C, m, CreateInode(m, type), I, Inode(type, 0, NoBlocs, NULL_BLOC, NULL_BLOC))
  <1> DEFINE inode == Inode(type, 0, NoBlocs, NULL_BLOC, NULL_BLOC)
             r == NewBloc(m)
             b == r.ret
             w == WriteBloc(r, b, inode)
             d == m.disk
             d2 == w.disk
             U == Used(m.super)
  <1>1. /\ Running(m) /\ FreeBlocs(C, d, m.super) /\ Owned(d, I, U) /\ 0 \notin U
        /\ I \subseteq U /\ U \subseteq Bloc
    BY OnVolumeIs
  <1>2. Taken(C, m, r)
    BY <1>1, NewBlocIs
  <1>3. /\ b \in Bloc /\ b \notin U /\ Used(r.super) = With(U, b) /\ U \subseteq Used(r.super)
        /\ b = NULL_BLOC \/ b \in Used(r.super)
        /\ b = NULL_BLOC => r.super.nb_free_blc = 0
    BY <1>1, <1>2, TakenIs
  <1>4. /\ Running(r) /\ FreeBlocs(C, r.disk, r.super) /\ \A x \in U : r.disk[x] = d[x]
        /\ Lost(m) => Lost(r)
    BY <1>2 DEF Taken, Used
  <1>5. /\ inode.kind = "inode" /\ inode.taille = 0 /\ inode.direct = NoBlocs
        /\ inode.indirect = NULL_BLOC /\ inode.double = NULL_BLOC /\ inode \in C
    BY InodeIs
  <1>6. CreateInode(m, type) = w
    BY DEF CreateInode, WriteFound
  <1> HIDE DEF inode, r, b
  <1>7. /\ Running(w) /\ FreeBlocs(C, d2, w.super) /\ w.super = r.super /\ w.ret = b
        /\ d2[b] = inode /\ (Lost(r) => Lost(w))
        /\ \A x \in U : d2[x] = d[x]
    <2>1. MayWrite(r.super, b, inode)
      BY <1>3, <1>5 DEF MayWrite, Used, NULL_BLOC
    <2>2. /\ Running(w) /\ FreeBlocs(C, d2, w.super) /\ w.super = r.super /\ w.ret = r.ret
          /\ d2[b] = inode /\ (Lost(r) => Lost(w))
          /\ \A x \in Bloc : x # b => d2[x] = r.disk[x]
      <3> HIDE DEF d
      <3> QED
        BY <1>3, <1>4, <1>5, <2>1, WriteKept
    <2> QED
      BY <1>1, <1>3, <1>4, <2>2 DEF b
  <1> HIDE DEF w, d, d2, U
  <1>8. \A j \in I : /\ d2[j] = d[j] /\ ShapeOf(d2, j)
                     /\ \A l \in Slot : Named(d2, j, l) = Named(d, j, l)
                     /\ \A l \in Slot : Named(d, j, l) # NULL_BLOC
                          => d2[Named(d, j, l)] = d[Named(d, j, l)]
    <2> SUFFICES ASSUME NEW j \in I
                 PROVE  /\ d2[j] = d[j] /\ ShapeOf(d2, j)
                        /\ \A l \in Slot : Named(d2, j, l) = Named(d, j, l)
                        /\ \A l \in Slot : Named(d, j, l) # NULL_BLOC
                             => d2[Named(d, j, l)] = d[Named(d, j, l)]
      OBVIOUS
    <2>1. /\ Owned(d, I, U) /\ b # j
          /\ \A l \in Slot : Named(d, j, l) # NULL_BLOC => Named(d, j, l) # b
          /\ \A x \in U : x # b => d2[x] = d[x]
      BY <1>1, <1>3, <1>7 DEF Owned, Covers
    <2> QED
      BY <2>1, Untouched
  <1>9. SameHeld(d, d2, I)
    BY <1>8, SlotIs DEF SameHeld, Held
  <1>10. \A l \in Slot : Named(d2, b, l) = NULL_BLOC
    <2> SUFFICES ASSUME NEW l \in Slot
                 PROVE  Named(d2, b, l) = NULL_BLOC
      OBVIOUS
    <2>1. CASE l = TableSlot
      BY <1>5, <1>7, <2>1, NamedIs
    <2>2. CASE l \in Index
      BY <1>5, <1>7, <2>2, NamedIs DEF NoBlocs
    <2>3. CASE l \in Fbloc \ Index
      BY <1>5, <1>7, <2>3, NamedIs
    <2> QED
      BY <2>1, <2>2, <2>3, SlotIs
  <1>11. \A l \in Fbloc : Held(d2, b, l) = Zero
    BY <1>10, SlotIs DEF Held
  <1>12. Owned(d2, With(I, b), With(U, b))
    <2>1. CASE b = NULL_BLOC
      <3>1. Owned(d2, I, U)
        BY <1>1, <1>8 DEF Owned, Shaped, Apart, Covers
      <3> QED
        BY <2>1, <3>1 DEF With
    <2>2. CASE b # NULL_BLOC
      <3>1. ShapeOf(d2, b)
        <4>1. \A k \in Index : inode.direct[k] = NULL_BLOC
          BY <1>5 DEF NoBlocs
        <4> QED
          BY <1>5, <1>7, <1>10, <4>1, SlotIs DEF ShapeOf
      <3>2. Shaped(d2, I \cup {b})
        BY <1>8, <3>1 DEF Shaped
      <3>3. Apart(d2, I \cup {b})
        BY <1>1, <1>8, <1>10 DEF Owned, Apart
      <3>4. Covers(d2, I \cup {b}, U \cup {b})
        <4>1. \A j \in I \cup {b} : \A l \in Slot : Named(d2, j, l) # NULL_BLOC
                => Named(d2, j, l) \in (U \cup {b}) \ (I \cup {b})
          BY <1>1, <1>3, <1>8, <1>10 DEF Owned, Covers
        <4>2. ASSUME NEW x \in (U \cup {b}) \ (I \cup {b})
              PROVE  \E j \in I \cup {b} : \E l \in Slot : Named(d2, j, l) = x
          <5>1. PICK j \in I, l \in Slot : Named(d, j, l) = x
            BY <1>1 DEF Owned, Covers
          <5> QED
            BY <1>8, <5>1
        <4> QED
          BY <1>1, <4>1, <4>2 DEF Covers
      <3> QED
        BY <1>1, <2>2, <3>2, <3>3, <3>4 DEF Owned, With
    <2> QED
      BY <2>1, <2>2
  <1>13. OnVolume(C, w, With(I, b))
    BY <1>3, <1>7, <1>12 DEF OnVolume, Volume, Used, d2
  <1>14. b = NULL_BLOC \/ Lost(m) => Lost(w)
    <2>1. b = NULL_BLOC => Lost(w)
      BY <1>3, <1>5, <1>7 DEF Lost, d2, NULL_BLOC
    <2> QED
      BY <1>4, <1>7, <2>1
  <1>15. Creates(C, m, w, I, inode)
    BY <1>1, <1>3, <1>7, <1>8, <1>9, <1>11, <1>13, <1>14 DEF Creates, d, d2
  <1> QED
    BY <1>6, <1>15 DEF inode

(* What mknfs leaves is a volume without files.                            *)
LEMMA FormatIs ==
    ASSUME NEW C, Complete(C), NEW m, Running(m), Disk(C, m.disk),
           Super(NULL_BLOC, NSector - 1, 1) \in C
    PROVE  /\ Volume(C, InitSuper(m).disk, InitSuper(m).super, {})
           /\ InitSuper(m).disk[0] = InitSuper(m).super
           /\ InitSuper(m).super = Super(NULL_BLOC, NSector - 1, 1)
  <1> DEFINE t == Super(NULL_BLOC, NSector - 1, 1)
             saved == SaveSuper(Changed(m, t))
             r == WriteBloc(saved, 1, Header)
  <1>1. InitSuper(m) = r
    <2>1. Changed(m, t).super = t
      BY DEF Changed, Running, Fields
    <2> QED
      BY <2>1 DEF InitSuper, SaveSuper, Changed, Header
  <1>2. /\ Running(saved) /\ saved.disk = Put(m.disk, 0, t) /\ saved.super = t
    BY SaveIs
  <1> HIDE DEF saved
  <1>3. /\ r.disk = Put(Put(m.disk, 0, t), 1, Header) /\ r.super = t
    BY <1>2, WriteIs
  <1>4. /\ t.kind = "super" /\ t.nb_free_blc = NSector - 1 /\ t.first_free = 1 /\ t \in C
        /\ Header \in C /\ 0 \in Bloc /\ 1 \in Bloc
    BY Kinds DEF Header, Complete, ClosedFree, Bloc, NULL_BLOC
  <1> HIDE DEF r, t
  <1>5. Disk(C, Put(m.disk, 0, t)) /\ Put(m.disk, 0, t)[0] = t
    BY <1>4, PutIs
  <1>6. Disk(C, r.disk) /\ r.disk[0] = t /\ r.disk[1] = Header
    <2> DEFINE e == Put(m.disk, 0, t)
    <2>1. Disk(C, e) /\ e[0] = t /\ r.disk = Put(e, 1, Header)
      BY <1>3, <1>5
    <2> HIDE DEF e
    <2>2. /\ Disk(C, Put(e, 1, Header)) /\ Put(e, 1, Header)[1] = Header
          /\ \A x \in Bloc : x # 1 => Put(e, 1, Header)[x] = e[x]
      BY <1>4, <2>1, PutIs
    <2>3. 0 # 1
      OBVIOUS
    <2> QED
      BY <1>4, <2>1, <2>2, <2>3
  <1>7. FreeBlocs(C, r.disk, r.super)
    BY <1>3, <1>4, <1>6 DEF FreeBlocs, FreeRun, Saved
  <1>8. Owned(r.disk, {}, 1 .. r.super.first_free - 1)
    BY <1>3, <1>4 DEF Owned, Shaped, Apart, Covers, NULL_BLOC
  <1> QED
    BY <1>1, <1>3, <1>6, <1>7, <1>8 DEF Volume, t
=============================================================================

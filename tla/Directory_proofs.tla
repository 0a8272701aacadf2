-------------------------- MODULE Directory_proofs --------------------------
(***************************************************************************)
(* Directories on a volume of any size, sectors and tables of any size and  *)
(* any number of kills: whatever call is killed after whatever sector write, *)
(* no bloc is named twice, a name never leads to a bloc that is no inode,   *)
(* and a kill loses one bloc at most.                                      *)
(*                                                                         *)
(* Every sector write of a call is looked at on its own: each leaves a disk *)
(* in order (Sane), whether the program goes on or is killed right after.   *)
(***************************************************************************)
EXTENDS Directory, Descriptors_proofs, FiniteSetTheorems

USE NSectorAssumption, InodesAssumption, DescriptorsAssumption

(***************************************************************************)
(* A sector holds more than an entry, and an inode more than one bloc: 512  *)
(* octets and 10 blocs in the code.  What a call reads or writes then lies   *)
(* before the double indirect table.                                       *)
(***************************************************************************)
Roomy == NB_BLOCS > 1 /\ SECTOR > ENTRY

\* The octets of a file below the double indirect table.
Near == 0 .. 2 * NB_BLOCS * SECTOR - 1

-----------------------------------------------------------------------------
(* A disk in order.                                                        *)

InodesOf(d) == { b \in 1 .. NSector - 1 : d[b].kind = "inode" }

(***************************************************************************)
(* The octets o, as those of file bloc k: the numbers in it are those of    *)
(* inodes I, or null.  A bloc that was named and not cleaned when its       *)
(* program was killed begins with HEADER, which has no name behind it.      *)
(***************************************************************************)
HoldsEntries(o, k, I) ==
    /\ o \in [0 .. SECTOR - 1 -> Halves]
    /\ \A p \in Near : PositionToFbloc(p) = k /\ p % ENTRY = 0 =>
          \/ o[p % SECTOR] \in I \cup {NULL_BLOC}
          \/ p % SECTOR = 0 /\ o[0] = HEADER /\ o[1] = EMPTY

\* What a file bloc may be.
FileBloc(c, k, I) == c.kind \in {"zero", "data", "free"} /\ HoldsEntries(Octets(c), k, I)

\* Inode i, its indirect table and the blocs of its file, among the inodes I.
InodeOf(d, i, I) ==
    /\ d[i].kind = "inode" /\ d[i].double = NULL_BLOC /\ d[i].taille <= NB_BLOCS + 1
    /\ d[i].indirect # NULL_BLOC => IsTable(d[d[i].indirect])
    /\ \A k \in Fbloc : Named(d, i, k) # NULL_BLOC => FileBloc(d[Named(d, i, k)], k, I)

\* The blocs that are not handed out are clean, but the first one, which is the
\* header of their run if the program was not killed before it was written.
FreeEnd(d, s) ==
    /\ s \in Contents /\ s.kind = "super" /\ s.root # NULL_BLOC
    /\ s.first_free \in 2 .. NSector
    /\ s.nb_free_blc = NSector - s.first_free
    /\ d[s.first_free] \in {Header, Zero}
    /\ \A b \in Bloc : b > s.first_free => d[b] = Zero
    /\ Saved(d, s)

\* The inodes I and the blocs they name are the blocs U.
Kept(d, I, U) == Apart(d, I) /\ Covers(d, I, U) /\ \A i \in I : InodeOf(d, i, I)

(***************************************************************************)
(* The blocs of disk d with super bloc s, in memory or saved: those handed  *)
(* out are inodes, or named once, or lost, which are the blocs L.           *)
(***************************************************************************)
Sane(d, s, L) ==
    /\ Disk(Contents, d)
    /\ FreeEnd(d, s)
    /\ L \subseteq Used(s)
    /\ Kept(d, InodesOf(d), Used(s) \ L)

AtMost(n) == { L \in SUBSET Bloc : Cardinality(L) <= n }

\* What a program may be killed on with n blocs lost: there is no file system
\* yet or no longer, or one in order.
Left(n) ==
    { d \in [Bloc -> Contents] :
        d[0].kind = "super" /\ d[0].root # NULL_BLOC => \E L \in AtMost(n) : Sane(d, d[0], L) }

-----------------------------------------------------------------------------
(* The contents of the blocs.                                              *)

Types == {"DIRECTORY"} \cup { cr[2] : cr \in Creations }

NewInode(type) == Inode(type, 0, NoBlocs, NULL_BLOC, NULL_BLOC)

(* The calls stay in Contents.                                             *)
LEMMA ContentsIs ==
    /\ Complete(Contents)
    /\ \A root, first \in Bloc, nb \in Nat : Super(root, nb, first) \in Contents
    /\ \A c \in Contents : c.kind = "super" =>
          /\ c.root \in Bloc /\ c.nb_free_blc \in Nat /\ c.first_free \in Bloc
          /\ c = Super(c.root, c.nb_free_blc, c.first_free)
    /\ \A type \in Types : NewInode(type) \in Contents
    /\ \A octets \in [0 .. SECTOR - 1 -> Halves] : Data(octets) \in Contents
    /\ \A c \in Contents : c.kind = "data" => c.octets \in [0 .. SECTOR - 1 -> Halves]
  <1>1. ClosedFree(Contents)
    BY DEF ClosedFree, Contents, FreeBlc, Zero
  <1>2. \A root, first \in Bloc, nb \in Nat : Super(root, nb, first) \in Contents
    BY DEF Contents, Super
  <1>3. ASSUME NEW c \in Contents, c.kind = "super"
        PROVE  /\ c.root \in Bloc /\ c.nb_free_blc \in Nat /\ c.first_free \in Bloc
               /\ c = Super(c.root, c.nb_free_blc, c.first_free)
    BY <1>3 DEF Contents, Zero, Super
  <1>4. ClosedSuper(Contents)
    BY <1>2, <1>3 DEF ClosedSuper
  <1>5. ClosedTable(Contents)
    BY DEF ClosedTable, Contents, TableBlocs, Zero
  <1>6. ClosedInode(Contents)
    <2>1. ASSUME NEW type \in Types, NEW taille \in 0 .. MaxFbloc, NEW direct \in [Index -> Bloc],
                 NEW indirect \in Bloc, NEW double \in Bloc
          PROVE  Inode(type, taille, direct, indirect, double) \in Contents
      BY DEF Contents, Inode, Types
    <2>2. ASSUME NEW c \in Contents, c.kind = "inode"
          PROVE  /\ c.type \in Types /\ c.taille \in 0 .. MaxFbloc
                 /\ c.direct \in [Index -> Bloc] /\ c.indirect \in Bloc /\ c.double \in Bloc
                 /\ c = Inode(c.type, c.taille, c.direct, c.indirect, c.double)
      BY <2>2 DEF Contents, Zero, Inode, Types
    <2> QED
      BY <2>1, <2>2 DEF ClosedInode
  <1>7. ASSUME NEW type \in Types
        PROVE  NewInode(type) \in Contents
    <2>1. 0 \in 0 .. MaxFbloc /\ NoBlocs \in [Index -> Bloc] /\ NULL_BLOC \in Bloc
      BY FblocIs DEF NoBlocs, Bloc, NULL_BLOC
    <2> QED
      BY <2>1 DEF NewInode, Inode, Contents, Types
  <1>8. ASSUME NEW octets \in [0 .. SECTOR - 1 -> Halves]
        PROVE  Data(octets) \in Contents
    BY DEF Data, Contents, Zero
  <1>9. ASSUME NEW c \in Contents, c.kind = "data"
        PROVE  c.octets \in [0 .. SECTOR - 1 -> Halves]
    BY <1>9 DEF Contents, Zero
  <1> QED
    BY <1>1, <1>2, <1>3, <1>4, <1>5, <1>6, <1>7, <1>8, <1>9 DEF Complete

\* From here on what a bloc holds is known by these two lemmas.
(* The fields of what a bloc holds.                                        *)
LEMMA FieldsIs ==
    ASSUME NEW c \in Contents
    PROVE  /\ c.kind \in {"zero", "super", "free", "data", "table", "inode"}
           /\ c.kind = "inode" =>
                /\ c.taille \in Nat /\ c.direct \in [Index -> Bloc]
                /\ c.indirect \in Bloc /\ c.double \in Bloc
           /\ Entries(c) \in [Index -> Bloc]
           /\ Octets(c) \in [0 .. SECTOR - 1 -> Halves]
  <1>1. c.kind \in {"zero", "super", "free", "data", "table", "inode"}
    BY DEF Contents, Zero
  <1>2. c.kind = "inode" => /\ c.taille \in 0 .. MaxFbloc /\ c.direct \in [Index -> Bloc]
                            /\ c.indirect \in Bloc /\ c.double \in Bloc
    BY ContentsIs DEF Complete, ClosedInode
  <1>3. Entries(c) \in [Index -> Bloc]
    <2>1. NoBlocs \in [Index -> Bloc]
      BY DEF NoBlocs, Bloc, NULL_BLOC
    <2>2. c.kind = "table" => c.entries \in [Index -> Bloc]
      BY ContentsIs DEF Complete, ClosedTable, TableBlocs
    <2> QED
      BY <2>1, <2>2 DEF Entries
  <1>4. Octets(c) \in [0 .. SECTOR - 1 -> Halves]
    <2>1. NoOctets \in [0 .. SECTOR - 1 -> Halves] /\ HEADER \in Halves
      BY DEF NoOctets, Halves, Bloc
    <2>2. [NoOctets EXCEPT ![0] = HEADER] \in [0 .. SECTOR - 1 -> Halves]
      BY <2>1
    <2>3. c.kind = "data" => c.octets \in [0 .. SECTOR - 1 -> Halves]
      BY ContentsIs
    <2> QED
      BY <2>1, <2>2, <2>3 DEF Octets
  <1> QED
    BY <1>1, <1>2, <1>3, <1>4, FblocIs

-----------------------------------------------------------------------------
(* The entries in a sector.                                                *)

(* A position is near if its file bloc is.                                 *)
LEMMA NearIs ==
    ASSUME NEW p \in Nat
    PROVE  p \in Near <=> PositionToFbloc(p) \in Fbloc
  <1>1. 2 * NB_BLOCS \in Nat
    OBVIOUS
  <1>2. p < (2 * NB_BLOCS) * SECTOR <=> PositionToFbloc(p) < 2 * NB_BLOCS
    BY ONLY <1>1, SectorBelow, p \in Nat
  <1>3. PositionToFbloc(p) \in Nat
    BY PositionIs
  <1>4. (2 * NB_BLOCS) * SECTOR \in Nat
    OBVIOUS
  <1> QED
    BY <1>2, <1>3, <1>4 DEF Near, Fbloc

(* A clean bloc, and the header of free blocs, hold no number but null.    *)
LEMMA CleanIs ==
    ASSUME Roomy, NEW c, c = Zero \/ c = Header, NEW k, NEW I
    PROVE  FileBloc(c, k, I)
  <1> DEFINE o == Octets(c)
  <1>1. c.kind \in {"zero", "free"}
    BY Kinds DEF Header
  <1>2. o = NoOctets \/ o = [NoOctets EXCEPT ![0] = HEADER]
    BY <1>1 DEF Octets
  <1>3. /\ o \in [0 .. SECTOR - 1 -> Halves]
        /\ \A q \in 0 .. SECTOR - 1 : o[q] = NULL_BLOC \/ (q = 0 /\ o[0] = HEADER /\ o[1] = EMPTY)
    <2>1. /\ \A q \in 0 .. SECTOR - 1 : NoOctets[q] = 0
          /\ NoOctets \in [0 .. SECTOR - 1 -> Halves] /\ HEADER \in Halves
      BY DEF NoOctets, Halves, Bloc
    <2>2. 0 \in 0 .. SECTOR - 1 /\ 1 \in 0 .. SECTOR - 1
      BY DEF Roomy, ENTRY
    <2> HIDE DEF o
    <2>3. CASE o = NoOctets
      BY <2>1, <2>3 DEF NULL_BLOC
    <2>4. CASE o = [NoOctets EXCEPT ![0] = HEADER]
      BY <2>1, <2>2, <2>4 DEF NULL_BLOC, EMPTY
    <2> QED
      BY <1>2, <2>3, <2>4
  <1>4. \A p \in Near : p % SECTOR \in 0 .. SECTOR - 1
    BY PositionIs DEF Near
  <1> HIDE DEF o
  <1>5. HoldsEntries(o, k, I)
    BY <1>3, <1>4 DEF HoldsEntries
  <1> QED
    BY <1>1, <1>5 DEF FileBloc, o

(* More inodes, and the numbers are still those of inodes.                 *)
LEMMA MoreInodes ==
    ASSUME NEW c, NEW k, NEW I, NEW J, I \subseteq J, FileBloc(c, k, I)
    PROVE  FileBloc(c, k, J)
  BY DEF FileBloc, HoldsEntries

(* The octets of entries are stored as they are.                           *)
LEMMA DataHolds ==
    ASSUME NEW o, NEW k, NEW I, HoldsEntries(o, k, I)
    PROVE  FileBloc(Data(o), k, I) /\ Data(o) \in Contents
  <1>1. Data(o).kind \in {"zero", "data"} /\ Octets(Data(o)) = o
    BY DataIs
  <1>2. Data(o) \in Contents
    BY ContentsIs DEF HoldsEntries
  <1> QED
    BY <1>1, <1>2 DEF FileBloc

-----------------------------------------------------------------------------
(* The blocs that inodes name.                                             *)

(* What is known of an inode.                                              *)
LEMMA KeptIs ==
    ASSUME NEW d, Disk(Contents, d), NEW I, NEW U, Kept(d, I, U), U \subseteq Bloc \ {0},
           NEW i \in I
    PROVE  /\ i \in U /\ i \in Bloc /\ i # NULL_BLOC /\ d[i] \in Contents /\ d[i].kind = "inode"
           /\ d[i].taille \in Nat /\ d[i].direct \in [Index -> Bloc] /\ d[i].indirect \in Bloc
           /\ \A k \in Slot : Named(d, i, k) \in Bloc /\ Named(d, i, k) # i
           /\ \A k \in Slot : Named(d, i, k) # NULL_BLOC => Named(d, i, k) \in U \ I
           /\ d[i].indirect # NULL_BLOC =>
                d[i].indirect \in U \ I /\ Entries(d[d[i].indirect]) \in [Index -> Bloc]
  <1>1. i \in U /\ i \in Bloc /\ i # NULL_BLOC /\ d[i].kind = "inode"
    BY DEF Kept, Covers, InodeOf, NULL_BLOC
  <1>2. d[i] \in Contents
    BY <1>1 DEF Disk
  <1>3. d[i].taille \in Nat /\ d[i].direct \in [Index -> Bloc] /\ d[i].indirect \in Bloc
    BY <1>1, <1>2, FieldsIs
  <1>4. \A k \in Slot : Named(d, i, k) # NULL_BLOC => Named(d, i, k) \in U \ I
    BY DEF Kept, Covers
  <1>5. \A k \in Slot : Named(d, i, k) \in Bloc /\ Named(d, i, k) # i
    <2>1. NULL_BLOC \in Bloc
      BY DEF Bloc, NULL_BLOC
    <2>2. ASSUME NEW k \in Slot
          PROVE  Named(d, i, k) \in Bloc /\ Named(d, i, k) # i
      <3>1. CASE Named(d, i, k) = NULL_BLOC
        BY <1>1, <2>1, <3>1
      <3>2. CASE Named(d, i, k) # NULL_BLOC
        BY <1>4, <3>2
      <3> QED
        BY <3>1, <3>2
    <2> QED
      BY <2>2
  <1>6. ASSUME d[i].indirect # NULL_BLOC
        PROVE  d[i].indirect \in U \ I /\ Entries(d[d[i].indirect]) \in [Index -> Bloc]
    <2>1. Named(d, i, TableSlot) = d[i].indirect /\ TableSlot \in Slot
      BY NamedIs, SlotIs
    <2>2. d[i].indirect \in U \ I
      BY <1>4, <1>6, <2>1
    <2>3. d[d[i].indirect] \in Contents
      BY <1>3 DEF Disk
    <2> QED
      BY <2>2, <2>3, FieldsIs
  <1> QED
    BY <1>1, <1>2, <1>3, <1>4, <1>5, <1>6

(* The names are as they were.                                             *)
LEMMA KeptSame ==
    ASSUME NEW d, NEW I, NEW U, Kept(d, I, U), NEW d2,
           \A i \in I : InodeOf(d2, i, I) /\ \A k \in Slot : Named(d2, i, k) = Named(d, i, k)
    PROVE  Kept(d2, I, U)
  <1>1. Apart(d2, I)
    BY DEF Kept, Apart
  <1>2. Covers(d2, I, U)
    BY DEF Kept, Covers
  <1> QED
    BY <1>1, <1>2 DEF Kept

(* A bloc that nothing named comes into an empty slot, or nothing does.    *)
LEMMA KeptMore ==
    ASSUME NEW d, NEW I, NEW U, Kept(d, I, U), U \subseteq Bloc \ {0},
           NEW i \in I, NEW k \in Slot, Named(d, i, k) = NULL_BLOC,
           NEW b, b \notin U, NEW d2, Fills(d, d2, I, i, k, b), \A j \in I : InodeOf(d2, j, I)
    PROVE  Kept(d2, I, With(U, b))
  <1> DEFINE V == With(U, b)
  <1>1. /\ U \subseteq V /\ V \subseteq U \cup {b} /\ NULL_BLOC \notin V
        /\ b # NULL_BLOC => b \in V \ I
    BY DEF With, Kept, Covers, NULL_BLOC
  <1>2. \A j \in I : \A l \in Slot : Named(d, j, l) # NULL_BLOC => Named(d, j, l) \in U \ I
    BY DEF Kept, Covers
  <1>3. Apart(d2, I)
    <2>1. SUFFICES ASSUME NEW j1 \in I, NEW j2 \in I, NEW k1 \in Slot, NEW k2 \in Slot,
                          Named(d2, j1, k1) # NULL_BLOC, Named(d2, j1, k1) = Named(d2, j2, k2)
                   PROVE  j1 = j2 /\ k1 = k2
      BY DEF Apart
    <2>2. /\ Named(d2, j1, k1) = IF j1 = i /\ k1 = k THEN b ELSE Named(d, j1, k1)
          /\ Named(d2, j2, k2) = IF j2 = i /\ k2 = k THEN b ELSE Named(d, j2, k2)
      BY DEF Fills
    <2>3. /\ Named(d, j1, k1) # b \/ Named(d, j1, k1) = NULL_BLOC
          /\ Named(d, j2, k2) # b \/ Named(d, j2, k2) = NULL_BLOC
      BY <1>2
    <2>4. Named(d, j1, k1) # NULL_BLOC /\ Named(d, j1, k1) = Named(d, j2, k2) => j1 = j2 /\ k1 = k2
      BY DEF Kept, Apart
    <2> QED
      BY ONLY <2>1, <2>2, <2>3, <2>4
  <1>4. Covers(d2, I, V)
    <2>1. I \subseteq V
      BY <1>1 DEF Kept, Covers
    <2>2. ASSUME NEW j \in I, NEW l \in Slot, Named(d2, j, l) # NULL_BLOC
          PROVE  Named(d2, j, l) \in V \ I
      BY <1>1, <1>2, <2>2 DEF Fills
    <2>3. ASSUME NEW x \in V \ I
          PROVE  \E j \in I : \E l \in Slot : Named(d2, j, l) = x
      <3>1. CASE x = b
        <4>1. Named(d2, i, k) = x
          BY <3>1 DEF Fills
        <4> QED
          BY <4>1
      <3>2. CASE x # b
        <4>1. x \in U \ I
          BY <1>1, <2>3, <3>2
        <4>2. PICK j \in I, l \in Slot : Named(d, j, l) = x
          BY <4>1 DEF Kept, Covers
        <4>3. x # NULL_BLOC
          BY <1>1, <2>3
        <4>4. Named(d2, j, l) = x
          BY <4>2, <4>3 DEF Fills
        <4> QED
          BY <4>4
      <3> QED
        BY <3>1, <3>2
    <2> QED
      BY <2>1, <2>2, <2>3 DEF Covers
  <1> QED
    BY <1>3, <1>4 DEF Kept

(* Some bloc w changes, and it is not one of inode j.                      *)
LEMMA KeptUntouched ==
    ASSUME NEW d, NEW I, NEW U, Kept(d, I, U), NEW j \in I,
           NEW w, w # j, \A k \in Slot : Named(d, j, k) # NULL_BLOC => Named(d, j, k) # w,
           NEW d2, \A x \in U : x # w => d2[x] = d[x]
    PROVE  /\ d2[j] = d[j]
           /\ \A k \in Slot : Named(d2, j, k) = Named(d, j, k)
           /\ \A k \in Slot : Named(d, j, k) # NULL_BLOC => d2[Named(d, j, k)] = d[Named(d, j, k)]
           /\ InodeOf(d2, j, I)
  <1>1. j \in U /\ InodeOf(d, j, I) /\ Fbloc \subseteq Slot /\ TableSlot \in Slot
    BY SlotIs DEF Kept, Covers
  <1>2. \A k \in Slot : Named(d, j, k) # NULL_BLOC => d2[Named(d, j, k)] = d[Named(d, j, k)]
    BY DEF Kept, Covers
  <1>3. d2[j] = d[j]
    BY <1>1
  <1>4. d[j].indirect # NULL_BLOC => d2[d[j].indirect] = d[d[j].indirect]
    BY <1>1, <1>2, NamedIs
  <1>5. \A k \in Slot : Named(d2, j, k) = Named(d, j, k)
    BY <1>3, <1>4, SameNames
  <1>6. InodeOf(d2, j, I)
    BY <1>1, <1>2, <1>3, <1>4, <1>5 DEF InodeOf
  <1> QED
    BY <1>2, <1>3, <1>5, <1>6

(* No bloc that is in use changes.                                         *)
LEMMA KeptElsewhere ==
    ASSUME NEW d, NEW I, NEW U, Kept(d, I, U), U \subseteq Bloc \ {0},
           NEW d2, \A x \in U : d2[x] = d[x]
    PROVE  /\ Kept(d2, I, U)
           /\ \A i \in I : \A k \in Slot : Named(d2, i, k) = Named(d, i, k)
  <1>1. ASSUME NEW i \in I
        PROVE  InodeOf(d2, i, I) /\ \A k \in Slot : Named(d2, i, k) = Named(d, i, k)
    <2>1. i \in U /\ 0 \notin U
      BY DEF Kept, Covers
    <2>2. 0 # i /\ \A k \in Slot : Named(d, i, k) # NULL_BLOC => Named(d, i, k) # 0
      BY <2>1 DEF NULL_BLOC
    <2>3. \A x \in U : x # 0 => d2[x] = d[x]
      OBVIOUS
    <2>4. Kept(d, I, U) /\ i \in I
      OBVIOUS
    <2> QED
      BY ONLY <2>2, <2>3, <2>4, KeptUntouched
  <1> QED
    BY <1>1, KeptSame

(* A new inode, that names nothing yet.                                    *)
LEMMA KeptNew ==
    ASSUME NEW d, NEW I, NEW U, Kept(d, I, U), U \subseteq Bloc \ {0},
           NEW b, b \notin U, b # NULL_BLOC, NEW type,
           NEW d2, \A x \in U : d2[x] = d[x], d2[b] = NewInode(type)
    PROVE  /\ Kept(d2, I \cup {b}, U \cup {b})
           /\ \A i \in I : \A k \in Slot : Named(d2, i, k) = Named(d, i, k)
  <1> DEFINE J == I \cup {b}
  <1>1. Kept(d2, I, U) /\ \A i \in I : \A k \in Slot : Named(d2, i, k) = Named(d, i, k)
    BY KeptElsewhere
  <1>2. /\ d2[b].kind = "inode" /\ d2[b].taille = 0 /\ d2[b].direct = NoBlocs
        /\ d2[b].indirect = NULL_BLOC /\ d2[b].double = NULL_BLOC
    BY InodeIs DEF NewInode
  <1>3. \A k \in Slot : Named(d2, b, k) = NULL_BLOC
    BY <1>2, NamedIs, SlotIs DEF NoBlocs
  <1>4. Apart(d2, J)
    BY <1>1, <1>3 DEF Kept, Apart
  <1>5. Covers(d2, J, U \cup {b})
    <2>1. J \subseteq U \cup {b}
      BY DEF Kept, Covers
    <2>2. \A i \in J : \A k \in Slot :
             Named(d2, i, k) # NULL_BLOC => Named(d2, i, k) \in (U \cup {b}) \ J
      BY <1>1, <1>3 DEF Kept, Covers
    <2>3. \A x \in (U \cup {b}) \ J : \E i \in J : \E k \in Slot : Named(d2, i, k) = x
      BY <1>1 DEF Kept, Covers
    <2> QED
      BY <2>1, <2>2, <2>3 DEF Covers
  <1>6. ASSUME NEW i \in J
        PROVE  InodeOf(d2, i, J)
    <2>1. CASE i = b
      <3>1. Fbloc \subseteq Slot /\ 0 <= NB_BLOCS + 1
        BY SlotIs
      <3> QED
        BY <1>2, <1>3, <2>1, <3>1 DEF InodeOf
    <2>2. CASE i \in I
      <3>1. InodeOf(d2, i, I)
        BY <1>1, <2>2 DEF Kept
      <3>2. I \subseteq J
        OBVIOUS
      <3> HIDE DEF J
      <3> QED
        BY <3>1, <3>2, MoreInodes DEF InodeOf
    <2> QED
      BY <2>1, <2>2
  <1> QED
    BY <1>1, <1>4, <1>5, <1>6 DEF Kept

(* The bloc of file bloc k of inode i is written.                          *)
LEMMA KeptData ==
    ASSUME NEW d, NEW I, NEW U, Kept(d, I, U), U \subseteq Bloc \ {0},
           NEW i \in I, NEW k \in Fbloc, NEW w, w = Named(d, i, k), w # NULL_BLOC,
           NEW d2, \A x \in U : x # w => d2[x] = d[x], FileBloc(d2[w], k, I)
    PROVE  /\ Kept(d2, I, U)
           /\ \A j \in I : \A l \in Slot : Named(d2, j, l) = Named(d, j, l)
  <1>1. /\ k \in Slot /\ Fbloc \subseteq Slot /\ TableSlot \in Slot /\ TableSlot # k
        /\ w \in U \ I
    BY SlotIs DEF Kept, Covers
  <1>2. ASSUME NEW j \in I
        PROVE  InodeOf(d2, j, I) /\ \A l \in Slot : Named(d2, j, l) = Named(d, j, l)
    <2>1. CASE j # i
      <3>1. \A l \in Slot : Named(d, j, l) # NULL_BLOC => Named(d, j, l) # w
        BY <1>1, <2>1 DEF Kept, Apart
      <3>2. w # j
        BY <1>1
      <3> QED
        BY <3>1, <3>2, KeptUntouched
    <2>2. CASE j = i
      <3>1. j \in U /\ InodeOf(d, j, I)
        BY DEF Kept, Covers
      <3>2. d2[j] = d[j]
        BY <1>1, <3>1
      <3>3. \A l \in Slot : l # k /\ Named(d, j, l) # NULL_BLOC =>
                               Named(d, j, l) \in U /\ Named(d, j, l) # w
        BY <1>1, <2>2 DEF Kept, Apart, Covers
      <3>4. d[j].indirect # NULL_BLOC => d2[d[j].indirect] = d[d[j].indirect]
        BY <1>1, <3>3, NamedIs
      <3>5. \A l \in Slot : Named(d2, j, l) = Named(d, j, l)
        BY <3>2, <3>4, SameNames
      <3>6. ASSUME NEW l \in Fbloc, Named(d2, j, l) # NULL_BLOC
            PROVE  FileBloc(d2[Named(d2, j, l)], l, I)
        <4>1. CASE l = k
          BY <2>2, <3>5, <1>1, <4>1
        <4>2. CASE l # k
          BY <1>1, <3>1, <3>3, <3>5, <3>6, <4>2 DEF InodeOf
        <4> QED
          BY <4>1, <4>2
      <3>7. InodeOf(d2, j, I)
        BY <3>1, <3>2, <3>4, <3>6 DEF InodeOf
      <3> QED
        BY <3>5, <3>7
    <2> QED
      BY <2>1, <2>2
  <1> QED
    BY <1>2, KeptSame

(* Inode i is rewritten, with bloc b in slot k.                            *)
LEMMA KeptInode ==
    ASSUME NEW d, NEW I, NEW U, Kept(d, I, U), U \subseteq Bloc \ {0},
           NEW i \in I, NEW k \in Slot, Named(d, i, k) = NULL_BLOC, NEW b, b \notin U,
           NEW d2, \A x \in U : x # i => d2[x] = d[x],
           d2[i].kind = "inode", d2[i].double = NULL_BLOC, d2[i].taille <= NB_BLOCS + 1,
           d2[i].indirect # NULL_BLOC => IsTable(d2[d2[i].indirect]),
           \A l \in Slot : Named(d2, i, l) = IF l = k THEN b ELSE Named(d, i, l),
           b # NULL_BLOC /\ k \in Fbloc => FileBloc(d2[b], k, I)
    PROVE  Kept(d2, I, With(U, b)) /\ Fills(d, d2, I, i, k, b)
  <1>1. \A j \in I : \A l \in Slot :
           Named(d, j, l) # NULL_BLOC => Named(d, j, l) \in U /\ Named(d, j, l) # i
    BY DEF Kept, Covers
  <1>2. ASSUME NEW j \in I, j # i
        PROVE  InodeOf(d2, j, I) /\ \A l \in Slot : Named(d2, j, l) = Named(d, j, l)
    <2>1. i # j /\ \A l \in Slot : Named(d, j, l) # NULL_BLOC => Named(d, j, l) # i
      BY <1>1, <1>2
    <2>2. Kept(d, I, U) /\ j \in I /\ \A x \in U : x # i => d2[x] = d[x]
      OBVIOUS
    <2> QED
      BY ONLY <2>1, <2>2, KeptUntouched
  <1>3. InodeOf(d2, i, I)
    <2>1. ASSUME NEW l \in Fbloc, Named(d2, i, l) # NULL_BLOC
          PROVE  FileBloc(d2[Named(d2, i, l)], l, I)
      <3>1. l \in Slot
        BY SlotIs
      <3>2. CASE l = k
        BY <2>1, <3>1, <3>2
      <3>3. CASE l # k
        <4>1. Named(d2, i, l) = Named(d, i, l) /\ d2[Named(d, i, l)] = d[Named(d, i, l)]
          BY <1>1, <2>1, <3>1, <3>3
        <4> QED
          BY <2>1, <4>1 DEF Kept, InodeOf
      <3> QED
        BY <3>2, <3>3
    <2> QED
      BY <2>1 DEF InodeOf
  <1>4. Fills(d, d2, I, i, k, b)
    BY <1>2 DEF Fills
  <1>5. \A j \in I : InodeOf(d2, j, I)
    BY <1>2, <1>3
  <1> QED
    BY <1>4, <1>5, KeptMore

(* A bloc named in the direct table of inode i.                            *)
LEMMA KeptDirect ==
    ASSUME Roomy, NEW d, Disk(Contents, d), NEW I, NEW U, Kept(d, I, U), U \subseteq Bloc \ {0},
           NEW i \in I, NEW k \in Index, Named(d, i, k) = NULL_BLOC,
           NEW b \in Bloc, b \notin U, NEW d2, \A x \in U : x # i => d2[x] = d[x],
           d2[i] = InDirect(d[i], k, b), b # NULL_BLOC => d2[b] = Zero \/ d2[b] = Header
    PROVE  Kept(d2, I, With(U, b)) /\ Fills(d, d2, I, i, k, b)
  <1>1. /\ d[i] \in Contents /\ d[i].kind = "inode" /\ d[i].direct \in [Index -> Bloc]
        /\ d[i].taille \in Nat /\ InodeOf(d, i, I)
        /\ k \in Slot /\ k \in Fbloc /\ k # TableSlot
    BY KeptIs, SlotIs DEF Kept
  <1>2. /\ d2[i].kind = "inode"
        /\ d2[i].direct = [d[i].direct EXCEPT ![k] = b]
        /\ d2[i].indirect = d[i].indirect /\ d2[i].double = d[i].double
        /\ d2[i].taille = Larger(d[i].taille, k + 1)
    BY <1>1, GrownIs, ContentsIs
  <1>3. /\ d2[i].taille <= NB_BLOCS + 1
        /\ \A l \in Index : d2[i].direct[l] = IF l = k THEN b ELSE d[i].direct[l]
    <2>1. k \in Nat /\ k < NB_BLOCS /\ d[i].taille <= NB_BLOCS + 1
      BY <1>1, SlotIs DEF InodeOf
    <2> QED
      BY <1>1, <1>2, <2>1 DEF Larger
  <1>4. d[i].indirect # NULL_BLOC => d2[d[i].indirect] = d[d[i].indirect]
    BY <1>1, KeptIs
  <1>5. \A l \in Slot : Named(d2, i, l) = IF l = k THEN b ELSE Named(d, i, l)
    <2> SUFFICES ASSUME NEW l \in Slot
                 PROVE  Named(d2, i, l) = IF l = k THEN b ELSE Named(d, i, l)
      OBVIOUS
    <2>1. CASE l = TableSlot
      BY <1>1, <1>2, <2>1, NamedIs, SlotIs
    <2>2. CASE l \in Index
      BY <1>3, <2>2, NamedIs
    <2>3. CASE l \in Fbloc \ Index
      BY <1>2, <1>4, <2>3, NamedIs
    <2> QED
      BY <2>1, <2>2, <2>3, SlotIs
  <1>6. d2[i].double = NULL_BLOC /\ (d2[i].indirect # NULL_BLOC => IsTable(d2[d2[i].indirect]))
    BY <1>1, <1>2, <1>4 DEF InodeOf
  <1>7. b # NULL_BLOC => FileBloc(d2[b], k, I)
    BY CleanIs
  <1> QED
    BY <1>1, <1>2, <1>3, <1>5, <1>6, <1>7, KeptInode

(* A clean bloc named as the indirect table of inode i.                    *)
LEMMA KeptTable ==
    ASSUME NEW d, Disk(Contents, d), NEW I, NEW U, Kept(d, I, U), U \subseteq Bloc \ {0},
           NEW i \in I, d[i].indirect = NULL_BLOC,
           NEW b \in Bloc, b \notin U, NEW d2, \A x \in U : x # i => d2[x] = d[x],
           d2[i] = AsIndirect(d[i], NB_BLOCS, b), b # NULL_BLOC => d2[b] = Zero
    PROVE  Kept(d2, I, With(U, b)) /\ Fills(d, d2, I, i, TableSlot, b)
  <1>1. /\ d[i] \in Contents /\ d[i].kind = "inode" /\ d[i].taille \in Nat /\ InodeOf(d, i, I)
        /\ TableSlot \in Slot /\ TableSlot \notin Fbloc
    BY KeptIs, SlotIs DEF Kept
  <1>2. d[i] = Inode(d[i].type, d[i].taille, d[i].direct, d[i].indirect, d[i].double)
    BY <1>1, ContentsIs DEF Complete, ClosedInode
  <1>3. d2[i] = Inode(d[i].type, Larger(d[i].taille, NB_BLOCS + 1), d[i].direct, b, d[i].double)
    <2> DEFINE t == d[i].type
               u == d[i].taille
               v == d[i].direct
               w == d[i].indirect
               x == d[i].double
    <2> HIDE DEF t, u, v, w, x
    <2> DEFINE n == d[i]
    <2>2. n = Inode(t, u, v, w, x) /\ d2[i] = AsIndirect(n, NB_BLOCS, b)
      BY <1>2 DEF t, u, v, w, x
    <2> HIDE DEF n
    <2>3. /\ InDirect(n, NB_BLOCS, b)
               = Inode(t, Larger(u, NB_BLOCS + 1), [v EXCEPT ![NB_BLOCS] = b], w, x)
          /\ AsIndirect(n, NB_BLOCS, b) = Inode(t, Larger(u, NB_BLOCS + 1), v, b, x)
      BY ONLY <2>2, InodeChanged
    <2> QED
      BY <2>2, <2>3 DEF t, u, v, w, x
  <1>4. /\ d2[i].kind = "inode" /\ d2[i].direct = d[i].direct /\ d2[i].indirect = b
        /\ d2[i].double = NULL_BLOC /\ d2[i].taille = Larger(d[i].taille, NB_BLOCS + 1)
    BY <1>1, <1>3, InodeIs DEF InodeOf
  <1>5. d2[i].taille <= NB_BLOCS + 1
    BY <1>1, <1>4 DEF InodeOf, Larger
  <1>6. b # NULL_BLOC => IsTable(d2[b]) /\ Entries(d2[b]) = NoBlocs
    BY Kinds DEF IsTable, Entries
  <1>7. \A l \in Slot : Named(d2, i, l) = IF l = TableSlot THEN b ELSE Named(d, i, l)
    <2> SUFFICES ASSUME NEW l \in Slot
                 PROVE  Named(d2, i, l) = IF l = TableSlot THEN b ELSE Named(d, i, l)
      OBVIOUS
    <2>1. CASE l = TableSlot
      BY <1>4, <2>1, NamedIs
    <2>2. CASE l \in Index
      BY <1>4, <1>1, <2>2, NamedIs, SlotIs
    <2>3. CASE l \in Fbloc \ Index
      <3>1. Named(d, i, l) = NULL_BLOC /\ l # TableSlot /\ l - NB_BLOCS \in Index
        BY <1>1, <2>3, NamedIs, SlotIs
      <3>2. Named(d2, i, l) = NULL_BLOC
        BY <1>4, <1>6, <2>3, <3>1, NamedIs DEF NoBlocs
      <3> QED
        BY <3>1, <3>2
    <2> QED
      BY <2>1, <2>2, <2>3, SlotIs
  <1>8. Named(d, i, TableSlot) = NULL_BLOC
    BY NamedIs
  <1> QED
    BY <1>1, <1>4, <1>5, <1>6, <1>7, <1>8, KeptInode

(* A bloc named in the indirect table of inode i.                          *)
LEMMA KeptEntry ==
    ASSUME Roomy, NEW d, Disk(Contents, d), NEW I, NEW U, Kept(d, I, U), U \subseteq Bloc \ {0},
           NEW i \in I, NEW k \in Fbloc \ Index, Named(d, i, k) = NULL_BLOC,
           NEW t, t = d[i].indirect, t # NULL_BLOC,
           NEW b \in Bloc, b \notin U, NEW d2, \A x \in U : x # t => d2[x] = d[x],
           d2[t] = Entered(Entries(d[t]), k - NB_BLOCS, b),
           b # NULL_BLOC => d2[b] = Zero \/ d2[b] = Header
    PROVE  Kept(d2, I, With(U, b)) /\ Fills(d, d2, I, i, k, b)
  <1>1. /\ InodeOf(d, i, I) /\ Entries(d[t]) \in [Index -> Bloc]
        /\ TableSlot \in Slot /\ k \in Fbloc /\ k # TableSlot /\ k \in Slot
        /\ Named(d, i, TableSlot) = t /\ t \in U \ I
    BY KeptIs, SlotIs, NamedIs DEF Kept
  <1>2. d2[i] = d[i]
    BY <1>1 DEF Kept, Covers
  <1>3. ASSUME NEW j \in I, j # i
        PROVE  InodeOf(d2, j, I) /\ \A l \in Slot : Named(d2, j, l) = Named(d, j, l)
    <2>1. t # j /\ \A l \in Slot : Named(d, j, l) # NULL_BLOC => Named(d, j, l) # t
      BY <1>1, <1>3 DEF Kept, Apart
    <2>2. Kept(d, I, U) /\ j \in I /\ \A x \in U : x # t => d2[x] = d[x]
      OBVIOUS
    <2> QED
      BY ONLY <2>1, <2>2, KeptUntouched
  <1>4. \A l \in Fbloc : Named(d, i, l) # NULL_BLOC => d2[Named(d, i, l)] = d[Named(d, i, l)]
    <2> SUFFICES ASSUME NEW l \in Fbloc, Named(d, i, l) # NULL_BLOC
                 PROVE  d2[Named(d, i, l)] = d[Named(d, i, l)]
      OBVIOUS
    <2>1. l \in Slot /\ l # TableSlot
      BY SlotIs
    <2>2. Named(d, i, l) # t /\ Named(d, i, l) \in U
      BY <1>1, <2>1 DEF Kept, Apart, Covers
    <2> QED
      BY <2>2
  <1>5. \A l \in Slot : Named(d2, i, l) = IF l = k THEN b ELSE Named(d, i, l)
    <2> SUFFICES ASSUME NEW l \in Slot
                 PROVE  Named(d2, i, l) = IF l = k THEN b ELSE Named(d, i, l)
      OBVIOUS
    <2>1. CASE l = TableSlot
      BY <1>1, <1>2, <2>1, NamedIs
    <2>2. CASE l \in Index
      BY <1>2, <2>2, NamedIs
    <2>3. CASE l \in Fbloc \ Index
      <3>1. Entries(d2[t]) = [Entries(d[t]) EXCEPT ![k - NB_BLOCS] = b]
        BY Kinds DEF Entries, Entered
      <3>2. /\ l - NB_BLOCS \in Index /\ k - NB_BLOCS \in Index
            /\ l # k => l - NB_BLOCS # k - NB_BLOCS
        BY <2>3, SlotIs
      <3>3. Entries(d2[t])[l - NB_BLOCS] = IF l = k THEN b ELSE Entries(d[t])[l - NB_BLOCS]
        BY <1>1, <3>1, <3>2
      <3> QED
        BY <1>2, <2>3, <3>3, NamedIs
    <2> QED
      BY <2>1, <2>2, <2>3, SlotIs
  <1>6. InodeOf(d2, i, I)
    <2>1. ASSUME NEW l \in Fbloc, Named(d2, i, l) # NULL_BLOC
          PROVE  FileBloc(d2[Named(d2, i, l)], l, I)
      <3>1. l \in Slot
        BY SlotIs
      <3>2. CASE l = k
        BY <1>5, <2>1, <3>1, <3>2, CleanIs
      <3>3. CASE l # k
        BY <1>1, <1>4, <1>5, <2>1, <3>1, <3>3 DEF InodeOf
      <3> QED
        BY <3>2, <3>3
    <2>2. IsTable(d2[t])
      BY Kinds DEF IsTable, Entered
    <2> QED
      BY <1>1, <1>2, <2>1, <2>2 DEF InodeOf
  <1>7. Fills(d, d2, I, i, k, b)
    BY <1>3, <1>5 DEF Fills
  <1>8. \A j \in I : InodeOf(d2, j, I)
    BY <1>3, <1>6
  <1> QED
    BY <1>1, <1>7, <1>8, KeptMore

-----------------------------------------------------------------------------
(* A disk in order, and the writes that leave it so.                       *)

\* The inodes of d are inodes of d2, and name what they named.
Follows(d, d2) ==
    /\ InodesOf(d) \subseteq InodesOf(d2)
    /\ \A i \in InodesOf(d) : \A k \in Slot :
          Named(d, i, k) # NULL_BLOC => Named(d2, i, k) = Named(d, i, k)

(* One disk after the other.                                               *)
LEMMA FollowsOn ==
    ASSUME NEW d1, NEW d2, NEW d3, Follows(d1, d2), Follows(d2, d3)
    PROVE  Follows(d1, d3)
  BY DEF Follows

(* What is known of a disk in order.                                       *)
LEMMA SaneIs ==
    ASSUME NEW d, NEW s, NEW L, Sane(d, s, L)
    PROVE  /\ Disk(Contents, d) /\ s \in Contents /\ s.kind = "super" /\ s # NoSuper
           /\ s = Super(s.root, s.nb_free_blc, s.first_free)
           /\ s.root \in Bloc /\ s.root # NULL_BLOC
           /\ s.nb_free_blc \in Nat /\ s.first_free \in Bloc
           /\ s.first_free \in 2 .. NSector /\ s.nb_free_blc = NSector - s.first_free
           /\ 0 \in Bloc /\ Used(s) \subseteq Bloc \ {0} /\ Used(s) \subseteq 1 .. NSector - 1
           /\ Used(s) \ L \subseteq Bloc \ {0} /\ L \subseteq Used(s)
           /\ InodesOf(d) \subseteq Used(s) \ L
           /\ Kept(d, InodesOf(d), Used(s) \ L)
           /\ \A b \in Bloc : b >= s.first_free => d[b] = Zero \/ d[b] = Header
  <1>1. Disk(Contents, d) /\ FreeEnd(d, s) /\ L \subseteq Used(s) /\ Kept(d, InodesOf(d), Used(s) \ L)
    BY DEF Sane
  <1>2. s \in Contents /\ s.kind = "super" /\ s # NoSuper
    BY <1>1, Kinds DEF FreeEnd
  <1>3. /\ s = Super(s.root, s.nb_free_blc, s.first_free)
        /\ s.root \in Bloc /\ s.nb_free_blc \in Nat /\ s.first_free \in Bloc
    BY <1>2, ContentsIs
  <1>4. /\ s.first_free \in 2 .. NSector /\ s.nb_free_blc = NSector - s.first_free
        /\ s.root # NULL_BLOC
        /\ \A b \in Bloc : b >= s.first_free => d[b] = Zero \/ d[b] = Header
    BY <1>1, <1>3 DEF FreeEnd, Bloc
  <1>5. 0 \in Bloc /\ Used(s) \subseteq Bloc \ {0} /\ Used(s) \subseteq 1 .. NSector - 1
    BY <1>4 DEF Used, Bloc
  <1>6. InodesOf(d) \subseteq Used(s) \ L
    BY <1>1 DEF Kept, Covers
  <1> QED
    BY <1>1, <1>2, <1>3, <1>4, <1>5, <1>6

(* A program may be killed on a disk in order.                             *)
LEMMA SaneLeft ==
    ASSUME NEW d, NEW s, NEW L, Sane(d, s, L), NEW n, L \in AtMost(n)
    PROVE  d \in Left(n)
  <1>1. Disk(Contents, d) /\ (d[0].kind = "super" => d[0] = s)
    BY DEF Sane, FreeEnd, Saved
  <1>2. ASSUME d[0].kind = "super"
        PROVE  \E M \in AtMost(n) : Sane(d, d[0], M)
    BY <1>1, <1>2
  <1> QED
    BY <1>1, <1>2 DEF Left, Disk

(* One bloc lost more.                                                     *)
LEMMA OneLostMore ==
    ASSUME NEW n \in Nat, NEW L, L \in AtMost(n), NEW b \in Bloc
    PROVE  L \in AtMost(n + 1) /\ L \cup {b} \in AtMost(n + 1) /\ L \ {b} \in AtMost(n + 1)
  <1>1. IsFiniteSet(Bloc) /\ L \subseteq Bloc /\ Cardinality(L) <= n
    BY FS_Interval DEF Bloc, AtMost
  <1>2. IsFiniteSet(L) /\ Cardinality(L) \in Nat
    BY <1>1, FS_Subset, FS_CardinalityType
  <1>3. Cardinality(L \cup {b}) \in {Cardinality(L), Cardinality(L) + 1}
    <2>1. IsFiniteSet(L)
      BY <1>2
    <2> QED
      BY ONLY <2>1, FS_AddElement
  <1>4. Cardinality(L \ {b}) \in {Cardinality(L), Cardinality(L) - 1}
    <2>1. IsFiniteSet(L)
      BY <1>2
    <2> QED
      BY ONLY <2>1, FS_RemoveElement
  <1> QED
    BY <1>1, <1>2, <1>3, <1>4 DEF AtMost

(* The inodes after a write.                                               *)
LEMMA InodesPut ==
    ASSUME NEW d, Disk(Contents, d), NEW b \in Bloc, NEW c \in Contents
    PROVE  /\ (\/ b = 0
               \/ c.kind # "inode" /\ b \notin InodesOf(d)
               \/ c.kind = "inode" /\ b \in InodesOf(d))
                => InodesOf(Put(d, b, c)) = InodesOf(d)
           /\ c.kind = "inode" /\ b \in 1 .. NSector - 1
                => InodesOf(Put(d, b, c)) = InodesOf(d) \cup {b}
  <1> DEFINE e == Put(d, b, c)
  <1>1. e[b] = c /\ \A x \in Bloc : x # b => e[x] = d[x]
    BY PutIs
  <1>2. 1 .. NSector - 1 \subseteq Bloc /\ 0 \notin 1 .. NSector - 1
    BY DEF Bloc
  <1> HIDE DEF e
  <1>3. \A x \in 1 .. NSector - 1 : x # b => (x \in InodesOf(e) <=> x \in InodesOf(d))
    BY <1>1, <1>2 DEF InodesOf
  <1>4. b \in 1 .. NSector - 1 => (b \in InodesOf(e) <=> c.kind = "inode")
    BY <1>1 DEF InodesOf
  <1>5. InodesOf(e) \subseteq 1 .. NSector - 1 /\ InodesOf(d) \subseteq 1 .. NSector - 1
    BY DEF InodesOf
  <1>6. ASSUME \/ b = 0
               \/ c.kind # "inode" /\ b \notin InodesOf(d)
               \/ c.kind = "inode" /\ b \in InodesOf(d)
        PROVE  InodesOf(e) = InodesOf(d)
    BY <1>2, <1>3, <1>4, <1>5, <1>6
  <1>7. ASSUME c.kind = "inode", b \in 1 .. NSector - 1
        PROVE  InodesOf(e) = InodesOf(d) \cup {b}
    BY <1>3, <1>4, <1>5, <1>7
  <1> QED
    BY <1>6, <1>7 DEF e

(* A write to a bloc handed out, or to bloc 0 of a full volume.            *)
LEMMA SaneWrite ==
    ASSUME NEW d, NEW s, NEW L, Sane(d, s, L), NEW b \in Bloc, NEW c \in Contents,
           MayWrite(s, b, c), NEW M, M \subseteq Used(s),
           Kept(Put(d, b, c), InodesOf(Put(d, b, c)), Used(s) \ M)
    PROVE  Sane(Put(d, b, c), s, M)
  <1> DEFINE e == Put(d, b, c)
  <1>0. Sane(d, s, L)
    OBVIOUS
  <1>2. /\ s.first_free \in Bloc /\ s.first_free \in 2 .. NSector /\ 0 \in Bloc
        /\ Disk(Contents, d)
    BY ONLY <1>0, SaneIs
  <1>1. Disk(Contents, e) /\ e[b] = c /\ \A x \in Bloc : x # b => e[x] = d[x]
    BY <1>2, PutIs
  <1>7. FreeEnd(d, s)
    BY <1>0 DEF Sane
  <1> HIDE DEF e
  <1>3. b < s.first_free
    BY <1>2 DEF MayWrite
  <1>4. Saved(e, s)
    <2>1. CASE b = 0
      <3>1. s.nb_free_blc = 0 /\ c.kind # "super"
        BY <1>2, <2>1 DEF MayWrite
      <3> QED
        BY <1>1, <2>1, <3>1 DEF Saved
    <2>2. CASE b # 0
      BY <1>1, <1>2, <1>7, <2>2 DEF Saved, FreeEnd
    <2> QED
      BY <2>1, <2>2
  <1>5. /\ e[s.first_free] = d[s.first_free]
        /\ \A x \in Bloc : x > s.first_free => e[x] = d[x]
    BY <1>1, <1>2, <1>3 DEF Bloc
  <1>6. FreeEnd(e, s)
    BY <1>2, <1>4, <1>5, <1>7 DEF FreeEnd
  <1> QED
    BY <1>1, <1>6 DEF Sane, e

\* The disk that a write leaves: in order, and the blocs M are lost.
Leaves(d, s, b, c, M) == Sane(Put(d, b, c), s, M) /\ Follows(d, Put(d, b, c))

(* A write to a bloc that is lost, or to bloc 0 of a full volume.          *)
LEMMA WriteLost ==
    ASSUME NEW d, NEW s, NEW L, Sane(d, s, L), NEW b \in L \cup {0}, NEW c \in Contents,
           b = 0 => s.nb_free_blc = 0 /\ c.kind # "super", b # 0 => c.kind # "inode"
    PROVE  Leaves(d, s, b, c, L) /\ InodesOf(Put(d, b, c)) = InodesOf(d)
  <1> DEFINE e == Put(d, b, c)
             U == Used(s) \ L
  <1>0. Sane(d, s, L)
    OBVIOUS
  <1>9. /\ Disk(Contents, d) /\ U \subseteq Bloc \ {0} /\ L \subseteq Used(s)
        /\ InodesOf(d) \subseteq U /\ Kept(d, InodesOf(d), U)
        /\ Used(s) \subseteq Bloc \ {0} /\ 0 \in Bloc
    BY ONLY <1>0, SaneIs
  <1>1. /\ Disk(Contents, d) /\ b \in Bloc /\ U \subseteq Bloc \ {0} /\ L \subseteq Used(s)
        /\ InodesOf(d) \subseteq U /\ Kept(d, InodesOf(d), U) /\ b \notin U
    BY <1>9
  <1>2. InodesOf(e) = InodesOf(d)
    BY <1>1, InodesPut
  <1>3. \A x \in U : e[x] = d[x]
    BY <1>1, PutIs
  <1> HIDE DEF e
  <1>4. /\ Kept(e, InodesOf(d), U)
        /\ \A i \in InodesOf(d) : \A k \in Slot : Named(e, i, k) = Named(d, i, k)
    BY <1>1, <1>3, KeptElsewhere
  <1>5. MayWrite(s, b, c)
    BY <1>1 DEF MayWrite, Used
  <1>6. Follows(d, e)
    BY <1>2, <1>4 DEF Follows
  <1>7. Sane(e, s, L)
    BY <1>1, <1>2, <1>4, <1>5, SaneWrite DEF e
  <1> QED
    BY <1>2, <1>6, <1>7 DEF e, Leaves

(* A new inode in a bloc that was lost.                                    *)
LEMMA WriteNew ==
    ASSUME NEW d, NEW s, NEW L, Sane(d, s, L), NEW b \in L, NEW type \in Types
    PROVE  Leaves(d, s, b, NewInode(type), L \ {b}) /\ b \in InodesOf(Put(d, b, NewInode(type)))
  <1> DEFINE c == NewInode(type)
             e == Put(d, b, c)
             U == Used(s) \ L
             I == InodesOf(d)
  <1>0. Sane(d, s, L)
    OBVIOUS
  <1>10. /\ Disk(Contents, d) /\ U \subseteq Bloc \ {0} /\ L \subseteq Used(s)
         /\ I \subseteq U /\ Kept(d, I, U)
         /\ Used(s) \subseteq Bloc \ {0} /\ Used(s) \subseteq 1 .. NSector - 1
    BY ONLY <1>0, SaneIs
  <1>1. /\ Disk(Contents, d) /\ b \in Bloc /\ U \subseteq Bloc \ {0} /\ L \subseteq Used(s)
        /\ I \subseteq U /\ Kept(d, I, U) /\ b \notin U /\ b # NULL_BLOC
        /\ b \in 1 .. NSector - 1
    BY <1>10 DEF NULL_BLOC
  <1>2. c \in Contents /\ c.kind = "inode"
    BY ContentsIs, InodeIs DEF NewInode
  <1> HIDE DEF c
  <1>3. InodesOf(e) = I \cup {b}
    BY <1>1, <1>2, InodesPut
  <1>4. e[b] = c /\ \A x \in U : e[x] = d[x]
    BY <1>1, <1>2, PutIs
  <1> HIDE DEF e
  <1>5. /\ Kept(e, I \cup {b}, U \cup {b})
        /\ \A i \in I : \A k \in Slot : Named(e, i, k) = Named(d, i, k)
    <2>1. e[b] = NewInode(type)
      BY <1>4 DEF c
    <2>2. /\ Kept(d, I, U) /\ U \subseteq Bloc \ {0} /\ b \notin U /\ b # NULL_BLOC
          /\ \A x \in U : e[x] = d[x]
      BY <1>1, <1>4
    <2> HIDE DEF U, I
    <2> QED
      BY ONLY <2>1, <2>2, KeptNew
  <1>6. U \cup {b} = Used(s) \ (L \ {b}) /\ L \ {b} \subseteq Used(s)
    BY <1>1
  <1>7. MayWrite(s, b, c)
    BY <1>1 DEF MayWrite, Used
  <1>8. Follows(d, e)
    BY <1>3, <1>5 DEF Follows
  <1>9. Sane(e, s, L \ {b})
    <2>1. /\ Sane(d, s, L) /\ b \in Bloc /\ c \in Contents /\ MayWrite(s, b, c)
          /\ L \ {b} \subseteq Used(s)
          /\ Kept(Put(d, b, c), InodesOf(Put(d, b, c)), Used(s) \ (L \ {b}))
      BY <1>1, <1>2, <1>3, <1>5, <1>6, <1>7 DEF e
    <2>2. Sane(Put(d, b, c), s, L \ {b})
      BY ONLY <2>1, SaneWrite
    <2> QED
      BY <2>2 DEF e
  <1> QED
    BY <1>3, <1>8, <1>9 DEF e, c, Leaves

(* The bloc of a file is written.                                          *)
LEMMA WriteData ==
    ASSUME NEW d, NEW s, NEW L, Sane(d, s, L), NEW i \in InodesOf(d), NEW k \in Fbloc,
           NEW w, w = Named(d, i, k), w # NULL_BLOC,
           NEW c \in Contents, FileBloc(c, k, InodesOf(d))
    PROVE  Leaves(d, s, w, c, L) /\ InodesOf(Put(d, w, c)) = InodesOf(d)
  <1> DEFINE e == Put(d, w, c)
             U == Used(s) \ L
             I == InodesOf(d)
  <1>0. Sane(d, s, L)
    OBVIOUS
  <1>1. /\ Disk(Contents, d) /\ U \subseteq Bloc \ {0} /\ L \subseteq Used(s)
        /\ I \subseteq U /\ Kept(d, I, U)
    BY ONLY <1>0, SaneIs
  <1>2. w \in U \ I /\ w \in Bloc
    BY <1>1, KeptIs, SlotIs
  <1>3. c.kind # "inode"
    BY DEF FileBloc
  <1>4. InodesOf(e) = I
    BY <1>1, <1>2, <1>3, InodesPut
  <1>5. e[w] = c /\ \A x \in U : x # w => e[x] = d[x]
    BY <1>1, <1>2, PutIs
  <1> HIDE DEF e
  <1>6. /\ Kept(e, I, U)
        /\ \A j \in I : \A l \in Slot : Named(e, j, l) = Named(d, j, l)
    <2>1. FileBloc(e[w], k, I)
      BY <1>5
    <2> HIDE DEF U, I
    <2>2. i \in I
      BY DEF I
    <2> QED
      BY <1>1, <1>5, <2>1, <2>2, KeptData
  <1>7. MayWrite(s, w, c)
    BY <1>1, <1>2 DEF MayWrite, Used
  <1>8. Follows(d, e)
    BY <1>4, <1>6 DEF Follows
  <1>9. Sane(e, s, L)
    BY <1>1, <1>2, <1>4, <1>6, <1>7, SaneWrite DEF e
  <1> QED
    BY <1>4, <1>8, <1>9 DEF e, Leaves

(* A bloc that was lost comes into an empty slot, or nothing does.         *)
LEMMA WriteName ==
    ASSUME NEW d, NEW s, NEW L, Sane(d, s, L), NEW i \in InodesOf(d), NEW k \in Slot,
           Named(d, i, k) = NULL_BLOC, NEW b \in L \cup {0}, NEW w \in Used(s) \ L,
           NEW c \in Contents, c.kind = "inode" <=> w \in InodesOf(d),
           Kept(Put(d, w, c), InodesOf(d), With(Used(s) \ L, b)),
           Fills(d, Put(d, w, c), InodesOf(d), i, k, b)
    PROVE  /\ Leaves(d, s, w, c, L \ {b}) /\ InodesOf(Put(d, w, c)) = InodesOf(d)
           /\ Named(Put(d, w, c), i, k) = b
  <1> DEFINE e == Put(d, w, c)
  <1>0. Sane(d, s, L)
    OBVIOUS
  <1>1. /\ Disk(Contents, d) /\ Used(s) \subseteq Bloc \ {0} /\ Used(s) \subseteq 1 .. NSector - 1
        /\ L \subseteq Used(s)
    BY ONLY <1>0, SaneIs
  <1>2. w \in Bloc /\ w # 0 /\ MayWrite(s, w, c) /\ L \ {b} \subseteq Used(s)
    BY <1>1 DEF MayWrite, Used
  <1>3. InodesOf(e) = InodesOf(d)
    BY <1>1, <1>2, InodesPut
  <1>4. With(Used(s) \ L, b) = Used(s) \ (L \ {b})
    BY <1>1 DEF With, NULL_BLOC
  <1>5. Kept(e, InodesOf(e), Used(s) \ (L \ {b}))
    BY <1>3, <1>4
  <1>6. Sane(e, s, L \ {b})
    <2>1. /\ Sane(d, s, L) /\ w \in Bloc /\ c \in Contents /\ MayWrite(s, w, c)
          /\ L \ {b} \subseteq Used(s)
          /\ Kept(Put(d, w, c), InodesOf(Put(d, w, c)), Used(s) \ (L \ {b}))
      BY <1>2, <1>5
    <2> QED
      BY ONLY <2>1, SaneWrite DEF e
  <1> HIDE DEF e
  <1>7. \A j \in InodesOf(d) : \A l \in Slot :
           Named(e, j, l) = IF j = i /\ l = k THEN b ELSE Named(d, j, l)
    BY DEF Fills, e
  <1>8. Follows(d, e)
    BY <1>3, <1>7 DEF Follows
  <1> QED
    BY <1>3, <1>6, <1>7, <1>8 DEF Leaves, e

(* What is known of the inode i of a disk in order, and of a bloc that is   *)
(* lost.                                                                   *)
LEMMA InodeIn ==
    ASSUME NEW d, NEW s, NEW L, Sane(d, s, L), NEW i \in InodesOf(d)
    PROVE  /\ Disk(Contents, d) /\ Kept(d, InodesOf(d), Used(s) \ L)
           /\ Used(s) \ L \subseteq Bloc \ {0} /\ Used(s) \ L \subseteq Bloc
           /\ i \in Used(s) \ L /\ i \in Bloc /\ i # 0
           /\ d[i] \in Contents /\ d[i].kind = "inode" /\ Readable(d, i)
           /\ d[i].taille \in Nat /\ d[i].taille <= NB_BLOCS + 1
           /\ \A k \in Slot : Named(d, i, k) \in Bloc
           /\ \A k \in Slot : Named(d, i, k) # NULL_BLOC =>
                Named(d, i, k) \in (Used(s) \ L) \ InodesOf(d)
           /\ \A k \in Fbloc : Named(d, i, k) # NULL_BLOC =>
                FileBloc(d[Named(d, i, k)], k, InodesOf(d))
           /\ \A b \in L \cup {0} : b \in Bloc /\ b \notin Used(s) \ L /\ b # i
  <1> DEFINE U == Used(s) \ L
             I == InodesOf(d)
  <1>1. Sane(d, s, L)
    OBVIOUS
  <1>2. /\ Disk(Contents, d) /\ Kept(d, I, U) /\ U \subseteq Bloc \ {0}
        /\ Used(s) \subseteq Bloc \ {0} /\ L \subseteq Used(s) /\ 0 \in Bloc
    BY ONLY <1>1, SaneIs
  <1> HIDE DEF U
  <1>3. /\ Disk(Contents, d) /\ Kept(d, I, U) /\ U \subseteq Bloc \ {0} /\ i \in I
    BY <1>2
  <1> HIDE DEF I
  <1>4. /\ i \in U /\ i \in Bloc /\ i # NULL_BLOC /\ d[i] \in Contents /\ d[i].kind = "inode"
        /\ d[i].taille \in Nat
        /\ \A k \in Slot : Named(d, i, k) \in Bloc /\ Named(d, i, k) # i
        /\ \A k \in Slot : Named(d, i, k) # NULL_BLOC => Named(d, i, k) \in U \ I
    BY ONLY <1>3, KeptIs
  <1>5. InodeOf(d, i, I)
    BY <1>3 DEF Kept
  <1>6. \A b \in L \cup {0} : b \in Bloc /\ b \notin U /\ b # i
    BY <1>2, <1>4 DEF U
  <1>7. Readable(d, i) /\ d[i].taille <= NB_BLOCS + 1
    BY <1>4, <1>5 DEF Readable, InodeOf
  <1>8. \A k \in Fbloc : Named(d, i, k) # NULL_BLOC => FileBloc(d[Named(d, i, k)], k, I)
    BY <1>5 DEF InodeOf
  <1>9. U \subseteq Bloc /\ i # 0
    BY <1>2, <1>4 DEF NULL_BLOC
  <1> QED
    BY <1>2, <1>4, <1>6, <1>7, <1>8, <1>9 DEF U, I

(* An inode with a bloc more in its direct table.                          *)
LEMMA GrownInode ==
    ASSUME NEW n \in Contents, n.kind = "inode", NEW k \in Index, NEW b \in Bloc,
           NEW c, c = InDirect(n, k, b)
    PROVE  c \in Contents /\ c.kind = "inode"
  <1>1. Complete(Contents)
    BY ContentsIs
  <1>2. n \in Contents /\ n.kind = "inode" /\ k \in Index /\ b \in Bloc
    OBVIOUS
  <1>3. InDirect(n, k, b) \in Contents
    BY ONLY <1>1, <1>2, GrownIs
  <1>4. InDirect(n, k, b).kind = "inode"
    <2> DEFINE t == n.type
               u == n.taille
               v == n.direct
               w == n.indirect
               x == n.double
    <2>1. n = Inode(t, u, v, w, x)
      BY <1>1, <1>2 DEF Complete, ClosedInode
    <2> HIDE DEF t, u, v, w, x
    <2>2. InDirect(n, k, b) = Inode(t, Larger(u, k + 1), [v EXCEPT ![k] = b], w, x)
      BY ONLY <2>1, InodeChanged
    <2> QED
      BY <2>2, InodeIs
  <1> QED
    BY <1>3, <1>4

(* Bloc b is named in the direct table of inode i.                         *)
LEMMA WriteDirect ==
    ASSUME Roomy, NEW d, NEW s, NEW L, Sane(d, s, L), NEW i \in InodesOf(d), NEW k \in Index,
           Named(d, i, k) = NULL_BLOC, NEW b \in L \cup {0},
           b # NULL_BLOC => d[b] = Zero \/ d[b] = Header,
           NEW c, c = InDirect(d[i], k, b)
    PROVE  /\ c \in Contents /\ Leaves(d, s, i, c, L \ {b}) /\ InodesOf(Put(d, i, c)) = InodesOf(d)
           /\ Named(Put(d, i, c), i, k) = b
  <1> DEFINE I == InodesOf(d)
             U == Used(s) \ L
             e == Put(d, i, c)
  <1>0. Sane(d, s, L) /\ i \in InodesOf(d)
    OBVIOUS
  <1>1. /\ Disk(Contents, d) /\ Kept(d, I, U) /\ U \subseteq Bloc \ {0} /\ i \in U /\ i \in Bloc
        /\ d[i] \in Contents /\ d[i].kind = "inode" /\ U \subseteq Bloc
        /\ \A x \in L \cup {0} : x \in Bloc /\ x \notin U /\ x # i
    BY ONLY <1>0, InodeIn
  <1>2. c \in Contents /\ c.kind = "inode"
    <2> DEFINE n == d[i]
    <2>1. n \in Contents /\ n.kind = "inode" /\ b \in Bloc /\ k \in Index /\ c = InDirect(n, k, b)
      BY <1>1
    <2> HIDE DEF n
    <2> QED
      BY ONLY <2>1, GrownInode
  <1>3. e[i] = c /\ \A x \in Bloc : x # i => e[x] = d[x]
    <2>1. Disk(Contents, d) /\ i \in Bloc /\ c \in Contents
      BY <1>1, <1>2
    <2> QED
      BY ONLY <2>1, PutIs
  <1> HIDE DEF I, U, e
  <1>4. /\ Disk(Contents, d) /\ Kept(d, I, U) /\ U \subseteq Bloc \ {0} /\ i \in I
        /\ Named(d, i, k) = NULL_BLOC /\ b \in Bloc /\ b \notin U
        /\ \A x \in U : x # i => e[x] = d[x]
        /\ e[i] = InDirect(d[i], k, b) /\ (b # NULL_BLOC => e[b] = Zero \/ e[b] = Header)
    BY <1>1, <1>3 DEF I
  <1>5. Kept(e, I, With(U, b)) /\ Fills(d, e, I, i, k, b)
    BY ONLY Roomy, k \in Index, <1>4, KeptDirect
  <1>6. k \in Slot
    BY SlotIs
  <1> QED
    BY <1>0, <1>1, <1>2, <1>5, <1>6, WriteName DEF I, U, e

(* Bloc b is the indirect table of inode i.                                *)
LEMMA WriteTable ==
    ASSUME NEW d, NEW s, NEW L, Sane(d, s, L), NEW i \in InodesOf(d),
           d[i].indirect = NULL_BLOC, NEW b \in L \cup {0}, b # NULL_BLOC => d[b] = Zero,
           NEW c, c = AsIndirect(d[i], NB_BLOCS, b)
    PROVE  /\ c \in Contents /\ Leaves(d, s, i, c, L \ {b}) /\ InodesOf(Put(d, i, c)) = InodesOf(d)
           /\ Put(d, i, c)[i].indirect = b
  <1> DEFINE I == InodesOf(d)
             U == Used(s) \ L
             e == Put(d, i, c)
  <1>0. Sane(d, s, L) /\ i \in InodesOf(d)
    OBVIOUS
  <1>1. /\ Disk(Contents, d) /\ Kept(d, I, U) /\ U \subseteq Bloc \ {0} /\ i \in U /\ i \in Bloc
        /\ d[i] \in Contents /\ d[i].kind = "inode" /\ U \subseteq Bloc
        /\ \A x \in L \cup {0} : x \in Bloc /\ x \notin U /\ x # i
    BY ONLY <1>0, InodeIn
  <1>2. NB_BLOCS \in Fbloc
    BY DEF Fbloc
  <1>3. c \in Contents /\ c.kind = "inode" /\ c.indirect = b
    BY <1>1, <1>2, ContentsIs, TableGrownIs
  <1>4. e[i] = c /\ \A x \in Bloc : x # i => e[x] = d[x]
    BY <1>1, <1>3, PutIs
  <1> HIDE DEF I, U, e
  <1>5. /\ Disk(Contents, d) /\ Kept(d, I, U) /\ U \subseteq Bloc \ {0} /\ i \in I
        /\ d[i].indirect = NULL_BLOC /\ b \in Bloc /\ b \notin U
        /\ \A x \in U : x # i => e[x] = d[x]
        /\ e[i] = AsIndirect(d[i], NB_BLOCS, b) /\ (b # NULL_BLOC => e[b] = Zero)
    BY <1>1, <1>4 DEF I
  <1>6. Kept(e, I, With(U, b)) /\ Fills(d, e, I, i, TableSlot, b)
    BY ONLY <1>5, KeptTable
  <1>7. TableSlot \in Slot /\ Named(d, i, TableSlot) = NULL_BLOC
    BY SlotIs, NamedIs
  <1> QED
    BY <1>0, <1>1, <1>3, <1>4, <1>6, <1>7, WriteName DEF I, U, e

(* Bloc b is named in the indirect table of inode i.                       *)
LEMMA WriteEntry ==
    ASSUME Roomy, NEW d, NEW s, NEW L, Sane(d, s, L), NEW i \in InodesOf(d),
           NEW k \in Fbloc \ Index, Named(d, i, k) = NULL_BLOC,
           NEW t, t = d[i].indirect, t # NULL_BLOC, NEW b \in L \cup {0},
           b # NULL_BLOC => d[b] = Zero \/ d[b] = Header,
           NEW c, c = Entered(Entries(d[t]), k - NB_BLOCS, b)
    PROVE  /\ c \in Contents /\ t \in Bloc /\ Leaves(d, s, t, c, L \ {b})
           /\ InodesOf(Put(d, t, c)) = InodesOf(d) /\ Named(Put(d, t, c), i, k) = b
  <1> DEFINE I == InodesOf(d)
             U == Used(s) \ L
             e == Put(d, t, c)
  <1>0. Sane(d, s, L) /\ i \in InodesOf(d)
    OBVIOUS
  <1>1. /\ Disk(Contents, d) /\ Kept(d, I, U) /\ U \subseteq Bloc \ {0} /\ U \subseteq Bloc
        /\ \A x \in L \cup {0} : x \in Bloc /\ x \notin U /\ x # i
        /\ \A l \in Slot : Named(d, i, l) # NULL_BLOC => Named(d, i, l) \in U \ I
    BY ONLY <1>0, InodeIn
  <1>2. t \in U \ I /\ t \in Bloc /\ k - NB_BLOCS \in Index /\ k \in Slot
    BY <1>1, SlotIs, NamedIs
  <1>3. c \in Contents /\ c.kind # "inode"
    <2>1. Entries(d[t]) \in [Index -> Bloc]
      BY <1>1, <1>2, FieldsIs DEF Disk
    <2>2. b \in Bloc
      BY <1>1
    <2> QED
      BY <1>2, <2>1, <2>2, ContentsIs, TableIs, Kinds DEF Entered
  <1>4. e[t] = c /\ \A x \in Bloc : x # t => e[x] = d[x]
    BY <1>1, <1>2, <1>3, PutIs
  <1> HIDE DEF I, U, e
  <1>5. /\ Disk(Contents, d) /\ Kept(d, I, U) /\ U \subseteq Bloc \ {0} /\ i \in I
        /\ Named(d, i, k) = NULL_BLOC /\ t = d[i].indirect /\ t # NULL_BLOC
        /\ b \in Bloc /\ b \notin U /\ \A x \in U : x # t => e[x] = d[x]
        /\ e[t] = Entered(Entries(d[t]), k - NB_BLOCS, b)
        /\ (b # NULL_BLOC => e[b] = Zero \/ e[b] = Header)
    BY <1>1, <1>2, <1>4 DEF I
  <1>6. Kept(e, I, With(U, b)) /\ Fills(d, e, I, i, k, b)
    BY ONLY Roomy, k \in Fbloc \ Index, <1>5, KeptEntry
  <1>7. /\ Sane(d, s, L) /\ i \in InodesOf(d) /\ k \in Slot /\ Named(d, i, k) = NULL_BLOC
        /\ b \in L \cup {0} /\ t \in Used(s) \ L /\ c \in Contents
        /\ (c.kind = "inode" <=> t \in InodesOf(d))
        /\ Kept(Put(d, t, c), InodesOf(d), With(Used(s) \ L, b))
        /\ Fills(d, Put(d, t, c), InodesOf(d), i, k, b)
    BY <1>0, <1>2, <1>3, <1>6 DEF I, U, e
  <1>8. /\ Leaves(d, s, t, c, L \ {b}) /\ InodesOf(Put(d, t, c)) = InodesOf(d)
        /\ Named(Put(d, t, c), i, k) = b
    BY <1>7, WriteName
  <1> QED
    BY <1>2, <1>3, <1>8

\* The super bloc once the first free bloc is taken.
Less(s) == Super(s.root, s.nb_free_blc - 1, s.first_free + 1)

(* new_bloc takes the first free bloc f: the super bloc is saved.          *)
LEMMA SaneTaken ==
    ASSUME NEW d, NEW s, NEW L, Sane(d, s, L), s.nb_free_blc # 0, d[s.first_free].kind = "free",
           NEW t, t = Less(s)
    PROVE  /\ t \in Contents /\ Sane(Put(d, 0, t), t, L \cup {s.first_free})
           /\ Follows(d, Put(d, 0, t)) /\ InodesOf(Put(d, 0, t)) = InodesOf(d)
           /\ Used(t) = Used(s) \cup {s.first_free}
           /\ s.first_free \in Bloc \ {0} /\ s.first_free \notin Used(s)
           /\ d[s.first_free] = Header
  <1> DEFINE f == s.first_free
             e == Put(d, 0, t)
             M == L \cup {f}
  <1>0. Sane(d, s, L)
    OBVIOUS
  <1>1. /\ Disk(Contents, d) /\ s.root \in Bloc /\ s.root # NULL_BLOC /\ s.nb_free_blc \in Nat
        /\ f \in Bloc /\ f \in 2 .. NSector /\ s.nb_free_blc = NSector - f /\ 0 \in Bloc
        /\ Used(s) \subseteq Bloc \ {0} /\ L \subseteq Used(s)
        /\ Kept(d, InodesOf(d), Used(s) \ L)
    BY ONLY <1>0, SaneIs
  <1>2. /\ f + 1 \in 3 .. NSector /\ s.nb_free_blc - 1 = NSector - (f + 1)
        /\ f + 1 \in Bloc /\ s.nb_free_blc - 1 \in Nat /\ f # 0
    BY <1>1 DEF Bloc
  <1>3. /\ t \in Contents /\ t.kind = "super" /\ t.root = s.root
        /\ t.nb_free_blc = s.nb_free_blc - 1 /\ t.first_free = f + 1
    <2>1. t \in Contents
      BY <1>1, <1>2, ContentsIs DEF Less
    <2> QED
      BY <2>1, Kinds DEF Less
  <1>4. Disk(Contents, e) /\ e[0] = t /\ \A x \in Bloc : x # 0 => e[x] = d[x]
    BY <1>1, <1>3, PutIs
  <1>5. InodesOf(e) = InodesOf(d)
    BY <1>1, <1>3, InodesPut
  <1>6. Used(t) = Used(s) \cup {f} /\ f \notin Used(s)
    BY <1>1, <1>2, <1>3 DEF Used
  <1> HIDE DEF e, f
  <1>7. Used(t) \ M = Used(s) \ L /\ M \subseteq Used(t)
    BY <1>1, <1>6
  <1>8. d[f] = Header /\ d[f + 1] = Zero /\ \A b \in Bloc : b > f => d[b] = Zero
    <2>1. FreeEnd(d, s) /\ f + 1 > f
      BY <1>1 DEF Sane
    <2>2. d[f].kind = "free"
      BY DEF f
    <2> QED
      BY <1>2, <2>1, <2>2, Kinds DEF FreeEnd, f
  <1>9. FreeEnd(e, t)
    <2>1. e[f + 1] = Zero /\ \A b \in Bloc : b > f + 1 => e[b] = Zero
      <3>1. \A b \in Bloc : b > f + 1 => b > f /\ b # 0
        BY <1>1 DEF Bloc
      <3>2. f + 1 # 0
        BY <1>2
      <3> QED
        BY <1>2, <1>4, <1>8, <3>1, <3>2
    <2>2. f + 1 \in 2 .. NSector
      BY <1>2
    <2> QED
      BY <1>1, <1>2, <1>3, <1>4, <2>1, <2>2 DEF FreeEnd, Saved
  <1>10. /\ Kept(e, InodesOf(d), Used(s) \ L)
         /\ \A i \in InodesOf(d) : \A k \in Slot : Named(e, i, k) = Named(d, i, k)
    <2> DEFINE I == InodesOf(d)
               U == Used(s) \ L
    <2>1. Kept(d, I, U) /\ U \subseteq Bloc \ {0}
      BY <1>1
    <2> HIDE DEF I, U
    <2>3. \A x \in U : e[x] = d[x]
      BY <1>4, <2>1
    <2>2. Kept(e, I, U) /\ \A i \in I : \A k \in Slot : Named(e, i, k) = Named(d, i, k)
      BY ONLY <2>1, <2>3, KeptElsewhere
    <2> QED
      BY <2>2 DEF I, U
  <1>11. Follows(d, e)
    BY <1>5, <1>10 DEF Follows
  <1>12. Sane(e, t, M)
    <2>1. Kept(e, InodesOf(e), Used(t) \ M)
      BY <1>5, <1>7, <1>10
    <2> QED
      BY <1>4, <1>7, <1>9, <2>1 DEF Sane
  <1> QED
    BY <1>1, <1>2, <1>3, <1>5, <1>6, <1>8, <1>11, <1>12 DEF e, f

(* The header of the free blocs is written one bloc on.                    *)
LEMMA SaneHeader ==
    ASSUME NEW d, NEW s, NEW L, Sane(d, s, L)
    PROVE  /\ Header \in Contents /\ s.first_free \in Bloc
           /\ Leaves(d, s, s.first_free, Header, L)
           /\ InodesOf(Put(d, s.first_free, Header)) = InodesOf(d)
  <1> DEFINE f == s.first_free
             e == Put(d, f, Header)
             U == Used(s) \ L
             I == InodesOf(d)
  <1>0. Sane(d, s, L)
    OBVIOUS
  <1>1. /\ Disk(Contents, d) /\ f \in Bloc /\ f \in 2 .. NSector /\ L \subseteq Used(s)
        /\ Used(s) \subseteq Bloc \ {0} /\ Kept(d, I, U) /\ U \subseteq Bloc \ {0}
        /\ \A b \in Bloc : b >= f => d[b] = Zero \/ d[b] = Header
    BY ONLY <1>0, SaneIs
  <1>2. f \notin Used(s) /\ 0 \in Bloc /\ f # 0
    BY <1>1 DEF Used, Bloc
  <1>3. Header \in Contents /\ Header.kind # "inode" /\ Header.kind = "free"
    <2>1. NSector - 1 \in Nat /\ NULL_BLOC \in Bloc
      BY DEF NULL_BLOC, Bloc
    <2> QED
      BY <2>1, ContentsIs, Kinds DEF Header, Complete, ClosedFree
  <1>4. Disk(Contents, e) /\ e[f] = Header /\ \A x \in Bloc : x # f => e[x] = d[x]
    BY <1>1, <1>3, PutIs
  <1>5. d[f].kind # "inode" /\ f \notin I
    <2>1. d[f] = Zero \/ d[f] = Header
      BY <1>1
    <2>2. d[f].kind # "inode"
      BY <1>3, <2>1, Kinds
    <2> QED
      BY <2>2 DEF InodesOf
  <1>6. InodesOf(e) = I
    BY <1>1, <1>3, <1>5, InodesPut
  <1> HIDE DEF e, f
  <1>7. Kept(e, I, U) /\ \A i \in I : \A k \in Slot : Named(e, i, k) = Named(d, i, k)
    <2>1. Kept(d, I, U) /\ U \subseteq Bloc \ {0} /\ f \notin U
      BY <1>1, <1>2
    <2> HIDE DEF I, U
    <2>2. \A x \in U : e[x] = d[x]
      BY <1>4, <2>1
    <2> QED
      BY ONLY <2>1, <2>2, KeptElsewhere
  <1>8. FreeEnd(e, s)
    <2>1. FreeEnd(d, s)
      BY <1>0 DEF Sane
    <2>2. \A b \in Bloc : b > f => e[b] = d[b]
      BY <1>1, <1>4 DEF Bloc
    <2>3. e[0] = d[0]
      BY <1>2, <1>4
    <2> QED
      BY <1>4, <2>1, <2>2, <2>3 DEF FreeEnd, Saved, f
  <1>9. Follows(d, e)
    BY <1>6, <1>7 DEF Follows
  <1>10. Sane(e, s, L)
    BY <1>1, <1>4, <1>6, <1>7, <1>8 DEF Sane
  <1> QED
    BY <1>1, <1>3, <1>6, <1>9, <1>10 DEF e, f, Leaves

-----------------------------------------------------------------------------
(* The sector writes of a call.                                            *)

(* A set of numbers up to n has a greatest one.                            *)
LEMMA MaxIs ==
    ASSUME NEW n \in Nat, NEW S, S \subseteq 1 .. n, S # {}
    PROVE  /\ Max(S) \in S /\ Max(S) \in 1 .. n
           /\ \A x \in S : Max(S) >= x
  <1> DEFINE Greatest(R, x) == x \in R /\ \A y \in R : x >= y
             P(x) == \A R \in SUBSET (1 .. x) : R # {} => \E y : Greatest(R, y)
             T == { x \in Nat : P(x) }
  <1>1. 0 \in T
    <2>1. 1 .. 0 = {}
      OBVIOUS
    <2>2. P(0)
      BY <2>1
    <2> HIDE DEF P
    <2> QED
      BY <2>2
  <1>2. ASSUME NEW x \in Nat, x \in T
        PROVE  x + 1 \in T
    <2>1. ASSUME NEW R \in SUBSET (1 .. x + 1), R # {}
          PROVE  \E y : Greatest(R, y)
      <3>1. CASE x + 1 \in R
        <4>1. Greatest(R, x + 1)
          BY <3>1
        <4> QED
          BY <4>1
      <3>2. CASE x + 1 \notin R
        <4>1. R \subseteq 1 .. x
          BY <3>2
        <4> HIDE DEF Greatest
        <4> QED
          BY <1>2, <2>1, <4>1
      <3> QED
        BY <3>1, <3>2
    <2>2. P(x + 1)
      BY <2>1
    <2> HIDE DEF P
    <2> QED
      BY <2>2
  <1> HIDE DEF T
  <1>3. n \in T
    BY <1>1, <1>2, Induction
  <1>4. \E x \in S : \A y \in S : x >= y
    <2> HIDE DEF P
    <2>1. P(n)
      BY <1>3 DEF T
    <2>2. S \in SUBSET (1 .. n) /\ S # {}
      OBVIOUS
    <2>3. \E y : Greatest(S, y)
      BY ONLY <2>1, <2>2 DEF P
    <2> QED
      BY ONLY <2>3 DEF Greatest
  <1>5. Max(S) \in S /\ \A x \in S : Max(S) >= x
    BY ONLY <1>4 DEF Max
  <1>6. Max(S) \in S /\ S \subseteq 1 .. n
    BY <1>5
  <1>7. Max(S) \in 1 .. n
    BY ONLY <1>6
  <1> QED
    BY ONLY <1>5, <1>7

\* The writes so far that reached bloc b.
To(writes, n, b) == { k \in 1 .. n : writes[k][1] = b }

(* Blocs after one write more.                                             *)
LEMMA AfterIs ==
    ASSUME NEW d, Disk(Contents, d), NEW log \in Seq(Bloc \X Contents),
           NEW b \in Bloc, NEW c \in Contents
    PROVE  /\ Append(log, <<b, c>>) \in Seq(Bloc \X Contents)
           /\ Len(Append(log, <<b, c>>)) = Len(log) + 1
           /\ \A n \in 0 .. Len(log) : After(d, Append(log, <<b, c>>), n) = After(d, log, n)
           /\ After(d, Append(log, <<b, c>>), Len(log) + 1) = Put(After(d, log, Len(log)), b, c)
  <1> DEFINE log2 == Append(log, <<b, c>>)
             len == Len(log)
             At(writes, n, x) == IF To(writes, n, x) = {} THEN d[x]
                                 ELSE writes[Max(To(writes, n, x))][2]
  <1>1. /\ log2 \in Seq(Bloc \X Contents) /\ Len(log2) = len + 1 /\ len \in Nat
        /\ \A k \in 1 .. len : log2[k] = log[k]
        /\ log2[len + 1] = <<b, c>>
    OBVIOUS
  <1> HIDE DEF log2, len
  <1>2. \A writes, n : After(d, writes, n) = [x \in Bloc |-> At(writes, n, x)]
    BY DEF After, To
  <1>3. ASSUME NEW n \in 0 .. len, NEW x
        PROVE  At(log2, n, x) = At(log, n, x)
    <2>1. To(log2, n, x) = To(log, n, x)
      BY <1>1, <1>3 DEF To
    <2>2. CASE To(log, n, x) = {}
      BY <2>1, <2>2
    <2>3. CASE To(log, n, x) # {}
      <3>1. n \in Nat /\ To(log, n, x) \subseteq 1 .. n
        BY <1>1 DEF To
      <3>2. Max(To(log, n, x)) \in 1 .. len
        <4> DEFINE S == To(log, n, x)
        <4>1. n \in Nat /\ S \subseteq 1 .. n /\ S # {}
          BY <2>3, <3>1
        <4> HIDE DEF S
        <4>2. Max(S) \in 1 .. n
          BY ONLY <4>1, MaxIs
        <4>3. Max(S) \in 1 .. len
          BY <1>1, <1>3, <4>2
        <4> QED
          BY <4>3 DEF S
      <3> QED
        BY <1>1, <2>1, <2>3, <3>2
    <2> QED
      BY <2>2, <2>3
  <1>4. ASSUME NEW x \in Bloc
        PROVE  At(log2, len + 1, x) = IF x = b THEN c ELSE At(log, len, x)
    <2>1. CASE x = b
      <3>1. len + 1 \in To(log2, len + 1, x)
        BY <1>1, <2>1 DEF To
      <3>2. len + 1 \in Nat /\ To(log2, len + 1, x) \subseteq 1 .. len + 1 /\ To(log2, len + 1, x) # {}
        BY <1>1, <3>1 DEF To
      <3>3. Max(To(log2, len + 1, x)) = len + 1
        <4> DEFINE S == To(log2, len + 1, x)
        <4>1. /\ len + 1 \in Nat /\ S \subseteq 1 .. len + 1 /\ S # {} /\ len + 1 \in S
          BY <3>1, <3>2
        <4> HIDE DEF S
        <4>2. Max(S) \in 1 .. len + 1 /\ \A y \in S : Max(S) >= y
          BY ONLY <4>1, MaxIs
        <4>3. Max(S) >= len + 1
          BY <4>1, <4>2
        <4>5. Max(S) \in 1 .. len + 1
          BY <4>2
        <4>4. Max(S) = len + 1
          BY <1>1, <4>3, <4>5
        <4> QED
          BY <4>4 DEF S
      <3> QED
        BY <1>1, <2>1, <3>2, <3>3
    <2>2. CASE x # b
      <3>1. To(log2, len + 1, x) = To(log2, len, x)
        BY <1>1, <2>2 DEF To
      <3>2. At(log2, len, x) = At(log, len, x)
        BY <1>1, <1>3
      <3> QED
        BY <2>2, <3>1, <3>2
    <2> QED
      BY <2>1, <2>2
  <1>5. \A n \in 0 .. len : After(d, log2, n) = After(d, log, n)
    BY <1>2, <1>3
  <1>6. After(d, log2, len + 1) = Put(After(d, log, len), b, c)
    <2>1. After(d, log, len) = [x \in Bloc |-> At(log, len, x)]
      BY <1>2
    <2>2. After(d, log2, len + 1) = [x \in Bloc |-> At(log2, len + 1, x)]
      BY <1>2
    <2> HIDE DEF At
    <2> QED
      BY <1>4, <2>1, <2>2 DEF Put
  <1>7. /\ log2 \in Seq(Bloc \X Contents) /\ Len(log2) = len + 1
        /\ \A n \in 0 .. len : After(d, log2, n) = After(d, log, n)
        /\ After(d, log2, len + 1) = Put(After(d, log, len), b, c)
    BY ONLY <1>1, <1>5, <1>6
  <1> QED
    BY ONLY <1>7 DEF log2, len

(***************************************************************************)
(* The machine m of a call: its writes make its disk of the disk it began   *)
(* with, and a program may be killed after each of them, at the cost of one *)
(* bloc more.                                                              *)
(***************************************************************************)
Traced(m) ==
    /\ DOMAIN m = Fields /\ Disk(Contents, disk) /\ kills \in Nat
    /\ m.log \in Seq(Bloc \X Contents)
    /\ m.disk = After(disk, m.log, Len(m.log))
    /\ \A n \in 1 .. Len(m.log) : After(disk, m.log, n) \in Left(kills + 1)

\* The program goes on, on a disk in order.
On(m, L) == m.ok /\ Traced(m) /\ Sane(m.disk, m.super, L)

\* An assert or an exit has stopped it.
Halts(m) == ~m.ok /\ Traced(m) /\ m.disk \in Left(kills)

(* A call begins.                                                          *)
LEMMA TracedNow ==
    ASSUME Disk(Contents, disk), kills \in Nat
    PROVE  Traced(Now) /\ Now.ok /\ Now.disk = disk /\ Now.super = super /\ Running(Now)
  <1>1. /\ Running(Now) /\ Now.disk = disk /\ Now.super = super /\ Now.log = << >>
    BY DEF Now, Machine, Running, Fields
  <1>2. After(disk, << >>, 0) = disk
    BY DEF After, Disk
  <1> QED
    BY <1>1, <1>2 DEF Traced, Running

(* What is left after a kill more.                                         *)
LEMMA LeftMore ==
    ASSUME NEW n \in Nat
    PROVE  Left(n) \subseteq Left(n + 1) /\ AtMost(n) \subseteq AtMost(n + 1)
  <1>1. 0 \in Bloc
    BY DEF Bloc
  <1>2. ASSUME NEW L \in AtMost(n)
        PROVE  L \in AtMost(n + 1)
    <2>1. L \in AtMost(n) /\ n \in Nat
      OBVIOUS
    <2> QED
      BY ONLY <1>1, <2>1, OneLostMore
  <1> QED
    BY <1>2 DEF Left

(* One write more.                                                         *)
LEMMA TracedWrite ==
    ASSUME NEW m, Traced(m), m.ok, NEW b \in Bloc, NEW c \in Contents,
           Put(m.disk, b, c) \in Left(kills + 1), NEW w, w = WriteBloc(m, b, c)
    PROVE  /\ Traced(w) /\ w.ok /\ w.disk = Put(m.disk, b, c)
           /\ w.super = m.super /\ w.ret = m.ret
  <1> DEFINE log == m.log
             len == Len(log)
             log2 == Append(log, <<b, c>>)
  <1>1. Running(m) /\ log \in Seq(Bloc \X Contents) /\ len \in Nat /\ Disk(Contents, disk)
    BY DEF Traced, Running
  <1>2. /\ Running(w) /\ w.disk = Put(m.disk, b, c) /\ w.super = m.super /\ w.ret = m.ret
    BY <1>1, WriteIs
  <1>3. w.log = log2
    BY <1>1 DEF WriteBloc, Running, Fields
  <1> HIDE DEF log
  <1>4. /\ log2 \in Seq(Bloc \X Contents) /\ Len(log2) = len + 1
        /\ \A n \in 0 .. len : After(disk, log2, n) = After(disk, log, n)
        /\ After(disk, log2, len + 1) = Put(After(disk, log, len), b, c)
    BY <1>1, AfterIs
  <1> HIDE DEF log2, len
  <1>5. /\ m.disk = After(disk, log, len)
        /\ \A n \in 1 .. len : After(disk, log, n) \in Left(kills + 1)
    BY DEF Traced, log, len
  <1>6. w.disk = After(disk, log2, Len(log2))
    BY <1>2, <1>4, <1>5
  <1>7. ASSUME NEW n \in 1 .. Len(log2)
        PROVE  After(disk, log2, n) \in Left(kills + 1)
    <2>1. CASE n = len + 1
      BY <1>4, <1>5, <2>1
    <2>2. CASE n # len + 1
      <3>1. n \in 1 .. len /\ n \in 0 .. len
        BY <1>1, <1>4, <2>2
      <3> QED
        BY <1>4, <1>5, <3>1
    <2> QED
      BY <2>1, <2>2
  <1> QED
    BY <1>2, <1>3, <1>4, <1>6, <1>7 DEF Traced, Running

(* A write that leaves a disk in order.                                    *)
LEMMA OnWrite ==
    ASSUME NEW m, NEW L, On(m, L), NEW b \in Bloc, NEW c \in Contents,
           NEW M \in AtMost(kills + 1), Leaves(m.disk, m.super, b, c, M),
           NEW w, w = WriteBloc(m, b, c)
    PROVE  /\ On(w, M) /\ Follows(m.disk, w.disk)
           /\ w.disk = Put(m.disk, b, c) /\ w.super = m.super /\ w.ret = m.ret
  <1>1. Traced(m) /\ m.ok /\ Sane(Put(m.disk, b, c), m.super, M) /\ Follows(m.disk, Put(m.disk, b, c))
    BY DEF On, Leaves
  <1>2. Put(m.disk, b, c) \in Left(kills + 1)
    BY <1>1, SaneLeft
  <1>3. /\ Traced(w) /\ w.ok /\ w.disk = Put(m.disk, b, c)
        /\ w.super = m.super /\ w.ret = m.ret
    BY <1>1, <1>2, TracedWrite
  <1> QED
    BY <1>1, <1>3 DEF On

(* The value a call returns.                                               *)
LEMMA TracedReturn ==
    ASSUME NEW m, Traced(m), NEW v, NEW r, r = Return(m, v)
    PROVE  /\ Traced(r) /\ r.disk = m.disk /\ r.super = m.super /\ r.ret = v
           /\ r.ok <=> m.ok
           /\ \A L : On(m, L) => On(r, L)
           /\ Halts(m) => Halts(r)
  <1>1. DOMAIN m = Fields
    BY DEF Traced
  <1>2. /\ DOMAIN r = Fields /\ r.disk = m.disk /\ r.super = m.super /\ r.log = m.log
        /\ r.ret = v
    BY <1>1 DEF Return, Fields
  <1>3. r.ok = m.ok
    BY <1>1 DEF Return, Fields
  <1>4. Traced(r)
    BY <1>2 DEF Traced
  <1> QED
    BY <1>2, <1>3, <1>4 DEF On, Halts

(* An assert or an exit stops a call.                                      *)
LEMMA TracedStopped ==
    ASSUME NEW m, Traced(m), NEW r, r = Stopped(m)
    PROVE  /\ Traced(r) /\ ~r.ok /\ r.disk = m.disk /\ r.super = m.super
           /\ \A L \in AtMost(kills) : On(m, L) => Halts(r)
           /\ Halts(m) => Halts(r)
  <1>1. DOMAIN m = Fields
    BY DEF Traced
  <1>2. /\ DOMAIN r = Fields /\ r.disk = m.disk /\ r.super = m.super /\ r.log = m.log
    BY <1>1 DEF Stopped, Fields
  <1>3. ~r.ok
    BY <1>1 DEF Stopped, Fields
  <1>4. Traced(r)
    BY <1>2 DEF Traced
  <1>5. ASSUME NEW L \in AtMost(kills), On(m, L)
        PROVE  Halts(r)
    <2>1. Sane(m.disk, m.super, L)
      BY <1>5 DEF On
    <2>2. m.disk \in Left(kills)
      BY <2>1, SaneLeft
    <2> QED
      BY <1>2, <1>3, <1>4, <2>2 DEF Halts
  <1> QED
    BY <1>2, <1>3, <1>4, <1>5 DEF Halts

(* A call that was stopped does nothing more.                              *)
LEMMA HaltsOn ==
    ASSUME NEW m, Halts(m)
    PROVE  /\ \A b, c : WriteBloc(m, b, c) = m
           /\ NewBloc(m) = m
           /\ \A v : Halts(Return(m, v))
           /\ Halts(Stopped(m))
           /\ \A i, k, do_allocate : AuxVblocOfFbloc(m, i, k, do_allocate) = Stopped(m)
           /\ \A t, idx, do_allocate : IndirectEntry(m, t, idx, do_allocate) = Stopped(m)
  <1>1. ~m.ok /\ Traced(m)
    BY DEF Halts
  <1>2. \A b, c : WriteBloc(m, b, c) = m
    BY <1>1 DEF WriteBloc
  <1>3. NewBloc(m) = m
    BY <1>1 DEF NewBloc
  <1>4. \A i, k, do_allocate : AuxVblocOfFbloc(m, i, k, do_allocate) = Stopped(m)
    BY <1>1 DEF AuxVblocOfFbloc
  <1>5. \A t, idx, do_allocate : IndirectEntry(m, t, idx, do_allocate) = Stopped(m)
    BY <1>1 DEF IndirectEntry
  <1>6. \A v : Halts(Return(m, v))
    BY <1>1, TracedReturn
  <1>7. Halts(Stopped(m))
    BY <1>1, TracedStopped
  <1> QED
    BY <1>2, <1>3, <1>4, <1>5, <1>6, <1>7

(* The super bloc changes in memory and is saved.                          *)
LEMMA OnSave ==
    ASSUME NEW m, NEW L, On(m, L), NEW t \in Contents, NEW M \in AtMost(kills + 1),
           Sane(Put(m.disk, 0, t), t, M), NEW w, w = SaveSuper(Changed(m, t))
    PROVE  On(w, M) /\ w.disk = Put(m.disk, 0, t) /\ w.super = t
  <1> DEFINE n == Changed(m, t)
  <1>1. DOMAIN m = Fields /\ m.ok /\ Traced(m)
    BY DEF On, Traced
  <1>2. /\ DOMAIN n = Fields /\ n.disk = m.disk /\ n.super = t /\ n.log = m.log /\ n.ok
    BY <1>1 DEF Changed, Fields
  <1> HIDE DEF n
  <1>3. Traced(n)
    BY <1>1, <1>2 DEF Traced
  <1>4. Put(n.disk, 0, t) \in Left(kills + 1) /\ 0 \in Bloc
    BY <1>2, SaneLeft DEF Bloc
  <1>5. w = WriteBloc(n, 0, t)
    BY <1>2 DEF SaveSuper, n
  <1>6. Traced(w) /\ w.ok /\ w.disk = Put(n.disk, 0, t) /\ w.super = n.super
    BY <1>2, <1>3, <1>4, <1>5, TracedWrite
  <1> QED
    BY <1>2, <1>6 DEF On

-----------------------------------------------------------------------------
(* Blocs handed out to files.                                              *)

(***************************************************************************)
(* The machine r that asked machine m for a bloc: stopped, or the bloc is   *)
(* lost as yet, or it is 0 and the volume full.                            *)
(***************************************************************************)
Gets(m, r, L) ==
    \/ Halts(r)
    \/ /\ On(r, With(L, r.ret)) /\ With(L, r.ret) \in AtMost(kills + 1)
       /\ With(L, r.ret) \ {r.ret} = L /\ r.ret \in Bloc
       /\ InodesOf(r.disk) = InodesOf(m.disk) /\ Follows(m.disk, r.disk)
       /\ \A x \in Used(m.super) : r.disk[x] = m.disk[x]
       /\ r.ret = NULL_BLOC => r.super.nb_free_blc = 0
       /\ r.ret # NULL_BLOC => r.disk[r.ret] = Header

(* new_bloc, as any call gets it.                                          *)
LEMMA Got ==
    ASSUME NEW m, NEW L \in AtMost(kills), On(m, L), NEW r, r = NewBloc(m)
    PROVE  Gets(m, r, L)
  <1> DEFINE s == m.super
             d == m.disk
             f == s.first_free
             t == Less(s)
             v == SaveSuper(Changed(m, t))
             w == WriteBloc(v, f + 1, Header)
  <1>0. Traced(m) /\ m.ok /\ Sane(d, s, L) /\ kills \in Nat
    BY DEF On, Traced
  <1>1. /\ Disk(Contents, d) /\ s.nb_free_blc \in Nat /\ f \in Bloc /\ f \in 2 .. NSector
        /\ s.nb_free_blc = NSector - f /\ Used(s) \subseteq Bloc \ {0} /\ L \subseteq Used(s) /\ 0 \in Bloc
    <2> HIDE DEF s, d, f
    <2>1. Sane(d, s, L) /\ f = s.first_free
      BY <1>0 DEF f
    <2> QED
      BY ONLY <2>1, SaneIs
  <1>2. CASE s.nb_free_blc = 0
    <2>1. r = Return(m, NULL_BLOC)
      BY <1>0, <1>2 DEF NewBloc
    <2>2. On(r, L) /\ r.disk = d /\ r.super = s /\ r.ret = NULL_BLOC
      BY <1>0, <2>1, TracedReturn
    <2>3. With(L, r.ret) = L /\ L \ {r.ret} = L /\ L \in AtMost(kills + 1)
      BY <1>0, <1>1, <2>2, LeftMore DEF With, NULL_BLOC
    <2> QED
      BY <1>1, <1>2, <2>2, <2>3 DEF Gets, NULL_BLOC, Follows
  <1>3. CASE s.nb_free_blc # 0 /\ d[f].kind # "free"
    <2>1. r = Stopped(m)
      BY <1>0, <1>3 DEF NewBloc
    <2> QED
      BY <1>0, <2>1, TracedStopped DEF Gets
  <1>4. CASE s.nb_free_blc # 0 /\ d[f].kind = "free"
    <2>1. /\ t \in Contents /\ Sane(Put(d, 0, t), t, L \cup {f})
          /\ Follows(d, Put(d, 0, t)) /\ InodesOf(Put(d, 0, t)) = InodesOf(d)
          /\ Used(t) = Used(s) \cup {f} /\ f \in Bloc \ {0} /\ f \notin Used(s) /\ d[f] = Header
      <3>1. Sane(d, s, L) /\ s.nb_free_blc # 0 /\ d[s.first_free].kind = "free"
        BY <1>0, <1>4
      <3>2. t = Less(s)
        OBVIOUS
      <3> HIDE DEF t, s, d, f
      <3>3. /\ t \in Contents /\ Sane(Put(d, 0, t), t, L \cup {s.first_free})
            /\ Follows(d, Put(d, 0, t)) /\ InodesOf(Put(d, 0, t)) = InodesOf(d)
            /\ Used(t) = Used(s) \cup {s.first_free}
            /\ s.first_free \in Bloc \ {0} /\ s.first_free \notin Used(s)
            /\ d[s.first_free] = Header
        BY ONLY <3>1, <3>2, SaneTaken
      <3> QED
        BY ONLY <3>3 DEF f
    <2>2. r = Return(w, f)
      <3>1. d[f] = FreeBlc(NSector - 1, NULL_BLOC)
        BY <2>1 DEF Header
      <3>2. d[f].nb_free_blocs # 1 /\ d[f].kind = "free"
        BY <1>1, <1>4, <3>1, Kinds
      <3> QED
        BY <1>0, <1>4, <2>1, <3>2 DEF NewBloc, Changed, Less
    <2> DEFINE M == L \cup {f}
    <2>3. M \in AtMost(kills + 1)
      <3> HIDE DEF f
      <3>1. L \in AtMost(kills) /\ kills \in Nat /\ f \in Bloc
        BY <1>0, <1>1
      <3> QED
        BY ONLY <3>1, OneLostMore
    <2>4. t.first_free = f + 1
      BY Kinds DEF Less
    <2> HIDE DEF t, w, v, s, d, f
    <2>5. On(v, M) /\ v.disk = Put(d, 0, t) /\ v.super = t
      <3>1. /\ On(m, L) /\ t \in Contents /\ M \in AtMost(kills + 1) /\ Sane(Put(m.disk, 0, t), t, M)
            /\ v = SaveSuper(Changed(m, t))
        BY <2>1, <2>3 DEF v, d
      <3> HIDE DEF M
      <3> QED
        BY ONLY <3>1, OnSave DEF d
    <2>6. /\ Header \in Contents /\ f + 1 \in Bloc /\ Leaves(v.disk, t, f + 1, Header, M)
          /\ InodesOf(Put(v.disk, f + 1, Header)) = InodesOf(v.disk)
      <3>1. Sane(v.disk, t, M)
        BY <2>5 DEF On
      <3> HIDE DEF M
      <3> QED
        BY <3>1, <2>4, SaneHeader
    <2>7. /\ On(w, M) /\ Follows(v.disk, w.disk) /\ w.disk = Put(v.disk, f + 1, Header)
          /\ w.super = t
      <3>1. /\ On(v, M) /\ f + 1 \in Bloc /\ Header \in Contents /\ M \in AtMost(kills + 1)
            /\ Leaves(v.disk, v.super, f + 1, Header, M) /\ w = WriteBloc(v, f + 1, Header)
        BY <2>3, <2>5, <2>6 DEF w
      <3> HIDE DEF M
      <3>2. /\ On(w, M) /\ Follows(v.disk, w.disk) /\ w.disk = Put(v.disk, f + 1, Header)
            /\ w.super = v.super
        BY ONLY <3>1, OnWrite
      <3> QED
        BY <2>5, <3>2
    <2>8. On(r, M) /\ r.disk = w.disk /\ r.super = t /\ r.ret = f
      BY <2>2, <2>7, TracedReturn DEF On
    <2>9. Follows(d, r.disk) /\ InodesOf(r.disk) = InodesOf(d)
      BY <2>1, <2>5, <2>6, <2>7, <2>8, FollowsOn
    <2>10. \A x \in Used(s) \cup {f} : r.disk[x] = d[x]
      <3>1. \A x \in Bloc : x # 0 => v.disk[x] = d[x]
        BY <1>1, <2>1, <2>5, PutIs
      <3>2. Disk(Contents, v.disk)
        BY <1>1, <2>1, <2>5, PutIs
      <3>3. \A x \in Bloc : x # f + 1 => w.disk[x] = v.disk[x]
        BY <2>6, <2>7, <3>2, PutIs
      <3>4. \A x \in Used(s) \cup {f} : x \in Bloc /\ x # 0 /\ x # f + 1
        BY <1>1 DEF Used, f
      <3> QED
        BY <2>8, <3>1, <3>3, <3>4
    <2>11. With(L, f) = M /\ M \ {f} = L /\ f # NULL_BLOC
      BY <1>1, <2>1 DEF With, NULL_BLOC
    <2> HIDE DEF M
    <2> QED
      BY <2>1, <2>3, <2>8, <2>9, <2>10, <2>11 DEF Gets, s, d
  <1> QED
    BY <1>2, <1>3, <1>4

\* What an allocation for file bloc k of inode i does, found or made: it is
\* stopped, or returns the bloc that the inode names, or 0 on a full volume.
Makes(m, r, i, k, L) ==
    \/ Halts(r)
    \/ /\ On(r, L) /\ Follows(m.disk, r.disk) /\ r.ret \in Bloc
       /\ r.ret # NULL_BLOC => r.ret = Named(r.disk, i, k)
       /\ r.ret = NULL_BLOC => r.super.nb_free_blc = 0

(* One step after another.                                                 *)
LEMMA MakesOn ==
    ASSUME NEW m, NEW v, NEW r, NEW i, NEW k, NEW L, Follows(m.disk, v.disk),
           Makes(v, r, i, k, L)
    PROVE  Makes(m, r, i, k, L)
  <1>1. ASSUME Follows(v.disk, r.disk)
        PROVE  Follows(m.disk, r.disk)
    BY <1>1, FollowsOn
  <1> QED
    BY <1>1 DEF Makes

(* The bloc that was found or made is written.                             *)
LEMMA Written ==
    ASSUME NEW m, NEW L \in AtMost(kills), On(m, L), NEW i \in InodesOf(m.disk), NEW k \in Fbloc,
           m.ret \in Bloc, m.ret # NULL_BLOC => m.ret = Named(m.disk, i, k),
           m.ret = NULL_BLOC => m.super.nb_free_blc = 0,
           NEW c \in Contents, FileBloc(c, k, InodesOf(m.disk)), NEW r, r = WriteFound(m, c)
    PROVE  /\ On(r, L) /\ Follows(m.disk, r.disk) /\ Makes(m, r, i, k, L)
           /\ r.ret = m.ret /\ r.super = m.super /\ r.disk = Put(m.disk, m.ret, c)
  <1> DEFINE b == m.ret
             d == m.disk
             s == m.super
  <1>1. /\ Sane(d, s, L) /\ L \in AtMost(kills + 1) /\ c.kind # "super" /\ kills \in Nat
        /\ c.kind # "inode" /\ r = WriteBloc(m, b, c)
    BY LeftMore DEF On, Traced, FileBloc, WriteFound
  <1>2. Leaves(d, s, b, c, L)
    <2> HIDE DEF d, s, b
    <2>1. CASE b = 0
      <3>1. /\ Sane(d, s, L) /\ b \in L \cup {0} /\ c \in Contents
            /\ (b = 0 => s.nb_free_blc = 0 /\ c.kind # "super") /\ (b # 0 => c.kind # "inode")
        BY <1>1, <2>1 DEF d, s, b, NULL_BLOC
      <3> QED
        BY ONLY <3>1, WriteLost
    <2>2. CASE b # 0
      <3>1. /\ Sane(d, s, L) /\ i \in InodesOf(d) /\ k \in Fbloc /\ b = Named(d, i, k)
            /\ b # NULL_BLOC /\ c \in Contents /\ FileBloc(c, k, InodesOf(d))
        BY <1>1, <2>2 DEF d, s, b, NULL_BLOC
      <3> QED
        BY ONLY <3>1, WriteData
    <2> QED
      BY <2>1, <2>2
  <1>3. /\ On(r, L) /\ Follows(d, r.disk) /\ r.disk = Put(d, b, c) /\ r.super = s /\ r.ret = b
    <2>1. /\ On(m, L) /\ b \in Bloc /\ c \in Contents /\ L \in AtMost(kills + 1)
          /\ Leaves(m.disk, m.super, b, c, L) /\ r = WriteBloc(m, b, c)
      BY <1>1, <1>2
    <2> HIDE DEF b
    <2>2. /\ On(r, L) /\ Follows(m.disk, r.disk)
          /\ r.disk = Put(m.disk, b, c) /\ r.super = m.super /\ r.ret = m.ret
      BY ONLY <2>1, OnWrite
    <2> QED
      BY <2>2 DEF b
  <1>4. b # NULL_BLOC => b = Named(r.disk, i, k)
    <2>1. k \in Slot
      BY SlotIs
    <2> QED
      BY <1>3, <2>1 DEF Follows
  <1> QED
    BY <1>3, <1>4 DEF Makes

(* What a call sees of inode i once it has asked for a bloc.               *)
LEMMA StillNamed ==
    ASSUME NEW d, NEW s, NEW L, Sane(d, s, L), NEW i \in InodesOf(d),
           NEW d2, \A x \in Used(s) : d2[x] = d[x]
    PROVE  /\ d2[i] = d[i]
           /\ d[i].indirect # NULL_BLOC => d2[d[i].indirect] = d[d[i].indirect]
           /\ \A k \in Slot : Named(d2, i, k) = Named(d, i, k)
  <1>1. Sane(d, s, L) /\ i \in InodesOf(d)
    OBVIOUS
  <1>2. /\ i \in Used(s)
        /\ \A k \in Slot : Named(d, i, k) # NULL_BLOC => Named(d, i, k) \in Used(s)
    BY ONLY <1>1, InodeIn
  <1>3. d2[i] = d[i] /\ (d[i].indirect # NULL_BLOC => d2[d[i].indirect] = d[d[i].indirect])
    BY <1>2, SlotIs, NamedIs
  <1> QED
    BY <1>3, SameNames

(* The bloc that was asked for is named in bloc at, then cleaned.          *)
LEMMA NamedThenCleaned ==
    ASSUME Roomy, NEW m, NEW L \in AtMost(kills), On(m, L), NEW i \in InodesOf(m.disk),
           NEW k \in Fbloc, NEW g, Gets(m, g, L), ~Halts(g), NEW at \in Bloc, NEW c \in Contents,
           Leaves(g.disk, g.super, at, c, L), InodesOf(Put(g.disk, at, c)) = InodesOf(g.disk),
           Named(Put(g.disk, at, c), i, k) = g.ret,
           NEW w, w = WriteBloc(g, at, c), NEW r, r = WriteFound(w, Zero)
    PROVE  Makes(m, r, i, k, L)
  <1> DEFINE M == With(L, g.ret)
  <1>1. /\ On(g, M) /\ InodesOf(g.disk) = InodesOf(m.disk) /\ Follows(m.disk, g.disk)
        /\ g.ret \in Bloc /\ (g.ret = NULL_BLOC => g.super.nb_free_blc = 0)
        /\ L \in AtMost(kills + 1)
    BY LeftMore DEF Gets, On, Traced
  <1>2. /\ On(w, L) /\ Follows(g.disk, w.disk) /\ w.disk = Put(g.disk, at, c)
        /\ w.super = g.super /\ w.ret = g.ret
    <2>1. /\ On(g, M) /\ at \in Bloc /\ c \in Contents /\ L \in AtMost(kills + 1)
          /\ Leaves(g.disk, g.super, at, c, L) /\ w = WriteBloc(g, at, c)
      BY <1>1
    <2> HIDE DEF M
    <2> QED
      BY ONLY <2>1, OnWrite
  <1>3. Makes(w, r, i, k, L)
    <2>1. Zero \in Contents /\ FileBloc(Zero, k, InodesOf(w.disk))
      BY ContentsIs, CleanIs DEF Complete, ClosedFree
    <2>2. /\ L \in AtMost(kills) /\ On(w, L) /\ i \in InodesOf(w.disk) /\ k \in Fbloc
          /\ w.ret \in Bloc /\ (w.ret # NULL_BLOC => w.ret = Named(w.disk, i, k))
          /\ (w.ret = NULL_BLOC => w.super.nb_free_blc = 0)
          /\ Zero \in Contents /\ FileBloc(Zero, k, InodesOf(w.disk)) /\ r = WriteFound(w, Zero)
      BY <1>1, <1>2, <2>1
    <2> QED
      BY ONLY <2>2, Written
  <1>4. Follows(m.disk, w.disk)
    BY <1>1, <1>2, FollowsOn
  <1> QED
    BY <1>3, <1>4, MakesOn

(* A bloc of the direct table, when there is none yet.                     *)
LEMMA MakesDirect ==
    ASSUME Roomy, NEW m, NEW L \in AtMost(kills), On(m, L), NEW i \in InodesOf(m.disk), NEW k \in Index,
           Named(m.disk, i, k) = NULL_BLOC, NEW r, r = MakeDirect(m, i, k)
    PROVE  Makes(m, r, i, k, L)
  <1> DEFINE g == NewBloc(m)
             c == InDirect(m.disk[i], k, g.ret)
             w == WriteBloc(g, i, c)
  <1>1. r = WriteFound(w, Zero)
    <2>1. m.disk[i].direct[k] = NULL_BLOC
      BY NamedIs
    <2> QED
      BY <2>1 DEF MakeDirect, Direct, NameFound, InDirect, CleanFound
  <1>2. Gets(m, g, L)
    BY Got
  <1> HIDE DEF g
  <1>3. CASE Halts(g)
    <2>1. w = g /\ r = g
      BY <1>1, <1>3, HaltsOn DEF WriteFound
    <2> QED
      BY <1>3, <2>1 DEF Makes
  <1>4. CASE ~Halts(g)
    <2> DEFINE M == With(L, g.ret)
               b == g.ret
               d == g.disk
               s == g.super
    <2>1. /\ On(g, M) /\ M \in AtMost(kills + 1) /\ M \ {b} = L /\ b \in Bloc
          /\ InodesOf(d) = InodesOf(m.disk) /\ Follows(m.disk, d)
          /\ \A x \in Used(m.super) : d[x] = m.disk[x]
          /\ b = NULL_BLOC => s.nb_free_blc = 0
          /\ b # NULL_BLOC => d[b] = Header
          /\ b \in M \cup {0}
      BY <1>2, <1>4 DEF Gets, With, NULL_BLOC
    <2>2. d[i] = m.disk[i] /\ Named(d, i, k) = NULL_BLOC
      <3>1. /\ Sane(m.disk, m.super, L) /\ i \in InodesOf(m.disk)
            /\ \A x \in Used(m.super) : d[x] = m.disk[x]
        BY <2>1 DEF On
      <3> HIDE DEF d
      <3>2. d[i] = m.disk[i] /\ \A l \in Slot : Named(d, i, l) = Named(m.disk, i, l)
        BY ONLY <3>1, StillNamed
      <3> QED
        BY <3>2, SlotIs
    <2>3. /\ c \in Contents /\ Leaves(d, s, i, c, L) /\ InodesOf(Put(d, i, c)) = InodesOf(d)
          /\ Named(Put(d, i, c), i, k) = b
      <3>1. /\ Roomy /\ Sane(d, s, M) /\ i \in InodesOf(d) /\ k \in Index /\ Named(d, i, k) = NULL_BLOC
            /\ b \in M \cup {0} /\ (b # NULL_BLOC => d[b] = Zero \/ d[b] = Header)
            /\ c = InDirect(d[i], k, b)
        BY <2>1, <2>2 DEF On
      <3> HIDE DEF c, d, s, b, M
      <3>2. /\ c \in Contents /\ Leaves(d, s, i, c, M \ {b}) /\ InodesOf(Put(d, i, c)) = InodesOf(d)
            /\ Named(Put(d, i, c), i, k) = b
        BY ONLY <3>1, WriteDirect
      <3>3. M \ {b} = L
        BY <2>1
      <3> QED
        BY <3>2, <3>3
    <2>4. /\ Roomy /\ L \in AtMost(kills) /\ On(m, L) /\ i \in InodesOf(m.disk) /\ k \in Fbloc
          /\ Gets(m, g, L) /\ ~Halts(g) /\ i \in Bloc /\ c \in Contents
          /\ Leaves(g.disk, g.super, i, c, L) /\ InodesOf(Put(g.disk, i, c)) = InodesOf(g.disk)
          /\ Named(Put(g.disk, i, c), i, k) = g.ret
          /\ w = WriteBloc(g, i, c) /\ r = WriteFound(w, Zero)
      BY <1>1, <1>2, <1>4, <2>3, SlotIs DEF InodesOf, Bloc
    <2> HIDE DEF c, w
    <2> QED
      BY ONLY <2>4, NamedThenCleaned
  <1> QED
    BY <1>3, <1>4

(* A bloc named in the indirect table, found or made.                      *)
LEMMA MakesEntry ==
    ASSUME Roomy, NEW m, NEW L \in AtMost(kills), On(m, L), NEW i \in InodesOf(m.disk),
           NEW k \in Fbloc \ Index, m.ret = m.disk[i].indirect, m.ret # NULL_BLOC,
           NEW r, r = MakeEntry(m, k - NB_BLOCS)
    PROVE  Makes(m, r, i, k, L)
  <1> DEFINE t == m.ret
             x == k - NB_BLOCS
             e == Entries(m.disk[t])
             g == NewBloc(m)
             c == Entered(e, x, g.ret)
             w == WriteBloc(g, t, c)
  <1>1. m.ok /\ Sane(m.disk, m.super, L) /\ k \in Fbloc /\ k \in Slot
    BY SlotIs DEF On
  <1>2. Named(m.disk, i, k) = e[x] /\ IsTable(m.disk[t]) /\ Named(m.disk, i, k) \in Bloc
    <2>1. Readable(m.disk, i) /\ Named(m.disk, i, k) \in Bloc
      <3> DEFINE d == m.disk
                 s == m.super
      <3>1. Sane(d, s, L) /\ i \in InodesOf(d) /\ k \in Fbloc /\ k \in Slot
        BY <1>1
      <3> HIDE DEF d, s
      <3>2. Readable(d, i) /\ Named(d, i, k) \in Bloc
        BY ONLY <3>1, InodeIn
      <3> QED
        BY <3>2 DEF d
    <2> QED
      BY <2>1, NamedIs DEF Readable
  <1>3. CASE e[x] # NULL_BLOC
    <2>1. r = Return(m, e[x])
      BY <1>1, <1>2, <1>3 DEF MakeEntry, IndirectEntry
    <2>2. On(r, L) /\ r.disk = m.disk /\ r.ret = Named(m.disk, i, k)
      BY <1>2, <2>1, TracedReturn DEF On
    <2> QED
      BY <1>2, <1>3, <2>2 DEF Makes, Follows
  <1>4. CASE e[x] = NULL_BLOC
    <2>1. r = WriteFound(w, Zero)
      BY <1>1, <1>2, <1>4 DEF MakeEntry, IndirectEntry, NameFound, CleanFound, Entered
    <2>2. Gets(m, g, L)
      BY Got
    <2> HIDE DEF g
    <2>3. CASE Halts(g)
      <3>1. w = g
        BY <2>3, HaltsOn
      <3> HIDE DEF w
      <3>2. r = g
        BY <2>1, <2>3, <3>1, HaltsOn DEF WriteFound
      <3> QED
        BY <2>3, <3>2 DEF Makes
    <2>4. CASE ~Halts(g)
      <3> DEFINE M == With(L, g.ret)
                 d == g.disk
                 s == g.super
                 b == g.ret
      <3>1. /\ On(g, M) /\ M \ {b} = L /\ b \in Bloc
            /\ InodesOf(d) = InodesOf(m.disk) /\ b \in M \cup {0}
            /\ \A y \in Used(m.super) : d[y] = m.disk[y]
            /\ b # NULL_BLOC => d[b] = Header
        BY <2>2, <2>4 DEF Gets, With, NULL_BLOC
      <3>2. /\ d[i] = m.disk[i] /\ d[t] = m.disk[t] /\ Named(d, i, k) = NULL_BLOC
        <4>1. /\ Sane(m.disk, m.super, L) /\ i \in InodesOf(m.disk)
              /\ \A y \in Used(m.super) : d[y] = m.disk[y]
          BY <1>1, <3>1
        <4> HIDE DEF d
        <4>2. /\ d[i] = m.disk[i]
              /\ m.disk[i].indirect # NULL_BLOC => d[m.disk[i].indirect] = m.disk[m.disk[i].indirect]
              /\ \A l \in Slot : Named(d, i, l) = Named(m.disk, i, l)
          BY ONLY <4>1, StillNamed
        <4> QED
          BY <1>1, <1>2, <1>4, <4>2
      <3>3. /\ c \in Contents /\ t \in Bloc /\ Leaves(d, s, t, c, L)
            /\ InodesOf(Put(d, t, c)) = InodesOf(d) /\ Named(Put(d, t, c), i, k) = b
        <4>1. /\ Roomy /\ Sane(d, s, M) /\ i \in InodesOf(d) /\ k \in Fbloc \ Index
              /\ Named(d, i, k) = NULL_BLOC /\ t = d[i].indirect /\ t # NULL_BLOC /\ b \in M \cup {0}
              /\ (b # NULL_BLOC => d[b] = Zero \/ d[b] = Header)
              /\ c = Entered(Entries(d[t]), k - NB_BLOCS, b)
          BY <3>1, <3>2 DEF On
        <4> HIDE DEF c, d, s, b, M, t
        <4>2. /\ c \in Contents /\ t \in Bloc /\ Leaves(d, s, t, c, M \ {b})
              /\ InodesOf(Put(d, t, c)) = InodesOf(d) /\ Named(Put(d, t, c), i, k) = b
          BY ONLY <4>1, WriteEntry
        <4>3. M \ {b} = L
          BY <3>1
        <4> QED
          BY <4>2, <4>3
      <3>4. /\ Roomy /\ L \in AtMost(kills) /\ On(m, L) /\ i \in InodesOf(m.disk) /\ k \in Fbloc
            /\ Gets(m, g, L) /\ ~Halts(g) /\ t \in Bloc /\ c \in Contents
            /\ Leaves(g.disk, g.super, t, c, L) /\ InodesOf(Put(g.disk, t, c)) = InodesOf(g.disk)
            /\ Named(Put(g.disk, t, c), i, k) = g.ret
            /\ w = WriteBloc(g, t, c) /\ r = WriteFound(w, Zero)
        BY <1>1, <2>1, <2>2, <2>4, <3>3
      <3> HIDE DEF c, w, t
      <3> QED
        BY ONLY <3>4, NamedThenCleaned
    <2> QED
      BY <2>3, <2>4
  <1> QED
    BY <1>3, <1>4

(* No bloc for the table: the entry is made in bloc 0, which is cleaned.   *)
LEMMA MakesNoEntry ==
    ASSUME NEW m, NEW L \in AtMost(kills), On(m, L), NEW i \in InodesOf(m.disk),
           NEW k \in Fbloc \ Index, m.ret = NULL_BLOC, m.super.nb_free_blc = 0, m.disk[0] = Zero,
           NEW r, r = MakeEntry(m, k - NB_BLOCS)
    PROVE  Makes(m, r, i, k, L)
  <1> DEFINE x == k - NB_BLOCS
             g == Return(m, NULL_BLOC)
             c == Entered(NoBlocs, x, NULL_BLOC)
             w == WriteBloc(g, 0, c)
             v == WriteBloc(w, 0, Zero)
  <1>1. m.ok /\ Traced(m) /\ Sane(m.disk, m.super, L) /\ 0 \in Bloc /\ L \in AtMost(kills + 1)
    BY LeftMore DEF On, Bloc, Traced
  <1>2. On(g, L) /\ g.disk = m.disk /\ g.super = m.super /\ g.ret = 0
    BY <1>1, TracedReturn DEF NULL_BLOC
  <1>3. NewBloc(m) = g
    BY <1>1 DEF NewBloc
  <1>4. IsTable(Zero) /\ Entries(Zero) = NoBlocs /\ NoBlocs[x] = NULL_BLOC /\ x \in Index
    BY SlotIs, Kinds DEF IsTable, Entries, NoBlocs
  <1>5. /\ c \in Contents /\ Zero \in Contents /\ c.kind \notin {"super", "inode"}
        /\ Zero.kind \notin {"super", "inode"}
    <2>1. NoBlocs \in [Index -> Bloc] /\ NULL_BLOC \in Bloc /\ Complete(Contents)
      BY ContentsIs DEF NoBlocs, Bloc, NULL_BLOC
    <2>2. c \in Contents
      <3> HIDE DEF x
      <3> QED
        BY <1>4, <2>1, TableIs
    <2> QED
      BY <2>1, <2>2, Kinds DEF Complete, ClosedFree, Entered
  <1>6. r = v
    <2>1. r = WriteFound(WriteBloc(g, 0, c), Zero)
      <3>1. m.disk[m.ret] = Zero /\ m.ret = 0
        BY DEF NULL_BLOC
      <3>2. MakeEntry(m, x) = CleanFound(WriteBloc(g, 0, Entered(NoBlocs, x, g.ret)))
        <4> HIDE DEF g, x
        <4> QED
          BY <1>1, <1>3, <1>4, <3>1 DEF MakeEntry, IndirectEntry, NameFound, Entered
      <3>3. g.ret = NULL_BLOC
        BY <1>2 DEF NULL_BLOC
      <3> HIDE DEF g
      <3> QED
        BY <3>2, <3>3 DEF CleanFound
    <2>2. w.ret = 0
      BY <1>2, WriteIs DEF On, Traced, Running
    <2> QED
      BY <2>1, <2>2 DEF WriteFound
  <1> HIDE DEF g, c
  <1>7. On(w, L) /\ Follows(g.disk, w.disk) /\ w.super = m.super /\ w.ret = 0
    <2>1. Leaves(g.disk, g.super, 0, c, L)
      <3>1. /\ Sane(g.disk, g.super, L) /\ 0 \in L \cup {0} /\ c \in Contents
            /\ (0 = 0 => g.super.nb_free_blc = 0 /\ c.kind # "super") /\ (0 # 0 => c.kind # "inode")
        BY <1>2, <1>5 DEF On
      <3> QED
        BY ONLY <3>1, WriteLost
    <2>2. On(g, L) /\ 0 \in Bloc /\ c \in Contents /\ L \in AtMost(kills + 1) /\ w = WriteBloc(g, 0, c)
      BY <1>1, <1>2, <1>5
    <2>3. /\ On(w, L) /\ Follows(g.disk, w.disk) /\ w.super = g.super /\ w.ret = g.ret
      BY ONLY <2>1, <2>2, OnWrite
    <2> QED
      BY <1>2, <2>3
  <1> HIDE DEF w
  <1>8. On(v, L) /\ Follows(w.disk, v.disk) /\ v.super = m.super /\ v.ret = 0
    <2>1. Leaves(w.disk, w.super, 0, Zero, L)
      <3>1. /\ Sane(w.disk, w.super, L) /\ 0 \in L \cup {0} /\ Zero \in Contents
            /\ (0 = 0 => w.super.nb_free_blc = 0 /\ Zero.kind # "super")
            /\ (0 # 0 => Zero.kind # "inode")
        BY <1>5, <1>7 DEF On
      <3> QED
        BY ONLY <3>1, WriteLost
    <2>2. /\ On(w, L) /\ 0 \in Bloc /\ Zero \in Contents /\ L \in AtMost(kills + 1)
          /\ v = WriteBloc(w, 0, Zero)
      BY <1>1, <1>5, <1>7
    <2>3. /\ On(v, L) /\ Follows(w.disk, v.disk) /\ v.super = w.super /\ v.ret = w.ret
      BY ONLY <2>1, <2>2, OnWrite
    <2> QED
      BY <1>7, <2>3
  <1>9. Follows(m.disk, v.disk)
    BY <1>2, <1>7, <1>8, FollowsOn
  <1> QED
    BY <1>1, <1>6, <1>8, <1>9 DEF Makes, NULL_BLOC

(* A call that goes on.                                                    *)
LEMMA OnIs ==
    ASSUME NEW m, NEW L, On(m, L)
    PROVE  /\ m.ok /\ Traced(m) /\ Sane(m.disk, m.super, L) /\ Disk(Contents, m.disk)
           /\ m.super # NoSuper /\ m.super.kind = "super" /\ kills \in Nat
           /\ \A i \in InodesOf(m.disk) : m.disk[i].kind = "inode" /\ i \in Bloc /\ i # 0
  <1>1. m.ok /\ Traced(m) /\ Sane(m.disk, m.super, L) /\ kills \in Nat
    BY DEF On, Traced
  <1>2. Disk(Contents, m.disk) /\ m.super # NoSuper /\ m.super.kind = "super"
    <2> DEFINE d == m.disk
               s == m.super
    <2>1. Sane(d, s, L)
      BY <1>1
    <2> HIDE DEF d, s
    <2>2. Disk(Contents, d) /\ s # NoSuper /\ s.kind = "super"
      BY ONLY <2>1, SaneIs
    <2> QED
      BY <2>2 DEF d, s
  <1> QED
    BY <1>1, <1>2 DEF InodesOf, Bloc

(* The first bloc of the indirect table, when there is no table yet.       *)
LEMMA MakesTable ==
    ASSUME Roomy, NEW m, NEW L \in AtMost(kills), On(m, L), NEW i \in InodesOf(m.disk),
           m.disk[i].indirect = NULL_BLOC, NEW r, r = MakeIndirect(m, i, NB_BLOCS)
    PROVE  Makes(m, r, i, NB_BLOCS, L)
  <1> DEFINE k == NB_BLOCS
             g == NewBloc(m)
             b == g.ret
             h == WriteBloc(g, b, Zero)
             c == AsIndirect(m.disk[i], k, b)
             v == WriteBloc(h, i, c)
             M == With(L, b)
  <1>1. /\ m.ok /\ Sane(m.disk, m.super, L) /\ L \in AtMost(kills + 1) /\ i \in Bloc
        /\ k \in Fbloc \ Index /\ k \in Fbloc
    BY LeftMore DEF On, Traced, InodesOf, Bloc, Roomy, Fbloc, Index
  <1>2. r = MakeEntry(WriteBloc(h, i, AsIndirect(m.disk[i], k, h.ret)), k - NB_BLOCS)
    BY DEF MakeIndirect, Indirect, NameFound, CleanFound, WriteFound, MakeEntry, AsIndirect
  <1>3. Gets(m, g, L)
    BY Got
  <1> HIDE DEF g
  <1>4. CASE Halts(g)
    <2>1. h = g
      BY <1>4, HaltsOn
    <2> HIDE DEF h
    <2>2. WriteBloc(h, i, AsIndirect(m.disk[i], k, h.ret)) = g
      BY <1>4, <2>1, HaltsOn
    <2>3. r = Stopped(g)
      BY <1>2, <1>4, <2>2 DEF MakeEntry, IndirectEntry, Halts
    <2>4. Halts(r)
      BY <1>4, <2>3, HaltsOn
    <2> QED
      BY <2>4 DEF Makes
  <1>5. CASE ~Halts(g)
    <2> DEFINE d == g.disk
               s == g.super
               d2 == h.disk
               d3 == v.disk
    <2>1. /\ On(g, M) /\ M \in AtMost(kills + 1) /\ M \ {b} = L /\ b \in Bloc /\ b \in M \cup {0}
          /\ InodesOf(d) = InodesOf(m.disk) /\ Follows(m.disk, d) /\ Sane(d, s, M)
          /\ \A x \in Used(m.super) : d[x] = m.disk[x]
          /\ b = NULL_BLOC => s.nb_free_blc = 0
      BY <1>3, <1>5 DEF Gets, With, NULL_BLOC, On
    <2>2. d[i] = m.disk[i]
      <3>1. /\ Sane(m.disk, m.super, L) /\ i \in InodesOf(m.disk)
            /\ \A x \in Used(m.super) : d[x] = m.disk[x]
        BY <1>1, <2>1
      <3> HIDE DEF d
      <3> QED
        BY ONLY <3>1, StillNamed
    <2>3. Zero \in Contents /\ Zero.kind \notin {"super", "inode"}
      BY ContentsIs, Kinds DEF Complete, ClosedFree
    <2>4. Leaves(d, s, b, Zero, M) /\ InodesOf(Put(d, b, Zero)) = InodesOf(d)
      <3>1. /\ Sane(d, s, M) /\ b \in M \cup {0} /\ Zero \in Contents
            /\ (b = 0 => s.nb_free_blc = 0 /\ Zero.kind # "super") /\ (b # 0 => Zero.kind # "inode")
        BY <2>1, <2>3 DEF NULL_BLOC
      <3> HIDE DEF b, d, s, M
      <3> QED
        BY ONLY <3>1, WriteLost
    <2>5. On(h, M) /\ Follows(d, d2) /\ d2 = Put(d, b, Zero) /\ h.super = s /\ h.ret = b
      <3>1. /\ On(g, M) /\ b \in Bloc /\ Zero \in Contents /\ M \in AtMost(kills + 1)
            /\ Leaves(g.disk, g.super, b, Zero, M) /\ h = WriteBloc(g, b, Zero)
        BY <2>1, <2>3, <2>4
      <3> HIDE DEF M, b, h
      <3>2. /\ On(h, M) /\ Follows(g.disk, h.disk) /\ h.disk = Put(g.disk, b, Zero)
            /\ h.super = g.super /\ h.ret = b
        <4>1. /\ On(h, M) /\ Follows(g.disk, h.disk) /\ h.disk = Put(g.disk, b, Zero)
              /\ h.super = g.super /\ h.ret = g.ret
          BY ONLY <3>1, OnWrite
        <4> QED
          BY <4>1 DEF b
      <3> QED
        BY <3>2
    <2> HIDE DEF h, M
    <2>6. d2[b] = Zero /\ d2[i] = m.disk[i] /\ b # i
      <3>1. Sane(d, s, M) /\ i \in InodesOf(d)
        BY <2>1
      <3>2. Disk(Contents, d) /\ i \in Bloc /\ \A x \in M \cup {0} : x # i
        <4> HIDE DEF d, s
        <4> QED
          BY ONLY <3>1, InodeIn
      <3> QED
        BY <2>1, <2>2, <2>3, <2>5, <3>2, PutIs
    <2>7. /\ c \in Contents /\ Leaves(d2, h.super, i, c, L) /\ InodesOf(Put(d2, i, c)) = InodesOf(d2)
          /\ Put(d2, i, c)[i].indirect = b
      <3>1. /\ Sane(d2, h.super, M) /\ i \in InodesOf(d2) /\ d2[i].indirect = NULL_BLOC
            /\ b \in M \cup {0} /\ (b # NULL_BLOC => d2[b] = Zero) /\ c = AsIndirect(d2[i], NB_BLOCS, b)
        BY <2>1, <2>4, <2>5, <2>6 DEF On
      <3> HIDE DEF d2, b, c
      <3>2. /\ c \in Contents /\ Leaves(d2, h.super, i, c, M \ {b})
            /\ InodesOf(Put(d2, i, c)) = InodesOf(d2) /\ Put(d2, i, c)[i].indirect = b
        BY ONLY <3>1, WriteTable
      <3>3. M \ {b} = L
        BY <2>1
      <3> QED
        BY <3>2, <3>3
    <2>8. On(v, L) /\ Follows(d2, d3) /\ d3 = Put(d2, i, c) /\ v.super = s /\ v.ret = b
      <3>1. /\ On(h, M) /\ i \in Bloc /\ c \in Contents /\ L \in AtMost(kills + 1)
            /\ Leaves(h.disk, h.super, i, c, L) /\ v = WriteBloc(h, i, c)
        BY <1>1, <2>5, <2>7
      <3> HIDE DEF v, c
      <3>2. /\ On(v, L) /\ Follows(h.disk, v.disk) /\ v.disk = Put(h.disk, i, c)
            /\ v.super = h.super /\ v.ret = h.ret
        BY ONLY <3>1, OnWrite
      <3> QED
        BY <2>5, <3>2
    <2>9. r = MakeEntry(v, k - NB_BLOCS)
      BY <1>2, <2>5
    <2> HIDE DEF v, c
    <2>10. i \in InodesOf(d3) /\ d3[i].indirect = b /\ d3[0] = d2[0]
      <3>1. 0 \in Bloc /\ 0 # i
        BY DEF InodesOf, Bloc
      <3>2. Disk(Contents, d2)
        BY <2>5, OnIs
      <3> QED
        BY <1>1, <2>1, <2>4, <2>5, <2>7, <2>8, <3>1, <3>2, PutIs
    <2>11. Makes(v, r, i, k, L)
      <3>1. CASE b # NULL_BLOC
        <4>1. /\ Roomy /\ L \in AtMost(kills) /\ On(v, L) /\ i \in InodesOf(v.disk)
              /\ k \in Fbloc \ Index /\ v.ret = v.disk[i].indirect /\ v.ret # NULL_BLOC
              /\ r = MakeEntry(v, k - NB_BLOCS)
          BY <1>1, <2>8, <2>9, <2>10, <3>1
        <4> HIDE DEF k
        <4> QED
          BY ONLY <4>1, MakesEntry
      <3>2. CASE b = NULL_BLOC
        <4>1. /\ L \in AtMost(kills) /\ On(v, L) /\ i \in InodesOf(v.disk)
              /\ k \in Fbloc \ Index /\ v.ret = NULL_BLOC /\ v.super.nb_free_blc = 0
              /\ v.disk[0] = Zero /\ r = MakeEntry(v, k - NB_BLOCS)
          BY <1>1, <2>1, <2>6, <2>8, <2>9, <2>10, <3>2 DEF NULL_BLOC
        <4> HIDE DEF k
        <4> QED
          BY ONLY <4>1, MakesNoEntry
      <3> QED
        BY <3>1, <3>2
    <2>12. Follows(m.disk, d3)
      BY <2>1, <2>5, <2>8, FollowsOn
    <2> QED
      BY <2>11, <2>12, MakesOn
  <1> QED
    BY <1>4, <1>5

(***************************************************************************)
(* allocate_vbloc_of_fbloc, for a file bloc of the direct table, the first   *)
(* one of the indirect table, or any of an indirect table that is there.    *)
(***************************************************************************)
LEMMA AllocateMakes ==
    ASSUME Roomy, NEW m, NEW L \in AtMost(kills), On(m, L), NEW i \in InodesOf(m.disk),
           NEW k \in Fbloc, k <= NB_BLOCS \/ m.disk[i].indirect # NULL_BLOC,
           NEW r, r = AllocateVblocOfFbloc(m, i, k)
    PROVE  Makes(m, r, i, k, L)
  <1>1. /\ m.ok /\ Sane(m.disk, m.super, L) /\ m.super # NoSuper /\ m.disk[i].kind = "inode"
        /\ k \in Slot
    BY OnIs, SlotIs
  <1>2. CASE k \in Index
    <2>1. r = MakeDirect(m, i, k)
      <3>1. k < NB_BLOCS
        BY <1>2, SlotIs
      <3> QED
        BY <1>1, <3>1 DEF AllocateVblocOfFbloc, AuxVblocOfFbloc, MakeDirect
    <2>2. CASE Named(m.disk, i, k) = NULL_BLOC
      BY <1>2, <2>1, <2>2, MakesDirect
    <2>3. CASE Named(m.disk, i, k) # NULL_BLOC
      <3>1. r = Return(m, Named(m.disk, i, k))
        BY <1>2, <2>1, <2>3, NamedIs DEF MakeDirect, Direct
      <3>2. On(r, L) /\ r.disk = m.disk /\ r.ret = Named(m.disk, i, k)
        BY <3>1, TracedReturn DEF On
      <3>3. Named(m.disk, i, k) \in Bloc
        <4>1. Sane(m.disk, m.super, L) /\ i \in InodesOf(m.disk) /\ k \in Slot
          BY <1>1
        <4> QED
          BY ONLY <4>1, InodeIn
      <3> QED
        BY <2>3, <3>2, <3>3 DEF Makes, Follows
    <2> QED
      BY <2>2, <2>3
  <1>3. CASE k \notin Index
    <2>1. r = MakeIndirect(m, i, k) /\ k \in Fbloc \ Index
      <3>1. k < 2 * NB_BLOCS /\ ~(k < NB_BLOCS)
        BY <1>3 DEF Fbloc, Index
      <3> QED
        BY <1>1, <1>3, <3>1 DEF AllocateVblocOfFbloc, AuxVblocOfFbloc, MakeIndirect
    <2>2. CASE m.disk[i].indirect = NULL_BLOC
      <3>1. k = NB_BLOCS
        BY <2>1, <2>2, SlotIs
      <3> QED
        BY <2>1, <2>2, <3>1, MakesTable
    <2>3. CASE m.disk[i].indirect # NULL_BLOC
      <3> DEFINE t == m.disk[i].indirect
                 v == Return(m, t)
      <3>1. r = MakeEntry(v, k - NB_BLOCS)
        BY <2>1, <2>3 DEF MakeIndirect, Indirect, MakeEntry
      <3>2. On(v, L) /\ v.disk = m.disk /\ v.ret = t
        BY TracedReturn DEF On
      <3> HIDE DEF v
      <3>3. /\ Roomy /\ On(v, L) /\ i \in InodesOf(v.disk) /\ k \in Fbloc \ Index
            /\ v.ret = v.disk[i].indirect /\ v.ret # NULL_BLOC
            /\ r = MakeEntry(v, k - NB_BLOCS) /\ L \in AtMost(kills)
        BY <2>1, <2>3, <3>1, <3>2
      <3>4. Makes(v, r, i, k, L)
        BY ONLY <3>3, MakesEntry
      <3> QED
        BY <3>2, <3>4 DEF Makes
    <2> QED
      BY <2>2, <2>3
  <1> QED
    BY <1>2, <1>3

(* vbloc_of_fbloc, on a disk in order.                                     *)
LEMMA Looks ==
    ASSUME NEW m, NEW L, On(m, L), NEW i \in InodesOf(m.disk), NEW k \in Fbloc,
           NEW r, r = VblocOfFbloc(m, i, k)
    PROVE  /\ On(r, L) /\ r.disk = m.disk /\ r.super = m.super
           /\ r.ret = Named(m.disk, i, k) /\ r.ret \in Bloc
  <1>1. /\ m.ok /\ Sane(m.disk, m.super, L) /\ m.super # NoSuper /\ m.disk[i].kind = "inode"
        /\ k \in Slot /\ Traced(m)
    BY OnIs, SlotIs
  <1>2. Readable(m.disk, i) /\ Named(m.disk, i, k) \in Bloc
    <2> DEFINE d == m.disk
               s == m.super
    <2>1. Sane(d, s, L) /\ i \in InodesOf(d) /\ k \in Slot
      BY <1>1
    <2> HIDE DEF d, s
    <2>2. Readable(d, i) /\ Named(d, i, k) \in Bloc
      BY ONLY <2>1, InodeIn
    <2> QED
      BY <2>2 DEF d
  <1> DEFINE t == m.disk[i].indirect
             b == Named(m.disk, i, k)
             Does(v) == /\ On(v, L) /\ v.disk = m.disk /\ v.super = m.super /\ v.ret = b
  <1>3. ASSUME NEW v, On(v, L), v.disk = m.disk, v.super = m.super
        PROVE  Does(Return(v, b))
    BY <1>3, TracedReturn DEF On
  <1>4. Does(r)
    <2> HIDE DEF Does
    <2>1. CASE k \in Index
      <3>1. k < NB_BLOCS
        BY <2>1, SlotIs
      <3>2. r = Direct(m, i, k, FALSE)
        BY <1>1, <3>1 DEF VblocOfFbloc, AuxVblocOfFbloc
      <3>3. b = m.disk[i].direct[k]
        BY <2>1, NamedIs
      <3>4. r = Return(m, b)
        BY <3>2, <3>3 DEF Direct
      <3> QED
        BY <1>3, <3>4
    <2>2. CASE k \notin Index
      <3>1. k < 2 * NB_BLOCS /\ ~(k < NB_BLOCS) /\ k \in Fbloc \ Index
        BY <2>2 DEF Fbloc, Index
      <3>2. r = Indirect(m, i, k, FALSE)
        BY <1>1, <3>1 DEF VblocOfFbloc, AuxVblocOfFbloc
      <3>3. CASE t = NULL_BLOC
        <4>1. b = NULL_BLOC
          BY <3>1, <3>3, NamedIs
        <4>2. r = Return(m, b)
          BY <3>2, <3>3, <4>1 DEF Indirect
        <4> QED
          BY <1>3, <4>2
      <3>4. CASE t # NULL_BLOC
        <4> DEFINE v == Return(m, t)
        <4>1. On(v, L) /\ v.ok /\ v.disk = m.disk /\ v.super = m.super /\ v.ret = t
          BY <1>1, TracedReturn DEF On
        <4>2. IsTable(m.disk[t]) /\ b = Entries(m.disk[t])[k - NB_BLOCS]
          BY <1>2, <3>1, <3>4, NamedIs DEF Readable
        <4>3. r = LookEntry(v, k - NB_BLOCS)
          BY <3>2, <3>4 DEF Indirect, LookEntry
        <4> HIDE DEF v, b
        <4>4. r = Return(v, b)
          BY <4>1, <4>2, <4>3 DEF LookEntry, IndirectEntry
        <4> QED
          BY <1>3, <4>1, <4>4
      <3> QED
        BY <3>3, <3>4
    <2> QED
      BY <2>1, <2>2
  <1> QED
    BY <1>2, <1>4

-----------------------------------------------------------------------------
(* A directory that is open.                                               *)

Descs == DescriptorsOf(Near, 0 .. NB_BLOCS + 1, [0 .. SECTOR - 1 -> Halves])

\* A descriptor whose sector may be written where it is: its numbers are those of
\* inodes, and behind sector 0 it is a sector that inode i names.
Shows(d, i, e) ==
    /\ e \in Descs
    /\ HoldsEntries(e.file_buffer, PositionToFbloc(e.cursor), InodesOf(d))
    /\ PositionToFbloc(e.cursor) = 0 \/ Named(d, i, PositionToFbloc(e.cursor)) # NULL_BLOC

\* Directory i is open in the descriptor of u.
Uses(u, i, L) ==
    /\ On(u.machine, L) /\ i \in InodesOf(u.machine.disk)
    /\ Shows(u.machine.disk, i, u.descriptor)

(* The fields of such a descriptor, and the sectors it may go to.          *)
LEMMA ShowsIs ==
    ASSUME Roomy, NEW d, NEW i, NEW e, Shows(d, i, e)
    PROVE  /\ e \in Descs /\ e.cursor \in Near /\ e.cursor \in Nat
           /\ e.size \in Nat /\ e.size <= NB_BLOCS + 1
           /\ e.file_buffer \in [0 .. SECTOR - 1 -> Halves] /\ e.modified \in BOOLEAN
           /\ PositionToFbloc(e.cursor) \in Fbloc
           /\ PositionToFbloc(e.cursor) <= NB_BLOCS \/ d[i].indirect # NULL_BLOC
  <1> DEFINE k == PositionToFbloc(e.cursor)
  <1>1. /\ e \in Descs /\ e.cursor \in Near /\ e.size \in 0 .. NB_BLOCS + 1
        /\ e.file_buffer \in [0 .. SECTOR - 1 -> Halves] /\ e.modified \in BOOLEAN
    BY DEF Shows, Descs, DescriptorsOf
  <1>2. e.cursor \in Nat
    BY <1>1 DEF Near
  <1>3. k \in Fbloc
    BY <1>1, <1>2, NearIs
  <1>4. k <= NB_BLOCS \/ d[i].indirect # NULL_BLOC
    <2>1. k = 0 \/ Named(d, i, k) # NULL_BLOC
      BY DEF Shows
    <2> HIDE DEF k
    <2>2. CASE k \in Index
      BY <2>2, SlotIs
    <2>3. CASE k \notin Index
      BY <1>3, <2>1, <2>3, NamedIs, SlotIs DEF Index
    <2> QED
      BY <2>2, <2>3
  <1> QED
    BY <1>1, <1>2, <1>3, <1>4

(* The sector of the next octet is the next sector at most.                *)
LEMMA NextSector ==
    ASSUME NEW p \in Nat, NEW q \in Nat, p <= q + 1
    PROVE  PositionToFbloc(p) <= PositionToFbloc(q) + 1
  <1> DEFINE n == PositionToFbloc(q)
  <1>1. n \in Nat /\ PositionToFbloc(p) \in Nat
    BY PositionIs
  <1> HIDE DEF n
  <1>2. q < (n + 1) * SECTOR
    <2>1. n + 1 \in Nat
      BY <1>1
    <2> QED
      BY <1>1, <2>1, SectorBelow DEF n
  <1>3. (n + 2) * SECTOR = (n + 1) * SECTOR + SECTOR /\ (n + 1) * SECTOR \in Nat
    BY <1>1
  <1>4. p < (n + 2) * SECTOR
    BY <1>2, <1>3
  <1>5. PositionToFbloc(p) < n + 2
    <2>1. n + 2 \in Nat
      BY <1>1
    <2> QED
      BY <1>4, <2>1, SectorBelow
  <1> QED
    BY <1>1, <1>5 DEF n

(* The sector of a descriptor is written back.                             *)
LEMMA FlushMakes ==
    ASSUME Roomy, NEW m, NEW L \in AtMost(kills), NEW i, NEW e,
           On(m, L), i \in InodesOf(m.disk), Shows(m.disk, i, e), NEW r, r = FlushIfile(m, i, e)
    PROVE  Halts(r) \/ (On(r, L) /\ Follows(m.disk, r.disk))
  <1> DEFINE k == PositionToFbloc(e.cursor)
             o == e.file_buffer
             v == AllocateVblocOfFbloc(m, i, k)
             c == Data(o)
  <1>1. /\ k \in Fbloc /\ (k <= NB_BLOCS \/ m.disk[i].indirect # NULL_BLOC)
        /\ e.modified \in BOOLEAN /\ HoldsEntries(o, k, InodesOf(m.disk))
    <2>1. HoldsEntries(o, k, InodesOf(m.disk))
      BY DEF Shows
    <2> DEFINE d == m.disk
    <2>2. Roomy /\ Shows(d, i, e)
      OBVIOUS
    <2> HIDE DEF d
    <2>3. /\ PositionToFbloc(e.cursor) \in Fbloc /\ e.modified \in BOOLEAN
          /\ PositionToFbloc(e.cursor) <= NB_BLOCS \/ d[i].indirect # NULL_BLOC
      BY ONLY <2>2, ShowsIs
    <2> QED
      BY ONLY <2>1, <2>3 DEF d
  <1>2. CASE ~e.modified
    <2>1. r = m
      BY <1>2 DEF FlushIfile
    <2> QED
      BY <2>1 DEF Follows
  <1>3. CASE e.modified
    <2>1. r = WriteFound(v, c)
      BY <1>3 DEF FlushIfile
    <2>2. Makes(m, v, i, k, L)
      <3> HIDE DEF k
      <3> QED
        BY <1>1, AllocateMakes
    <2>3. FileBloc(c, k, InodesOf(m.disk)) /\ c \in Contents
      BY <1>1, DataHolds
    <2> HIDE DEF v, c, k
    <2>4. CASE Halts(v)
      <3>1. r = v
        BY <2>1, <2>4, HaltsOn DEF WriteFound
      <3> QED
        BY <2>4, <3>1
    <2>5. CASE ~Halts(v)
      <3>1. /\ On(v, L) /\ Follows(m.disk, v.disk) /\ v.ret \in Bloc
            /\ v.ret # NULL_BLOC => v.ret = Named(v.disk, i, k)
            /\ v.ret = NULL_BLOC => v.super.nb_free_blc = 0
        BY <2>2, <2>5 DEF Makes
      <3>2. i \in InodesOf(v.disk) /\ InodesOf(m.disk) \subseteq InodesOf(v.disk)
        BY <3>1 DEF Follows
      <3>3. FileBloc(c, k, InodesOf(v.disk))
        BY <2>3, <3>2, MoreInodes
      <3>4. On(r, L) /\ Follows(v.disk, r.disk)
        <4>1. /\ L \in AtMost(kills) /\ On(v, L) /\ i \in InodesOf(v.disk) /\ k \in Fbloc /\ v.ret \in Bloc
              /\ (v.ret # NULL_BLOC => v.ret = Named(v.disk, i, k))
              /\ (v.ret = NULL_BLOC => v.super.nb_free_blc = 0)
              /\ c \in Contents /\ FileBloc(c, k, InodesOf(v.disk)) /\ r = WriteFound(v, c)
          BY <1>1, <2>1, <2>3, <3>1, <3>2, <3>3
        <4> QED
          BY ONLY <4>1, Written
      <3> QED
        BY <3>1, <3>4, FollowsOn
    <2> QED
      BY <2>4, <2>5
  <1> QED
    BY <1>1, <1>2, <1>3

(* A call that was stopped leaves all descriptors as they are.             *)
LEMMA HaltsFlush ==
    ASSUME NEW m, Halts(m), NEW i, NEW e
    PROVE  Halts(FlushIfile(m, i, e))
  <1> DEFINE v == AllocateVblocOfFbloc(m, i, PositionToFbloc(e.cursor))
  <1>1. Halts(v)
    <2>1. v = Stopped(m)
      BY DEF AllocateVblocOfFbloc, AuxVblocOfFbloc, Halts
    <2> QED
      BY <2>1, HaltsOn
  <1> HIDE DEF v
  <1>2. WriteFound(v, Data(e.file_buffer)) = v
    BY <1>1, HaltsOn DEF WriteFound
  <1> QED
    BY <1>1, <1>2 DEF FlushIfile, v

(* What seek_ifile does, to a place that is no more than one octet on.     *)
Goes(m, u, i, e, p, L) ==
    \/ Halts(u.machine)
    \/ /\ Uses(u, i, L) /\ Follows(m.disk, u.machine.disk)
       /\ u.descriptor.cursor = p /\ u.descriptor.size = e.size
       /\ InSector(e, p) => u.descriptor.file_buffer = e.file_buffer

(* A seek after the program was killed or stopped changes nothing.         *)
LEMMA SeekHalts ==
    ASSUME NEW m, Halts(m), NEW i, NEW e, NEW p
    PROVE  Halts(SeekIfile(m, i, e, p).machine)
  <1> DEFINE f == FlushIfile(m, i, e)
             v == AllocateVblocOfFbloc(f, i, PositionToFbloc(p))
  <1>1. Halts(f)
    BY HaltsFlush
  <1> HIDE DEF f
  <1>2. Halts(v)
    <2>1. v = Stopped(f)
      BY <1>1 DEF AllocateVblocOfFbloc, AuxVblocOfFbloc, Halts
    <2> QED
      BY <1>1, <2>1, HaltsOn
  <1>3. SeekIfile(m, i, e, p) = IF InSector(e, p) THEN Using(m, [e EXCEPT !.cursor = p])
                                ELSE MoveTo(v, e, p)
    BY DEF SeekIfile, f
  <1> HIDE DEF v
  <1>4. Halts(Stopped(v))
    BY <1>2, HaltsOn
  <1> QED
    BY <1>2, <1>3, <1>4 DEF MoveTo, Using

(* A seek flushes the buffer and brings in the bloc of the new place.      *)
LEMMA SeekGoes ==
    ASSUME Roomy, NEW m, NEW L \in AtMost(kills), NEW i, NEW e,
           On(m, L), i \in InodesOf(m.disk), Shows(m.disk, i, e),
           NEW p \in Near, p <= e.cursor + 1, NEW u, u = SeekIfile(m, i, e, p)
    PROVE  Goes(m, u, i, e, p, L)
  <1> DEFINE q == e.cursor
             k == PositionToFbloc(p)
             f == FlushIfile(m, i, e)
             v == AllocateVblocOfFbloc(f, i, k)
  <1>1. /\ e \in Descs /\ q \in Near /\ q \in Nat /\ p \in Nat
        /\ PositionToFbloc(q) \in Fbloc /\ k \in Fbloc /\ k \in Nat
    BY ShowsIs, NearIs DEF Near, Fbloc
  <1>2. CASE InSector(e, p)
    <2>1. u = Using(m, MovedIn(e, p))
      BY <1>2 DEF SeekIfile, MovedIn
    <2>2. /\ MovedIn(e, p) \in Descs /\ MovedIn(e, p).cursor = p /\ MovedIn(e, p).size = e.size
          /\ MovedIn(e, p).file_buffer = e.file_buffer
      BY <1>1, MovedInIs DEF Descs
    <2> DEFINE e2 == MovedIn(e, p)
    <2> HIDE DEF e2
    <2>3. u.machine = m /\ u.descriptor = e2
      BY <2>1 DEF Using, e2
    <2>4. Shows(m.disk, i, e2)
      BY <1>2, <2>2 DEF Shows, InSector, e2
    <2> QED
      BY <2>2, <2>3, <2>4 DEF Goes, Uses, Follows, e2
  <1>3. CASE ~InSector(e, p)
    <2>1. u = MoveTo(v, e, p)
      BY <1>3 DEF SeekIfile
    <2>2. Halts(f) \/ (On(f, L) /\ Follows(m.disk, f.disk))
      BY FlushMakes
    <2> HIDE DEF f
    <2>3. CASE Halts(f)
      <3>1. v = Stopped(f)
        BY <2>3 DEF AllocateVblocOfFbloc, AuxVblocOfFbloc, Halts
      <3>2. Halts(v) /\ Halts(Stopped(v))
        BY <2>3, <3>1, HaltsOn
      <3> HIDE DEF v
      <3> QED
        BY <2>1, <3>2 DEF MoveTo, Using, Goes
    <2>4. CASE ~Halts(f)
      <3>1. /\ On(f, L) /\ Follows(m.disk, f.disk) /\ i \in InodesOf(f.disk)
            /\ k <= NB_BLOCS \/ f.disk[i].indirect # NULL_BLOC
        <4>1. On(f, L) /\ Follows(m.disk, f.disk) /\ i \in InodesOf(f.disk)
          BY <2>2, <2>4 DEF Follows
        <4> DEFINE n == PositionToFbloc(q)
        <4>2. k <= n + 1
          BY <1>1, NextSector
        <4>3. n = 0 \/ Named(m.disk, i, n) # NULL_BLOC
          BY DEF Shows
        <4>4. n \in Fbloc /\ n \in Slot
          BY <1>1, SlotIs
        <4> HIDE DEF n, k
        <4>5. CASE n \in Index
          BY <1>1, <4>1, <4>2, <4>5 DEF Index
        <4>6. CASE n \notin Index
          <5>1. n \in Fbloc \ Index /\ n # 0
            BY <4>4, <4>6, SlotIs DEF Index
          <5>2. Named(f.disk, i, n) # NULL_BLOC
            BY <4>1, <4>3, <4>4, <5>1 DEF Follows
          <5>3. f.disk[i].indirect # NULL_BLOC
            BY <5>1, <5>2, NamedIs
          <5> QED
            BY <4>1, <5>3
        <4> QED
          BY <4>5, <4>6
      <3>2. Makes(f, v, i, k, L)
        <4> HIDE DEF k
        <4> QED
          BY <1>1, <3>1, AllocateMakes
      <3> HIDE DEF v
      <3>3. CASE Halts(v)
        <4>1. Halts(Stopped(v))
          BY <3>3, HaltsOn
        <4> QED
          BY <2>1, <3>3, <4>1 DEF MoveTo, Using, Goes
      <3>4. CASE ~Halts(v)
        <4>1. /\ On(v, L) /\ Follows(f.disk, v.disk) /\ v.ret \in Bloc
              /\ v.ret # NULL_BLOC => v.ret = Named(v.disk, i, k)
          BY <3>2, <3>4 DEF Makes
        <4>2. CASE v.ret = NULL_BLOC
          <5>1. u.machine = Stopped(v)
            BY <2>1, <4>2 DEF MoveTo, Using
          <5>2. Halts(Stopped(v))
            BY <4>1, TracedStopped DEF On
          <5> QED
            BY <5>1, <5>2 DEF Goes
        <4>3. CASE v.ret # NULL_BLOC
          <5> DEFINE o == Octets(v.disk[v.ret])
                     e2 == Moved(e, p, o)
          <5>1. u.machine = v /\ u.descriptor = e2
            BY <2>1, <4>3 DEF MoveTo, Using, OctetsFound, Moved
          <5>2. i \in InodesOf(v.disk) /\ Follows(m.disk, v.disk)
            BY <3>1, <4>1, FollowsOn DEF Follows
          <5>3. HoldsEntries(o, k, InodesOf(v.disk))
            <6> DEFINE d == v.disk
                       s == v.super
            <6>1. Sane(d, s, L) /\ i \in InodesOf(d)
              BY <4>1, <5>2 DEF On
            <6> HIDE DEF d, s
            <6>2. \A l \in Fbloc : Named(d, i, l) # NULL_BLOC => FileBloc(d[Named(d, i, l)], l, InodesOf(d))
              BY ONLY <6>1, InodeIn
            <6> HIDE DEF k
            <6> QED
              BY <1>1, <4>1, <4>3, <6>2 DEF FileBloc, d
          <5>4. o \in [0 .. SECTOR - 1 -> Halves]
            BY <5>3 DEF HoldsEntries
          <5> HIDE DEF o
          <5>5. e2 \in Descs /\ e2.cursor = p /\ e2.size = e.size /\ e2.file_buffer = o
            BY <1>1, <5>4, MovedIs DEF Descs
          <5> HIDE DEF e2
          <5>6. Shows(v.disk, i, e2)
            BY <4>1, <4>3, <5>3, <5>5 DEF Shows
          <5> QED
            BY <1>3, <4>1, <5>1, <5>2, <5>5, <5>6 DEF Goes, Uses
        <4> QED
          BY <4>2, <4>3
      <3> QED
        BY <3>3, <3>4
    <2> QED
      BY <2>3, <2>4
  <1> QED
    BY <1>2, <1>3

(* A directory is opened.                                                  *)
LEMMA OpenUses ==
    ASSUME Roomy, NEW m, NEW L, On(m, L), NEW i \in InodesOf(m.disk), NEW u, u = OpenIfile(m, i)
    PROVE  /\ Uses(u, i, L) /\ u.machine.disk = m.disk /\ u.machine.super = m.super
           /\ u.descriptor.cursor = 0
  <1> DEFINE v == VblocOfFbloc(m, i, 0)
             o == OctetsFound(v)
             e == Descriptor(v.disk[i].taille, o)
  <1>1. 0 \in Fbloc /\ 0 \in Near /\ PositionToFbloc(0) = 0
    BY NearIs DEF Fbloc, PositionToFbloc
  <1>2. /\ On(v, L) /\ v.disk = m.disk /\ v.super = m.super
        /\ v.ret = Named(m.disk, i, 0) /\ v.ret \in Bloc
    BY <1>1, Looks
  <1>3. v.ok
    BY <1>2, OnIs
  <1>4. u = Using(v, e)
    BY <1>3 DEF OpenIfile, OnceFound
  <1> HIDE DEF v
  <1>5. HoldsEntries(o, 0, InodesOf(v.disk))
    <2>1. CASE v.ret = NULL_BLOC
      <3>1. o = Octets(Zero)
        BY <2>1, ZeroIs DEF OctetsFound
      <3>2. FileBloc(Zero, 0, InodesOf(v.disk))
        BY CleanIs
      <3> QED
        BY <3>1, <3>2 DEF FileBloc
    <2>2. CASE v.ret # NULL_BLOC
      <3> DEFINE d == v.disk
                 s == v.super
      <3>1. Sane(d, s, L) /\ i \in InodesOf(d)
        BY <1>2 DEF On
      <3> HIDE DEF d, s
      <3>2. \A l \in Fbloc : Named(d, i, l) # NULL_BLOC => FileBloc(d[Named(d, i, l)], l, InodesOf(d))
        BY ONLY <3>1, InodeIn
      <3> QED
        BY <1>1, <1>2, <2>2, <3>2 DEF FileBloc, d, OctetsFound
    <2> QED
      BY <2>1, <2>2
  <1>6. v.disk[i].taille \in 0 .. NB_BLOCS + 1
    <2> DEFINE d == v.disk
               s == v.super
    <2>1. Sane(d, s, L) /\ i \in InodesOf(d)
      BY <1>2 DEF On
    <2> HIDE DEF d, s
    <2>2. d[i].taille \in Nat /\ d[i].taille <= NB_BLOCS + 1
      BY ONLY <2>1, InodeIn
    <2> QED
      BY <2>2 DEF d
  <1>7. e \in Descs /\ e.cursor = 0 /\ e.file_buffer = o
    <2>1. o \in [0 .. SECTOR - 1 -> Halves]
      BY <1>5 DEF HoldsEntries
    <2> DEFINE n == v.disk[i].taille
               P == Near
               N == 0 .. NB_BLOCS + 1
               O == [0 .. SECTOR - 1 -> Halves]
    <2>2. e = Descriptor(n, o) /\ n \in N /\ o \in O /\ 0 \in P
      BY <1>1, <1>6, <2>1
    <2> HIDE DEF o, n, e, P, N, O
    <2>3. e \in DescriptorsOf(P, N, O) /\ e.cursor = 0 /\ e.file_buffer = o
      BY ONLY <2>2, DescriptorIs
    <2> QED
      BY ONLY <2>3 DEF Descs, P, N, O
  <1> HIDE DEF o, e
  <1>8. Shows(v.disk, i, e)
    BY <1>1, <1>5, <1>7 DEF Shows
  <1> QED
    BY <1>2, <1>4, <1>7, <1>8 DEF Uses, Using

(* An octet is written.                                                    *)
LEMMA WritecGoes ==
    ASSUME Roomy, NEW m, NEW L \in AtMost(kills), NEW i, NEW e,
           On(m, L), i \in InodesOf(m.disk), Shows(m.disk, i, e), e.cursor + 1 \in Near,
           NEW c, NEW o, o = WithOctet(e, c),
           HoldsEntries(o, PositionToFbloc(e.cursor), InodesOf(m.disk)),
           NEW u, u = WritecIfile(m, i, e, c)
    PROVE  \/ Halts(u.machine)
           \/ /\ Uses(u, i, L) /\ Follows(m.disk, u.machine.disk)
              /\ u.descriptor.cursor = e.cursor + 1 /\ u.descriptor.size = e.size
              /\ InSector(e, e.cursor + 1) => u.descriptor.file_buffer = o
  <1> DEFINE e2 == Modified(e, o)
             p == e.cursor + 1
  <1>1. e \in Descs /\ o \in [0 .. SECTOR - 1 -> Halves]
    BY DEF Shows, HoldsEntries
  <1>2. u = SeekIfile(m, i, e2, p)
    BY <1>1, WritecIs DEF Descs
  <1>3. e2 \in Descs /\ e2.cursor = e.cursor /\ e2.file_buffer = o /\ e2.size = e.size
    BY <1>1, ModifiedIs DEF Descs
  <1> HIDE DEF e2
  <1>4. Shows(m.disk, i, e2)
    BY <1>3 DEF Shows
  <1>5. Goes(m, u, i, e2, p, L)
    <2>1. /\ Roomy /\ L \in AtMost(kills) /\ On(m, L) /\ i \in InodesOf(m.disk) /\ Shows(m.disk, i, e2)
          /\ p \in Near /\ p <= e2.cursor + 1 /\ u = SeekIfile(m, i, e2, p)
      BY <1>2, <1>3, <1>4 DEF Near
    <2> QED
      BY ONLY <2>1, SeekGoes
  <1>6. InSector(e, p) = InSector(e2, p)
    BY <1>3 DEF InSector
  <1> QED
    BY <1>3, <1>5, <1>6 DEF Goes

(* An octet written after the program was killed or stopped is not.       *)
LEMMA WritecHalts ==
    ASSUME NEW m, Halts(m), NEW i, NEW e, NEW c
    PROVE  Halts(WritecIfile(m, i, e, c).machine)
  BY SeekHalts DEF WritecIfile, Advance

\* Octet p is octet x of file bloc k.
Place(p, k, x) == k \in Nat /\ x \in 0 .. SECTOR - 1 /\ p = k * SECTOR + x

(* Where an octet lies.                                                    *)
LEMMA PlaceIs ==
    ASSUME NEW p \in Nat
    PROVE  Place(p, PositionToFbloc(p), p % SECTOR)
  <1> DEFINE k == PositionToFbloc(p)
             x == p % SECTOR
  <1>1. k \in Nat /\ x \in 0 .. SECTOR - 1 /\ p = SECTOR * k + x
    BY DEF PositionToFbloc
  <1> HIDE DEF k, x
  <1>2. Place(p, k, x)
    BY <1>1 DEF Place
  <1> QED
    BY <1>2 DEF k, x

(* An octet lies in one file bloc, at one place.                           *)
LEMMA Division ==
    ASSUME NEW p \in Nat, NEW k, NEW x, Place(p, k, x)
    PROVE  PositionToFbloc(p) = k /\ (p % SECTOR) = x
  <1> DEFINE n == PositionToFbloc(p)
             y == p % SECTOR
  <1>0. Place(p, n, y)
    BY PlaceIs
  <1> HIDE DEF n, y
  <1>1. n \in Nat /\ y \in 0 .. SECTOR - 1 /\ p = n * SECTOR + y
    BY <1>0 DEF Place
  <1>2. k \in Nat /\ x \in 0 .. SECTOR - 1 /\ p = k * SECTOR + x
    BY DEF Place
  <1>3. (k + 1) * SECTOR = k * SECTOR + SECTOR /\ k * SECTOR \in Nat /\ k + 1 \in Nat
    BY <1>2
  <1>4. p < (k + 1) * SECTOR /\ ~(p < k * SECTOR)
    BY <1>2, <1>3
  <1>5. n < k + 1 /\ ~(n < k)
    BY <1>2, <1>3, <1>4, SectorBelow DEF n
  <1>6. n = k
    BY <1>1, <1>2, <1>5
  <1>7. y = x
    BY <1>1, <1>2, <1>6
  <1> QED
    BY <1>6, <1>7 DEF n, y

(* The octet behind the first of a sector is in the same sector.           *)
LEMMA SectorStart ==
    ASSUME Roomy, NEW p \in Nat, NEW n \in {1, 2}
    PROVE  /\ (p % SECTOR) = 0 =>
                ((p + n) % SECTOR) = n /\ PositionToFbloc(p + n) = PositionToFbloc(p)
           /\ ((p + 1) % SECTOR) = 1 => (p % SECTOR) = 0
  <1> DEFINE k == PositionToFbloc(p)
             x == p % SECTOR
             l == PositionToFbloc(p + 1)
             y == (p + 1) % SECTOR
  <1>1. Place(p, k, x)
    BY PlaceIs
  <1>2. Place(p + 1, l, y)
    <2>1. p + 1 \in Nat
      OBVIOUS
    <2> QED
      BY <2>1, PlaceIs
  <1>3. SECTOR > 2
    BY DEF Roomy, ENTRY
  <1> HIDE DEF k, x, l, y
  <1>4. ASSUME x = 0
        PROVE  PositionToFbloc(p + n) = k /\ ((p + n) % SECTOR) = n
    <2>1. Place(p + n, k, n) /\ p + n \in Nat
      BY <1>1, <1>3, <1>4 DEF Place
    <2> QED
      BY <2>1, Division
  <1>5. ASSUME y = 1
        PROVE  x = 0
    <2>1. Place(p, l, 0)
      BY <1>2, <1>3, <1>5 DEF Place
    <2> QED
      BY <2>1, Division DEF x
  <1> QED
    BY <1>4, <1>5 DEF k, x, y

(* A number is written, then a name.                                       *)
LEMMA NumberFits ==
    ASSUME Roomy, NEW o, NEW k, NEW I, I \subseteq Bloc, HoldsEntries(o, k, I),
           NEW p \in Near, PositionToFbloc(p) = k, p % ENTRY = 0, NEW n \in I \cup {NULL_BLOC}
    PROVE  HoldsEntries([o EXCEPT ![p % SECTOR] = n], k, I)
  <1> DEFINE x == p % SECTOR
             o2 == [o EXCEPT ![x] = n]
  <1>1. /\ o \in [0 .. SECTOR - 1 -> Halves] /\ p \in Nat /\ x \in 0 .. SECTOR - 1
        /\ n \in Halves /\ 0 \in 0 .. SECTOR - 1 /\ 1 \in 0 .. SECTOR - 1
    <2>1. o \in [0 .. SECTOR - 1 -> Halves] /\ p \in Nat /\ n \in Halves
      BY DEF HoldsEntries, Near, Halves, Bloc, NULL_BLOC
    <2>2. x \in 0 .. SECTOR - 1
      BY <2>1, PlaceIs DEF Place
    <2>3. 0 \in 0 .. SECTOR - 1 /\ 1 \in 0 .. SECTOR - 1
      BY DEF Roomy, ENTRY
    <2> QED
      BY ONLY <2>1, <2>2, <2>3
  <1>2. o2 \in [0 .. SECTOR - 1 -> Halves]
    BY <1>1
  <1>3. o2[x] = n /\ \A y \in 0 .. SECTOR - 1 : y # x => o2[y] = o[y]
    BY <1>1
  <1>4. ASSUME NEW q \in Near, PositionToFbloc(q) = k, q % ENTRY = 0
        PROVE  \/ o2[q % SECTOR] \in I \cup {NULL_BLOC}
               \/ q % SECTOR = 0 /\ o2[0] = HEADER /\ o2[1] = EMPTY
    <2>1. q \in Nat /\ (q % SECTOR) \in 0 .. SECTOR - 1
      <3>1. q \in Nat
        BY DEF Near
      <3> QED
        BY <3>1, PlaceIs DEF Place
    <2>2. CASE (q % SECTOR) = x
      BY <1>3, <2>2
    <2>3. CASE (q % SECTOR) # x
      <3>1. \/ o[q % SECTOR] \in I \cup {NULL_BLOC}
            \/ q % SECTOR = 0 /\ o[0] = HEADER /\ o[1] = EMPTY
        BY <1>4 DEF HoldsEntries
      <3>2. o2[q % SECTOR] = o[q % SECTOR]
        <4> HIDE DEF o2, x
        <4> QED
          BY <1>3, <2>1, <2>3
      <3>3. (q % SECTOR) = 0 => x # 1
        <4>1. ASSUME (q % SECTOR) = 0, x = 1
              PROVE  FALSE
          <5>1. (q + 1) % SECTOR = 1 /\ PositionToFbloc(q + 1) = k
            BY <1>4, <2>1, <4>1, SectorStart
          <5>2. q + 1 \in Nat
            BY <2>1
          <5>3. q + 1 = p
            BY <1>1, <4>1, <5>1, <5>2, SamePosition
          <5> QED
            BY <1>1, <1>4, <2>1, <5>3 DEF ENTRY
        <4> QED
          BY <4>1
      <3> HIDE DEF o2, x
      <3>4. (q % SECTOR) = 0 => o2[0] = o[0] /\ o2[1] = o[1]
        BY <1>1, <1>3, <2>3, <3>3
      <3> QED
        BY <3>1, <3>2, <3>4
    <2> QED
      BY <2>2, <2>3
  <1> HIDE DEF o2
  <1>5. HoldsEntries(o2, k, I)
    BY <1>2, <1>4 DEF HoldsEntries
  <1> QED
    BY <1>5 DEF o2

(* A name written into a bloc of entries leaves it one, but over a header. *)
LEMMA NameFits ==
    ASSUME Roomy, NEW o, NEW k, NEW I, HoldsEntries(o, k, I),
           NEW p \in Near, PositionToFbloc(p) = k, p % ENTRY = 1, NEW n \in Halves,
           (p % SECTOR) = 1 => o[0] # HEADER
    PROVE  HoldsEntries([o EXCEPT ![p % SECTOR] = n], k, I)
  <1> DEFINE x == p % SECTOR
             o2 == [o EXCEPT ![x] = n]
  <1>1. /\ o \in [0 .. SECTOR - 1 -> Halves] /\ p \in Nat /\ x \in 0 .. SECTOR - 1
        /\ 0 \in 0 .. SECTOR - 1 /\ 1 \in 0 .. SECTOR - 1
    <2>1. o \in [0 .. SECTOR - 1 -> Halves] /\ p \in Nat
      BY DEF HoldsEntries, Near
    <2>2. x \in 0 .. SECTOR - 1
      BY <2>1, PlaceIs DEF Place
    <2>3. 0 \in 0 .. SECTOR - 1 /\ 1 \in 0 .. SECTOR - 1
      BY DEF Roomy, ENTRY
    <2> QED
      BY ONLY <2>1, <2>2, <2>3
  <1>2. o2 \in [0 .. SECTOR - 1 -> Halves]
    BY <1>1
  <1>3. \A y \in 0 .. SECTOR - 1 : y # x => o2[y] = o[y]
    BY <1>1
  <1>4. ASSUME NEW q \in Near, PositionToFbloc(q) = k, q % ENTRY = 0
        PROVE  \/ o2[q % SECTOR] \in I \cup {NULL_BLOC}
               \/ q % SECTOR = 0 /\ o2[0] = HEADER /\ o2[1] = EMPTY
    <2>1. q \in Nat /\ (q % SECTOR) \in 0 .. SECTOR - 1
      <3>1. q \in Nat
        BY DEF Near
      <3> QED
        BY <3>1, PlaceIs DEF Place
    <2>2. (q % SECTOR) # x
      <3>1. p # q
        BY <1>1, <1>4, <2>1 DEF ENTRY
      <3> QED
        BY <1>1, <1>4, <2>1, <3>1, SamePosition
    <2>3. \/ o[q % SECTOR] \in I \cup {NULL_BLOC}
          \/ q % SECTOR = 0 /\ o[0] = HEADER /\ o[1] = EMPTY
      BY <1>4 DEF HoldsEntries
    <2> HIDE DEF o2, x
    <2>4. o2[q % SECTOR] = o[q % SECTOR]
      BY <1>3, <2>1, <2>2
    <2>5. (q % SECTOR) = 0 /\ o[0] = HEADER => o2[0] = o[0] /\ o2[1] = o[1]
      <3>1. o[0] = HEADER => x # 1
        BY DEF x
      <3> QED
        BY <1>1, <1>3, <2>2, <3>1
    <2> QED
      BY <2>3, <2>4, <2>5
  <1> HIDE DEF o2
  <1>5. HoldsEntries(o2, k, I)
    BY <1>2, <1>4 DEF HoldsEntries
  <1> QED
    BY <1>5 DEF o2

\* writec_ifile, one octet of a row.
Wrote(v, i, c) == WritecIfile(v.machine, i, v.descriptor, c)

(* write_ifile of an entry is two octets written.                          *)
LEMMA WriteComputes ==
    ASSUME NEW u, NEW i, NEW a, NEW b
    PROVE  WriteIfile(u, i, <<a, b>>) = Wrote(Wrote(u, i, a), i, b)
  <1> DEFINE o == <<a, b>>
             Row(g) == g = [k \in 0 .. 2 |-> IF k = 0 THEN u ELSE Wrote(g[k - 1], i, o[k])]
             h == [k \in 0 .. 2 |-> IF k = 0 THEN u ELSE IF k = 1 THEN Wrote(u, i, a)
                                    ELSE Wrote(Wrote(u, i, a), i, b)]
             wrote[k \in 0 .. Len(o)] ==
               IF k = 0 THEN u ELSE WritecIfile(wrote[k - 1].machine, i, wrote[k - 1].descriptor, o[k])
  <1>1. Len(o) = 2 /\ o[1] = a /\ o[2] = b
    OBVIOUS
  <1>2. WriteIfile(u, i, o) = wrote[Len(o)]
    BY DEF WriteIfile
  <1>3. wrote = CHOOSE g : g = [k \in 0 .. Len(o) |->
                   IF k = 0 THEN u ELSE WritecIfile(g[k - 1].machine, i, g[k - 1].descriptor, o[k])]
    OBVIOUS
  <1> HIDE DEF o
  <1>4. wrote = CHOOSE g : Row(g)
    BY <1>1, <1>3 DEF Wrote
  <1> HIDE DEF wrote
  <1>5. Row(h)
    <2>1. 0 \in 0 .. 2 /\ 1 \in 0 .. 2 /\ 2 \in 0 .. 2 /\ \A k \in 0 .. 2 : k = 0 \/ k = 1 \/ k = 2
      OBVIOUS
    <2>2. h[0] = u /\ h[1] = Wrote(u, i, a) /\ h[2] = Wrote(Wrote(u, i, a), i, b)
      BY <2>1
    <2>3. ASSUME NEW k \in 0 .. 2
          PROVE  h[k] = IF k = 0 THEN u ELSE Wrote(h[k - 1], i, o[k])
      <3> HIDE DEF h
      <3>1. CASE k = 0
        BY <2>2, <3>1
      <3>2. CASE k = 1
        <4>1. k - 1 = 0
          BY <3>2
        <4> QED
          BY <1>1, <2>2, <3>2, <4>1
      <3>3. CASE k = 2
        <4>1. k - 1 = 1
          BY <3>3
        <4> QED
          BY <1>1, <2>2, <3>3, <4>1
      <3> QED
        BY <2>1, <3>1, <3>2, <3>3
    <2> QED
      BY <2>3
  <1> HIDE DEF h
  <1>6. Row(wrote)
    <2> HIDE DEF Row
    <2> QED
      BY <1>4, <1>5
  <1>7. wrote[2] = Wrote(Wrote(u, i, a), i, b)
    <2>1. wrote[0] = u
      BY <1>6
    <2>2. wrote[1] = Wrote(u, i, a)
      <3>1. wrote[1] = Wrote(wrote[1 - 1], i, o[1])
        BY <1>6
      <3>2. 1 - 1 = 0
        OBVIOUS
      <3> QED
        BY <1>1, <2>1, <3>1, <3>2
    <2>3. wrote[2] = Wrote(wrote[2 - 1], i, o[2])
      BY <1>6
    <2>4. 2 - 1 = 1
      OBVIOUS
    <2> QED
      BY <1>1, <2>2, <2>3, <2>4
  <1> QED
    BY <1>1, <1>2, <1>7 DEF o

(* An entry is written at the place of the descriptor.                     *)
LEMMA WritesEntry ==
    ASSUME Roomy, NEW L \in AtMost(kills), NEW i, NEW u, Uses(u, i, L),
           u.descriptor.cursor % ENTRY = 0, u.descriptor.cursor + ENTRY \in Near,
           NEW n \in InodesOf(u.machine.disk) \cup {NULL_BLOC}, NEW name \in Halves,
           NEW w, w = WriteIfile(u, i, <<n, name>>)
    PROVE  Halts(w.machine) \/ (Uses(w, i, L) /\ Follows(u.machine.disk, w.machine.disk))
  <1> DEFINE m == u.machine
             e == u.descriptor
             p == e.cursor
             I == InodesOf(m.disk)
             k == PositionToFbloc(p)
             o == WithOctet(e, n)
             v == Wrote(u, i, n)
  <1>1. /\ On(m, L) /\ i \in I /\ Shows(m.disk, i, e) /\ p \in Nat /\ p \in Near /\ p + 1 \in Near
        /\ HoldsEntries(e.file_buffer, k, I) /\ e.file_buffer \in [0 .. SECTOR - 1 -> Halves]
        /\ I \subseteq Bloc
    <2>1. On(m, L) /\ i \in I /\ Shows(m.disk, i, e) /\ HoldsEntries(e.file_buffer, k, I)
      BY DEF Uses, Shows
    <2>2. e.cursor \in Nat /\ e.cursor \in Near
      <3> DEFINE d == m.disk
      <3>1. Roomy /\ Shows(d, i, e)
        BY <2>1
      <3> HIDE DEF d, e
      <3> QED
        BY ONLY <3>1, ShowsIs
    <2>3. p + 1 \in Near
      BY <2>2 DEF Near, ENTRY
    <2>4. I \subseteq Bloc
      BY DEF InodesOf, Bloc
    <2>5. e.file_buffer \in [0 .. SECTOR - 1 -> Halves]
      BY <2>1 DEF HoldsEntries
    <2> QED
      BY <2>1, <2>2, <2>3, <2>4, <2>5
  <1>2. HoldsEntries(o, k, I)
    <2>1. HoldsEntries([e.file_buffer EXCEPT ![p % SECTOR] = n], k, I)
      <3> DEFINE b == e.file_buffer
      <3>1. /\ Roomy /\ I \subseteq Bloc /\ HoldsEntries(b, k, I) /\ p \in Near /\ PositionToFbloc(p) = k
            /\ p % ENTRY = 0 /\ n \in I \cup {NULL_BLOC}
        BY <1>1
      <3> HIDE DEF I, b, k, p
      <3>2. HoldsEntries([b EXCEPT ![p % SECTOR] = n], k, I)
        BY ONLY <3>1, NumberFits
      <3> QED
        BY <3>2 DEF b
    <2> QED
      BY <2>1 DEF WithOctet
  <1>3. \/ Halts(v.machine)
        \/ /\ Uses(v, i, L) /\ Follows(m.disk, v.machine.disk)
           /\ v.descriptor.cursor = p + 1
           /\ InSector(e, p + 1) => v.descriptor.file_buffer = o
    <2>1. /\ Roomy /\ L \in AtMost(kills) /\ On(m, L) /\ i \in InodesOf(m.disk) /\ Shows(m.disk, i, e)
          /\ e.cursor + 1 \in Near /\ o = WithOctet(e, n)
          /\ HoldsEntries(o, PositionToFbloc(e.cursor), InodesOf(m.disk)) /\ v = WritecIfile(m, i, e, n)
      BY <1>1, <1>2 DEF Wrote
    <2> HIDE DEF v, o, m, e
    <2>2. \/ Halts(v.machine)
          \/ /\ Uses(v, i, L) /\ Follows(m.disk, v.machine.disk)
             /\ v.descriptor.cursor = e.cursor + 1 /\ v.descriptor.size = e.size
             /\ InSector(e, e.cursor + 1) => v.descriptor.file_buffer = o
      BY ONLY <2>1, WritecGoes
    <2> QED
      BY <2>2
  <1>4. w = WritecIfile(v.machine, i, v.descriptor, name)
    <2>1. w = Wrote(Wrote(u, i, n), i, name)
      BY WriteComputes
    <2> QED
      BY <2>1 DEF Wrote
  <1> HIDE DEF v
  <1>5. CASE Halts(v.machine)
    BY <1>4, <1>5, WritecHalts
  <1>6. CASE ~Halts(v.machine)
    <2> DEFINE m2 == v.machine
               e2 == v.descriptor
               q == e2.cursor
               o2 == WithOctet(e2, name)
    <2>1. /\ On(m2, L) /\ i \in InodesOf(m2.disk) /\ Shows(m2.disk, i, e2) /\ q = p + 1
          /\ Follows(m.disk, m2.disk) /\ (InSector(e, p + 1) => e2.file_buffer = o)
          /\ HoldsEntries(e2.file_buffer, PositionToFbloc(q), InodesOf(m2.disk))
      BY <1>3, <1>6 DEF Uses, Shows
    <2>2. q % ENTRY = 1 /\ q \in Near /\ q + 1 \in Near
      <3>1. p % 2 = 0 /\ p + 2 \in Near /\ p \in Nat /\ p \in Near /\ q = p + 1
        BY <1>1, <2>1 DEF ENTRY
      <3> HIDE DEF p, q
      <3>2. q % 2 = 1 /\ q + 1 = p + 2
        BY ONLY <3>1
      <3>3. q \in Near
        BY <3>1 DEF Near
      <3> QED
        BY <3>1, <3>2, <3>3 DEF ENTRY
    <2>3. (q % SECTOR) = 1 => e2.file_buffer[0] # HEADER
      <3>1. ASSUME (q % SECTOR) = 1
            PROVE  e2.file_buffer[0] # HEADER
        <4>1. (p % SECTOR) = 0 /\ PositionToFbloc(p + 1) = PositionToFbloc(p)
          <5>1. Roomy /\ p \in Nat /\ 1 \in {1, 2} /\ ((p + 1) % SECTOR) = 1
            BY <1>1, <2>1, <3>1
          <5> HIDE DEF p
          <5> QED
            BY ONLY <5>1, SectorStart
        <4>2. e2.file_buffer = o
          BY <2>1, <4>1 DEF InSector
        <4>3. o[0] = n
          <5>1. 0 \in 0 .. SECTOR - 1
            BY DEF Roomy, ENTRY
          <5>2. o = [e.file_buffer EXCEPT ![0] = n]
            BY <4>1 DEF WithOctet
          <5> QED
            BY <1>1, <5>1, <5>2
        <4>4. n # HEADER
          BY <1>1 DEF Bloc, HEADER, NULL_BLOC
        <4> QED
          BY <4>2, <4>3, <4>4
      <3> QED
        BY <3>1
    <2>4. HoldsEntries(o2, PositionToFbloc(q), InodesOf(m2.disk))
      <3> DEFINE b == e2.file_buffer
                 l == PositionToFbloc(q)
                 J == InodesOf(m2.disk)
      <3>1. /\ Roomy /\ HoldsEntries(b, l, J) /\ q \in Near /\ PositionToFbloc(q) = l /\ q % ENTRY = 1
            /\ name \in Halves /\ ((q % SECTOR) = 1 => b[0] # HEADER)
        BY <2>1, <2>2, <2>3
      <3> HIDE DEF b, l, J, q
      <3>2. HoldsEntries([b EXCEPT ![q % SECTOR] = name], l, J)
        BY ONLY <3>1, NameFits
      <3> QED
        BY <3>2 DEF b, WithOctet, l, q, J
    <2>5. Halts(w.machine) \/ (Uses(w, i, L) /\ Follows(m2.disk, w.machine.disk))
      <3>1. /\ Roomy /\ L \in AtMost(kills) /\ On(m2, L) /\ i \in InodesOf(m2.disk) /\ Shows(m2.disk, i, e2)
            /\ e2.cursor + 1 \in Near /\ o2 = WithOctet(e2, name)
            /\ HoldsEntries(o2, PositionToFbloc(e2.cursor), InodesOf(m2.disk))
            /\ w = WritecIfile(m2, i, e2, name)
        BY <1>4, <2>1, <2>2, <2>4
      <3> HIDE DEF o2, m2, e2
      <3> QED
        BY ONLY <3>1, WritecGoes
    <2> QED
      BY <2>1, <2>5, FollowsOn
  <1> QED
    BY <1>5, <1>6

(* An entry written after the program was killed or stopped is not.       *)
LEMMA WriteHalts ==
    ASSUME NEW u, Halts(u.machine), NEW i, NEW a, NEW b
    PROVE  Halts(WriteIfile(u, i, <<a, b>>).machine)
  <1>1. Halts(Wrote(u, i, a).machine)
    BY WritecHalts DEF Wrote
  <1>2. Halts(Wrote(Wrote(u, i, a), i, b).machine)
    BY <1>1, WritecHalts DEF Wrote
  <1> QED
    BY <1>2, WriteComputes

\* Octets o were read, and not the end of the file.
ReadSo(u, o) == [use |-> u, octets |-> o, eof |-> FALSE]

(* read_ifile of an entry is two octets read.                              *)
LEMMA ReadComputes ==
    ASSUME NEW u, NEW i
    PROVE  ReadIfile(u, i, ENTRY) = ReadOn(ReadOn(ReadSo(u, << >>), i), i)
  <1> DEFINE r0 == ReadSo(u, << >>)
             Row(g) == g = [k \in 0 .. 2 |-> IF k = 0 THEN r0 ELSE ReadOn(g[k - 1], i)]
             h == [k \in 0 .. 2 |-> IF k = 0 THEN r0 ELSE IF k = 1 THEN ReadOn(r0, i)
                                    ELSE ReadOn(ReadOn(r0, i), i)]
             read[k \in 0 .. 2] ==
               IF k = 0 THEN [use |-> u, octets |-> << >>, eof |-> FALSE] ELSE ReadOn(read[k - 1], i)
  <1>1. ReadIfile(u, i, ENTRY) = read[2]
    BY DEF ReadIfile, ENTRY
  <1>2. read = CHOOSE g : Row(g)
    BY DEF ReadSo
  <1> HIDE DEF read, r0
  <1>3. Row(h)
    <2>1. 0 \in 0 .. 2 /\ 1 \in 0 .. 2 /\ 2 \in 0 .. 2 /\ \A k \in 0 .. 2 : k = 0 \/ k = 1 \/ k = 2
      OBVIOUS
    <2>2. h[0] = r0 /\ h[1] = ReadOn(r0, i) /\ h[2] = ReadOn(ReadOn(r0, i), i)
      BY <2>1
    <2>3. ASSUME NEW k \in 0 .. 2
          PROVE  h[k] = IF k = 0 THEN r0 ELSE ReadOn(h[k - 1], i)
      <3> HIDE DEF h
      <3>1. CASE k = 0
        BY <2>2, <3>1
      <3>2. CASE k = 1
        <4>1. k - 1 = 0
          BY <3>2
        <4> QED
          BY <2>2, <3>2, <4>1
      <3>3. CASE k = 2
        <4>1. k - 1 = 1
          BY <3>3
        <4> QED
          BY <2>2, <3>3, <4>1
      <3> QED
        BY <2>1, <3>1, <3>2, <3>3
    <2> QED
      BY <2>3
  <1> HIDE DEF h
  <1>4. Row(read)
    <2> HIDE DEF Row
    <2> QED
      BY <1>2, <1>3
  <1>5. read[2] = ReadOn(ReadOn(r0, i), i)
    <2>1. read[0] = r0
      BY <1>4
    <2>2. read[1] = ReadOn(read[1 - 1], i)
      BY <1>4
    <2>3. read[2] = ReadOn(read[2 - 1], i)
      BY <1>4
    <2>4. 1 - 1 = 0 /\ 2 - 1 = 1
      OBVIOUS
    <2> QED
      BY <2>1, <2>2, <2>3, <2>4
  <1> QED
    BY <1>1, <1>5 DEF r0

(* A file ends well before its double indirect table.                      *)
LEMMA FileNear ==
    ASSUME Roomy, NEW size \in 0 .. NB_BLOCS + 1
    PROVE  size * SECTOR \in Nat /\ size * SECTOR + ENTRY \in Near
  <1>1. SECTOR \in Nat /\ SECTOR > 2 /\ NB_BLOCS \in Nat /\ NB_BLOCS > 1
    BY DEF Roomy, ENTRY
  <1>2. PICK x \in Nat : NB_BLOCS = 2 + x
    <2>1. NB_BLOCS - 2 \in Nat /\ NB_BLOCS = 2 + (NB_BLOCS - 2)
      BY <1>1
    <2> QED
      BY <2>1
  <1>3. PICK y \in Nat : 3 + x = size + y
    <2>1. 3 + x - size \in Nat /\ 3 + x = size + (3 + x - size)
      BY <1>2
    <2> QED
      BY <2>1
  <1>4. /\ size * SECTOR \in Nat /\ y * SECTOR \in Nat /\ x * SECTOR \in Nat
        /\ (size + y) * SECTOR = size * SECTOR + y * SECTOR
        /\ (3 + x) * SECTOR = 3 * SECTOR + x * SECTOR
    BY <1>1
  <1>5. 2 * NB_BLOCS * SECTOR = 4 * SECTOR + 2 * (x * SECTOR)
    BY <1>1, <1>2
  <1> DEFINE s == size * SECTOR
             z == x * SECTOR
             v == y * SECTOR
  <1>6. s + v = 3 * SECTOR + z
    BY <1>3, <1>4
  <1>7. s \in Nat /\ z \in Nat /\ v \in Nat
    BY <1>4
  <1> HIDE DEF s, z, v
  <1>8. s + 2 <= 4 * SECTOR + 2 * z - 1
    BY <1>1, <1>6, <1>7
  <1>9. s + 2 \in 0 .. 2 * NB_BLOCS * SECTOR - 1
    BY <1>1, <1>5, <1>7, <1>8 DEF z
  <1> QED
    BY <1>7, <1>9 DEF s, Near, ENTRY

\* The descriptor has not gone behind the end of the file.
Within(e) == e.cursor <= e.size * SECTOR

(* An octet is read.                                                       *)
LEMMA ReadOnGoes ==
    ASSUME Roomy, NEW L \in AtMost(kills), NEW i, NEW u, Uses(u, i, L), Within(u.descriptor),
           ~AtEnd(u.descriptor), NEW w, w = Advance(u.machine, i, u.descriptor)
    PROVE  \/ Halts(w.machine)
           \/ /\ Uses(w, i, L) /\ Follows(u.machine.disk, w.machine.disk) /\ Within(w.descriptor)
              /\ w.descriptor.cursor = u.descriptor.cursor + 1
              /\ w.descriptor.size = u.descriptor.size
              /\ InSector(u.descriptor, u.descriptor.cursor + 1) =>
                   w.descriptor.file_buffer = u.descriptor.file_buffer
  <1> DEFINE m == u.machine
             e == u.descriptor
             p == e.cursor + 1
  <1>1. On(m, L) /\ i \in InodesOf(m.disk) /\ Shows(m.disk, i, e)
    BY DEF Uses
  <1>2. e.cursor \in Nat /\ e.size \in 0 .. NB_BLOCS + 1
    <2> DEFINE d == m.disk
    <2>1. Roomy /\ Shows(d, i, e)
      BY <1>1
    <2> HIDE DEF d, e
    <2>2. e.cursor \in Nat /\ e.size \in Nat /\ e.size <= NB_BLOCS + 1
      BY ONLY <2>1, ShowsIs
    <2> QED
      BY <2>2
  <1>3. e.size * SECTOR \in Nat /\ e.size * SECTOR + ENTRY \in Near
    <2> HIDE DEF e
    <2> QED
      BY <1>2, FileNear
  <1>4. e.cursor < e.size * SECTOR
    BY <1>2, <1>3 DEF AtEnd
  <1>5. p \in Near /\ p <= e.cursor + 1 /\ p <= e.size * SECTOR
    <2> DEFINE x == e.size * SECTOR
               c == e.cursor
    <2> HIDE DEF x, c
    <2>1. c \in Nat /\ x \in Nat /\ x + 2 \in Near /\ c < x
      BY <1>2, <1>3, <1>4 DEF x, c, ENTRY
    <2>2. c + 1 \in Near
      BY <2>1 DEF Near
    <2>3. c + 1 <= c + 1 /\ c + 1 <= x
      BY <2>1
    <2> QED
      BY <2>2, <2>3 DEF x, c
  <1>6. Goes(m, w, i, e, p, L)
    <2>1. /\ Roomy /\ L \in AtMost(kills) /\ On(m, L) /\ i \in InodesOf(m.disk) /\ Shows(m.disk, i, e)
          /\ p \in Near /\ p <= e.cursor + 1 /\ w = SeekIfile(m, i, e, p)
      BY <1>1, <1>5 DEF Advance
    <2> HIDE DEF m, e, p
    <2> QED
      BY ONLY <2>1, SeekGoes
  <1> QED
    BY <1>5, <1>6 DEF Goes, Within

\* Two octets were read from descriptor e, and descriptor e2 is behind them.
ReadTwo(e, e2, o) ==
    /\ e2.cursor = e.cursor + ENTRY /\ ~AtEnd(e)
    /\ (e.cursor % SECTOR) = 0 => o[1] = e2.file_buffer[0] /\ o[2] = e2.file_buffer[1]

\* What read_ifile of an entry does from descriptor u.
Reads(u, r, i, L) ==
    \/ Halts(r.use.machine)
    \/ /\ Uses(r.use, i, L) /\ Follows(u.machine.disk, r.use.machine.disk)
       /\ Within(r.use.descriptor) /\ r.use.descriptor.size = u.descriptor.size
       /\ r.use.descriptor.cursor >= u.descriptor.cursor
       /\ ~AtEnd(u.descriptor) => r.octets[1] = CurrentOctet(u.descriptor)
       /\ \/ r.eof = TRUE
          \/ r.eof = FALSE /\ ReadTwo(u.descriptor, r.use.descriptor, r.octets)

(* Two octets, one after the other.                                        *)
LEMMA Pair ==
    ASSUME NEW a, NEW b
    PROVE  /\ Append(<< >>, a)[1] = a
           /\ Append(Append(<< >>, a), b)[1] = a /\ Append(Append(<< >>, a), b)[2] = b
  <1> DEFINE S == {a, b}
  <1>1. a \in S /\ b \in S
    OBVIOUS
  <1> HIDE DEF S
  <1>2. << >> \in Seq(S) /\ Append(<< >>, a) \in Seq(S)
    BY <1>1
  <1>3. Len(Append(<< >>, a)) = 1 /\ Append(<< >>, a)[1] = a
    BY <1>1, <1>2
  <1>4. Append(Append(<< >>, a), b)[1] = a /\ Append(Append(<< >>, a), b)[2] = b
    BY <1>1, <1>2, <1>3
  <1> QED
    BY <1>3, <1>4

(* read_ifile of an entry.                                                 *)
LEMMA ReadIs ==
    ASSUME Roomy, NEW L \in AtMost(kills), NEW i, NEW u, Uses(u, i, L), Within(u.descriptor),
           NEW r, r = ReadIfile(u, i, ENTRY)
    PROVE  Reads(u, r, i, L)
  <1> DEFINE e == u.descriptor
             p == e.cursor
             r0 == ReadSo(u, << >>)
             r1 == ReadOn(r0, i)
  <1>1. r = ReadOn(r1, i)
    BY ReadComputes
  <1>2. r0.use = u /\ r0.octets = << >> /\ r0.eof = FALSE
    BY DEF ReadSo
  <1>3. p \in Nat
    <2> DEFINE d == u.machine.disk
    <2>1. Roomy /\ Shows(d, i, e)
      BY DEF Uses
    <2> HIDE DEF d, e
    <2> QED
      BY ONLY <2>1, ShowsIs
  <1>4. CASE AtEnd(e)
    <2>1. r1 = [r0 EXCEPT !.eof = TRUE]
      BY <1>2, <1>4 DEF ReadOn
    <2>2. r1.use = u /\ r1.eof = TRUE
      BY <1>2, <2>1 DEF ReadSo
    <2>3. r = [r1 EXCEPT !.eof = TRUE]
      BY <1>1, <2>2 DEF ReadOn
    <2>4. r.use = u /\ r.eof = TRUE
      BY <2>1, <2>3 DEF ReadSo
    <2>5. Follows(u.machine.disk, u.machine.disk) /\ p >= p
      BY <1>3 DEF Follows
    <2> HIDE DEF r1
    <2> QED
      BY <1>4, <2>4, <2>5 DEF Reads
  <1>5. CASE ~AtEnd(e)
    <2> DEFINE a == CurrentOctet(e)
               v == Advance(u.machine, i, e)
               e1 == v.descriptor
               b == CurrentOctet(e1)
               w == Advance(v.machine, i, e1)
    <2>1. r1 = ReadSo(v, Append(<< >>, a))
      BY <1>2, <1>5 DEF ReadOn, ReadSo
    <2> HIDE DEF a, v, e, r1
    <2>2. r1.use = v /\ r1.octets = Append(<< >>, a) /\ r1.eof = FALSE
      BY <2>1 DEF ReadSo
    <2>3. \/ Halts(v.machine)
          \/ /\ Uses(v, i, L) /\ Follows(u.machine.disk, v.machine.disk) /\ Within(e1)
             /\ e1.cursor = p + 1 /\ e1.size = e.size
             /\ InSector(e, p + 1) => e1.file_buffer = e.file_buffer
      BY <1>5, ReadOnGoes DEF v, e
    <2>4. CASE AtEnd(e1)
      <3>1. r = [r1 EXCEPT !.eof = TRUE]
        BY <1>1, <2>2, <2>4 DEF ReadOn
      <3>2. r.use = v /\ r.eof = TRUE /\ r.octets = Append(<< >>, a)
        BY <2>1, <3>1 DEF ReadSo
      <3>3. r.octets[1] = a
        BY <3>2, Pair
      <3>4. CASE Halts(v.machine)
        BY <3>2, <3>4 DEF Reads
      <3>5. CASE ~Halts(v.machine)
        <4>1. /\ Uses(v, i, L) /\ Follows(u.machine.disk, v.machine.disk) /\ Within(e1)
              /\ e1.cursor >= p /\ e1.size = u.descriptor.size
          BY <1>3, <2>3, <3>5 DEF e
        <4>2. r.octets[1] = CurrentOctet(u.descriptor)
          BY <3>3 DEF a, e
        <4>3. r.use.descriptor = e1 /\ e1.cursor >= u.descriptor.cursor
          BY <3>2, <4>1 DEF e
        <4> HIDE DEF e1, p
        <4> QED
          BY <3>2, <4>1, <4>2, <4>3 DEF Reads
      <3> QED
        BY <3>4, <3>5
    <2>5. CASE ~AtEnd(e1)
      <3>1. r = ReadSo(w, Append(Append(<< >>, a), b))
        BY <1>1, <2>2, <2>5 DEF ReadOn, ReadSo
      <3>2. r.use = w /\ r.octets[1] = a /\ r.octets[2] = b /\ r.eof = FALSE
        BY <3>1, Pair DEF ReadSo
      <3>3. CASE Halts(v.machine)
        <4>1. Halts(w.machine)
          BY <3>3, SeekHalts DEF Advance
        <4> QED
          BY <3>2, <4>1 DEF Reads
      <3>4. CASE ~Halts(v.machine)
        <4>1. /\ Uses(v, i, L) /\ Follows(u.machine.disk, v.machine.disk) /\ Within(e1)
              /\ e1.cursor = p + 1 /\ e1.size = e.size
              /\ InSector(e, p + 1) => e1.file_buffer = e.file_buffer
          BY <2>3, <3>4
        <4>2. \/ Halts(w.machine)
              \/ /\ Uses(w, i, L) /\ Follows(v.machine.disk, w.machine.disk) /\ Within(w.descriptor)
                 /\ w.descriptor.cursor = e1.cursor + 1 /\ w.descriptor.size = e1.size
                 /\ InSector(e1, e1.cursor + 1) => w.descriptor.file_buffer = e1.file_buffer
          BY <2>5, <4>1, ReadOnGoes
        <4> HIDE DEF w, b, e1
        <4>3. (p % SECTOR) = 0 /\ ~Halts(w.machine) =>
                 a = w.descriptor.file_buffer[0] /\ b = w.descriptor.file_buffer[1]
          <5>1. ASSUME (p % SECTOR) = 0, ~Halts(w.machine)
                PROVE  a = w.descriptor.file_buffer[0] /\ b = w.descriptor.file_buffer[1]
            <6>1. ((p + 1) % SECTOR) = 1 /\ PositionToFbloc(p + 1) = PositionToFbloc(p)
              BY <1>3, <5>1, SectorStart
            <6>2. PositionToFbloc(p + 2) = PositionToFbloc(p)
              BY <1>3, <5>1, SectorStart
            <6>3. e1.cursor + 1 = p + 2
              BY <1>3, <4>1
            <6>4. e1.file_buffer = e.file_buffer
              BY <4>1, <6>1 DEF InSector
            <6>5. w.descriptor.file_buffer = e1.file_buffer
              BY <4>1, <4>2, <5>1, <6>1, <6>2, <6>3 DEF InSector
            <6>6. a = e.file_buffer[0]
              BY <5>1 DEF a, CurrentOctet
            <6>7. b = e1.file_buffer[1]
              BY <4>1, <6>1 DEF b, CurrentOctet
            <6> QED
              BY <6>4, <6>5, <6>6, <6>7
          <5> QED
            BY <5>1
        <4>4. CASE Halts(w.machine)
          BY <3>2, <4>4 DEF Reads
        <4>5. CASE ~Halts(w.machine)
          <5>1. /\ Uses(w, i, L) /\ Follows(u.machine.disk, w.machine.disk) /\ Within(w.descriptor)
                /\ w.descriptor.cursor = p + 2 /\ w.descriptor.size = e.size
            BY <1>3, <4>1, <4>2, <4>5, FollowsOn
          <5>2. w.descriptor.cursor >= p
            BY <1>3, <5>1
          <5>3. r.octets[1] = CurrentOctet(u.descriptor)
            BY <3>2 DEF a, e
          <5>4. ReadTwo(e, w.descriptor, r.octets)
            BY <1>5, <3>2, <4>3, <4>5, <5>1 DEF ReadTwo, ENTRY
          <5>5. ReadTwo(u.descriptor, r.use.descriptor, r.octets)
            BY <3>2, <5>4 DEF e
          <5> HIDE DEF p
          <5>6. w.descriptor.cursor >= u.descriptor.cursor /\ w.descriptor.size = u.descriptor.size
            BY <5>1, <5>2 DEF e, p
          <5> QED
            BY <3>2, <5>1, <5>3, <5>5, <5>6 DEF Reads
        <4> QED
          BY <4>4, <4>5
      <3> QED
        BY <3>3, <3>4
    <2> QED
      BY <2>4, <2>5
  <1> QED
    BY <1>4, <1>5

(* Reading after the program was killed or stopped changes nothing.        *)
LEMMA ReadHalts ==
    ASSUME NEW u, Halts(u.machine), NEW i, NEW r, r = ReadIfile(u, i, ENTRY)
    PROVE  Halts(r.use.machine)
  <1> DEFINE Still(x) == Halts(x.use.machine) /\ DOMAIN x = {"use", "octets", "eof"}
  <1>1. ASSUME NEW x, Still(x)
        PROVE  Still(ReadOn(x, i))
    <2>1. CASE x.eof \/ AtEnd(x.use.descriptor)
      <3>1. ReadOn(x, i) = [x EXCEPT !.eof = TRUE]
        BY <2>1 DEF ReadOn
      <3> QED
        BY <1>1, <3>1
    <2>2. CASE ~(x.eof \/ AtEnd(x.use.descriptor))
      <3> DEFINE w == Advance(x.use.machine, i, x.use.descriptor)
      <3>1. Halts(w.machine)
        BY <1>1, SeekHalts DEF Advance
      <3> HIDE DEF w
      <3>2. ReadOn(x, i).use = w /\ DOMAIN ReadOn(x, i) = {"use", "octets", "eof"}
        BY <2>2 DEF ReadOn, w
      <3> QED
        BY <3>1, <3>2
    <2> QED
      BY <2>1, <2>2
  <1>2. Still(ReadSo(u, << >>))
    BY DEF ReadSo
  <1> HIDE DEF Still
  <1>3. Still(ReadOn(ReadOn(ReadSo(u, << >>), i), i))
    BY <1>1, <1>2
  <1> QED
    BY <1>3, ReadComputes DEF Still

-----------------------------------------------------------------------------
(* The entries of a directory.                                             *)

ScanFrom(u) == [use |-> u, index |-> 0, eof |-> FALSE, found |-> FALSE]

\* What a scan has done when it has looked at n entries.
Looking(u, i, wanted, n, g) ==
    g = [k \in 0 .. n |-> IF k = 0 THEN ScanFrom(u) ELSE Look(g[k - 1], k - 1, i, wanted)]

(* There is such a row.                                                    *)
LEMMA LookingIs ==
    ASSUME NEW u, NEW i, NEW wanted, NEW n \in Nat
    PROVE  \E g : Looking(u, i, wanted, n, g)
  <1> DEFINE T == { x \in Nat : \E g : Looking(u, i, wanted, x, g) }
  <1>1. 0 \in T
    <2> DEFINE g == [k \in 0 .. 0 |-> ScanFrom(u)]
    <2>1. g = [k \in 0 .. 0 |-> IF k = 0 THEN ScanFrom(u) ELSE Look(g[k - 1], k - 1, i, wanted)]
      OBVIOUS
    <2>2. Looking(u, i, wanted, 0, g)
      BY <2>1 DEF Looking
    <2> HIDE DEF g
    <2> QED
      BY <2>2
  <1>2. ASSUME NEW x \in Nat, x \in T
        PROVE  x + 1 \in T
    <2>1. PICK g : Looking(u, i, wanted, x, g)
      BY <1>2
    <2> DEFINE h == [k \in 0 .. x + 1 |-> IF k <= x THEN g[k] ELSE Look(g[x], x, i, wanted)]
               Step(k) == IF k = 0 THEN ScanFrom(u) ELSE Look(h[k - 1], k - 1, i, wanted)
    <2>2. ASSUME NEW k \in 0 .. x + 1
          PROVE  h[k] = Step(k)
      <3>1. CASE k = 0
        BY <2>1, <3>1 DEF Looking
      <3>2. CASE k # 0 /\ k <= x
        <4>1. k \in 0 .. x /\ k - 1 \in 0 .. x + 1 /\ k - 1 <= x
          BY <3>2
        <4>2. g[k] = Look(g[k - 1], k - 1, i, wanted)
          BY <2>1, <3>2, <4>1 DEF Looking
        <4> QED
          BY <3>2, <4>1, <4>2
      <3>3. CASE k = x + 1
        <4>1. x \in 0 .. x + 1 /\ k - 1 = x /\ k # 0 /\ ~(k <= x)
          BY <3>3
        <4> QED
          BY <4>1
      <3> QED
        BY <3>1, <3>2, <3>3
    <2>3. h = [k \in 0 .. x + 1 |-> Step(k)]
      BY <2>2
    <2>4. Looking(u, i, wanted, x + 1, h)
      BY <2>3 DEF Looking
    <2> QED
      BY <2>4
  <1> HIDE DEF T
  <1>3. n \in T
    BY <1>1, <1>2, Induction
  <1> QED
    BY <1>3 DEF T

(* What a scan computes.                                                   *)
LEMMA ScanComputes ==
    ASSUME NEW u, NEW i, NEW wanted, u.descriptor.size * SECTOR \in Nat
    PROVE  \E n \in Nat : \E g : Looking(u, i, wanted, n, g) /\ Scan(u, i, wanted) = g[n]
  <1> DEFINE slots == (u.descriptor.size * SECTOR) \div ENTRY
             n == slots + 1
             looked[k \in 0 .. slots + 1] ==
               IF k = 0 THEN [use |-> u, index |-> 0, eof |-> FALSE, found |-> FALSE]
                        ELSE Look(looked[k - 1], k - 1, i, wanted)
  <1>1. n \in Nat
    <2> DEFINE x == u.descriptor.size * SECTOR
    <2>1. x \in Nat
      OBVIOUS
    <2> HIDE DEF x
    <2>2. x \div ENTRY \in Nat
      BY <2>1 DEF ENTRY
    <2> QED
      BY <2>2 DEF x
  <1>2. Scan(u, i, wanted) = looked[n]
    BY DEF Scan
  <1>3. looked = CHOOSE g : Looking(u, i, wanted, n, g)
    BY DEF Looking, ScanFrom
  <1> HIDE DEF looked, n
  <1>4. Looking(u, i, wanted, n, looked)
    BY <1>1, <1>3, LookingIs
  <1> QED
    BY <1>1, <1>2, <1>4

\* An entry that was wanted lies before the end of the file; if it is the first of a
\* sector, that sector is still the one of the descriptor.
FoundAt(e, index, wanted) ==
    /\ index * ENTRY < e.size * SECTOR
    /\ ((index * ENTRY) % SECTOR) = 0 =>
         e.cursor = index * ENTRY + ENTRY /\ \E o \in wanted : o[2] = e.file_buffer[1]

\* A scan has not gone behind the end of the file, and is behind the entry it was at.
Scans(u, s, i, wanted, L) ==
    \/ Halts(s.use.machine)
    \/ /\ Uses(s.use, i, L) /\ Follows(u.machine.disk, s.use.machine.disk)
       /\ Within(s.use.descriptor)
       /\ s.index \in Nat /\ s.index * ENTRY <= s.use.descriptor.cursor
       /\ s.found => FoundAt(s.use.descriptor, s.index, wanted)

\* It goes on with entry k.
GoesOn(s, k) == Halts(s.use.machine) \/ s.found \/ s.eof \/ s.use.descriptor.cursor = k * ENTRY

(* What has been read is the entry that was wanted, the end of the file or neither. *)
LEMMA LookedIs ==
    ASSUME Roomy, NEW L \in AtMost(kills), NEW i, NEW u, NEW wanted, NEW k \in Nat,
           NEW v, Uses(v, i, L), Follows(u.machine.disk, v.machine.disk),
           Within(v.descriptor), v.descriptor.cursor = k * ENTRY,
           NEW r, Reads(v, r, i, L), NEW t, t = Looked(r, k, wanted)
    PROVE  Scans(u, t, i, wanted, L) /\ GoesOn(t, k + 1)
  <1> DEFINE e == v.descriptor
             e2 == r.use.descriptor
  <1>1. t.use = r.use /\ t.index = k
    BY DEF Looked
  <1>2. t.eof = r.eof
    BY DEF Looked
  <1> DEFINE found == ~r.eof /\ r.octets \in wanted
  <1>3. t.found => found
    <2>1. t = [use |-> r.use, index |-> k, eof |-> r.eof, found |-> found]
      BY DEF Looked
    <2> HIDE DEF found
    <2>2. t.found = found
      BY <2>1
    <2> QED
      BY <2>2
  <1>4. found => ~r.eof /\ r.octets \in wanted
    OBVIOUS
  <1> HIDE DEF found
  <1>5. CASE Halts(r.use.machine)
    BY <1>1, <1>5 DEF Scans, GoesOn
  <1>6. CASE ~Halts(r.use.machine)
    <2>1. /\ Uses(r.use, i, L) /\ Follows(v.machine.disk, r.use.machine.disk)
          /\ Within(e2) /\ e2.size = e.size /\ e2.cursor >= e.cursor
      BY <1>6 DEF Reads
    <2>2. \/ r.eof = TRUE
          \/ r.eof = FALSE /\ ReadTwo(e, e2, r.octets)
      BY <1>6 DEF Reads
    <2>3. e2.cursor \in Nat /\ e2.size * SECTOR \in Nat
      <3> DEFINE d == r.use.machine.disk
      <3>1. Roomy /\ Shows(d, i, e2)
        BY <2>1 DEF Uses
      <3> HIDE DEF d, e2
      <3>2. e2.cursor \in Nat /\ e2.size \in Nat
        BY ONLY <3>1, ShowsIs
      <3> QED
        BY <3>2
    <2>4. Follows(u.machine.disk, r.use.machine.disk)
      BY <2>1, FollowsOn
    <2>5. k * ENTRY <= e2.cursor
      BY <2>1, <2>3 DEF ENTRY
    <2>6. ASSUME t.found
          PROVE  FoundAt(e2, k, wanted)
      <3>1. ReadTwo(e, e2, r.octets) /\ r.octets \in wanted
        BY <1>3, <1>4, <2>2, <2>6
      <3>2. k * ENTRY < e2.size * SECTOR
        <4>1. ~(e.cursor >= e.size * SECTOR)
          BY <3>1 DEF ReadTwo, AtEnd
        <4> QED
          BY <2>1, <2>3, <4>1 DEF ENTRY
      <3>3. ((k * ENTRY) % SECTOR) = 0 =>
              e2.cursor = k * ENTRY + ENTRY /\ r.octets[2] = e2.file_buffer[1]
        BY <3>1 DEF ReadTwo
      <3> QED
        BY <3>1, <3>2, <3>3 DEF FoundAt
    <2>7. t.eof \/ e2.cursor = (k + 1) * ENTRY
      <3>1. r.eof \/ ReadTwo(e, e2, r.octets)
        BY <2>2
      <3>2. ReadTwo(e, e2, r.octets) => e2.cursor = (k + 1) * ENTRY
        BY DEF ReadTwo, ENTRY
      <3> QED
        BY <1>2, <3>1, <3>2
    <2> QED
      BY <1>1, <2>1, <2>4, <2>5, <2>6, <2>7 DEF Scans, GoesOn
  <1> QED
    BY <1>5, <1>6

(* One entry more.                                                         *)
LEMMA LookIs ==
    ASSUME Roomy, NEW L \in AtMost(kills), NEW i, NEW u, NEW wanted, NEW k \in Nat,
           NEW s, Scans(u, s, i, wanted, L), GoesOn(s, k), NEW t, t = Look(s, k, i, wanted)
    PROVE  Scans(u, t, i, wanted, L) /\ GoesOn(t, k + 1)
  <1> DEFINE r == ReadIfile(s.use, i, ENTRY)
  <1>1. CASE s.found \/ s.eof
    <2>1. t = s
      BY <1>1 DEF Look
    <2> QED
      BY <1>1, <2>1 DEF GoesOn
  <1>2. CASE ~(s.found \/ s.eof)
    <2>1. t = Looked(r, k, wanted)
      BY <1>2 DEF Look
    <2>2. CASE Halts(s.use.machine)
      <3>1. Halts(r.use.machine)
        BY <2>2, ReadHalts
      <3> HIDE DEF r
      <3>2. t.use = r.use
        BY <2>1 DEF Looked
      <3> QED
        BY <3>1, <3>2 DEF Scans, GoesOn
    <2>3. CASE ~Halts(s.use.machine)
      <3> DEFINE v == s.use
      <3>1. /\ Uses(v, i, L) /\ Follows(u.machine.disk, v.machine.disk)
            /\ Within(v.descriptor) /\ v.descriptor.cursor = k * ENTRY
        BY <1>2, <2>3 DEF Scans, GoesOn
      <3> HIDE DEF v
      <3>2. r = ReadIfile(v, i, ENTRY)
        BY DEF v
      <3> HIDE DEF r
      <3>3. Reads(v, r, i, L)
        BY <3>1, <3>2, ReadIs
      <3> QED
        BY <2>1, <3>1, <3>3, LookedIs
    <2> QED
      BY <2>2, <2>3
  <1> QED
    BY <1>1, <1>2

(* The loop of new_entry and find_entry, on a directory that was opened.   *)
LEMMA ScanIs ==
    ASSUME Roomy, NEW L \in AtMost(kills), NEW i, NEW u, Uses(u, i, L), u.descriptor.cursor = 0,
           NEW wanted, NEW s, s = Scan(u, i, wanted)
    PROVE  Scans(u, s, i, wanted, L)
  <1>1. u.descriptor.size * SECTOR \in Nat
    <2> DEFINE d == u.machine.disk
               e == u.descriptor
    <2>1. Roomy /\ Shows(d, i, e)
      BY DEF Uses
    <2> HIDE DEF d, e
    <2>2. e.size \in Nat
      BY ONLY <2>1, ShowsIs
    <2> QED
      BY <2>2 DEF e
  <1>2. PICK n \in Nat : \E g : Looking(u, i, wanted, n, g) /\ s = g[n]
    BY <1>1, ScanComputes
  <1>3. PICK g : Looking(u, i, wanted, n, g) /\ s = g[n]
    BY <1>2
  <1> DEFINE Good(k) == Scans(u, g[k], i, wanted, L) /\ GoesOn(g[k], k)
             T == { k \in Nat : k <= n => Good(k) }
  <1>4. 0 \in T
    <2>1. g[0] = ScanFrom(u)
      BY <1>3 DEF Looking
    <2>2. g[0].use = u /\ g[0].index = 0 /\ g[0].eof = FALSE /\ g[0].found = FALSE
      BY <2>1 DEF ScanFrom
    <2>3. /\ Follows(u.machine.disk, u.machine.disk) /\ Within(u.descriptor)
          /\ 0 * ENTRY = 0 /\ 0 <= u.descriptor.cursor
      BY <1>1 DEF Follows, Within, ENTRY
    <2>4. Good(0)
      BY <2>2, <2>3 DEF Scans, GoesOn
    <2> HIDE DEF Good
    <2> QED
      BY <2>4
  <1>5. ASSUME NEW k \in Nat, k \in T
        PROVE  k + 1 \in T
    <2>1. ASSUME k + 1 <= n
          PROVE  Good(k + 1)
      <3>1. k \in 0 .. n /\ k + 1 \in 0 .. n /\ (k + 1) - 1 = k /\ k + 1 # 0 /\ k <= n
        BY <2>1
      <3>2. g[k + 1] = Look(g[k], k, i, wanted)
        BY <1>3, <3>1 DEF Looking
      <3>3. Good(k)
        <4> HIDE DEF Good
        <4> QED
          BY <1>5, <3>1
      <3> QED
        BY <3>2, <3>3, LookIs
    <2> HIDE DEF Good
    <2> QED
      BY <2>1
  <1> HIDE DEF Good
  <1>6. Good(n)
    <2> HIDE DEF T
    <2>1. n \in T
      BY <1>4, <1>5, Induction
    <2> QED
      BY <2>1 DEF T
  <1> QED
    BY <1>3, <1>6 DEF Good

\* The call that found machine m leaves machine r.
Ends(m, r, L) == Halts(r) \/ (On(r, L) /\ Follows(m.disk, r.disk))

(* One call after another.                                                 *)
LEMMA EndsOn ==
    ASSUME NEW m, NEW v, NEW r, NEW L, Follows(m.disk, v.disk), Ends(v, r, L)
    PROVE  Ends(m, r, L)
  BY FollowsOn DEF Ends

(* An entry that begins within the file is one that may be written.        *)
LEMMA EntryFits ==
    ASSUME Roomy, NEW size \in 0 .. NB_BLOCS + 1, NEW x \in Nat, x * ENTRY <= size * SECTOR
    PROVE  /\ x * ENTRY \in Nat /\ x * ENTRY \in Near /\ x * ENTRY + ENTRY \in Near
           /\ (x * ENTRY) % ENTRY = 0
  <1> DEFINE p == x * ENTRY
             q == size * SECTOR
             last == 2 * NB_BLOCS * SECTOR - 1
  <1>1. p \in Nat /\ p % ENTRY = 0
    BY DEF ENTRY
  <1>2. q \in Nat /\ q + ENTRY \in 0 .. last
    BY FileNear DEF Near
  <1>5. last \in Int
    BY DEF InodesAssumption, DescriptorsAssumption
  <1>3. p <= q
    OBVIOUS
  <1> HIDE DEF p, q, last
  <1>4. p \in 0 .. last /\ p + ENTRY \in 0 .. last
    BY <1>1, <1>2, <1>3, <1>5 DEF ENTRY
  <1> QED
    BY <1>1, <1>4 DEF p, last, Near

\* Directory i is open at entry index, from descriptor e.
AtEntry(u, q, i, e, index, L) ==
    \/ Halts(q.machine)
    \/ /\ Uses(q, i, L) /\ Follows(u.machine.disk, q.machine.disk)
       /\ q.descriptor.cursor = index * ENTRY /\ q.descriptor.size = e.size
       /\ index \in Nat /\ (index * ENTRY) % ENTRY = 0 /\ index * ENTRY + ENTRY \in Near
       /\ InSector(e, index * ENTRY) => q.descriptor.file_buffer = e.file_buffer

(* The descriptor goes back to the entry the scan ended at.                *)
LEMMA SeeksEntry ==
    ASSUME Roomy, NEW L \in AtMost(kills), NEW i, NEW u, NEW wanted, NEW s,
           Scans(u, s, i, wanted, L), NEW q, q = SeekEntry(s, i)
    PROVE  AtEntry(u, q, i, s.use.descriptor, s.index, L)
  <1> DEFINE m == s.use.machine
             e == s.use.descriptor
             p == s.index * ENTRY
  <1>1. q = SeekIfile(m, i, e, p)
    BY DEF SeekEntry
  <1>2. CASE Halts(m)
    <2> HIDE DEF m, e, p
    <2> QED
      BY <1>1, <1>2, SeekHalts DEF AtEntry
  <1>3. CASE ~Halts(m)
    <2>1. /\ Uses(s.use, i, L) /\ Follows(u.machine.disk, m.disk)
          /\ e.cursor <= e.size * SECTOR /\ s.index \in Nat /\ p <= e.cursor
      BY <1>3 DEF Scans, Within
    <2>2. On(m, L) /\ i \in InodesOf(m.disk) /\ Shows(m.disk, i, e)
      BY <2>1 DEF Uses
    <2>3. e.cursor \in Nat /\ e.size \in 0 .. NB_BLOCS + 1
      <3> DEFINE d == m.disk
      <3>1. Roomy /\ Shows(d, i, e)
        BY <2>2
      <3> HIDE DEF d, m, e
      <3>2. e.cursor \in Nat /\ e.size \in Nat /\ e.size <= NB_BLOCS + 1
        BY ONLY <3>1, ShowsIs
      <3>3. NB_BLOCS + 1 \in Nat
        BY DEF InodesAssumption
      <3> QED
        BY <3>2, <3>3
    <2>4. p \in Nat /\ p \in Near /\ p + ENTRY \in Near /\ p % ENTRY = 0
      <3> DEFINE x == s.index
                 size == e.size
      <3>1. x * ENTRY <= size * SECTOR
        <4> DEFINE end == size * SECTOR
        <4>1. end \in Nat /\ p \in Nat /\ e.cursor <= end
          BY <2>1, <2>3 DEF ENTRY
        <4> HIDE DEF end, p
        <4>2. p <= end
          BY <2>1, <2>3, <4>1
        <4> QED
          BY <4>2 DEF end, p
      <3>2. Roomy /\ size \in 0 .. NB_BLOCS + 1 /\ x \in Nat
        BY <2>1, <2>3
      <3> HIDE DEF x, size
      <3>3. /\ x * ENTRY \in Nat /\ x * ENTRY \in Near /\ x * ENTRY + ENTRY \in Near
            /\ (x * ENTRY) % ENTRY = 0
        BY ONLY <3>1, <3>2, EntryFits
      <3> QED
        BY <3>3 DEF x
    <2>5. p <= e.cursor + 1
      BY <2>1, <2>3, <2>4
    <2>6. Goes(m, q, i, e, p, L)
      <3> HIDE DEF m, e, p
      <3> QED
        BY <1>1, <2>2, <2>4, <2>5, SeekGoes
    <2>7. \/ Halts(q.machine)
          \/ /\ Uses(q, i, L) /\ Follows(u.machine.disk, q.machine.disk)
             /\ q.descriptor.cursor = p /\ q.descriptor.size = e.size
             /\ InSector(e, p) => q.descriptor.file_buffer = e.file_buffer
      <3> HIDE DEF m, e, p
      <3> QED
        BY <2>1, <2>6, FollowsOn DEF Goes
    <2> QED
      BY <2>1, <2>4, <2>7 DEF AtEntry
  <1> QED
    BY <1>2, <1>3

(* An entry is written over the one a scan ended at.                       *)
LEMMA PutsEntry ==
    ASSUME Roomy, NEW L \in AtMost(kills), NEW i, NEW u, NEW wanted, NEW s,
           Scans(u, s, i, wanted, L), NEW n \in InodesOf(u.machine.disk) \cup {NULL_BLOC},
           NEW name \in Halves, NEW r, r = PutEntry(s, i, <<n, name>>)
    PROVE  Ends(u.machine, r, L)
  <1> DEFINE q == SeekEntry(s, i)
             w == WriteIfile(q, i, <<n, name>>)
  <1>1. r = FlushIfile(w.machine, i, w.descriptor)
    BY DEF PutEntry, CloseUsing
  <1>2. AtEntry(u, q, i, s.use.descriptor, s.index, L)
    BY SeeksEntry
  <1> HIDE DEF q
  <1>3. Halts(w.machine) \/ (Uses(w, i, L) /\ Follows(u.machine.disk, w.machine.disk))
    <2>1. CASE Halts(q.machine)
      BY <2>1, WriteHalts
    <2>2. CASE ~Halts(q.machine)
      <3>1. /\ Uses(q, i, L) /\ Follows(u.machine.disk, q.machine.disk)
            /\ q.descriptor.cursor % ENTRY = 0 /\ q.descriptor.cursor + ENTRY \in Near
        BY <1>2, <2>2 DEF AtEntry
      <3>2. n \in InodesOf(q.machine.disk) \cup {NULL_BLOC}
        BY <3>1 DEF Follows
      <3> HIDE DEF w
      <3>3. w = WriteIfile(q, i, <<n, name>>)
        BY DEF w
      <3>4. Halts(w.machine) \/ (Uses(w, i, L) /\ Follows(q.machine.disk, w.machine.disk))
        BY <3>1, <3>2, <3>3, WritesEntry
      <3> QED
        BY <3>1, <3>4, FollowsOn
    <2> QED
      BY <2>1, <2>2
  <1> HIDE DEF w
  <1> DEFINE m == w.machine
             e == w.descriptor
  <1>4. CASE Halts(m)
    <2> HIDE DEF m, e
    <2>1. Halts(r)
      BY <1>1, <1>4, HaltsFlush DEF m, e
    <2> QED
      BY <2>1 DEF Ends
  <1>5. CASE ~Halts(m)
    <2>1. /\ On(m, L) /\ i \in InodesOf(m.disk) /\ Shows(m.disk, i, e)
          /\ Follows(u.machine.disk, m.disk) /\ r = FlushIfile(m, i, e)
      BY <1>1, <1>3, <1>5 DEF Uses
    <2> HIDE DEF m, e
    <2>2. Halts(r) \/ (On(r, L) /\ Follows(m.disk, r.disk))
      BY <2>1, FlushMakes
    <2> QED
      BY <2>1, <2>2, EndsOn DEF Ends
  <1> QED
    BY <1>4, <1>5

(* A call that ends and says so.                                           *)
LEMMA EndsReturn ==
    ASSUME NEW m, NEW v, NEW L, Ends(m, v, L), NEW ret, NEW r, r = Return(v, ret)
    PROVE  Ends(m, r, L) /\ r.ret = ret
  <1>1. Traced(v)
    BY DEF Ends, On, Halts
  <1>2. /\ r.disk = v.disk /\ r.ret = ret
        /\ Halts(v) => Halts(r)
        /\ On(v, L) => On(r, L)
    BY <1>1, TracedReturn
  <1> QED
    BY <1>2 DEF Ends

(* A call that does not even begin.                                        *)
LEMMA EndsAtOnce ==
    ASSUME NEW L \in AtMost(kills), NEW m, On(m, L), NEW ret, NEW r,
           r = Stopped(m) \/ r = Return(m, ret)
    PROVE  Ends(m, r, L) /\ (r.ok => r.ret = ret)
  <1>1. Traced(m) /\ Follows(m.disk, m.disk)
    BY DEF On, Follows
  <1>2. CASE r = Stopped(m)
    BY <1>1, <1>2, TracedStopped DEF Ends
  <1>3. CASE r = Return(m, ret)
    <2>1. Ends(m, m, L)
      BY <1>1 DEF Ends
    <2> QED
      BY <1>3, <2>1, EndsReturn
  <1> QED
    BY <1>2, <1>3

(* What read_inode accepts, but in bloc 0, is an inode of the file system.  *)
LEMMA IsInodeOf ==
    ASSUME NEW L, NEW m, On(m, L), NEW i \in Bloc \ {NULL_BLOC}, IsInode(m, i)
    PROVE  i \in InodesOf(m.disk)
  <1> DEFINE d == m.disk
             s == m.super
  <1>1. Sane(d, s, L) /\ d[i].kind = "inode"
    BY DEF On, IsInode
  <1> HIDE DEF d, s
  <1>2. /\ s.first_free \in 2 .. NSector
        /\ \A b \in Bloc : b >= s.first_free => d[b] = Zero \/ d[b] = Header
    BY ONLY <1>1, SaneIs
  <1>3. ~(i >= s.first_free)
    BY <1>1, <1>2 DEF Zero, Header, FreeBlc
  <1>4. i \in 1 .. NSector - 1
    BY <1>2, <1>3 DEF Bloc, NULL_BLOC
  <1>5. i \in InodesOf(d)
    BY <1>1, <1>4 DEF InodesOf
  <1> QED
    BY <1>5 DEF d

\* Directory i of m, just opened.
Opened(m, u, i, L) ==
    /\ Uses(u, i, L) /\ u.machine.disk = m.disk /\ u.machine.super = m.super
    /\ u.descriptor.cursor = 0

(* The directory of a call.                                                *)
LEMMA Opens ==
    ASSUME Roomy, NEW L, NEW m, On(m, L), NEW i \in Bloc \ {NULL_BLOC}, IsDirectory(m, i),
           NEW u, u = OpenIfile(m, i)
    PROVE  i \in InodesOf(m.disk) /\ Opened(m, u, i, L)
  <1>1. i \in InodesOf(m.disk)
    BY IsInodeOf DEF IsDirectory
  <1> QED
    BY <1>1, OpenUses DEF Opened

(* The loop over the entries of a directory just opened.                   *)
LEMMA ScanOpened ==
    ASSUME Roomy, NEW L \in AtMost(kills), NEW m, NEW i, NEW u, Opened(m, u, i, L),
           NEW wanted, NEW s, s = Scan(u, i, wanted)
    PROVE  Scans(u, s, i, wanted, L)
  BY ScanIs DEF Opened

(* add_entry: the name stored may be cut, the number is an inode or 0.      *)
LEMMA AddEntryEnds ==
    ASSUME Roomy, NEW L \in AtMost(kills), NEW m, On(m, L), NEW i \in Bloc \ {NULL_BLOC},
           NEW n \in InodesOf(m.disk) \cup {NULL_BLOC}, NEW basename \in Names \cup {EMPTY, Long},
           NEW r, r = AddEntry(m, i, n, basename)
    PROVE  Ends(m, r, L) /\ (r.ok => r.ret \in {RETURN_SUCCESS, RETURN_FAILURE})
  <1> DEFINE u == OpenIfile(m, i)
             name == StoredName(basename)
             s == NewEntry(u, i)
             w == PutEntry(s, i, <<n, name>>)
  <1>1. CASE ~IsInode(m, i)
    <2>1. r = Stopped(m)
      BY <1>1 DEF AddEntry, OnDirectory
    <2> QED
      BY <2>1, EndsAtOnce
  <1>2. CASE IsInode(m, i) /\ ~IsDirectory(m, i)
    <2>1. r = Return(m, RETURN_FAILURE)
      BY <1>2 DEF AddEntry, OnDirectory
    <2> QED
      BY <2>1, EndsAtOnce
  <1>3. CASE IsInode(m, i) /\ IsDirectory(m, i)
    <2>1. r = Return(w, RETURN_SUCCESS)
      BY <1>3 DEF AddEntry, OnDirectory
    <2>2. Opened(m, u, i, L)
      BY <1>3, Opens
    <2> HIDE DEF u
    <2>3. Scans(u, s, i, {NULL_BLOC} \X Halves, L)
      BY <2>2, ScanOpened DEF NewEntry
    <2> HIDE DEF s
    <2>4. name \in Halves
      BY DirectoryAssumption DEF StoredName, Halves
    <2> HIDE DEF name
    <2>5. n \in InodesOf(u.machine.disk) \cup {NULL_BLOC} /\ u.machine.disk = m.disk
      BY <2>2 DEF Opened
    <2> HIDE DEF w
    <2>6. w = PutEntry(s, i, <<n, name>>)
      BY DEF w
    <2>7. Ends(u.machine, w, L)
      BY <2>3, <2>4, <2>5, <2>6, PutsEntry
    <2>8. Ends(m, w, L)
      BY <2>5, <2>7 DEF Ends
    <2> QED
      BY <2>1, <2>8, EndsReturn
  <1> QED
    BY <1>1, <1>2, <1>3

(* del_entry.                                                              *)
LEMMA DelEntryEnds ==
    ASSUME Roomy, NEW L \in AtMost(kills), NEW m, On(m, L), NEW i \in Bloc \ {NULL_BLOC},
           NEW basename, NEW r, r = DelEntry(m, i, basename)
    PROVE  Ends(m, r, L) /\ (r.ok => r.ret \in {ENTRY, RETURN_FAILURE})
  <1> DEFINE u == OpenIfile(m, i)
             wanted == (Halves \ {NULL_BLOC}) \X {basename}
             s == FindEntry(u, i, basename)
             w == PutEntry(s, i, NullEntry)
  <1>1. CASE ~IsInode(m, i)
    <2>1. r = Stopped(m)
      BY <1>1 DEF DelEntry, OnDirectory
    <2> QED
      BY <2>1, EndsAtOnce
  <1>2. CASE IsInode(m, i) /\ ~IsDirectory(m, i)
    <2>1. r = Return(m, RETURN_FAILURE)
      BY <1>2 DEF DelEntry, OnDirectory
    <2> QED
      BY <2>1, EndsAtOnce
  <1>3. CASE IsInode(m, i) /\ IsDirectory(m, i)
    <2>1. r = DelFound(s, i)
      BY <1>3 DEF DelEntry, OnDirectory
    <2>2. Opened(m, u, i, L)
      BY <1>3, Opens
    <2> HIDE DEF u
    <2>3. Scans(u, s, i, wanted, L)
      BY <2>2, ScanOpened DEF FindEntry
    <2> HIDE DEF s, wanted
    <2>4. u.machine.disk = m.disk
      BY <2>2 DEF Opened
    <2>5. CASE s.found
      <3>1. r = Return(w, ENTRY)
        BY <2>1, <2>5 DEF DelFound
      <3>2. /\ NULL_BLOC \in InodesOf(u.machine.disk) \cup {NULL_BLOC} /\ EMPTY \in Halves
            /\ w = PutEntry(s, i, <<NULL_BLOC, EMPTY>>)
        BY DEF NullEntry, Halves
      <3> HIDE DEF w
      <3>3. Ends(u.machine, w, L)
        BY <2>3, <3>2, PutsEntry
      <3>4. Ends(m, w, L)
        BY <2>4, <3>3 DEF Ends
      <3> QED
        BY <3>1, <3>4, EndsReturn
    <2>6. CASE ~s.found
      <3> DEFINE v == s.use.machine
      <3>1. r = Return(v, RETURN_FAILURE)
        BY <2>1, <2>6 DEF DelFound
      <3>2. Ends(m, v, L)
        BY <2>3, <2>4 DEF Scans, Ends, Uses
      <3> HIDE DEF v
      <3> QED
        BY <3>1, <3>2, EndsReturn
    <2> QED
      BY <2>5, <2>6
  <1> QED
    BY <1>1, <1>2, <1>3

(* The entry found is never the rest of a header: no name is behind it.    *)
LEMMA NumberFound ==
    ASSUME Roomy, NEW basename \in Names \cup {Long}, NEW I, I \subseteq Bloc, NEW p \in Near,
           p % ENTRY = 0, NEW o, HoldsEntries(o, PositionToFbloc(p), I),
           (p % SECTOR) = 0 => o[1] = basename
    PROVE  o[p % SECTOR] \in Bloc
  <1> DEFINE k == PositionToFbloc(p)
  <1>1. \/ o[p % SECTOR] \in I \cup {NULL_BLOC}
        \/ p % SECTOR = 0 /\ o[0] = HEADER /\ o[1] = EMPTY
    <2>1. \A x \in Near : PositionToFbloc(x) = k /\ x % ENTRY = 0 =>
            \/ o[x % SECTOR] \in I \cup {NULL_BLOC}
            \/ x % SECTOR = 0 /\ o[0] = HEADER /\ o[1] = EMPTY
      BY DEF HoldsEntries
    <2>2. p \in Near /\ PositionToFbloc(p) = k /\ p % ENTRY = 0
      OBVIOUS
    <2> HIDE DEF k
    <2> QED
      BY ONLY <2>1, <2>2
  <1>2. basename # EMPTY /\ NULL_BLOC \in Bloc
    BY DirectoryAssumption DEF Bloc, NULL_BLOC, NSectorAssumption
  <1> QED
    BY <1>1, <1>2

\* The descriptor is at an entry that may be read.
AtFound(q, basename) ==
    /\ Within(q.descriptor) /\ ~AtEnd(q.descriptor)
    /\ q.descriptor.cursor % ENTRY = 0
    /\ (q.descriptor.cursor % SECTOR) = 0 => q.descriptor.file_buffer[1] = basename

(* seek_ifile to the entry found.                                          *)
LEMMA SeeksFound ==
    ASSUME Roomy, NEW L \in AtMost(kills), NEW i, NEW u, NEW basename, NEW s,
           Scans(u, s, i, (Halves \ {NULL_BLOC}) \X {basename}, L), s.found, s.use.machine.ok,
           NEW q, q = SeekEntry(s, i)
    PROVE  \/ Halts(q.machine)
           \/ Uses(q, i, L) /\ Follows(u.machine.disk, q.machine.disk) /\ AtFound(q, basename)
  <1> DEFINE wanted == (Halves \ {NULL_BLOC}) \X {basename}
             e == s.use.descriptor
             f == q.descriptor
             p == s.index * ENTRY
  <1>1. AtEntry(u, q, i, e, s.index, L)
    <2> HIDE DEF wanted
    <2>1. Scans(u, s, i, wanted, L)
      BY DEF wanted
    <2> QED
      BY <2>1, SeeksEntry
  <1>2. SUFFICES ASSUME ~Halts(q.machine)
                 PROVE  /\ Uses(q, i, L) /\ Follows(u.machine.disk, q.machine.disk)
                        /\ AtFound(q, basename)
    BY <1>2
  <1>3. /\ Uses(s.use, i, L) /\ FoundAt(e, s.index, wanted)
    <2>1. ~Halts(s.use.machine)
      BY DEF Halts
    <2> QED
      BY <2>1 DEF Scans
  <1>4. /\ Uses(q, i, L) /\ Follows(u.machine.disk, q.machine.disk)
        /\ f.cursor = p /\ f.size = e.size /\ p % ENTRY = 0 /\ s.index \in Nat
        /\ InSector(e, p) => f.file_buffer = e.file_buffer
    BY <1>1, <1>2 DEF AtEntry
  <1>5. p < e.size * SECTOR
    BY <1>3 DEF FoundAt
  <1>6. e.size * SECTOR \in Nat /\ p \in Nat
    <2> DEFINE d == s.use.machine.disk
    <2>1. Roomy /\ Shows(d, i, e)
      BY <1>3 DEF Uses
    <2> HIDE DEF d, e
    <2>2. e.size \in Nat
      BY ONLY <2>1, ShowsIs
    <2> QED
      BY <1>4, <2>2 DEF ENTRY
  <1>7. ASSUME (p % SECTOR) = 0
        PROVE  f.file_buffer[1] = basename
    <2>1. e.cursor = p + ENTRY /\ \E o \in wanted : o[2] = e.file_buffer[1]
      BY <1>3, <1>7 DEF FoundAt
    <2>2. e.file_buffer[1] = basename
      BY <2>1
    <2>3. InSector(e, p)
      <3> HIDE DEF p
      <3>1. Roomy /\ p \in Nat /\ (p % SECTOR) = 0 /\ 2 \in {1, 2}
        BY <1>6, <1>7
      <3>2. PositionToFbloc(p + 2) = PositionToFbloc(p)
        BY ONLY <3>1, SectorStart
      <3> QED
        BY <2>1, <3>2 DEF InSector, ENTRY
    <2> QED
      BY <1>4, <2>2, <2>3
  <1> HIDE DEF p, f
  <1>8. Within(f) /\ ~AtEnd(f) /\ f.cursor % ENTRY = 0
    <2> DEFINE end == e.size * SECTOR
    <2>1. p < end /\ end \in Nat /\ p \in Nat
      BY <1>5, <1>6
    <2>2. f.cursor = p /\ f.size * SECTOR = end
      BY <1>4
    <2> HIDE DEF end
    <2> QED
      BY <1>4, <2>1, <2>2 DEF Within, AtEnd
  <1> QED
    BY <1>4, <1>7, <1>8 DEF AtFound, f

(* The entry found is read, and its number is that of a bloc.              *)
LEMMA ReadsFound ==
    ASSUME Roomy, NEW L \in AtMost(kills), NEW i, NEW q, NEW basename \in Names \cup {Long},
           Uses(q, i, L), AtFound(q, basename), NEW r, r = ReadIfile(q, i, ENTRY)
    PROVE  \/ Halts(r.use.machine)
           \/ /\ On(r.use.machine, L) /\ Follows(q.machine.disk, r.use.machine.disk)
              /\ r.octets[1] \in Bloc
  <1> DEFINE f == q.descriptor
             d == q.machine.disk
             p == f.cursor
             o == f.file_buffer
  <1>1. Reads(q, r, i, L)
    BY ReadIs DEF AtFound
  <1>2. r.octets[1] = o[p % SECTOR] \/ Halts(r.use.machine)
    BY <1>1 DEF Reads, AtFound, CurrentOctet
  <1>3. o[p % SECTOR] \in Bloc
    <2>1. HoldsEntries(o, PositionToFbloc(p), InodesOf(d))
      BY DEF Uses, Shows
    <2>2. InodesOf(d) \subseteq Bloc
      BY DEF InodesOf, Bloc
    <2>3. p \in Near
      <3>1. Roomy /\ Shows(d, i, f)
        BY DEF Uses
      <3> HIDE DEF d, f
      <3>2. f.cursor \in Near
        BY ONLY <3>1, ShowsIs
      <3> QED
        BY <3>2 DEF p
    <2>4. p % ENTRY = 0 /\ ((p % SECTOR) = 0 => o[1] = basename)
      BY DEF AtFound
    <2> HIDE DEF p, o, d
    <2> QED
      BY <2>1, <2>2, <2>3, <2>4, NumberFound
  <1> QED
    BY <1>1, <1>2, <1>3 DEF Reads, Uses

(* inumber_of_basename: what it returns is a bloc, if not always an inode.  *)
LEMMA InumberEnds ==
    ASSUME Roomy, NEW L \in AtMost(kills), NEW m, On(m, L), NEW i \in Bloc \ {NULL_BLOC},
           NEW basename \in Names \cup {Long}, NEW r, r = InumberOfBasename(m, i, basename)
    PROVE  Ends(m, r, L) /\ (r.ok => r.ret \in Bloc)
  <1> DEFINE u == OpenIfile(m, i)
             wanted == (Halves \ {NULL_BLOC}) \X {basename}
             s == FindEntry(u, i, basename)
             q == SeekEntry(s, i)
             w == ReadIfile(q, i, ENTRY)
  <1>0. NULL_BLOC \in Bloc
    BY DEF Bloc, NULL_BLOC, NSectorAssumption
  <1>1. CASE ~IsInode(m, i)
    <2>1. r = Stopped(m)
      BY <1>1 DEF InumberOfBasename, OnDirectory
    <2> QED
      BY <1>0, <2>1, EndsAtOnce
  <1>2. CASE IsInode(m, i) /\ ~IsDirectory(m, i)
    <2>1. r = Return(m, NULL_BLOC)
      BY <1>2 DEF InumberOfBasename, OnDirectory
    <2> QED
      BY <1>0, <2>1, EndsAtOnce
  <1>3. CASE IsInode(m, i) /\ IsDirectory(m, i)
    <2>1. r = InumberFound(s, i)
      BY <1>3 DEF InumberOfBasename, OnDirectory
    <2>2. Opened(m, u, i, L)
      BY <1>3, Opens
    <2> HIDE DEF u
    <2>3. Scans(u, s, i, wanted, L)
      BY <2>2, ScanOpened DEF FindEntry
    <2> HIDE DEF s
    <2>4. u.machine.disk = m.disk
      BY <2>2 DEF Opened
    <2>5. CASE s.found /\ s.use.machine.ok
      <3> DEFINE v == w.use.machine
      <3>1. r = Return(v, w.octets[1])
        BY <2>1, <2>5 DEF InumberFound
      <3>2. \/ Halts(q.machine)
            \/ Uses(q, i, L) /\ Follows(u.machine.disk, q.machine.disk) /\ AtFound(q, basename)
        BY <2>3, <2>5, SeeksFound
      <3> HIDE DEF q
      <3>3. Ends(u.machine, v, L) /\ (Halts(v) \/ w.octets[1] \in Bloc)
        <4>1. CASE Halts(q.machine)
          BY <4>1, ReadHalts DEF Ends
        <4>2. CASE Uses(q, i, L) /\ Follows(u.machine.disk, q.machine.disk) /\ AtFound(q, basename)
          <5>1. \/ Halts(v)
                \/ On(v, L) /\ Follows(q.machine.disk, v.disk) /\ w.octets[1] \in Bloc
            BY <4>2, ReadsFound
          <5> HIDE DEF v
          <5> QED
            BY <4>2, <5>1, FollowsOn DEF Ends
        <4> QED
          BY <3>2, <4>1, <4>2
      <3> HIDE DEF w, v
      <3>4. Ends(m, v, L)
        BY <2>4, <3>3 DEF Ends
      <3>5. Ends(m, r, L) /\ r.ret = w.octets[1]
        BY <3>1, <3>4, EndsReturn
      <3>6. Halts(v) => ~r.ok
        BY <3>1, HaltsOn DEF Halts
      <3> QED
        BY <3>3, <3>5, <3>6
    <2>6. CASE ~(s.found /\ s.use.machine.ok)
      <3> DEFINE v == s.use.machine
      <3>1. r = Return(v, NULL_BLOC)
        BY <2>1, <2>6 DEF InumberFound
      <3>2. Ends(m, v, L)
        BY <2>3, <2>4 DEF Scans, Ends, Uses
      <3> HIDE DEF v
      <3> QED
        BY <1>0, <3>1, <3>2, EndsReturn
    <2> QED
      BY <2>5, <2>6
  <1> QED
    BY <1>1, <1>2, <1>3

-----------------------------------------------------------------------------
(* Pathnames and the calls.                                                *)

Numbers(m, r, L) == Ends(m, r, L) /\ (r.ok => r.ret \in Bloc)

\* What a pathname is made of.
Basenames == Names \cup {EMPTY, Long}

(* One name more of the walk.                                              *)
LEMMA WalkOnEnds ==
    ASSUME Roomy, NEW L \in AtMost(kills), NEW m, NEW at, Numbers(m, at, L),
           NEW basename \in Basenames, NEW root, root # NULL_BLOC,
           NEW r, r = WalkOn(at, basename, root)
    PROVE  Numbers(m, r, L)
  <1>1. CASE basename = EMPTY \/ at.ret = NULL_BLOC
    BY <1>1 DEF WalkOn
  <1>2. CASE ~(basename = EMPTY \/ at.ret = NULL_BLOC)
    <2>1. r = InumberOfBasename(at, at.ret, basename)
      BY <1>2 DEF WalkOn
    <2>2. CASE Halts(at)
      <3>1. r = Stopped(at)
        BY <2>1, <2>2 DEF InumberOfBasename, OnDirectory, IsInode, Halts
      <3>2. Halts(r)
        BY <2>2, <3>1, HaltsOn
      <3> QED
        BY <3>2 DEF Numbers, Ends, Halts
    <2>3. CASE ~Halts(at)
      <3>1. On(at, L) /\ Follows(m.disk, at.disk)
        BY <2>3 DEF Numbers, Ends
      <3> DEFINE i == at.ret
      <3>2. i \in Bloc \ {NULL_BLOC} /\ basename \in Names \cup {Long}
        BY <1>2, <3>1 DEF Numbers, On, Basenames
      <3>3. r = InumberOfBasename(at, i, basename)
        BY <2>1
      <3> HIDE DEF i
      <3>4. Ends(at, r, L) /\ (r.ok => r.ret \in Bloc)
        BY <3>1, <3>2, <3>3, InumberEnds
      <3> QED
        BY <3>1, <3>4, EndsOn DEF Numbers
    <2> QED
      BY <2>2, <2>3
  <1> QED
    BY <1>1, <1>2

\* What a walk along the path has done after n of its names.
Walking(m, path, root, n, g) ==
    g = [k \in 0 .. n |-> IF k = 0 THEN Return(m, root) ELSE WalkOn(g[k - 1], path[k], root)]

(* There is such a row.                                                    *)
LEMMA WalkingIs ==
    ASSUME NEW m, NEW path, NEW root, NEW n \in Nat
    PROVE  \E g : Walking(m, path, root, n, g)
  <1> DEFINE T == { x \in Nat : \E g : Walking(m, path, root, x, g) }
  <1>1. 0 \in T
    <2> DEFINE g == [k \in 0 .. 0 |-> Return(m, root)]
    <2>1. g = [k \in 0 .. 0 |-> IF k = 0 THEN Return(m, root) ELSE WalkOn(g[k - 1], path[k], root)]
      OBVIOUS
    <2>2. Walking(m, path, root, 0, g)
      BY <2>1 DEF Walking
    <2> HIDE DEF g
    <2> QED
      BY <2>2
  <1>2. ASSUME NEW x \in Nat, x \in T
        PROVE  x + 1 \in T
    <2>1. PICK g : Walking(m, path, root, x, g)
      BY <1>2
    <2> DEFINE h == [k \in 0 .. x + 1 |-> IF k <= x THEN g[k] ELSE WalkOn(g[x], path[k], root)]
               Step(k) == IF k = 0 THEN Return(m, root) ELSE WalkOn(h[k - 1], path[k], root)
    <2>2. ASSUME NEW k \in 0 .. x + 1
          PROVE  h[k] = Step(k)
      <3>1. CASE k = 0
        BY <2>1, <3>1 DEF Walking
      <3>2. CASE k # 0 /\ k <= x
        <4>1. k \in 0 .. x /\ k - 1 \in 0 .. x + 1 /\ k - 1 <= x
          BY <3>2
        <4>2. g[k] = WalkOn(g[k - 1], path[k], root)
          BY <2>1, <3>2, <4>1 DEF Walking
        <4> QED
          BY <3>2, <4>1, <4>2
      <3>3. CASE k = x + 1
        <4>1. x \in 0 .. x + 1 /\ k - 1 = x /\ k # 0 /\ ~(k <= x)
          BY <3>3
        <4> QED
          BY <4>1
      <3> QED
        BY <3>1, <3>2, <3>3
    <2>3. h = [k \in 0 .. x + 1 |-> Step(k)]
      BY <2>2
    <2>4. Walking(m, path, root, x + 1, h)
      BY <2>3 DEF Walking
    <2> QED
      BY <2>4
  <1> HIDE DEF T
  <1>3. n \in T
    BY <1>1, <1>2, Induction
  <1> QED
    BY <1>3 DEF T

(* What inumber_of_path computes.                                          *)
LEMMA WalkComputes ==
    ASSUME NEW m, NEW path, path # << >>, NEW n \in Nat, n = Len(path)
    PROVE  \E g : Walking(m, path, m.super.root, n, g) /\ InumberOfPath(m, path) = g[n]
  <1> DEFINE root == m.super.root
             walked[k \in 0 .. Len(path)] ==
               IF k = 0 THEN Return(m, root) ELSE WalkOn(walked[k - 1], path[k], root)
  <1>1. InumberOfPath(m, path) = walked[n]
    BY DEF InumberOfPath
  <1>2. walked = CHOOSE g : Walking(m, path, root, n, g)
    BY DEF Walking
  <1> HIDE DEF walked
  <1>3. Walking(m, path, root, n, walked)
    BY <1>2, WalkingIs
  <1> QED
    BY <1>1, <1>3

(***************************************************************************)
(* On a volume without a root, whose mknfs was killed, a walk reads nothing: *)
(* it ends with no bloc, or is stopped at its first name.                   *)
(***************************************************************************)
Idle(m, r) ==
    /\ Traced(r) /\ r.disk = m.disk /\ r.super = m.super /\ m.disk[0].kind = "super"
    /\ r.ok => r.ret = NULL_BLOC

(* One name of such a walk.                                                *)
LEMMA WalkOnIdle ==
    ASSUME NEW m, NEW at, Idle(m, at), NEW basename, NEW r, r = WalkOn(at, basename, NULL_BLOC)
    PROVE  Idle(m, r)
  <1>1. CASE r = at
    BY <1>1
  <1>2. CASE r # at
    <2>1. r = InumberOfBasename(at, at.ret, basename)
      BY <1>2 DEF WalkOn
    <2>2. ~IsInode(at, at.ret)
      BY DEF Idle, IsInode, NULL_BLOC
    <2>3. r = Stopped(at)
      BY <2>1, <2>2 DEF InumberOfBasename, OnDirectory
    <2>4. Traced(at)
      BY DEF Idle
    <2>5. Traced(r) /\ ~r.ok /\ r.disk = at.disk /\ r.super = at.super
      BY <2>3, <2>4, TracedStopped
    <2> QED
      BY <2>5 DEF Idle
  <1> QED
    BY <1>1, <1>2

\* What a walk from machine m has come to.
Walks(m, r, L) == IF m.super.root = NULL_BLOC THEN Idle(m, r) ELSE Numbers(m, r, L)

(* A whole walk.                                                           *)
LEMMA PathWalks ==
    ASSUME Roomy, NEW L \in AtMost(kills), NEW m, NEW path \in Seq(Basenames), path # << >>,
           Walks(m, Return(m, m.super.root), L), NEW r, r = InumberOfPath(m, path)
    PROVE  Walks(m, r, L)
  <1> DEFINE root == m.super.root
             n == Len(path)
  <1>1. n \in Nat /\ \A k \in 1 .. n : path[k] \in Basenames
    OBVIOUS
  <1>2. PICK g : Walking(m, path, root, n, g) /\ r = g[n]
    BY <1>1, WalkComputes
  <1> DEFINE Good(k) == Walks(m, g[k], L)
             T == { k \in Nat : k <= n => Good(k) }
  <1>3. 0 \in T
    <2>1. g[0] = Return(m, root)
      BY <1>1, <1>2 DEF Walking
    <2>2. Good(0)
      BY <2>1
    <2> HIDE DEF Good
    <2> QED
      BY <2>2
  <1> HIDE DEF n
  <1>4. ASSUME NEW k \in Nat, k \in T
        PROVE  k + 1 \in T
    <2>1. ASSUME k + 1 <= n
          PROVE  Good(k + 1)
      <3>1. /\ k \in 0 .. n /\ k + 1 \in 0 .. n /\ (k + 1) - 1 = k /\ k + 1 # 0 /\ k <= n
            /\ path[k + 1] \in Basenames
        BY <1>1, <2>1
      <3> DEFINE next == g[k + 1]
                 at == g[k]
                 basename == path[k + 1]
      <3>2. next = WalkOn(at, basename, root) /\ basename \in Basenames
        BY <1>2, <3>1 DEF Walking
      <3>3. Walks(m, at, L)
        <4>1. Good(k)
          <5> HIDE DEF Good
          <5> QED
            BY <1>4, <3>1
        <4> QED
          BY <4>1
      <3> HIDE DEF next, at, basename
      <3>4. CASE root = NULL_BLOC
        <4>1. Idle(m, at) /\ next = WalkOn(at, basename, NULL_BLOC)
          BY <3>2, <3>3, <3>4 DEF Walks
        <4>2. Idle(m, next)
          BY <4>1, WalkOnIdle
        <4> QED
          BY <3>4, <4>2 DEF Walks, next
      <3>5. CASE root # NULL_BLOC
        <4>1. Numbers(m, at, L)
          BY <3>3, <3>5 DEF Walks
        <4> HIDE DEF root
        <4>2. Numbers(m, next, L)
          BY <3>2, <3>5, <4>1, WalkOnEnds
        <4> QED
          BY <3>5, <4>2 DEF Walks, next, root
      <3> QED
        BY <3>4, <3>5
    <2> HIDE DEF Good
    <2> QED
      BY <2>1
  <1> HIDE DEF Good
  <1>5. Good(n)
    <2> HIDE DEF T
    <2>1. n \in T
      BY <1>1, <1>3, <1>4, Induction
    <2> QED
      BY <1>1, <2>1 DEF T
  <1> QED
    BY <1>2, <1>5 DEF Good

(* inumber_of_path.                                                        *)
LEMMA PathEnds ==
    ASSUME Roomy, NEW L \in AtMost(kills), NEW m, On(m, L), NEW path \in Seq(Basenames),
           NEW r, r = InumberOfPath(m, path)
    PROVE  Numbers(m, r, L)
  <1> DEFINE root == m.super.root
             start == Return(m, root)
  <1>1. root \in Bloc /\ root # NULL_BLOC /\ 0 \in Bloc
    <2> DEFINE d == m.disk
               s == m.super
    <2>1. Sane(d, s, L)
      BY DEF On
    <2> HIDE DEF d, s
    <2>2. s.root \in Bloc /\ s.root # NULL_BLOC /\ 0 \in Bloc
      BY ONLY <2>1, SaneIs
    <2> QED
      BY <2>2 DEF s
  <1>2. Ends(m, m, L)
    BY DEF Ends, Follows
  <1>3. CASE path = << >>
    <2>1. r = Return(m, NULL_BLOC)
      BY <1>3 DEF InumberOfPath
    <2> QED
      BY <1>1, <1>2, <2>1, EndsReturn DEF Numbers, NULL_BLOC
  <1>4. CASE path # << >>
    <2>1. Ends(m, start, L) /\ start.ret = root
      BY <1>2, EndsReturn
    <2> HIDE DEF start
    <2>2. Walks(m, start, L)
      BY <1>1, <2>1 DEF Walks, Numbers
    <2>3. Walks(m, r, L)
      BY <1>4, <2>2, PathWalks DEF start
    <2> QED
      BY <1>1, <2>3 DEF Walks
  <1> QED
    BY <1>3, <1>4

(* The last basename, and the pathname without it.                         *)
LEMMA PathParts ==
    ASSUME NEW path \in Seq(Basenames), path # << >>
    PROVE  Last(path) \in Basenames /\ Dirname(path) \in Seq(Basenames)
  <1>1. Len(path) \in 1 .. Len(path) /\ Len(path) \in Nat /\ DOMAIN path = 1 .. Len(path)
    OBVIOUS
  <1>2. EMPTY \in Basenames
    BY DEF Basenames
  <1>3. Dirname(path) \in [1 .. Len(path) -> Basenames]
    BY <1>1, <1>2 DEF Dirname
  <1> QED
    BY <1>1, <1>3 DEF Last

(* dinumber_of_path.                                                       *)
LEMMA DinumberEnds ==
    ASSUME Roomy, NEW L \in AtMost(kills), NEW m, On(m, L), NEW path \in Seq(Basenames),
           NEW r, r = DinumberOfPath(m, path)
    PROVE  Numbers(m, r, L) /\ (path = << >> => r.ret = NULL_BLOC)
  <1>1. NULL_BLOC \in Bloc /\ Ends(m, m, L)
    BY DEF Bloc, NULL_BLOC, NSectorAssumption, Ends, Follows
  <1>2. CASE path = << >>
    <2>1. r = Return(m, NULL_BLOC)
      BY <1>2 DEF DinumberOfPath
    <2> QED
      BY <1>1, <2>1, EndsReturn DEF Numbers
  <1>3. CASE path # << >>
    <2> DEFINE dir == InumberOfPath(m, Dirname(path))
    <2>1. r = IfDirectory(dir)
      BY <1>3 DEF DinumberOfPath
    <2>2. Numbers(m, dir, L)
      BY <1>3, PathParts, PathEnds
    <2> HIDE DEF dir
    <2>3. CASE ~dir.ok \/ dir.ret = NULL_BLOC
      BY <1>3, <2>1, <2>2, <2>3 DEF IfDirectory
    <2>4. CASE ~(~dir.ok \/ dir.ret = NULL_BLOC)
      <3>1. r = Stopped(dir) \/ r = Return(dir, NULL_BLOC) \/ r = dir
        BY <2>1, <2>4 DEF IfDirectory, OnDirectory
      <3>2. On(dir, L) /\ Follows(m.disk, dir.disk)
        BY <2>2, <2>4 DEF Numbers, Ends, Halts
      <3>3. CASE r = dir
        BY <1>3, <2>2, <3>3
      <3>4. CASE r # dir
        <4> DEFINE ret == NULL_BLOC
        <4>2. L \in AtMost(kills) /\ On(dir, L) /\ (r = Stopped(dir) \/ r = Return(dir, ret))
          BY <3>1, <3>2, <3>4
        <4> HIDE DEF ret
        <4>3. Ends(dir, r, L) /\ (r.ok => r.ret = ret)
          <5>1. CASE r = Stopped(dir)
            BY <4>2, <5>1, TracedStopped DEF Ends, On
          <5>2. CASE r = Return(dir, ret)
            BY <4>2, <5>2, EndsAtOnce
          <5> QED
            BY <4>2, <5>1, <5>2
        <4>1. Ends(dir, r, L) /\ (r.ok => r.ret = NULL_BLOC)
          BY <4>3 DEF ret
        <4> QED
          BY <1>1, <1>3, <3>2, <4>1, EndsOn DEF Numbers
      <3> QED
        BY <3>3, <3>4
    <2> QED
      BY <2>3, <2>4
  <1> QED
    BY <1>2, <1>3

(* create_inode: the bloc of the inode is lost no more; on a full volume    *)
(* bloc 0 is written and 0 returned.                                       *)
LEMMA CreatesInode ==
    ASSUME NEW L \in AtMost(kills), NEW m, On(m, L), NEW type \in Types,
           NEW r, r = CreateInode(m, type)
    PROVE  Ends(m, r, L) /\ (r.ok => r.ret \in InodesOf(r.disk) \cup {NULL_BLOC})
  <1> DEFINE g == NewBloc(m)
             c == NewInode(type)
             b == g.ret
  <1>1. r = WriteBloc(g, b, c)
    BY DEF CreateInode, WriteFound, NewInode
  <1>2. Gets(m, g, L)
    BY Got
  <1>3. c \in Contents /\ c.kind = "inode"
    BY ContentsIs DEF NewInode, Inode
  <1> HIDE DEF g, c
  <1>4. CASE Halts(g)
    <2>1. r = g
      BY <1>1, <1>4, HaltsOn
    <2> QED
      BY <1>4, <2>1 DEF Ends, Halts
  <1>5. CASE ~Halts(g)
    <2> DEFINE M == With(L, b)
               d == g.disk
               s == g.super
    <2>1. /\ On(g, M) /\ M \in AtMost(kills + 1) /\ M \ {b} = L /\ b \in Bloc
          /\ Follows(m.disk, d)
          /\ b = NULL_BLOC => s.nb_free_blc = 0
      BY <1>2, <1>5 DEF Gets
    <2>2. Sane(d, s, M)
      BY <2>1 DEF On
    <2>3. L \in AtMost(kills + 1)
      BY <2>1, LeftMore DEF On, Traced
    <2>4. CASE b = NULL_BLOC
      <3>1. M = L
        BY <2>4 DEF With
      <3>2. Sane(d, s, L) /\ b \in L \cup {0} /\ (b = 0 => s.nb_free_blc = 0 /\ c.kind # "super")
            /\ (b # 0 => c.kind # "inode") /\ c \in Contents
        BY <1>3, <2>1, <2>2, <2>4, <3>1 DEF NULL_BLOC
      <3> HIDE DEF d, s, M, b
      <3>3. Leaves(d, s, b, c, L)
        BY ONLY <3>2, WriteLost
      <3>4. On(g, L) /\ b \in Bloc /\ Leaves(g.disk, g.super, b, c, L) /\ r = WriteBloc(g, b, c)
        BY <1>1, <2>1, <3>1, <3>3 DEF d, s
      <3>5. On(r, L) /\ Follows(d, r.disk) /\ r.ret = g.ret
        BY <1>3, <2>3, <3>4, OnWrite DEF d
      <3> QED
        BY <2>1, <2>4, <3>5, FollowsOn DEF Ends, b
    <2>5. CASE b # NULL_BLOC
      <3>1. b \in M
        BY <2>5 DEF With
      <3> HIDE DEF d, s, M, b
      <3>2. Leaves(d, s, b, c, M \ {b}) /\ b \in InodesOf(Put(d, b, c))
        BY <2>2, <3>1, WriteNew DEF c
      <3>3. /\ On(g, M) /\ b \in Bloc /\ c \in Contents /\ L \in AtMost(kills + 1)
            /\ Leaves(g.disk, g.super, b, c, L) /\ r = WriteBloc(g, b, c)
        <4>1. Leaves(d, s, b, c, L)
          BY <2>1, <3>2
        <4> QED
          BY <1>1, <1>3, <2>1, <2>3, <4>1 DEF d, s, b
      <3>4. On(r, L) /\ Follows(g.disk, r.disk) /\ r.disk = Put(g.disk, b, c) /\ r.ret = g.ret
        BY ONLY <3>3, OnWrite
      <3> QED
        BY <2>1, <3>2, <3>4, FollowsOn DEF Ends, b, d
    <2> QED
      BY <2>4, <2>5
  <1> QED
    BY <1>4, <1>5

\* What a call answers.
Answers == Bloc \cup {RETURN_FAILURE, NONE, STOPPED}

\* A call has ended, and what it returned is an answer.
Called(m, r, L) == Ends(m, r, L) /\ (r.ok => r.ret \in Answers)

(* A call that stops on the way.                                           *)
LEMMA CalledHalts ==
    ASSUME NEW m, NEW L, NEW r, Halts(r)
    PROVE  Called(m, r, L)
  BY DEF Called, Ends, Halts

(* create_file: the directory is found, the inode made, and the entry put.  *)
LEMMA CreateFileCalled ==
    ASSUME Roomy, NEW L \in AtMost(kills), NEW m, On(m, L), NEW path \in Seq(Basenames),
           NEW type \in Types, NEW r, r = CreateFile(m, path, type)
    PROVE  Called(m, r, L)
  <1> DEFINE dir == DinumberOfPath(m, path)
             new == CreateInode(dir, type)
             i == dir.ret
             n == new.ret
             basename == Last(path)
  <1>0. RETURN_FAILURE \in Answers /\ RETURN_SUCCESS \in Answers
    BY DEF Answers, RETURN_SUCCESS, Bloc, NSectorAssumption
  <1>1. Numbers(m, dir, L) /\ (path = << >> => dir.ret = NULL_BLOC)
    BY DinumberEnds
  <1>2. r = IF ~dir.ok THEN dir ELSE IF i = NULL_BLOC THEN Return(dir, RETURN_FAILURE)
            ELSE IF ~new.ok THEN new ELSE IF n = NULL_BLOC THEN Return(new, RETURN_FAILURE)
            ELSE AddEntry(new, i, n, basename)
    BY DEF CreateFile, OnInumber
  <1> HIDE DEF dir
  <1>3. CASE ~dir.ok
    BY <1>1, <1>2, <1>3 DEF Numbers, Called
  <1>4. CASE dir.ok /\ i = NULL_BLOC
    <2>1. r = Return(dir, RETURN_FAILURE) /\ Ends(m, dir, L)
      BY <1>1, <1>2, <1>4 DEF Numbers
    <2> QED
      BY <1>0, <2>1, EndsReturn DEF Called
  <1>5. CASE dir.ok /\ i # NULL_BLOC
    <2>1. On(dir, L) /\ Follows(m.disk, dir.disk) /\ i \in Bloc \ {NULL_BLOC} /\ path # << >>
      BY <1>1, <1>5 DEF Numbers, Ends, Halts
    <2>2. Ends(dir, new, L) /\ (new.ok => n \in InodesOf(new.disk) \cup {NULL_BLOC})
      BY <2>1, CreatesInode
    <2>3. Ends(m, new, L)
      BY <2>1, <2>2, EndsOn
    <2> HIDE DEF new
    <2>4. CASE ~new.ok
      BY <1>2, <1>5, <2>3, <2>4 DEF Called
    <2>5. CASE new.ok /\ n = NULL_BLOC
      <3>1. r = Return(new, RETURN_FAILURE)
        BY <1>2, <1>5, <2>5
      <3> QED
        BY <1>0, <2>3, <3>1, EndsReturn DEF Called
    <2>6. CASE new.ok /\ n # NULL_BLOC
      <3>1. On(new, L) /\ Follows(m.disk, new.disk)
        BY <2>3, <2>6 DEF Ends, Halts
      <3>2. basename \in Names \cup {EMPTY, Long}
        BY <2>1, PathParts DEF Basenames
      <3>3. r = AddEntry(new, i, n, basename) /\ n \in InodesOf(new.disk) \cup {NULL_BLOC}
        BY <1>2, <1>5, <2>2, <2>6
      <3> HIDE DEF i, n, basename
      <3>4. Ends(new, r, L) /\ (r.ok => r.ret \in {RETURN_SUCCESS, RETURN_FAILURE})
        BY <2>1, <3>1, <3>2, <3>3, AddEntryEnds
      <3> QED
        BY <1>0, <3>1, <3>4, EndsOn DEF Called
    <2> QED
      BY <2>4, <2>5, <2>6
  <1> QED
    BY <1>3, <1>4, <1>5

(* delete_file.                                                            *)
LEMMA DeleteFileCalled ==
    ASSUME Roomy, NEW L \in AtMost(kills), NEW m, On(m, L), NEW path \in Seq(Basenames),
           NEW r, r = DeleteFile(m, path)
    PROVE  Called(m, r, L)
  <1> DEFINE dir == DinumberOfPath(m, path)
             i == dir.ret
             basename == Last(path)
  <1>0. RETURN_FAILURE \in Answers /\ ENTRY \in Answers
    BY DEF Answers, ENTRY, Bloc, NSectorAssumption
  <1>1. Numbers(m, dir, L)
    BY DinumberEnds
  <1>2. r = IF ~dir.ok THEN dir ELSE IF i = NULL_BLOC THEN Return(dir, RETURN_FAILURE)
            ELSE DelEntry(dir, i, basename)
    BY DEF DeleteFile, OnInumber
  <1> HIDE DEF dir
  <1>3. CASE ~dir.ok
    BY <1>1, <1>2, <1>3 DEF Numbers, Called
  <1>4. CASE dir.ok /\ i = NULL_BLOC
    <2>1. r = Return(dir, RETURN_FAILURE) /\ Ends(m, dir, L)
      BY <1>1, <1>2, <1>4 DEF Numbers
    <2> QED
      BY <1>0, <2>1, EndsReturn DEF Called
  <1>5. CASE dir.ok /\ i # NULL_BLOC
    <2>1. /\ On(dir, L) /\ Follows(m.disk, dir.disk) /\ i \in Bloc \ {NULL_BLOC}
          /\ r = DelEntry(dir, i, basename)
      BY <1>1, <1>2, <1>5 DEF Numbers, Ends, Halts
    <2> HIDE DEF i, basename
    <2>2. Ends(dir, r, L) /\ (r.ok => r.ret \in {ENTRY, RETURN_FAILURE})
      BY <2>1, DelEntryEnds
    <2> QED
      BY <1>0, <2>1, <2>2, EndsOn DEF Called
  <1> QED
    BY <1>3, <1>4, <1>5

(* open_file and what reads the file: what is no inode stops the program.   *)
LEMMA OpenFileCalled ==
    ASSUME Roomy, NEW L \in AtMost(kills), NEW m, On(m, L), NEW path \in Seq(Basenames),
           NEW r, r = OpenFile(m, path)
    PROVE  Called(m, r, L)
  <1> DEFINE found == InumberOfPath(m, path)
             i == found.ret
             u == OpenIfile(found, i)
             v == u.machine
  <1>0. RETURN_FAILURE \in Answers
    BY DEF Answers
  <1>1. Numbers(m, found, L)
    BY PathEnds
  <1>2. r = IF ~found.ok THEN found ELSE IF i = NULL_BLOC THEN Return(found, RETURN_FAILURE)
            ELSE Return(v, i)
    BY DEF OpenFile, OnInumber
  <1> HIDE DEF found
  <1>3. CASE ~found.ok
    BY <1>1, <1>2, <1>3 DEF Numbers, Called
  <1>4. CASE found.ok /\ i = NULL_BLOC
    <2>1. r = Return(found, RETURN_FAILURE) /\ Ends(m, found, L)
      BY <1>1, <1>2, <1>4 DEF Numbers
    <2> QED
      BY <1>0, <2>1, EndsReturn DEF Called
  <1>5. CASE found.ok /\ i # NULL_BLOC
    <2>1. /\ On(found, L) /\ Follows(m.disk, found.disk) /\ i \in Bloc \ {NULL_BLOC}
          /\ r = Return(v, i) /\ u = OpenIfile(found, i)
      BY <1>1, <1>2, <1>5 DEF Numbers, Ends, Halts
    <2> HIDE DEF i
    <2>2. Ends(found, v, L)
      <3>1. CASE IsInode(found, i)
        <4>1. i \in InodesOf(found.disk)
          BY <2>1, <3>1, IsInodeOf
        <4> HIDE DEF u
        <4>2. Uses(u, i, L) /\ u.machine.disk = found.disk
          BY <2>1, <4>1, OpenUses
        <4> QED
          BY <4>2 DEF Ends, Uses, Follows
      <3>2. CASE ~IsInode(found, i)
        <4>1. v = Stopped(found)
          <5>1. found.disk[i].kind # "inode"
            BY <2>1, <3>2 DEF IsInode, On
          <5>2. VblocOfFbloc(found, i, 0) = Stopped(found)
            BY <5>1 DEF VblocOfFbloc, AuxVblocOfFbloc
          <5>3. u = OnceFound(Stopped(found), i)
            BY <2>1, <5>2 DEF OpenIfile
          <5> QED
            BY <5>3 DEF OnceFound, Using
        <4> HIDE DEF v
        <4> QED
          BY <2>1, <4>1, EndsAtOnce
      <3> QED
        BY <3>1, <3>2
    <2> HIDE DEF v
    <2>3. Ends(m, v, L)
      BY <2>1, <2>2, EndsOn
    <2>4. Ends(m, r, L) /\ r.ret = i
      BY <2>1, <2>3, EndsReturn
    <2> QED
      BY <2>1, <2>4 DEF Called, Answers
  <1> QED
    BY <1>3, <1>4, <1>5

-----------------------------------------------------------------------------
(* The calls on a volume without a root.                                   *)

(* What create_file, delete_file and open_file do after a walk that is idle. *)
LEMMA IdleCalled ==
    ASSUME NEW m, NEW dir, Idle(m, dir), NEW r,
           r = IF ~dir.ok THEN dir ELSE Return(dir, RETURN_FAILURE)
    PROVE  Traced(r) /\ r.disk = m.disk /\ r.super = m.super /\ (r.ok => r.ret \in Answers)
  <1>1. CASE ~dir.ok
    BY <1>1 DEF Idle
  <1>2. CASE dir.ok
    <2>1. r = Return(dir, RETURN_FAILURE) /\ Traced(dir)
      BY <1>2 DEF Idle
    <2>2. Traced(r) /\ r.disk = dir.disk /\ r.super = dir.super /\ r.ret = RETURN_FAILURE
      BY <2>1, TracedReturn
    <2> QED
      BY <2>2 DEF Idle, Answers
  <1> QED
    BY <1>1, <1>2

\* A machine that begins a call on such a volume.
Rootless(m) == Traced(m) /\ m.super.root = NULL_BLOC /\ m.disk[0].kind = "super"

(* A walk from it.                                                         *)
LEMMA PathIdle ==
    ASSUME Roomy, NEW m, Rootless(m), NEW path \in Seq(Basenames),
           NEW r, r = InumberOfPath(m, path)
    PROVE  Idle(m, r)
  <1> DEFINE start == Return(m, NULL_BLOC)
  <1>1. Idle(m, start)
    BY TracedReturn DEF Rootless, Idle
  <1>2. CASE path = << >>
    BY <1>1, <1>2 DEF InumberOfPath
  <1>3. CASE path # << >>
    <2>1. m.super.root = NULL_BLOC /\ Return(m, m.super.root) = start
      BY DEF Rootless
    <2> HIDE DEF start
    <2> DEFINE L == {}
    <2>2. Walks(m, Return(m, m.super.root), L)
      BY <1>1, <2>1 DEF Walks
    <2>3. L \in AtMost(kills)
      <3>1. kills \in Nat
        BY DEF Rootless, Traced
      <3>2. Cardinality({}) = 0
        BY FS_EmptySet
      <3> QED
        BY <3>1, <3>2 DEF AtMost
    <2> HIDE DEF L
    <2>4. Walks(m, r, L)
      BY <1>3, <2>2, <2>3, PathWalks
    <2> QED
      BY <2>1, <2>4 DEF Walks
  <1> QED
    BY <1>2, <1>3

(* The walk to a directory.                                                *)
LEMMA DinumberIdle ==
    ASSUME Roomy, NEW m, Rootless(m), NEW path \in Seq(Basenames),
           NEW r, r = DinumberOfPath(m, path)
    PROVE  Idle(m, r)
  <1>1. CASE path = << >>
    <2>1. r = Return(m, NULL_BLOC)
      BY <1>1 DEF DinumberOfPath
    <2> QED
      BY <2>1, TracedReturn DEF Rootless, Idle
  <1>2. CASE path # << >>
    <2> DEFINE dir == InumberOfPath(m, Dirname(path))
    <2>1. r = IfDirectory(dir)
      BY <1>2 DEF DinumberOfPath
    <2>2. Idle(m, dir)
      BY <1>2, PathParts, PathIdle
    <2> HIDE DEF dir
    <2>3. ~dir.ok \/ dir.ret = NULL_BLOC
      BY <2>2 DEF Idle
    <2>4. r = dir
      BY <2>1, <2>3 DEF IfDirectory
    <2> QED
      BY <2>2, <2>4
  <1> QED
    BY <1>1, <1>2

-----------------------------------------------------------------------------
(* A call of a program, whatever the state of the volume.                  *)

\* What a program may have in memory of disk d after n kills.
Program(n, d, s) ==
    \/ s = NoSuper
    \/ s = d[0] /\ s.kind = "super" /\ s.root = NULL_BLOC
    \/ \E L \in AtMost(n) : Sane(d, s, L)

\* The machine a call leaves.
Result(m) ==
    /\ Traced(m) /\ m.disk \in Left(kills)
    /\ m.ok => m.ret \in Answers /\ Program(kills, m.disk, m.super)

(* A call on a disk in order.                                              *)
LEMMA CalledResult ==
    ASSUME NEW m, NEW L \in AtMost(kills), NEW r, Called(m, r, L)
    PROVE  Result(r)
  <1>1. CASE Halts(r)
    BY <1>1 DEF Result, Halts
  <1>2. CASE ~Halts(r)
    <2>1. On(r, L) /\ r.ret \in Answers
      BY <1>2 DEF Called, Ends, On
    <2> DEFINE d == r.disk
               s == r.super
    <2>2. Sane(d, s, L)
      BY <2>1 DEF On
    <2> HIDE DEF d, s
    <2>3. d \in Left(kills) /\ Program(kills, d, s)
      BY <2>2, SaneLeft DEF Program
    <2> QED
      BY <2>1, <2>3 DEF Result, On, d, s
  <1> QED
    BY <1>1, <1>2

\* The inductive invariant.
IInv ==
    /\ disk \in Left(kills) /\ Program(kills, disk, super)
    /\ answer \in [call : {"none", "mknfs", "create", "delete", "open"},
                   path : Paths \cup {<< >>}, ret : Answers]
    /\ kills \in 0 .. MaxKills

(* Every call of a program ends in such a machine.                         *)
LEMMA Calls ==
    ASSUME Roomy, IInv, super # NoSuper, NEW path \in Paths, NEW type \in Types,
           NEW r, \/ r = CreateFile(Now, path, type)
                  \/ r = DeleteFile(Now, path)
                  \/ r = OpenFile(Now, path)
    PROVE  Result(r)
  <1> DEFINE m == Now
  <1>1. kills \in Nat /\ Disk(Contents, disk) /\ path \in Seq(Basenames)
    BY DirectoryAssumption DEF IInv, Left, Disk, Basenames
  <1>2. Traced(m) /\ m.ok /\ m.disk = disk /\ m.super = super
    BY <1>1, TracedNow
  <1> HIDE DEF m
  <1>3. /\ \/ r = CreateFile(m, path, type)
           \/ r = DeleteFile(m, path)
           \/ r = OpenFile(m, path)
    BY DEF m
  <1>4. ASSUME NEW L \in AtMost(kills), Sane(disk, super, L)
        PROVE  Result(r)
    <2>1. On(m, L)
      BY <1>2, <1>4 DEF On
    <2>2. Called(m, r, L)
      <3>1. CASE r = CreateFile(m, path, type)
        BY <1>1, <2>1, <3>1, CreateFileCalled
      <3>2. CASE r = DeleteFile(m, path)
        BY <1>1, <2>1, <3>2, DeleteFileCalled
      <3>3. CASE r = OpenFile(m, path)
        BY <1>1, <2>1, <3>3, OpenFileCalled
      <3> QED
        BY <1>3, <3>1, <3>2, <3>3
    <2> QED
      BY <2>2, CalledResult
  <1>5. ASSUME super = disk[0], super.kind = "super", super.root = NULL_BLOC
        PROVE  Result(r)
    <2>1. Rootless(m)
      BY <1>2, <1>5 DEF Rootless
    <2>2. ASSUME NEW dir, Idle(m, dir), r = IF ~dir.ok THEN dir ELSE Return(dir, RETURN_FAILURE)
          PROVE  Result(r)
      <3>1. Traced(r) /\ r.disk = disk /\ r.super = super /\ (r.ok => r.ret \in Answers)
        BY <1>2, <2>2, IdleCalled
      <3> QED
        BY <1>5, <3>1 DEF Result, Program, IInv
    <2>3. CASE r = CreateFile(m, path, type)
      <3> DEFINE dir == DinumberOfPath(m, path)
      <3>1. Idle(m, dir)
        BY <1>1, <2>1, DinumberIdle
      <3>2. r = IF ~dir.ok THEN dir ELSE Return(dir, RETURN_FAILURE)
        BY <2>3, <3>1 DEF CreateFile, OnInumber, Idle
      <3> QED
        BY <2>2, <3>1, <3>2
    <2>4. CASE r = DeleteFile(m, path)
      <3> DEFINE dir == DinumberOfPath(m, path)
      <3>1. Idle(m, dir)
        BY <1>1, <2>1, DinumberIdle
      <3>2. r = IF ~dir.ok THEN dir ELSE Return(dir, RETURN_FAILURE)
        BY <2>4, <3>1 DEF DeleteFile, OnInumber, Idle
      <3> QED
        BY <2>2, <3>1, <3>2
    <2>5. CASE r = OpenFile(m, path)
      <3> DEFINE dir == InumberOfPath(m, path)
      <3>1. Idle(m, dir)
        BY <1>1, <2>1, PathIdle
      <3>2. r = IF ~dir.ok THEN dir ELSE Return(dir, RETURN_FAILURE)
        BY <2>5, <3>1 DEF OpenFile, OnInumber, Idle
      <3> QED
        BY <2>2, <3>1, <3>2
    <2> QED
      BY <1>3, <2>3, <2>4, <2>5
  <1>6. Program(kills, disk, super)
    BY DEF IInv
  <1> QED
    BY <1>4, <1>5, <1>6 DEF Program

(* What is left by a program killed in a call.                             *)
LEMMA KilledKeeps ==
    ASSUME IInv, NEW m, Traced(m), NEW call \in {"mknfs", "create", "delete", "open"},
           NEW path \in Paths \cup {<< >>}, Killed(m, call, path)
    PROVE  IInv'
  <1>1. PICK n \in 1 .. Len(m.log) - 1 : disk' = After(disk, m.log, n)
    BY DEF Killed
  <1>2. disk' \in Left(kills + 1)
    <2>1. Len(m.log) \in Nat /\ \A k \in 1 .. Len(m.log) : After(disk, m.log, k) \in Left(kills + 1)
      BY DEF Traced
    <2>2. n \in 1 .. Len(m.log)
      BY <2>1
    <2> QED
      BY <1>1, <2>1, <2>2
  <1>3. /\ kills' = kills + 1 /\ kills' \in 0 .. MaxKills /\ super' = NoSuper
        /\ answer' = Answer(call, path, STOPPED)
    BY DirectoryAssumption DEF Killed, IInv
  <1>4. answer' \in [call : {"none", "mknfs", "create", "delete", "open"},
                     path : Paths \cup {<< >>}, ret : Answers]
    BY <1>3 DEF Answer, Answers
  <1> QED
    BY <1>2, <1>3, <1>4 DEF IInv, Program

(* A call of a program, that returns, is stopped or killed.                *)
LEMMA CallKeeps ==
    ASSUME IInv, NEW m, Result(m), NEW call \in {"create", "delete", "open"},
           NEW path \in Paths, Call(call, path, m)
    PROVE  IInv'
  <1>1. Returns(m, call, path) \/ Killed(m, call, path)
    BY DEF Call
  <1>2. CASE Killed(m, call, path)
    BY <1>2, KilledKeeps DEF Result
  <1>3. CASE Returns(m, call, path)
    <2>1. /\ disk' = m.disk /\ kills' = kills
          /\ super' = IF m.ok THEN m.super ELSE NoSuper
          /\ answer' = Answer(call, path, IF m.ok THEN m.ret ELSE STOPPED)
      BY <1>3 DEF Returns
    <2>2. disk' \in Left(kills') /\ Program(kills', disk', super')
      BY <2>1 DEF Result, Program
    <2>3. answer' \in [call : {"none", "mknfs", "create", "delete", "open"},
                       path : Paths \cup {<< >>}, ret : Answers]
      <3> DEFINE ret == IF m.ok THEN m.ret ELSE STOPPED
      <3>1. ret \in Answers
        BY DEF Result, Answers
      <3>2. answer' = Answer(call, path, ret)
        BY <2>1
      <3> HIDE DEF ret
      <3> QED
        BY <3>1, <3>2 DEF Answer
    <2> QED
      BY <2>1, <2>2, <2>3 DEF IInv
  <1> QED
    BY <1>1, <1>2, <1>3

-----------------------------------------------------------------------------
(* mknfs.                                                                  *)

(* A volume without a root may be left by any number of kills.             *)
LEMMA LeftRootless ==
    ASSUME NEW d, Disk(Contents, d), d[0].kind = "super" => d[0].root = NULL_BLOC, NEW n
    PROVE  d \in Left(n)
  BY DEF Left, Disk

(* A machine with another super bloc in memory.                            *)
LEMMA TracedChanged ==
    ASSUME NEW m, Traced(m), NEW s, NEW r, r = Changed(m, s)
    PROVE  /\ Traced(r) /\ r.disk = m.disk /\ r.super = s /\ r.ret = m.ret
           /\ r.ok <=> m.ok
  <1>1. /\ DOMAIN m = Fields /\ DOMAIN r = Fields /\ r.disk = m.disk /\ r.super = s
        /\ r.log = m.log /\ r.ret = m.ret
    BY DEF Changed, Traced, Fields
  <1>2. r.ok = m.ok
    BY <1>1 DEF Changed, Fields
  <1> QED
    BY <1>1, <1>2 DEF Traced

(* A write of a program that has not written a root.                       *)
LEMMA Formats ==
    ASSUME NEW m, Traced(m), m.ok, NEW d, d = m.disk, Disk(Contents, d),
           NEW b \in Bloc, NEW c \in Contents, NEW d2, d2 = Put(d, b, c),
           d2[0].kind = "super" => d2[0].root = NULL_BLOC, NEW w, w = WriteBloc(m, b, c)
    PROVE  /\ Traced(w) /\ w.ok /\ w.disk = d2 /\ w.super = m.super /\ w.ret = m.ret
           /\ Disk(Contents, d2) /\ d2[b] = c /\ \A x \in Bloc : x # b => d2[x] = d[x]
           /\ d2 \in Left(kills)
  <1>1. /\ Disk(Contents, d2) /\ d2[b] = c /\ \A x \in Bloc : x # b => d2[x] = d[x]
    BY PutIs
  <1>2. d2 \in Left(kills + 1) /\ d2 \in Left(kills)
    BY <1>1, LeftRootless
  <1>3. Put(m.disk, b, c) \in Left(kills + 1)
    BY <1>2
  <1>4. /\ Traced(w) /\ w.ok /\ w.disk = Put(m.disk, b, c)
        /\ w.super = m.super /\ w.ret = m.ret
    BY <1>3, TracedWrite
  <1> QED
    BY <1>1, <1>2, <1>4

(* The volume mknfs has made: its root is the only inode.                  *)
LEMMA SaneRooted ==
    ASSUME NSector > 2, NEW d, Disk(Contents, d), d[2] = Header,
           \A b \in Bloc \ 0 .. 2 : d[b] = Zero,
           d[1] = NewInode("DIRECTORY"), NEW s, s = Super(1, NSector - 2, 2), NEW d2, d2 = Put(d, 0, s)
    PROVE  Sane(d2, s, {})
  <1> DEFINE c == NewInode("DIRECTORY")
             mid == Put(d, 1, Zero)
             old == Put(mid, 0, s)
  <1>1. /\ 0 \in Bloc /\ 1 \in Bloc /\ 2 \in Bloc /\ NSector - 2 \in Nat /\ NSector \in Nat
        /\ 2 \in 2 .. NSector
    BY DEF Bloc, NSectorAssumption
  <1>2. s \in Contents /\ Zero \in Contents /\ c \in Contents /\ "DIRECTORY" \in Types
    <2>1. Zero \in Contents
      BY DEF Contents
    <2>2. "DIRECTORY" \in Types
      BY DEF Types
    <2>3. s \in Contents
      BY <1>1, ContentsIs
    <2> QED
      BY <2>1, <2>2, <2>3, ContentsIs
  <1>3. s.kind = "super" /\ s.root = 1 /\ s.nb_free_blc = NSector - 2 /\ s.first_free = 2
    BY Kinds
  <1> HIDE DEF c
  <1>4. /\ Disk(Contents, old) /\ old[0] = s /\ old[1] = Zero
        /\ \A b \in Bloc : b # 0 /\ b # 1 => old[b] = d[b]
    <2>1. Disk(Contents, mid) /\ mid[1] = Zero /\ \A b \in Bloc : b # 1 => mid[b] = d[b]
      BY <1>1, <1>2, PutIs
    <2> HIDE DEF mid
    <2>2. Disk(Contents, old) /\ old[0] = s /\ \A b \in Bloc : b # 0 => old[b] = mid[b]
      <3>1. Disk(Contents, mid) /\ 0 \in Bloc /\ s \in Contents
        BY <1>1, <1>2, <2>1
      <3>2. /\ Disk(Contents, Put(mid, 0, s)) /\ Put(mid, 0, s)[0] = s
            /\ \A x \in Bloc : x # 0 => Put(mid, 0, s)[x] = mid[x]
        BY ONLY <3>1, PutIs
      <3> QED
        BY ONLY <3>2
    <2> HIDE DEF old
    <2> QED
      BY <1>1, <2>1, <2>2
  <1> HIDE DEF old
  <1>5. d2 = Put(old, 1, c)
    <2>1. Disk(Contents, d2) /\ d2[0] = s /\ \A b \in Bloc : b # 0 => d2[b] = d[b]
      <3>1. Disk(Contents, d) /\ 0 \in Bloc /\ s \in Contents
        BY <1>1, <1>2
      <3>2. /\ Disk(Contents, Put(d, 0, s)) /\ Put(d, 0, s)[0] = s
            /\ \A x \in Bloc : x # 0 => Put(d, 0, s)[x] = d[x]
        BY ONLY <3>1, PutIs
      <3> QED
        BY <3>2
    <2>2. /\ Disk(Contents, Put(old, 1, c)) /\ Put(old, 1, c)[1] = c
          /\ \A b \in Bloc : b # 1 => Put(old, 1, c)[b] = old[b]
      BY ONLY <1>1, <1>2, <1>4, PutIs
    <2>3. \A b \in Bloc : d2[b] = Put(old, 1, c)[b]
      BY <1>1, <1>4, <2>1, <2>2 DEF c
    <2> QED
      BY <2>1, <2>2, <2>3 DEF Disk
  <1>6. InodesOf(old) = {}
    BY <1>1, <1>4, Kinds DEF InodesOf, Bloc, Header
  <1>7. Used(s) = {1}
    BY <1>3 DEF Used
  <1>8. FreeEnd(old, s)
    <2>1. old[2] = Header /\ \A b \in Bloc : b > 2 => old[b] = Zero
      BY <1>1, <1>4 DEF Bloc
    <2>2. Saved(old, s)
      BY <1>4 DEF Saved
    <2> HIDE DEF Header, Zero
    <2> QED
      BY <1>1, <1>2, <1>3, <2>1, <2>2 DEF FreeEnd, NULL_BLOC
  <1>9. Kept(old, InodesOf(old), Used(s) \ {1})
    BY <1>6, <1>7 DEF Kept, Apart, Covers
  <1>10. Sane(old, s, {1})
    BY <1>4, <1>7, <1>8, <1>9 DEF Sane
  <1>11. Leaves(old, s, 1, c, {1} \ {1})
    BY <1>2, <1>10, WriteNew DEF c
  <1>12. {1} \ {1} = {}
    OBVIOUS
  <1> QED
    BY <1>5, <1>11, <1>12 DEF Leaves

\* What mknfs does, step by step.
Formatted == Super(NULL_BLOC, NSector - 1, 1)

(* The super bloc and the header of the free blocs.                        *)
LEMMA Initialises ==
    ASSUME Disk(Contents, disk), kills \in Nat, NEW r, r = InitSuper(Now)
    PROVE  /\ Traced(r) /\ r.ok /\ r.super = Formatted /\ Disk(Contents, r.disk)
           /\ r.disk[0] = Formatted /\ r.disk[1] = Header
           /\ \A b \in Bloc \ 0 .. 1 : r.disk[b] = disk[b]
  <1> DEFINE m == Now
             v == Changed(m, Formatted)
             w == WriteBloc(v, 0, Formatted)
             d == Put(disk, 0, Formatted)
             d2 == Put(d, 1, Header)
  <1>1. /\ 0 \in Bloc /\ 1 \in Bloc /\ NSector - 1 \in Nat /\ Formatted \in Contents
        /\ Header \in Contents /\ Formatted.root = NULL_BLOC
    <2>1. 0 \in Bloc /\ 1 \in Bloc /\ NSector - 1 \in Nat
      BY DEF Bloc, NSectorAssumption
    <2>2. Header \in Contents
      BY <2>1 DEF Header, FreeBlc, Contents, NULL_BLOC
    <2> QED
      BY <2>1, <2>2, ContentsIs, Kinds DEF Formatted, NULL_BLOC
  <1>2. r = WriteBloc(w, 1, Header)
    BY DEF InitSuper, Changed, Formatted, Header
  <1>3. Traced(m) /\ m.ok /\ m.disk = disk
    BY TracedNow
  <1> HIDE DEF m
  <1>4. Traced(v) /\ v.ok /\ v.disk = disk /\ v.super = Formatted
    BY <1>3, TracedChanged
  <1> HIDE DEF v
  <1>5. d[0] = Formatted /\ (d[0].kind = "super" => d[0].root = NULL_BLOC)
    BY <1>1, PutIs
  <1>6. /\ Traced(w) /\ w.ok /\ w.disk = d /\ w.super = v.super
        /\ Disk(Contents, d) /\ \A x \in Bloc : x # 0 => d[x] = disk[x]
    BY <1>1, <1>4, <1>5, Formats
  <1> HIDE DEF w, d
  <1>7. d2[0] = Formatted
    BY <1>1, <1>5, <1>6, PutIs
  <1> HIDE DEF d2
  <1>8. d2[0].kind = "super" => d2[0].root = NULL_BLOC
    BY <1>1, <1>7
  <1>9. /\ Traced(r) /\ r.ok /\ r.disk = d2 /\ r.super = w.super
        /\ Disk(Contents, d2) /\ d2[1] = Header /\ \A x \in Bloc : x # 1 => d2[x] = d[x]
    BY <1>1, <1>2, <1>6, <1>8, Formats DEF d2
  <1> QED
    BY <1>4, <1>6, <1>7, <1>9 DEF Bloc

(* create_ifile of the root, on two blocs: the inode is written at bloc 0.  *)
LEMMA RootOnTwo ==
    ASSUME NSector = 2, NEW a, Traced(a), a.ok, a.super = Formatted, Disk(Contents, a.disk),
           a.disk[1] = Header, NEW r, r = CreateInode(a, "DIRECTORY")
    PROVE  Traced(r) /\ r.ok /\ r.disk \in Left(kills) /\ r.disk[0].kind # "super"
  <1> DEFINE S == Super(NULL_BLOC, NSector - 2, NULL_BLOC)
             c == NewInode("DIRECTORY")
             v == Changed(a, S)
             w == WriteBloc(v, 0, S)
             g == Return(w, NULL_BLOC)
             d == Put(a.disk, 0, S)
             d2 == Put(d, 0, c)
  <1>1. 0 \in Bloc /\ S \in Contents /\ c \in Contents /\ c.kind = "inode" /\ S.root = NULL_BLOC
    <2>1. 0 \in Bloc /\ NSector - 2 \in Nat
      BY DEF Bloc
    <2>2. "DIRECTORY" \in Types
      BY DEF Types
    <2>3. S \in Contents
      BY <2>1, ContentsIs DEF NULL_BLOC
    <2>4. c.kind = "inode"
      BY DEF NewInode, Inode
    <2> QED
      BY <2>1, <2>2, <2>3, <2>4, ContentsIs, Kinds
  <1>2. r = WriteBloc(g, 0, c)
    <2>1. NewBloc(a) = g
      <3>1. Header.nb_free_blocs = 1 /\ Header.kind = "free" /\ Header.next = NULL_BLOC
        BY Kinds DEF Header
      <3>2. Formatted.first_free = 1 /\ Formatted.nb_free_blc = 1 /\ Formatted.root = NULL_BLOC
        BY Kinds DEF Formatted
      <3> HIDE DEF Header, Formatted
      <3>3. (Formatted.nb_free_blc - 1) = NSector - 2
        BY <3>2
      <3> QED
        BY <3>1, <3>2, <3>3 DEF NewBloc, SaveSuper, Changed
    <2>2. g.ret = 0
      <3>1. Traced(v)
        BY TracedChanged
      <3>2. DOMAIN w = Fields
        BY <3>1 DEF WriteBloc, Traced
      <3> HIDE DEF w
      <3> QED
        BY <3>2 DEF Return, Fields, NULL_BLOC
    <2> HIDE DEF g
    <2> QED
      BY <2>1, <2>2 DEF CreateInode, WriteFound, NewInode
  <1> HIDE DEF S, c
  <1>3. Traced(v) /\ v.ok /\ v.disk = a.disk
    BY TracedChanged
  <1> HIDE DEF v
  <1>4. d[0] = S
    BY <1>1, PutIs
  <1>5. d[0].kind = "super" => d[0].root = NULL_BLOC
    BY <1>1, <1>4
  <1>6. Traced(w) /\ w.ok /\ w.disk = d /\ Disk(Contents, d)
    BY <1>1, <1>3, <1>5, Formats
  <1> HIDE DEF w, d
  <1>7. Traced(g) /\ g.ok /\ g.disk = d
    BY <1>6, TracedReturn
  <1> HIDE DEF g
  <1>8. d2[0] = c
    BY <1>1, <1>6, PutIs
  <1>9. d2[0].kind # "super"
    BY <1>1, <1>8
  <1> HIDE DEF d2
  <1>10. Traced(r) /\ r.ok /\ r.disk = d2 /\ d2 \in Left(kills)
    BY <1>1, <1>2, <1>6, <1>7, <1>9, Formats DEF d2
  <1> QED
    BY <1>9, <1>10

Rest == Super(NULL_BLOC, NSector - 2, 2)

(* On more blocs it is written at bloc 1.                                  *)
LEMMA RootOnMore ==
    ASSUME NSector > 2, NEW a, Traced(a), a.ok, a.super = Formatted, Disk(Contents, a.disk),
           a.disk[1] = Header, \A b \in Bloc \ 0 .. 2 : a.disk[b] = Zero,
           NEW r, r = CreateInode(a, "DIRECTORY")
    PROVE  /\ Traced(r) /\ r.ok /\ Disk(Contents, r.disk) /\ r.ret = 1
           /\ r.disk[0] = Rest /\ r.disk[1] = NewInode("DIRECTORY") /\ r.disk[2] = Header
           /\ \A b \in Bloc \ 0 .. 2 : r.disk[b] = Zero
  <1> DEFINE c == NewInode("DIRECTORY")
             v == Changed(a, Rest)
             w == WriteBloc(v, 0, Rest)
             x == WriteBloc(w, 2, Header)
             g == Return(x, 1)
             d == Put(a.disk, 0, Rest)
             d2 == Put(d, 2, Header)
             d3 == Put(d2, 1, c)
  <1>1. /\ 0 \in Bloc /\ 1 \in Bloc /\ 2 \in Bloc /\ Rest \in Contents /\ c \in Contents
        /\ Header \in Contents /\ Rest.root = NULL_BLOC
    <2>1. 0 \in Bloc /\ 1 \in Bloc /\ 2 \in Bloc /\ NSector - 2 \in Nat /\ NSector - 1 \in Nat
      BY DEF Bloc, NSectorAssumption
    <2>2. "DIRECTORY" \in Types
      BY DEF Types
    <2>3. Rest \in Contents
      BY <2>1, ContentsIs DEF Rest, NULL_BLOC
    <2>4. Header \in Contents
      BY <2>1 DEF Header, FreeBlc, Contents, NULL_BLOC
    <2> QED
      BY <2>1, <2>2, <2>3, <2>4, ContentsIs, Kinds DEF Rest
  <1>2. r = WriteBloc(g, 1, c)
    <2>1. NewBloc(a) = g
      <3>1. Header.nb_free_blocs # 1 /\ Header.kind = "free"
        BY Kinds DEF Header, NSectorAssumption
      <3>2. Formatted.first_free = 1 /\ Formatted.nb_free_blc = NSector - 1 /\ Formatted.root = NULL_BLOC
        BY Kinds DEF Formatted
      <3> HIDE DEF Header, Formatted
      <3>3. (Formatted.nb_free_blc - 1) = NSector - 2 /\ Formatted.nb_free_blc # 0 /\ 1 + 1 = 2
        BY <3>2 DEF NSectorAssumption
      <3> QED
        BY <3>1, <3>2, <3>3 DEF NewBloc, SaveSuper, Changed, Rest
    <2>2. g.ret = 1
      <3>1. Traced(v)
        BY TracedChanged
      <3>2. DOMAIN x = Fields
        BY <3>1 DEF WriteBloc, Traced
      <3> HIDE DEF x
      <3> QED
        BY <3>2 DEF Return, Fields
    <2> HIDE DEF g
    <2> QED
      BY <2>1, <2>2 DEF CreateInode, WriteFound, NewInode
  <1> HIDE DEF c
  <1>3. Traced(v) /\ v.ok /\ v.disk = a.disk
    BY TracedChanged
  <1> HIDE DEF v
  <1>4. d[0] = Rest
    BY <1>1, PutIs
  <1>5. d[0].kind = "super" => d[0].root = NULL_BLOC
    BY <1>1, <1>4
  <1>6. /\ Traced(w) /\ w.ok /\ w.disk = d /\ Disk(Contents, d)
        /\ \A b \in Bloc : b # 0 => d[b] = a.disk[b]
    BY <1>1, <1>3, <1>5, Formats
  <1> HIDE DEF w, d
  <1>7. d2[0] = Rest
    BY <1>1, <1>4, <1>6 DEF Put, Disk
  <1>8. d2[0].kind = "super" => d2[0].root = NULL_BLOC
    BY <1>1, <1>7
  <1>9. /\ Traced(x) /\ x.ok /\ x.disk = d2 /\ Disk(Contents, d2) /\ d2[2] = Header
        /\ \A b \in Bloc : b # 2 => d2[b] = d[b]
    BY <1>1, <1>6, <1>8, Formats
  <1> HIDE DEF x, d2
  <1>10. Traced(g) /\ g.ok /\ g.disk = d2 /\ g.ret = 1
    BY <1>9, TracedReturn
  <1> HIDE DEF g
  <1>11. d3[0] = Rest
    BY <1>1, <1>7, <1>9 DEF Put, Disk
  <1>12. d3[0].kind = "super" => d3[0].root = NULL_BLOC
    BY <1>1, <1>11
  <1> HIDE DEF d3
  <1>13. /\ Traced(r) /\ r.ok /\ r.disk = d3 /\ r.ret = g.ret /\ Disk(Contents, d3) /\ d3[1] = c
         /\ \A b \in Bloc : b # 1 => d3[b] = d2[b]
    BY <1>1, <1>2, <1>9, <1>10, <1>12, Formats DEF d3
  <1>14. r.disk[2] = Header
    BY <1>1, <1>9, <1>13
  <1>15. ASSUME NEW b \in Bloc \ 0 .. 2
         PROVE  r.disk[b] = Zero
    BY <1>6, <1>9, <1>13
  <1> QED
    BY <1>10, <1>11, <1>13, <1>14, <1>15 DEF c

(* mknfs, up to its last write.                                            *)
LEMMA Rooting ==
    ASSUME Disk(Contents, disk), kills \in Nat, Unused,
           NEW made, made = CreateInode(InitSuper(Now), "DIRECTORY"),
           NEW r, r = SaveSuper([LoadSuper(made) EXCEPT !.super.root = made.ret])
    PROVE  Traced(r) /\ r.disk \in Left(kills)
  <1> DEFINE a == InitSuper(Now)
             loaded == LoadSuper(made)
             t == [loaded.super EXCEPT !.root = made.ret]
             v == Changed(loaded, t)
  <1>1. /\ Traced(a) /\ a.ok /\ a.super = Formatted /\ Disk(Contents, a.disk)
        /\ a.disk[0] = Formatted /\ a.disk[1] = Header
        /\ \A b \in Bloc \ 0 .. 1 : a.disk[b] = disk[b]
    BY Initialises
  <1>2. made = CreateInode(a, "DIRECTORY")
    OBVIOUS
  <1> HIDE DEF a
  <1>3. r = SaveSuper(v)
    BY DEF Changed
  <1>4. CASE NSector = 2
    <2>1. Traced(made) /\ made.ok /\ made.disk \in Left(kills) /\ made.disk[0].kind # "super"
      BY <1>1, <1>2, <1>4, RootOnTwo
    <2>2. loaded = Stopped(made)
      BY <2>1 DEF LoadSuper
    <2>3. Traced(loaded) /\ ~loaded.ok /\ loaded.disk = made.disk
      BY <2>1, <2>2, TracedStopped
    <2> HIDE DEF loaded, t
    <2>4. Traced(v) /\ ~v.ok /\ v.disk = made.disk
      BY <2>3, TracedChanged
    <2> HIDE DEF v
    <2>5. r = v
      BY <1>3, <2>4 DEF SaveSuper, WriteBloc
    <2> QED
      BY <2>1, <2>4, <2>5
  <1>5. CASE NSector > 2
    <2> DEFINE s == Super(1, NSector - 2, 2)
               d2 == Put(made.disk, 0, s)
    <2>1. \A b \in Bloc \ 0 .. 2 : a.disk[b] = Zero
      BY <1>1 DEF Unused, Bloc
    <2>2. /\ Traced(made) /\ made.ok /\ Disk(Contents, made.disk) /\ made.ret = 1
          /\ made.disk[0] = Rest /\ made.disk[1] = NewInode("DIRECTORY") /\ made.disk[2] = Header
          /\ \A b \in Bloc \ 0 .. 2 : made.disk[b] = Zero
      BY <1>1, <1>2, <1>5, <2>1, RootOnMore
    <2>3. loaded = Changed(made, Rest)
      BY <2>2, Kinds DEF LoadSuper, Changed, Rest
    <2>4. Traced(loaded) /\ loaded.ok /\ loaded.disk = made.disk /\ loaded.super = Rest
      BY <2>2, <2>3, TracedChanged
    <2>5. t = s
      BY <2>2, <2>4 DEF Rest, Super
    <2> HIDE DEF loaded, t, s
    <2>6. Traced(v) /\ v.ok /\ v.disk = made.disk /\ v.super = s
      BY <2>4, <2>5, TracedChanged
    <2> HIDE DEF v
    <2>7. r = WriteBloc(v, 0, s)
      BY <1>3, <2>6 DEF SaveSuper
    <2>8. Sane(d2, s, {})
      BY <1>5, <2>2, SaneRooted DEF s
    <2>9. \A n \in Nat : {} \in AtMost(n)
      BY FS_EmptySet DEF AtMost
    <2>10. d2 \in Left(kills) /\ d2 \in Left(kills + 1)
      <3>1. {} \in AtMost(kills) /\ {} \in AtMost(kills + 1)
        BY <2>9
      <3> HIDE DEF d2
      <3> QED
        BY <2>8, <3>1, SaneLeft
    <2>11. 0 \in Bloc /\ s \in Contents
      <3>1. 0 \in Bloc /\ 1 \in Bloc /\ 2 \in Bloc /\ NSector - 2 \in Nat
        BY <1>5 DEF Bloc, NSectorAssumption
      <3> QED
        BY <3>1, ContentsIs DEF s
    <2>12. Traced(r) /\ r.disk = d2
      <3>1. Put(v.disk, 0, s) = d2
        BY <2>6
      <3> HIDE DEF d2
      <3> QED
        BY <2>6, <2>7, <2>10, <2>11, <3>1, TracedWrite
    <2> QED
      BY <2>10, <2>12
  <1>6. NSector = 2 \/ NSector > 2
    BY DEF NSectorAssumption
  <1> QED
    BY <1>4, <1>5, <1>6

-----------------------------------------------------------------------------
(* The specification.                                                      *)

(* The blank volume.                                                       *)
LEMMA InitIInv == Init => IInv
  <1> SUFFICES ASSUME Init
               PROVE  IInv
    OBVIOUS
  <1>1. Zero \in Contents /\ 0 \in Bloc
    BY DEF Contents, Bloc, NSectorAssumption
  <1>2. Disk(Contents, disk) /\ disk[0] = Zero
    BY <1>1 DEF Init, Disk
  <1>3. disk \in Left(kills)
    BY <1>2, Kinds, LeftRootless
  <1>4. answer \in [call : {"none", "mknfs", "create", "delete", "open"},
                    path : Paths \cup {<< >>}, ret : Answers]
    BY DEF Init, NoAnswer, Answer, Answers
  <1> QED
    BY <1>3, <1>4, DirectoryAssumption DEF Init, IInv, Program

(* mknfs, whether it is killed or not.                                     *)
LEMMA MknfsKeeps ==
    ASSUME IInv, Mknfs
    PROVE  IInv'
  <1> DEFINE made == CreateInode(InitSuper(Now), "DIRECTORY")
             loaded == LoadSuper(made)
             r == SaveSuper([loaded EXCEPT !.super.root = made.ret])
  <1>1. Disk(Contents, disk) /\ kills \in Nat
    BY DirectoryAssumption DEF IInv, Left, Disk
  <1>2. Traced(r) /\ r.disk \in Left(kills)
    BY <1>1, Rooting DEF Mknfs
  <1> HIDE DEF made, loaded, r
  <1>3. \/ disk' = r.disk /\ answer' = NoAnswer /\ UNCHANGED <<super, kills>> /\ super = NoSuper
        \/ Killed(r, "mknfs", << >>)
    BY DEF Mknfs, made, loaded, r
  <1>4. CASE Killed(r, "mknfs", << >>)
    BY <1>2, <1>4, KilledKeeps
  <1>5. CASE disk' = r.disk /\ answer' = NoAnswer /\ UNCHANGED <<super, kills>> /\ super = NoSuper
    <2>1. answer' \in [call : {"none", "mknfs", "create", "delete", "open"},
                       path : Paths \cup {<< >>}, ret : Answers]
      BY <1>5 DEF NoAnswer, Answer, Answers
    <2> QED
      BY <1>2, <1>5, <2>1 DEF IInv, Program
  <1> QED
    BY <1>3, <1>4, <1>5

(* A program starts on what was left.                                      *)
LEMMA MountKeeps ==
    ASSUME IInv, Mount
    PROVE  IInv'
  <1>1. super' = disk[0] /\ disk[0].kind = "super"
    <2>1. LoadSuper(Now) = [Now EXCEPT !.super = disk[0]]
      BY DEF Mount, LoadSuper, Now, Machine
    <2>2. LoadSuper(Now).super = disk[0]
      BY <2>1 DEF Now, Machine
    <2> QED
      BY <2>2 DEF Mount
  <1>2. Program(kills, disk, super')
    BY <1>1 DEF IInv, Left, Program
  <1>3. answer' \in [call : {"none", "mknfs", "create", "delete", "open"},
                     path : Paths \cup {<< >>}, ret : Answers]
    BY DEF Mount, NoAnswer, Answer, Answers
  <1>4. disk' = disk /\ kills' = kills
    BY DEF Mount
  <1> QED
    BY <1>2, <1>3, <1>4 DEF IInv

(* A program ends.                                                         *)
LEMMA ExitKeeps ==
    ASSUME IInv, Exit
    PROVE  IInv'
  <1>1. answer' \in [call : {"none", "mknfs", "create", "delete", "open"},
                     path : Paths \cup {<< >>}, ret : Answers]
    BY DEF Exit, NoAnswer, Answer, Answers
  <1> QED
    BY <1>1 DEF IInv, Exit, Program

(* Every step.                                                             *)
LEMMA NextIInv == Roomy /\ IInv /\ [Next]_vars => IInv'
  <1> SUFFICES ASSUME Roomy, IInv, [Next]_vars
               PROVE  IInv'
    OBVIOUS
  <1>1. CASE Mknfs
    BY <1>1, MknfsKeeps
  <1>2. CASE Mount
    BY <1>2, MountKeeps
  <1>3. CASE Exit
    BY <1>3, ExitKeeps
  <1>4. ASSUME NEW path \in Paths, Delete(path)
        PROVE  IInv'
    <2> DEFINE m == DeleteFile(Now, path)
    <2>1. Call("delete", path, m) /\ super # NoSuper
      BY <1>4 DEF Delete, Call
    <2>2. "DIRECTORY" \in Types
      BY DEF Types
    <2>3. Result(m)
      BY <2>1, <2>2, Calls
    <2> HIDE DEF m
    <2> QED
      BY <2>1, <2>3, CallKeeps
  <1>5. ASSUME NEW path \in Paths, Open(path)
        PROVE  IInv'
    <2> DEFINE m == OpenFile(Now, path)
    <2>1. Call("open", path, m) /\ super # NoSuper
      BY <1>5 DEF Open, Call
    <2>2. "DIRECTORY" \in Types
      BY DEF Types
    <2>3. Result(m)
      BY <2>1, <2>2, Calls
    <2> HIDE DEF m
    <2> QED
      BY <2>1, <2>3, CallKeeps
  <1>6. ASSUME NEW creation \in Creations, Create(creation[1], creation[2])
        PROVE  IInv'
    <2> DEFINE path == creation[1]
               type == creation[2]
               m == CreateFile(Now, path, type)
    <2>1. Call("create", path, m) /\ super # NoSuper
      BY <1>6 DEF Create, Call
    <2>2. path \in Paths /\ type \in Types
      BY DirectoryAssumption DEF Types
    <2> HIDE DEF path, type
    <2>3. Result(m)
      BY <2>1, <2>2, Calls
    <2> HIDE DEF m
    <2> QED
      BY <2>1, <2>2, <2>3, CallKeeps
  <1>7. CASE UNCHANGED vars
    BY <1>7 DEF vars, IInv, Program
  <1> QED
    BY <1>1, <1>2, <1>3, <1>4, <1>5, <1>6, <1>7 DEF Next

(* The types of the variables.                                             *)
LEMMA IInvTypeOK == IInv => TypeOK
  <1> SUFFICES ASSUME IInv
               PROVE  TypeOK
    OBVIOUS
  <1>1. disk \in [Bloc -> Contents] /\ 0 \in Bloc
    BY DEF IInv, Left, Bloc, NSectorAssumption
  <1>2. super = NoSuper \/ (super \in Contents /\ super.kind = "super")
    <2>1. CASE super = NoSuper
      BY <2>1
    <2>2. CASE super = disk[0] /\ super.kind = "super"
      BY <1>1, <2>2
    <2>3. ASSUME NEW L, Sane(disk, super, L)
          PROVE  super \in Contents /\ super.kind = "super"
      BY ONLY <2>3, SaneIs
    <2> QED
      BY <2>1, <2>2, <2>3 DEF IInv, Program
  <1> QED
    BY <1>1, <1>2 DEF IInv, TypeOK, Answers

(***************************************************************************)
(* The super bloc in memory is one, the blocs keep their types, and a name  *)
(* of ENTRYMAXLENGTH octets or more is never stored.                        *)
(***************************************************************************)
THEOREM DirectoryTypes ==
    ASSUME Roomy
    PROVE  Spec => []TypeOK
  <1>1. Init => IInv
    BY InitIInv
  <1>2. IInv /\ [Next]_vars => IInv'
    BY NextIInv
  <1>3. IInv => TypeOK
    BY IInvTypeOK
  <1> QED
    BY <1>1, <1>2, <1>3, PTL DEF Spec

-----------------------------------------------------------------------------
(* What the invariant says of the tree and of the blocs.                   *)

(* The inodes of a volume that has a root and its super bloc.              *)
LEMMA RootedIs ==
    ASSUME IInv, Rooted
    PROVE  \E L \in AtMost(kills) : Sane(disk, disk[0], L) /\ InodeBlocs = InodesOf(disk)
  <1> DEFINE s == disk[0]
  <1>1. PICK L \in AtMost(kills) : Sane(disk, s, L)
    BY DEF IInv, Left, Rooted
  <1>2. s.kind = "super"
    BY DEF Rooted
  <1> HIDE DEF s
  <1>3. /\ s.first_free \in 2 .. NSector
        /\ \A b \in Bloc : b >= s.first_free => disk[b] = Zero \/ disk[b] = Header
    BY ONLY <1>1, SaneIs
  <1>4. ASSUME NEW b \in Bloc, disk[b].kind = "inode"
        PROVE  b \in 1 .. NSector - 1
    <2>1. b # 0
      BY <1>2, <1>4 DEF s
    <2>2. ~(b >= s.first_free)
      BY <1>3, <1>4, Kinds DEF Header
    <2> QED
      BY <1>3, <2>1, <2>2 DEF Bloc
  <1>5. InodeBlocs = InodesOf(disk)
    <2>1. \A b \in 1 .. NSector - 1 : b \in Bloc
      BY DEF Bloc, NSectorAssumption
    <2> QED
      BY <1>4, <2>1 DEF InodeBlocs, InodesOf
  <1> QED
    BY <1>1, <1>5 DEF s

(* The two halves of an entry within the file.                             *)
LEMMA HalvesNear ==
    ASSUME Roomy, NEW taille \in 0 .. NB_BLOCS + 1,
           NEW k \in 0 .. (taille * SECTOR) \div ENTRY - 1
    PROVE  /\ ENTRY * k \in Nat /\ ENTRY * k \in Near /\ ENTRY * k + 1 \in Near
           /\ (ENTRY * k) % ENTRY = 0
  <1> DEFINE size == taille * SECTOR
             last == 2 * NB_BLOCS * SECTOR - 1
  <1>1. size \in Nat /\ size + ENTRY \in 0 .. last
    BY FileNear DEF Near
  <1>2. last \in Int
    BY DEF InodesAssumption, DescriptorsAssumption
  <1>3. k \in 0 .. size \div ENTRY - 1
    OBVIOUS
  <1> HIDE DEF size, last
  <1>4. ENTRY * k \in Nat /\ ENTRY * k + 1 <= size /\ (ENTRY * k) % ENTRY = 0
    BY <1>1, <1>3 DEF ENTRY
  <1>5. ENTRY * k \in 0 .. last /\ ENTRY * k + 1 \in 0 .. last
    BY <1>1, <1>2, <1>4 DEF ENTRY
  <1> QED
    BY <1>4, <1>5 DEF last, Near

(* The second half of the rest of a header is no name.                     *)
LEMMA HeaderNameless ==
    ASSUME Roomy, NEW d \in Bloc, NEW p \in Near, p \in Nat, (p % SECTOR) = 0,
           NEW b, b = NamedBloc(disk, d, PositionToFbloc(p)), b # NULL_BLOC,
           Octets(disk[b])[1] = EMPTY
    PROVE  HalfEntry(d, p + 1) = EMPTY
  <1>1. ((p + 1) % SECTOR) = 1 /\ PositionToFbloc(p + 1) = PositionToFbloc(p)
    <2>1. Roomy /\ p \in Nat /\ 1 \in {1, 2} /\ (p % SECTOR) = 0
      OBVIOUS
    <2> QED
      BY ONLY <2>1, SectorStart
  <1> QED
    BY <1>1 DEF HalfEntry

(* A name leads to an inode.                                               *)
LEMMA EntriesAre == ASSUME Roomy, IInv PROVE EntriesNameInodes
  <1>1. SUFFICES ASSUME Rooted, NEW link \in Links, link[3] \in Names
                 PROVE  link[4] \in InodeBlocs
    BY DEF EntriesNameInodes
  <1>2. PICK L \in AtMost(kills) : Sane(disk, disk[0], L) /\ InodeBlocs = InodesOf(disk)
    BY <1>1, RootedIs
  <1> PICK i \in Directories :
        \E k \in 0 .. (disk[i].taille * SECTOR) \div ENTRY - 1 :
          /\ link = <<i, k, HalfEntry(i, ENTRY * k + 1), HalfEntry(i, ENTRY * k)>>
          /\ link[4] # NULL_BLOC
    BY <1>1 DEF Links
  <1>3. PICK k \in 0 .. (disk[i].taille * SECTOR) \div ENTRY - 1 :
          /\ link = <<i, k, HalfEntry(i, ENTRY * k + 1), HalfEntry(i, ENTRY * k)>>
          /\ link[4] # NULL_BLOC
    OBVIOUS
  <1> DEFINE p == ENTRY * k
             f == PositionToFbloc(p)
             I == InodesOf(disk)
             b == NamedBloc(disk, i, f)
             o == Octets(disk[b])
  <1>4. i \in I /\ HalfEntry(i, p + 1) \in Names /\ HalfEntry(i, p) # 0
    BY <1>1, <1>2, <1>3 DEF Directories, NULL_BLOC
  <1>5. /\ disk[i].taille \in 0 .. NB_BLOCS + 1
        /\ \A l \in Fbloc : Named(disk, i, l) # NULL_BLOC => FileBloc(disk[Named(disk, i, l)], l, I)
    <2> DEFINE s == disk[0]
    <2>1. Sane(disk, s, L) /\ i \in InodesOf(disk)
      BY <1>2, <1>4
    <2> HIDE DEF s
    <2>2. /\ disk[i].taille \in Nat /\ disk[i].taille <= NB_BLOCS + 1
          /\ \A l \in Fbloc : Named(disk, i, l) # NULL_BLOC =>
                FileBloc(disk[Named(disk, i, l)], l, InodesOf(disk))
      BY ONLY <2>1, InodeIn
    <2> QED
      BY <2>2 DEF InodesAssumption
  <1>6. p \in Nat /\ p \in Near /\ p + 1 \in Near /\ p % ENTRY = 0
    <2> DEFINE taille == disk[i].taille
    <2>1. taille \in 0 .. NB_BLOCS + 1 /\ k \in 0 .. (taille * SECTOR) \div ENTRY - 1
      BY <1>5
    <2> HIDE DEF taille
    <2> QED
      BY <2>1, HalvesNear
  <1>7. f \in Fbloc
    BY <1>6, NearIs
  <1> HIDE DEF p
  <1>8. b # NULL_BLOC /\ HalfEntry(i, p) = o[p % SECTOR]
    BY <1>4 DEF HalfEntry
  <1>9. HoldsEntries(o, f, I)
    <2>1. Named(disk, i, f) = b
      BY <1>7, SlotIs DEF Named
    <2> HIDE DEF b, f
    <2> QED
      BY <1>5, <1>7, <1>8, <2>1 DEF FileBloc
  <1>10. o[p % SECTOR] \in I \cup {NULL_BLOC} \/ ((p % SECTOR) = 0 /\ o[1] = EMPTY)
    <2> HIDE DEF o
    <2>1. p \in Near /\ PositionToFbloc(p) = f /\ p % ENTRY = 0
      BY <1>6
    <2> QED
      BY <1>9, <2>1 DEF HoldsEntries
  <1>11. ~((p % SECTOR) = 0 /\ o[1] = EMPTY)
    <2>1. SUFFICES ASSUME (p % SECTOR) = 0, o[1] = EMPTY
                   PROVE  FALSE
      OBVIOUS
    <2>2. i \in Bloc
      BY <1>4 DEF InodesOf, Bloc
    <2>3. HalfEntry(i, p + 1) = EMPTY
      BY <1>6, <1>8, <2>1, <2>2, HeaderNameless
    <2> QED
      BY <1>4, <2>3, DirectoryAssumption
  <1>12. link[4] = o[p % SECTOR] /\ link[4] # NULL_BLOC
    BY <1>3, <1>8 DEF p
  <1> QED
    BY <1>2, <1>10, <1>11, <1>12

(* The blocs of the inodes, and those that are lost.                       *)
LEMMA BlocsAre == ASSUME IInv PROVE BlocsNamedOnce
  <1> DEFINE named == UNION { NamedFrom(disk, i) : i \in InodeBlocs }
             taken == 1 .. disk[0].first_free - 1
             used == { n[3] : n \in named } \cup InodeBlocs
  <1>1. SUFFICES ASSUME Rooted
                 PROVE  /\ \A n1, n2 \in named : n1[3] = n2[3] => n1 = n2
                        /\ used \subseteq taken
                        /\ Cardinality(taken \ used) <= kills
    BY DEF BlocsNamedOnce
  <1> DEFINE I == InodesOf(disk)
             s == disk[0]
  <1>2. PICK L \in AtMost(kills) : Sane(disk, s, L) /\ InodeBlocs = I
    BY <1>1, RootedIs
  <1>3. taken = Used(s)
    BY DEF Used
  <1> HIDE DEF s, taken
  <1>4. /\ Kept(disk, InodesOf(disk), Used(s) \ L) /\ InodesOf(disk) \subseteq Used(s) \ L
        /\ L \subseteq Used(s) /\ Used(s) \ L \subseteq Bloc \ {0}
    BY ONLY <1>2, SaneIs
  <1>5. /\ \A i \in I : disk[i].double = NULL_BLOC
        /\ \A i, j \in I : \A k, l \in Slot :
             Named(disk, i, k) # NULL_BLOC /\ Named(disk, i, k) = Named(disk, j, l) => i = j /\ k = l
        /\ \A i \in I : \A k \in Slot :
             Named(disk, i, k) # NULL_BLOC => Named(disk, i, k) \in (Used(s) \ L) \ I
        /\ \A b \in (Used(s) \ L) \ I : \E i \in I : \E k \in Slot : Named(disk, i, k) = b
    BY <1>4 DEF Kept, Apart, Covers, InodeOf
  <1> HIDE DEF I
  <1>6. ASSUME NEW n \in named
        PROVE  \E i \in I : \E k \in Slot : /\ Named(disk, i, k) # NULL_BLOC
                                            /\ n = NameIn(disk, i, k) /\ n[3] = Named(disk, i, k)
    <2>1. PICK i \in I : n \in NamedFrom(disk, i)
      BY <1>2
    <2>2. /\ NamedFrom(disk, i) =
                { NameIn(disk, i, k) : k \in { l \in Slot : Named(disk, i, l) # NULL_BLOC } }
          /\ \A k \in Slot : Named(disk, i, k) # NULL_BLOC => NameIn(disk, i, k)[3] = Named(disk, i, k)
      BY <1>5, NamesIs
    <2> QED
      BY <2>1, <2>2
  <1>7. ASSUME NEW i \in I, NEW k \in Slot, Named(disk, i, k) # NULL_BLOC
        PROVE  \E n \in named : n[3] = Named(disk, i, k)
    <2>1. /\ NamedFrom(disk, i) =
                { NameIn(disk, i, l) : l \in { x \in Slot : Named(disk, i, x) # NULL_BLOC } }
          /\ NameIn(disk, i, k)[3] = Named(disk, i, k)
      BY <1>5, <1>7, NamesIs
    <2>2. NameIn(disk, i, k) \in NamedFrom(disk, i)
      BY <1>7, <2>1
    <2>3. NameIn(disk, i, k) \in named
      BY <1>2, <2>2
    <2> QED
      BY <2>1, <2>3
  <1>8. ASSUME NEW n1 \in named, NEW n2 \in named, n1[3] = n2[3]
        PROVE  n1 = n2
    <2> HIDE DEF named
    <2>1. PICK i \in I, k \in Slot : /\ Named(disk, i, k) # NULL_BLOC
                                     /\ n1 = NameIn(disk, i, k) /\ n1[3] = Named(disk, i, k)
      BY <1>6
    <2>2. PICK j \in I, l \in Slot : /\ Named(disk, j, l) # NULL_BLOC
                                     /\ n2 = NameIn(disk, j, l) /\ n2[3] = Named(disk, j, l)
      BY <1>6
    <2>3. i = j /\ k = l
      BY <1>5, <1>8, <2>1, <2>2
    <2> QED
      BY <2>1, <2>2, <2>3
  <1> HIDE DEF named
  <1>9. used \subseteq taken
    <2>1. ASSUME NEW n \in named
          PROVE  n[3] \in taken
      BY <1>3, <1>5, <1>6
    <2> QED
      BY <1>2, <1>3, <1>4, <2>1 DEF I
  <1>10. taken \ used \subseteq L
    <2>1. ASSUME NEW b \in taken, b \notin L, b \notin InodeBlocs
          PROVE  \E n \in named : n[3] = b
      <3>1. PICK i \in I, k \in Slot : Named(disk, i, k) = b
        BY <1>2, <1>3, <1>5, <2>1
      <3>2. b # NULL_BLOC
        BY <1>3, <1>4, <2>1 DEF NULL_BLOC
      <3> QED
        BY <1>7, <3>1, <3>2
    <2> QED
      BY <2>1
  <1> HIDE DEF used
  <1>11. Cardinality(taken \ used) <= kills
    <2>1. L \subseteq Bloc /\ Cardinality(L) <= kills /\ kills \in Nat
      BY DirectoryAssumption DEF AtMost, IInv
    <2>2. IsFiniteSet(L)
      <3>1. 0 \in Int /\ NSector \in Int
        BY DEF NSectorAssumption
      <3>2. IsFiniteSet(0 .. NSector)
        BY ONLY <3>1, FS_Interval
      <3>3. L \in SUBSET (0 .. NSector)
        BY <2>1 DEF Bloc
      <3> QED
        BY ONLY <3>2, <3>3, FS_Subset
    <2>3. Cardinality(taken \ used) <= Cardinality(L) /\ Cardinality(L) \in Nat
          /\ Cardinality(taken \ used) \in Nat
      BY <1>10, <2>2, FS_Subset, FS_CardinalityType
    <2> QED
      BY <2>1, <2>3
  <1> QED
    BY <1>8, <1>9, <1>11

(***************************************************************************)
(* Whatever call is killed after whatever sector write, a name never leads  *)
(* to a bloc that is no inode.                                             *)
(***************************************************************************)
THEOREM NamesLeadToInodes ==
    ASSUME Roomy
    PROVE  Spec => []EntriesNameInodes
  <1>1. Init => IInv
    BY InitIInv
  <1>2. IInv /\ [Next]_vars => IInv'
    BY NextIInv
  <1>3. IInv => EntriesNameInodes
    BY EntriesAre
  <1> QED
    BY <1>1, <1>2, <1>3, PTL DEF Spec

(***************************************************************************)
(* The blocs handed out are inodes or named once, and a killed call loses   *)
(* one of them at most.                                                    *)
(***************************************************************************)
THEOREM OneBlocLostByAKill ==
    ASSUME Roomy
    PROVE  Spec => []BlocsNamedOnce
  <1>1. Init => IInv
    BY InitIInv
  <1>2. IInv /\ [Next]_vars => IInv'
    BY NextIInv
  <1>3. IInv => BlocsNamedOnce
    BY BlocsAre
  <1> QED
    BY <1>1, <1>2, <1>3, PTL DEF Spec
=============================================================================

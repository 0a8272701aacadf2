---------------------------- MODULE IFile_proofs ----------------------------
(***************************************************************************)
(* The files of one volume, for any number of files, blocs and octets, and  *)
(* tables of any size, as long as no file reaches the double indirect table *)
(* (which loses blocs) and none was deleted: what IFile says of its         *)
(* variables, of its blocs and of its octets.                              *)
(***************************************************************************)
EXTENDS IFile, Descriptors_proofs

USE NSectorAssumption, InodesAssumption, DescriptorsAssumption

\* No position is beyond what the direct and the indirect table name.
BelowDouble == MaxPosition < 2 * NB_BLOCS * SECTOR

\* The sectors of octets a caller can write.
Sector == [0 .. SECTOR - 1 -> Values]

NewInode == Inode("NORMAL", 0, NoBlocs, NULL_BLOC, NULL_BLOC)

\* The super bloc in memory when new_bloc has found the volume full.
FullSuper == Super(NULL_BLOC, 0, IF NSector = 2 THEN 0 ELSE NSector)

-----------------------------------------------------------------------------
(* The contents of the blocs.                                              *)

(* The calls stay in Contents.                                             *)
LEMMA ContentsIs ==
    /\ Complete(Contents) /\ Sectors(Contents, Sector)
    /\ NewInode \in Contents /\ FullSuper \in Contents
    /\ Super(NULL_BLOC, NSector - 1, 1) \in Contents
  <1>1. ClosedFree(Contents)
    BY DEF ClosedFree, Contents, FreeBlc, Zero
  <1>2. \A root \in {NULL_BLOC}, nb \in Nat, first \in Bloc : Super(root, nb, first) \in Contents
    BY DEF Contents, Super
  <1>3. ClosedSuper(Contents)
    <2>1. ASSUME NEW c \in Contents, c.kind = "super"
          PROVE  c.root \in {NULL_BLOC} /\ c.nb_free_blc \in Nat /\ c.first_free \in Bloc
      BY <2>1 DEF Contents, Zero
    <2> QED
      BY <1>2, <2>1 DEF ClosedSuper
  <1>4. ClosedTable(Contents)
    BY DEF ClosedTable, Contents, TableBlocs, Zero
  <1>5. ClosedInode(Contents)
    <2>1. ASSUME NEW type \in {"NORMAL"}, NEW taille \in 0 .. MaxFbloc, NEW direct \in [Index -> Bloc],
                 NEW indirect \in Bloc, NEW double \in Bloc
          PROVE  Inode(type, taille, direct, indirect, double) \in Contents
      BY DEF Contents, Inode
    <2>2. ASSUME NEW c \in Contents, c.kind = "inode"
          PROVE  /\ c.type \in {"NORMAL"} /\ c.taille \in 0 .. MaxFbloc
                 /\ c.direct \in [Index -> Bloc] /\ c.indirect \in Bloc /\ c.double \in Bloc
                 /\ c = Inode(c.type, c.taille, c.direct, c.indirect, c.double)
      BY <2>2 DEF Contents, Zero, Inode
    <2> QED
      BY <2>1, <2>2 DEF ClosedInode
  <1>6. Sectors(Contents, Sector)
    <2>1. NoOctets \in Sector
      BY IFileAssumption DEF NoOctets, Sector
    <2>2. ASSUME NEW octets \in Sector
          PROVE  Data(octets) \in Contents
      BY IFileAssumption DEF Data, Contents, Sector, Zero
    <2>3. ASSUME NEW c \in Contents, c.kind = "data"
          PROVE  c.octets \in Sector
      BY <2>3 DEF Contents, Sector, Zero
    <2> QED
      BY <2>1, <2>2, <2>3 DEF Sectors
  <1>7. NewInode \in Contents
    <2>1. 0 \in 0 .. MaxFbloc /\ NoBlocs \in [Index -> Bloc] /\ NULL_BLOC \in Bloc
      BY FblocIs DEF NoBlocs, Bloc, NULL_BLOC
    <2> QED
      BY <2>1 DEF NewInode, Inode, Contents
  <1>8. FullSuper \in Contents /\ Super(NULL_BLOC, NSector - 1, 1) \in Contents
    <2>1. /\ NSector - 1 \in Nat /\ 0 \in Nat /\ 1 \in Bloc
          /\ (IF NSector = 2 THEN 0 ELSE NSector) \in Bloc
      BY DEF Bloc
    <2> QED
      BY <1>2, <2>1 DEF FullSuper
  <1> QED
    BY <1>1, <1>3, <1>4, <1>5, <1>6, <1>7, <1>8 DEF Complete
-----------------------------------------------------------------------------
(* The invariant.                                                          *)

\* The super bloc a program has, or the next one will load; FullSuper, when the
\* one on disk was written over.
SuperOf(d, s) ==
    IF s # NoSuper THEN s ELSE IF d[0].kind = "super" THEN d[0] ELSE FullSuper

(* When a program ends on a volume, that is the super bloc that counts.    *)
LEMMA SuperOfIs ==
    ASSUME NEW d, NEW s, NEW I, Volume(Contents, d, s, I)
    PROVE  SuperOf(d, s) = s /\ Volume(Contents, d, SuperOf(d, NoSuper), I)
  <1>1. /\ Disk(Contents, d) /\ s \in Contents /\ s.kind = "super" /\ FreeRun(d, s) /\ Saved(d, s)
        /\ Owned(d, I, 1 .. s.first_free - 1)
    BY DEF Volume, FreeBlocs
  <1>2. SuperOf(d, s) = s
    BY <1>1, Kinds DEF SuperOf
  <1>3. CASE d[0].kind = "super"
    BY <1>1, <1>3 DEF SuperOf, Saved, Volume, FreeBlocs
  <1>4. CASE d[0].kind # "super"
    <2>1. SuperOf(d, NoSuper) = FullSuper
      BY <1>4 DEF SuperOf
    <2>2. s.nb_free_blc = 0 /\ s.first_free = (IF NSector = 2 THEN 0 ELSE NSector)
      BY <1>1, <1>4 DEF Saved, FreeRun
    <2>3. /\ FullSuper.kind = "super" /\ FullSuper.nb_free_blc = 0
          /\ FullSuper.first_free = s.first_free
      BY <2>2, Kinds DEF FullSuper
    <2>4. FreeRun(d, FullSuper) /\ Saved(d, FullSuper)
      BY <1>4, <2>2, <2>3 DEF FreeRun, Saved
    <2>5. FreeBlocs(Contents, d, FullSuper)
      BY <1>1, <2>3, <2>4, ContentsIs DEF FreeBlocs
    <2>6. Volume(Contents, d, FullSuper, I)
      BY <1>1, <2>3, <2>5 DEF Volume
    <2> QED
      BY <1>2, <2>1, <2>6
  <1> QED
    BY <1>2, <1>3, <1>4

Inums == { inumber[f] : f \in Created }

\* The variables of the callers.
Descriptors == DescriptorsOf(0 .. MaxPosition, 0 .. MaxFbloc, Sector)

Typed ==
    /\ inumber \in [Files -> Bloc]
    /\ fd \in [Files -> Descriptors]
    /\ got \in Values \cup {READ_EOF, NONE}

\* The files are different inodes of the volume.
Mounted ==
    /\ Volume(Contents, disk, SuperOf(disk, super), Inums)
    /\ \A f, g \in Created : inumber[f] = inumber[g] => f = g

\* A descriptor is of a file there is, and shows its sector if nothing was
\* written through it.
Faithful(f) ==
    IF fd[f].closed THEN fd[f] = Closed
    ELSE /\ f \in Created /\ super # NoSuper
         /\ ~fd[f].modified =>
              fd[f].file_buffer = Octets(Held(disk, inumber[f], PositionToFbloc(fd[f].cursor)))

IInv ==
    /\ deleted \in BOOLEAN
    /\ ~deleted => Typed /\ Mounted /\ \A f \in Files : Faithful(f)

(* What the calls find when a program runs.                                *)
LEMMA NowIs ==
    ASSUME Mounted, super # NoSuper
    PROVE  OnVolume(Contents, Now, Inums) /\ Now.disk = disk /\ Now.super = super
  <1>1. SuperOf(disk, super) = super
    BY DEF SuperOf
  <1>2. Running(Now) /\ Now.disk = disk /\ Now.super = super
    BY MachineIs DEF Now
  <1> QED
    BY <1>1, <1>2 DEF Mounted, OnVolume

(* The positions are those of file blocs an allocation can be traced for.  *)
LEMMA PositionsIs ==
    ASSUME BelowDouble
    PROVE  /\ \A p \in 0 .. MaxPosition : p \in Nat /\ PositionToFbloc(p) \in Fbloc
           /\ Position \subseteq 0 .. MaxPosition /\ MaxPosition \in Nat
           /\ \A p \in 0 .. MaxPosition : p < MaxPosition => p \in Position /\ p + 1 \in 0 .. MaxPosition
  <1>1. MaxPosition \in Nat
    BY IFileAssumption, FblocIs
  <1>2. 2 * NB_BLOCS \in Nat
    OBVIOUS
  <1>3. ASSUME NEW p \in 0 .. MaxPosition
        PROVE  PositionToFbloc(p) \in Fbloc
    <2>1. p \in Nat /\ p < (2 * NB_BLOCS) * SECTOR
      BY <1>1 DEF BelowDouble
    <2>2. PositionToFbloc(p) \in Nat
      BY <2>1, PositionIs
    <2>3. PositionToFbloc(p) < 2 * NB_BLOCS
      BY <1>2, <2>1, SectorBelow
    <2> QED
      BY <1>2, <2>2, <2>3 DEF Fbloc
  <1> QED
    BY <1>1, <1>3 DEF Position

(* Closed descriptors.                                                     *)
LEMMA ClosedIs ==
    /\ Closed \in Descriptors /\ Closed.closed /\ Closed.cursor = 0 /\ Closed.size = 0
  <1>1. NoOctets \in Sector
    BY ContentsIs DEF Sectors
  <1>2. 0 \in 0 .. MaxPosition /\ 0 \in 0 .. MaxFbloc
    BY IFileAssumption, FblocIs
  <1>3. NoOctets \in Sector /\ 0 \in 0 .. MaxPosition /\ 0 \in 0 .. MaxFbloc
    BY <1>1, <1>2
  <1>4. Closed \in DescriptorsOf(0 .. MaxPosition, 0 .. MaxFbloc, Sector)
    BY ONLY <1>3, ClosedOf, Zenon
  <1> QED
    BY ONLY <1>4, ClosedFields DEF Descriptors

(* The variables have their types.                                         *)
LEMMA TypeIs == ASSUME IInv, ~deleted PROVE TypeOK
  <1>1. Typed /\ Mounted
    BY DEF IInv
  <1>2. disk \in [Bloc -> Contents]
    BY <1>1 DEF Mounted, Volume, FreeBlocs, Disk
  <1>3. super = NoSuper \/ (super \in Contents /\ super.kind = "super")
    BY <1>1 DEF Mounted, Volume, FreeBlocs, SuperOf
  <1>4. fd \in [Files -> [cursor : 0 .. MaxPosition, size : 0 .. MaxFbloc,
                         file_buffer : [0 .. SECTOR - 1 -> Values],
                         modified : BOOLEAN, closed : BOOLEAN]]
    BY <1>1 DEF Typed, Descriptors, DescriptorsOf, Sector
  <1> QED
    BY <1>1, <1>2, <1>3, <1>4 DEF TypeOK, Typed, IInv

(* A formatted volume, without files.                                      *)
LEMMA InitIs == ASSUME Init PROVE IInv
  <1> DEFINE m == Machine([b \in Bloc |-> Zero], NoSuper)
             r == InitSuper(m)
  <1>1. Running(m) /\ m.disk = [b \in Bloc |-> Zero]
    BY MachineIs
  <1>2. Disk(Contents, m.disk)
    <2>1. Zero \in Contents
      BY ContentsIs DEF Complete, ClosedFree
    <2> QED
      BY <1>1, <2>1 DEF Disk
  <1> HIDE DEF m
  <1>3. /\ Volume(Contents, r.disk, r.super, {}) /\ r.disk[0] = r.super
        /\ r.super = Super(NULL_BLOC, NSector - 1, 1)
    BY <1>1, <1>2, ContentsIs, FormatIs
  <1>4. disk = r.disk /\ super = NoSuper /\ inumber = [f \in Files |-> NULL_BLOC]
        /\ fd = [f \in Files |-> Closed] /\ got = NONE
    BY DEF Init, m
  <1> HIDE DEF r
  <1>5. r.super.kind = "super" /\ r.super # NoSuper
    BY <1>3, Kinds
  <1>6. SuperOf(disk, super) = r.super
    BY <1>3, <1>4, <1>5 DEF SuperOf
  <1>7. Created = {} /\ Inums = {}
    BY <1>4 DEF Created, Inums
  <1>8. Mounted
    BY <1>3, <1>4, <1>6, <1>7 DEF Mounted
  <1>9. Typed
    BY <1>4, ClosedIs DEF Typed, Bloc, NULL_BLOC
  <1>10. \A f \in Files : Faithful(f)
    BY <1>4, ClosedIs DEF Faithful
  <1>11. deleted \in BOOLEAN
    <2>1. deleted = FALSE
      BY DEF Init
    <2>2. FALSE \in BOOLEAN
      OBVIOUS
    <2> QED
      BY ONLY <2>1, <2>2
  <1> QED
    BY <1>8, <1>9, <1>10, <1>11 DEF IInv

-----------------------------------------------------------------------------
(* The steps.                                                              *)

\* What the calls on file f leave to the program, on machine m with descriptor d,
\* unless they have stopped it.
Leaves(m, f, d) ==
    /\ d \in Descriptors
    /\ d.closed => d = Closed
    /\ ~d.closed /\ ~d.modified =>
         d.file_buffer = Octets(Held(m.disk, inumber[f], PositionToFbloc(d.cursor)))
    /\ \A g \in Created \ {f} : \A l \in Fbloc :
         Held(m.disk, inumber[g], l) = Held(disk, inumber[g], l)

(* A call on one file that there is, which may stop the program.           *)
LEMMA OneFile ==
    ASSUME IInv, ~deleted, super # NoSuper, BelowDouble, NEW f \in Created,
           NEW m, NEW d, Ends(m, [fd EXCEPT ![f] = d]), inumber' = inumber, deleted' = deleted,
           got' \in Values \cup {READ_EOF, NONE},
           Volume(Contents, m.disk, m.super, Inums), m.ok => Leaves(m, f, d)
    PROVE  IInv'
  <1>1. Typed /\ Mounted /\ \A g \in Files : Faithful(g)
    BY DEF IInv
  <1>2. /\ m.super.kind = "super" /\ m.super # NoSuper
        /\ SuperOf(m.disk, m.super) = m.super
        /\ Volume(Contents, m.disk, SuperOf(m.disk, NoSuper), Inums)
    BY SuperOfIs, Kinds DEF Volume, FreeBlocs
  <1>3. Created' = Created /\ Inums' = Inums
    BY DEF Created, Inums
  <1>4. disk' = m.disk
    BY DEF Ends
  <1>5. Mounted'
    <2>1. Volume(Contents, disk', SuperOf(disk', super'), Inums)
      BY <1>2, <1>4 DEF Ends
    <2> QED
      BY <1>1, <1>3, <2>1 DEF Mounted
  <1>6. CASE ~m.ok
    <2>1. fd' = [g \in Files |-> Closed]
      BY <1>6 DEF Ends
    <2>2. Typed'
      BY <1>1, <2>1, ClosedIs DEF Typed
    <2>3. \A g \in Files : Faithful(g)'
      BY <2>1, ClosedIs DEF Faithful
    <2> QED
      BY <1>5, <2>2, <2>3 DEF IInv
  <1>7. CASE m.ok
    <2>1. fd' = [fd EXCEPT ![f] = d] /\ super' = m.super
      BY <1>7 DEF Ends
    <2>2. /\ d \in Descriptors /\ f \in Files
          /\ fd'[f] = d /\ \A g \in Files \ {f} : fd'[g] = fd[g]
      BY <1>1, <1>7, <2>1 DEF Typed, Leaves, Created
    <2>3. Typed'
      BY <1>1, <2>1, <2>2 DEF Typed
    <2>4. ASSUME NEW g \in Files
          PROVE  Faithful(g)'
      <3>1. CASE g = f
        BY <1>2, <1>3, <1>4, <1>7, <2>1, <2>2, <3>1 DEF Faithful, Leaves
      <3>2. CASE g # f /\ fd[g].closed
        BY <1>1, <2>2, <3>2 DEF Faithful
      <3>3. CASE g # f /\ ~fd[g].closed
        <4>1. /\ g \in Created
              /\ ~fd[g].modified =>
                   fd[g].file_buffer = Octets(Held(disk, inumber[g], PositionToFbloc(fd[g].cursor)))
          BY <1>1, <3>3 DEF Faithful
        <4>2. PositionToFbloc(fd[g].cursor) \in Fbloc
          BY <1>1, PositionsIs DEF Typed, Descriptors, DescriptorsOf
        <4>3. Held(disk', inumber[g], PositionToFbloc(fd[g].cursor))
                = Held(disk, inumber[g], PositionToFbloc(fd[g].cursor))
          BY <1>4, <1>7, <3>3, <4>1, <4>2 DEF Leaves
        <4> QED
          BY <1>2, <1>3, <2>1, <2>2, <3>3, <4>1, <4>3 DEF Faithful
      <3> QED
        BY <3>1, <3>2, <3>3
    <2> QED
      BY <1>1, <1>5, <2>3, <2>4 DEF IInv
  <1> QED
    BY <1>6, <1>7

(* What a call on an open file starts from.                                *)
LEMMA OpenFileIs ==
    ASSUME IInv, ~deleted, BelowDouble, NEW f \in Files, IsOpen(f)
    PROVE  /\ f \in Created /\ inumber[f] \in Inums /\ super # NoSuper
           /\ OnVolume(Contents, Now, Inums) /\ Now.disk = disk /\ Now.super = super
           /\ fd[f] \in Descriptors /\ ~fd[f].closed
           /\ Fresh(Now, inumber[f], fd[f])
  <1>1. Typed /\ Mounted /\ Faithful(f) /\ super # NoSuper /\ ~fd[f].closed
    BY DEF IInv, IsOpen
  <1>2. f \in Created /\ inumber[f] \in Inums
    BY <1>1 DEF Faithful, Inums
  <1>3. OnVolume(Contents, Now, Inums) /\ Now.disk = disk /\ Now.super = super
    BY <1>1, NowIs
  <1>4. fd[f] \in Descriptors
    BY <1>1 DEF Typed
  <1>5. Fresh(Now, inumber[f], fd[f])
    BY <1>1, <1>3 DEF Faithful, Fresh
  <1> QED
    BY <1>1, <1>2, <1>3, <1>4, <1>5

(* The fields of a descriptor.                                             *)
LEMMA FieldsIs ==
    ASSUME BelowDouble, NEW d \in Descriptors
    PROVE  /\ d.cursor \in 0 .. MaxPosition /\ d.cursor \in Nat
           /\ d.cursor % SECTOR \in 0 .. SECTOR - 1
           /\ PositionToFbloc(d.cursor) \in Fbloc
           /\ d.file_buffer \in Sector /\ d.modified \in BOOLEAN /\ d.size \in Nat
           /\ \A x \in 0 .. SECTOR - 1 : d.file_buffer[x] \in Values
  <1>1. /\ d.cursor \in 0 .. MaxPosition /\ d.file_buffer \in Sector /\ d.modified \in BOOLEAN
        /\ d.size \in Nat
    <2>1. d.cursor \in 0 .. MaxPosition /\ d.file_buffer \in Sector /\ d.size \in 0 .. MaxFbloc
      BY DEF Descriptors, DescriptorsOf
    <2>2. d.modified \in BOOLEAN
      BY DEF Descriptors, DescriptorsOf
    <2> QED
      BY <2>1, <2>2, FblocIs
  <1>2. d.cursor \in Nat /\ PositionToFbloc(d.cursor) \in Fbloc
    BY <1>1, PositionsIs
  <1>3. d.cursor % SECTOR \in 0 .. SECTOR - 1
    <2>1. \A p \in Nat : p % SECTOR \in 0 .. SECTOR - 1
      BY PositionIs
    <2> QED
      BY <1>2, <2>1
  <1> QED
    BY <1>1, <1>2, <1>3 DEF Sector

(* Descriptors stay descriptors.                                           *)
LEMMA DescriptorsKept ==
    ASSUME NEW d \in Descriptors
    PROVE  /\ \A p \in 0 .. MaxPosition :
                MovedIn(d, p) \in Descriptors /\ MovedIn(d, p).cursor = p
                /\ MovedIn(d, p).file_buffer = d.file_buffer /\ MovedIn(d, p).size = d.size
                /\ (MovedIn(d, p).modified <=> d.modified) /\ (MovedIn(d, p).closed <=> d.closed)
           /\ \A p \in 0 .. MaxPosition, octets \in Sector :
                Moved(d, p, octets) \in Descriptors /\ Moved(d, p, octets).cursor = p
                /\ Moved(d, p, octets).file_buffer = octets /\ Moved(d, p, octets).size = d.size
                /\ (Moved(d, p, octets).modified <=> d.modified)
                /\ (Moved(d, p, octets).closed <=> d.closed)
           /\ \A octets \in Sector :
                Modified(d, octets) \in Descriptors /\ Modified(d, octets).cursor = d.cursor
                /\ Modified(d, octets).file_buffer = octets /\ Modified(d, octets).size = d.size
                /\ Modified(d, octets).modified /\ (Modified(d, octets).closed <=> d.closed)
  <1> DEFINE P == 0 .. MaxPosition
             N == 0 .. MaxFbloc
             D == DescriptorsOf(P, N, Sector)
  <1>1. d \in D /\ D = Descriptors
    BY DEF Descriptors
  <1> HIDE DEF P, N
  <1>2. ASSUME NEW p \in P
        PROVE  /\ MovedIn(d, p) \in D /\ MovedIn(d, p).cursor = p
               /\ MovedIn(d, p).file_buffer = d.file_buffer /\ MovedIn(d, p).size = d.size
               /\ (MovedIn(d, p).modified <=> d.modified) /\ (MovedIn(d, p).closed <=> d.closed)
    <2>1. d \in D /\ p \in P
      BY <1>1
    <2> QED
      BY ONLY <2>1, MovedInIs
  <1>3. ASSUME NEW p \in P, NEW octets \in Sector
        PROVE  /\ Moved(d, p, octets) \in D /\ Moved(d, p, octets).cursor = p
               /\ Moved(d, p, octets).file_buffer = octets /\ Moved(d, p, octets).size = d.size
               /\ (Moved(d, p, octets).modified <=> d.modified)
               /\ (Moved(d, p, octets).closed <=> d.closed)
    <2>1. d \in D /\ p \in P /\ octets \in Sector
      BY <1>1
    <2> QED
      BY ONLY <2>1, MovedIs
  <1>4. ASSUME NEW octets \in Sector
        PROVE  /\ Modified(d, octets) \in D /\ Modified(d, octets).cursor = d.cursor
               /\ Modified(d, octets).file_buffer = octets /\ Modified(d, octets).size = d.size
               /\ Modified(d, octets).modified /\ (Modified(d, octets).closed <=> d.closed)
    <2>1. d \in D /\ octets \in Sector
      BY <1>1
    <2> QED
      BY ONLY <2>1, ModifiedIs
  <1> HIDE DEF D
  <1> QED
    BY <1>1, <1>2, <1>3, <1>4 DEF P

(* seek_ifile, and the moves of readc_ifile and writec_ifile.              *)
LEMMA SeekLeaves ==
    ASSUME IInv, ~deleted, BelowDouble, NEW f \in Files, IsOpen(f),
           NEW d \in Descriptors, ~d.closed, Fresh(Now, inumber[f], d), NEW p \in 0 .. MaxPosition,
           NEW u, u = SeekIfile(Now, inumber[f], d, p)
    PROVE  /\ Seeks(Contents, Now, u, Inums, inumber[f], d, p)
           /\ Volume(Contents, u.machine.disk, u.machine.super, Inums)
           /\ u.machine.ok => Leaves(u.machine, f, u.descriptor)
  <1> DEFINE i == inumber[f]
             q == PositionToFbloc(p)
  <1>1. /\ f \in Created /\ i \in Inums /\ OnVolume(Contents, Now, Inums) /\ Now.disk = disk
    BY OpenFileIs
  <1>2. q \in Fbloc
    BY PositionsIs
  <1>3. PositionToFbloc(d.cursor) \in Fbloc /\ d.file_buffer \in Sector /\ d.modified \in BOOLEAN
    BY FieldsIs
  <1>4. Complete(Contents) /\ Sectors(Contents, Sector)
    BY ContentsIs
  <1>5. Seeks(Contents, Now, u, Inums, i, d, p)
    BY <1>1, <1>2, <1>3, <1>4, SeekIs
  <1>6. CASE InSector(d, p) /\ u.machine = Now /\ u.descriptor = MovedIn(d, p)
    <2>1. /\ u.descriptor \in Descriptors /\ u.descriptor.cursor = p
          /\ u.descriptor.file_buffer = d.file_buffer
          /\ u.descriptor.modified <=> d.modified
          /\ u.descriptor.closed <=> d.closed
      BY <1>6, DescriptorsKept
    <2>2. Volume(Contents, u.machine.disk, u.machine.super, Inums)
      BY <1>1, <1>6 DEF OnVolume
    <2>3. ~d.modified => d.file_buffer = Octets(Held(u.machine.disk, i, q))
      BY <1>6 DEF Fresh, InSector
    <2>4. Leaves(u.machine, f, u.descriptor)
      BY <1>1, <1>6, <2>1, <2>3 DEF Leaves
    <2> QED
      BY <1>5, <2>2, <2>4
  <1>7. CASE /\ Flushes(Contents, Now, u.machine, Inums, i, PositionToFbloc(d.cursor), d.file_buffer)
             /\ u.descriptor = Moved(d, p, Shown(u.machine, i, q))
    <2>1. OnVolume(Contents, u.machine, Inums)
      BY <1>7 DEF Flushes
    <2>2. Shown(u.machine, i, q) \in Sector
      BY <1>1, <1>2, <1>4, <2>1, OctetsHeld DEF Shown
    <2>3. /\ u.descriptor \in Descriptors /\ u.descriptor.cursor = p
          /\ u.descriptor.file_buffer = Shown(u.machine, i, q)
          /\ u.descriptor.closed <=> d.closed
      BY <1>7, <2>2, DescriptorsKept
    <2>4. \A g \in Created \ {f} : \A l \in Fbloc :
             Held(u.machine.disk, inumber[g], l) = Held(disk, inumber[g], l)
      <3>1. \A g \in Created \ {f} : inumber[g] \in Inums /\ inumber[g] # inumber[f]
        BY <1>1 DEF IInv, Mounted, Inums
      <3> QED
        BY <1>1, <1>7, <3>1 DEF Flushes
    <2>5. Leaves(u.machine, f, u.descriptor)
      BY <2>3, <2>4 DEF Leaves, Shown
    <2> QED
      BY <1>5, <2>1, <2>5 DEF OnVolume
  <1>8. CASE ~u.machine.ok /\ Volume(Contents, u.machine.disk, u.machine.super, Inums)
    BY <1>5, <1>8
  <1> QED
    BY <1>5, <1>6, <1>7, <1>8 DEF Seeks, MovedIn, Moved

(* A program that starts finds the volume, or nothing.                     *)
LEMMA MountStep == ASSUME IInv, ~deleted, Mount PROVE IInv'
  <1>1. Typed /\ Mounted /\ \A g \in Files : Faithful(g)
    BY DEF IInv
  <1>2. super = NoSuper /\ inumber' = inumber /\ deleted' = deleted /\ got' = NONE
    BY DEF Mount
  <1>3. Running(Now) /\ Now.disk = disk /\ Now.super = NoSuper
    BY <1>2, MachineIs DEF Now
  <1>4. \A g \in Files : fd[g] = Closed
    BY <1>1, <1>2 DEF Faithful
  <1>5. Created' = Created /\ Inums' = Inums
    BY <1>2 DEF Created, Inums
  <1>6. /\ disk' = disk
        /\ super' = IF disk[0].kind = "super" THEN disk[0] ELSE NoSuper
        /\ fd' = IF disk[0].kind = "super" THEN fd ELSE [g \in Files |-> Closed]
    <2>1. CASE disk[0].kind = "super"
      <3>1. /\ LoadSuper(Now).disk = disk /\ LoadSuper(Now).super = disk[0]
            /\ LoadSuper(Now).ok
        BY <1>3, <2>1 DEF LoadSuper, Running, Fields
      <3> QED
        BY <2>1, <3>1 DEF Mount, Ends
    <2>2. CASE disk[0].kind # "super"
      <3>1. LoadSuper(Now).disk = disk /\ ~LoadSuper(Now).ok
        BY <1>3, <2>2, StoppedIs DEF LoadSuper, Running
      <3> QED
        BY <2>2, <3>1 DEF Mount, Ends
    <2> QED
      BY <2>1, <2>2
  <1>7. SuperOf(disk', super') = SuperOf(disk, super)
    BY <1>2, <1>6 DEF SuperOf
  <1>8. Mounted'
    BY <1>1, <1>2, <1>5, <1>6, <1>7 DEF Mounted
  <1>9. Typed' /\ \A g \in Files : Faithful(g)'
    <2>1. fd' \in [Files -> Descriptors] /\ \A g \in Files : fd'[g] = Closed
      BY <1>1, <1>4, <1>6, ClosedIs DEF Typed
    <2> QED
      BY <1>1, <1>2, <2>1, ClosedIs DEF Typed, Faithful
  <1> QED
    BY <1>2, <1>8, <1>9 DEF IInv

(* A program that ends leaves the volume.                                  *)
LEMMA ExitStep == ASSUME IInv, ~deleted, Exit PROVE IInv'
  <1>1. Typed /\ Mounted
    BY DEF IInv
  <1>2. /\ super # NoSuper /\ super' = NoSuper /\ fd' = [f \in Files |-> Closed]
        /\ got' = NONE /\ disk' = disk /\ inumber' = inumber /\ deleted' = deleted
    BY DEF Exit
  <1>3. Created' = Created /\ Inums' = Inums
    BY <1>2 DEF Created, Inums
  <1>4. SuperOf(disk, super) = super
    BY <1>2 DEF SuperOf
  <1>5. Volume(Contents, disk, SuperOf(disk, NoSuper), Inums)
    BY <1>1, <1>4, SuperOfIs DEF Mounted
  <1>6. Mounted'
    BY <1>1, <1>2, <1>3, <1>5 DEF Mounted
  <1>7. Typed' /\ \A g \in Files : Faithful(g)'
    BY <1>1, <1>2, ClosedIs DEF Typed, Faithful
  <1> QED
    BY <1>2, <1>6, <1>7 DEF IInv

(* A new file: none of the others has its inode.                           *)
LEMMA CreateStep == ASSUME IInv, ~deleted, BelowDouble, NEW f \in Files, Create(f) PROVE IInv'
  <1> DEFINE m == CreateInode(Now, "NORMAL")
  <1>1. Typed /\ Mounted /\ \A g \in Files : Faithful(g)
    BY DEF IInv
  <1>2. /\ super # NoSuper /\ inumber[f] = NULL_BLOC /\ Ends(m, fd)
        /\ inumber' = IF m.ok THEN [inumber EXCEPT ![f] = m.ret] ELSE inumber
        /\ got' = NONE /\ deleted' = deleted
    BY DEF Create
  <1>3. OnVolume(Contents, Now, Inums) /\ Now.disk = disk /\ Now.super = super
    BY <1>1, <1>2, NowIs
  <1>4. Creates(Contents, Now, m, Inums, NewInode)
    BY <1>3, CreateIs, ContentsIs DEF NewInode
  <1> HIDE DEF m
  <1>5. /\ OnVolume(Contents, m, With(Inums, m.ret)) /\ m.ret \in Bloc /\ m.ret \notin Inums
        /\ SameHeld(disk, m.disk, Inums)
    BY <1>3, <1>4 DEF Creates
  <1>6. /\ m.ok /\ m.super # NoSuper /\ SuperOf(m.disk, m.super) = m.super
    BY <1>5, OnVolumeIs, SuperOfIs, ContentsIs DEF OnVolume
  <1>7. /\ disk' = m.disk /\ super' = m.super /\ fd' = fd
        /\ inumber' = [inumber EXCEPT ![f] = m.ret]
    BY <1>2, <1>6 DEF Ends
  <1>8. /\ inumber' \in [Files -> Bloc] /\ inumber'[f] = m.ret
        /\ \A g \in Files \ {f} : inumber'[g] = inumber[g]
    BY <1>1, <1>5, <1>7 DEF Typed
  <1>9. f \notin Created /\ \A g \in Created : g # f /\ inumber'[g] = inumber[g] /\ g \in Created'
    BY <1>2, <1>8 DEF Created
  <1>10. \A g \in Created' : g = f \/ g \in Created
    BY <1>8 DEF Created
  <1>11. f \in Created' <=> m.ret # NULL_BLOC
    BY <1>8 DEF Created
  <1>12. Inums' = With(Inums, m.ret)
    BY <1>8, <1>9, <1>10, <1>11 DEF Inums, With
  <1>13. \A g, h \in Created' : inumber'[g] = inumber'[h] => g = h
    BY <1>1, <1>5, <1>8, <1>9, <1>10 DEF Mounted, Inums
  <1>14. Mounted'
    BY <1>5, <1>6, <1>7, <1>12, <1>13 DEF Mounted, OnVolume
  <1>15. Typed'
    BY <1>1, <1>2, <1>7, <1>8 DEF Typed
  <1>16. ASSUME NEW g \in Files
         PROVE  Faithful(g)'
    <2>1. CASE fd[g].closed
      BY <1>1, <1>7, <2>1 DEF Faithful
    <2>2. CASE ~fd[g].closed
      <3>1. /\ g \in Created /\ g \in Created' /\ inumber'[g] = inumber[g] /\ inumber[g] \in Inums
            /\ ~fd[g].modified =>
                 fd[g].file_buffer = Octets(Held(disk, inumber[g], PositionToFbloc(fd[g].cursor)))
        BY <1>1, <1>9, <2>2 DEF Faithful, Inums
      <3>2. PositionToFbloc(fd[g].cursor) \in Fbloc
        BY <1>1, FieldsIs DEF Typed
      <3>3. Held(disk', inumber[g], PositionToFbloc(fd[g].cursor))
              = Held(disk, inumber[g], PositionToFbloc(fd[g].cursor))
        BY <1>5, <1>7, <3>1, <3>2 DEF SameHeld
      <3> QED
        BY <1>6, <1>7, <2>2, <3>1, <3>3 DEF Faithful
    <2> QED
      BY <2>1, <2>2
  <1> QED
    BY <1>2, <1>14, <1>15, <1>16 DEF IInv

(* open_ifile shows the first sector of the file.                          *)
LEMMA OpenStep == ASSUME IInv, ~deleted, BelowDouble, NEW f \in Files, Open(f) PROVE IInv'
  <1> DEFINE i == inumber[f]
             u == OpenIfile(Now, i)
             d == Descriptor(disk[i].taille, Octets(Held(disk, i, 0)))
  <1>1. Typed /\ Mounted
    BY DEF IInv
  <1>2. /\ super # NoSuper /\ inumber[f] # NULL_BLOC
        /\ Ends(u.machine, [fd EXCEPT ![f] = u.descriptor])
        /\ got' = NONE /\ inumber' = inumber /\ deleted' = deleted
    BY DEF Open
  <1>3. f \in Created /\ i \in Inums
    BY <1>2 DEF Created, Inums
  <1>4. OnVolume(Contents, Now, Inums) /\ Now.disk = disk /\ Now.super = super
    BY <1>1, <1>2, NowIs
  <1>5. /\ Running(u.machine) /\ u.machine.disk = disk /\ u.machine.super = super
        /\ u.descriptor = d
    BY <1>3, <1>4, OpenIs, ContentsIs DEF Shown
  <1>6. d \in Descriptors /\ d.cursor = 0 /\ d.file_buffer = Octets(Held(disk, i, 0)) /\ ~d.closed
    <2>1. disk[i].taille \in 0 .. MaxFbloc
      <3>1. disk[i] \in Contents /\ disk[i].kind = "inode"
        BY <1>3, <1>4, OnVolumeIs, Owns, ContentsIs
      <3> QED
        BY <3>1, ContentsIs DEF Complete, ClosedInode
    <2>2. 0 \in 0 .. MaxPosition /\ 0 \in Fbloc
      BY IFileAssumption, FblocIs DEF Fbloc
    <2>3. Octets(Held(disk, i, 0)) \in Sector
      BY <1>3, <1>4, <2>2, OctetsHeld, ContentsIs
    <2> DEFINE P == 0 .. MaxPosition
               N == 0 .. MaxFbloc
               size == disk[i].taille
               octets == Octets(Held(disk, i, 0))
    <2>4. 0 \in P /\ size \in N /\ octets \in Sector
      BY <2>1, <2>2, <2>3
    <2>5. Descriptors = DescriptorsOf(P, N, Sector)
      BY DEF Descriptors
    <2> HIDE DEF P, N, size, octets
    <2>6. /\ Descriptor(size, octets) \in DescriptorsOf(P, N, Sector)
          /\ Descriptor(size, octets).cursor = 0
          /\ Descriptor(size, octets).file_buffer = octets
          /\ ~Descriptor(size, octets).closed
      BY ONLY <2>4, DescriptorIs
    <2> QED
      BY <2>5, <2>6 DEF size, octets
  <1> HIDE DEF d
  <1>7. PositionToFbloc(0) = 0
    BY DEF PositionToFbloc
  <1>8. Leaves(u.machine, f, d)
    BY <1>5, <1>6, <1>7 DEF Leaves
  <1>9. Volume(Contents, u.machine.disk, u.machine.super, Inums)
    BY <1>4, <1>5 DEF OnVolume
  <1> HIDE DEF u
  <1>10. Ends(u.machine, [fd EXCEPT ![f] = d])
    BY <1>2, <1>5
  <1> QED
    BY <1>2, <1>3, <1>8, <1>9, <1>10, OneFile

(* The moves.                                                              *)
LEMMA SeekStep ==
    ASSUME IInv, ~deleted, BelowDouble, NEW f \in Files, NEW p \in Position, Seek(f, p)
    PROVE  IInv'
  <1> DEFINE u == SeekIfile(Now, inumber[f], fd[f], p)
  <1>1. /\ IsOpen(f) /\ Ends(u.machine, [fd EXCEPT ![f] = u.descriptor])
        /\ got' = NONE /\ inumber' = inumber /\ deleted' = deleted
    BY DEF Seek
  <1>2. /\ f \in Created /\ super # NoSuper
        /\ fd[f] \in Descriptors /\ ~fd[f].closed /\ Fresh(Now, inumber[f], fd[f])
    BY <1>1, OpenFileIs
  <1>3. p \in 0 .. MaxPosition
    BY PositionsIs
  <1>4. /\ Volume(Contents, u.machine.disk, u.machine.super, Inums)
        /\ u.machine.ok => Leaves(u.machine, f, u.descriptor)
    BY <1>1, <1>2, <1>3, SeekLeaves
  <1> HIDE DEF u
  <1> QED
    BY <1>1, <1>2, <1>4, OneFile

(* readc_ifile.                                                             *)
LEMMA ReadStep == ASSUME IInv, ~deleted, BelowDouble, NEW f \in Files, Read(f) PROVE IInv'
  <1> DEFINE d == fd[f]
             u == SeekIfile(Now, inumber[f], d, d.cursor + 1)
  <1>1. /\ IsOpen(f) /\ d.cursor < MaxPosition
        /\ Ends(u.machine, [fd EXCEPT ![f] = u.descriptor])
        /\ got' = IF u.machine.ok THEN CurrentOctet(d) ELSE NONE
        /\ inumber' = inumber /\ deleted' = deleted
    BY DEF Read
  <1>2. /\ f \in Created /\ super # NoSuper
        /\ d \in Descriptors /\ ~d.closed /\ Fresh(Now, inumber[f], d)
    BY <1>1, OpenFileIs
  <1>3. d.cursor + 1 \in 0 .. MaxPosition /\ CurrentOctet(d) \in Values
    BY <1>1, <1>2, PositionsIs, FieldsIs DEF CurrentOctet
  <1>4. /\ Volume(Contents, u.machine.disk, u.machine.super, Inums)
        /\ u.machine.ok => Leaves(u.machine, f, u.descriptor)
    BY <1>1, <1>2, <1>3, SeekLeaves
  <1>5. got' \in Values \cup {READ_EOF, NONE}
    BY <1>1, <1>3
  <1> HIDE DEF u
  <1> QED
    BY <1>1, <1>2, <1>4, <1>5, OneFile

(* writec_ifile.                                                            *)
LEMMA WriteStep ==
    ASSUME IInv, ~deleted, BelowDouble, NEW f \in Files, NEW c \in Values, Write(f, c)
    PROVE  IInv'
  <1> DEFINE d == fd[f]
             w == Modified(d, WithOctet(d, c))
             u == SeekIfile(Now, inumber[f], w, d.cursor + 1)
  <1>1. IsOpen(f) /\ d.cursor < MaxPosition /\ got' = NONE /\ inumber' = inumber /\ deleted' = deleted
    BY DEF Write
  <1>2. f \in Created /\ super # NoSuper /\ d \in Descriptors /\ ~d.closed
    BY <1>1, OpenFileIs
  <1>3. WithOctet(d, c) \in Sector
    BY <1>2, FieldsIs DEF WithOctet, Sector
  <1>4. WritecIfile(Now, inumber[f], d, c) = u
    BY <1>2, <1>3, WritecIs DEF Descriptors
  <1>5. Ends(u.machine, [fd EXCEPT ![f] = u.descriptor])
    BY <1>4 DEF Write
  <1>6. w \in Descriptors /\ ~w.closed /\ w.modified
    BY <1>2, <1>3, DescriptorsKept
  <1>7. d.cursor + 1 \in 0 .. MaxPosition
    BY <1>1, <1>2, PositionsIs, FieldsIs
  <1> HIDE DEF w
  <1>8. /\ Volume(Contents, u.machine.disk, u.machine.super, Inums)
        /\ u.machine.ok => Leaves(u.machine, f, u.descriptor)
    BY <1>1, <1>6, <1>7, SeekLeaves DEF Fresh
  <1> HIDE DEF u
  <1> QED
    BY <1>1, <1>2, <1>5, <1>8, OneFile

(* readc_ifile at the end of the file.                                      *)
LEMMA ReadEndStep == ASSUME IInv, ~deleted, NEW f \in Files, ReadEnd(f) PROVE IInv'
  <1>1. Typed /\ Mounted /\ \A g \in Files : Faithful(g)
    BY DEF IInv
  <1>2. /\ got' = READ_EOF
        /\ disk' = disk /\ super' = super /\ fd' = fd /\ inumber' = inumber /\ deleted' = deleted
    BY DEF ReadEnd
  <1>3. Created' = Created /\ Inums' = Inums
    BY <1>2 DEF Created, Inums
  <1>4. Mounted'
    BY <1>1, <1>2, <1>3 DEF Mounted
  <1>5. Typed' /\ \A g \in Files : Faithful(g)'
    BY <1>1, <1>2, <1>3 DEF Typed, Faithful
  <1> QED
    BY <1>2, <1>4, <1>5 DEF IInv

(* flush_ifile, the descriptor open or closed behind it.                   *)
LEMMA FlushLeaves ==
    ASSUME IInv, ~deleted, BelowDouble, NEW f \in Files, IsOpen(f),
           NEW m, m = FlushIfile(Now, inumber[f], fd[f])
    PROVE  /\ Flushes(Contents, Now, m, Inums, inumber[f], PositionToFbloc(fd[f].cursor),
                      fd[f].file_buffer)
           /\ Volume(Contents, m.disk, m.super, Inums)
           /\ Leaves(m, f, fd[f]) /\ Leaves(m, f, Closed)
  <1> DEFINE i == inumber[f]
             d == fd[f]
             k == PositionToFbloc(d.cursor)
  <1>1. /\ f \in Created /\ i \in Inums /\ OnVolume(Contents, Now, Inums) /\ Now.disk = disk
        /\ d \in Descriptors /\ ~d.closed /\ Fresh(Now, i, d)
    BY OpenFileIs
  <1>2. k \in Fbloc /\ d.file_buffer \in Sector /\ d.modified \in BOOLEAN
    BY <1>1, FieldsIs
  <1>3. Complete(Contents) /\ Sectors(Contents, Sector)
    BY ContentsIs
  <1>4. Flushes(Contents, Now, m, Inums, i, k, d.file_buffer)
    BY <1>1, <1>2, <1>3, FlushIs
  <1>5. \A g \in Created \ {f} : inumber[g] \in Inums /\ inumber[g] # i
    BY <1>1 DEF IInv, Mounted, Inums
  <1>6. \A g \in Created \ {f} : \A l \in Fbloc :
           Held(m.disk, inumber[g], l) = Held(disk, inumber[g], l)
    BY <1>1, <1>4, <1>5 DEF Flushes
  <1>7. ~d.modified => m = Now
    BY DEF FlushIfile
  <1>8. Leaves(m, f, d)
    BY <1>1, <1>6, <1>7 DEF Leaves, Fresh
  <1>9. Leaves(m, f, Closed)
    BY <1>6, ClosedIs DEF Leaves
  <1> QED
    BY <1>4, <1>8, <1>9 DEF Flushes, OnVolume

(* flush_ifile: the descriptor stays as it was.                             *)
LEMMA FlushStep == ASSUME IInv, ~deleted, BelowDouble, NEW f \in Files, Flush(f) PROVE IInv'
  <1> DEFINE m == FlushIfile(Now, inumber[f], fd[f])
  <1>1. IsOpen(f) /\ Ends(m, fd) /\ got' = NONE /\ inumber' = inumber /\ deleted' = deleted
    BY DEF Flush
  <1>2. f \in Created /\ super # NoSuper
    BY <1>1, OpenFileIs
  <1>3. Volume(Contents, m.disk, m.super, Inums) /\ Leaves(m, f, fd[f])
    BY <1>1, FlushLeaves
  <1> HIDE DEF m
  <1>4. Ends(m, [fd EXCEPT ![f] = fd[f]])
    <2>1. [fd EXCEPT ![f] = fd[f]] = fd
      BY DEF IInv, Typed
    <2> QED
      BY <1>1, <2>1
  <1> QED
    BY <1>1, <1>2, <1>3, <1>4, OneFile

(* close_ifile.                                                             *)
LEMMA CloseStep == ASSUME IInv, ~deleted, BelowDouble, NEW f \in Files, Close(f) PROVE IInv'
  <1> DEFINE m == FlushIfile(Now, inumber[f], fd[f])
  <1>1. /\ IsOpen(f) /\ Ends(m, [fd EXCEPT ![f] = Closed])
        /\ got' = NONE /\ inumber' = inumber /\ deleted' = deleted
    BY DEF Close
  <1>2. f \in Created /\ super # NoSuper
    BY <1>1, OpenFileIs
  <1>3. Volume(Contents, m.disk, m.super, Inums) /\ Leaves(m, f, Closed)
    BY <1>1, FlushLeaves
  <1> HIDE DEF m
  <1> QED
    BY <1>1, <1>2, <1>3, OneFile

(* The history variable.                                                   *)
LEMMA DeletedIs ==
    ASSUME [Next]_vars
    PROVE  \/ deleted' = deleted
           \/ (\E f \in Files : Delete(f)) /\ deleted' /\ deleted' \in BOOLEAN
  <1>1. Mount \/ Exit \/ UNCHANGED vars => deleted' = deleted
    BY DEF Mount, Exit, vars
  <1>2. ASSUME NEW f \in Files
        PROVE  Create(f) \/ Open(f) \/ Read(f) \/ ReadEnd(f) \/ Flush(f) \/ Close(f)
                 => deleted' = deleted
    BY DEF Create, Open, Read, ReadEnd, Flush, Close
  <1>3. ASSUME NEW f \in Files, NEW c, NEW p
        PROVE  Write(f, c) \/ Seek(f, p) => deleted' = deleted
    BY DEF Write, Seek
  <1>4. ASSUME NEW f \in Files
        PROVE  Delete(f) => deleted' /\ deleted' \in BOOLEAN
    <2>1. Delete(f) => deleted'
      BY DEF Delete
    <2>2. Delete(f) => deleted' \in BOOLEAN
      BY DEF Delete
    <2> QED
      BY <2>1, <2>2
  <1> QED
    BY <1>1, <1>2, <1>3, <1>4 DEF Next

(* No step but delete_ifile leads out of the invariant.                    *)
LEMMA StepIs == ASSUME IInv, BelowDouble, [Next]_vars PROVE IInv'
  <1>1. SUFFICES ASSUME ~deleted'
                 PROVE  IInv'
    <2>1. deleted' \in BOOLEAN
      BY DeletedIs DEF IInv
    <2> QED
      BY <2>1, <1>1 DEF IInv
  <1>2. ~deleted
    BY <1>1, DeletedIs
  <1>3. CASE Mount
    BY <1>2, <1>3, MountStep
  <1>4. ASSUME NEW f \in Files, Create(f)
        PROVE  IInv'
    BY <1>2, <1>4, CreateStep
  <1>5. ASSUME NEW f \in Files, Open(f)
        PROVE  IInv'
    BY <1>2, <1>5, OpenStep
  <1>6. ASSUME NEW f \in Files, Read(f)
        PROVE  IInv'
    BY <1>2, <1>6, ReadStep
  <1>7. ASSUME NEW f \in Files, ReadEnd(f)
        PROVE  IInv'
    BY <1>2, <1>7, ReadEndStep
  <1>8. ASSUME NEW f \in Files, Flush(f)
        PROVE  IInv'
    BY <1>2, <1>8, FlushStep
  <1>9. ASSUME NEW f \in Files, Close(f)
        PROVE  IInv'
    BY <1>2, <1>9, CloseStep
  <1>10. ASSUME NEW f \in Files, Delete(f)
         PROVE  FALSE
    BY <1>1, <1>10 DEF Delete
  <1>11. ASSUME NEW f \in Files, NEW c \in Values, Write(f, c)
         PROVE  IInv'
    BY <1>2, <1>11, WriteStep
  <1>12. ASSUME NEW f \in Files, NEW p \in Position, Seek(f, p)
         PROVE  IInv'
    BY <1>2, <1>12, SeekStep
  <1>13. CASE Exit
    BY <1>2, <1>13, ExitStep
  <1>14. CASE UNCHANGED vars
    BY <1>14 DEF vars, IInv, Typed, Mounted, Faithful, Created, Inums
  <1> QED
    BY <1>3, <1>4, <1>5, <1>6, <1>7, <1>8, <1>9, <1>10, <1>11, <1>12, <1>13, <1>14 DEF Next

(***************************************************************************)
(* IInv is an invariant of the files below the double indirect table.       *)
(***************************************************************************)
THEOREM Invariance == ASSUME BelowDouble PROVE Spec => []IInv
  <1>1. Init => IInv
    BY InitIs
  <1>2. IInv /\ [Next]_vars => IInv'
    BY StepIs
  <1> QED
    BY <1>1, <1>2, PTL DEF Spec

-----------------------------------------------------------------------------
(* The blocs of the files.                                                 *)

\* A name is the inode of a file, or is in a slot of it.
NameOf(n, f) ==
    \/ n = <<f, 0, inumber[f]>>
    \/ \E k \in Slot : /\ Named(disk, inumber[f], k) # NULL_BLOC
                       /\ n = NameIn(disk, inumber[f], k)
                       /\ n[3] = Named(disk, inumber[f], k)

(* Every bloc handed out has one name.                                     *)
LEMMA BlocsIs == ASSUME IInv PROVE BlocsAccountedFor
  <1> DEFINE s == SuperOf(disk, super)
             U == 1 .. s.first_free - 1
  <1>1. SUFFICES ASSUME ~deleted
                 PROVE  /\ \A f \in Created : disk[inumber[f]].kind = "inode"
                        /\ \A n1, n2 \in Names : n1[3] = n2[3] => n1 = n2
                        /\ NSector > 2 =>
                             { n[3] : n \in Names } =
                               1 .. (IF SuperLost THEN NSector ELSE disk[0].first_free) - 1
    BY DEF BlocsAccountedFor
  <1>2. /\ Owned(disk, Inums, U) /\ FreeRun(disk, s) /\ Saved(disk, s) /\ s.kind = "super"
        /\ \A f, g \in Created : inumber[f] = inumber[g] => f = g
    BY <1>1 DEF IInv, Mounted, Volume, FreeBlocs
  <1> HIDE DEF s, U
  <1>3. \A f \in Created : inumber[f] \in Inums /\ ShapeOf(disk, inumber[f])
    BY <1>2 DEF Inums, Owned, Shaped
  <1>4. \A n : n \in Names <=> \E f \in Created : NameOf(n, f)
    <2>1. ASSUME NEW f \in Created, NEW n
          PROVE  n \in {<<f, 0, inumber[f]>>} \cup NamedFrom(disk, inumber[f]) <=> NameOf(n, f)
      <3>1. ShapeOf(disk, inumber[f])
        BY <1>3
      <3>2. /\ NamedFrom(disk, inumber[f])
                 = { NameIn(disk, inumber[f], k) :
                       k \in { l \in Slot : Named(disk, inumber[f], l) # NULL_BLOC } }
            /\ \A k \in Slot : Named(disk, inumber[f], k) # NULL_BLOC
                 => NameIn(disk, inumber[f], k)[3] = Named(disk, inumber[f], k)
        BY <3>1, NamesIs DEF ShapeOf
      <3> QED
        BY <3>2 DEF NameOf
    <2> QED
      BY <2>1 DEF Names
  <1>5. \A f \in Created : disk[inumber[f]].kind = "inode"
    BY <1>3 DEF ShapeOf
  <1>6. ASSUME NEW n1 \in Names, NEW n2 \in Names, n1[3] = n2[3]
        PROVE  n1 = n2
    <2>1. PICK f \in Created : NameOf(n1, f)
      BY <1>4
    <2>2. PICK g \in Created : NameOf(n2, g)
      BY <1>4
    <2>3. \A j \in Inums : \A k \in Slot : Named(disk, j, k) # NULL_BLOC => Named(disk, j, k) \notin Inums
      BY <1>2 DEF Owned, Covers
    <2>4. CASE n1 = <<f, 0, inumber[f]>> /\ n2 = <<g, 0, inumber[g]>>
      BY <1>2, <1>6, <2>4
    <2>5. CASE n1 = <<f, 0, inumber[f]>> /\ n2 # <<g, 0, inumber[g]>>
      BY <1>3, <1>6, <2>2, <2>3, <2>5 DEF NameOf
    <2>6. CASE n1 # <<f, 0, inumber[f]>> /\ n2 = <<g, 0, inumber[g]>>
      BY <1>3, <1>6, <2>1, <2>3, <2>6 DEF NameOf
    <2>7. CASE n1 # <<f, 0, inumber[f]>> /\ n2 # <<g, 0, inumber[g]>>
      <3>1. PICK k \in Slot : /\ Named(disk, inumber[f], k) # NULL_BLOC
                              /\ n1 = NameIn(disk, inumber[f], k)
                              /\ n1[3] = Named(disk, inumber[f], k)
        BY <2>1, <2>7 DEF NameOf
      <3>2. PICK l \in Slot : /\ n2 = NameIn(disk, inumber[g], l)
                              /\ n2[3] = Named(disk, inumber[g], l)
        BY <2>2, <2>7 DEF NameOf
      <3>3. inumber[f] = inumber[g] /\ k = l
        BY <1>2, <1>3, <1>6, <3>1, <3>2 DEF Owned, Apart
      <3> QED
        BY <3>1, <3>2, <3>3
    <2> QED
      BY <2>4, <2>5, <2>6, <2>7
  <1>7. { n[3] : n \in Names } = U
    <2>1. ASSUME NEW n \in Names
          PROVE  n[3] \in U
      <3>1. PICK f \in Created : NameOf(n, f)
        BY <1>4
      <3> QED
        BY <1>2, <1>3, <3>1 DEF NameOf, Owned, Covers
    <2>2. ASSUME NEW b \in U
          PROVE  \E n \in Names : n[3] = b
      <3>1. CASE b \in Inums
        <4>1. PICK f \in Created : inumber[f] = b
          BY <3>1 DEF Inums
        <4>2. NameOf(<<f, 0, b>>, f)
          BY <4>1 DEF NameOf
        <4> QED
          BY <1>4, <4>2
      <3>2. CASE b \notin Inums
        <4>1. PICK j \in Inums : \E k \in Slot : Named(disk, j, k) = b
          BY <1>2, <3>2 DEF Owned, Covers
        <4>2. PICK k \in Slot : Named(disk, j, k) = b
          BY <4>1
        <4>3. PICK f \in Created : inumber[f] = j
          BY DEF Inums
        <4>4. b # NULL_BLOC
          BY <1>2 DEF Owned
        <4>5. NameIn(disk, j, k)[3] = b
          BY <1>3, <4>2, <4>3, <4>4, NamesIs DEF ShapeOf
        <4>6. NameOf(NameIn(disk, j, k), f)
          BY <4>2, <4>3, <4>4, <4>5 DEF NameOf
        <4> QED
          BY <1>4, <4>5, <4>6
      <3> QED
        BY <3>1, <3>2
    <2> QED
      BY <2>1, <2>2
  <1>8. NSector > 2 => U = 1 .. (IF SuperLost THEN NSector ELSE disk[0].first_free) - 1
    <2>1. CASE SuperLost
      <3>1. disk[0] # s
        BY <1>2, <2>1 DEF SuperLost
      <3>2. NSector > 2 => s.first_free = NSector
        BY <1>2, <3>1 DEF Saved, FreeRun
      <3> QED
        BY <2>1, <3>2 DEF U
    <2>2. CASE ~SuperLost
      <3>1. disk[0] = s
        BY <1>2, <2>2 DEF SuperLost, Saved
      <3> QED
        BY <2>2, <3>1 DEF U
    <2> QED
      BY <2>1, <2>2
  <1> HIDE DEF U
  <1>9. NSector > 2 =>
          { n[3] : n \in Names } = 1 .. (IF SuperLost THEN NSector ELSE disk[0].first_free) - 1
    BY ONLY <1>7, <1>8
  <1>10. \A n1, n2 \in Names : n1[3] = n2[3] => n1 = n2
    BY <1>6
  <1> QED
    BY ONLY <1>5, <1>9, <1>10

(* What was allocated is found.                                            *)
LEMMA FoundThen == ASSUME IInv, BelowDouble PROVE AllocatedIsFound
  <1>1. SUFFICES ASSUME NEW f \in Created, NEW p \in Position, super # NoSuper, ~deleted
                 PROVE  LET m == AllocateVblocOfFbloc(Now, inumber[f], PositionToFbloc(p))
                        IN  m.ok /\ m.ret # NULL_BLOC
                              => VblocOfFbloc(m, inumber[f], PositionToFbloc(p)).ret = m.ret
    BY DEF AllocatedIsFound
  <1> DEFINE i == inumber[f]
             k == PositionToFbloc(p)
             m == AllocateVblocOfFbloc(Now, i, k)
  <1>2. OnVolume(Contents, Now, Inums) /\ i \in Inums
    BY <1>1, NowIs DEF IInv, Inums
  <1>3. k \in Fbloc
    BY PositionsIs
  <1>4. Allocates(Contents, Now, m, Inums, i, k)
    BY <1>2, <1>3, AllocateIs, ContentsIs
  <1> HIDE DEF m
  <1>5. OnVolume(Contents, m, Inums) /\ m.ret = Named(m.disk, i, k)
    BY <1>4 DEF Allocates
  <1>6. Running(m) /\ m.super # NoSuper /\ Readable(m.disk, i)
    BY <1>2, <1>5, OnVolumeIs, ContentsIs
  <1>7. Finds(m, VblocOfFbloc(m, i, k), Named(m.disk, i, k))
    BY <1>3, <1>6, LookupIs
  <1> QED
    BY <1>5, <1>7 DEF Finds, m

(* The first delete_ifile keeps the types.                                 *)
LEMMA DeleteTypes == ASSUME IInv, ~deleted, BelowDouble, NEW f \in Files, Delete(f) PROVE TypeOK'
  <1> DEFINE m == DeleteIfile(Now, inumber[f])
  <1>1. Typed /\ Mounted /\ TypeOK
    BY TypeIs DEF IInv
  <1>2. /\ super # NoSuper /\ inumber[f] \in Inums /\ Ends(m, fd)
        /\ inumber' = [inumber EXCEPT ![f] = NULL_BLOC] /\ got' = NONE
    BY DEF Delete, Inums, Created
  <1>3. OnVolume(Contents, Now, Inums)
    BY <1>1, <1>2, NowIs
  <1>4. Sound(Contents, m)
    BY <1>2, <1>3, DeleteIs, ContentsIs DEF Deletes
  <1> HIDE DEF m
  <1>5. disk' = m.disk /\ super' = m.super /\ fd' = fd
    BY <1>2, <1>4 DEF Ends, Sound, Running
  <1>6. disk' \in [Bloc -> Contents] /\ super' \in Contents /\ super'.kind = "super"
    BY <1>4, <1>5 DEF Sound, Disk
  <1>7. inumber' \in [Files -> Bloc]
    BY <1>1, <1>2 DEF Typed, Bloc, NULL_BLOC
  <1>8. got' \in Values \cup {READ_EOF, NONE}
    BY <1>2
  <1>9. deleted' \in BOOLEAN
    <2>1. deleted' = TRUE
      BY DEF Delete
    <2>2. TRUE \in BOOLEAN
      OBVIOUS
    <2> QED
      BY <2>1, <2>2
  <1>10. fd' \in [Files -> [cursor : 0 .. MaxPosition, size : 0 .. MaxFbloc,
                            file_buffer : [0 .. SECTOR - 1 -> Values],
                            modified : BOOLEAN, closed : BOOLEAN]]
    BY <1>1, <1>5 DEF TypeOK
  <1> QED
    BY ONLY <1>6, <1>7, <1>8, <1>9, <1>10 DEF TypeOK

(***************************************************************************)
(* The variables keep their types up to and with the first delete_ifile;    *)
(* after that, a bloc number may be anything a bloc freed twice holds.      *)
(***************************************************************************)
THEOREM TypeCorrect ==
    ASSUME BelowDouble
    PROVE  Spec => [](~deleted => TypeOK) /\ [][~deleted => TypeOK']_vars
  <1>1. IInv => (~deleted => TypeOK)
    BY TypeIs
  <1>2. IInv /\ [Next]_vars => [~deleted => ~deleted' \/ TypeOK']_vars
    <2>1. ASSUME IInv, Next, ~deleted, deleted'
          PROVE  TypeOK'
      <3>1. PICK f \in Files : Delete(f)
        <4>1. (deleted' = deleted) => (deleted' <=> deleted)
          OBVIOUS
        <4>2. ~(deleted' = deleted)
          BY ONLY <2>1, <4>1
        <4>3. [Next]_vars
          BY <2>1
        <4>4. deleted' = deleted \/ (\E f \in Files : Delete(f))
          BY ONLY <4>3, DeletedIs
        <4> QED
          BY ONLY <4>2, <4>4
      <3> QED
        BY <2>1, <3>1, DeleteTypes
    <2> QED
      BY <2>1
  <1> QED
    BY <1>1, <1>2, Invariance, PTL DEF Spec

(***************************************************************************)
(* None of the blocs that aux_vbloc_of_fbloc and create_inode took from the *)
(* volume is shared by two files, or by two places of one, and none is lost. *)
(***************************************************************************)
THEOREM NoBlocSharedOrLost == ASSUME BelowDouble PROVE Spec => []BlocsAccountedFor
  <1>1. IInv => BlocsAccountedFor
    BY BlocsIs
  <1> QED
    BY <1>1, Invariance, PTL

(***************************************************************************)
(* vbloc_of_fbloc finds the bloc allocate_vbloc_of_fbloc has made.          *)
(***************************************************************************)
THEOREM AllocationIsFound == ASSUME BelowDouble PROVE Spec => []AllocatedIsFound
  <1>1. IInv => AllocatedIsFound
    BY FoundThen
  <1> QED
    BY <1>1, Invariance, PTL
-----------------------------------------------------------------------------
(* IFile implements ByteFile.                                              *)

\* The variables of ByteFile.
AbsStored == [f \in Files |-> [p \in Position |-> StoredOctet(f, p)]]
AbsView == [f \in Files |-> [p \in Position |-> ViewedOctet(f, p)]]
AbsPos == [f \in Files |-> fd[f].cursor]
AbsLimit == [f \in Files |-> fd[f].size * SECTOR]
AbsOpen == { f \in Files : IsOpen(f) }

\* The octet that inode i stores for position p on blocs d.
StoredAt(d, i, p) ==
    IF i = NULL_BLOC THEN 0 ELSE Octets(Held(d, i, PositionToFbloc(p)))[p % SECTOR]

\* The octet of position p that descriptor e of inode i shows.
ViewedAt(d, i, e, p) ==
    IF PositionToFbloc(p) = PositionToFbloc(e.cursor) THEN e.file_buffer[p % SECTOR]
    ELSE StoredAt(d, i, p)

(* What is stored, before and after a step.                                *)
LEMMA StoredIs ==
    ASSUME BelowDouble, NEW f \in Files, NEW p \in Position
    PROVE  /\ StoredOctet(f, p) = StoredAt(disk, inumber[f], p)
           /\ StoredOctet(f, p)' = StoredAt(disk', inumber'[f], p)
  <1>1. PositionToFbloc(p) \in Fbloc /\ p \in Nat
    BY PositionsIs
  <1>2. PositionToFbloc(p) # TableSlot
    BY <1>1, SlotIs
  <1>3. p % SECTOR \in 0 .. SECTOR - 1
    <2>1. \A q \in Nat : q % SECTOR \in 0 .. SECTOR - 1
      BY PositionIs
    <2> QED
      BY <1>1, <2>1
  <1>4. Octets(Zero)[p % SECTOR] = 0
    BY <1>3, ZeroIs DEF NoOctets
  <1>5. ASSUME NEW d, NEW i
        PROVE  (IF i = NULL_BLOC THEN 0
                ELSE IF NamedBloc(d, i, PositionToFbloc(p)) = NULL_BLOC THEN 0
                ELSE Octets(d[NamedBloc(d, i, PositionToFbloc(p))])[p % SECTOR]) = StoredAt(d, i, p)
    BY <1>2, <1>4 DEF StoredAt, Held, Named
  <1> QED
    BY <1>5 DEF StoredOctet

(* What is viewed, likewise.                                               *)
LEMMA ViewedIs ==
    ASSUME BelowDouble, NEW f \in Files, NEW p \in Position
    PROVE  /\ ViewedOctet(f, p) = IF IsOpen(f) THEN ViewedAt(disk, inumber[f], fd[f], p) ELSE 0
           /\ ViewedOctet(f, p)' =
                IF super' # NoSuper /\ ~fd'[f].closed
                  THEN ViewedAt(disk', inumber'[f], fd'[f], p) ELSE 0
  BY StoredIs DEF ViewedOctet, ViewedAt, IsOpen

(* The actions of ByteFile, in these terms.                                *)
LEMMA FullIs == ASSUME SuperLost \/ SuperLost' PROVE Promise!Next
  BY DEF Promise!Next

(* A step that changes nothing a caller sees is a stutter of ByteFile.      *)
LEMMA SameIs ==
    ASSUME AbsOpen' = AbsOpen, AbsPos' = AbsPos, AbsView' = AbsView, AbsStored' = AbsStored,
           AbsLimit' = AbsLimit, got' = got, SuperLost' = SuperLost
    PROVE  UNCHANGED Promise!vars
  BY DEF Promise!vars, AbsStored, AbsView, AbsPos, AbsLimit, AbsOpen

AbsMoveTo(f, p, octets) ==
    /\ AbsOpen' = AbsOpen
    /\ AbsPos' = [AbsPos EXCEPT ![f] = p]
    /\ AbsView'[f] = octets
    /\ \A g \in Files \ {f} : AbsView'[g] = AbsView[g]
    /\ AbsStored' = IF p \div SECTOR = AbsPos[f] \div SECTOR THEN AbsStored
                    ELSE [AbsStored EXCEPT ![f] = octets]
    /\ AbsLimit' = AbsLimit /\ SuperLost' = SuperLost

(* Flush of ByteFile.                                                       *)
LEMMA PromiseFlush ==
    ASSUME NEW f \in Files, f \in AbsOpen, got' = NONE,
           AbsOpen' = AbsOpen, AbsPos' = AbsPos, AbsLimit' = AbsLimit, SuperLost' = SuperLost,
           AbsView' = AbsView, AbsStored' = [AbsStored EXCEPT ![f] = AbsView[f]]
    PROVE  Promise!Flush(f)
  BY DEF Promise!Flush, AbsStored, AbsView, AbsPos, AbsLimit, AbsOpen, Promise!NONE, NONE

(* The end of descriptors in ByteFile.                                      *)
LEMMA PromiseForget ==
    ASSUME NEW gone, AbsOpen' = AbsOpen \ gone, got' = NONE,
           AbsPos' = [f \in Files |-> IF f \in gone THEN 0 ELSE AbsPos[f]],
           AbsLimit' = [f \in Files |-> IF f \in gone THEN 0 ELSE AbsLimit[f]],
           AbsView' = [f \in Files |-> IF f \in gone THEN [p \in Position |-> 0] ELSE AbsView[f]]
    PROVE  Promise!Forget(gone)
  BY DEF Promise!Forget, AbsStored, AbsView, AbsPos, AbsLimit, AbsOpen, Promise!NONE, NONE,
         Promise!NoOctets

(* Delete of ByteFile.                                                      *)
LEMMA PromiseDelete ==
    ASSUME NEW f \in Files, f \notin AbsOpen, got' = NONE,
           AbsOpen' = AbsOpen, AbsPos' = AbsPos, AbsLimit' = AbsLimit, SuperLost' = SuperLost,
           AbsView' = AbsView, AbsStored' = [AbsStored EXCEPT ![f] = [p \in Position |-> 0]]
    PROVE  Promise!Delete(f)
  BY DEF Promise!Delete, AbsStored, AbsView, AbsPos, AbsLimit, AbsOpen, Promise!NONE, NONE,
         Promise!NoOctets

\* File g and its blocs are as they were.
Kept(g) ==
    /\ inumber'[g] = inumber[g]
    /\ inumber[g] # NULL_BLOC =>
         \A l \in Fbloc : Held(disk', inumber[g], l) = Held(disk, inumber[g], l)

(* So is what it stores, and what an untouched descriptor of it shows.     *)
LEMMA KeptIs ==
    ASSUME BelowDouble, NEW g \in Files, Kept(g)
    PROVE  /\ \A p \in Position : StoredOctet(g, p)' = StoredOctet(g, p)
           /\ fd'[g] = fd[g] /\ super # NoSuper /\ super' # NoSuper =>
                \A p \in Position : ViewedOctet(g, p)' = ViewedOctet(g, p)
  <1>1. ASSUME NEW p \in Position
        PROVE  StoredAt(disk', inumber'[g], p) = StoredAt(disk, inumber[g], p)
    <2>1. PositionToFbloc(p) \in Fbloc
      BY PositionsIs
    <2> QED
      BY <2>1 DEF Kept, StoredAt
  <1>2. \A p \in Position : StoredOctet(g, p)' = StoredOctet(g, p)
    BY <1>1, StoredIs
  <1>3. ASSUME fd'[g] = fd[g], super # NoSuper, super' # NoSuper, NEW p \in Position
        PROVE  ViewedOctet(g, p)' = ViewedOctet(g, p)
    BY <1>1, <1>3, ViewedIs DEF ViewedAt, IsOpen
  <1> QED
    BY <1>2, <1>3

(* A call that leaves one file f with descriptor e, and has not ended.     *)
LEMMA FieldsKept ==
    ASSUME IInv, ~deleted, BelowDouble, NEW f \in Files, IsOpen(f), NEW e,
           fd' = [fd EXCEPT ![f] = e], ~e.closed, e.size = fd[f].size, super' # NoSuper,
           \A g \in Files \ {f} : Kept(g)
    PROVE  /\ AbsOpen' = AbsOpen /\ AbsPos' = [AbsPos EXCEPT ![f] = e.cursor]
           /\ AbsLimit' = AbsLimit
           /\ \A g \in Files \ {f} : AbsView'[g] = AbsView[g] /\ AbsStored'[g] = AbsStored[g]
  <1>1. super # NoSuper /\ ~fd[f].closed
    BY DEF IsOpen
  <1>2. fd'[f] = e /\ \A g \in Files \ {f} : fd'[g] = fd[g]
    BY DEF IInv, Typed
  <1>3. \A g \in Files : (super' # NoSuper /\ ~fd'[g].closed) <=> IsOpen(g)
    BY <1>1, <1>2 DEF IsOpen
  <1>4. AbsOpen' = AbsOpen
    <2>1. AbsOpen' = { g \in Files : super' # NoSuper /\ ~fd'[g].closed }
      BY DEF AbsOpen, IsOpen
    <2> QED
      BY ONLY <1>3, <2>1 DEF AbsOpen
  <1>5. AbsPos' = [AbsPos EXCEPT ![f] = e.cursor]
    <2>1. \A g \in Files : fd'[g].cursor = IF g = f THEN e.cursor ELSE fd[g].cursor
      BY <1>2
    <2>2. AbsPos' = [g \in Files |-> IF g = f THEN e.cursor ELSE fd[g].cursor]
      BY ONLY <2>1 DEF AbsPos
    <2> QED
      BY ONLY <2>2 DEF AbsPos
  <1>6. AbsLimit' = AbsLimit
    BY <1>2 DEF AbsLimit
  <1>7. \A g \in Files \ {f} : AbsView'[g] = AbsView[g] /\ AbsStored'[g] = AbsStored[g]
    BY <1>1, <1>2, KeptIs DEF AbsView, AbsStored
  <1> QED
    BY <1>4, <1>5, <1>6, <1>7

(* A move of a descriptor d of file f, whether it was written to or not.   *)
LEMMA MoveRefines ==
    ASSUME IInv, ~deleted, BelowDouble, NEW f \in Files, IsOpen(f),
           NEW d \in Descriptors, ~d.closed, Fresh(Now, inumber[f], d),
           d.cursor = fd[f].cursor, d.size = fd[f].size,
           NEW p \in 0 .. MaxPosition, NEW u, u = SeekIfile(Now, inumber[f], d, p),
           Ends(u.machine, [fd EXCEPT ![f] = u.descriptor]), inumber' = inumber,
           ~SuperLost, ~SuperLost'
    PROVE  /\ u.machine.ok
           /\ AbsMoveTo(f, p, [q \in Position |-> ViewedAt(disk, inumber[f], d, q)])
  <1> DEFINE i == inumber[f]
             k == PositionToFbloc(d.cursor)
             e == u.descriptor
             octets == [q \in Position |-> ViewedAt(disk, i, d, q)]
  <1>1. Seeks(Contents, Now, u, Inums, i, d, p)
    BY SeekLeaves
  <1>2. /\ f \in Created /\ super # NoSuper
        /\ OnVolume(Contents, Now, Inums) /\ Now.disk = disk /\ Now.super = super
    BY OpenFileIs
  <1>3. disk' = u.machine.disk
    BY DEF Ends
  <1>4. ~Lost(u.machine)
    BY <1>3 DEF Lost, SuperLost
  <1>5. \A g \in Created \ {f} : inumber[g] \in Inums /\ inumber[g] # i
    BY <1>2 DEF IInv, Mounted, Inums
  <1>6. i # NULL_BLOC
    BY <1>2 DEF Created
  <1>7. \A q \in Position : PositionToFbloc(q) \in Fbloc
    BY PositionsIs
  <1>8. p \div SECTOR = AbsPos[f] \div SECTOR <=> InSector(d, p)
    BY DEF AbsPos, InSector, PositionToFbloc
  <1>9. ASSUME u.machine.ok, u.machine.super # NoSuper, e.cursor = p, ~e.closed, e.size = d.size,
               \A g \in Files \ {f} : Kept(g),
               \A q \in Position : ViewedAt(disk', i, e, q) = octets[q],
               \A q \in Position : StoredAt(disk', i, q) =
                  IF InSector(d, p) THEN StoredAt(disk, i, q) ELSE octets[q]
        PROVE  u.machine.ok /\ AbsMoveTo(f, p, octets)
    <2>1. fd' = [fd EXCEPT ![f] = e] /\ super' # NoSuper
      BY <1>9 DEF Ends
    <2>2. fd'[f] = e
      BY <2>1 DEF IInv, Typed
    <2> HIDE DEF e
    <2>3. /\ AbsOpen' = AbsOpen /\ AbsPos' = [AbsPos EXCEPT ![f] = p] /\ AbsLimit' = AbsLimit
          /\ \A g \in Files \ {f} : AbsView'[g] = AbsView[g] /\ AbsStored'[g] = AbsStored[g]
      <3>1. e.size = fd[f].size
        BY <1>9
      <3>2. /\ AbsOpen' = AbsOpen /\ AbsPos' = [AbsPos EXCEPT ![f] = e.cursor] /\ AbsLimit' = AbsLimit
            /\ \A g \in Files \ {f} : AbsView'[g] = AbsView[g] /\ AbsStored'[g] = AbsStored[g]
        BY ONLY IInv, ~deleted, BelowDouble, f \in Files, IsOpen(f), <1>9, <2>1, <3>1, FieldsKept
      <3> QED
        BY <1>9, <3>2
    <2>4. AbsView'[f] = octets
      <3>1. \A q \in Position : ViewedOctet(f, q)' = octets[q]
        BY <1>9, <2>1, <2>2, ViewedIs
      <3> QED
        BY <3>1 DEF AbsView
    <2>5. \A q \in Position : AbsStored'[f][q] = IF InSector(d, p) THEN AbsStored[f][q] ELSE octets[q]
      BY <1>9, StoredIs DEF AbsStored
    <2>6. AbsStored' = IF InSector(d, p) THEN AbsStored ELSE [AbsStored EXCEPT ![f] = octets]
      <3>1. /\ AbsStored \in [Files -> [Position -> { AbsStored[g][q] : g \in Files, q \in Position }]]
            /\ DOMAIN AbsStored' = Files /\ DOMAIN AbsStored = Files
            /\ \A g \in Files : DOMAIN AbsStored'[g] = Position /\ DOMAIN AbsStored[g] = Position
            /\ AbsStored' = [g \in Files |-> AbsStored'[g]]
            /\ AbsStored'[f] = [q \in Position |-> AbsStored'[f][q]]
            /\ AbsStored[f] = [q \in Position |-> AbsStored[f][q]]
        BY DEF AbsStored
      <3>2. AbsStored'[f] = IF InSector(d, p) THEN AbsStored[f] ELSE octets
        BY <2>5, <3>1
      <3> HIDE DEF octets
      <3> QED
        BY <2>3, <3>1, <3>2
    <2>7. SuperLost' = SuperLost
      BY DEF SuperLost
    <2>8. AbsStored' = IF p \div SECTOR = AbsPos[f] \div SECTOR THEN AbsStored
                       ELSE [AbsStored EXCEPT ![f] = octets]
      BY <1>8, <2>6
    <2> HIDE DEF octets
    <2>9. AbsMoveTo(f, p, octets)
      BY ONLY <2>3, <2>4, <2>7, <2>8 DEF AbsMoveTo
    <2> QED
      BY <1>9, <2>9
  <1>10. CASE InSector(d, p) /\ u.machine = Now /\ e = MovedIn(d, p)
    <2>1. e.cursor = p /\ e.file_buffer = d.file_buffer /\ ~e.closed /\ e.size = d.size
      BY <1>10, DescriptorsKept
    <2>2. u.machine.ok /\ u.machine.super # NoSuper /\ disk' = disk
      BY <1>2, <1>3, <1>10 DEF OnVolume, Running
    <2>3. \A g \in Files \ {f} : Kept(g)
      BY <2>2 DEF Kept
    <2>4. \A q \in Position : ViewedAt(disk', i, e, q) = octets[q]
      BY <1>10, <2>1, <2>2 DEF ViewedAt, InSector
    <2>5. \A q \in Position : StoredAt(disk', i, q) =
             IF InSector(d, p) THEN StoredAt(disk, i, q) ELSE octets[q]
      BY <1>10, <2>2
    <2> QED
      BY <1>9, <2>1, <2>2, <2>3, <2>4, <2>5
  <1>11. CASE /\ ~InSector(d, p)
              /\ Flushes(Contents, Now, u.machine, Inums, i, k, d.file_buffer)
              /\ e = Moved(d, p, Shown(u.machine, i, PositionToFbloc(p)))
    <2>1. OnVolume(Contents, u.machine, Inums)
      BY <1>11 DEF Flushes
    <2>2. u.machine.ok /\ u.machine.super # NoSuper
      BY <2>1, OnVolumeIs, ContentsIs
    <2>3. Shown(u.machine, i, PositionToFbloc(p)) \in Sector
      <3>1. i \in Inums
        BY <1>2 DEF Inums
      <3>2. PositionToFbloc(p) \in Fbloc
        BY PositionsIs
      <3> HIDE DEF i
      <3> QED
        BY <2>1, <3>1, <3>2, OctetsHeld, ContentsIs DEF Shown
    <2>4. /\ e.cursor = p /\ ~e.closed /\ e.size = d.size
          /\ e.file_buffer = Octets(Held(disk', i, PositionToFbloc(p)))
      BY <1>3, <1>11, <2>3, DescriptorsKept DEF Shown
    <2>5. \A g \in Files \ {f} : Kept(g)
      BY <1>2, <1>3, <1>5, <1>11 DEF Kept, Flushes, Created
    <2>6. ASSUME NEW q \in Position
          PROVE  StoredAt(disk', i, q) = octets[q]
      <3>1. CASE PositionToFbloc(q) = k
        BY <1>3, <1>4, <1>6, <1>11, <3>1 DEF Flushes, StoredAt, ViewedAt
      <3>2. CASE PositionToFbloc(q) # k
        <4>1. Held(disk', i, PositionToFbloc(q)) = Held(disk, i, PositionToFbloc(q))
          BY <1>2, <1>3, <1>7, <1>11, <3>2 DEF Flushes, Inums
        <4> QED
          BY <1>6, <3>2, <4>1 DEF StoredAt, ViewedAt
      <3> QED
        BY <3>1, <3>2
    <2>7. \A q \in Position : ViewedAt(disk', i, e, q) = octets[q]
      <3>1. \A q \in Position : ViewedAt(disk', i, e, q) = StoredAt(disk', i, q)
        BY <1>6, <2>4 DEF ViewedAt, StoredAt
      <3> QED
        BY <2>6, <3>1
    <2> QED
      BY <1>9, <1>11, <2>2, <2>4, <2>5, <2>6, <2>7
  <1> QED
    BY <1>1, <1>4, <1>10, <1>11 DEF Seeks, MovedIn, Moved

(* What an open file shows is its view.                                    *)
LEMMA ViewIs ==
    ASSUME BelowDouble, NEW f \in Files, IsOpen(f)
    PROVE  /\ AbsView[f] = [q \in Position |-> ViewedAt(disk, inumber[f], fd[f], q)]
           /\ f \in AbsOpen /\ AbsPos[f] = fd[f].cursor /\ AbsLimit[f] = fd[f].size * SECTOR
  <1>1. \A q \in Position : ViewedOctet(f, q) = ViewedAt(disk, inumber[f], fd[f], q)
    BY ViewedIs
  <1> QED
    BY <1>1 DEF AbsView, AbsOpen, AbsPos, AbsLimit

(* Seeks, reads and writes of a volume that is not full.                   *)
LEMMA SeekRefines ==
    ASSUME IInv, ~deleted, BelowDouble, NEW f \in Files, NEW p \in Position, Seek(f, p),
           ~SuperLost, ~SuperLost'
    PROVE  Promise!Seek(f, p)
  <1> DEFINE u == SeekIfile(Now, inumber[f], fd[f], p)
             octets == [q \in Position |-> ViewedAt(disk, inumber[f], fd[f], q)]
  <1>1. /\ IsOpen(f) /\ Ends(u.machine, [fd EXCEPT ![f] = u.descriptor])
        /\ got' = NONE /\ inumber' = inumber
    BY DEF Seek
  <1>2. fd[f] \in Descriptors /\ ~fd[f].closed /\ Fresh(Now, inumber[f], fd[f])
    BY <1>1, OpenFileIs
  <1>3. p \in 0 .. MaxPosition
    BY PositionsIs
  <1>4. AbsMoveTo(f, p, octets)
    BY <1>1, <1>2, <1>3, MoveRefines
  <1>5. AbsView[f] = octets /\ f \in AbsOpen
    BY <1>1, ViewIs
  <1> HIDE DEF octets
  <1> QED
    BY ONLY f \in Files, <1>1, <1>4, <1>5
       DEF Promise!Seek, Promise!MoveTo, Promise!NONE, NONE,
           AbsMoveTo, AbsStored, AbsView, AbsPos, AbsLimit, AbsOpen

(* readc_ifile returns the octet of the view.                               *)
LEMMA ReadRefines ==
    ASSUME IInv, ~deleted, BelowDouble, NEW f \in Files, Read(f), ~SuperLost, ~SuperLost'
    PROVE  Promise!Read(f)
  <1> DEFINE d == fd[f]
             u == SeekIfile(Now, inumber[f], d, d.cursor + 1)
             octets == [q \in Position |-> ViewedAt(disk, inumber[f], d, q)]
  <1>1. /\ IsOpen(f) /\ ~AtEnd(d) /\ d.cursor < MaxPosition
        /\ Ends(u.machine, [fd EXCEPT ![f] = u.descriptor])
        /\ got' = IF u.machine.ok THEN CurrentOctet(d) ELSE NONE
        /\ inumber' = inumber
    BY DEF Read
  <1>2. d \in Descriptors /\ ~d.closed /\ Fresh(Now, inumber[f], d)
    BY <1>1, OpenFileIs
  <1>3. /\ d.cursor + 1 \in 0 .. MaxPosition /\ d.cursor \in Position
        /\ d.cursor < d.size * SECTOR
    <2>1. d.cursor \in 0 .. MaxPosition /\ d.cursor \in Nat /\ d.size \in Nat
      BY <1>2, FieldsIs
    <2> QED
      BY <1>1, <2>1, PositionsIs DEF AtEnd
  <1>4. u.machine.ok /\ AbsMoveTo(f, d.cursor + 1, octets)
    BY <1>1, <1>2, <1>3, MoveRefines
  <1>5. /\ AbsView[f] = octets /\ f \in AbsOpen
        /\ AbsPos[f] = d.cursor /\ AbsLimit[f] = d.size * SECTOR
    BY <1>1, ViewIs
  <1>6. got' = octets[d.cursor]
    BY <1>1, <1>3, <1>4 DEF ViewedAt, CurrentOctet
  <1>7. AbsPos[f] < AbsLimit[f] /\ AbsPos[f] \in Position
    BY <1>3, <1>5
  <1>8. got' = AbsView[f][AbsPos[f]] /\ AbsMoveTo(f, AbsPos[f] + 1, octets)
    BY <1>4, <1>5, <1>6
  <1> HIDE DEF octets
  <1> QED
    BY ONLY f \in Files, <1>5, <1>7, <1>8
       DEF Promise!Read, Promise!MoveTo, AbsMoveTo, AbsStored, AbsView, AbsPos, AbsLimit, AbsOpen

(* writec_ifile changes one octet of the view.                              *)
LEMMA WriteRefines ==
    ASSUME IInv, ~deleted, BelowDouble, NEW f \in Files, NEW c \in Values, Write(f, c),
           ~SuperLost, ~SuperLost'
    PROVE  Promise!Write(f, c)
  <1> DEFINE d == fd[f]
             w == Modified(d, WithOctet(d, c))
             u == SeekIfile(Now, inumber[f], w, d.cursor + 1)
             octets == [q \in Position |-> ViewedAt(disk, inumber[f], w, q)]
  <1>1. IsOpen(f) /\ d.cursor < MaxPosition /\ got' = NONE /\ inumber' = inumber
    BY DEF Write
  <1>2. d \in Descriptors /\ ~d.closed
    BY <1>1, OpenFileIs
  <1>3. /\ d.cursor \in 0 .. MaxPosition /\ d.cursor \in Nat
        /\ d.cursor % SECTOR \in 0 .. SECTOR - 1 /\ d.file_buffer \in Sector
    BY <1>2, FieldsIs
  <1>4. d.cursor + 1 \in 0 .. MaxPosition /\ d.cursor \in Position
    BY <1>1, <1>3, PositionsIs
  <1>5. WithOctet(d, c) \in Sector
    BY <1>2, FieldsIs DEF WithOctet, Sector
  <1>6. WritecIfile(Now, inumber[f], d, c) = u
    BY <1>2, <1>5, WritecIs DEF Descriptors
  <1>7. Ends(u.machine, [fd EXCEPT ![f] = u.descriptor])
    BY <1>6 DEF Write
  <1>8. /\ w \in Descriptors /\ ~w.closed /\ w.modified
        /\ w.cursor = d.cursor /\ w.size = d.size /\ w.file_buffer = WithOctet(d, c)
    BY <1>2, <1>5, DescriptorsKept
  <1> HIDE DEF w
  <1>9. Fresh(Now, inumber[f], w)
    BY <1>8 DEF Fresh
  <1>10. AbsMoveTo(f, d.cursor + 1, octets)
    BY <1>1, <1>4, <1>7, <1>8, <1>9, MoveRefines
  <1>11. /\ AbsView[f] = [q \in Position |-> ViewedAt(disk, inumber[f], d, q)]
         /\ f \in AbsOpen /\ AbsPos[f] = d.cursor
    BY <1>1, ViewIs
  <1>12. ASSUME NEW q \in Position
         PROVE  octets[q] = IF q = d.cursor THEN c ELSE AbsView[f][q]
    <2>1. q \in Nat
      BY PositionsIs
    <2>2. q % SECTOR \in 0 .. SECTOR - 1
      BY <2>1, PositionIs
    <2>3. AbsView[f][q] = ViewedAt(disk, inumber[f], d, q)
      BY <1>11
    <2>4. octets[q] = ViewedAt(disk, inumber[f], w, q)
      OBVIOUS
    <2>5. CASE q = d.cursor
      BY <1>3, <1>8, <2>4, <2>5 DEF ViewedAt, WithOctet, Sector
    <2>6. CASE q # d.cursor /\ PositionToFbloc(q) = PositionToFbloc(d.cursor)
      <3>1. q % SECTOR # d.cursor % SECTOR
        BY <1>3, <2>1, <2>6, SamePosition
      <3>2. w.file_buffer[q % SECTOR] = d.file_buffer[q % SECTOR]
        BY <1>3, <1>8, <2>2, <3>1 DEF WithOctet, Sector
      <3> QED
        BY <1>8, <2>3, <2>4, <2>6, <3>2 DEF ViewedAt
    <2>7. CASE PositionToFbloc(q) # PositionToFbloc(d.cursor)
      BY <1>8, <2>3, <2>4, <2>7 DEF ViewedAt
    <2> QED
      BY <2>5, <2>6, <2>7
  <1>13. octets = [AbsView[f] EXCEPT ![d.cursor] = c]
    <2>1. DOMAIN AbsView[f] = Position /\ octets = [q \in Position |-> octets[q]]
      BY <1>11
    <2> HIDE DEF octets
    <2> QED
      BY ONLY <1>11, <1>12, <2>1
  <1>14. AbsMoveTo(f, AbsPos[f] + 1, octets) /\ octets = [AbsView[f] EXCEPT ![AbsPos[f]] = c]
    BY <1>10, <1>11, <1>13
  <1>15. AbsPos[f] \in Position
    BY <1>4, <1>11
  <1> HIDE DEF octets
  <1> QED
    BY ONLY f \in Files, <1>1, <1>11, <1>14, <1>15
       DEF Promise!Write, Promise!MoveTo, Promise!NONE, NONE,
           AbsMoveTo, AbsStored, AbsView, AbsPos, AbsLimit, AbsOpen

(* The end of a file is where the descriptor says it is.                   *)
LEMMA ReadEndRefines ==
    ASSUME IInv, ~deleted, BelowDouble, NEW f \in Files, ReadEnd(f)
    PROVE  Promise!ReadEnd(f)
  <1>1. /\ IsOpen(f) /\ AtEnd(fd[f]) /\ got' = READ_EOF
        /\ disk' = disk /\ super' = super /\ fd' = fd /\ inumber' = inumber
    BY DEF ReadEnd
  <1>2. f \in AbsOpen /\ AbsPos[f] >= AbsLimit[f]
    BY ONLY f \in Files, <1>1 DEF AtEnd, AbsOpen, AbsPos, AbsLimit
  <1>3. /\ AbsOpen' = AbsOpen /\ AbsPos' = AbsPos /\ AbsView' = AbsView /\ AbsStored' = AbsStored
        /\ AbsLimit' = AbsLimit /\ SuperLost' = SuperLost
    BY <1>1 DEF AbsStored, AbsView, AbsPos, AbsLimit, AbsOpen, SuperLost,
                IsOpen, StoredOctet, ViewedOctet
  <1> QED
    BY ONLY f \in Files, <1>1, <1>2, <1>3
       DEF Promise!ReadEnd, Promise!READ_EOF, READ_EOF, AbsStored, AbsView, AbsPos, AbsLimit, AbsOpen

(* A flush stores what the descriptor shows.                               *)
LEMMA FlushedIs ==
    ASSUME IInv, ~deleted, BelowDouble, NEW f \in Files, IsOpen(f), NEW d \in Descriptors,
           NEW m, Flushes(Contents, Now, m, Inums, inumber[f], PositionToFbloc(d.cursor),
                          d.file_buffer),
           disk' = m.disk, inumber' = inumber, ~SuperLost'
    PROVE  /\ m.ok /\ m.super # NoSuper
           /\ \A g \in Files \ {f} : Kept(g)
           /\ \A q \in Position : StoredAt(disk', inumber[f], q) = ViewedAt(disk, inumber[f], d, q)
  <1> DEFINE i == inumber[f]
             k == PositionToFbloc(d.cursor)
  <1>1. /\ f \in Created /\ i \in Inums /\ Now.disk = disk
    BY OpenFileIs
  <1>2. m.ok /\ m.super # NoSuper
    <2>1. OnVolume(Contents, m, Inums)
      BY DEF Flushes
    <2> QED
      BY <2>1, OnVolumeIs, ContentsIs
  <1>3. ~Lost(m) /\ i # NULL_BLOC
    BY <1>1 DEF Lost, SuperLost, Created
  <1>4. \A g \in Created \ {f} : inumber[g] \in Inums /\ inumber[g] # i
    BY <1>1 DEF IInv, Mounted, Inums
  <1>5. \A g \in Files \ {f} : Kept(g)
    BY <1>1, <1>4 DEF Kept, Flushes, Created
  <1>6. ASSUME NEW q \in Position
        PROVE  StoredAt(disk', i, q) = ViewedAt(disk, i, d, q)
    <2>1. CASE PositionToFbloc(q) = k
      BY <1>3, <2>1 DEF Flushes, StoredAt, ViewedAt
    <2>2. CASE PositionToFbloc(q) # k
      <3>1. PositionToFbloc(q) \in Fbloc
        BY PositionsIs
      <3>2. Held(disk', i, PositionToFbloc(q)) = Held(disk, i, PositionToFbloc(q))
        BY <1>1, <2>2, <3>1 DEF Flushes
      <3> QED
        BY <1>3, <2>2, <3>2 DEF StoredAt, ViewedAt
    <2> QED
      BY <2>1, <2>2
  <1> QED
    BY <1>2, <1>5, <1>6

(* flush_ifile.                                                            *)
LEMMA FlushRefines ==
    ASSUME IInv, ~deleted, BelowDouble, NEW f \in Files, Flush(f), ~SuperLost, ~SuperLost'
    PROVE  Promise!Flush(f)
  <1> DEFINE i == inumber[f]
             d == fd[f]
             m == FlushIfile(Now, i, d)
             octets == [q \in Position |-> ViewedAt(disk, i, d, q)]
  <1>1. IsOpen(f) /\ Ends(m, fd) /\ got' = NONE /\ inumber' = inumber
    BY DEF Flush
  <1>2. Flushes(Contents, Now, m, Inums, i, PositionToFbloc(d.cursor), d.file_buffer)
    BY <1>1, FlushLeaves
  <1>3. d \in Descriptors /\ ~d.closed /\ super # NoSuper
    BY <1>1, OpenFileIs
  <1>4. disk' = m.disk
    BY <1>1 DEF Ends
  <1> HIDE DEF m
  <1>5. /\ m.ok /\ m.super # NoSuper
        /\ \A g \in Files \ {f} : Kept(g)
        /\ \A q \in Position : StoredAt(disk', i, q) = ViewedAt(disk, i, d, q)
    BY <1>1, <1>2, <1>3, <1>4, FlushedIs
  <1>6. fd' = fd /\ super' # NoSuper
    BY <1>1, <1>5 DEF Ends
  <1>7. \A g \in Files : IsOpen(g)' <=> IsOpen(g)
    BY <1>3, <1>6 DEF IsOpen
  <1>8. AbsOpen' = AbsOpen /\ AbsPos' = AbsPos /\ AbsLimit' = AbsLimit
    BY ONLY <1>6, <1>7 DEF AbsOpen, AbsPos, AbsLimit
  <1>9. ASSUME NEW q \in Position
        PROVE  ViewedOctet(f, q)' = ViewedOctet(f, q)
    <2>1. ViewedAt(disk', i, d, q) = ViewedAt(disk, i, d, q)
      BY <1>5 DEF ViewedAt
    <2>2. ViewedOctet(f, q)' = ViewedAt(disk', inumber'[f], fd'[f], q)
      BY <1>3, <1>6, ViewedIs
    <2>3. ViewedOctet(f, q) = ViewedAt(disk, i, d, q)
      BY <1>1, ViewedIs
    <2> QED
      BY <1>1, <1>6, <2>1, <2>2, <2>3
  <1>10. \A g \in Files \ {f} : \A q \in Position :
            ViewedOctet(g, q)' = ViewedOctet(g, q) /\ StoredOctet(g, q)' = StoredOctet(g, q)
    BY <1>3, <1>5, <1>6, KeptIs
  <1>11. AbsView' = AbsView
    BY <1>9, <1>10 DEF AbsView
  <1>12. \A g \in Files \ {f} : AbsStored'[g] = AbsStored[g]
    BY <1>10 DEF AbsStored
  <1>13. ASSUME NEW q \in Position
         PROVE  StoredOctet(f, q)' = AbsView[f][q]
    <2>1. StoredOctet(f, q)' = StoredAt(disk', i, q)
      BY <1>1, StoredIs
    <2>2. AbsView[f][q] = ViewedOctet(f, q)
      BY DEF AbsView
    <2>3. ViewedOctet(f, q) = ViewedAt(disk, i, d, q)
      BY <1>1, ViewedIs
    <2> QED
      BY <1>5, <2>1, <2>2, <2>3
  <1>14. AbsView[f] = [q \in Position |-> AbsView[f][q]]
    BY DEF AbsView
  <1>15. AbsStored' = [AbsStored EXCEPT ![f] = AbsView[f]]
    <2>1. AbsStored'[f] = AbsView[f]
      BY <1>13, <1>14 DEF AbsStored
    <2>2. AbsStored' = [g \in Files |-> AbsStored'[g]] /\ AbsStored = [g \in Files |-> AbsStored[g]]
      BY DEF AbsStored
    <2> QED
      BY ONLY <1>12, <2>1, <2>2
  <1>16. f \in AbsOpen /\ SuperLost' = SuperLost
    BY <1>1 DEF AbsOpen, SuperLost
  <1> QED
    BY ONLY f \in Files, <1>1, <1>8, <1>11, <1>15, <1>16, PromiseFlush

(* close_ifile stores the view, too.                                        *)
LEMMA CloseRefines ==
    ASSUME IInv, ~deleted, BelowDouble, NEW f \in Files, Close(f), ~SuperLost, ~SuperLost'
    PROVE  Promise!Close(f)
  <1> DEFINE i == inumber[f]
             d == fd[f]
             m == FlushIfile(Now, i, d)
  <1>1. IsOpen(f) /\ Ends(m, [fd EXCEPT ![f] = Closed]) /\ got' = NONE /\ inumber' = inumber
    BY DEF Close
  <1>2. Flushes(Contents, Now, m, Inums, i, PositionToFbloc(d.cursor), d.file_buffer)
    BY <1>1, FlushLeaves
  <1>3. d \in Descriptors /\ ~d.closed /\ super # NoSuper
    BY <1>1, OpenFileIs
  <1>4. disk' = m.disk
    BY <1>1 DEF Ends
  <1> HIDE DEF m
  <1>5. /\ m.ok /\ m.super # NoSuper
        /\ \A g \in Files \ {f} : Kept(g)
        /\ \A q \in Position : StoredAt(disk', i, q) = ViewedAt(disk, i, d, q)
    BY <1>1, <1>2, <1>3, <1>4, FlushedIs
  <1>6. fd' = [fd EXCEPT ![f] = Closed] /\ super' # NoSuper
    BY <1>1, <1>5 DEF Ends
  <1>7. fd'[f] = Closed /\ \A g \in Files \ {f} : fd'[g] = fd[g]
    BY <1>6 DEF IInv, Typed
  <1>8. Closed.closed /\ Closed.cursor = 0 /\ Closed.size = 0
    BY ClosedIs
  <1>9. \A g \in Files : (super' # NoSuper /\ ~fd'[g].closed) <=> IsOpen(g) /\ g # f
    BY <1>3, <1>6, <1>7, <1>8 DEF IsOpen
  <1>10. AbsOpen' = AbsOpen \ {f}
    <2>1. AbsOpen' = { g \in Files : super' # NoSuper /\ ~fd'[g].closed }
      BY DEF AbsOpen, IsOpen
    <2> QED
      BY ONLY <1>9, <2>1 DEF AbsOpen
  <1>11. AbsPos' = [g \in Files |-> IF g \in {f} THEN 0 ELSE AbsPos[g]]
    BY <1>7, <1>8 DEF AbsPos
  <1>12. AbsLimit' = [g \in Files |-> IF g \in {f} THEN 0 ELSE AbsLimit[g]]
    BY <1>7, <1>8 DEF AbsLimit
  <1>13. \A g \in Files \ {f} : \A q \in Position :
            ViewedOctet(g, q)' = ViewedOctet(g, q) /\ StoredOctet(g, q)' = StoredOctet(g, q)
    BY <1>3, <1>5, <1>6, <1>7, KeptIs
  <1>14. \A q \in Position : ViewedOctet(f, q)' = 0
    BY <1>7, <1>8, ViewedIs
  <1>15. AbsView' = [g \in Files |-> IF g \in {f} THEN [p \in Position |-> 0] ELSE AbsView[g]]
    BY ONLY f \in Files, <1>13, <1>14 DEF AbsView
  <1>16. \A g \in Files \ {f} : AbsStored'[g] = AbsStored[g]
    BY <1>13 DEF AbsStored
  <1>17. ASSUME NEW q \in Position
         PROVE  StoredOctet(f, q)' = AbsView[f][q]
    <2>1. StoredOctet(f, q)' = StoredAt(disk', i, q)
      BY <1>1, StoredIs
    <2>2. AbsView[f][q] = ViewedOctet(f, q)
      BY DEF AbsView
    <2>3. ViewedOctet(f, q) = ViewedAt(disk, i, d, q)
      BY <1>1, ViewedIs
    <2> QED
      BY <1>5, <2>1, <2>2, <2>3
  <1>18. AbsView[f] = [q \in Position |-> AbsView[f][q]]
    BY DEF AbsView
  <1>19. AbsStored' = [AbsStored EXCEPT ![f] = AbsView[f]]
    <2>1. AbsStored'[f] = AbsView[f]
      BY <1>17, <1>18 DEF AbsStored
    <2>2. AbsStored' = [g \in Files |-> AbsStored'[g]] /\ AbsStored = [g \in Files |-> AbsStored[g]]
      BY DEF AbsStored
    <2> QED
      BY ONLY <1>16, <2>1, <2>2
  <1>20. f \in AbsOpen /\ SuperLost' = SuperLost
    BY <1>1 DEF AbsOpen, SuperLost
  <1>21. Promise!Forget({f})
    BY ONLY <1>1, <1>10, <1>11, <1>12, <1>15, PromiseForget
  <1> QED
    BY ONLY f \in Files, <1>19, <1>20, <1>21
       DEF Promise!Close, AbsStored, AbsView, AbsOpen

(* The program forgets its descriptors, another one has none.              *)
LEMMA ForgetRefines ==
    ASSUME BelowDouble, disk' = disk, inumber' = inumber, got' = NONE,
           super = NoSuper \/ super' = NoSuper,
           \A g \in Files : (fd[g] = Closed \/ super # NoSuper) /\ fd'[g] = Closed
    PROVE  Promise!Exit
  <1>1. Closed.closed /\ Closed.cursor = 0 /\ Closed.size = 0
    BY ClosedIs
  <1>2. \A g \in Files : ~(super' # NoSuper /\ ~fd'[g].closed)
    BY <1>1
  <1>3. AbsOpen' = AbsOpen \ Files
    <2>1. AbsOpen' = { g \in Files : super' # NoSuper /\ ~fd'[g].closed }
      BY DEF AbsOpen, IsOpen
    <2> QED
      BY ONLY <1>2, <2>1 DEF AbsOpen
  <1>4. AbsPos' = [g \in Files |-> IF g \in Files THEN 0 ELSE AbsPos[g]]
    BY <1>1 DEF AbsPos
  <1>5. AbsLimit' = [g \in Files |-> IF g \in Files THEN 0 ELSE AbsLimit[g]]
    BY <1>1 DEF AbsLimit
  <1>6. \A g \in Files : \A q \in Position : ViewedOctet(g, q)' = 0
    BY <1>2, ViewedIs
  <1>7. AbsView' = [g \in Files |-> IF g \in Files THEN [p \in Position |-> 0] ELSE AbsView[g]]
    BY ONLY <1>6 DEF AbsView
  <1>8. Promise!Forget(Files)
    BY ONLY got' = NONE, <1>3, <1>4, <1>5, <1>7, PromiseForget
  <1>9. AbsStored' = AbsStored /\ SuperLost' = SuperLost
    BY DEF AbsStored, StoredOctet, SuperLost
  <1> QED
    BY ONLY <1>8, <1>9 DEF Promise!Exit, AbsStored

(* Exit and mount.                                                         *)
LEMMA ExitRefines == ASSUME IInv, ~deleted, BelowDouble, Exit \/ Mount PROVE Promise!Exit
  <1>1. CASE Exit
    <2>1. /\ super # NoSuper /\ super' = NoSuper /\ \A g \in Files : fd'[g] = Closed
          /\ disk' = disk /\ inumber' = inumber /\ got' = NONE
      BY <1>1 DEF Exit
    <2> QED
      BY <2>1, ForgetRefines
  <1>2. CASE Mount
    <2>1. super = NoSuper /\ inumber' = inumber /\ got' = NONE /\ Ends(LoadSuper(Now), fd)
      BY <1>2 DEF Mount
    <2>2. \A g \in Files : fd[g] = Closed
      BY <2>1 DEF IInv, Faithful
    <2>3. \A g \in Files : fd'[g] = Closed
      BY <2>1, <2>2 DEF Ends
    <2>4. disk' = disk
      <3>1. Running(Now) /\ Now.disk = disk
        BY MachineIs DEF Now
      <3>2. LoadSuper(Now).disk = disk
        <4>1. CASE disk[0].kind = "super"
          BY <2>1, <3>1, <4>1, MachineIs DEF LoadSuper, Running, Fields, Now
        <4>2. CASE disk[0].kind # "super"
          BY <2>1, <3>1, <4>2, StoppedIs, MachineIs DEF LoadSuper, Running, Now
        <4> QED
          BY <4>1, <4>2
      <3> QED
        BY <2>1, <3>2 DEF Ends
    <2> QED
      BY <2>1, <2>2, <2>3, <2>4, ForgetRefines
  <1> QED
    BY <1>1, <1>2

(* A file that is not open becomes one of null octets.                     *)
LEMMA EmptyRefines ==
    ASSUME BelowDouble, NEW f \in Files, fd[f].closed, fd' = fd, got' = NONE,
           super # NoSuper, super' # NoSuper, \A g \in Files \ {f} : Kept(g),
           \A q \in Position : StoredOctet(f, q)' = 0, SuperLost' = SuperLost
    PROVE  Promise!Delete(f)
  <1>1. \A g \in Files : IsOpen(g)' <=> IsOpen(g)
    BY DEF IsOpen
  <1>2. AbsOpen' = AbsOpen /\ AbsPos' = AbsPos /\ AbsLimit' = AbsLimit
    BY <1>1 DEF AbsOpen, AbsPos, AbsLimit
  <1>3. \A g \in Files \ {f} : \A q \in Position :
           ViewedOctet(g, q)' = ViewedOctet(g, q) /\ StoredOctet(g, q)' = StoredOctet(g, q)
    BY KeptIs
  <1>4. \A q \in Position : ViewedOctet(f, q)' = ViewedOctet(f, q)
    <2>1. ~IsOpen(f) /\ ~(super' # NoSuper /\ ~fd'[f].closed)
      BY DEF IsOpen
    <2> QED
      BY <2>1, ViewedIs
  <1>5. AbsView' = AbsView
    BY <1>3, <1>4 DEF AbsView
  <1>6. AbsStored' = [AbsStored EXCEPT ![f] = [p \in Position |-> 0]]
    BY ONLY f \in Files, <1>3, \A q \in Position : StoredOctet(f, q)' = 0 DEF AbsStored
  <1>7. f \notin AbsOpen
    BY DEF AbsOpen, IsOpen
  <1> QED
    BY ONLY f \in Files, got' = NONE, SuperLost' = SuperLost, <1>2, <1>5, <1>6, <1>7, PromiseDelete

(* create_ifile: none of the blocs a file of before has named shows.       *)
LEMMA CreateRefines ==
    ASSUME IInv, ~deleted, BelowDouble, NEW f \in Files, Create(f), ~SuperLost, ~SuperLost'
    PROVE  Promise!Delete(f)
  <1> DEFINE m == CreateInode(Now, "NORMAL")
  <1>1. Typed /\ Mounted /\ \A g \in Files : Faithful(g)
    BY DEF IInv
  <1>2. /\ super # NoSuper /\ inumber[f] = NULL_BLOC /\ Ends(m, fd)
        /\ inumber' = IF m.ok THEN [inumber EXCEPT ![f] = m.ret] ELSE inumber
        /\ got' = NONE
    BY DEF Create
  <1>3. OnVolume(Contents, Now, Inums) /\ Now.disk = disk /\ Now.super = super
    BY <1>1, <1>2, NowIs
  <1>4. Creates(Contents, Now, m, Inums, NewInode)
    BY <1>3, CreateIs, ContentsIs DEF NewInode
  <1> HIDE DEF m
  <1>5. OnVolume(Contents, m, With(Inums, m.ret)) /\ SameHeld(disk, m.disk, Inums)
    BY <1>3, <1>4 DEF Creates
  <1>6. m.ok /\ m.super # NoSuper
    BY <1>5, OnVolumeIs, ContentsIs
  <1>7. /\ disk' = m.disk /\ super' = m.super /\ fd' = fd
        /\ inumber' = [inumber EXCEPT ![f] = m.ret]
    BY <1>2, <1>6 DEF Ends
  <1>8. m.ret # NULL_BLOC /\ \A l \in Fbloc : Held(disk', m.ret, l) = Zero
    BY <1>4, <1>7 DEF Creates, Lost, SuperLost
  <1>9. inumber'[f] = m.ret /\ \A g \in Files \ {f} : inumber'[g] = inumber[g]
    BY <1>1, <1>7 DEF Typed
  <1>10. \A g \in Files \ {f} : Kept(g)
    <2>1. \A g \in Files : inumber[g] # NULL_BLOC => inumber[g] \in Inums
      BY DEF Inums, Created
    <2> QED
      BY <1>5, <1>7, <1>9, <2>1 DEF Kept, SameHeld
  <1>11. ASSUME NEW q \in Position
         PROVE  StoredOctet(f, q)' = 0
    <2>1. PositionToFbloc(q) \in Fbloc /\ q \in Nat
      BY PositionsIs
    <2>2. q % SECTOR \in 0 .. SECTOR - 1
      BY <2>1, PositionIs
    <2>3. StoredAt(disk', m.ret, q) = 0
      BY <1>8, <2>1, <2>2, ZeroIs DEF StoredAt, NoOctets
    <2> QED
      BY <1>9, <2>3, StoredIs
  <1>12. fd[f].closed
    BY <1>1, <1>2 DEF Faithful, Created
  <1>13. super' # NoSuper /\ SuperLost' = SuperLost
    BY <1>6, <1>7 DEF SuperLost
  <1> QED
    BY <1>2, <1>7, <1>10, <1>11, <1>12, <1>13, EmptyRefines

(* delete_ifile: the super bloc is saved last, so it is not lost.          *)
LEMMA DeleteRefines ==
    ASSUME IInv, ~deleted, BelowDouble, NEW f \in Files, Delete(f), ~SuperLost
    PROVE  Promise!Delete(f)
  <1> DEFINE i == inumber[f]
             m == DeleteIfile(Now, i)
  <1>1. /\ super # NoSuper /\ i # NULL_BLOC /\ fd[f].closed /\ Ends(m, fd)
        /\ inumber' = [inumber EXCEPT ![f] = NULL_BLOC] /\ got' = NONE
    BY DEF Delete
  <1>2. Typed /\ Mounted
    BY DEF IInv
  <1>3. /\ OnVolume(Contents, Now, Inums) /\ Now.disk = disk /\ i \in Inums
    BY <1>1, <1>2, NowIs DEF Inums, Created
  <1>4. Deletes(Contents, Now, m, i)
    BY <1>3, DeleteIs, ContentsIs
  <1> HIDE DEF m
  <1>5. SameHeld(disk, m.disk, Inums \ {i})
    <2>1. OnVolume(Contents, Now, Inums) /\ i \in Inums /\ Complete(Contents)
      BY <1>3, ContentsIs
    <2> HIDE DEF i
    <2>2. SameHeld(Now.disk, m.disk, Inums \ {i})
      BY ONLY <1>4, <2>1, DeleteKeeps
    <2> QED
      BY <1>3, <2>2
  <1>6. /\ m.ok /\ m.super.kind = "super" /\ m.disk[0] = m.super
    BY <1>4 DEF Deletes, Sound, Running
  <1>7. disk' = m.disk /\ super' = m.super /\ fd' = fd
    BY <1>1, <1>6 DEF Ends
  <1>8. super' # NoSuper /\ SuperLost' = SuperLost
    BY <1>6, <1>7, Kinds DEF SuperLost
  <1>9. inumber'[f] = NULL_BLOC /\ \A g \in Files \ {f} : inumber'[g] = inumber[g]
    BY <1>1, <1>2 DEF Typed
  <1>10. \A g \in Files \ {f} : Kept(g)
    <2>1. \A g \in Files \ {f} : inumber[g] # NULL_BLOC => inumber[g] \in Inums \ {i}
      BY <1>1, <1>2 DEF Inums, Created, Mounted
    <2> QED
      BY <1>5, <1>7, <1>9, <2>1 DEF Kept, SameHeld
  <1>11. \A q \in Position : StoredOctet(f, q)' = 0
    BY <1>9, StoredIs DEF StoredAt
  <1> QED
    BY <1>1, <1>7, <1>8, <1>10, <1>11, EmptyRefines

(* open_ifile: taille is behind every bloc of the near part that is not     *)
(* null octets.                                                            *)
LEMMA OpenRefines ==
    ASSUME IInv, ~deleted, BelowDouble, NEW f \in Files, Open(f)
    PROVE  Promise!Open(f)
  <1> DEFINE i == inumber[f]
             u == OpenIfile(Now, i)
             size == disk[i].taille
             octets == Octets(Held(disk, i, 0))
             d == Descriptor(size, octets)
  <1>1. /\ super # NoSuper /\ i # NULL_BLOC /\ fd[f].closed
        /\ Ends(u.machine, [fd EXCEPT ![f] = u.descriptor])
        /\ got' = NONE /\ inumber' = inumber
    BY DEF Open
  <1>2. Typed /\ Mounted
    BY DEF IInv
  <1>3. f \in Created /\ i \in Inums
    BY <1>1 DEF Created, Inums
  <1>4. OnVolume(Contents, Now, Inums) /\ Now.disk = disk /\ Now.super = super
    BY <1>1, <1>2, NowIs
  <1>5. /\ Running(u.machine) /\ u.machine.disk = disk /\ u.machine.super = super
        /\ u.descriptor = d
    BY <1>3, <1>4, OpenIs, ContentsIs DEF Shown
  <1> HIDE DEF u
  <1>6. disk' = disk /\ super' = super /\ fd' = [fd EXCEPT ![f] = d]
    BY <1>1, <1>5 DEF Ends, Running
  <1>7. fd'[f] = d /\ \A g \in Files \ {f} : fd'[g] = fd[g]
    BY <1>2, <1>6 DEF Typed
  <1>8. d.cursor = 0 /\ d.size = size /\ d.file_buffer = octets /\ ~d.closed
    BY DEF Descriptor
  <1> HIDE DEF d
  <1>9. \A g \in Files : (super' # NoSuper /\ ~fd'[g].closed) <=> (IsOpen(g) \/ g = f)
    BY <1>1, <1>6, <1>7, <1>8 DEF IsOpen
  <1>10. AbsOpen' = AbsOpen \cup {f} /\ f \notin AbsOpen
    <2>1. AbsOpen' = { g \in Files : super' # NoSuper /\ ~fd'[g].closed }
      BY DEF AbsOpen, IsOpen
    <2>2. AbsOpen' = AbsOpen \cup {f}
      BY ONLY f \in Files, <1>9, <2>1 DEF AbsOpen
    <2> QED
      BY <1>1, <2>2 DEF AbsOpen, IsOpen
  <1>11. AbsPos' = [AbsPos EXCEPT ![f] = 0]
    <2>1. \A g \in Files : fd'[g].cursor = IF g = f THEN 0 ELSE fd[g].cursor
      BY <1>7, <1>8
    <2>2. AbsPos' = [g \in Files |-> IF g = f THEN 0 ELSE fd[g].cursor]
      BY ONLY <2>1 DEF AbsPos
    <2> QED
      BY ONLY <2>2 DEF AbsPos
  <1>12. AbsStored' = AbsStored /\ SuperLost' = SuperLost
    BY <1>1, <1>6 DEF AbsStored, StoredOctet, SuperLost
  <1>13. ASSUME NEW q \in Position
         PROVE  /\ ViewedOctet(f, q)' = StoredOctet(f, q)
                /\ StoredOctet(f, q) = Octets(Held(disk, i, PositionToFbloc(q)))[q % SECTOR]
    <2>1. ViewedOctet(f, q)' = ViewedAt(disk', inumber'[f], fd'[f], q)
      BY <1>1, <1>6, <1>7, <1>8, ViewedIs
    <2>2. StoredOctet(f, q) = StoredAt(disk, i, q)
      BY StoredIs
    <2>3. PositionToFbloc(0) = 0
      BY DEF PositionToFbloc
    <2>4. ViewedAt(disk, i, d, q) = StoredAt(disk, i, q)
      BY <1>1, <1>8, <2>3 DEF ViewedAt, StoredAt
    <2>5. StoredAt(disk, i, q) = Octets(Held(disk, i, PositionToFbloc(q)))[q % SECTOR]
      BY <1>1 DEF StoredAt
    <2> QED
      BY <1>1, <1>6, <1>7, <2>1, <2>2, <2>4, <2>5
  <1>14. AbsView' = [AbsView EXCEPT ![f] = AbsStored[f]]
    <2>1. \A g \in Files \ {f} : Kept(g)
      BY <1>1, <1>6 DEF Kept
    <2>2. \A g \in Files \ {f} : \A q \in Position : ViewedOctet(g, q)' = ViewedOctet(g, q)
      BY <1>1, <1>6, <1>7, <2>1, KeptIs
    <2> QED
      BY ONLY f \in Files, <1>13, <2>2 DEF AbsView, AbsStored
  <1>15. \A g \in Files \ {f} : AbsLimit'[g] = AbsLimit[g]
    BY <1>7 DEF AbsLimit
  <1>16. ASSUME NEW q \in Position, q < (NB_BLOCS + 1) * SECTOR, AbsStored[f][q] # 0
         PROVE  q < AbsLimit'[f]
    <2> DEFINE k == PositionToFbloc(q)
    <2>1. k \in Fbloc /\ q \in Nat
      BY PositionsIs
    <2>2. q % SECTOR \in 0 .. SECTOR - 1
      BY <2>1, PositionIs
    <2>3. Held(disk, i, k) # Zero
      <3>1. AbsStored[f][q] = Octets(Held(disk, i, k))[q % SECTOR]
        BY <1>13 DEF AbsStored
      <3> QED
        BY <1>16, <2>2, <3>1, ZeroIs DEF NoOctets
    <2>4. k < NB_BLOCS + 1
      <3>1. NB_BLOCS + 1 \in Nat
        OBVIOUS
      <3> QED
        BY <1>16, <2>1, <3>1, SectorBelow
    <2> HIDE DEF k
    <2>5. k < NB_BLOCS \/ k = NB_BLOCS
      BY <2>1, <2>4 DEF Fbloc
    <2>6. k < size /\ size \in Nat
      <3>1. Held(Now.disk, i, k) # Zero
        BY <1>4, <2>3
      <3>2. k < Now.disk[i].taille /\ Now.disk[i].taille \in Nat
        BY <1>3, <1>4, <2>1, <2>5, <3>1, HeldIs, ContentsIs
      <3> QED
        BY <1>4, <3>2
    <2>7. q < size * SECTOR
      <3> HIDE DEF size
      <3> QED
        BY <2>1, <2>6, SectorBelow DEF k
    <2>8. AbsLimit'[f] = size * SECTOR
      BY <1>7, <1>8 DEF AbsLimit
    <2> QED
      BY <2>7, <2>8
  <1> QED
    <2>1. \A q \in Position : q < (NB_BLOCS + 1) * SECTOR /\ AbsStored[f][q] # 0 => q < AbsLimit'[f]
      BY ONLY <1>16
    <2>2. got' = NONE
      BY <1>1
    <2> QED
      BY ONLY f \in Files, <1>10, <1>11, <1>12, <1>14, <1>15, <2>1, <2>2
         DEF Promise!Open, AbsStored, AbsView, AbsPos, AbsLimit, AbsOpen, Promise!NONE, NONE

(* A volume without files.                                                 *)
LEMMA InitRefines == ASSUME Init, BelowDouble PROVE Promise!Init
  <1>1. /\ super = NoSuper /\ got = NONE /\ \A f \in Files : inumber[f] = NULL_BLOC /\ fd[f] = Closed
    BY DEF Init
  <1>2. ~SuperLost
    <2>1. IInv
      BY InitIs
    <2> DEFINE m == Machine([b \in Bloc |-> Zero], NoSuper)
               r == InitSuper(m)
    <2>2. Running(m) /\ m.disk = [b \in Bloc |-> Zero]
      BY MachineIs
    <2>3. Disk(Contents, m.disk)
      <3>1. Zero \in Contents
        BY ContentsIs DEF Complete, ClosedFree
      <3> QED
        BY <2>2, <3>1 DEF Disk
    <2>4. disk = r.disk
      BY DEF Init
    <2> HIDE DEF m
    <2>5. r.disk[0] = r.super /\ r.super = Super(NULL_BLOC, NSector - 1, 1)
      BY <2>2, <2>3, ContentsIs, FormatIs
    <2> QED
      BY <2>4, <2>5, Kinds DEF SuperLost
  <1>3. AbsOpen = {}
    BY <1>1 DEF AbsOpen, IsOpen
  <1>4. \A f \in Files : fd[f].cursor = 0 /\ fd[f].size * SECTOR = 0
    BY <1>1, ClosedIs
  <1>5. \A f \in Files : \A q \in Position : StoredOctet(f, q) = 0 /\ ViewedOctet(f, q) = 0
    BY <1>1 DEF StoredOctet, ViewedOctet, IsOpen
  <1>6. /\ AbsStored = [f \in Files |-> [q \in Position |-> 0]]
        /\ AbsView = [f \in Files |-> [q \in Position |-> 0]]
    BY ONLY <1>5 DEF AbsStored, AbsView
  <1>7. AbsPos = [f \in Files |-> 0] /\ AbsLimit = [f \in Files |-> 0]
    BY ONLY <1>4 DEF AbsPos, AbsLimit
  <1>8. got = NONE /\ SuperLost = FALSE
    BY <1>1, <1>2
  <1> QED
    BY ONLY <1>3, <1>6, <1>7, <1>8
       DEF Promise!Init, Promise!NoOctets, Promise!NONE, NONE,
           AbsStored, AbsView, AbsPos, AbsLimit, AbsOpen

(* Every step is one of ByteFile, or none.                                 *)
LEMMA StepRefines ==
    ASSUME IInv, ~deleted, BelowDouble, [Next]_vars
    PROVE  [Promise!Next]_(Promise!vars)
  <1>1. CASE SuperLost \/ SuperLost'
    BY <1>1, FullIs
  <1>2. CASE UNCHANGED vars
    <2>1. /\ AbsOpen' = AbsOpen /\ AbsPos' = AbsPos /\ AbsView' = AbsView /\ AbsStored' = AbsStored
          /\ AbsLimit' = AbsLimit /\ got' = got /\ SuperLost' = SuperLost
      BY <1>2 DEF vars, AbsStored, AbsView, AbsPos, AbsLimit, AbsOpen, SuperLost,
                  IsOpen, StoredOctet, ViewedOctet
    <2> QED
      BY <2>1, SameIs
  <1>3. CASE ~SuperLost /\ ~SuperLost' /\ Next
    <2>1. CASE Mount \/ Exit
      BY <2>1, ExitRefines DEF Promise!Next
    <2>2. ASSUME NEW f \in Files, Create(f)
          PROVE  Promise!Next
      BY <1>3, <2>2, CreateRefines DEF Promise!Next
    <2>3. ASSUME NEW f \in Files, Open(f)
          PROVE  Promise!Next
      BY <2>3, OpenRefines DEF Promise!Next
    <2>4. ASSUME NEW f \in Files, Read(f)
          PROVE  Promise!Next
      BY <1>3, <2>4, ReadRefines DEF Promise!Next
    <2>5. ASSUME NEW f \in Files, ReadEnd(f)
          PROVE  Promise!Next
      BY <2>5, ReadEndRefines DEF Promise!Next
    <2>6. ASSUME NEW f \in Files, Flush(f)
          PROVE  Promise!Next
      BY <1>3, <2>6, FlushRefines DEF Promise!Next
    <2>7. ASSUME NEW f \in Files, Close(f)
          PROVE  Promise!Next
      BY <1>3, <2>7, CloseRefines DEF Promise!Next
    <2>8. ASSUME NEW f \in Files, Delete(f)
          PROVE  Promise!Next
      BY <1>3, <2>8, DeleteRefines DEF Promise!Next
    <2>9. ASSUME NEW f \in Files, NEW c \in Values, Write(f, c)
          PROVE  Promise!Next
      BY <1>3, <2>9, WriteRefines DEF Promise!Next
    <2>10. ASSUME NEW f \in Files, NEW p \in Position, Seek(f, p)
           PROVE  Promise!Next
      BY <1>3, <2>10, SeekRefines DEF Promise!Next
    <2> QED
      BY <1>3, <2>1, <2>2, <2>3, <2>4, <2>5, <2>6, <2>7, <2>8, <2>9, <2>10 DEF Next
  <1> QED
    BY <1>1, <1>2, <1>3

(***************************************************************************)
(* What a caller of ifile.c reads is what was last written there: every    *)
(* step of the program is a step of ByteFile or none, up to and with the   *)
(* first delete_ifile.                                                     *)
(***************************************************************************)
THEOREM StepsOfByteFile ==
    ASSUME BelowDouble
    PROVE  Spec => Promise!Init /\ [][~deleted => [Promise!Next]_(Promise!vars)]_vars
  <1>1. Init => Promise!Init
    BY InitRefines
  <1>2. IInv /\ [Next]_vars => [~deleted => [Promise!Next]_(Promise!vars)]_vars
    BY StepRefines
  <1> QED
    BY <1>1, <1>2, Invariance, PTL DEF Spec

(* So a program that deletes no file is one of ByteFile.                   *)
THEOREM IsByteFile == ASSUME BelowDouble PROVE Spec /\ []~deleted => ImplementsByteFile
  <1>1. Init => Promise!Init
    BY InitRefines
  <1>2. IInv /\ ~deleted /\ [Next]_vars => [Promise!Next]_(Promise!vars)
    BY StepRefines
  <1> QED
    BY <1>1, <1>2, Invariance, PTL DEF Spec, ImplementsByteFile, Promise!Spec

-----------------------------------------------------------------------------
\* The first deletion gives the volume back its blocs.
GivesBack ==
    \A f \in Created :
       ~deleted /\ ~SuperLost /\ inumber'[f] = NULL_BLOC /\ NoHoles(f)
         => /\ disk'[0] = super'
            /\ super'.nb_free_blc = super.nb_free_blc + disk[inumber[f]].taille + 1

(* No call but delete_ifile takes the inode number of a file away.         *)
LEMMA NumberKept ==
    ASSUME IInv, ~deleted, Next, NEW f \in Created, inumber'[f] = NULL_BLOC
    PROVE  Delete(f)
  <1>1. inumber \in [Files -> Bloc] /\ inumber[f] # NULL_BLOC /\ f \in Files
    BY DEF IInv, Typed, Created
  <1>2. inumber' # inumber
    BY <1>1
  <1>3. ~Mount /\ ~Exit
    BY <1>2 DEF Mount, Exit
  <1>4. \A g \in Files : ~Open(g) /\ ~Read(g) /\ ~ReadEnd(g) /\ ~Flush(g) /\ ~Close(g)
    BY <1>2 DEF Open, Read, ReadEnd, Flush, Close
  <1>5. \A g \in Files : /\ \A c \in Values : ~Write(g, c)
                         /\ \A p \in Position : ~Seek(g, p)
    BY <1>2 DEF Write, Seek
  <1>6. ASSUME NEW g \in Files, Create(g)
        PROVE  FALSE
    <2>1. inumber[g] = NULL_BLOC /\ g # f
      BY <1>1, <1>6 DEF Create
    <2>2. inumber'[f] = inumber[f]
      BY <1>1, <1>6, <2>1 DEF Create
    <2> QED
      BY <1>1, <2>2
  <1>7. ASSUME NEW g \in Files, Delete(g)
        PROVE  g = f
    <2>1. inumber' = [inumber EXCEPT ![g] = NULL_BLOC]
      BY <1>7 DEF Delete
    <2> QED
      BY <1>1, <2>1
  <1> QED
    BY <1>3, <1>4, <1>5, <1>6, <1>7 DEF Next

(* The first deletion, by what delete_ifile computes.                       *)
LEMMA GivesBackIs == ASSUME IInv, Next PROVE GivesBack
  <1>1. SUFFICES ASSUME NEW f \in Created, ~deleted, inumber'[f] = NULL_BLOC
                 PROVE  /\ disk'[0] = super'
                        /\ super'.nb_free_blc = super.nb_free_blc + disk[inumber[f]].taille + 1
    BY DEF GivesBack
  <1> DEFINE i == inumber[f]
             m == DeleteIfile(Now, i)
  <1>2. Delete(f)
    BY <1>1, NumberKept
  <1>3. super # NoSuper /\ Ends(m, fd) /\ i \in Inums
    BY <1>2 DEF Delete, Inums
  <1>4. OnVolume(Contents, Now, Inums) /\ Now.disk = disk /\ Now.super = super
    BY <1>1, <1>3, NowIs DEF IInv
  <1>5. Deletes(Contents, Now, m, i)
    BY <1>3, <1>4, DeleteIs, ContentsIs
  <1> HIDE DEF m
  <1>6. disk' = m.disk /\ super' = m.super
    BY <1>3, <1>5 DEF Ends, Deletes, Sound, Running
  <1> QED
    BY <1>4, <1>5, <1>6 DEF Deletes

(***************************************************************************)
(* delete_ifile gives the volume back as many blocs as it has to.          *)
(***************************************************************************)
THEOREM DeletionGivesBack == ASSUME BelowDouble PROVE Spec => DeleteGivesBack
  <1>1. IInv /\ [Next]_vars => [GivesBack]_vars
    BY GivesBackIs
  <1> QED
    BY <1>1, Invariance, PTL DEF Spec, DeleteGivesBack, GivesBack
=============================================================================

------------------------- MODULE Descriptors_proofs -------------------------
(***************************************************************************)
(* The calls of ifile.c on one volume on which nothing was freed, for       *)
(* sectors and tables of any size: what a flush, a move to another sector,  *)
(* an open and a delete do to the octets of all files.                     *)
(***************************************************************************)
EXTENDS Descriptors, Inodes_proofs, WellFoundedInduction

(***************************************************************************)
(* Descriptors with positions of P, sizes of N and sectors of O, and what   *)
(* the calls make of them.                                                 *)
(***************************************************************************)
DescriptorsOf(P, N, O) ==
    [cursor : P, size : N, file_buffer : O, modified : BOOLEAN, closed : BOOLEAN]

MovedIn(d, p) == [d EXCEPT !.cursor = p]
Moved(d, p, octets) == [d EXCEPT !.cursor = p, !.file_buffer = octets]
Modified(d, octets) == [d EXCEPT !.file_buffer = octets, !.modified = TRUE]

(* A closed descriptor.                                                    *)
LEMMA ClosedOf ==
    ASSUME NEW P, NEW N, NEW O, NoOctets \in O, 0 \in P, 0 \in N
    PROVE  Closed \in DescriptorsOf(P, N, O)
  BY DEF Closed, Descriptor, DescriptorsOf

(* Its fields.                                                              *)
LEMMA ClosedFields == Closed.closed /\ Closed.cursor = 0 /\ Closed.size = 0
  <1>1. Closed.closed
    BY DEF Closed, Descriptor
  <1>2. Closed.cursor = 0 /\ Closed.size = 0
    BY DEF Closed, Descriptor
  <1> QED
    BY <1>1, <1>2

(* A descriptor just opened.                                               *)
LEMMA DescriptorIs ==
    ASSUME NEW P, NEW N, NEW O, NEW size \in N, NEW octets \in O, 0 \in P
    PROVE  /\ Descriptor(size, octets) \in DescriptorsOf(P, N, O)
           /\ Descriptor(size, octets).cursor = 0 /\ Descriptor(size, octets).size = size
           /\ Descriptor(size, octets).file_buffer = octets
           /\ ~Descriptor(size, octets).closed
  <1>1. Descriptor(size, octets) \in DescriptorsOf(P, N, O)
    BY DEF Descriptor, DescriptorsOf
  <1>2. /\ Descriptor(size, octets).cursor = 0 /\ Descriptor(size, octets).size = size
        /\ Descriptor(size, octets).file_buffer = octets
    BY DEF Descriptor
  <1>3. ~Descriptor(size, octets).closed
    BY DEF Descriptor
  <1> QED
    BY <1>1, <1>2, <1>3

(* The cursor moves, in its sector or with another one.                    *)
LEMMA MovedInIs ==
    ASSUME NEW P, NEW N, NEW O, NEW d \in DescriptorsOf(P, N, O), NEW p \in P
    PROVE  /\ MovedIn(d, p) \in DescriptorsOf(P, N, O)
           /\ MovedIn(d, p).cursor = p /\ MovedIn(d, p).file_buffer = d.file_buffer
           /\ MovedIn(d, p).size = d.size
           /\ MovedIn(d, p).modified <=> d.modified
           /\ MovedIn(d, p).closed <=> d.closed
  <1>1. MovedIn(d, p) \in DescriptorsOf(P, N, O)
    BY DEF MovedIn, DescriptorsOf
  <1>2. /\ MovedIn(d, p).cursor = p /\ MovedIn(d, p).file_buffer = d.file_buffer
        /\ MovedIn(d, p).size = d.size
    BY DEF MovedIn, DescriptorsOf
  <1>3. MovedIn(d, p).modified <=> d.modified
    BY DEF MovedIn, DescriptorsOf
  <1>4. MovedIn(d, p).closed <=> d.closed
    BY DEF MovedIn, DescriptorsOf
  <1> QED
    BY <1>1, <1>2, <1>3, <1>4

(* A descriptor that has moved to another sector.                           *)
LEMMA MovedIs ==
    ASSUME NEW P, NEW N, NEW O, NEW d \in DescriptorsOf(P, N, O), NEW p \in P, NEW octets \in O
    PROVE  /\ Moved(d, p, octets) \in DescriptorsOf(P, N, O)
           /\ Moved(d, p, octets).cursor = p /\ Moved(d, p, octets).file_buffer = octets
           /\ Moved(d, p, octets).size = d.size
           /\ Moved(d, p, octets).modified <=> d.modified
           /\ Moved(d, p, octets).closed <=> d.closed
  <1>1. Moved(d, p, octets) \in DescriptorsOf(P, N, O)
    BY DEF Moved, DescriptorsOf
  <1>2. /\ Moved(d, p, octets).cursor = p /\ Moved(d, p, octets).file_buffer = octets
        /\ Moved(d, p, octets).size = d.size
    BY DEF Moved, DescriptorsOf
  <1>3. Moved(d, p, octets).modified <=> d.modified
    BY DEF Moved, DescriptorsOf
  <1>4. Moved(d, p, octets).closed <=> d.closed
    BY DEF Moved, DescriptorsOf
  <1> QED
    BY <1>1, <1>2, <1>3, <1>4

(* The sector is written.                                                  *)
LEMMA ModifiedIs ==
    ASSUME NEW P, NEW N, NEW O, NEW d \in DescriptorsOf(P, N, O), NEW octets \in O
    PROVE  /\ Modified(d, octets) \in DescriptorsOf(P, N, O)
           /\ Modified(d, octets).cursor = d.cursor /\ Modified(d, octets).file_buffer = octets
           /\ Modified(d, octets).size = d.size
           /\ Modified(d, octets).modified
           /\ Modified(d, octets).closed <=> d.closed
  <1>1. Modified(d, octets) \in DescriptorsOf(P, N, O)
    BY DEF Modified, DescriptorsOf
  <1>2. /\ Modified(d, octets).cursor = d.cursor /\ Modified(d, octets).file_buffer = octets
        /\ Modified(d, octets).size = d.size
    BY DEF Modified, DescriptorsOf
  <1>3. Modified(d, octets).modified
    BY DEF Modified, DescriptorsOf
  <1>4. Modified(d, octets).closed <=> d.closed
    BY DEF Modified, DescriptorsOf
  <1> QED
    BY <1>1, <1>2, <1>3, <1>4

\* The sector of descriptor d with octet c at its cursor.
WithOctet(d, c) == [d.file_buffer EXCEPT ![d.cursor % SECTOR] = c]

(* writec_ifile changes the sector and goes on.                            *)
LEMMA WritecIs ==
    ASSUME NEW P, NEW N, NEW O, NEW d \in DescriptorsOf(P, N, O), NEW c, WithOctet(d, c) \in O,
           NEW m, NEW i
    PROVE  WritecIfile(m, i, d, c) = SeekIfile(m, i, Modified(d, WithOctet(d, c)), d.cursor + 1)
  <1> DEFINE w == [d EXCEPT !.file_buffer[d.cursor % SECTOR] = c, !.modified = TRUE]
  <1>1. w = Modified(d, WithOctet(d, c))
    BY DEF Modified, WithOctet, DescriptorsOf
  <1>2. WritecIfile(m, i, d, c) = SeekIfile(m, i, w, w.cursor + 1)
    BY DEF WritecIfile, Advance
  <1>3. Modified(d, WithOctet(d, c)).cursor = d.cursor
    BY ModifiedIs
  <1> HIDE DEF w
  <1> QED
    BY <1>1, <1>2, <1>3

-----------------------------------------------------------------------------
USE NSectorAssumption, InodesAssumption, DescriptorsAssumption

-----------------------------------------------------------------------------
(* Positions and sectors.                                                  *)

(* A position is a file bloc and a place in its sector.                    *)
LEMMA PositionIs ==
    ASSUME NEW p \in Nat
    PROVE  /\ PositionToFbloc(p) \in Nat /\ p % SECTOR \in 0 .. SECTOR - 1
           /\ p = SECTOR * PositionToFbloc(p) + (p % SECTOR)
  BY DEF PositionToFbloc

(* Two positions in the same place of the same sector are one.             *)
LEMMA SamePosition ==
    ASSUME NEW p \in Nat, NEW q \in Nat,
           PositionToFbloc(p) = PositionToFbloc(q), p % SECTOR = q % SECTOR
    PROVE  p = q
  BY PositionIs

(* Positions below a sector are in the sectors below it.                   *)
LEMMA SectorBelow ==
    ASSUME NEW p \in Nat, NEW n \in Nat
    PROVE  p < n * SECTOR <=> PositionToFbloc(p) < n
  <1> DEFINE k == PositionToFbloc(p)
             x == p % SECTOR
  <1>1. k \in Nat /\ x \in 0 .. SECTOR - 1 /\ p = SECTOR * k + x
    BY DEF PositionToFbloc
  <1> HIDE DEF k, x
  <1>2. CASE k < n
    <2>1. PICK y \in Nat : n = k + 1 + y
      <3>1. n - k - 1 \in Nat /\ n = k + 1 + (n - k - 1)
        BY <1>1, <1>2
      <3> QED
        BY <3>1
    <2>2. n * SECTOR = SECTOR * k + SECTOR + y * SECTOR
      BY <1>1, <2>1
    <2>3. y * SECTOR \in Nat
      BY <2>1
    <2>4. SECTOR * k \in Nat /\ n * SECTOR \in Nat
      BY <1>1
    <2> QED
      BY <1>1, <1>2, <2>2, <2>3, <2>4 DEF k
  <1>3. CASE ~(k < n)
    <2>1. PICK y \in Nat : k = n + y
      <3>1. k - n \in Nat /\ k = n + (k - n)
        BY <1>1, <1>3
      <3> QED
        BY <3>1
    <2>2. SECTOR * k = n * SECTOR + SECTOR * y
      BY <1>1, <2>1
    <2>3. SECTOR * y \in Nat /\ n * SECTOR \in Nat
      BY <2>1
    <2> QED
      BY <1>1, <1>3, <2>2, <2>3 DEF k
  <1> QED
    BY <1>2, <1>3

-----------------------------------------------------------------------------
(* Octets.                                                                 *)

\* The sectors O of octets are what the data blocs of the contents C hold.
Sectors(C, O) ==
    /\ NoOctets \in O
    /\ \A octets \in O : Data(octets) \in C
    /\ \A c \in C : c.kind = "data" => c.octets \in O

(* Octets are written and read as they are.                                *)
LEMMA DataIs ==
    ASSUME NEW octets
    PROVE  /\ Data(octets).kind \in {"zero", "data"}
           /\ Octets(Data(octets)) = octets
  <1>1. CASE octets = NoOctets
    BY <1>1, Kinds DEF Data, Octets
  <1>2. CASE octets # NoOctets
    BY <1>2 DEF Data, Octets
  <1> QED
    BY <1>1, <1>2

(* A clean bloc has null octets.                                           *)
LEMMA ZeroIs == Octets(Zero) = NoOctets
  BY Kinds DEF Octets

(* What files hold are sectors of octets.                                  *)
LEMMA OctetsHeld ==
    ASSUME NEW C, Complete(C), NEW O, Sectors(C, O),
           NEW m, NEW I, OnVolume(C, m, I), NEW i \in I, NEW k \in Fbloc
    PROVE  Octets(Held(m.disk, i, k)) \in O
  <1>1. Held(m.disk, i, k) \in C /\ Held(m.disk, i, k).kind \in {"zero", "data"}
    BY HeldIs
  <1> QED
    BY <1>1 DEF Octets, Sectors

-----------------------------------------------------------------------------
(* Flushes and moves.                                                      *)

\* The machine r in which the sector of file bloc k of inode i has the octets
\* that were flushed, unless the volume was full, and all others are as they
\* were.
Flushes(C, m, r, I, i, k, octets) ==
    /\ OnVolume(C, r, I)
    /\ Lost(m) => Lost(r)
    /\ \A j \in I : \A l \in Fbloc : j # i \/ l # k => Held(r.disk, j, l) = Held(m.disk, j, l)
    /\ Lost(r) \/ Octets(Held(r.disk, i, k)) = octets

\* What a descriptor that nothing was written through shows is what is stored.
Fresh(m, i, d) ==
    ~d.modified => d.file_buffer = Octets(Held(m.disk, i, PositionToFbloc(d.cursor)))

(* flush_ifile, modified or not, on a full volume or not.                  *)
LEMMA FlushIs ==
    ASSUME NEW C, Complete(C), NEW O, Sectors(C, O), NEW m, NEW I, OnVolume(C, m, I),
           NEW i \in I, NEW d, d.file_buffer \in O, d.modified \in BOOLEAN,
           PositionToFbloc(d.cursor) \in Fbloc, Fresh(m, i, d)
    PROVE  Flushes(C, m, FlushIfile(m, i, d), I, i, PositionToFbloc(d.cursor), d.file_buffer)
  <1> DEFINE k == PositionToFbloc(d.cursor)
             r == AllocateVblocOfFbloc(m, i, k)
             c == Data(d.file_buffer)
             w == WriteFound(r, c)
  <1>1. CASE ~d.modified
    <2>1. FlushIfile(m, i, d) = m
      BY <1>1 DEF FlushIfile
    <2> QED
      BY <1>1, <2>1 DEF Flushes, Fresh
  <1>2. CASE d.modified
    <2>1. FlushIfile(m, i, d) = w
      BY <1>2 DEF FlushIfile
    <2>2. Allocates(C, m, r, I, i, k)
      BY AllocateIs
    <2>3. SameHeld(m.disk, r.disk, I)
      BY <2>2, AllocateHolds
    <2>4. c \in C /\ c.kind \in {"zero", "data"} /\ Octets(c) = d.file_buffer
      BY DataIs DEF Sectors
    <2> HIDE DEF c, r
    <2>5. Stores(C, r, w, I, i, k, c)
      <3>1. OnVolume(C, r, I) /\ r.ret = Named(r.disk, i, k) /\ (r.ret = NULL_BLOC => Lost(r))
        BY <2>2 DEF Allocates
      <3>2. CASE r.ret = NULL_BLOC
        <4>1. c.kind # "super"
          BY <2>4
        <4> QED
          BY <2>4, <3>1, <3>2, <4>1, StoreOfFull
      <3>3. CASE r.ret # NULL_BLOC
        BY <2>4, <3>1, <3>3, StoreIs
      <3> QED
        BY <3>2, <3>3
    <2> HIDE DEF w, k
    <2>6. OnVolume(C, w, I) /\ (Lost(m) => Lost(w))
      BY <2>2, <2>5 DEF Allocates, Stores
    <2>7. \A j \in I : \A l \in Fbloc : j # i \/ l # k => Held(w.disk, j, l) = Held(m.disk, j, l)
      BY <2>3, <2>5 DEF Stores, SameHeld
    <2>8. Lost(w) \/ Octets(Held(w.disk, i, k)) = d.file_buffer
      <3>1. k \in Fbloc
        BY DEF k
      <3> QED
        BY <2>2, <2>4, <2>5, <3>1 DEF Stores, Allocates
    <2> QED
      BY <2>1, <2>6, <2>7, <2>8 DEF Flushes, k
  <1> QED
    BY <1>1, <1>2

\* The octets a descriptor shows at file bloc k of inode i.
Shown(m, i, k) == Octets(Held(m.disk, i, k))

\* What a move to position p does: nothing but to the cursor in the same sector;
\* else the sector left is flushed and the one reached is shown; or the program
\* has ended on a full volume.
Seeks(C, m, u, I, i, d, p) ==
    \/ /\ InSector(d, p)
       /\ u.machine = m /\ u.descriptor = [d EXCEPT !.cursor = p]
    \/ /\ ~InSector(d, p)
       /\ Flushes(C, m, u.machine, I, i, PositionToFbloc(d.cursor), d.file_buffer)
       /\ u.descriptor = [d EXCEPT !.cursor = p,
                                   !.file_buffer = Shown(u.machine, i, PositionToFbloc(p))]
    \/ /\ ~InSector(d, p)
       /\ DOMAIN u.machine = Fields /\ ~u.machine.ok
       /\ Volume(C, u.machine.disk, u.machine.super, I) /\ Lost(u.machine)

(* seek_ifile, and the moves of readc_ifile and writec_ifile.              *)
LEMMA SeekIs ==
    ASSUME NEW C, Complete(C), NEW O, Sectors(C, O), NEW m, NEW I, OnVolume(C, m, I),
           NEW i \in I, NEW d, d.file_buffer \in O, d.modified \in BOOLEAN,
           PositionToFbloc(d.cursor) \in Fbloc, Fresh(m, i, d),
           NEW p, PositionToFbloc(p) \in Fbloc
    PROVE  Seeks(C, m, SeekIfile(m, i, d, p), I, i, d, p)
  <1> DEFINE k == PositionToFbloc(d.cursor)
             q == PositionToFbloc(p)
             f == FlushIfile(m, i, d)
             r == AllocateVblocOfFbloc(f, i, q)
             u == MoveTo(r, d, p)
  <1>1. CASE InSector(d, p)
    BY <1>1 DEF SeekIfile, Seeks, Using
  <1>2. CASE ~InSector(d, p)
    <2>1. SeekIfile(m, i, d, p) = u
      BY <1>2 DEF SeekIfile
    <2>2. Flushes(C, m, f, I, i, k, d.file_buffer)
      BY FlushIs
    <2> HIDE DEF f
    <2>3. Allocates(C, f, r, I, i, q)
      BY <2>2, AllocateIs DEF Flushes
    <2>4. SameHeld(f.disk, r.disk, I)
      BY <2>3, AllocateHolds
    <2> HIDE DEF r, k
    <2>5. Flushes(C, m, r, I, i, k, d.file_buffer)
      <3>1. k \in Fbloc
        BY DEF k
      <3> QED
        BY <2>2, <2>3, <2>4, <3>1 DEF Flushes, Allocates, SameHeld
    <2>6. CASE r.ret = NULL_BLOC
      <3>1. u.machine = Stopped(r)
        BY <2>6 DEF MoveTo, Using
      <3>2. OnVolume(C, r, I) /\ Lost(r)
        BY <2>3, <2>6 DEF Allocates
      <3>3. /\ DOMAIN Stopped(r) = Fields /\ ~Stopped(r).ok
            /\ Stopped(r).disk = r.disk /\ Stopped(r).super = r.super
        BY <3>2, StoppedIs DEF OnVolume, Running
      <3> QED
        BY <1>2, <2>1, <3>1, <3>2, <3>3 DEF Seeks, OnVolume, Lost
    <2>7. CASE r.ret # NULL_BLOC
      <3>1. /\ u.machine = r
            /\ u.descriptor = [d EXCEPT !.cursor = p, !.file_buffer = OctetsFound(r)]
        BY <2>7 DEF MoveTo, Using
      <3>2. OctetsFound(r) = Shown(r, i, q)
        BY <2>3, <2>7 DEF Allocates, OctetsFound, Shown, Held
      <3> QED
        BY <1>2, <2>1, <2>5, <3>1, <3>2 DEF Seeks, k
    <2> QED
      BY <2>6, <2>7
  <1> QED
    BY <1>1, <1>2

(* open_ifile changes nothing, and shows the first sector.                 *)
LEMMA OpenIs ==
    ASSUME NEW C, Complete(C), NEW m, NEW I, OnVolume(C, m, I), NEW i \in I
    PROVE  /\ Running(OpenIfile(m, i).machine)
           /\ OpenIfile(m, i).machine.disk = m.disk
           /\ OpenIfile(m, i).machine.super = m.super
           /\ OpenIfile(m, i).descriptor = Descriptor(m.disk[i].taille, Shown(m, i, 0))
  <1> DEFINE r == VblocOfFbloc(m, i, 0)
  <1>1. 0 \in Fbloc
    BY DEF Fbloc
  <1>2. Running(m) /\ m.super # NoSuper /\ Readable(m.disk, i)
    BY OnVolumeIs
  <1>3. Finds(m, r, Named(m.disk, i, 0))
    BY <1>1, <1>2, LookupIs
  <1> HIDE DEF r
  <1>4. OctetsFound(r) = Shown(m, i, 0)
    BY <1>3, ZeroIs DEF Finds, OctetsFound, Shown, Held
  <1>5. OpenIfile(m, i) = Using(r, Descriptor(m.disk[i].taille, Shown(m, i, 0)))
    BY <1>3, <1>4 DEF OpenIfile, OnceFound, Finds, Running, r
  <1> QED
    BY <1>3, <1>5 DEF Using, Finds
-----------------------------------------------------------------------------
(* delete_ifile.                                                           *)

(* Induction, for a set of numbers.                                        *)
LEMMA Induction ==
    ASSUME NEW T, 0 \in T, \A n \in Nat : n \in T => n + 1 \in T
    PROVE  Nat \subseteq T
  <1> DEFINE R == { pair \in Nat \X Nat : pair[1] < pair[2] }
             S == Nat \ T
  <1>1. SUFFICES ASSUME S # {}
                 PROVE  FALSE
    OBVIOUS
  <1>2. IsWellFoundedOn(R, Nat)
    BY NatLessThanWellFounded DEF OpToRel
  <1>3. PICK x \in S : \A y \in S : ~ (<<y, x>> \in R)
    <2>1. IsWellFoundedOn(R, Nat) /\ S \subseteq Nat /\ S # {}
      BY <1>1, <1>2
    <2> HIDE DEF R, S
    <2> QED
      BY ONLY <2>1, WFMin
  <1> HIDE DEF R
  <1>4. x \in Nat /\ x # 0 /\ x - 1 \in Nat /\ (x - 1) + 1 = x
    BY <1>3
  <1>5. x - 1 \in S
    BY <1>3, <1>4
  <1>6. <<x - 1, x>> \in R
    BY <1>4 DEF R
  <1> QED
    BY <1>3, <1>5, <1>6

\* The super bloc in memory, and the blocs, are contents of C.
Sound(C, m) ==
    /\ Running(m) /\ Disk(C, m.disk)
    /\ m.super \in C /\ m.super.kind = "super"

\* The machine r that has freed bloc b: the super bloc, saved, then the bloc.
Frees(C, m, r, b) ==
    /\ Sound(C, r)
    /\ r.super.nb_free_blc = m.super.nb_free_blc + 1
    /\ \A x \in Bloc : x # 0 /\ x # b => r.disk[x] = m.disk[x]
    /\ b # 0 => r.disk[0] = r.super

(* free_bloc, of any bloc.                                                 *)
LEMMA FreeIs ==
    ASSUME NEW C, Complete(C), NEW m, Sound(C, m), NEW b \in Bloc
    PROVE  Frees(C, m, FreeBloc(m, b), b)
  <1> DEFINE s == m.super
             t == Super(s.root, s.nb_free_blc + 1, b)
             h == FreeBlc(1, s.first_free)
             saved == SaveSuper(Changed(m, t))
             clean == WriteBloc(saved, b, Zero)
             r == WriteBloc(clean, b, h)
  <1>1. /\ Running(m) /\ m.ok /\ Disk(C, m.disk) /\ s # NoSuper
        /\ s.nb_free_blc \in Nat /\ s.first_free \in Bloc /\ 0 \in Bloc
    BY Kinds DEF Sound, Running, Complete, ClosedSuper, Bloc
  <1>2. /\ t \in C /\ t.kind = "super" /\ t.nb_free_blc = s.nb_free_blc + 1
        /\ h \in C /\ Zero \in C
    <2>1. s.nb_free_blc + 1 \in Nat /\ s \in C /\ s.kind = "super" /\ 1 \in Nat
      BY <1>1 DEF Sound
    <2> QED
      BY <1>1, <2>1, Kinds DEF Complete, ClosedSuper, ClosedFree
  <1>3. FreeBloc(m, b) = r
    BY <1>1 DEF FreeBloc, CleanBloc, Changed
  <1>4. /\ Running(saved) /\ saved.disk = Put(m.disk, 0, t) /\ saved.super = t
    BY <1>1, SaveIs
  <1> HIDE DEF saved, t, h
  <1>5. /\ Running(clean) /\ clean.disk = Put(saved.disk, b, Zero) /\ clean.super = t
    BY <1>4, WriteIs
  <1> HIDE DEF clean
  <1>6. /\ Running(r) /\ r.disk = Put(clean.disk, b, h) /\ r.super = t
    BY <1>5, WriteIs
  <1> HIDE DEF r
  <1> DEFINE d0 == m.disk
             d1 == saved.disk
             d2 == clean.disk
             d3 == r.disk
  <1>7. /\ Disk(C, d0) /\ d1 = Put(d0, 0, t) /\ d2 = Put(d1, b, Zero) /\ d3 = Put(d2, b, h)
    BY <1>1, <1>4, <1>5, <1>6
  <1> HIDE DEF d0, d1, d2, d3
  <1>8. Disk(C, d1) /\ d1[0] = t /\ \A x \in Bloc : x # 0 => d1[x] = d0[x]
    <2>1. Disk(C, d0) /\ 0 \in Bloc /\ t \in C
      BY <1>1, <1>2, <1>7
    <2>2. /\ Disk(C, Put(d0, 0, t)) /\ Put(d0, 0, t)[0] = t
          /\ \A x \in Bloc : x # 0 => Put(d0, 0, t)[x] = d0[x]
      BY ONLY <2>1, PutIs
    <2>3. d1 = Put(d0, 0, t)
      BY <1>7
    <2> QED
      BY ONLY <2>2, <2>3
  <1>9. Disk(C, d2) /\ \A x \in Bloc : x # b => d2[x] = d1[x]
    <2>1. Disk(C, d1) /\ b \in Bloc /\ Zero \in C
      BY <1>2, <1>8
    <2>2. /\ Disk(C, Put(d1, b, Zero))
          /\ \A x \in Bloc : x # b => Put(d1, b, Zero)[x] = d1[x]
      BY ONLY <2>1, PutIs
    <2>3. d2 = Put(d1, b, Zero)
      BY <1>7
    <2> QED
      BY ONLY <2>2, <2>3
  <1>10. Disk(C, d3) /\ \A x \in Bloc : x # b => d3[x] = d2[x]
    <2>1. Disk(C, d2) /\ b \in Bloc /\ h \in C
      BY <1>2, <1>9
    <2>2. /\ Disk(C, Put(d2, b, h))
          /\ \A x \in Bloc : x # b => Put(d2, b, h)[x] = d2[x]
      BY ONLY <2>1, PutIs
    <2>3. d3 = Put(d2, b, h)
      BY <1>7
    <2> QED
      BY ONLY <2>2, <2>3
  <1>11. \A x \in Bloc : x # 0 /\ x # b => d3[x] = d0[x]
    BY <1>8, <1>9, <1>10
  <1>12. b # 0 => d3[0] = t
    BY <1>1, <1>8, <1>9, <1>10
  <1>13. Frees(C, m, r, b)
    BY <1>2, <1>6, <1>10, <1>11, <1>12 DEF Frees, Sound, d0, d3
  <1> QED
    BY <1>3, <1>13

\* The next file bloc of inode i is freed.
FreeNext(m, i, k) == FreeBloc(VblocOfFbloc(m, i, k), VblocOfFbloc(m, i, k).ret)

\* What delete_ifile has done when it has freed the first k file blocs.
Freed(m, i, n, g) ==
    g = [k \in 0 .. n |-> IF k = 0 THEN m ELSE FreeNext(g[k - 1], i, k - 1)]

(* There is such a row of machines.                                        *)
LEMMA FreedIs ==
    ASSUME NEW m, NEW i, NEW n \in Nat
    PROVE  \E g : Freed(m, i, n, g)
  <1> DEFINE T == { x \in Nat : \E g : Freed(m, i, x, g) }
  <1>1. 0 \in T
    <2> DEFINE g == [k \in 0 .. 0 |-> m]
    <2>1. g = [k \in 0 .. 0 |-> IF k = 0 THEN m ELSE FreeNext(g[k - 1], i, k - 1)]
      OBVIOUS
    <2>2. Freed(m, i, 0, g)
      BY <2>1 DEF Freed
    <2> HIDE DEF g
    <2> QED
      BY <2>2
  <1>2. ASSUME NEW x \in Nat, x \in T
        PROVE  x + 1 \in T
    <2>1. PICK g : Freed(m, i, x, g)
      BY <1>2
    <2> DEFINE h == [k \in 0 .. x + 1 |-> IF k <= x THEN g[k] ELSE FreeNext(g[x], i, x)]
               Step(k) == IF k = 0 THEN m ELSE FreeNext(h[k - 1], i, k - 1)
    <2>2. ASSUME NEW k \in 0 .. x + 1
          PROVE  h[k] = Step(k)
      <3>1. CASE k = 0
        BY <2>1, <3>1 DEF Freed
      <3>2. CASE k # 0 /\ k <= x
        <4>1. k \in 0 .. x /\ k - 1 \in 0 .. x + 1 /\ k - 1 <= x
          BY <3>2
        <4>2. g[k] = FreeNext(g[k - 1], i, k - 1)
          BY <2>1, <3>2, <4>1 DEF Freed
        <4> QED
          BY <3>2, <4>1, <4>2
      <3>3. CASE k = x + 1
        <4>1. x \in 0 .. x + 1 /\ k - 1 = x /\ k # 0 /\ ~(k <= x)
          BY <3>3
        <4> QED
          BY <4>1
      <3> QED
        BY <3>1, <3>2, <3>3
    <2>3. h = [k \in 0 .. x + 1 |-> Step(k)]
      BY <2>2
    <2>4. Freed(m, i, x + 1, h)
      BY <2>3 DEF Freed
    <2> QED
      BY <2>4
  <1> HIDE DEF T
  <1>3. n \in T
    BY <1>1, <1>2, Induction
  <1> QED
    BY <1>3 DEF T

(* What delete_ifile computes.                                             *)
LEMMA DeleteComputes ==
    ASSUME NEW m, NEW i, m.disk[i].kind = "inode", m.disk[i].taille \in Nat
    PROVE  \E g : /\ Freed(m, i, m.disk[i].taille, g)
                  /\ DeleteIfile(m, i) = FreeBloc(g[m.disk[i].taille], i)
  <1> DEFINE n == m.disk[i].taille
             FreeFound(found) == FreeBloc(found, found.ret)
             freed[k \in 0 .. m.disk[i].taille] ==
               IF k = 0 THEN m ELSE FreeFound(VblocOfFbloc(freed[k - 1], i, k - 1))
  <1>1. DeleteIfile(m, i) = FreeBloc(freed[m.disk[i].taille], i)
    BY DEF DeleteIfile
  <1>2. freed = CHOOSE g : g = [k \in 0 .. n |->
                    IF k = 0 THEN m ELSE FreeBloc(VblocOfFbloc(g[k - 1], i, k - 1),
                                                  VblocOfFbloc(g[k - 1], i, k - 1).ret)]
    OBVIOUS
  <1>3. freed = CHOOSE g : Freed(m, i, n, g)
    BY <1>2 DEF Freed, FreeNext
  <1> HIDE DEF freed
  <1>4. Freed(m, i, n, freed)
    BY <1>3, FreedIs
  <1> QED
    BY <1>1, <1>4

\* The blocs named for the first k file blocs of inode i.
Gone(d, i, k) == { Named(d, i, l) : l \in 0 .. k - 1 }

\* The machine r that has freed the first k file blocs of inode i.
FreedBelow(C, m, r, i, k) ==
    /\ Sound(C, r)
    /\ r.super.nb_free_blc = m.super.nb_free_blc + k
    /\ \A x \in Bloc : x # 0 /\ x \notin Gone(m.disk, i, k) => r.disk[x] = m.disk[x]

(* One file bloc more: its bloc is still found, since neither the inode nor *)
(* its table is freed before.                                              *)
LEMMA FreeNextIs ==
    ASSUME NEW C, Complete(C), NEW m, NEW I, OnVolume(C, m, I), NEW i \in I,
           NEW k \in Fbloc, NEW r, FreedBelow(C, m, r, i, k)
    PROVE  FreedBelow(C, m, FreeNext(r, i, k), i, k + 1)
  <1> DEFINE d == m.disk
             e == r.disk
             t == d[i].indirect
             b == Named(d, i, k)
             v == VblocOfFbloc(r, i, k)
             w == FreeBloc(v, b)
  <1>1. /\ Disk(C, d) /\ Owned(d, I, Used(m.super)) /\ Used(m.super) \subseteq Bloc
        /\ Readable(d, i)
    BY OnVolumeIs
  <1>2. /\ i \in Bloc /\ i # 0 /\ t \in Bloc
        /\ \A l \in Slot : Named(d, i, l) \in Bloc /\ Named(d, i, l) # i
    BY <1>1, Owns DEF NULL_BLOC
  <1>3. /\ k \in Nat /\ k \in Slot /\ TableSlot \in Slot /\ TableSlot = 2 * NB_BLOCS
        /\ \A l \in 0 .. k - 1 : l \in Fbloc /\ l \in Slot /\ l # TableSlot
        /\ 0 .. (k + 1) - 1 = (0 .. k - 1) \cup {k}
    BY DEF Fbloc, Slot, TableSlot
  <1>4. /\ Running(r) /\ Disk(C, e) /\ r.super # NoSuper
        /\ \A x \in Bloc : x # 0 /\ x \notin Gone(d, i, k) => e[x] = d[x]
    BY Kinds DEF FreedBelow, Sound
  <1>5. e[i] = d[i]
    BY <1>2, <1>3, <1>4 DEF Gone
  <1>6. t # NULL_BLOC => e[t] = d[t]
    <2>1. Named(d, i, TableSlot) = t
      BY NamedIs
    <2>2. \A l \in 0 .. k - 1 : t # NULL_BLOC => Named(d, i, l) # t
      BY <1>1, <1>3, <2>1 DEF Owned, Apart
    <2> QED
      BY <1>2, <1>4, <2>2 DEF Gone, NULL_BLOC
  <1>7. Readable(e, i)
    BY <1>1, <1>5, <1>6 DEF Readable
  <1>8. Named(e, i, k) = b
    <2>1. t # NULL_BLOC => Entries(e[t]) = Entries(d[t])
      BY <1>6
    <2> HIDE DEF d, e
    <2>2. \A l \in Slot : Named(e, i, l) = Named(d, i, l)
      BY <1>5, <2>1, SameNames
    <2> QED
      BY <1>3, <2>2
  <1>9. Finds(r, v, b)
    <2>1. Finds(r, VblocOfFbloc(r, i, k), Named(r.disk, i, k))
      BY <1>4, <1>7, LookupIs
    <2> QED
      BY <1>8, <2>1
  <1> HIDE DEF v
  <1>10. Sound(C, v) /\ v.super = r.super /\ v.disk = e /\ v.ret = b
    BY <1>9 DEF FreedBelow, Sound, Finds
  <1>11. b \in Bloc
    BY <1>2, <1>3
  <1> HIDE DEF b
  <1>12. Frees(C, v, w, b)
    BY <1>10, <1>11, FreeIs
  <1>13. FreeNext(r, i, k) = w
    BY <1>10 DEF FreeNext, v
  <1> HIDE DEF w
  <1>14. w.super.nb_free_blc = m.super.nb_free_blc + (k + 1)
    <2>1. m.super.nb_free_blc \in Nat
      BY <1>1, OnVolumeIs DEF OnVolume, Volume, FreeBlocs, Complete, ClosedSuper
    <2> QED
      BY <1>3, <1>10, <1>12, <2>1 DEF Frees, FreedBelow
  <1>15. \A x \in Bloc : x # 0 /\ x \notin Gone(d, i, k + 1) => w.disk[x] = d[x]
    <2>1. Gone(d, i, k + 1) = Gone(d, i, k) \cup {b}
      BY <1>3 DEF Gone, b
    <2> QED
      BY <1>4, <1>10, <1>12, <2>1 DEF Frees
  <1> QED
    BY <1>12, <1>13, <1>14, <1>15 DEF FreedBelow, Frees

\* Bloc x is neither the super bloc, nor inode i, nor a bloc of its data.
NotOf(d, i, x) == x # 0 /\ x # i /\ \A l \in Fbloc : Named(d, i, l) # x

\* delete_ifile gives back the file blocs below taille and the inode, leaves the
\* super bloc readable, and touches nothing else.
Deletes(C, m, r, i) ==
    /\ Sound(C, r)
    /\ r.disk[0] = r.super
    /\ r.super.nb_free_blc = m.super.nb_free_blc + m.disk[i].taille + 1
    /\ \A x \in Bloc : NotOf(m.disk, i, x) => r.disk[x] = m.disk[x]

(* delete_ifile, holes and a full volume included.                         *)
LEMMA DeleteIs ==
    ASSUME NEW C, Complete(C), NEW m, NEW I, OnVolume(C, m, I), NEW i \in I
    PROVE  Deletes(C, m, DeleteIfile(m, i), i)
  <1> DEFINE n == m.disk[i].taille
  <1>1. /\ n \in Nat /\ n <= 2 * NB_BLOCS /\ m.disk[i].kind = "inode"
        /\ i \in Bloc /\ i # 0 /\ m.super.nb_free_blc \in Nat /\ m.super \in C
    <2>1. /\ Disk(C, m.disk) /\ Owned(m.disk, I, Used(m.super)) /\ Used(m.super) \subseteq Bloc
          /\ ShapeOf(m.disk, i) /\ FreeBlocs(C, m.disk, m.super)
      BY OnVolumeIs
    <2>2. n \in Nat /\ i \in Bloc /\ i # 0
      BY <2>1, Owns DEF NULL_BLOC
    <2>3. m.super.nb_free_blc \in Nat /\ m.super \in C
      BY <2>1 DEF FreeBlocs, Complete, ClosedSuper
    <2> QED
      BY <2>1, <2>2, <2>3 DEF ShapeOf
  <1>2. PICK g : Freed(m, i, n, g) /\ DeleteIfile(m, i) = FreeBloc(g[n], i)
    BY <1>1, DeleteComputes
  <1> DEFINE T == { k \in Nat : k <= n => FreedBelow(C, m, g[k], i, k) }
  <1>3. 0 \in T
    <2>1. g[0] = m
      BY ONLY <1>1, <1>2 DEF Freed
    <2>2. Sound(C, m)
      BY <1>1, OnVolumeIs DEF Sound
    <2>3. m.super.nb_free_blc = m.super.nb_free_blc + 0
      BY <1>1
    <2>4. FreedBelow(C, m, m, i, 0)
      BY <2>2, <2>3 DEF FreedBelow
    <2> QED
      BY <2>1, <2>4
  <1>4. ASSUME NEW k \in Nat, k \in T
        PROVE  k + 1 \in T
    <2>1. SUFFICES ASSUME k + 1 <= n
                   PROVE  FreedBelow(C, m, g[k + 1], i, k + 1)
      OBVIOUS
    <2>2. k \in Fbloc /\ k <= n /\ k + 1 \in 0 .. n /\ k + 1 # 0 /\ (k + 1) - 1 = k
      BY <1>1, <2>1 DEF Fbloc
    <2>3. FreedBelow(C, m, g[k], i, k)
      BY <1>4, <2>2
    <2>4. g[k + 1] = FreeNext(g[k], i, k)
      BY ONLY <1>2, <2>2 DEF Freed
    <2>5. FreedBelow(C, m, FreeNext(g[k], i, k), i, k + 1)
      BY <2>2, <2>3, FreeNextIs
    <2> QED
      BY <2>4, <2>5
  <1> HIDE DEF T
  <1>5. n \in T
    BY <1>1, <1>3, <1>4, Induction
  <1>6. FreedBelow(C, m, g[n], i, n)
    BY <1>1, <1>5 DEF T
  <1> DEFINE h == g[n]
             r == FreeBloc(h, i)
  <1>7. /\ Sound(C, h) /\ h.super.nb_free_blc = m.super.nb_free_blc + n
        /\ \A x \in Bloc : x # 0 /\ x \notin Gone(m.disk, i, n) => h.disk[x] = m.disk[x]
    BY ONLY <1>6 DEF FreedBelow
  <1>8. DeleteIfile(m, i) = r
    BY <1>2
  <1> HIDE DEF h
  <1>9. Frees(C, h, r, i)
    BY <1>1, <1>7, FreeIs
  <1> HIDE DEF r
  <1>10. \A l \in 0 .. n - 1 : l \in Fbloc
    BY <1>1 DEF Fbloc
  <1>11. \A x \in Bloc : NotOf(m.disk, i, x) => r.disk[x] = m.disk[x]
    BY <1>7, <1>9, <1>10 DEF Frees, Gone, NotOf
  <1>12. r.super.nb_free_blc = m.super.nb_free_blc + n + 1
    BY <1>1, <1>7, <1>9 DEF Frees
  <1> HIDE DEF n
  <1>13. Deletes(C, m, r, i)
    BY <1>1, <1>9, <1>11, <1>12 DEF Deletes, Frees, n
  <1> QED
    BY <1>8, <1>13

(* The other files keep what they hold.                                    *)
LEMMA DeleteKeeps ==
    ASSUME NEW C, Complete(C), NEW m, NEW I, OnVolume(C, m, I), NEW i \in I,
           NEW r, Deletes(C, m, r, i)
    PROVE  /\ \A j \in I \ {i} : r.disk[j] = m.disk[j]
           /\ SameHeld(m.disk, r.disk, I \ {i})
  <1> DEFINE d == m.disk
             e == r.disk
  <1>1. /\ Disk(C, d) /\ Owned(d, I, Used(m.super)) /\ Used(m.super) \subseteq Bloc
        /\ I \subseteq Used(m.super) /\ 0 \notin Used(m.super)
    BY OnVolumeIs
  <1>2. \A x \in Bloc : x # 0 /\ x # i /\ (\A l \in Fbloc : Named(d, i, l) # x) => e[x] = d[x]
    BY DEF Deletes, NotOf
  <1>3. \A l \in Fbloc : l \in Slot /\ TableSlot \in Slot
    BY SlotIs
  <1>4. ASSUME NEW j \in I \ {i}
        PROVE  /\ e[j] = d[j]
               /\ \A l \in Fbloc : Held(e, j, l) = Held(d, j, l)
    <2>1. /\ j \in Bloc /\ j # 0 /\ d[j].indirect \in Bloc
          /\ \A k \in Slot : Named(d, j, k) \in Bloc
      BY <1>1, <1>4, Owns DEF NULL_BLOC
    <2>2. \A k \in Slot : /\ Named(d, i, k) # j
                          /\ Named(d, j, k) # i
                          /\ \A l \in Slot : Named(d, j, k) # NULL_BLOC => Named(d, i, l) # Named(d, j, k)
      BY <1>1, <1>4, <2>1 DEF Owned, Apart, Covers, NULL_BLOC
    <2>3. e[j] = d[j]
      BY <1>2, <1>3, <2>1, <2>2, <1>4
    <2>4. \A k \in Slot : Named(d, j, k) # NULL_BLOC => e[Named(d, j, k)] = d[Named(d, j, k)]
      BY <1>2, <1>3, <2>1, <2>2 DEF NULL_BLOC
    <2>5. d[j].indirect # NULL_BLOC => Entries(e[d[j].indirect]) = Entries(d[d[j].indirect])
      <3>1. Named(d, j, TableSlot) = d[j].indirect /\ TableSlot \in Slot
        BY NamedIs, SlotIs
      <3> QED
        BY <2>4, <3>1
    <2>6. \A k \in Slot : Named(e, j, k) = Named(d, j, k)
      BY <2>3, <2>5, SameNames
    <2>7. \A l \in Fbloc : Held(e, j, l) = Held(d, j, l)
      BY <1>3, <2>4, <2>6 DEF Held
    <2> QED
      BY <2>3, <2>7
  <1> QED
    BY <1>4 DEF SameHeld
=============================================================================

--------------------------- MODULE Commands_proofs ---------------------------
(***************************************************************************)
(* The commands on a disk of any number of volumes of any size: what each   *)
(* leaves of every bloc, and that no volume but volume 0 is written to,     *)
(* but for what VolumesApart names.                                        *)
(*                                                                         *)
(* Nothing is said of who owns a bloc: it is enough that the numbers in     *)
(* inodes and tables are those of blocs that were handed out, that bloc 1   *)
(* stays an inode, so that the super bloc of another volume leads new_bloc  *)
(* to no header, and that no header of volume 0 lies below the first free   *)
(* bloc of its own super bloc.                                             *)
(***************************************************************************)
EXTENDS Commands, Descriptors_proofs, SequenceTheorems

USE NSectorAssumption, InodesAssumption, DescriptorsAssumption

(***************************************************************************)
(* A volume has room for more than a super bloc and a bloc: on two blocs    *)
(* mknfs writes the inode of the root over the super bloc.                  *)
(***************************************************************************)
Roomy == NSector > 2

-----------------------------------------------------------------------------
(* The blocs of volume 0.                                                  *)

\* The numbers that inodes and tables may hold when first is the first free bloc.
Num(first) == {NULL_BLOC} \cup 2 .. first - 1

Rows == [0 .. SECTOR - 1 -> Octet]

\* A bloc that was handed out: no super bloc and no header.
Plain(c, first) ==
    /\ c \in Contents
    /\ c.kind \in {"zero", "data", "table", "inode"}
    /\ c.kind = "table" => c.entries \in [Index -> Num(first)]
    /\ c.kind = "inode" => /\ c.direct \in [Index -> Num(first)]
                           /\ c.indirect \in Num(first) /\ c.double \in Num(first)

\* The super bloc of volume 0, as it is once there is a root.
OwnSuper(s, first) ==
    /\ s \in Contents /\ s.kind = "super"
    /\ s.first_free = first /\ s.nb_free_blc = NSector - first

\* The super bloc mknfs leaves on another volume: it makes no root there.
OtherSuper == Super(NULL_BLOC, NSector - 1, 1)

\* Bloc 0 of a volume that is not volume 0.
FirstBlocs == {Zero, Header, OtherSuper}

(***************************************************************************)
(* Disk d with the blocs below first handed out.  Bloc p of them, if p is   *)
(* not 0, is still the header that new_bloc has found there.                *)
(***************************************************************************)
Ordered(d, first, p) ==
    /\ first \in 2 .. NSector
    /\ d \in [Bloc -> Contents]
    /\ Plain(d[0], first) \/ OwnSuper(d[0], first)
    /\ \A b \in 1 .. NSector - 1 :
          Plain(d[b], first) \/ (d[b] = Header /\ (b >= first \/ b = p))
    /\ d[1].kind = "inode"
    /\ d[NSector] \in FirstBlocs

-----------------------------------------------------------------------------
(* The machine of a command.                                               *)

\* Where a command starts.
Before == DiskOf(vols)

(***************************************************************************)
(* The machine m of a command that started when blocs below start were      *)
(* handed out; now those below first are.  The bloc behind the volume is    *)
(* what it was, unless the last bloc was taken since.  The super bloc in    *)
(* memory is that of another volume, or says where first is.                *)
(***************************************************************************)
On(m, start, first, p) ==
    /\ DOMAIN m = Fields /\ m.ok \in BOOLEAN
    /\ Ordered(m.disk, first, p)
    /\ start \in 2 .. NSector /\ start <= first
    /\ (m.super = OtherSuper /\ first = start) \/ OwnSuper(m.super, first)
    /\ m.disk[NSector] = Before[NSector] \/ (start < NSector /\ first = NSector)

\* The machine r goes on from where first was, with the number of a bloc.
Gives(r, start, first) ==
    \E g \in first .. NSector : On(r, start, g, 0) /\ (r.ok => r.ret \in Num(g))

\* The same, when the bloc is not written yet.
New(r, start, first) ==
    \E g \in first .. NSector :
       \/ ~r.ok /\ On(r, start, g, 0)
       \/ r.ok /\ r.ret \in Num(g) /\ On(r, start, g, r.ret)

-----------------------------------------------------------------------------
(* Contents.                                                               *)

(* The contents of the blocs, one kind at a time.                          *)
LEMMA ContentsAre ==
    /\ Zero \in Contents /\ Header \in Contents /\ OtherSuper \in Contents
    /\ \A root \in Bloc, nb \in Nat, first \in Bloc : Super(root, nb, first) \in Contents
    /\ \A entries \in [Index -> Bloc] : Table(entries) \in Contents
    /\ \A octets \in Rows : [kind |-> "data", octets |-> octets] \in Contents
  <1>1. 0 \in Bloc /\ 1 \in Bloc /\ NSector - 1 \in Nat
    BY DEF Bloc
  <1>2. Zero \in Contents
    BY DEF Contents
  <1>3. Header \in Contents
    BY <1>1 DEF Contents, Header, FreeBlc, NULL_BLOC
  <1>4. \A root \in Bloc, nb \in Nat, first \in Bloc : Super(root, nb, first) \in Contents
    BY DEF Contents, Super
  <1>5. OtherSuper \in Contents
    BY <1>1, <1>4 DEF OtherSuper, NULL_BLOC
  <1>6. \A entries \in [Index -> Bloc] : Table(entries) \in Contents
    BY DEF Contents, Table
  <1>7. \A octets \in Rows : [kind |-> "data", octets |-> octets] \in Contents
    BY DEF Contents, Rows
  <1> QED
    BY <1>2, <1>3, <1>4, <1>5, <1>6, <1>7

(* Inodes.                                                                 *)
LEMMA InodeFits ==
    ASSUME NEW type \in Types \cup {"DIRECTORY"}, NEW taille \in 0 .. MaxFbloc,
           NEW direct \in [Index -> Bloc], NEW indirect \in Bloc, NEW double \in Bloc
    PROVE  Inode(type, taille, direct, indirect, double) \in Contents
  BY DEF Contents, Inode

(* What an inode among them is.                                            *)
LEMMA InodeOf ==
    ASSUME NEW c \in Contents, c.kind = "inode"
    PROVE  /\ c.type \in Types \cup {"DIRECTORY"} /\ c.taille \in 0 .. MaxFbloc
           /\ c.direct \in [Index -> Bloc] /\ c.indirect \in Bloc /\ c.double \in Bloc
           /\ c = Inode(c.type, c.taille, c.direct, c.indirect, c.double)
  <1>1. c \in [kind : {"inode"}, type : Types \cup {"DIRECTORY"}, taille : 0 .. MaxFbloc,
               direct : [Index -> Bloc], indirect : Bloc, double : Bloc]
    BY DEF Contents, Zero
  <1> QED
    BY <1>1 DEF Inode

(* And what the others are.                                                *)
LEMMA OthersAre ==
    ASSUME NEW c \in Contents
    PROVE  /\ c.kind = "table" => c.entries \in [Index -> Bloc]
           /\ c.kind = "data" => c.octets \in Rows
           /\ c.kind = "super" => c.root \in Bloc
           /\ c.kind \in {"zero", "super", "free", "data", "table", "inode"}
  BY DEF Contents, Zero, Rows

(* The numbers are numbers of blocs.                                       *)
LEMMA NumIs ==
    ASSUME NEW first \in 2 .. NSector
    PROVE  /\ Num(first) \subseteq 0 .. NSector - 1 /\ Num(first) \subseteq Bloc
           /\ 0 \in Num(first) /\ NULL_BLOC \in Num(first) /\ NULL_BLOC = 0
           /\ \A b \in Num(first) : b # 1 /\ (b # 0 => b < first)
           /\ \A g \in first .. NSector : Num(first) \subseteq Num(g) /\ g \in 2 .. NSector
  BY DEF Num, Bloc, NULL_BLOC

(* A clean bloc, a table, an inode and data are plain.                     *)
LEMMA PlainAre ==
    ASSUME NEW first \in 2 .. NSector
    PROVE  /\ Plain(Zero, first)
           /\ \A entries \in [Index -> Num(first)] : Plain(Table(entries), first)
           /\ \A octets \in Rows : Plain(Data(octets), first)
  <1>0. Num(first) \subseteq Bloc
    BY NumIs
  <1>1. Plain(Zero, first)
    BY ContentsAre, Kinds DEF Plain
  <1>2. ASSUME NEW entries \in [Index -> Num(first)]
        PROVE  Plain(Table(entries), first)
    <2>1. entries \in [Index -> Bloc]
      BY <1>0
    <2> QED
      BY <2>1, ContentsAre, Kinds DEF Plain
  <1>3. ASSUME NEW octets \in Rows
        PROVE  Plain(Data(octets), first)
    <2>1. CASE octets = NoOctets
      BY <1>1, <2>1 DEF Data
    <2>2. CASE octets # NoOctets
      <3> DEFINE c == [kind |-> "data", octets |-> octets]
      <3>1. Data(octets) = c /\ c \in Contents /\ c.kind = "data"
        BY <2>2, ContentsAre DEF Data
      <3> HIDE DEF c
      <3> QED
        BY <3>1 DEF Plain
    <2> QED
      BY <2>1, <2>2
  <1> QED
    BY <1>1, <1>2, <1>3

(* Inodes are, with such numbers in them.                                  *)
LEMMA PlainInode ==
    ASSUME NEW first \in 2 .. NSector,
           NEW type \in Types \cup {"DIRECTORY"}, NEW taille \in 0 .. MaxFbloc,
           NEW direct \in [Index -> Num(first)],
           NEW indirect \in Num(first), NEW double \in Num(first),
           NEW n, n = Inode(type, taille, direct, indirect, double)
    PROVE  Plain(n, first) /\ n.kind = "inode"
  <1>1. Num(first) \subseteq Bloc
    BY NumIs
  <1>2. direct \in [Index -> Bloc] /\ indirect \in Bloc /\ double \in Bloc
    BY <1>1
  <1>3. n \in Contents
    <2>1. /\ type \in Types \cup {"DIRECTORY"} /\ taille \in 0 .. MaxFbloc
          /\ direct \in [Index -> Bloc] /\ indirect \in Bloc /\ double \in Bloc
      BY <1>2
    <2>2. Inode(type, taille, direct, indirect, double) \in Contents
      BY ONLY <2>1, InodeFits
    <2> QED
      BY <2>2
  <1>4. n.kind = "inode" /\ n.direct = direct /\ n.indirect = indirect /\ n.double = double
    BY InodeIs
  <1> QED
    BY <1>3, <1>4 DEF Plain

(* What is plain stays plain when more blocs are handed out.               *)
LEMMA PlainOn ==
    ASSUME NEW first \in 2 .. NSector, NEW g \in first .. NSector, NEW c, Plain(c, first)
    PROVE  Plain(c, g)
  <1>1. Num(first) \subseteq Num(g)
    BY NumIs
  <1> QED
    BY <1>1 DEF Plain

(* The entries of a bloc that is a table.                                  *)
LEMMA EntriesPlain ==
    ASSUME NEW first \in 2 .. NSector, NEW c, Plain(c, first), IsTable(c)
    PROVE  Entries(c) \in [Index -> Num(first)] /\ c.kind # "inode"
  <1>1. NoBlocs \in [Index -> Num(first)]
    BY NumIs DEF NoBlocs
  <1> QED
    BY <1>1 DEF Plain, IsTable, Entries

(* An inode that grows, and takes one more number, stays plain.            *)
LEMMA GrownPlain ==
    ASSUME NEW first \in 2 .. NSector, NEW n, Plain(n, first), n.kind = "inode",
           NEW k \in 0 .. MaxFbloc - 1, NEW b \in Num(first)
    PROVE  /\ Plain(Grown(n, k), first) /\ Grown(n, k).kind = "inode"
           /\ k \in Index => /\ Plain(InDirect(n, k, b), first)
                             /\ InDirect(n, k, b).kind = "inode"
           /\ Plain(AsIndirect(n, k, b), first) /\ AsIndirect(n, k, b).kind = "inode"
           /\ Plain([n EXCEPT !.double = b], first) /\ [n EXCEPT !.double = b].kind = "inode"
  <1> DEFINE t == n.type
             u == n.taille
             d == n.direct
             e == n.indirect
             f == n.double
             l == Larger(u, k + 1)
  <1>1. /\ t \in Types \cup {"DIRECTORY"} /\ u \in 0 .. MaxFbloc
        /\ d \in [Index -> Num(first)] /\ e \in Num(first) /\ f \in Num(first)
        /\ n = Inode(t, u, d, e, f)
    BY InodeOf DEF Plain
  <1>2. l \in 0 .. MaxFbloc
    <2>1. k + 1 \in 0 .. MaxFbloc /\ u \in 0 .. MaxFbloc
      BY <1>1, FblocIs
    <2> QED
      BY <2>1 DEF Larger
  <1> HIDE DEF t, u, d, e, f
  <1>3. n = Inode(t, u, d, e, f)
    BY <1>1
  <1>4. /\ InDirect(n, k, b) = Inode(t, l, [d EXCEPT ![k] = b], e, f)
        /\ AsIndirect(n, k, b) = Inode(t, l, d, b, f)
    BY ONLY <1>3, InodeChanged
  <1>5. Grown(n, k) = Inode(t, l, d, e, f) /\ [n EXCEPT !.double = b] = Inode(t, u, d, e, b)
    BY ONLY <1>3 DEF Grown, Inode
  <1>6. k \in Index => [d EXCEPT ![k] = b] \in [Index -> Num(first)]
    <2>1. d \in [Index -> Num(first)] /\ b \in Num(first)
      BY <1>1
    <2> QED
      BY ONLY <2>1
  <1> HIDE DEF l
  <1>7. Plain(Grown(n, k), first) /\ Grown(n, k).kind = "inode"
    BY <1>1, <1>2, <1>5, PlainInode
  <1>8. k \in Index => Plain(InDirect(n, k, b), first) /\ InDirect(n, k, b).kind = "inode"
    <2>1. ASSUME k \in Index
          PROVE  Plain(InDirect(n, k, b), first) /\ InDirect(n, k, b).kind = "inode"
      <3> DEFINE row == [d EXCEPT ![k] = b]
      <3>1. InDirect(n, k, b) = Inode(t, l, row, e, f) /\ row \in [Index -> Num(first)]
        BY <1>4, <1>6, <2>1
      <3> HIDE DEF row
      <3> QED
        BY <1>1, <1>2, <3>1, PlainInode
    <2> QED
      BY <2>1
  <1>9. Plain(AsIndirect(n, k, b), first) /\ AsIndirect(n, k, b).kind = "inode"
    BY <1>1, <1>2, <1>4, PlainInode
  <1>10. Plain([n EXCEPT !.double = b], first) /\ [n EXCEPT !.double = b].kind = "inode"
    BY <1>1, <1>5, PlainInode
  <1> QED
    BY <1>7, <1>8, <1>9, <1>10
-----------------------------------------------------------------------------
(* Sector writes.                                                          *)

(* What is read of a disk in order.                                        *)
LEMMA OrderedIs ==
    ASSUME NEW d, NEW first, NEW p, Ordered(d, first, p)
    PROVE  /\ first \in 2 .. NSector /\ d \in [Bloc -> Contents]
           /\ 0 \in Bloc /\ 1 \in Bloc /\ NSector \in Bloc /\ 1 \in 1 .. NSector - 1
           /\ \A b \in 0 .. NSector - 1 : b \in Bloc
           /\ Plain(d[1], first) /\ d[1].kind = "inode"
           /\ \A b \in Bloc : d[b].kind = "inode" => b \in 0 .. NSector - 1 /\ Plain(d[b], first)
           /\ \A b \in 0 .. NSector - 1 : IsTable(d[b]) => b # 1 /\ Plain(d[b], first)
  <1>1. /\ first \in 2 .. NSector /\ d \in [Bloc -> Contents]
        /\ 0 \in Bloc /\ 1 \in Bloc /\ NSector \in Bloc /\ 1 \in 1 .. NSector - 1
        /\ \A b \in 0 .. NSector - 1 : b \in Bloc
    BY DEF Ordered, Bloc
  <1>2. ASSUME NEW b \in 0 .. NSector - 1
        PROVE  Plain(d[b], first) \/ d[b].kind = "super" \/ d[b].kind = "free"
    BY Kinds DEF Ordered, OwnSuper, Header
  <1>3. d[NSector].kind # "inode"
    BY Kinds DEF Ordered, FirstBlocs, Header, OtherSuper
  <1>4. d[1].kind = "inode"
    BY DEF Ordered
  <1>5. \A b \in Bloc : b # NSector => b \in 0 .. NSector - 1
    BY DEF Bloc
  <1>6. Plain(d[1], first)
    BY <1>1, <1>2, <1>4
  <1> QED
    BY <1>1, <1>2, <1>3, <1>4, <1>5, <1>6 DEF IsTable

(* The octets of a bloc that was handed out, and written.                  *)
LEMMA OctetsAre ==
    ASSUME NEW d, NEW first, Ordered(d, first, 0), NEW b \in Num(first)
    PROVE  Octets(d[b]) \in Rows
  <1>1. NoOctets \in Rows
    BY DEF NoOctets, Rows, Octet, InodesAssumption
  <1>2. Plain(d[b], first) \/ d[b].kind = "super"
    <2>1. b = 0 \/ (b \in 1 .. NSector - 1 /\ ~(b >= first) /\ b # 0)
      BY DEF Num, Ordered, NULL_BLOC
    <2> QED
      BY <2>1 DEF Ordered, OwnSuper
  <1>3. d[b].kind # "free" /\ (d[b].kind = "data" => d[b].octets \in Rows)
    BY <1>2, OthersAre DEF Plain
  <1> QED
    BY <1>1, <1>3 DEF Octets

(* A plain bloc is written.                                                *)
LEMMA OrderedPut ==
    ASSUME NEW d, NEW first, NEW p, Ordered(d, first, p),
           NEW b \in 0 .. NSector - 1, NEW c, Plain(c, first), b = 1 => c.kind = "inode"
    PROVE  /\ Ordered(Put(d, b, c), first, p) /\ Put(d, b, c)[NSector] = d[NSector]
           /\ b = p => Ordered(Put(d, b, c), first, 0)
  <1> DEFINE e == Put(d, b, c)
  <1>1. /\ e \in [Bloc -> Contents] /\ e[b] = c /\ \A x \in Bloc : x # b => e[x] = d[x]
    <2>1. Disk(Contents, d) /\ b \in Bloc /\ c \in Contents
      BY DEF Ordered, Disk, Plain, Bloc
    <2> QED
      BY <2>1, PutIs DEF Disk
  <1> HIDE DEF e
  <1>2. /\ 0 \in Bloc /\ 1 \in Bloc /\ NSector \in Bloc /\ NSector # b
        /\ \A x \in 1 .. NSector - 1 : x \in Bloc
    BY DEF Bloc
  <1>3. /\ first \in 2 .. NSector /\ e[1].kind = "inode" /\ e[NSector] = d[NSector]
        /\ e[NSector] \in FirstBlocs
        /\ Plain(e[0], first) \/ OwnSuper(e[0], first)
    BY <1>1, <1>2 DEF Ordered
  <1>4. \A x \in 1 .. NSector - 1 :
           \/ Plain(e[x], first)
           \/ x # b /\ e[x] = Header /\ (x >= first \/ x = p)
    BY <1>1, <1>2 DEF Ordered
  <1> QED
    BY <1>1, <1>3, <1>4 DEF Ordered, e

(* new_bloc moves the header of the free blocs.                            *)
LEMMA OrderedMore ==
    ASSUME NEW d, NEW first, Ordered(d, first, 0), first < NSector, d[first] = Header,
           NEW t, OwnSuper(t, first + 1),
           NEW e, e = Put(Put(d, 0, t), first + 1, Header)
    PROVE  /\ Ordered(e, first + 1, first)
           /\ first + 1 # NSector => e[NSector] = d[NSector]
  <1> DEFINE c == Put(d, 0, t)
             next == first + 1
  <1>1. /\ first \in 2 .. NSector - 1 /\ next \in 3 .. NSector /\ next \in Bloc /\ 0 \in Bloc
        /\ Disk(Contents, d) /\ t \in Contents /\ Header \in Contents /\ next # 0 /\ next # 1
        /\ 1 \in Bloc /\ NSector \in Bloc /\ \A x \in 1 .. NSector - 1 : x \in Bloc /\ x # 0
        /\ NSector # 0
    BY ContentsAre DEF Ordered, OwnSuper, Disk, Bloc
  <1>2. next = first + 1
    OBVIOUS
  <1> HIDE DEF next
  <1>3. Disk(Contents, c) /\ c[0] = t /\ \A x \in Bloc : x # 0 => c[x] = d[x]
    BY ONLY <1>1, PutIs
  <1>4. e = Put(c, next, Header)
    BY <1>2
  <1> HIDE DEF c
  <1>5. /\ Disk(Contents, e) /\ e[next] = Header
        /\ \A x \in Bloc : x # next => e[x] = c[x]
    <2>1. /\ Disk(Contents, Put(c, next, Header)) /\ Put(c, next, Header)[next] = Header
          /\ \A x \in Bloc : x # next => Put(c, next, Header)[x] = c[x]
      BY ONLY <1>1, <1>3, PutIs
    <2> QED
      BY ONLY <1>4, <2>1
  <1>6. e[0] = t /\ e[1] = d[1] /\ \A x \in Bloc \ {0, next} : e[x] = d[x]
    BY ONLY <1>1, <1>3, <1>5
  <1>7. ASSUME NEW x \in 1 .. NSector - 1
        PROVE  Plain(e[x], next) \/ (e[x] = Header /\ (x >= next \/ x = first))
    <2>1. CASE x = next
      BY <1>1, <1>5, <2>1
    <2>2. CASE x # next
      <3>1. e[x] = d[x]
        BY <1>1, <1>6, <2>2
      <3>2. CASE Plain(d[x], first)
        <4>1. first \in 2 .. NSector /\ next \in first .. NSector
          BY <1>1, <1>2
        <4> QED
          BY <3>1, <3>2, <4>1, PlainOn
      <3>3. CASE d[x] = Header /\ x >= first
        BY <1>1, <1>2, <2>2, <3>1, <3>3
      <3> QED
        BY <3>2, <3>3 DEF Ordered
    <2> QED
      BY <2>1, <2>2
  <1>8. e[NSector] \in FirstBlocs /\ (next # NSector => e[NSector] = d[NSector])
    BY <1>1, <1>5, <1>6 DEF Ordered, FirstBlocs
  <1>9. d[1].kind = "inode" /\ OwnSuper(e[0], next)
    BY <1>2, <1>6 DEF Ordered
  <1>10. next \in 2 .. NSector
    BY <1>1
  <1>11. Ordered(e, next, first)
    BY <1>5, <1>6, <1>7, <1>8, <1>9, <1>10 DEF Ordered, Disk
  <1> QED
    BY <1>2, <1>8, <1>11
-----------------------------------------------------------------------------
(* Machines.                                                               *)

\* r is m, stopped.
Halted(m, r) ==
    /\ DOMAIN r = Fields /\ r.ok \in BOOLEAN /\ ~r.ok
    /\ r.disk = m.disk /\ r.super = m.super

(* An assert or an exit stops a machine where it is.                       *)
LEMMA StopHalts ==
    ASSUME NEW m, DOMAIN m = Fields
    PROVE  Halted(m, Stopped(m))
  <1>1. Stopped(m).ok \in BOOLEAN
    <2>1. Stopped(m).ok = FALSE
      BY DEF Stopped, Fields
    <2> QED
      BY ONLY <2>1
  <1> QED
    BY <1>1, StoppedIs DEF Halted

(* A machine that has stopped writes nothing.                              *)
LEMMA StoppedWrites ==
    ASSUME NEW m, ~m.ok, NEW b, NEW c
    PROVE  WriteBloc(m, b, c) = m
  BY DEF WriteBloc

(* What holds of a machine holds of it when it has stopped.                *)
LEMMA HaltedOn ==
    ASSUME NEW m, NEW start, NEW first, NEW p, On(m, start, first, p),
           NEW r, Halted(m, r)
    PROVE  On(r, start, first, p)
  <1>1. r.ok \in BOOLEAN
    BY DEF Halted
  <1>2. DOMAIN r = Fields /\ r.disk = m.disk /\ r.super = m.super
    BY DEF Halted
  <1> QED
    BY <1>1, <1>2 DEF On

(* And of the machine with another value returned.                         *)
LEMMA ReturnOn ==
    ASSUME NEW m, m.ok, NEW start, NEW first, NEW p, On(m, start, first, p), NEW v
    PROVE  /\ On(Return(m, v), start, first, p)
           /\ Return(m, v).ok /\ Return(m, v).ret = v
           /\ Return(m, v).disk = m.disk /\ Return(m, v).super = m.super
  <1>1. /\ Running(Return(m, v)) /\ Return(m, v).ret = v
        /\ Return(m, v).disk = m.disk /\ Return(m, v).super = m.super
    BY ReturnIs DEF On, Running
  <1>2. Return(m, v).ok \in BOOLEAN
    <2>1. DOMAIN m = Fields
      BY DEF On
    <2>2. Return(m, v).ok = m.ok
      BY ONLY <2>1 DEF Return, Fields
    <2>3. m.ok \in BOOLEAN
      BY DEF On
    <2> QED
      BY <2>2, <2>3
  <1> QED
    BY <1>1, <1>2 DEF On, Running

(* A bloc is written.                                                      *)
LEMMA WriteOn ==
    ASSUME NEW m, m.ok, NEW start, NEW first, NEW p, On(m, start, first, p),
           NEW b \in 0 .. NSector - 1, NEW c, Plain(c, first), b = 1 => c.kind = "inode"
    PROVE  /\ On(WriteBloc(m, b, c), start, first, p)
           /\ b = p => On(WriteBloc(m, b, c), start, first, 0)
           /\ WriteBloc(m, b, c).ok /\ WriteBloc(m, b, c).ret = m.ret
           /\ WriteBloc(m, b, c).disk = Put(m.disk, b, c)
  <1> DEFINE r == WriteBloc(m, b, c)
             d == m.disk
  <1>0. r.ok \in BOOLEAN /\ Running(m)
    <2>1. DOMAIN m = Fields
      BY DEF On
    <2>2. WriteBloc(m, b, c).ok = m.ok
      BY ONLY <2>1 DEF WriteBloc, Fields
    <2>3. m.ok \in BOOLEAN
      BY DEF On
    <2> QED
      BY <2>1, <2>2, <2>3 DEF Running
  <1>1. /\ DOMAIN r = Fields /\ r.ok /\ r.ok \in BOOLEAN
        /\ r.disk = Put(d, b, c) /\ r.super = m.super /\ r.ret = m.ret
    <2>1. Running(r) /\ r.disk = Put(d, b, c) /\ r.super = m.super /\ r.ret = m.ret
      BY ONLY <1>0, WriteIs
    <2> QED
      BY <1>0, <2>1 DEF Running
  <1>2. /\ Ordered(Put(d, b, c), first, p) /\ Put(d, b, c)[NSector] = d[NSector]
        /\ b = p => Ordered(Put(d, b, c), first, 0)
    <2>1. Ordered(d, first, p)
      BY DEF On
    <2> HIDE DEF d
    <2> QED
      BY <2>1, OrderedPut
  <1>3. /\ r.disk[NSector] = m.disk[NSector]
        /\ Ordered(r.disk, first, p) /\ (b = p => Ordered(r.disk, first, 0))
    BY <1>1, <1>2
  <1> HIDE DEF r
  <1>4. On(r, start, first, p) /\ (b = p => On(r, start, first, 0))
    BY <1>1, <1>3 DEF On
  <1> QED
    BY <1>1, <1>4 DEF r

(* Where a machine is found and left.                                      *)
LEMMA OnIs ==
    ASSUME NEW m, NEW start, NEW first, NEW p, On(m, start, first, p)
    PROVE  /\ DOMAIN m = Fields /\ Ordered(m.disk, first, p)
           /\ first \in 2 .. NSector /\ first \in first .. NSector /\ start \in 2 .. NSector
           /\ m.super # NoSuper
  BY Kinds DEF On, Ordered, OwnSuper, OtherSuper

(* A machine that stops has given what it had.                             *)
LEMMA HaltedGives ==
    ASSUME NEW m, NEW start, NEW first, On(m, start, first, 0), NEW r, Halted(m, r)
    PROVE  Gives(r, start, first)
  <1>1. On(r, start, first, 0) /\ ~r.ok /\ first \in first .. NSector
    <2>1. On(r, start, first, 0)
      BY ONLY On(m, start, first, 0), Halted(m, r), HaltedOn
    <2>2. ~r.ok
      BY DEF Halted
    <2> QED
      BY <2>1, <2>2, OnIs
  <1> QED
    BY <1>1 DEF Gives

(* So has one that returns a number.                                       *)
LEMMA ReturnGives ==
    ASSUME NEW m, m.ok, NEW start, NEW first, On(m, start, first, 0), NEW v \in Num(first)
    PROVE  Gives(Return(m, v), start, first)
  BY ReturnOn, OnIs DEF Gives

(* What is given later is given.                                           *)
LEMMA GivesLater ==
    ASSUME NEW r, NEW start, NEW first \in 2 .. NSector, NEW g \in first .. NSector,
           Gives(r, start, g)
    PROVE  Gives(r, start, first)
  <1>1. \A h \in g .. NSector : h \in first .. NSector
    OBVIOUS
  <1> QED
    BY <1>1 DEF Gives
-----------------------------------------------------------------------------
(* new_bloc, and what is done with the bloc.                               *)

(* A header is not handed out to anybody who writes to it before.          *)
LEMMA OrderedLater ==
    ASSUME NEW m, NEW start, NEW first, On(m, start, first, 0), ~m.ok \/ m.ret = 0
    PROVE  New(m, start, first)
  <1>1. first \in first .. NSector /\ 0 \in Num(first)
    BY OnIs, NumIs
  <1> QED
    BY <1>1 DEF New

(* new_bloc hands out the first free bloc and moves the header, or answers  *)
(* that there is none, or stops.                                           *)
LEMMA NewBlocOn ==
    ASSUME Roomy, NEW m, NEW start, NEW first, On(m, start, first, 0)
    PROVE  New(NewBloc(m), start, first)
  <1> DEFINE s == m.super
             d == m.disk
  <1>1. /\ DOMAIN m = Fields /\ Ordered(d, first, 0) /\ first \in 2 .. NSector
        /\ first \in first .. NSector /\ start \in 2 .. NSector
    BY OnIs
  <1>2. CASE ~m.ok
    <2>1. NewBloc(m) = m
      BY <1>2 DEF NewBloc
    <2> QED
      BY <1>2, <2>1, OrderedLater
  <1>3. CASE m.ok /\ s.nb_free_blc = 0
    <2>1. NewBloc(m) = Return(m, 0)
      BY <1>3 DEF NewBloc, NULL_BLOC
    <2>2. On(Return(m, 0), start, first, 0) /\ Return(m, 0).ret = 0
      BY <1>3, ReturnOn
    <2> QED
      BY <2>1, <2>2, OrderedLater
  <1>4. CASE m.ok /\ s.nb_free_blc # 0 /\ d[s.first_free].kind # "free"
    <2>1. NewBloc(m) = Stopped(m)
      BY <1>4 DEF NewBloc
    <2>2. Halted(m, Stopped(m))
      BY <1>1, StopHalts
    <2>3. On(Stopped(m), start, first, 0)
      BY <2>2, HaltedOn
    <2>4. ~Stopped(m).ok
      BY <2>2 DEF Halted
    <2> QED
      BY <2>1, <2>3, <2>4, OrderedLater
  <1>5. CASE m.ok /\ s.nb_free_blc # 0 /\ d[s.first_free].kind = "free"
    <2>1. d[1].kind = "inode"
      BY <1>1, OrderedIs
    <2>2. OwnSuper(s, first)
      BY <1>5, <2>1, Kinds DEF On, OtherSuper
    <2>3. /\ s.first_free = first /\ s.nb_free_blc = NSector - first /\ first < NSector
          /\ s.root \in Bloc
      BY <1>1, <1>5, <2>2, OthersAre DEF OwnSuper
    <2>4. d[first] = Header
      <3>1. first \in 1 .. NSector - 1 /\ ~(Plain(d[first], first))
        BY <1>1, <1>5, <2>3 DEF Plain
      <3> QED
        BY <1>1, <3>1 DEF Ordered
    <2> DEFINE t == Super(s.root, s.nb_free_blc - 1, first + 1)
               saved == SaveSuper(Changed(m, t))
               w == WriteBloc(saved, first + 1, Header)
               r == Return(w, first)
    <2>5. NewBloc(m) = r
      <3>1. Header.nb_free_blocs # 1
        BY Kinds DEF Header, Roomy
      <3> QED
        BY <1>5, <2>3, <2>4, <3>1 DEF NewBloc, Changed
    <2>6. OwnSuper(t, first + 1)
      <3>1. s.nb_free_blc - 1 \in Nat /\ s.nb_free_blc - 1 = NSector - (first + 1)
            /\ first + 1 \in Bloc
        BY <1>1, <2>3 DEF Bloc
      <3> QED
        BY <2>3, <3>1, ContentsAre, Kinds DEF OwnSuper
    <2> HIDE DEF t
    <2>7. /\ Running(saved) /\ saved.super = t /\ saved.disk = Put(d, 0, t)
      BY <1>1, <1>5, SaveIs DEF Running
    <2> HIDE DEF saved
    <2>8. Running(w) /\ w.super = t /\ w.disk = Put(Put(d, 0, t), first + 1, Header)
      BY <2>7, WriteIs
    <2>9. w.ok \in BOOLEAN
      <3>1. DOMAIN m = Fields
        BY <1>1
      <3>2. WriteBloc(SaveSuper(Changed(m, t)), first + 1, Header).ok = m.ok
        BY ONLY <3>1 DEF WriteBloc, SaveSuper, Changed, Fields
      <3>3. m.ok \in BOOLEAN
        BY DEF On
      <3> QED
        BY <3>2, <3>3 DEF saved
    <2>10. /\ Ordered(w.disk, first + 1, first)
           /\ first + 1 # NSector => w.disk[NSector] = d[NSector]
      <3>1. /\ Ordered(d, first, 0) /\ first < NSector /\ d[first] = Header
            /\ OwnSuper(t, first + 1)
            /\ w.disk = Put(Put(d, 0, t), first + 1, Header)
        BY <1>1, <2>3, <2>4, <2>6, <2>8
      <3> DEFINE e == w.disk
      <3> HIDE DEF d, e
      <3> QED
        BY <3>1, OrderedMore
    <2> HIDE DEF w
    <2>11. start <= first
      BY DEF On
    <2>12. w.disk[NSector] = Before[NSector] \/ (start < NSector /\ first + 1 = NSector)
      <3>1. CASE first + 1 = NSector
        BY <1>1, <2>11, <3>1
      <3>2. CASE first + 1 # NSector
        <4>1. first # NSector /\ w.disk[NSector] = d[NSector]
          BY <2>3, <2>10, <3>2
        <4>2. d[NSector] = Before[NSector]
          BY <4>1 DEF On
        <4> QED
          BY <4>1, <4>2
      <3> QED
        BY <3>1, <3>2
    <2>13. start <= first + 1 /\ first + 1 \in first .. NSector
      BY <1>1, <2>3, <2>11
    <2>14. On(w, start, first + 1, first)
      <3>1. DOMAIN w = Fields /\ OwnSuper(w.super, first + 1)
        BY <2>6, <2>8 DEF Running
      <3> QED
        BY <1>1, <2>9, <2>10, <2>12, <2>13, <3>1 DEF On
    <2>15. On(r, start, first + 1, first) /\ r.ok /\ r.ret = first
      BY <2>8, <2>14, ReturnOn DEF Running
    <2>16. first \in Num(first + 1)
      BY <1>1, <2>3 DEF Num
    <2> HIDE DEF r
    <2>17. r.ret \in Num(first + 1) /\ On(r, start, first + 1, r.ret)
      BY <2>15, <2>16
    <2>18. New(r, start, first)
      BY <2>13, <2>15, <2>17 DEF New
    <2> QED
      BY <2>5, <2>18
  <1> QED
    BY <1>2, <1>3, <1>4, <1>5

(* What the bloc is first written with.                                    *)
LEMMA NewFound ==
    ASSUME NEW r, NEW start, NEW first \in 2 .. NSector, New(r, start, first),
           NEW c, \A g \in first .. NSector : Plain(c, g)
    PROVE  /\ Gives(WriteFound(r, c), start, first)
           /\ WriteFound(r, c).ret = r.ret /\ (WriteFound(r, c).ok <=> r.ok)
  <1>1. PICK g \in first .. NSector :
               \/ ~r.ok /\ On(r, start, g, 0)
               \/ r.ok /\ r.ret \in Num(g) /\ On(r, start, g, r.ret)
    BY DEF New
  <1>2. CASE ~r.ok
    <2>1. WriteFound(r, c) = r
      BY <1>2, StoppedWrites DEF WriteFound
    <2> QED
      BY <1>1, <1>2, <2>1 DEF Gives
  <1>3. CASE r.ok
    <2> DEFINE b == r.ret
               w == WriteBloc(r, b, c)
    <2>1. b \in Num(g) /\ On(r, start, g, b) /\ Plain(c, g) /\ g \in 2 .. NSector
      BY <1>1, <1>3
    <2>2. b \in 0 .. NSector - 1 /\ b # 1
      BY <2>1, NumIs
    <2> HIDE DEF b
    <2>3. On(w, start, g, 0) /\ w.ok /\ w.ret = r.ret
      BY <1>3, <2>1, <2>2, WriteOn
    <2>4. w.ret \in Num(g)
      BY <2>1, <2>3 DEF b
    <2>5. WriteFound(r, c) = w
      BY DEF WriteFound, b
    <2> HIDE DEF w
    <2> QED
      BY <1>3, <2>3, <2>4, <2>5 DEF Gives
  <1> QED
    BY <1>2, <1>3

(* The bloc is named before it is written.                                 *)
LEMMA NewWrite ==
    ASSUME NEW r, NEW start, NEW first \in 2 .. NSector, New(r, start, first),
           NEW b \in 0 .. NSector - 1, NEW c, b = 1 => c.kind = "inode",
           r.ok => \A g \in first .. NSector : r.ret \in Num(g) => Plain(c, g)
    PROVE  New(WriteBloc(r, b, c), start, first)
  <1>1. PICK g \in first .. NSector :
               \/ ~r.ok /\ On(r, start, g, 0)
               \/ r.ok /\ r.ret \in Num(g) /\ On(r, start, g, r.ret)
    BY DEF New
  <1>2. CASE ~r.ok
    <2>1. WriteBloc(r, b, c) = r
      BY <1>2, StoppedWrites
    <2> QED
      BY <2>1
  <1>3. CASE r.ok
    <2> DEFINE w == WriteBloc(r, b, c)
               p == r.ret
    <2>1. p \in Num(g) /\ On(r, start, g, p) /\ Plain(c, g)
      BY <1>1, <1>3
    <2> HIDE DEF p
    <2>2. On(w, start, g, p) /\ w.ok /\ w.ret = r.ret
      BY <1>3, <2>1, WriteOn
    <2>3. On(w, start, g, w.ret) /\ w.ret \in Num(g)
      BY <2>1, <2>2 DEF p
    <2> HIDE DEF w
    <2>4. New(w, start, first)
      BY <2>2, <2>3 DEF New
    <2> QED
      BY <2>4 DEF w
  <1> QED
    BY <1>2, <1>3

(* The same of a bloc that has been written.                               *)
LEMMA GivesWrite ==
    ASSUME NEW r, NEW start, NEW first \in 2 .. NSector, Gives(r, start, first),
           NEW b \in 0 .. NSector - 1, NEW c, b = 1 => c.kind = "inode",
           r.ok => \A g \in first .. NSector : r.ret \in Num(g) => Plain(c, g)
    PROVE  /\ Gives(WriteBloc(r, b, c), start, first)
           /\ WriteBloc(r, b, c).ret = r.ret /\ (WriteBloc(r, b, c).ok <=> r.ok)
  <1>1. PICK g \in first .. NSector : On(r, start, g, 0) /\ (r.ok => r.ret \in Num(g))
    BY DEF Gives
  <1>2. CASE ~r.ok
    <2>1. WriteBloc(r, b, c) = r
      BY <1>2, StoppedWrites
    <2> QED
      BY <2>1
  <1>3. CASE r.ok
    <2> DEFINE w == WriteBloc(r, b, c)
    <2>1. r.ret \in Num(g) /\ On(r, start, g, 0) /\ Plain(c, g)
      BY <1>1, <1>3
    <2>2. On(w, start, g, 0) /\ w.ok /\ w.ret = r.ret
      BY <1>3, <2>1, WriteOn
    <2> HIDE DEF w
    <2>3. Gives(w, start, first) /\ (w.ok <=> r.ok)
      BY <1>3, <2>1, <2>2 DEF Gives
    <2> QED
      BY <2>2, <2>3 DEF w
  <1> QED
    BY <1>2, <1>3

(* And written again: data of a file, at the bloc it was found in.         *)
LEMMA GivesFound ==
    ASSUME NEW r, NEW start, NEW first \in 2 .. NSector, Gives(r, start, first),
           NEW c, \A g \in first .. NSector : Plain(c, g)
    PROVE  /\ Gives(WriteFound(r, c), start, first)
           /\ WriteFound(r, c).ret = r.ret /\ (WriteFound(r, c).ok <=> r.ok)
  <1>1. CASE ~r.ok
    <2>1. WriteFound(r, c) = r
      BY <1>1, StoppedWrites DEF WriteFound
    <2> QED
      BY <2>1
  <1>2. CASE r.ok
    <2>1. PICK g \in first .. NSector : On(r, start, g, 0) /\ r.ret \in Num(g)
      BY <1>2 DEF Gives
    <2> DEFINE b == r.ret
    <2>2. b \in 0 .. NSector - 1 /\ b # 1
      <3>1. g \in 2 .. NSector
        OBVIOUS
      <3> QED
        BY <2>1, <3>1, NumIs
    <2> HIDE DEF b
    <2>3. /\ Gives(WriteBloc(r, b, c), start, first)
          /\ WriteBloc(r, b, c).ret = r.ret /\ (WriteBloc(r, b, c).ok <=> r.ok)
      BY <2>2, GivesWrite
    <2> QED
      BY <2>3 DEF b, WriteFound
  <1> QED
    BY <1>1, <1>2
-----------------------------------------------------------------------------
(* aux_vbloc_of_fbloc, its three parts, whatever bloc of the file is asked  *)
(* for.                                                                    *)

(* An inode stays one, whatever number is put in it.                       *)
LEMMA StaysInode ==
    ASSUME NEW n \in Contents, n.kind = "inode", NEW k, NEW b
    PROVE  /\ InDirect(n, k, b).kind = "inode" /\ AsIndirect(n, k, b).kind = "inode"
           /\ Grown(n, k).kind = "inode" /\ [n EXCEPT !.double = b].kind = "inode"
  <1> DEFINE t == n.type
             u == n.taille
             d == n.direct
             e == n.indirect
             f == n.double
             l == Larger(u, k + 1)
  <1>1. n = Inode(t, u, d, e, f)
    BY InodeOf
  <1> HIDE DEF t, u, d, e, f
  <1>2. /\ InDirect(n, k, b) = Inode(t, l, [d EXCEPT ![k] = b], e, f)
        /\ AsIndirect(n, k, b) = Inode(t, l, d, b, f)
    BY ONLY <1>1, InodeChanged
  <1>3. Grown(n, k) = Inode(t, l, d, e, f) /\ [n EXCEPT !.double = b] = Inode(t, u, d, e, b)
    BY ONLY <1>1 DEF Grown, Inode
  <1> HIDE DEF l
  <1> QED
    BY <1>2, <1>3, InodeIs

(* The direct table.                                                       *)
LEMMA DirectOn ==
    ASSUME Roomy, NEW m, m.ok, NEW start, NEW first, On(m, start, first, 0),
           NEW i \in 0 .. NSector - 1, m.disk[i].kind = "inode", NEW k \in Index,
           NEW a \in BOOLEAN
    PROVE  Gives(Direct(m, i, k, a), start, first)
  <1> DEFINE n == m.disk[i]
             r == NewBloc(m)
             c == InDirect(n, k, r.ret)
             w == WriteBloc(r, i, c)
  <1>1. first \in 2 .. NSector /\ i \in Bloc /\ Ordered(m.disk, first, 0)
    BY OnIs DEF Bloc
  <1>2. Plain(n, first) /\ n.kind = "inode"
    BY <1>1, OrderedIs
  <1>3. n.direct[k] \in Num(first) /\ NULL_BLOC \in Num(first)
    BY <1>1, <1>2, NumIs DEF Plain
  <1>4. CASE n.direct[k] # NULL_BLOC
    <2>1. Direct(m, i, k, a) = Return(m, n.direct[k])
      BY <1>4 DEF Direct
    <2> QED
      BY <1>3, <2>1, ReturnGives
  <1>5. CASE n.direct[k] = NULL_BLOC /\ ~a
    <2>1. Direct(m, i, k, a) = Return(m, NULL_BLOC)
      BY <1>5 DEF Direct
    <2> QED
      BY <1>3, <2>1, ReturnGives
  <1>6. CASE n.direct[k] = NULL_BLOC /\ a
    <2>1. Direct(m, i, k, a) = CleanFound(w)
      BY <1>6 DEF Direct, NameFound, InDirect
    <2>2. New(r, start, first)
      BY NewBlocOn
    <2>3. c.kind = "inode"
      <3>1. n \in Contents /\ n.kind = "inode"
        BY <1>2 DEF Plain
      <3> DEFINE b == NewBloc(m).ret
      <3> HIDE DEF n, b
      <3>2. InDirect(n, k, b).kind = "inode" /\ AsIndirect(n, k, b).kind = "inode"
        BY <3>1, StaysInode
      <3> QED
        BY <3>2 DEF b
    <2>4. \A g \in first .. NSector : r.ret \in Num(g) => Plain(c, g)
      <3> DEFINE b == r.ret
      <3>1. ASSUME NEW g \in first .. NSector, b \in Num(g)
            PROVE  Plain(InDirect(n, k, b), g)
        <4>1. g \in 2 .. NSector /\ Plain(n, g)
          BY <1>1, <1>2, <3>1, PlainOn
        <4>2. k \in 0 .. MaxFbloc - 1
          BY FblocIs DEF Index
        <4>3. /\ g \in 2 .. NSector /\ Plain(n, g) /\ n.kind = "inode"
              /\ k \in 0 .. MaxFbloc - 1 /\ b \in Num(g) /\ k \in Index
          BY <1>2, <3>1, <4>1, <4>2
        <4> HIDE DEF n, b
        <4> QED
          BY ONLY <4>3, GrownPlain
      <3> QED
        BY <3>1
    <2> HIDE DEF r, c
    <2>5. New(w, start, first)
      BY <1>1, <2>2, <2>3, <2>4, NewWrite
    <2> HIDE DEF w
    <2>6. \A g \in first .. NSector : Plain(Zero, g)
      BY <1>1, PlainAre
    <2>7. Gives(WriteFound(w, Zero), start, first)
      BY <1>1, <2>5, <2>6, NewFound
    <2> QED
      BY <2>1, <2>7 DEF CleanFound
  <1> QED
    BY <1>4, <1>5, <1>6

(* A table with one more number in it.                                     *)
LEMMA TablePlain ==
    ASSUME NEW first \in 2 .. NSector, NEW entries \in [Index -> Num(first)],
           NEW x \in Index, NEW g \in first .. NSector, NEW b \in Num(g)
    PROVE  Plain(Entered(entries, x, b), g)
  <1> DEFINE e == [entries EXCEPT ![x] = b]
  <1>1. g \in 2 .. NSector /\ Num(first) \subseteq Num(g)
    BY NumIs
  <1>2. e \in [Index -> Num(g)]
    BY <1>1
  <1> HIDE DEF e
  <1>3. Plain(Table(e), g)
    BY <1>1, <1>2, PlainAre
  <1> QED
    BY <1>3 DEF Entered, e

(* An entry of a table.                                                    *)
LEMMA EntryOn ==
    ASSUME Roomy, NEW m, NEW start, NEW first, On(m, start, first, 0),
           NEW table, m.ok => table \in Num(first), NEW x \in Index, NEW a \in BOOLEAN
    PROVE  Gives(IndirectEntry(m, table, x, a), start, first)
  <1> DEFINE entries == Entries(m.disk[table])
             r == NewBloc(m)
             c == Entered(entries, x, r.ret)
             w == WriteBloc(r, table, c)
  <1>1. first \in 2 .. NSector /\ Ordered(m.disk, first, 0) /\ DOMAIN m = Fields
    BY OnIs
  <1>2. CASE ~m.ok \/ ~IsTable(m.disk[table])
    <2>1. IndirectEntry(m, table, x, a) = Stopped(m)
      BY <1>2 DEF IndirectEntry
    <2> QED
      BY <1>1, <2>1, StopHalts, HaltedGives
  <1>3. CASE m.ok /\ IsTable(m.disk[table])
    <2>1. table \in 0 .. NSector - 1
      BY <1>1, <1>3, NumIs
    <2>2. Plain(m.disk[table], first) /\ table # 1
      BY <1>1, <1>3, <2>1, OrderedIs
    <2>3. entries \in [Index -> Num(first)]
      BY <1>1, <1>3, <2>2, EntriesPlain
    <2>4. entries[x] \in Num(first) /\ NULL_BLOC \in Num(first)
      BY <1>1, <2>3, NumIs
    <2>5. CASE entries[x] # NULL_BLOC
      <3>1. IndirectEntry(m, table, x, a) = Return(m, entries[x])
        BY <1>3, <2>5 DEF IndirectEntry
      <3> QED
        BY <1>3, <2>4, <3>1, ReturnGives
    <2>6. CASE entries[x] = NULL_BLOC /\ ~a
      <3>1. IndirectEntry(m, table, x, a) = Return(m, NULL_BLOC)
        BY <1>3, <2>6 DEF IndirectEntry
      <3> QED
        BY <1>3, <2>4, <3>1, ReturnGives
    <2>7. CASE entries[x] = NULL_BLOC /\ a
      <3>1. IndirectEntry(m, table, x, a) = CleanFound(w)
        BY <1>3, <2>7 DEF IndirectEntry, NameFound, Entered
      <3>2. New(r, start, first)
        BY NewBlocOn
      <3> HIDE DEF entries, r
      <3>3. \A g \in first .. NSector : r.ret \in Num(g) => Plain(c, g)
        BY <1>1, <2>3, TablePlain
      <3> HIDE DEF c
      <3>4. New(w, start, first)
        BY <1>1, <2>1, <2>2, <3>2, <3>3, NewWrite
      <3> HIDE DEF w
      <3>5. \A g \in first .. NSector : Plain(Zero, g)
        BY <1>1, PlainAre
      <3>6. Gives(WriteFound(w, Zero), start, first)
        BY <1>1, <3>4, <3>5, NewFound
      <3> QED
        BY <3>1, <3>6 DEF CleanFound
    <2> QED
      BY <2>5, <2>6, <2>7
  <1> QED
    BY <1>2, <1>3

(* The entry of a table that was just looked for.                          *)
LEMMA EntryOfFound ==
    ASSUME Roomy, NEW r, NEW start, NEW first \in 2 .. NSector, Gives(r, start, first),
           NEW x \in Index, NEW a \in BOOLEAN
    PROVE  Gives(IndirectEntry(r, r.ret, x, a), start, first)
  <1>1. PICK g \in first .. NSector : On(r, start, g, 0) /\ (r.ok => r.ret \in Num(g))
    BY DEF Gives
  <1>2. Gives(IndirectEntry(r, r.ret, x, a), start, g)
    BY <1>1, EntryOn
  <1> QED
    BY <1>2, GivesLater

(* A table is made: it is cleaned, then named.                             *)
LEMMA TableMade ==
    ASSUME Roomy, NEW m, NEW start, NEW first, On(m, start, first, 0),
           NEW at \in 0 .. NSector - 1, NEW c, at = 1 => c.kind = "inode",
           \A g \in first .. NSector : NewBloc(m).ret \in Num(g) => Plain(c, g)
    PROVE  /\ Gives(WriteBloc(CleanFound(NewBloc(m)), at, c), start, first)
           /\ CleanFound(NewBloc(m)).ret = NewBloc(m).ret
           /\ WriteBloc(CleanFound(NewBloc(m)), at, c).ret = NewBloc(m).ret
  <1> DEFINE r == NewBloc(m)
             s == CleanFound(r)
  <1>1. first \in 2 .. NSector
    BY OnIs
  <1>2. New(r, start, first)
    BY NewBlocOn
  <1>3. \A g \in first .. NSector : Plain(Zero, g)
    BY <1>1, PlainAre
  <1>4. \A g \in first .. NSector : r.ret \in Num(g) => Plain(c, g)
    OBVIOUS
  <1> HIDE DEF r
  <1>5. Gives(s, start, first) /\ s.ret = r.ret
    BY <1>1, <1>2, <1>3, NewFound DEF CleanFound
  <1> HIDE DEF s
  <1>6. Gives(WriteBloc(s, at, c), start, first) /\ WriteBloc(s, at, c).ret = s.ret
    BY <1>1, <1>4, <1>5, GivesWrite
  <1> QED
    BY <1>5, <1>6 DEF r, s

(* The indirect table.                                                     *)
LEMMA IndirectOn ==
    ASSUME Roomy, NEW m, m.ok, NEW start, NEW first, On(m, start, first, 0),
           NEW i \in 0 .. NSector - 1, m.disk[i].kind = "inode",
           NEW k \in 0 .. 2 * NB_BLOCS - 1, k >= NB_BLOCS, NEW a \in BOOLEAN
    PROVE  Gives(Indirect(m, i, k, a), start, first)
  <1> DEFINE n == m.disk[i]
             x == k - NB_BLOCS
             c == AsIndirect(n, k, NewBloc(m).ret)
             w == WriteBloc(CleanFound(NewBloc(m)), i, c)
  <1>1. first \in 2 .. NSector /\ i \in Bloc /\ Ordered(m.disk, first, 0) /\ x \in Index
    BY OnIs DEF Bloc, Index
  <1>2. Plain(n, first) /\ n.kind = "inode"
    BY <1>1, OrderedIs
  <1>3. n.indirect \in Num(first) /\ NULL_BLOC \in Num(first)
    BY <1>1, <1>2, NumIs DEF Plain
  <1>4. CASE n.indirect # NULL_BLOC
    <2> DEFINE r == Return(m, n.indirect)
    <2>1. Indirect(m, i, k, a) = IndirectEntry(r, r.ret, x, a)
      BY <1>4 DEF Indirect
    <2>2. Gives(r, start, first)
      BY <1>3, ReturnGives
    <2> HIDE DEF r, x
    <2> QED
      BY <1>1, <2>1, <2>2, EntryOfFound
  <1>5. CASE n.indirect = NULL_BLOC /\ ~a
    <2>1. Indirect(m, i, k, a) = Return(m, NULL_BLOC)
      BY <1>5 DEF Indirect
    <2> QED
      BY <1>3, <2>1, ReturnGives
  <1>6. CASE n.indirect = NULL_BLOC /\ a
    <2>1. k \in 0 .. MaxFbloc - 1
      BY FblocIs
    <2>2. \A g \in first .. NSector : NewBloc(m).ret \in Num(g) => Plain(c, g)
      <3> DEFINE b == NewBloc(m).ret
      <3>1. ASSUME NEW g \in first .. NSector, b \in Num(g)
            PROVE  Plain(AsIndirect(n, k, b), g)
        <4>1. g \in 2 .. NSector /\ Plain(n, g)
          BY <1>1, <1>2, <3>1, PlainOn
        <4>2. /\ g \in 2 .. NSector /\ Plain(n, g) /\ n.kind = "inode"
              /\ k \in 0 .. MaxFbloc - 1 /\ b \in Num(g)
          BY <1>2, <2>1, <3>1, <4>1
        <4> HIDE DEF n, b
        <4> QED
          BY ONLY <4>2, GrownPlain
      <3> QED
        BY <3>1
    <2>3. c.kind = "inode"
      <3>1. n \in Contents /\ n.kind = "inode"
        BY <1>2 DEF Plain
      <3> DEFINE b == NewBloc(m).ret
      <3> HIDE DEF n, b
      <3>2. InDirect(n, k, b).kind = "inode" /\ AsIndirect(n, k, b).kind = "inode"
        BY <3>1, StaysInode
      <3> QED
        BY <3>2 DEF b
    <2> HIDE DEF c
    <2>4. /\ Gives(w, start, first)
          /\ CleanFound(NewBloc(m)).ret = NewBloc(m).ret /\ w.ret = NewBloc(m).ret
      BY <2>2, <2>3, TableMade
    <2>5. Indirect(m, i, k, a) = IndirectEntry(w, w.ret, x, a)
      BY <1>6, <2>4 DEF Indirect, NameFound, AsIndirect, c
    <2> HIDE DEF w, x
    <2> QED
      BY <1>1, <2>4, <2>5, EntryOfFound
  <1> QED
    BY <1>4, <1>5, <1>6
-----------------------------------------------------------------------------
(* The double indirect table.                                              *)

(* Its two indices.                                                        *)
LEMMA IndicesAre ==
    ASSUME NEW k \in 2 * NB_BLOCS .. MaxFbloc - 1
    PROVE  LET x == ((k - NB_BLOCS) \div NB_BLOCS) - 1
           IN  x \in Index /\ (k - NB_BLOCS * 2) - x * NB_BLOCS \in Index
  <1> DEFINE y == k - NB_BLOCS
             q == y \div NB_BLOCS
             z == y % NB_BLOCS
  <1>1. y \in Nat /\ y >= NB_BLOCS /\ y < (1 + NB_BLOCS) * NB_BLOCS
    <2>1. MaxFbloc = (1 + NB_BLOCS) * NB_BLOCS + NB_BLOCS
      BY DEF MaxFbloc
    <2>2. (1 + NB_BLOCS) * NB_BLOCS \in Nat
      OBVIOUS
    <2> QED
      BY <2>1, <2>2, FblocIs
  <1> HIDE DEF y
  <1>2. q \in Nat /\ z \in 0 .. NB_BLOCS - 1 /\ y = NB_BLOCS * q + z
    BY <1>1
  <1> HIDE DEF q, z
  <1>3. q >= 1
    <2>1. CASE q = 0
      BY <1>1, <1>2, <2>1
    <2> QED
      BY <1>2, <2>1
  <1>4. q <= NB_BLOCS
    <2>1. CASE q > NB_BLOCS
      <3>1. PICK a \in Nat : q = 1 + NB_BLOCS + a
        <4>1. q - 1 - NB_BLOCS \in Nat /\ q = 1 + NB_BLOCS + (q - 1 - NB_BLOCS)
          BY <1>2, <2>1
        <4> QED
          BY <4>1
      <3>2. NB_BLOCS * q = (1 + NB_BLOCS) * NB_BLOCS + NB_BLOCS * a
        BY <3>1
      <3>3. NB_BLOCS * a \in Nat /\ (1 + NB_BLOCS) * NB_BLOCS \in Nat /\ NB_BLOCS * q \in Nat
        BY <1>2, <3>1
      <3> QED
        BY <1>1, <1>2, <3>2, <3>3
    <2> QED
      BY <1>2, <2>1
  <1>5. (k - NB_BLOCS * 2) - (q - 1) * NB_BLOCS = z
    <2>1. k = NB_BLOCS * q + z + NB_BLOCS
      BY <1>2 DEF y
    <2>2. (q - 1) * NB_BLOCS = NB_BLOCS * q - NB_BLOCS /\ NB_BLOCS * q \in Nat
      BY <1>2
    <2> QED
      BY <1>2, <2>1, <2>2
  <1> QED
    BY <1>2, <1>3, <1>4, <1>5 DEF Index, q, y

\* What is read as the number of a level 2 table.
Shifted(b) == (High(b) \div OCTET) + Low(b)

(* It is no greater than the number that is there.                         *)
LEMMA ShiftedIs ==
    ASSUME NEW b \in Nat
    PROVE  Shifted(b) \in 0 .. b
  <1> DEFINE h == b \div OCTET
             l == b % OCTET
             g == h \div OCTET
             r == h % OCTET
  <1>1. h \in Nat /\ l \in Nat /\ b = OCTET * h + l
    OBVIOUS
  <1> HIDE DEF h, l
  <1>2. g \in Nat /\ r \in Nat /\ h = OCTET * g + r
    BY <1>1
  <1> HIDE DEF g, r
  <1>3. OCTET * g >= g /\ OCTET * h >= h
    BY <1>1, <1>2
  <1>4. OCTET * g \in Nat /\ OCTET * h \in Nat
    BY <1>1, <1>2
  <1>5. g <= h
    BY <1>1, <1>2, <1>3, <1>4
  <1>6. g + l \in 0 .. b
    BY <1>1, <1>2, <1>3, <1>4, <1>5
  <1> QED
    BY <1>6 DEF Shifted, High, Low, g, h, l

(* An entry of a level 2 table.                                            *)
LEMMA DoubleEntryOn ==
    ASSUME Roomy, NEW m, NEW start, NEW first, On(m, start, first, 0),
           NEW i \in 0 .. NSector - 1, NEW k \in 0 .. MaxFbloc - 1,
           NEW n, m.ok => Plain(n, first) /\ n.kind = "inode",
           NEW table, m.ok => table \in 0 .. NSector - 1, NEW x \in Index, NEW a \in BOOLEAN
    PROVE  Gives(DoubleEntry(m, i, n, table, k, x, a), start, first)
  <1> DEFINE entries == Entries(m.disk[table])
             octet == OctetOf(entries, x)
             c == Grown(n, k)
             w == WriteBloc(CleanFound(NewBloc(m)), i, c)
             e == Entered(entries, x, w.ret)
             v == WriteBloc(w, table, e)
             r == DoubleEntry(m, i, n, table, k, x, a)
  <1>1. first \in 2 .. NSector /\ Ordered(m.disk, first, 0) /\ DOMAIN m = Fields
    BY OnIs
  <1>2. CASE ~m.ok \/ ~IsTable(m.disk[table])
    <2>1. r = Stopped(m)
      BY <1>2 DEF DoubleEntry
    <2> QED
      BY <1>1, <2>1, StopHalts, HaltedGives
  <1>3. CASE m.ok /\ IsTable(m.disk[table])
    <2>2. Plain(m.disk[table], first) /\ table # 1
      BY <1>1, <1>3, OrderedIs
    <2>3. entries \in [Index -> Num(first)]
      BY <1>1, <1>3, <2>2, EntriesPlain
    <2>4. entries[x] \in Num(first) /\ NULL_BLOC \in Num(first)
      BY <1>1, <2>3, NumIs
    <2>5. CASE octet * OCTET + octet # NULL_BLOC
      <3>1. r = Return(m, entries[x])
        BY <1>3, <2>5 DEF DoubleEntry
      <3> QED
        BY <1>3, <2>4, <3>1, ReturnGives
    <2>6. CASE octet * OCTET + octet = NULL_BLOC /\ ~a
      <3>1. r = Return(m, NULL_BLOC)
        BY <1>3, <2>6 DEF DoubleEntry
      <3> QED
        BY <1>3, <2>4, <3>1, ReturnGives
    <2>7. CASE octet * OCTET + octet = NULL_BLOC /\ a
      <3>1. r = CleanFound(v)
        BY <1>3, <2>7 DEF DoubleEntry, NameFound, Entered
      <3> HIDE DEF r
      <3>2. c.kind = "inode" /\ \A g \in first .. NSector : Plain(c, g)
        <4>1. \A g \in first .. NSector : g \in 2 .. NSector /\ Plain(n, g)
          BY <1>1, <1>3, PlainOn
        <4>2. \A g \in first .. NSector : Plain(c, g)
          <5>1. ASSUME NEW g \in first .. NSector
                PROVE  Plain(c, g)
            <6>1. /\ g \in 2 .. NSector /\ Plain(n, g) /\ n.kind = "inode"
                  /\ k \in 0 .. MaxFbloc - 1 /\ 0 \in Num(g)
              BY <1>3, <4>1, <5>1, NumIs
            <6> QED
              BY ONLY <6>1, GrownPlain
          <5> QED
            BY <5>1
        <4>3. n \in Contents /\ n.kind = "inode"
          BY <1>3 DEF Plain
        <4> QED
          BY <4>2, <4>3, StaysInode
      <3> HIDE DEF c, entries
      <3>3. Gives(w, start, first)
        BY <3>2, TableMade
      <3> HIDE DEF w
      <3>4. \A g \in first .. NSector : w.ret \in Num(g) => Plain(e, g)
        BY <1>1, <2>3, TablePlain
      <3> HIDE DEF e
      <3>5. Gives(v, start, first)
        BY <1>1, <1>3, <2>2, <3>3, <3>4, GivesWrite
      <3> HIDE DEF v
      <3>6. \A g \in first .. NSector : Plain(Zero, g)
        BY <1>1, PlainAre
      <3>7. Gives(WriteFound(v, Zero), start, first)
        BY <1>1, <3>5, <3>6, GivesFound
      <3> QED
        BY <3>1, <3>7 DEF CleanFound, r
    <2> QED
      BY <2>5, <2>6, <2>7
  <1> QED
    BY <1>2, <1>3

(* The level 1 table.                                                      *)
LEMMA DoubleTableOn ==
    ASSUME Roomy, NEW m, NEW start, NEW first, On(m, start, first, 0),
           NEW i \in 0 .. NSector - 1, NEW k \in 2 * NB_BLOCS .. MaxFbloc - 1,
           NEW n, m.ok => Plain(n, first) /\ n.kind = "inode",
           NEW table, m.ok => table \in Num(first), NEW a \in BOOLEAN
    PROVE  Gives(DoubleTable(m, i, n, table, k, a), start, first)
  <1> DEFINE x == ((k - NB_BLOCS) \div NB_BLOCS) - 1
             y == (k - NB_BLOCS * 2) - x * NB_BLOCS
             entries == Entries(m.disk[table])
             t == Shifted(entries[x])
             c == Entered(entries, x, NewBloc(m).ret)
             w == WriteBloc(CleanFound(NewBloc(m)), table, c)
             r == DoubleTable(m, i, n, table, k, a)
  <1>1. /\ first \in 2 .. NSector /\ Ordered(m.disk, first, 0) /\ DOMAIN m = Fields
        /\ first \in first .. NSector
    BY OnIs
  <1>2. x \in Index /\ y \in Index /\ k \in 0 .. MaxFbloc - 1
    BY IndicesAre
  <1> HIDE DEF x
  <1> HIDE DEF y
  <1>3. CASE ~m.ok \/ ~IsTable(m.disk[table])
    <2>1. r = Stopped(m)
      BY <1>3 DEF DoubleTable
    <2> QED
      BY <1>1, <2>1, StopHalts, HaltedGives
  <1>4. CASE m.ok /\ IsTable(m.disk[table])
    <2>1. table \in 0 .. NSector - 1
      BY <1>1, <1>4, NumIs
    <2>2. Plain(m.disk[table], first) /\ table # 1
      BY <1>1, <1>4, <2>1, OrderedIs
    <2>3. entries \in [Index -> Num(first)]
      BY <1>1, <1>4, <2>2, EntriesPlain
    <2>4. entries[x] \in 0 .. NSector - 1 /\ NULL_BLOC \in Num(first)
      BY <1>1, <1>2, <2>3, NumIs
    <2>5. t \in 0 .. NSector - 1
      BY <2>4, ShiftedIs
    <2>6. ASSUME t # NULL_BLOC
          PROVE  r = DoubleEntry(Return(m, t), i, n, Return(m, t).ret, k, y, a)
      BY <1>4, <2>6 DEF DoubleTable, Shifted, x, y
    <2>7. ASSUME t = NULL_BLOC, ~a
          PROVE  r = Return(m, NULL_BLOC)
      BY <1>4, <2>7 DEF DoubleTable, Shifted, x, y
    <2>8. ASSUME t = NULL_BLOC, a
          PROVE  r = DoubleEntry(NameFound(CleanFound(NewBloc(m)), table,
                                   LAMBDA b : Table([entries EXCEPT ![x] = b])),
                                 i, n,
                                 NameFound(CleanFound(NewBloc(m)), table,
                                   LAMBDA b : Table([entries EXCEPT ![x] = b])).ret, k, y, a)
      BY <1>4, <2>8 DEF DoubleTable, Shifted, x, y
    <2> HIDE DEF r
    <2>9. CASE t # NULL_BLOC
      <3> DEFINE q == Return(m, t)
      <3>1. On(q, start, first, 0) /\ q.ok /\ q.ret = t
        BY <1>4, ReturnOn
      <3> HIDE DEF t, q
      <3>2. Gives(DoubleEntry(q, i, n, q.ret, k, y, a), start, first)
        <4>1. /\ Roomy /\ On(q, start, first, 0) /\ i \in 0 .. NSector - 1
              /\ k \in 0 .. MaxFbloc - 1 /\ y \in Index /\ a \in BOOLEAN
              /\ q.ok => Plain(n, first) /\ n.kind = "inode"
              /\ q.ok => q.ret \in 0 .. NSector - 1
          BY <1>2, <1>4, <2>5, <3>1
        <4> DEFINE z == q.ret
        <4> HIDE DEF z
        <4>2. Gives(DoubleEntry(q, i, n, z, k, y, a), start, first)
          BY ONLY <4>1, DoubleEntryOn DEF z
        <4> QED
          BY <4>2 DEF z
      <3> QED
        BY <2>6, <2>9, <3>2 DEF q, t, r
    <2>10. CASE t = NULL_BLOC /\ ~a
      BY <1>4, <2>4, <2>7, <2>10, ReturnGives DEF r
    <2>11. CASE t = NULL_BLOC /\ a
      <3> HIDE DEF entries
      <3>1. \A g \in first .. NSector : NewBloc(m).ret \in Num(g) => Plain(c, g)
        BY <1>1, <1>2, <2>3, TablePlain
      <3> HIDE DEF c
      <3>2. /\ Gives(w, start, first)
            /\ CleanFound(NewBloc(m)).ret = NewBloc(m).ret /\ w.ret = NewBloc(m).ret
        BY <2>1, <2>2, <3>1, TableMade
      <3>3. r = DoubleEntry(w, i, n, w.ret, k, y, a)
        BY <2>8, <2>11, <3>2 DEF NameFound, Entered, c
      <3> HIDE DEF w
      <3>4. PICK g \in first .. NSector : On(w, start, g, 0) /\ (w.ok => w.ret \in Num(g))
        BY <3>2 DEF Gives
      <3>5. g \in 2 .. NSector /\ Plain(n, g) /\ n.kind = "inode"
        BY <1>1, <1>4, <3>4, PlainOn
      <3>6. w.ok => w.ret \in 0 .. NSector - 1
        BY <3>4, <3>5, NumIs
      <3>7. Gives(DoubleEntry(w, i, n, w.ret, k, y, a), start, g)
        <4>1. /\ Roomy /\ On(w, start, g, 0) /\ i \in 0 .. NSector - 1
              /\ k \in 0 .. MaxFbloc - 1 /\ y \in Index /\ a \in BOOLEAN
              /\ w.ok => Plain(n, g) /\ n.kind = "inode"
              /\ w.ok => w.ret \in 0 .. NSector - 1
          BY <1>2, <3>4, <3>5, <3>6
        <4> DEFINE z == w.ret
        <4> HIDE DEF z
        <4>2. Gives(DoubleEntry(w, i, n, z, k, y, a), start, g)
          BY ONLY <4>1, DoubleEntryOn DEF z
        <4> QED
          BY <4>2 DEF z
      <3> QED
        BY <1>1, <3>3, <3>4, <3>7, GivesLater DEF r
    <2> QED
      BY <2>9, <2>10, <2>11 DEF r
  <1> QED
    BY <1>3, <1>4

(* The part of aux_vbloc_of_fbloc for both.                                *)
LEMMA DoubleOn ==
    ASSUME Roomy, NEW m, m.ok, NEW start, NEW first, On(m, start, first, 0),
           NEW i \in 0 .. NSector - 1, m.disk[i].kind = "inode",
           NEW k \in 2 * NB_BLOCS .. MaxFbloc - 1, NEW a \in BOOLEAN
    PROVE  Gives(Double(m, i, k, a), start, first)
  <1> DEFINE n == m.disk[i]
             c == [n EXCEPT !.double = NewBloc(m).ret]
             w == WriteBloc(CleanFound(NewBloc(m)), i, c)
             r == Double(m, i, k, a)
  <1>1. first \in 2 .. NSector /\ i \in Bloc /\ Ordered(m.disk, first, 0)
    BY OnIs DEF Bloc
  <1>2. Plain(n, first) /\ n.kind = "inode"
    BY <1>1, OrderedIs
  <1>3. n.double \in Num(first) /\ NULL_BLOC \in Num(first)
    BY <1>1, <1>2, NumIs DEF Plain
  <1>4. CASE n.double # NULL_BLOC
    <2>1. r = DoubleTable(m, i, n, n.double, k, a)
      BY <1>4 DEF Double
    <2> HIDE DEF r, n
    <2>2. Gives(DoubleTable(m, i, n, n.double, k, a), start, first)
      BY <1>2, <1>3, DoubleTableOn
    <2> QED
      BY <2>1, <2>2 DEF r
  <1>5. CASE n.double = NULL_BLOC /\ ~a
    <2>1. r = Return(m, NULL_BLOC)
      BY <1>5 DEF Double
    <2> QED
      BY <1>3, <2>1, ReturnGives
  <1>6. CASE n.double = NULL_BLOC /\ a
    <2> DEFINE b == NewBloc(m).ret
    <2>1. k \in 0 .. MaxFbloc - 1
      BY FblocIs
    <2>2. \A g \in first .. NSector : b \in Num(g) => Plain([n EXCEPT !.double = b], g)
      <3>1. ASSUME NEW g \in first .. NSector, b \in Num(g)
            PROVE  Plain([n EXCEPT !.double = b], g)
        <4>1. g \in 2 .. NSector /\ Plain(n, g)
          BY <1>1, <1>2, <3>1, PlainOn
        <4>2. /\ g \in 2 .. NSector /\ Plain(n, g) /\ n.kind = "inode"
              /\ k \in 0 .. MaxFbloc - 1 /\ b \in Num(g)
          BY <1>2, <2>1, <3>1, <4>1
        <4> HIDE DEF n, b
        <4> QED
          BY ONLY <4>2, GrownPlain
      <3> QED
        BY <3>1
    <2>3. c.kind = "inode" /\ c.double = b
      <3>1. n \in Contents /\ n.kind = "inode"
        BY <1>2 DEF Plain
      <3>2. "double" \in DOMAIN n
        <4>1. n = Inode(n.type, n.taille, n.direct, n.indirect, n.double)
          BY <3>1, InodeOf
        <4> QED
          BY <4>1, InodeIs
      <3> HIDE DEF n, b
      <3>3. [n EXCEPT !.double = b].kind = "inode"
        BY <3>1, StaysInode
      <3>4. [n EXCEPT !.double = b].double = b
        BY <3>2
      <3> QED
        BY <3>3, <3>4 DEF b
    <2>4. \A g \in first .. NSector : NewBloc(m).ret \in Num(g) => Plain(c, g)
      BY <2>2
    <2>5. r = DoubleTable(NameFound(CleanFound(NewBloc(m)), i,
                                    LAMBDA e : [n EXCEPT !.double = e]), i,
                          [n EXCEPT !.double =
                             NameFound(CleanFound(NewBloc(m)), i,
                                       LAMBDA e : [n EXCEPT !.double = e]).ret],
                          [n EXCEPT !.double =
                             NameFound(CleanFound(NewBloc(m)), i,
                                       LAMBDA e : [n EXCEPT !.double = e]).ret].double, k, a)
      BY <1>6 DEF Double
    <2> HIDE DEF r
    <2>6. /\ Gives(w, start, first)
          /\ CleanFound(NewBloc(m)).ret = b /\ w.ret = b
      <3>1. c.kind = "inode"
        BY <2>3
      <3> HIDE DEF c
      <3> QED
        BY <2>4, <3>1, TableMade
    <2>7. r = DoubleTable(w, i, c, c.double, k, a)
      BY <2>5, <2>6 DEF NameFound
    <2> HIDE DEF w
    <2>8. PICK g \in first .. NSector : On(w, start, g, 0) /\ (w.ok => w.ret \in Num(g))
      BY <2>6 DEF Gives
    <2>9. w.ok => Plain(c, g) /\ c.kind = "inode" /\ c.double \in Num(g)
      BY <2>2, <2>3, <2>6, <2>8
    <2> HIDE DEF c
    <2>10. Gives(DoubleTable(w, i, c, c.double, k, a), start, g)
      <3>1. /\ Roomy /\ On(w, start, g, 0) /\ i \in 0 .. NSector - 1
            /\ k \in 2 * NB_BLOCS .. MaxFbloc - 1 /\ a \in BOOLEAN
            /\ w.ok => Plain(c, g) /\ c.kind = "inode"
            /\ w.ok => c.double \in Num(g)
        BY <2>8, <2>9
      <3> DEFINE z == c.double
      <3> HIDE DEF z
      <3>2. Gives(DoubleTable(w, i, c, z, k, a), start, g)
        BY ONLY <3>1, DoubleTableOn DEF z
      <3> QED
        BY <3>2 DEF z
    <2> QED
      BY <1>1, <2>7, <2>8, <2>10, GivesLater DEF r
  <1> QED
    BY <1>4, <1>5, <1>6
-----------------------------------------------------------------------------
(* A command under way.                                                    *)

\* A machine that has stopped where the command started.
Dead(m) == DOMAIN m = Fields /\ m.ok \in BOOLEAN /\ ~m.ok /\ m.disk = Before

\* A machine on its way, or one that stopped at once.
Fits(m, start) == Dead(m) \/ \E g \in start .. NSector : On(m, start, g, 0)

(* A machine that stops fits as it did.                                    *)
LEMMA StoppedFits ==
    ASSUME NEW m, NEW start, Fits(m, start)
    PROVE  Fits(Stopped(m), start) /\ ~Stopped(m).ok
  <1>1. DOMAIN m = Fields
    BY OnIs DEF Fits, Dead
  <1>2. Halted(m, Stopped(m))
    BY <1>1, StopHalts
  <1>3. ~Stopped(m).ok
    BY <1>2 DEF Halted
  <1>4. CASE Dead(m)
    BY <1>2, <1>4 DEF Fits, Dead, Halted
  <1>5. CASE \E g \in start .. NSector : On(m, start, g, 0)
    <2>1. PICK g \in start .. NSector : On(m, start, g, 0)
      BY <1>5
    <2>2. On(Stopped(m), start, g, 0)
      BY <1>2, <2>1, HaltedOn
    <2> QED
      BY <1>3, <2>1, <2>2 DEF Fits
  <1> QED
    BY <1>3, <1>4, <1>5 DEF Fits

(* A machine that goes on is one of volume 0 in order.                     *)
LEMMA RunningFits ==
    ASSUME NEW m, NEW start, Fits(m, start), m.ok
    PROVE  \E g \in start .. NSector : On(m, start, g, 0)
  BY DEF Fits, Dead

(* What was given later still fits.                                        *)
LEMMA GivesFits ==
    ASSUME NEW m, NEW start, NEW first \in start .. NSector, start \in 2 .. NSector,
           Gives(m, start, first)
    PROVE  Fits(m, start) /\ (m.ok => OctetsFound(m) \in Rows)
  <1>1. PICK g \in first .. NSector : On(m, start, g, 0) /\ (m.ok => m.ret \in Num(g))
    BY DEF Gives
  <1>2. g \in start .. NSector
    OBVIOUS
  <1>3. ASSUME m.ok
        PROVE  OctetsFound(m) \in Rows
    <2>1. NoOctets \in Rows
      BY DEF NoOctets, Rows, Octet, InodesAssumption
    <2> DEFINE d == m.disk
               b == m.ret
    <2>2. Ordered(d, g, 0) /\ b \in Num(g)
      BY <1>1, <1>3, OnIs
    <2> HIDE DEF d, b
    <2>3. Octets(d[b]) \in Rows
      BY <2>2, OctetsAre
    <2> QED
      BY <2>1, <2>3 DEF OctetsFound, d, b
  <1> QED
    BY <1>1, <1>2, <1>3 DEF Fits

(* aux_vbloc_of_fbloc goes on only from an inode, with a super bloc.       *)
LEMMA AuxStops ==
    ASSUME NEW m, NEW i, NEW k, NEW a, ~m.ok \/ m.disk[i].kind # "inode" \/ m.super = NoSuper
    PROVE  AuxVblocOfFbloc(m, i, k, a) = Stopped(m)
  BY DEF AuxVblocOfFbloc

(* What it gives from a volume in order.                                   *)
LEMMA AuxOn ==
    ASSUME Roomy, NEW m, NEW start, NEW first, On(m, start, first, 0),
           NEW i \in Bloc, NEW k \in Nat, NEW a \in BOOLEAN
    PROVE  Gives(AuxVblocOfFbloc(m, i, k, a), start, first)
  <1> DEFINE r == AuxVblocOfFbloc(m, i, k, a)
  <1>1. /\ first \in 2 .. NSector /\ Ordered(m.disk, first, 0) /\ DOMAIN m = Fields
        /\ NULL_BLOC \in Num(first)
    BY OnIs, NumIs
  <1>2. CASE ~m.ok \/ m.disk[i].kind # "inode" \/ m.super = NoSuper
    <2>1. r = Stopped(m)
      BY <1>2, AuxStops
    <2> QED
      BY <1>1, <2>1, StopHalts, HaltedGives
  <1>3. CASE m.ok /\ m.disk[i].kind = "inode" /\ m.super # NoSuper
    <2>1. i \in 0 .. NSector - 1
      BY <1>1, <1>3, OrderedIs
    <2>2. MaxFbloc \in Nat
      BY FblocIs
    <2>3. CASE k < NB_BLOCS
      <3>1. r = Direct(m, i, k, a) /\ k \in Index
        BY <1>3, <2>3 DEF AuxVblocOfFbloc, Index
      <3> QED
        BY <1>3, <2>1, <3>1, DirectOn
    <2>4. CASE ~(k < NB_BLOCS) /\ k < 2 * NB_BLOCS
      <3>1. r = Indirect(m, i, k, a)
        BY <1>3, <2>4 DEF AuxVblocOfFbloc
      <3>2. k \in 0 .. 2 * NB_BLOCS - 1 /\ k >= NB_BLOCS
        BY <2>4
      <3> QED
        BY <1>3, <2>1, <3>1, <3>2, IndirectOn
    <2>5. CASE ~(k < NB_BLOCS) /\ ~(k < 2 * NB_BLOCS) /\ k < MaxFbloc
      <3>1. r = Double(m, i, k, a)
        BY <1>3, <2>5 DEF AuxVblocOfFbloc
      <3>2. k \in 2 * NB_BLOCS .. MaxFbloc - 1
        BY <2>2, <2>5
      <3> QED
        BY <1>3, <2>1, <3>1, <3>2, DoubleOn
    <2>6. CASE ~(k < NB_BLOCS) /\ ~(k < 2 * NB_BLOCS) /\ ~(k < MaxFbloc)
      <3>1. r = Return(m, NULL_BLOC)
        BY <1>3, <2>6 DEF AuxVblocOfFbloc
      <3> QED
        BY <1>1, <1>3, <3>1, ReturnGives
    <2> QED
      BY <2>3, <2>4, <2>5, <2>6
  <1> QED
    BY <1>2, <1>3

(* The same of any machine that fits.                                      *)
LEMMA AuxFits ==
    ASSUME Roomy, NEW m, NEW start, Fits(m, start), NEW i \in Bloc, NEW k \in Nat,
           NEW a \in BOOLEAN
    PROVE  LET r == AuxVblocOfFbloc(m, i, k, a)
           IN  /\ Fits(r, start) /\ (r.ok => m.ok /\ OctetsFound(r) \in Rows)
               /\ r.ok => \E g \in start .. NSector : On(m, start, g, 0) /\ Gives(r, start, g)
  <1> DEFINE r == AuxVblocOfFbloc(m, i, k, a)
  <1>1. CASE ~m.ok
    <2>1. r = Stopped(m)
      BY <1>1, AuxStops
    <2> QED
      BY <2>1, StoppedFits
  <1>2. CASE m.ok
    <2>1. PICK g \in start .. NSector : On(m, start, g, 0)
      BY <1>2, RunningFits
    <2>2. Gives(r, start, g)
      BY <2>1, AuxOn
    <2>3. start \in 2 .. NSector
      BY <2>1, OnIs
    <2> HIDE DEF r
    <2>4. Fits(r, start) /\ (r.ok => OctetsFound(r) \in Rows)
      BY <2>1, <2>2, <2>3, GivesFits
    <2> QED
      BY <1>2, <2>1, <2>2, <2>4 DEF r
  <1> QED
    BY <1>1, <1>2

-----------------------------------------------------------------------------
(* Lookups leave all as it is.                                             *)

\* r looked at the disk of m.
LooksAt(m, r) == DOMAIN r = Fields /\ r.disk = m.disk /\ r.super = m.super

(* To stop or to answer changes nothing.                                   *)
LEMMA AnswerLooks ==
    ASSUME NEW m, NEW q, LooksAt(m, q), NEW v
    PROVE  LooksAt(m, Stopped(q)) /\ LooksAt(m, Return(q, v))
  BY DEF LooksAt, Stopped, Return, Fields

(* Nor does an entry that is not to be allocated.                          *)
LEMMA EntryLooks ==
    ASSUME NEW m, NEW q, LooksAt(m, q), NEW x, NEW a \in BOOLEAN, ~a
    PROVE  LooksAt(m, IndirectEntry(q, q.ret, x, a))
  <1>1. \/ IndirectEntry(q, q.ret, x, a) = Stopped(q)
        \/ \E v : IndirectEntry(q, q.ret, x, a) = Return(q, v)
    BY DEF IndirectEntry
  <1> QED
    BY <1>1, AnswerLooks

(* Nor an entry of a level 2 table.                                        *)
LEMMA DoubleEntryLooks ==
    ASSUME NEW m, NEW q, LooksAt(m, q), NEW i, NEW n, NEW k, NEW x, NEW a \in BOOLEAN, ~a
    PROVE  LooksAt(m, DoubleEntry(q, i, n, q.ret, k, x, a))
  <1>1. \/ DoubleEntry(q, i, n, q.ret, k, x, a) = Stopped(q)
        \/ \E v : DoubleEntry(q, i, n, q.ret, k, x, a) = Return(q, v)
    BY DEF DoubleEntry
  <1> QED
    BY <1>1, AnswerLooks

(* Nor does aux_vbloc_of_fbloc then.                                       *)
LEMMA AuxLooks ==
    ASSUME NEW m, DOMAIN m = Fields, NEW i, NEW k, NEW a \in BOOLEAN, ~a
    PROVE  LooksAt(m, AuxVblocOfFbloc(m, i, k, a))
  <1> DEFINE r == AuxVblocOfFbloc(m, i, k, a)
             n == m.disk[i]
             x == k - NB_BLOCS
             y == ((k - NB_BLOCS) \div NB_BLOCS) - 1
             z == (k - NB_BLOCS * 2) - y * NB_BLOCS
             t == Shifted(Entries(m.disk[n.double])[y])
  <1>1. LooksAt(m, m)
    BY DEF LooksAt
  <1>2. \/ r = Stopped(m)
        \/ r = Direct(m, i, k, a)
        \/ r = Indirect(m, i, k, a)
        \/ r = Double(m, i, k, a)
        \/ r = Return(m, NULL_BLOC)
    BY DEF AuxVblocOfFbloc
  <1>3. \E v : Direct(m, i, k, a) = Return(m, v)
    BY DEF Direct
  <1>4. \/ Indirect(m, i, k, a) = Return(m, NULL_BLOC)
        \/ Indirect(m, i, k, a)
             = IndirectEntry(Return(m, n.indirect), Return(m, n.indirect).ret, x, a)
    BY DEF Indirect
  <1>5. LooksAt(m, Indirect(m, i, k, a))
    <2> HIDE DEF x
    <2> DEFINE q == Return(m, n.indirect)
    <2>1. LooksAt(m, q)
      BY <1>1, AnswerLooks
    <2> HIDE DEF q
    <2>2. LooksAt(m, IndirectEntry(q, q.ret, x, a))
      BY <2>1, EntryLooks
    <2> QED
      BY <1>1, <1>4, <2>2, AnswerLooks DEF q
  <1>6. \/ Double(m, i, k, a) = Return(m, NULL_BLOC)
        \/ Double(m, i, k, a) = DoubleTable(m, i, n, n.double, k, a)
    BY DEF Double
  <1>7. \/ DoubleTable(m, i, n, n.double, k, a) = Stopped(m)
        \/ DoubleTable(m, i, n, n.double, k, a) = Return(m, NULL_BLOC)
        \/ DoubleTable(m, i, n, n.double, k, a)
             = DoubleEntry(Return(m, t), i, n, Return(m, t).ret, k, z, a)
    <2>1. CASE ~m.ok \/ ~IsTable(m.disk[n.double])
      <3> HIDE DEF n, t, z
      <3>1. DoubleTable(m, i, n, n.double, k, a) = Stopped(m)
        BY <2>1 DEF DoubleTable
      <3> QED
        BY <3>1
    <2>2. CASE m.ok /\ IsTable(m.disk[n.double]) /\ t = NULL_BLOC
      BY <2>2 DEF DoubleTable, Shifted
    <2>3. CASE m.ok /\ IsTable(m.disk[n.double]) /\ t # NULL_BLOC
      BY <2>3 DEF DoubleTable, Shifted
    <2> QED
      BY <2>1, <2>2, <2>3
  <1>8. LooksAt(m, Double(m, i, k, a))
    <2> DEFINE q == Return(m, t)
    <2> HIDE DEF t, z
    <2>1. LooksAt(m, q)
      BY <1>1, AnswerLooks
    <2> HIDE DEF q
    <2>2. LooksAt(m, DoubleEntry(q, i, n, q.ret, k, z, a))
      BY <2>1, DoubleEntryLooks
    <2> QED
      BY <1>1, <1>6, <1>7, <2>2, AnswerLooks DEF q
  <1> QED
    BY <1>1, <1>2, <1>3, <1>5, <1>8, AnswerLooks

(* vbloc_of_fbloc looks.                                                   *)
LEMMA LookupLooks ==
    ASSUME NEW m, DOMAIN m = Fields, NEW i, NEW k
    PROVE  LooksAt(m, VblocOfFbloc(m, i, k))
  <1>1. \A a \in BOOLEAN : ~a => LooksAt(m, AuxVblocOfFbloc(m, i, k, a))
    BY AuxLooks
  <1>2. LooksAt(m, AuxVblocOfFbloc(m, i, k, FALSE))
    BY ONLY <1>1, Zenon
  <1> QED
    BY ONLY <1>2, Zenon DEF VblocOfFbloc
-----------------------------------------------------------------------------
(* Descriptors.                                                            *)

Descs == DescriptorsOf(Nat, Nat, Rows)

\* A program that goes on has a descriptor of the right type.
Uses(u, start) ==
    /\ DOMAIN u = {"machine", "descriptor"}
    /\ Fits(u.machine, start) /\ (u.machine.ok => u.descriptor \in Descs)

(* A machine with its descriptor.                                          *)
LEMMA UsingUses ==
    ASSUME NEW m, NEW start, Fits(m, start), NEW d, m.ok => d \in Descs
    PROVE  Uses(Using(m, d), start) /\ Using(m, d).machine = m /\ Using(m, d).descriptor = d
  <1>1. /\ DOMAIN Using(m, d) = {"machine", "descriptor"}
        /\ Using(m, d).machine = m /\ Using(m, d).descriptor = d
    BY DEF Using
  <1> QED
    BY <1>1 DEF Uses

(* A descriptor just opened, or closed.                                    *)
LEMMA DescIs ==
    /\ Closed \in Descs
    /\ \A n \in Nat, octets \in Rows : Descriptor(n, octets) \in Descs
    /\ \A d \in Descs : /\ d.cursor \in Nat /\ d.size \in Nat /\ d.file_buffer \in Rows
                        /\ d.modified \in BOOLEAN
  <1>1. NoOctets \in Rows /\ 0 \in Nat
    BY DEF NoOctets, Rows, Octet, InodesAssumption
  <1>2. Closed \in Descs
    BY <1>1, ClosedOf DEF Descs
  <1>3. \A n \in Nat, octets \in Rows : Descriptor(n, octets) \in Descs
    BY <1>1, DescriptorIs DEF Descs
  <1>4. \A d \in Descs : /\ d.cursor \in Nat /\ d.size \in Nat /\ d.file_buffer \in Rows
    BY DEF Descs, DescriptorsOf
  <1>5. \A d \in Descs : d.modified \in BOOLEAN
    BY DEF Descs, DescriptorsOf
  <1> QED
    BY <1>2, <1>3, <1>4, <1>5

(* open_ifile.                                                             *)
LEMMA OpenUses ==
    ASSUME Roomy, NEW m, NEW start, Fits(m, start), NEW i \in Bloc
    PROVE  Uses(OpenIfile(m, i), start) /\ OpenIfile(m, i).descriptor \in Descs
  <1> DEFINE r == VblocOfFbloc(m, i, 0)
             d == IF r.ok THEN Descriptor(r.disk[i].taille, OctetsFound(r)) ELSE Closed
  <1>1. OpenIfile(m, i) = Using(r, d)
    BY DEF OpenIfile, OnceFound
  <1>2. /\ Fits(r, start) /\ (r.ok => m.ok /\ OctetsFound(r) \in Rows)
        /\ r.ok => m.disk[i].kind = "inode"
    <2>1. \A a \in BOOLEAN : LET q == AuxVblocOfFbloc(m, i, 0, a)
                             IN  Fits(q, start) /\ (q.ok => m.ok /\ OctetsFound(q) \in Rows)
      BY AuxFits
    <2>2. Fits(r, start) /\ (r.ok => m.ok /\ OctetsFound(r) \in Rows)
      BY ONLY <2>1, Zenon DEF VblocOfFbloc
    <2>3. ASSUME m.disk[i].kind # "inode"
          PROVE  ~r.ok
      <3>1. r = Stopped(m)
        <4>1. \A a \in BOOLEAN : AuxVblocOfFbloc(m, i, 0, a) = Stopped(m)
          BY <2>3, AuxStops
        <4> QED
          BY ONLY <4>1, Zenon DEF VblocOfFbloc
      <3> QED
        BY <3>1, StoppedFits
    <2> QED
      BY <2>2, <2>3
  <1>3. r.disk = m.disk
    <2>1. DOMAIN m = Fields
      BY OnIs DEF Fits, Dead
    <2> QED
      BY <2>1, LookupLooks DEF LooksAt
  <1> HIDE DEF r
  <1>4. ASSUME r.ok
        PROVE  r.disk[i].taille \in Nat
    <2>1. PICK g \in start .. NSector : On(r, start, g, 0)
      BY <1>2, <1>4, RunningFits
    <2>2. r.disk[i].kind = "inode" /\ r.disk[i] \in Contents
      <3>1. Ordered(r.disk, g, 0)
        BY <2>1, OnIs
      <3> QED
        BY <1>2, <1>3, <1>4, <3>1, OrderedIs
    <2>3. r.disk[i].taille \in 0 .. MaxFbloc
      BY <2>2, InodeOf
    <2> QED
      BY <2>3, FblocIs
  <1>5. d \in Descs
    BY <1>2, <1>4, DescIs
  <1> HIDE DEF d
  <1> QED
    BY <1>1, <1>2, <1>5, UsingUses

(* flush_ifile.                                                            *)
LEMMA FlushFits ==
    ASSUME Roomy, NEW m, NEW start, Fits(m, start), NEW i \in Bloc,
           NEW d, m.ok => d \in Descs, d.cursor \in Nat \/ ~m.ok
    PROVE  Fits(FlushIfile(m, i, d), start) /\ (FlushIfile(m, i, d).ok => m.ok)
  <1> DEFINE k == PositionToFbloc(d.cursor)
             r == AllocateVblocOfFbloc(m, i, k)
             c == Data(d.file_buffer)
  <1>1. CASE ~d.modified
    BY <1>1 DEF FlushIfile
  <1>2. CASE d.modified /\ ~m.ok
    <2>1. r = Stopped(m)
      <3>1. \A a \in BOOLEAN : AuxVblocOfFbloc(m, i, k, a) = Stopped(m)
        BY <1>2, AuxStops
      <3> QED
        BY ONLY <3>1, Zenon DEF AllocateVblocOfFbloc
    <2>2. Fits(r, start) /\ ~r.ok
      BY <2>1, StoppedFits
    <2> HIDE DEF r, c
    <2>3. WriteFound(r, c) = r
      BY <2>2, StoppedWrites DEF WriteFound
    <2> QED
      BY <1>2, <2>2, <2>3 DEF FlushIfile, r, c
  <1>3. CASE d.modified /\ m.ok
    <2>1. k \in Nat /\ d.file_buffer \in Rows
      <3>1. d.cursor \in Nat /\ d.file_buffer \in Rows
        BY <1>3, DescIs
      <3>2. \A p \in Nat : PositionToFbloc(p) \in Nat
        BY PositionIs
      <3> QED
        BY ONLY <3>1, <3>2
    <2>2. PICK g \in start .. NSector : On(m, start, g, 0)
      BY <1>3, RunningFits
    <2> HIDE DEF k
    <2>3. Gives(r, start, g)
      <3>1. \A a \in BOOLEAN : Gives(AuxVblocOfFbloc(m, i, k, a), start, g)
        BY <2>1, <2>2, AuxOn
      <3> QED
        BY ONLY <3>1, Zenon DEF AllocateVblocOfFbloc
    <2>4. start \in 2 .. NSector /\ g \in 2 .. NSector
      BY <2>2, OnIs
    <2>5. \A h \in g .. NSector : Plain(c, h)
      BY <2>1, <2>4, PlainAre
    <2> HIDE DEF r, c
    <2>6. Gives(WriteFound(r, c), start, g)
      BY <2>3, <2>4, <2>5, GivesFound
    <2>7. FlushIfile(m, i, d) = WriteFound(r, c)
      BY <1>3 DEF FlushIfile, r, c, k
    <2> QED
      BY <1>3, <2>4, <2>6, <2>7, GivesFits
  <1> QED
    BY <1>1, <1>2, <1>3

(* seek2_ifile.                                                            *)
LEMMA SeekUses ==
    ASSUME Roomy, NEW m, NEW start, Fits(m, start), NEW i \in Bloc,
           NEW d, d \in Descs, NEW p \in Nat
    PROVE  /\ Uses(SeekIfile(m, i, d, p), start)
           /\ SeekIfile(m, i, d, p).machine.ok => m.ok
  <1> DEFINE f == FlushIfile(m, i, d)
             k == PositionToFbloc(p)
             r == AllocateVblocOfFbloc(f, i, k)
             u == SeekIfile(m, i, d, p)
  <1>1. CASE InSector(d, p)
    <2>1. u = Using(m, MovedIn(d, p))
      BY <1>1 DEF SeekIfile, MovedIn
    <2>2. MovedIn(d, p) \in Descs
      BY MovedInIs DEF Descs
    <2> QED
      BY <2>1, <2>2, UsingUses
  <1>2. CASE ~InSector(d, p)
    <2>1. u = MoveTo(r, d, p)
      BY <1>2 DEF SeekIfile
    <2>2. Fits(f, start) /\ (f.ok => m.ok)
      BY DescIs, FlushFits
    <2>3. k \in Nat
      BY PositionIs
    <2> HIDE DEF f, k, u
    <2>4. Fits(r, start) /\ (r.ok => f.ok /\ OctetsFound(r) \in Rows)
      <3>1. \A a \in BOOLEAN : LET q == AuxVblocOfFbloc(f, i, k, a)
                               IN  Fits(q, start) /\ (q.ok => f.ok /\ OctetsFound(q) \in Rows)
        BY <2>2, <2>3, AuxFits
      <3> QED
        BY ONLY <3>1, Zenon DEF AllocateVblocOfFbloc
    <2> HIDE DEF r
    <2>5. CASE r.ret = NULL_BLOC
      <3>1. u = Using(Stopped(r), d)
        BY <2>1, <2>5 DEF MoveTo
      <3>2. Fits(Stopped(r), start) /\ ~Stopped(r).ok
        BY <2>4, StoppedFits
      <3>3. Uses(Using(Stopped(r), d), start) /\ Using(Stopped(r), d).machine = Stopped(r)
        BY <3>2, UsingUses
      <3> QED
        BY <3>1, <3>2, <3>3 DEF u
    <2>6. CASE r.ret # NULL_BLOC
      <3> DEFINE e == Moved(d, p, OctetsFound(r))
      <3>1. u = Using(r, e)
        BY <2>1, <2>6 DEF MoveTo, Moved
      <3>2. r.ok => e \in Descs
        BY <2>4, MovedIs DEF Descs
      <3> HIDE DEF e
      <3>3. Uses(Using(r, e), start) /\ Using(r, e).machine = r
        BY <2>4, <3>2, UsingUses
      <3> QED
        BY <2>2, <2>4, <3>1, <3>3 DEF u
    <2> QED
      BY <2>5, <2>6
  <1> QED
    BY <1>1, <1>2

(* writec_ifile.                                                           *)
LEMMA WritecUses ==
    ASSUME Roomy, NEW m, NEW start, Fits(m, start), NEW i \in Bloc,
           NEW d \in Descs, NEW c \in Octet
    PROVE  /\ Uses(WritecIfile(m, i, d, c), start)
           /\ WritecIfile(m, i, d, c).machine.ok => m.ok
  <1> DEFINE o == WithOctet(d, c)
             e == Modified(d, o)
             p == d.cursor + 1
  <1>1. o \in Rows /\ p \in Nat
    <2>1. d.cursor \in Nat /\ d.file_buffer \in Rows
      BY DescIs
    <2>2. c \in Octet
      OBVIOUS
    <2>3. o \in Rows
      BY ONLY <2>1, <2>2 DEF WithOctet, Rows
    <2>4. p \in Nat
      BY ONLY <2>1
    <2> QED
      BY ONLY <2>3, <2>4
  <1> HIDE DEF o
  <1>2. e \in Descs
    BY <1>1, ModifiedIs DEF Descs
  <1>3. WritecIfile(m, i, d, c) = SeekIfile(m, i, e, p)
    BY <1>1, WritecIs DEF Descs, o
  <1> HIDE DEF e, p
  <1> QED
    BY <1>1, <1>2, <1>3, SeekUses
-----------------------------------------------------------------------------
(* The calls on a descriptor, by a program that goes on or has stopped.    *)

(* Whatever it is told, a program that has stopped stays so.               *)
LEMMA StoppedSeeks ==
    ASSUME NEW m, ~m.ok, NEW start, Fits(m, start), NEW i, NEW d, NEW p
    PROVE  /\ Fits(FlushIfile(m, i, d), start) /\ ~FlushIfile(m, i, d).ok
           /\ Uses(SeekIfile(m, i, d, p), start) /\ ~SeekIfile(m, i, d, p).machine.ok
           /\ OpenIfile(m, i) = Using(Stopped(m), Closed)
  <1>1. ASSUME NEW q, ~q.ok, Fits(q, start), NEW k
        PROVE  Fits(AllocateVblocOfFbloc(q, i, k), start) /\ ~AllocateVblocOfFbloc(q, i, k).ok
    <2>1. \A a \in BOOLEAN : AuxVblocOfFbloc(q, i, k, a) = Stopped(q)
      BY <1>1, AuxStops
    <2>2. AllocateVblocOfFbloc(q, i, k) = Stopped(q)
      BY ONLY <2>1, Zenon DEF AllocateVblocOfFbloc
    <2> QED
      BY <1>1, <2>2, StoppedFits
  <1>2. Fits(FlushIfile(m, i, d), start) /\ ~FlushIfile(m, i, d).ok
    <2>1. CASE ~d.modified
      BY <2>1 DEF FlushIfile
    <2>2. CASE d.modified
      <3> DEFINE k == PositionToFbloc(d.cursor)
                 r == AllocateVblocOfFbloc(m, i, k)
      <3>1. Fits(r, start) /\ ~r.ok
        BY <1>1
      <3>2. WriteFound(r, Data(d.file_buffer)) = r
        BY <3>1, StoppedWrites DEF WriteFound
      <3>3. FlushIfile(m, i, d) = WriteFound(r, Data(d.file_buffer))
        BY <2>2 DEF FlushIfile
      <3> QED
        BY ONLY <3>1, <3>2, <3>3
    <2> QED
      BY <2>1, <2>2
  <1>3. Uses(SeekIfile(m, i, d, p), start) /\ ~SeekIfile(m, i, d, p).machine.ok
    <2> DEFINE f == FlushIfile(m, i, d)
               r == AllocateVblocOfFbloc(f, i, PositionToFbloc(p))
    <2>1. Fits(r, start) /\ ~r.ok
      BY <1>1, <1>2
    <2>2. Fits(Stopped(r), start) /\ ~Stopped(r).ok
      BY <2>1, StoppedFits
    <2>3. \E q, e : SeekIfile(m, i, d, p) = Using(q, e) /\ q \in {m, Stopped(r), r}
      <3>1. CASE InSector(d, p)
        <4>1. SeekIfile(m, i, d, p) = Using(m, MovedIn(d, p))
          BY <3>1 DEF SeekIfile, MovedIn
        <4> QED
          BY <4>1
      <3>2. CASE ~InSector(d, p) /\ r.ret = NULL_BLOC
        <4>1. SeekIfile(m, i, d, p) = Using(Stopped(r), d)
          BY <3>2 DEF SeekIfile, MoveTo
        <4> QED
          BY <4>1
      <3>3. CASE ~InSector(d, p) /\ r.ret # NULL_BLOC
        <4>1. SeekIfile(m, i, d, p) = Using(r, Moved(d, p, OctetsFound(r)))
          BY <3>3 DEF SeekIfile, MoveTo, Moved
        <4> QED
          BY <4>1
      <3> QED
        BY <3>1, <3>2, <3>3
    <2> HIDE DEF r
    <2>4. PICK q, e : SeekIfile(m, i, d, p) = Using(q, e) /\ q \in {m, Stopped(r), r}
      BY <2>3
    <2>5. Fits(q, start) /\ ~q.ok
      BY <2>1, <2>2, <2>4
    <2>6. Uses(Using(q, e), start) /\ Using(q, e).machine = q
      BY <2>5, UsingUses
    <2> QED
      BY ONLY <2>4, <2>5, <2>6
  <1>4. OpenIfile(m, i) = Using(Stopped(m), Closed)
    <2>1. \A a \in BOOLEAN : AuxVblocOfFbloc(m, i, 0, a) = Stopped(m)
      BY AuxStops
    <2>2. VblocOfFbloc(m, i, 0) = Stopped(m)
      BY ONLY <2>1, Zenon DEF VblocOfFbloc
    <2>3. ~Stopped(m).ok
      BY StoppedFits
    <2> QED
      BY <2>2, <2>3 DEF OpenIfile, OnceFound
  <1> QED
    BY <1>2, <1>3, <1>4

(* flush_ifile and close_ifile.                                            *)
LEMMA FlushGoes ==
    ASSUME Roomy, NEW u, NEW start, Uses(u, start), NEW i, u.machine.ok => i \in Bloc
    PROVE  /\ Fits(CloseIfile(u, i), start)
           /\ CloseIfile(u, i).ok => u.machine.ok
  <1> DEFINE m == u.machine
             d == u.descriptor
  <1>1. Fits(m, start) /\ (m.ok => i \in Bloc /\ d \in Descs)
    BY DEF Uses
  <1>2. CloseIfile(u, i) = FlushIfile(m, i, d)
    BY DEF CloseIfile
  <1> HIDE DEF m, d
  <1>3. CASE ~m.ok
    <2>1. Fits(FlushIfile(m, i, d), start) /\ ~FlushIfile(m, i, d).ok
      BY <1>1, <1>3, StoppedSeeks
    <2> QED
      BY <1>2, <2>1
  <1>4. CASE m.ok
    <2>1. d.cursor \in Nat
      BY <1>1, <1>4, DescIs
    <2>2. Fits(FlushIfile(m, i, d), start)
      BY <1>1, <1>4, <2>1, FlushFits
    <2> QED
      BY <1>2, <1>4, <2>2 DEF m
  <1> QED
    BY <1>3, <1>4

(* open_ifile.                                                             *)
LEMMA OpenGoes ==
    ASSUME Roomy, NEW m, NEW start, Fits(m, start), NEW i, m.ok => i \in Bloc
    PROVE  /\ Uses(OpenIfile(m, i), start) /\ OpenIfile(m, i).descriptor \in Descs
           /\ OpenIfile(m, i).machine.ok => m.ok
  <1>1. CASE ~m.ok
    <2>1. OpenIfile(m, i) = Using(Stopped(m), Closed)
      BY <1>1, StoppedSeeks
    <2>2. Fits(Stopped(m), start) /\ ~Stopped(m).ok
      BY StoppedFits
    <2>3. Closed \in Descs
      BY DescIs
    <2>4. /\ Uses(Using(Stopped(m), Closed), start)
          /\ Using(Stopped(m), Closed).machine = Stopped(m)
          /\ Using(Stopped(m), Closed).descriptor = Closed
      BY <2>2, <2>3, UsingUses
    <2> QED
      BY ONLY <2>1, <2>2, <2>3, <2>4
  <1>2. CASE m.ok
    BY <1>2, OpenUses
  <1> QED
    BY <1>1, <1>2

(* Going on to the next octet.                                             *)
LEMMA AdvanceGoes ==
    ASSUME Roomy, NEW m, NEW start, Fits(m, start), NEW i, NEW d,
           m.ok => i \in Bloc /\ d \in Descs
    PROVE  /\ Uses(Advance(m, i, d), start)
           /\ m.ok => CurrentOctet(d) \in Octet
  <1> DEFINE p == d.cursor + 1
  <1>1. Advance(m, i, d) = SeekIfile(m, i, d, p)
    BY DEF Advance
  <1>2. CASE ~m.ok
    <2> HIDE DEF p
    <2>1. Uses(SeekIfile(m, i, d, p), start)
      BY <1>2, StoppedSeeks
    <2> QED
      BY <1>1, <1>2, <2>1
  <1>3. CASE m.ok
    <2>1. d.cursor \in Nat /\ d.file_buffer \in Rows /\ p \in Nat
      BY <1>3, DescIs
    <2>2. CurrentOctet(d) \in Octet
      <3>1. d.cursor % SECTOR \in 0 .. SECTOR - 1
        <4>1. \A x \in Nat : x % SECTOR \in 0 .. SECTOR - 1
          BY PositionIs
        <4>2. d.cursor \in Nat
          BY <2>1
        <4> QED
          BY ONLY <4>1, <4>2
      <3> QED
        BY ONLY <2>1, <3>1 DEF CurrentOctet, Rows
    <2> HIDE DEF p
    <2>3. Uses(SeekIfile(m, i, d, p), start)
      BY <1>3, <2>1, SeekUses
    <2> QED
      BY <1>1, <2>2, <2>3
  <1> QED
    BY <1>2, <1>3

(* writec_ifile.                                                           *)
LEMMA WritecGoes ==
    ASSUME Roomy, NEW m, NEW start, Fits(m, start), NEW i, NEW d, NEW c,
           m.ok => i \in Bloc /\ d \in Descs /\ c \in Octet
    PROVE  /\ Uses(WritecIfile(m, i, d, c), start)
           /\ WritecIfile(m, i, d, c).machine.ok => m.ok
  <1> DEFINE e == [d EXCEPT !.file_buffer[d.cursor % SECTOR] = c, !.modified = TRUE]
             p == e.cursor + 1
  <1>1. CASE ~m.ok
    <2>1. WritecIfile(m, i, d, c) = SeekIfile(m, i, e, p)
      BY DEF Advance, WritecIfile
    <2> HIDE DEF e, p
    <2>2. Uses(SeekIfile(m, i, e, p), start) /\ ~SeekIfile(m, i, e, p).machine.ok
      BY <1>1, StoppedSeeks
    <2> QED
      BY <2>1, <2>2
  <1>2. CASE m.ok
    BY <1>2, WritecUses
  <1> QED
    BY <1>1, <1>2
-----------------------------------------------------------------------------
(* Loops.  A loop is a row of states, each made from the one before.        *)

\* One turn of the loop that writes octets, that prints, and that copies.
Turned(loop, s, i, j, octets, k) ==
    CASE loop = "write" -> WritecIfile(s.machine, i, s.descriptor, octets[k])
      [] loop = "print" -> PrintTurn(s, i)
      [] OTHER          -> CopyTurn(s, i, j)

\* The states of a loop of n turns that starts in s.
Looped(loop, s, i, j, octets, n, g) ==
    g = [k \in 0 .. n |-> IF k = 0 THEN s ELSE Turned(loop, g[k - 1], i, j, octets, k)]

(* There is such a row of states.                                          *)
LEMMA LoopedIs ==
    ASSUME NEW loop, NEW s, NEW i, NEW j, NEW octets, NEW n \in Nat
    PROVE  \E g : Looped(loop, s, i, j, octets, n, g)
  <1> DEFINE T == { x \in Nat : \E g : Looped(loop, s, i, j, octets, x, g) }
  <1>1. 0 \in T
    <2> DEFINE g == [k \in 0 .. 0 |-> s]
    <2>1. g = [k \in 0 .. 0 |->
                 IF k = 0 THEN s ELSE Turned(loop, g[k - 1], i, j, octets, k)]
      OBVIOUS
    <2>2. Looped(loop, s, i, j, octets, 0, g)
      BY <2>1 DEF Looped
    <2> HIDE DEF g
    <2> QED
      BY <2>2
  <1>2. ASSUME NEW x \in Nat, x \in T
        PROVE  x + 1 \in T
    <2>1. PICK g : Looped(loop, s, i, j, octets, x, g)
      BY <1>2
    <2> DEFINE h == [k \in 0 .. x + 1 |->
                       IF k <= x THEN g[k] ELSE Turned(loop, g[x], i, j, octets, x + 1)]
               Step(k) == IF k = 0 THEN s ELSE Turned(loop, h[k - 1], i, j, octets, k)
    <2>2. ASSUME NEW k \in 0 .. x + 1
          PROVE  h[k] = Step(k)
      <3>1. CASE k = 0
        BY <2>1, <3>1 DEF Looped
      <3>2. CASE k # 0 /\ k <= x
        <4>1. k \in 0 .. x /\ k - 1 \in 0 .. x + 1 /\ k - 1 <= x
          BY <3>2
        <4>2. g[k] = Turned(loop, g[k - 1], i, j, octets, k)
          BY <2>1, <3>2, <4>1 DEF Looped
        <4> QED
          BY <3>2, <4>1, <4>2
      <3>3. CASE k = x + 1
        <4>1. x \in 0 .. x + 1 /\ k - 1 = x /\ k # 0 /\ ~(k <= x)
          BY <3>3
        <4> QED
          BY <3>3, <4>1
      <3> QED
        BY <3>1, <3>2, <3>3
    <2>3. h = [k \in 0 .. x + 1 |-> Step(k)]
      BY <2>2
    <2>4. Looped(loop, s, i, j, octets, x + 1, h)
      BY <2>3 DEF Looped
    <2> QED
      BY <2>4
  <1> HIDE DEF T
  <1>3. n \in T
    BY <1>1, <1>2, Induction
  <1> QED
    BY <1>3 DEF T

(* What holds before a loop and is kept by a turn holds behind it.         *)
LEMMA LoopKeeps ==
    ASSUME NEW loop, NEW s, NEW i, NEW j, NEW octets, NEW n \in Nat,
           NEW g, Looped(loop, s, i, j, octets, n, g),
           NEW P, \* the states in which it holds, of all those the loop meets
           s \in P,
           \A k \in 1 .. n : g[k - 1] \in P => Turned(loop, g[k - 1], i, j, octets, k) \in P
    PROVE  g[n] \in P
  <1> DEFINE T == { x \in Nat : x <= n => g[x] \in P }
  <1>1. 0 \in T
    BY DEF Looped
  <1>2. ASSUME NEW x \in Nat, x \in T
        PROVE  x + 1 \in T
    <2>1. CASE x + 1 <= n
      <3>1. x + 1 \in 1 .. n /\ (x + 1) - 1 = x /\ x <= n /\ x + 1 \in 0 .. n /\ x + 1 # 0
        BY <2>1
      <3>2. g[x + 1] = Turned(loop, g[x], i, j, octets, x + 1)
        BY <3>1 DEF Looped
      <3> QED
        BY <1>2, <3>1, <3>2
    <2> QED
      BY <2>1
  <1> HIDE DEF T
  <1>3. n \in T
    BY <1>1, <1>2, Induction
  <1> QED
    BY <1>3 DEF T

(* write_ifile.                                                            *)
LEMMA WriteComputes ==
    ASSUME NEW u, NEW i, NEW octets, Len(octets) \in Nat
    PROVE  \E g : /\ Looped("write", u, i, 0, octets, Len(octets), g)
                  /\ WriteIfile(u, i, octets) = g[Len(octets)]
  <1> DEFINE n == Len(octets)
             Wrote(v, c) == WritecIfile(v.machine, i, v.descriptor, c)
             wrote[k \in 0 .. n] == IF k = 0 THEN u ELSE Wrote(wrote[k - 1], octets[k])
  <1>1. WriteIfile(u, i, octets) = wrote[n]
    BY DEF WriteIfile
  <1>2. wrote = CHOOSE g : g = [k \in 0 .. n |->
                    IF k = 0 THEN u ELSE WritecIfile(g[k - 1].machine, i,
                                                     g[k - 1].descriptor, octets[k])]
    OBVIOUS
  <1>3. wrote = CHOOSE g : Looped("write", u, i, 0, octets, n, g)
    BY <1>2 DEF Looped, Turned
  <1> HIDE DEF wrote
  <1>4. Looped("write", u, i, 0, octets, n, wrote)
    BY <1>3, LoopedIs
  <1> QED
    BY <1>1, <1>4

(* The loop of if_pfile.                                                   *)
LEMMA PrintComputes ==
    ASSUME NEW u, NEW i, Turns(u.descriptor) \in Nat
    PROVE  \E g : /\ Looped("print", NothingRead(u), i, 0, << >>, Turns(u.descriptor), g)
                  /\ PrintLoop(u, i) = g[Turns(u.descriptor)]
  <1> DEFINE n == Turns(u.descriptor)
             s == NothingRead(u)
             read[k \in 0 .. n] == IF k = 0 THEN s ELSE PrintTurn(read[k - 1], i)
  <1>1. PrintLoop(u, i) = read[n]
    BY DEF PrintLoop
  <1>2. read = CHOOSE g : g = [k \in 0 .. n |->
                    IF k = 0 THEN s ELSE PrintTurn(g[k - 1], i)]
    OBVIOUS
  <1>3. read = CHOOSE g : Looped("print", s, i, 0, << >>, n, g)
    BY <1>2 DEF Looped, Turned
  <1> HIDE DEF read
  <1>4. Looped("print", s, i, 0, << >>, n, read)
    BY <1>3, LoopedIs
  <1> QED
    BY <1>1, <1>4

(* The loop of if_cfile.                                                   *)
LEMMA CopyComputes ==
    ASSUME NEW u, NEW i, NEW dest, NEW j, Turns(u.descriptor) \in Nat
    PROVE  \E g : /\ Looped("copy", Copying(NothingRead(u), dest), i, j, << >>,
                            Turns(u.descriptor), g)
                  /\ CopyLoop(u, i, dest, j) = g[Turns(u.descriptor)]
  <1> DEFINE n == Turns(u.descriptor)
             s == Copying(NothingRead(u), dest)
             copied[k \in 0 .. n] == IF k = 0 THEN s ELSE CopyTurn(copied[k - 1], i, j)
  <1>1. CopyLoop(u, i, dest, j) = copied[n]
    BY DEF CopyLoop
  <1>2. copied = CHOOSE g : g = [k \in 0 .. n |->
                    IF k = 0 THEN s ELSE CopyTurn(g[k - 1], i, j)]
    OBVIOUS
  <1>3. copied = CHOOSE g : Looped("copy", s, i, j, << >>, n, g)
    BY <1>2 DEF Looped, Turned
  <1> HIDE DEF copied
  <1>4. Looped("copy", s, i, j, << >>, n, copied)
    BY <1>3, LoopedIs
  <1> QED
    BY <1>1, <1>4
-----------------------------------------------------------------------------
(* What the loops leave.                                                   *)

(* write_ifile.                                                            *)
LEMMA WriteGoes ==
    ASSUME Roomy, NEW u, NEW start, Uses(u, start), NEW i, u.machine.ok => i \in Bloc,
           NEW octets \in Seq(Octet)
    PROVE  /\ Uses(WriteIfile(u, i, octets), start)
           /\ WriteIfile(u, i, octets).machine.ok => i \in Bloc
  <1> DEFINE n == Len(octets)
  <1>1. n \in Nat /\ \A k \in 1 .. n : octets[k] \in Octet
    BY LenProperties, ElementOfSeq
  <1>2. PICK g : Looped("write", u, i, 0, octets, n, g) /\ WriteIfile(u, i, octets) = g[n]
    BY <1>1, WriteComputes
  <1> DEFINE P == { x \in { g[k] : k \in 0 .. n } \cup {u} :
                      Uses(x, start) /\ (x.machine.ok => i \in Bloc) }
  <1>3. u \in P
    OBVIOUS
  <1>4. ASSUME NEW k \in 1 .. n, g[k - 1] \in P
        PROVE  Turned("write", g[k - 1], i, 0, octets, k) \in P
    <2> DEFINE x == g[k - 1]
               y == Turned("write", x, i, 0, octets, k)
               m == x.machine
               d == x.descriptor
               c == octets[k]
    <2>1. /\ Fits(m, start) /\ (m.ok => i \in Bloc /\ d \in Descs) /\ c \in Octet
      BY <1>1, <1>4 DEF Uses
    <2>2. y = WritecIfile(m, i, d, c)
      BY DEF Turned
    <2>3. y = g[k]
      BY <1>1, <1>2 DEF Looped
    <2> HIDE DEF m, d, c
    <2>4. Uses(WritecIfile(m, i, d, c), start) /\ (WritecIfile(m, i, d, c).machine.ok => m.ok)
      BY <2>1, WritecGoes
    <2> HIDE DEF y
    <2>5. Uses(y, start) /\ (y.machine.ok => i \in Bloc) /\ y \in { g[l] : l \in 0 .. n }
      BY <1>1, <2>1, <2>2, <2>3, <2>4
    <2> QED
      BY <2>5 DEF y
  <1> HIDE DEF P
  <1>5. g[n] \in P
    BY <1>1, <1>2, <1>3, <1>4, LoopKeeps
  <1> QED
    BY <1>2, <1>5 DEF P

\* A file that is read: inode i, and what was read of it.
Reads(read, start, i) ==
    /\ DOMAIN read = {"use", "octets", "eof"}
    /\ Uses(read.use, start) /\ (read.use.machine.ok => i \in Bloc)
    /\ read.octets \in Seq(Octet)

(* Nothing is read yet.                                                    *)
LEMMA NothingReads ==
    ASSUME NEW u, NEW start, Uses(u, start), NEW i, u.machine.ok => i \in Bloc
    PROVE  Reads(NothingRead(u), start, i) /\ NothingRead(u).use = u
  <1>1. << >> \in Seq(Octet)
    OBVIOUS
  <1>2. /\ DOMAIN NothingRead(u) = {"use", "octets", "eof"}
        /\ NothingRead(u).use = u /\ NothingRead(u).octets = << >>
    BY DEF NothingRead
  <1> QED
    BY <1>1, <1>2 DEF Reads

(* One octet more is read.                                                 *)
LEMMA ReadGoes ==
    ASSUME Roomy, NEW read, NEW start, NEW i, Reads(read, start, i), read.use.machine.ok
    PROVE  /\ Reads(ReadOn(read, i), start, i)
           /\ ReadOn(read, i).eof \/ ReadOn(read, i).octets # << >>
  <1> DEFINE m == read.use.machine
             d == read.use.descriptor
             r == ReadOn(read, i)
             o == CurrentOctet(d)
             v == Advance(m, i, d)
  <1>1. /\ Fits(m, start) /\ i \in Bloc /\ d \in Descs
        /\ read.octets \in Seq(Octet)
    BY DEF Reads, Uses
  <1>2. CASE read.eof \/ AtEnd(d)
    <2>1. r = [read EXCEPT !.eof = TRUE]
      BY <1>2 DEF ReadOn
    <2>2. DOMAIN r = DOMAIN read /\ r.use = read.use /\ r.octets = read.octets /\ r.eof
      BY <2>1 DEF Reads
    <2> HIDE DEF r
    <2>3. Reads(r, start, i)
      BY <2>2 DEF Reads
    <2> QED
      BY <2>2, <2>3 DEF r
  <1>3. CASE ~(read.eof \/ AtEnd(d))
    <2>1. r = [use |-> v, octets |-> Append(read.octets, o), eof |-> FALSE]
      BY <1>3 DEF ReadOn
    <2> HIDE DEF m, d, r
    <2>2. Uses(v, start) /\ (m.ok => o \in Octet)
      BY <1>1, AdvanceGoes
    <2>3. o \in Octet
      BY <2>2 DEF m
    <2> HIDE DEF v, o
    <2>4. Append(read.octets, o) \in Seq(Octet) /\ Append(read.octets, o) # << >>
      BY <1>1, <2>3, AppendProperties
    <2>5. /\ DOMAIN r = {"use", "octets", "eof"} /\ r.use = v
          /\ r.octets = Append(read.octets, o)
      BY <2>1
    <2>6. Reads(r, start, i) /\ r.octets # << >>
      BY <1>1, <2>2, <2>4, <2>5 DEF Reads
    <2> QED
      BY <2>6 DEF r
  <1> QED
    BY <1>2, <1>3

(* The loop of if_pfile.                                                   *)
LEMMA PrintGoes ==
    ASSUME Roomy, NEW u, NEW start, Uses(u, start), u.descriptor \in Descs,
           NEW i, u.machine.ok => i \in Bloc
    PROVE  Reads(PrintLoop(u, i), start, i)
  <1> DEFINE n == Turns(u.descriptor)
             s == NothingRead(u)
  <1>1. n \in Nat
    <2>1. u.descriptor.size \in Nat
      BY DescIs
    <2> DEFINE z == u.descriptor.size
    <2>2. z * SECTOR \in Nat
      BY <2>1
    <2> QED
      BY <2>2 DEF Turns
  <1>2. PICK g : Looped("print", s, i, 0, << >>, n, g) /\ PrintLoop(u, i) = g[n]
    BY <1>1, PrintComputes
  <1> HIDE DEF n
  <1> DEFINE P == { x \in { g[k] : k \in 0 .. n } \cup {s} : Reads(x, start, i) }
  <1>3. s \in P
    BY NothingReads
  <1>4. ASSUME NEW k \in 1 .. n, g[k - 1] \in P
        PROVE  Turned("print", g[k - 1], i, 0, << >>, k) \in P
    <2> DEFINE x == g[k - 1]
               y == Turned("print", x, i, 0, << >>, k)
    <2>1. Reads(x, start, i)
      BY <1>4
    <2>2. y = PrintTurn(x, i)
      BY DEF Turned
    <2>3. y = g[k]
      BY <1>1, <1>2 DEF Looped
    <2> HIDE DEF x, y
    <2>4. Reads(y, start, i)
      <3>1. CASE LoopEnds(x)
        BY <2>1, <2>2, <3>1 DEF PrintTurn
      <3>2. CASE ~LoopEnds(x)
        <4>1. x.use.machine.ok /\ y = ReadOn(x, i)
          BY <2>2, <3>2 DEF PrintTurn, LoopEnds
        <4> QED
          BY <2>1, <4>1, ReadGoes
      <3> QED
        BY <3>1, <3>2
    <2>5. y \in P
      BY <1>1, <2>3, <2>4
    <2> QED
      BY <2>5 DEF x, y
  <1> HIDE DEF P
  <1>5. g[n] \in P
    <2> HIDE DEF s
    <2> QED
      BY <1>1, <1>2, <1>3, <1>4, LoopKeeps DEF s
  <1> QED
    BY <1>2, <1>5 DEF P

\* A file that is copied: from inode i, to inode j.
Copies(c, start, i, j) ==
    /\ DOMAIN c = {"read", "dest"}
    /\ Reads(c.read, start, i)
    /\ c.read.use.machine.ok => c.dest \in Descs /\ j \in Bloc

(* A copy under way.                                                       *)
LEMMA CopyingCopies ==
    ASSUME NEW read, NEW start, NEW i, Reads(read, start, i), NEW dest, NEW j,
           read.use.machine.ok => dest \in Descs /\ j \in Bloc
    PROVE  Copies(Copying(read, dest), start, i, j)
  <1>1. /\ DOMAIN Copying(read, dest) = {"read", "dest"}
        /\ Copying(read, dest).read = read /\ Copying(read, dest).dest = dest
    BY DEF Copying
  <1> QED
    BY <1>1 DEF Copies

(* One octet more is copied.                                               *)
LEMMA CopyTurnGoes ==
    ASSUME Roomy, NEW c, NEW start, NEW i, NEW j, Copies(c, start, i, j)
    PROVE  Copies(CopyTurn(c, i, j), start, i, j)
  <1>1. CASE LoopEnds(c.read)
    BY <1>1 DEF CopyTurn
  <1>2. CASE ~LoopEnds(c.read)
    <2> DEFINE r == ReadOn(c.read, i)
               d == c.dest
               m == r.use.machine
               w == WritecIfile(m, j, d, Last(r.octets))
               q == [r EXCEPT !.use.machine = w.machine]
    <2>1. CopyTurn(c, i, j) = CopyOctet(r, d, j)
      BY <1>2 DEF CopyTurn
    <2>2. c.read.use.machine.ok /\ d \in Descs /\ j \in Bloc /\ Reads(c.read, start, i)
      BY <1>2 DEF LoopEnds, Copies
    <2>3. Reads(r, start, i) /\ (r.eof \/ r.octets # << >>)
      BY <2>2, ReadGoes
    <2> HIDE DEF r, d
    <2>4. CASE LoopEnds(r)
      <3>1. CopyOctet(r, d, j) = Copying(r, d)
        BY <2>4 DEF CopyOctet
      <3> QED
        BY <2>1, <2>2, <2>3, <3>1, CopyingCopies
    <2>5. CASE ~LoopEnds(r)
      <3>1. CopyOctet(r, d, j) = Copying(q, w.descriptor)
        BY <2>5 DEF CopyOctet
      <3>2. m.ok /\ r.octets # << >> /\ r.octets \in Seq(Octet)
        BY <2>3, <2>5 DEF LoopEnds, Reads
      <3>3. Last(r.octets) \in Octet
        <4> DEFINE s == r.octets
        <4>1. s \in Seq(Octet) /\ s # << >>
          BY <3>2
        <4> HIDE DEF s
        <4>2. Len(s) \in 1 .. Len(s)
          BY <4>1, EmptySeq, LenProperties
        <4>3. s[Len(s)] \in Octet
          BY <4>1, <4>2, ElementOfSeq
        <4> QED
          BY <4>3 DEF Last, s
      <3>4. /\ DOMAIN r = {"use", "octets", "eof"} /\ DOMAIN r.use = {"machine", "descriptor"}
            /\ Fits(m, start) /\ r.use.descriptor \in Descs /\ i \in Bloc
        BY <2>3, <3>2 DEF Reads, Uses
      <3> DEFINE o == Last(r.octets)
      <3> HIDE DEF m, o
      <3>5. Uses(w, start)
        <4>1. o \in Octet
          BY <3>3 DEF o
        <4>2. Uses(WritecIfile(m, j, d, o), start)
          BY <2>2, <3>4, <4>1, WritecGoes
        <4> QED
          BY <4>2 DEF o
      <3> HIDE DEF w
      <3>6. /\ DOMAIN q = {"use", "octets", "eof"} /\ DOMAIN q.use = {"machine", "descriptor"}
            /\ q.use.machine = w.machine /\ q.use.descriptor = r.use.descriptor
            /\ q.octets = r.octets
        BY <3>4
      <3> HIDE DEF q
      <3>7. Reads(q, start, i)
        BY <3>2, <3>4, <3>5, <3>6 DEF Reads, Uses
      <3>8. q.use.machine.ok => w.descriptor \in Descs /\ j \in Bloc
        BY <2>2, <3>5, <3>6 DEF Uses
      <3> QED
        BY <2>1, <3>1, <3>7, <3>8, CopyingCopies
    <2> QED
      BY <2>4, <2>5
  <1> QED
    BY <1>1, <1>2

(* The loop of if_cfile.                                                   *)
LEMMA CopyGoes ==
    ASSUME Roomy, NEW u, NEW start, Uses(u, start), u.descriptor \in Descs,
           NEW i, u.machine.ok => i \in Bloc,
           NEW dest, NEW j, u.machine.ok => dest \in Descs /\ j \in Bloc
    PROVE  Copies(CopyLoop(u, i, dest, j), start, i, j)
  <1> DEFINE n == Turns(u.descriptor)
             s == Copying(NothingRead(u), dest)
  <1>1. n \in Nat
    <2>1. u.descriptor.size \in Nat
      BY DescIs
    <2> DEFINE z == u.descriptor.size
    <2>2. z * SECTOR \in Nat
      BY <2>1
    <2> QED
      BY <2>2 DEF Turns
  <1>2. PICK g : Looped("copy", s, i, j, << >>, n, g) /\ CopyLoop(u, i, dest, j) = g[n]
    BY <1>1, CopyComputes
  <1> HIDE DEF n
  <1> DEFINE P == { x \in { g[k] : k \in 0 .. n } \cup {s} : Copies(x, start, i, j) }
  <1>3. s \in P
    BY NothingReads, CopyingCopies
  <1>4. ASSUME NEW k \in 1 .. n, g[k - 1] \in P
        PROVE  Turned("copy", g[k - 1], i, j, << >>, k) \in P
    <2> DEFINE x == g[k - 1]
               y == Turned("copy", x, i, j, << >>, k)
    <2>1. Copies(x, start, i, j)
      BY <1>4
    <2>2. y = CopyTurn(x, i, j)
      BY DEF Turned
    <2>3. y = g[k]
      BY <1>1, <1>2 DEF Looped
    <2> HIDE DEF x, y
    <2>4. Copies(y, start, i, j)
      BY <2>1, <2>2, CopyTurnGoes
    <2>5. y \in P
      BY <1>1, <2>3, <2>4
    <2> QED
      BY <2>5 DEF x, y
  <1> HIDE DEF P
  <1>5. g[n] \in P
    <2> HIDE DEF s
    <2> QED
      BY <1>1, <1>2, <1>3, <1>4, LoopKeeps DEF s
  <1> QED
    BY <1>2, <1>5 DEF P
-----------------------------------------------------------------------------
(* What a command leaves on the machine it starts with.                    *)

\* A machine that can neither open a file nor make one.
Unable(m) ==
    /\ DOMAIN m = Fields /\ m.ok \in BOOLEAN /\ m.disk = Before
    /\ \A i \in Bloc : ~m.ok \/ m.disk[i].kind # "inode" \/ m.super = NoSuper
    /\ \/ ~m.ok \/ m.super = NoSuper
       \/ m.super.nb_free_blc # 0 /\ m.disk[m.super.first_free].kind # "free"

\* What load_super leaves.
Starts(m, start) == Unable(m) \/ On(m, start, start, 0)

(* A machine that stops where it started.                                  *)
LEMMA UnableDies ==
    ASSUME NEW m, Unable(m)
    PROVE  Dead(Stopped(m)) /\ ~Stopped(m).ok /\ (~m.ok => Dead(m))
  <1>1. DOMAIN m = Fields /\ m.disk = Before
    BY DEF Unable
  <1>2. /\ DOMAIN Stopped(m) = Fields /\ Stopped(m).disk = m.disk /\ Stopped(m).ok = FALSE
    BY ONLY <1>1 DEF Stopped, Fields
  <1>3. m.ok \in BOOLEAN
    BY DEF Unable
  <1>4. Dead(Stopped(m)) /\ ~Stopped(m).ok
    BY ONLY <1>1, <1>2 DEF Dead
  <1>5. ~m.ok => Dead(m)
    BY ONLY <1>1, <1>3 DEF Dead
  <1> QED
    BY <1>4, <1>5

(* create_inode of a command.                                              *)
LEMMA CreateFits ==
    ASSUME Roomy, NEW m, NEW start, Starts(m, start), NEW type \in Types \cup {"DIRECTORY"}
    PROVE  /\ Fits(CreateIfile(m, type), start)
           /\ CreateIfile(m, type).ok => CreateIfile(m, type).ret \in Bloc
  <1> DEFINE r == CreateIfile(m, type)
             c == Inode(type, 0, NoBlocs, NULL_BLOC, NULL_BLOC)
  <1>1. CASE Unable(m)
    <2>1. r = Stopped(m) \/ (~m.ok /\ r = m)
      <3>1. CASE m.super = NoSuper
        BY <3>1 DEF CreateIfile
      <3>2. CASE m.super # NoSuper
        <4> DEFINE q == NewBloc(m)
        <4>1. r = WriteFound(q, c)
          BY <3>2 DEF CreateIfile, CreateInode
        <4>2. (~m.ok /\ q = m) \/ q = Stopped(m)
          BY <1>1, <3>2 DEF Unable, NewBloc
        <4>3. ~q.ok
          BY <1>1, <4>2, UnableDies
        <4> HIDE DEF q
        <4>4. WriteFound(q, c) = q
          BY <4>3, StoppedWrites DEF WriteFound
        <4> QED
          BY <4>1, <4>2, <4>4
      <3> QED
        BY <3>1, <3>2
    <2> HIDE DEF r
    <2>2. Dead(r) /\ ~r.ok
      BY <1>1, <2>1, UnableDies
    <2> QED
      BY <2>2 DEF Fits, r
  <1>2. CASE On(m, start, start, 0)
    <2>1. start \in 2 .. NSector /\ start \in start .. NSector /\ m.super # NoSuper
      BY <1>2, OnIs
    <2>2. r = WriteFound(NewBloc(m), c)
      BY <2>1 DEF CreateIfile, CreateInode
    <2>3. New(NewBloc(m), start, start)
      BY <1>2, NewBlocOn
    <2>4. \A g \in start .. NSector : Plain(c, g)
      <3> TAKE g \in start .. NSector
      <3>1. g \in 2 .. NSector
        BY <2>1
      <3>2. NULL_BLOC \in Num(g) /\ NoBlocs \in [Index -> Num(g)] /\ 0 \in 0 .. MaxFbloc
        BY <3>1, NumIs, FblocIs DEF NoBlocs
      <3> QED
        BY <3>1, <3>2, PlainInode
    <2> DEFINE q == NewBloc(m)
    <2> HIDE DEF q, c
    <2>5. Gives(WriteFound(q, c), start, start)
      BY <2>1, <2>3, <2>4, NewFound DEF q
    <2>6. Gives(r, start, start)
      BY <2>2, <2>5 DEF q
    <2> HIDE DEF r
    <2>7. Fits(r, start)
      BY <2>1, <2>6, GivesFits
    <2>8. r.ok => r.ret \in Bloc
      <3>1. PICK g \in start .. NSector : r.ok => r.ret \in Num(g)
        BY <2>6 DEF Gives
      <3>2. Num(g) \subseteq Bloc
        BY <2>1, NumIs
      <3> QED
        BY <3>1, <3>2
    <2> QED
      BY <2>7, <2>8 DEF r
  <1> QED
    BY <1>1, <1>2 DEF Starts

(* open_ifile of a command.                                                *)
LEMMA OpenStarts ==
    ASSUME Roomy, NEW m, NEW start, Starts(m, start), NEW i \in Bloc
    PROVE  Uses(OpenIfile(m, i), start) /\ OpenIfile(m, i).descriptor \in Descs
  <1>1. CASE Unable(m)
    <2>1. ~m.ok \/ m.disk[i].kind # "inode" \/ m.super = NoSuper
      BY <1>1 DEF Unable
    <2>2. \A a \in BOOLEAN : AuxVblocOfFbloc(m, i, 0, a) = Stopped(m)
      BY <2>1, AuxStops
    <2>3. VblocOfFbloc(m, i, 0) = Stopped(m)
      BY ONLY <2>2, Zenon DEF VblocOfFbloc
    <2>4. Dead(Stopped(m)) /\ ~Stopped(m).ok
      BY <1>1, UnableDies
    <2>5. OpenIfile(m, i) = Using(Stopped(m), Closed)
      BY <2>3, <2>4 DEF OpenIfile, OnceFound
    <2>6. Fits(Stopped(m), start)
      BY <2>4 DEF Fits
    <2>7. Uses(Using(Stopped(m), Closed), start) /\ Using(Stopped(m), Closed).descriptor = Closed
      BY <2>6, DescIs, UsingUses
    <2> QED
      BY <2>5, <2>7, DescIs
  <1>2. CASE On(m, start, start, 0)
    <2>1. start \in start .. NSector
      BY <1>2, OnIs
    <2>2. Fits(m, start)
      BY <1>2, <2>1 DEF Fits
    <2> QED
      BY <2>2, OpenUses
  <1> QED
    BY <1>1, <1>2 DEF Starts

(* What if_nfile does, from where the file is open.                        *)
LEMMA FillOpenFits ==
    ASSUME Roomy, NEW m, NEW start, NEW i, Uses(OpenIfile(m, i), start),
           OpenIfile(m, i).machine.ok => i \in Bloc, NEW input \in Seq(Octet)
    PROVE  Fits(Fill(m, i, input), start)
  <1> DEFINE u == OpenIfile(m, i)
             w == WriteIfile(u, i, input)
  <1>1. Uses(u, start) /\ (u.machine.ok => i \in Bloc)
    OBVIOUS
  <1> HIDE DEF u
  <1>2. Roomy /\ input \in Seq(Octet)
    OBVIOUS
  <1>3. Uses(WriteIfile(u, i, input), start) /\ (WriteIfile(u, i, input).machine.ok => i \in Bloc)
    BY ONLY <1>1, <1>2, WriteGoes
  <1>4. Uses(w, start) /\ (w.machine.ok => i \in Bloc)
    BY <1>3
  <1> HIDE DEF w
  <1>5. Fits(CloseIfile(w, i), start)
    BY <1>4, FlushGoes
  <1> QED
    BY <1>5 DEF Fill, w, u

(* What it does once the inode is made.                                    *)
LEMMA FillFits ==
    ASSUME Roomy, NEW m, NEW start, Fits(m, start), NEW i, m.ok => i \in Bloc,
           NEW input \in Seq(Octet)
    PROVE  Fits(Fill(m, i, input), start)
  <1>1. Uses(OpenIfile(m, i), start) /\ (OpenIfile(m, i).machine.ok => i \in Bloc)
    BY OpenGoes
  <1> QED
    BY <1>1, FillOpenFits

(* if_cfile, from where the source is open.                                *)
LEMMA CopyToFits ==
    ASSUME Roomy, NEW m, NEW start, NEW i \in Bloc, NEW j,
           Uses(OpenIfile(m, i), start), OpenIfile(m, i).descriptor \in Descs,
           OpenIfile(m, i).machine.ok => j \in Bloc
    PROVE  Fits(CopyTo(m, i, j), start)
  <1> DEFINE src  == OpenIfile(m, i)
             dest == OpenIfile(src.machine, j)
             u    == Using(dest.machine, src.descriptor)
             c    == CopyLoop(u, i, dest.descriptor, j)
             v    == Using(c.read.use.machine, c.dest)
  <1>1. CopyTo(m, i, j) = CloseIfile(v, j)
    BY DEF CopyTo
  <1>2. Fits(src.machine, start) /\ src.descriptor \in Descs /\ (src.machine.ok => j \in Bloc)
    BY DEF Uses
  <1> HIDE DEF src
  <1>3. /\ Uses(dest, start) /\ dest.descriptor \in Descs
        /\ dest.machine.ok => src.machine.ok
    BY <1>2, OpenGoes
  <1> HIDE DEF dest
  <1>4. Uses(u, start) /\ u.machine = dest.machine /\ u.descriptor = src.descriptor
    <2>1. Fits(dest.machine, start)
      BY <1>3 DEF Uses
    <2> QED
      BY <1>2, <2>1, UsingUses
  <1> HIDE DEF u
  <1>5. /\ u.descriptor \in Descs
        /\ u.machine.ok => i \in Bloc
        /\ u.machine.ok => dest.descriptor \in Descs /\ j \in Bloc
    BY <1>2, <1>3, <1>4
  <1>6. Copies(c, start, i, j)
    BY <1>4, <1>5, CopyGoes
  <1> HIDE DEF c
  <1>7. /\ Fits(c.read.use.machine, start)
        /\ c.read.use.machine.ok => c.dest \in Descs /\ j \in Bloc
    BY <1>6 DEF Copies, Reads, Uses
  <1>8. Uses(v, start) /\ v.machine = c.read.use.machine
    BY <1>7, UsingUses
  <1> HIDE DEF v
  <1>9. Fits(CloseIfile(v, j), start)
    BY <1>7, <1>8, FlushGoes
  <1> QED
    BY <1>1, <1>9

(* if_pfile.                                                               *)
LEMMA PrintFits ==
    ASSUME Roomy, NEW m, NEW start, Starts(m, start), NEW i \in Bloc,
           NEW read, read = PrintLoop(OpenIfile(m, i), i)
    PROVE  /\ Fits(read.use.machine, start)
           /\ \A k \in DOMAIN Displayed(read) : Displayed(read)[k] \in Octet
  <1> DEFINE u == OpenIfile(m, i)
  <1>1. Uses(u, start) /\ u.descriptor \in Descs /\ (u.machine.ok => i \in Bloc)
    BY OpenStarts
  <1> HIDE DEF u
  <1>2. Reads(PrintLoop(u, i), start, i)
    BY <1>1, PrintGoes
  <1>3. Reads(read, start, i)
    BY <1>2 DEF u
  <1>4. Fits(read.use.machine, start) /\ read.octets \in Seq(Octet)
    BY <1>3 DEF Reads, Uses
  <1> DEFINE s == read.octets
             t == Displayed(read)
  <1>5. t = s \/ (s # << >> /\ t = Front(s))
    BY DEF Displayed
  <1> HIDE DEF s, t
  <1>6. t \in Seq(Octet)
    <2>1. s \in Seq(Octet)
      BY <1>4 DEF s
    <2>2. CASE s # << >> /\ t = Front(s)
      <3>1. Len(s) \in Nat /\ 1 \in Int /\ Len(s) - 1 <= Len(s) /\ Len(s) - 1 \in Int
        BY <2>1, LenProperties
      <3>2. \A k \in 1 .. Len(s) - 1 : s[k] \in Octet
        BY <2>1, <3>1, ElementOfSeq
      <3>3. SubSeq(s, 1, Len(s) - 1) \in Seq(Octet)
        BY <2>1, <3>1, <3>2, SubSeqProperties
      <3> QED
        BY <2>2, <3>3 DEF Front
    <2> QED
      BY <1>5, <2>1, <2>2
  <1>7. \A k \in DOMAIN t : t[k] \in Octet
    BY <1>6, ElementOfSeq, LenProperties
  <1> QED
    BY <1>4, <1>7 DEF t
-----------------------------------------------------------------------------
(* delete_ifile stays within the volume.                                   *)

\* The machine m of an if_dfile: no bloc names one behind the volume.
Deleting(m) ==
    /\ DOMAIN m = Fields /\ m.ok \in BOOLEAN /\ m.disk \in [Bloc -> Contents]
    /\ m.super = NoSuper \/ (m.super \in Contents /\ m.super.kind = "super")
    /\ m.disk[NSector] = Before[NSector] /\ m.disk[NSector].kind # "inode"
    /\ \A b \in 0 .. NSector - 1 :
          Plain(m.disk[b], NSector) \/ m.disk[b].kind \in {"super", "free"}

\* q looked at the disk of m and has found a bloc of the volume.
FindsBloc(m, q) ==
    LooksAt(m, q) /\ q.ok \in BOOLEAN /\ (q.ok => q.ret \in 0 .. NSector - 1)

(* The numbers in the inodes and the tables.                               *)
LEMMA DeletingNames ==
    ASSUME NEW m, Deleting(m)
    PROVE  /\ \A i \in Bloc : m.disk[i].kind = "inode" =>
                 /\ i \in 0 .. NSector - 1
                 /\ m.disk[i].taille \in Nat
                 /\ m.disk[i].indirect \in 0 .. NSector - 1
                 /\ m.disk[i].double \in 0 .. NSector - 1
                 /\ \A k \in Index : m.disk[i].direct[k] \in 0 .. NSector - 1
           /\ \A t \in 0 .. NSector - 1 : IsTable(m.disk[t]) =>
                 \A k \in Index : Entries(m.disk[t])[k] \in 0 .. NSector - 1
  <1>1. NSector \in 2 .. NSector
    BY NSectorAssumption
  <1>2. Num(NSector) \subseteq 0 .. NSector - 1
    BY <1>1, NumIs
  <1>3. ASSUME NEW i \in Bloc, m.disk[i].kind = "inode"
        PROVE  /\ i \in 0 .. NSector - 1
               /\ m.disk[i].taille \in Nat
               /\ m.disk[i].indirect \in 0 .. NSector - 1
               /\ m.disk[i].double \in 0 .. NSector - 1
               /\ \A k \in Index : m.disk[i].direct[k] \in 0 .. NSector - 1
    <2>1. i \in 0 .. NSector - 1
      BY <1>3 DEF Deleting, Bloc
    <2>2. Plain(m.disk[i], NSector)
      BY <1>3, <2>1 DEF Deleting
    <2> DEFINE n == m.disk[i]
    <2>3. /\ n \in Contents /\ n.kind = "inode"
          /\ n.direct \in [Index -> Num(NSector)]
          /\ n.indirect \in Num(NSector) /\ n.double \in Num(NSector)
      BY <1>3, <2>2 DEF Plain
    <2> HIDE DEF n
    <2>4. n.taille \in Nat
      <3>1. n.taille \in 0 .. MaxFbloc
        BY <2>3, InodeOf
      <3> QED
        BY <3>1, FblocIs
    <2>5. \A k \in Index : n.direct[k] \in Num(NSector)
      BY <2>3
    <2> QED
      BY <1>2, <2>1, <2>3, <2>4, <2>5 DEF n
  <1>4. ASSUME NEW t \in 0 .. NSector - 1, IsTable(m.disk[t]), NEW k \in Index
        PROVE  Entries(m.disk[t])[k] \in 0 .. NSector - 1
    <2>1. Plain(m.disk[t], NSector)
      BY <1>4 DEF Deleting, IsTable
    <2>2. Entries(m.disk[t]) \in [Index -> Num(NSector)]
      BY <1>1, <1>4, <2>1, EntriesPlain
    <2> QED
      BY <1>2, <2>2
  <1> QED
    BY <1>3, <1>4

(* To stop, or to answer with a bloc of the volume.                        *)
LEMMA AnswerFinds ==
    ASSUME NEW m, NEW q, LooksAt(m, q), q.ok \in BOOLEAN
    PROVE  /\ FindsBloc(m, Stopped(q))
           /\ \A v \in 0 .. NSector - 1 : /\ FindsBloc(m, Return(q, v))
                                          /\ Return(q, v).ret = v
  <1>1. DOMAIN q = Fields
    BY DEF LooksAt
  <1>2. Stopped(q).ok = FALSE /\ \A v : Return(q, v).ret = v /\ Return(q, v).ok = q.ok
    BY ONLY <1>1 DEF Stopped, Return, Fields
  <1>3. ~Stopped(q).ok /\ Stopped(q).ok \in BOOLEAN
    BY ONLY <1>2
  <1> QED
    BY <1>2, <1>3, AnswerLooks DEF FindsBloc

(* The entry of a table.                                                   *)
LEMMA EntryFinds ==
    ASSUME NEW m, Deleting(m), NEW q, FindsBloc(m, q), NEW x \in Index, NEW a \in BOOLEAN, ~a
    PROVE  FindsBloc(m, IndirectEntry(q, q.ret, x, a))
  <1> DEFINE v == Entries(q.disk[q.ret])[x]
             r == IndirectEntry(q, q.ret, x, a)
  <1>1. /\ LooksAt(m, q) /\ q.disk = m.disk /\ q.ok \in BOOLEAN
        /\ q.ok => q.ret \in 0 .. NSector - 1
    BY DEF FindsBloc, LooksAt
  <1>2. CASE ~q.ok \/ ~IsTable(q.disk[q.ret])
    <2>1. r = Stopped(q)
      BY <1>2 DEF IndirectEntry
    <2> QED
      BY <1>1, <2>1, AnswerFinds
  <1>3. CASE q.ok /\ IsTable(q.disk[q.ret])
    <2>1. v \in 0 .. NSector - 1 /\ NULL_BLOC \in 0 .. NSector - 1
      BY <1>1, <1>3, DeletingNames, NSectorAssumption DEF NULL_BLOC
    <2>2. r = Return(q, v) \/ r = Return(q, NULL_BLOC)
      BY <1>3 DEF IndirectEntry
    <2> HIDE DEF v, r
    <2> QED
      BY <1>1, <2>1, <2>2, AnswerFinds DEF r
  <1> QED
    BY <1>2, <1>3

(* The entry of a level 2 table.                                           *)
LEMMA DoubleEntryFinds ==
    ASSUME NEW m, Deleting(m), NEW q, FindsBloc(m, q), NEW i, NEW n, NEW k,
           NEW x \in Index, NEW a \in BOOLEAN, ~a
    PROVE  FindsBloc(m, DoubleEntry(q, i, n, q.ret, k, x, a))
  <1> DEFINE v == Entries(q.disk[q.ret])[x]
             r == DoubleEntry(q, i, n, q.ret, k, x, a)
  <1>1. /\ LooksAt(m, q) /\ q.disk = m.disk /\ q.ok \in BOOLEAN
        /\ q.ok => q.ret \in 0 .. NSector - 1
    BY DEF FindsBloc, LooksAt
  <1>2. CASE ~q.ok \/ ~IsTable(q.disk[q.ret])
    <2>1. r = Stopped(q)
      BY <1>2 DEF DoubleEntry
    <2> QED
      BY <1>1, <2>1, AnswerFinds
  <1>3. CASE q.ok /\ IsTable(q.disk[q.ret])
    <2>1. v \in 0 .. NSector - 1 /\ NULL_BLOC \in 0 .. NSector - 1
      BY <1>1, <1>3, DeletingNames, NSectorAssumption DEF NULL_BLOC
    <2>2. r = Return(q, v) \/ r = Return(q, NULL_BLOC)
      BY <1>3 DEF DoubleEntry
    <2> HIDE DEF v, r
    <2> QED
      BY <1>1, <2>1, <2>2, AnswerFinds DEF r
  <1> QED
    BY <1>2, <1>3

(* aux_vbloc_of_fbloc, when it does not allocate.                          *)
LEMMA AuxFinds ==
    ASSUME NEW m, Deleting(m), NEW i \in Bloc, NEW k \in Nat, NEW a \in BOOLEAN, ~a
    PROVE  FindsBloc(m, AuxVblocOfFbloc(m, i, k, a))
  <1> DEFINE r == AuxVblocOfFbloc(m, i, k, a)
             n == m.disk[i]
             N == NULL_BLOC
  <1>1. LooksAt(m, m) /\ m.ok \in BOOLEAN /\ N \in 0 .. NSector - 1
    BY NSectorAssumption DEF LooksAt, Deleting, NULL_BLOC
  <1>2. FindsBloc(m, Stopped(m)) /\ FindsBloc(m, Return(m, N))
    BY <1>1, AnswerFinds
  <1>3. CASE ~m.ok \/ n.kind # "inode" \/ m.super = NoSuper
    BY <1>2, <1>3, AuxStops
  <1>4. CASE ~(~m.ok \/ n.kind # "inode" \/ m.super = NoSuper)
    <2> USE <1>4
    <2>1. /\ n.indirect \in 0 .. NSector - 1 /\ n.double \in 0 .. NSector - 1
          /\ \A x \in Index : n.direct[x] \in 0 .. NSector - 1
      BY DeletingNames
    <2>2. NB_BLOCS \in Nat \ {0} /\ MaxFbloc \in Nat /\ 2 * NB_BLOCS \in Nat
      BY FblocIs, InodesAssumption
    <2>3. CASE k < NB_BLOCS
      <3>1. k \in Index
        BY <2>2, <2>3 DEF Index
      <3>2. r = Direct(m, i, k, a)
        BY <2>3 DEF AuxVblocOfFbloc
      <3>3. r = Return(m, n.direct[k]) \/ r = Return(m, N)
        BY <3>2 DEF Direct
      <3> HIDE DEF r, n
      <3> QED
        BY <1>1, <1>2, <2>1, <3>1, <3>3, AnswerFinds DEF r
    <2>4. CASE ~(k < NB_BLOCS) /\ k < 2 * NB_BLOCS
      <3> DEFINE x == k - NB_BLOCS
                 q == Return(m, n.indirect)
      <3>1. x \in Index
        BY <2>2, <2>4 DEF Index
      <3>2. r = Indirect(m, i, k, a)
        BY <2>4 DEF AuxVblocOfFbloc
      <3>3. r = Return(m, N) \/ r = IndirectEntry(q, q.ret, x, a)
        BY <3>2 DEF Indirect
      <3>4. FindsBloc(m, q)
        BY <1>1, <2>1, AnswerFinds
      <3> HIDE DEF r, q, x
      <3> QED
        BY <1>2, <3>1, <3>3, <3>4, EntryFinds DEF r
    <2>5. CASE ~(k < NB_BLOCS) /\ ~(k < 2 * NB_BLOCS) /\ k < MaxFbloc
      <3> DEFINE y == ((k - NB_BLOCS) \div NB_BLOCS) - 1
                 z == (k - NB_BLOCS * 2) - y * NB_BLOCS
                 e == Entries(m.disk[n.double])[y]
                 t == Shifted(e)
                 q == Return(m, t)
      <3>1. y \in Index /\ z \in Index
        <4>1. k \in 2 * NB_BLOCS .. MaxFbloc - 1
          BY <2>2, <2>5
        <4> QED
          BY <4>1, IndicesAre
      <3>2. r = Double(m, i, k, a)
        BY <2>5 DEF AuxVblocOfFbloc
      <3>3. r = Return(m, N) \/ r = DoubleTable(m, i, n, n.double, k, a)
        BY <3>2 DEF Double
      <3>4. CASE ~IsTable(m.disk[n.double])
        <4> HIDE DEF n, t, z
        <4>1. DoubleTable(m, i, n, n.double, k, a) = Stopped(m)
          BY <3>4 DEF DoubleTable
        <4> QED
          BY <1>2, <3>3, <4>1
      <3>5. CASE IsTable(m.disk[n.double])
        <4>1. e \in 0 .. NSector - 1
          <5> HIDE DEF y
          <5> QED
            BY <2>1, <3>1, <3>5, DeletingNames
        <4>2. t \in 0 .. NSector - 1
          <5> HIDE DEF e
          <5>1. e \in Nat /\ e < NSector
            BY <4>1, NSectorAssumption
          <5>2. t \in 0 .. e
            BY <5>1, ShiftedIs
          <5> HIDE DEF t
          <5> QED
            BY <5>1, <5>2, NSectorAssumption
        <4>3. \/ DoubleTable(m, i, n, n.double, k, a) = Return(m, N)
              \/ DoubleTable(m, i, n, n.double, k, a) = DoubleEntry(q, i, n, q.ret, k, z, a)
          <5>1. m.ok /\ IsTable(m.disk[n.double]) /\ ~a
            BY <3>5
          <5>2. CASE t = NULL_BLOC
            BY ONLY <5>1, <5>2 DEF DoubleTable, Shifted
          <5>3. CASE t # NULL_BLOC
            BY ONLY <5>1, <5>3 DEF DoubleTable, Shifted
          <5> QED
            BY <5>2, <5>3
        <4> HIDE DEF t
        <4>4. FindsBloc(m, q)
          BY <1>1, <4>2, AnswerFinds
        <4> HIDE DEF q, z, n
        <4>5. FindsBloc(m, DoubleEntry(q, i, n, q.ret, k, z, a))
          <5>1. Deleting(m) /\ FindsBloc(m, q) /\ z \in Index /\ a \in BOOLEAN /\ ~a
            BY <3>1, <4>4
          <5> QED
            BY ONLY <5>1, DoubleEntryFinds
        <4> QED
          BY <1>2, <3>3, <4>3, <4>5
      <3> QED
        BY <3>4, <3>5
    <2>6. CASE ~(k < NB_BLOCS) /\ ~(k < 2 * NB_BLOCS) /\ ~(k < MaxFbloc)
      <3>1. r = Return(m, N)
        BY <2>6 DEF AuxVblocOfFbloc
      <3> QED
        BY <1>2, <3>1
    <2> QED
      BY <2>3, <2>4, <2>5, <2>6
  <1> QED
    BY <1>3, <1>4

(* A bloc of the volume is written.                                        *)
LEMMA WriteDeletes ==
    ASSUME NEW m, Deleting(m), NEW b \in 0 .. NSector - 1,
           NEW c \in Contents, Plain(c, NSector) \/ c.kind \in {"super", "free"}
    PROVE  Deleting(WriteBloc(m, b, c))
  <1> DEFINE r == WriteBloc(m, b, c)
  <1>1. CASE ~m.ok
    BY <1>1, StoppedWrites
  <1>2. CASE m.ok
    <2>1. Running(m) /\ m.ok \in BOOLEAN
      BY <1>2 DEF Deleting, Running
    <2>2. Running(r) /\ r.disk = Put(m.disk, b, c) /\ r.super = m.super
      BY ONLY <2>1, WriteIs
    <2>3. r.ok \in BOOLEAN
      <3>1. r.ok = m.ok
        BY ONLY <2>1 DEF WriteBloc, Running, Fields
      <3> QED
        BY <2>1, <3>1
    <2>4. m.disk \in [Bloc -> Contents] /\ c \in Contents
      BY DEF Deleting
    <2>5. NSector \in Bloc /\ NSector # b /\ b \in Bloc /\ \A x \in 0 .. NSector - 1 : x \in Bloc
      BY NSectorAssumption DEF Bloc
    <2>6. /\ Put(m.disk, b, c) \in [Bloc -> Contents]
          /\ \A x \in Bloc : Put(m.disk, b, c)[x] = IF x = b THEN c ELSE m.disk[x]
      BY ONLY <2>4, <2>5 DEF Put
    <2> HIDE DEF r
    <2>7. Deleting(r)
      BY <2>2, <2>3, <2>5, <2>6 DEF Deleting, Running
    <2> QED
      BY <2>7 DEF r
  <1> QED
    BY <1>1, <1>2

(* free_bloc.                                                              *)
LEMMA FreeDeletes ==
    ASSUME NEW m, Deleting(m), NEW b, m.ok => b \in 0 .. NSector - 1
    PROVE  Deleting(FreeBloc(m, b))
  <1> DEFINE l == IF m.super = NoSuper THEN LoadSuper(m) ELSE m
             old == l.super
             s == Super(old.root, old.nb_free_blc + 1, b)
             p == [l EXCEPT !.super = s]
             f == FreeBlc(1, old.first_free)
  <1>1. DOMAIN m = Fields /\ m.ok \in BOOLEAN /\ m.disk[0] \in Contents
    BY NSectorAssumption DEF Deleting, Bloc
  <1>2. /\ DOMAIN l = Fields /\ l.disk = m.disk
        /\ l.ok \in BOOLEAN /\ (l.ok => m.ok)
        /\ l.super = m.super \/ (l.super = m.disk[0] /\ m.disk[0].kind = "super")
        /\ l.ok => l.super # NoSuper
    <2>1. CASE m.super = NoSuper /\ m.disk[0].kind = "super"
      <3>1. l = [m EXCEPT !.super = m.disk[0]]
        BY <2>1 DEF LoadSuper
      <3> HIDE DEF l
      <3>2. DOMAIN l = Fields /\ l.disk = m.disk /\ l.ok = m.ok /\ l.super = m.disk[0]
        BY ONLY <1>1, <3>1 DEF Fields
      <3> QED
        BY <1>1, <2>1, <3>2 DEF NoSuper
    <2>2. CASE m.super = NoSuper /\ m.disk[0].kind # "super"
      <3>1. l = Stopped(m)
        BY <2>2 DEF LoadSuper
      <3> HIDE DEF l
      <3>2. DOMAIN l = Fields /\ l.disk = m.disk /\ l.ok = FALSE /\ l.super = m.super
        BY ONLY <1>1, <3>1 DEF Stopped, Fields
      <3>3. l.ok \in BOOLEAN /\ ~l.ok
        BY ONLY <3>2
      <3> QED
        BY <3>2, <3>3
    <2>3. CASE m.super # NoSuper
      <3>1. l = m
        BY <2>3
      <3> QED
        BY <1>1, <2>3, <3>1
    <2> QED
      BY <2>1, <2>2, <2>3
  <1>3. Deleting(l) /\ (l.ok => b \in 0 .. NSector - 1)
    <2> HIDE DEF l
    <2> QED
      BY <1>1, <1>2 DEF Deleting
  <1>4. FreeBloc(m, b) = IF ~l.ok THEN l
                         ELSE WriteBloc(CleanBloc(SaveSuper(p), b), b, f)
    BY DEF FreeBloc
  <1> HIDE DEF l
  <1>5. CASE ~l.ok
    BY <1>3, <1>4, <1>5
  <1>6. CASE l.ok
    <2>1. old \in Contents /\ old.kind = "super"
      BY <1>2, <1>3, <1>6 DEF Deleting
    <2>2. old.root \in Bloc /\ old.nb_free_blc + 1 \in Nat /\ old.first_free \in Bloc
      BY <2>1 DEF Contents, Zero
    <2>3. b \in 0 .. NSector - 1 /\ b \in Bloc
      BY <1>3, <1>6, NSectorAssumption DEF Bloc
    <2>4. s \in Contents /\ s.kind = "super"
      <3>1. s.kind = "super"
        BY DEF Super
      <3> QED
        BY <2>2, <2>3, <3>1 DEF Contents, Super
    <2>5. f \in Contents /\ f.kind = "free"
      BY <2>2 DEF Contents, FreeBlc
    <2>6. Zero \in Contents /\ Plain(Zero, NSector)
      <3>1. NSector \in 2 .. NSector
        BY NSectorAssumption
      <3> QED
        BY <3>1, PlainAre, ContentsAre
    <2> HIDE DEF s, f
    <2>7. DOMAIN p = Fields /\ p.disk = l.disk /\ p.super = s /\ p.ok = l.ok
      BY <1>2 DEF Fields
    <2> HIDE DEF p
    <2>8. Deleting(p)
      BY <1>2, <1>3, <2>4, <2>7 DEF Deleting
    <2>9. Deleting(SaveSuper(p))
      BY <2>4, <2>7, <2>8, WriteDeletes, NSectorAssumption DEF SaveSuper
    <2>10. Deleting(CleanBloc(SaveSuper(p), b))
      BY <2>3, <2>6, <2>9, WriteDeletes DEF CleanBloc
    <2>11. Deleting(WriteBloc(CleanBloc(SaveSuper(p), b), b, f))
      BY <2>3, <2>5, <2>10, WriteDeletes
    <2> QED
      BY <1>4, <1>6, <2>11
  <1> QED
    BY <1>5, <1>6

(* delete_ifile does not write to the bloc behind the volume, and what it   *)
(* leaves is of the right types.                                           *)
LEMMA DeleteStays ==
    ASSUME NEW m, Deleting(m), NEW i \in Bloc
    PROVE  Deleting(DeleteIfile(m, i))
  <1>1. CASE m.disk[i].kind # "inode"
    <2>1. DeleteIfile(m, i) = Stopped(m)
      BY <1>1 DEF DeleteIfile
    <2> DEFINE r == Stopped(m)
    <2>2. DOMAIN m = Fields
      BY DEF Deleting
    <2>3. DOMAIN r = Fields /\ r.ok = FALSE /\ r.disk = m.disk /\ r.super = m.super
      BY ONLY <2>2 DEF Stopped, Fields
    <2>4. r.ok \in BOOLEAN
      BY ONLY <2>3
    <2> HIDE DEF r
    <2>5. Deleting(r)
      BY <2>3, <2>4 DEF Deleting
    <2> QED
      BY <2>1, <2>5 DEF r
  <1>2. CASE m.disk[i].kind = "inode"
    <2> DEFINE n == m.disk[i].taille
    <2>1. i \in 0 .. NSector - 1 /\ n \in Nat
      BY <1>2, DeletingNames
    <2>2. PICK g : Freed(m, i, n, g) /\ DeleteIfile(m, i) = FreeBloc(g[n], i)
      BY <1>2, <2>1, DeleteComputes
    <2> HIDE DEF n
    <2> DEFINE T == { k \in Nat : k <= n => Deleting(g[k]) }
    <2>3. 0 \in T
      BY <2>1, <2>2 DEF Freed
    <2>4. ASSUME NEW k \in Nat, k \in T
          PROVE  k + 1 \in T
      <3>1. CASE k + 1 <= n
        <4> DEFINE r == g[k]
                   q == VblocOfFbloc(r, i, k)
        <4>1. k + 1 \in 0 .. n /\ k + 1 # 0 /\ (k + 1) - 1 = k /\ k <= n
          BY <2>1, <3>1
        <4>2. g[k + 1] = FreeNext(r, i, k)
          BY <2>2, <4>1 DEF Freed
        <4>3. Deleting(r)
          BY <2>4, <4>1
        <4> HIDE DEF r
        <4>4. FindsBloc(r, q)
          <5>1. \A a \in BOOLEAN : ~a => FindsBloc(r, AuxVblocOfFbloc(r, i, k, a))
            BY <4>3, AuxFinds
          <5>2. FindsBloc(r, AuxVblocOfFbloc(r, i, k, FALSE))
            BY ONLY <5>1, Zenon
          <5> QED
            BY ONLY <5>2, Zenon DEF VblocOfFbloc
        <4>5. FreeNext(r, i, k) = FreeBloc(q, q.ret)
          BY DEF FreeNext
        <4> HIDE DEF q
        <4>6. Deleting(q) /\ (q.ok => q.ret \in 0 .. NSector - 1)
          BY <4>3, <4>4 DEF FindsBloc, LooksAt, Deleting
        <4>7. Deleting(FreeBloc(q, q.ret))
          BY <4>6, FreeDeletes
        <4> QED
          BY <4>2, <4>5, <4>7 DEF r
      <3> QED
        BY <3>1
    <2> HIDE DEF T
    <2>5. n \in T
      BY <2>1, <2>3, <2>4, Induction
    <2>6. Deleting(g[n])
      BY <2>1, <2>5 DEF T
    <2>7. Deleting(FreeBloc(g[n], i))
      BY <2>1, <2>6, FreeDeletes
    <2> QED
      BY <2>2, <2>7
  <1> QED
    BY <1>1, <1>2
-----------------------------------------------------------------------------
(* The volumes.                                                            *)

\* What the commands before the first if_dfile leave on the disk.
Stored(volumes) ==
    /\ volumes \in [Volumes -> [0 .. NSector - 1 -> Contents]]
    /\ volumes[0] = Blank \/ \E first \in 2 .. NSector : Ordered(DiskOf(volumes), first, 0)
    /\ \A v \in Volumes \ {0} : volumes[v][0] \in FirstBlocs

(***************************************************************************)
(* Where a command starts: the blocs of volume 0 below start were handed    *)
(* out.  On a volume that was not formatted there is none to hand out.      *)
(***************************************************************************)
Whence(start) == (vols[0] = Blank /\ start = NSector) \/ Ordered(Before, start, 0)

(* The table of the volumes, and the blocs.                                *)
LEMMA VolumesAre ==
    /\ 0 \in Volumes /\ 1 \in Volumes /\ vol_courant = 0 /\ NVol \in Nat
    /\ 0 \in 0 .. NSector - 1 /\ 1 \in 0 .. NSector - 1 /\ NSector \in Bloc /\ 0 \in Bloc
    /\ \A b \in 0 .. NSector - 1 : b \in Bloc /\ b < NSector /\ b # NSector
    /\ \A b \in Bloc : b # NSector => b \in 0 .. NSector - 1 /\ b < NSector
    /\ ~(NSector < NSector)
  BY CommandsAssumption, NSectorAssumption DEF Volumes, vol_courant, Bloc

(* Where a command starts there is something to start from.                *)
LEMMA WhenceIs ==
    ASSUME Stored(vols)
    PROVE  /\ \E start \in 2 .. NSector : Whence(start)
  <1>1. NSector \in 2 .. NSector
    BY NSectorAssumption
  <1> QED
    BY <1>1 DEF Stored, Whence, Before

(* The blocs of vol_courant.                                               *)
LEMMA DiskOfIs ==
    ASSUME NEW volumes, volumes \in [Volumes -> [0 .. NSector - 1 -> Contents]]
    PROVE  /\ DiskOf(volumes) \in [Bloc -> Contents]
           /\ \A b \in 0 .. NSector - 1 : DiskOf(volumes)[b] = volumes[0][b]
           /\ DiskOf(volumes)[NSector] = volumes[1][0]
  <1> DEFINE d == DiskOf(volumes)
  <1>1. d = [b \in Bloc |-> IF b < NSector THEN volumes[0][b] ELSE volumes[1][0]]
    BY VolumesAre DEF DiskOf
  <1> HIDE DEF d
  <1>2. /\ \A b \in 0 .. NSector - 1 : d[b] = volumes[0][b]
        /\ d[NSector] = volumes[1][0]
    <2>1. \A b \in 0 .. NSector - 1 : b \in Bloc /\ b < NSector
      BY VolumesAre
    <2>2. \A b \in 0 .. NSector - 1 : d[b] = volumes[0][b]
      BY ONLY <1>1, <2>1
    <2>3. NSector \in Bloc /\ ~(NSector < NSector)
      BY VolumesAre
    <2>4. d[NSector] = volumes[1][0]
      BY ONLY <1>1, <2>3
    <2> QED
      BY <2>2, <2>4
  <1>3. ASSUME NEW b \in Bloc
        PROVE  d[b] \in Contents
    <2>1. (d[b] = volumes[0][b] /\ b \in 0 .. NSector - 1) \/ d[b] = volumes[1][0]
      BY <1>2, VolumesAre
    <2>2. volumes[0] \in [0 .. NSector - 1 -> Contents]
      BY VolumesAre
    <2>3. volumes[1] \in [0 .. NSector - 1 -> Contents]
      BY VolumesAre
    <2> QED
      BY <2>1, <2>2, <2>3, VolumesAre
  <1>4. DOMAIN d = Bloc /\ d = [b \in Bloc |-> d[b]]
    BY <1>1
  <1>5. d \in [Bloc -> Contents]
    BY <1>3, <1>4
  <1> QED
    BY <1>2, <1>5 DEF d

(* The volumes once the blocs of vol_courant are written back.             *)
LEMMA VolumesOfIs ==
    ASSUME NEW volumes, volumes \in [Volumes -> [0 .. NSector - 1 -> Contents]],
           NEW d \in [Bloc -> Contents]
    PROVE  /\ VolumesOf(volumes, d) \in [Volumes -> [0 .. NSector - 1 -> Contents]]
           /\ DiskOf(VolumesOf(volumes, d)) = d
           /\ \A b \in 0 .. NSector - 1 : VolumesOf(volumes, d)[0][b] = d[b]
           /\ VolumesOf(volumes, d)[1][0] = d[NSector]
           /\ \A v \in Volumes \ {0}, b \in 0 .. NSector - 1 :
                 ~(v = 1 /\ b = 0) => VolumesOf(volumes, d)[v][b] = volumes[v][b]
           /\ d = DiskOf(volumes) => VolumesOf(volumes, d) = volumes
  <1> DEFINE S == 0 .. NSector - 1
             f == [b \in S |-> d[b]]
             g == [volumes[1] EXCEPT ![0] = d[NSector]]
             w == VolumesOf(volumes, d)
  <1>1. f \in [S -> Contents] /\ \A b \in S : f[b] = d[b]
    BY VolumesAre
  <1>2. volumes[1] \in [S -> Contents] /\ volumes[0] \in [S -> Contents] /\ d[NSector] \in Contents
    BY VolumesAre
  <1>3. /\ g \in [S -> Contents] /\ g[0] = d[NSector]
        /\ \A b \in S : b # 0 => g[b] = volumes[1][b]
    BY <1>2, VolumesAre
  <1>4. w = [[volumes EXCEPT ![0] = f] EXCEPT ![1] = g]
    <2>1. w = [volumes EXCEPT ![0] = f, ![1][0] = d[NSector]]
      BY DEF VolumesOf, vol_courant
    <2>2. [volumes EXCEPT ![0] = f][1] = volumes[1]
      BY VolumesAre
    <2> HIDE DEF f, w
    <2> QED
      BY <2>1, <2>2
  <1> HIDE DEF f, g, w
  <1>5. /\ DOMAIN w = Volumes /\ w[0] = f /\ w[1] = g
        /\ \A v \in Volumes : v # 0 /\ v # 1 => w[v] = volumes[v]
        /\ w = [v \in Volumes |-> w[v]]
    <2>1. \A v \in Volumes : w[v] = IF v = 1 THEN g ELSE IF v = 0 THEN f ELSE volumes[v]
      BY <1>4
    <2>2. DOMAIN w = Volumes /\ w = [v \in Volumes |-> w[v]]
      <3> DEFINE e == [volumes EXCEPT ![0] = f]
      <3>1. e \in [Volumes -> [S -> Contents]]
        BY <1>1, VolumesAre
      <3>2. w = [e EXCEPT ![1] = g]
        BY <1>4
      <3> HIDE DEF e
      <3>3. w \in [Volumes -> [S -> Contents]]
        BY <1>3, <3>1, <3>2, VolumesAre
      <3> QED
        BY <3>3
    <2>3. w[0] = f /\ w[1] = g
      BY <2>1, VolumesAre
    <2> QED
      BY <2>1, <2>2, <2>3
  <1>6. \A v \in Volumes : w[v] \in [S -> Contents]
    <2> TAKE v \in Volumes
    <2>1. volumes[v] \in [S -> Contents]
      OBVIOUS
    <2>2. w[v] = f \/ w[v] = g \/ w[v] = volumes[v]
      BY ONLY <1>5
    <2>3. f \in [S -> Contents] /\ g \in [S -> Contents]
      BY <1>1, <1>3
    <2> HIDE DEF S
    <2> QED
      BY ONLY <2>1, <2>2, <2>3
  <1>7. w \in [Volumes -> [S -> Contents]]
    BY <1>5, <1>6
  <1>8. /\ \A b \in S : w[0][b] = d[b]
        /\ w[1][0] = d[NSector]
    BY <1>1, <1>3, <1>5
  <1>9. DiskOf(w) = d
    <2>1. /\ DiskOf(w) \in [Bloc -> Contents]
          /\ \A b \in S : DiskOf(w)[b] = w[0][b]
          /\ DiskOf(w)[NSector] = w[1][0]
      BY <1>7, DiskOfIs
    <2>2. \A b \in Bloc : DiskOf(w)[b] = d[b]
      BY <1>8, <2>1, VolumesAre
    <2> QED
      BY <2>1, <2>2
  <1>10. \A v \in Volumes \ {0}, b \in S : ~(v = 1 /\ b = 0) => w[v][b] = volumes[v][b]
    BY <1>3, <1>5
  <1>11. ASSUME d = DiskOf(volumes)
         PROVE  w = volumes
    <2>1. /\ \A b \in S : d[b] = volumes[0][b]
          /\ d[NSector] = volumes[1][0]
      BY <1>11, DiskOfIs
    <2>2. f = volumes[0]
      BY <1>1, <1>2, <2>1
    <2>3. g = volumes[1]
      BY <1>2, <1>3, <2>1
    <2>4. \A v \in Volumes : w[v] = volumes[v]
      BY <1>5, <2>2, <2>3
    <2> QED
      BY <1>5, <2>4
  <1> QED
    BY <1>7, <1>8, <1>9, <1>10, <1>11 DEF w

(* load_super.                                                             *)
LEMMA LoadedStarts ==
    ASSUME Stored(vols), NEW start, Whence(start), NEW v
    PROVE  Starts(Loaded(vols, v), start)
  <1> DEFINE m == Machine(Before, NoSuper)
             l == [m EXCEPT !.super = vols[v][0]]
             r == Loaded(vols, v)
  <1>1. /\ DOMAIN m = Fields /\ m.ok /\ m.ok \in BOOLEAN
        /\ m.disk = Before /\ m.super = NoSuper
    BY DEF Machine, Fields
  <1>2. /\ v \notin Volumes => r = m
        /\ v \in Volumes /\ vols[v][0].kind # "super" => r = Stopped(m)
        /\ v \in Volumes /\ vols[v][0].kind = "super" => r = l
    BY DEF Loaded, Before
  <1> HIDE DEF m, r
  <1>3. CASE v \notin Volumes
    <2>1. Unable(m)
      BY <1>1 DEF Unable
    <2> QED
      BY <1>2, <1>3, <2>1 DEF Starts, r
  <1>4. CASE v \in Volumes /\ vols[v][0].kind # "super"
    <2> DEFINE s == Stopped(m)
    <2>1. DOMAIN s = Fields /\ s.ok = FALSE /\ s.disk = m.disk
      BY <1>1 DEF Stopped, Fields
    <2> HIDE DEF s
    <2>2. s.ok \in BOOLEAN /\ ~s.ok
      BY ONLY <2>1
    <2>3. Unable(s)
      BY <1>1, <2>1, <2>2 DEF Unable
    <2> QED
      BY <1>2, <1>4, <2>3 DEF Starts, r, s
  <1>5. CASE v \in Volumes /\ vols[v][0].kind = "super"
    <2>1. /\ DOMAIN l = Fields /\ l.ok /\ l.ok \in BOOLEAN
          /\ l.disk = Before /\ l.super = vols[v][0]
      <3>1. DOMAIN l = Fields /\ l.ok = m.ok /\ l.disk = m.disk /\ l.super = vols[v][0]
        BY ONLY <1>1 DEF Fields
      <3> QED
        BY ONLY <1>1, <3>1
    <2>2. /\ \A b \in 0 .. NSector - 1 : Before[b] = vols[0][b]
          /\ Before[NSector] = vols[1][0]
      BY DiskOfIs DEF Stored, Before
    <2>3. \A u \in Volumes \ {0} : vols[u][0] \in FirstBlocs
      BY DEF Stored
    <2>4. /\ Zero.kind = "zero" /\ Header.kind = "free" /\ OtherSuper.kind = "super"
          /\ OtherSuper.nb_free_blc = NSector - 1 /\ OtherSuper.first_free = 1
      BY DEF Zero, Header, FreeBlc, OtherSuper, Super
    <2>5. v # 0 => vols[v][0] = OtherSuper
      BY <1>5, <2>3, <2>4 DEF FirstBlocs
    <2> HIDE DEF l
    <2>6. CASE vols[0] = Blank
      <3>1. \A b \in 0 .. NSector - 1 : Before[b] = Zero
        BY <2>2, <2>6 DEF Blank
      <3>2. vols[1][0] \in FirstBlocs
        BY <2>3, VolumesAre
      <3>3. \A i \in Bloc : l.disk[i].kind # "inode"
        BY <2>1, <2>2, <2>4, <3>1, <3>2, VolumesAre DEF FirstBlocs
      <3>4. v # 0
        BY <1>5, <2>4, <2>6, VolumesAre DEF Blank
      <3>5. l.super.nb_free_blc # 0 /\ l.disk[l.super.first_free].kind # "free"
        BY <2>1, <2>4, <2>5, <3>1, <3>4, VolumesAre, NSectorAssumption
      <3>6. Unable(l)
        BY <2>1, <3>3, <3>5 DEF Unable
      <3> QED
        BY <1>2, <1>5, <3>6 DEF Starts, r
    <2>7. CASE vols[0] # Blank
      <3>1. Ordered(Before, start, 0)
        BY <2>7 DEF Whence
      <3>2. start \in 2 .. NSector /\ start <= start
        BY <3>1 DEF Ordered
      <3>3. v = 0 => OwnSuper(vols[v][0], start)
        BY <1>5, <2>2, <3>1, VolumesAre DEF Ordered, Plain
      <3>4. On(l, start, start, 0)
        BY <2>1, <2>5, <3>1, <3>2, <3>3 DEF On
      <3> QED
        BY <1>2, <1>5, <3>4 DEF Starts, r
    <2> QED
      BY <2>6, <2>7
  <1> QED
    BY <1>3, <1>4, <1>5
-----------------------------------------------------------------------------
(* What the end of a command leaves.                                       *)

\* The last bloc of volume 0 was taken on the way to the volumes w.
Took(w) ==
    /\ disk0[0].kind = "super" /\ disk0[0].first_free < NSector
    /\ \/ w[0] # Blank /\ w[0][0].kind # "super"
       \/ w[0][0].first_free = NSector

\* No volume but volume 0 differs in w, but where the last bloc was taken.
Behind(w) ==
    \A v \in Volumes \ {0}, b \in 0 .. NSector - 1 :
       w[v][b] # vols[v][b] => v = 1 /\ b = 0 /\ Took(w)

(* What a command writes back is stored.                                   *)
LEMMA EndsStored ==
    ASSUME Stored(vols), NEW start, Whence(start), NEW m, Fits(m, start)
    PROVE  Stored(VolumesOf(vols, m.disk))
  <1> DEFINE w == VolumesOf(vols, m.disk)
  <1>0. vols \in [Volumes -> [0 .. NSector - 1 -> Contents]]
    BY DEF Stored
  <1>1. CASE Dead(m)
    <2>1. m.disk = DiskOf(vols) /\ DiskOf(vols) \in [Bloc -> Contents]
      BY <1>0, <1>1, DiskOfIs DEF Dead, Before
    <2>2. w = vols
      BY <1>0, <2>1, VolumesOfIs
    <2> QED
      BY <2>2
  <1>2. CASE \E g \in start .. NSector : On(m, start, g, 0)
    <2>1. PICK g \in start .. NSector : On(m, start, g, 0)
      BY <1>2
    <2> DEFINE d == m.disk
    <2>2. Ordered(d, g, 0) /\ g \in 2 .. NSector
      BY <2>1, OnIs
    <2>3. d \in [Bloc -> Contents] /\ d[NSector] \in FirstBlocs
      BY <2>2 DEF Ordered
    <2> HIDE DEF d
    <2> DEFINE e == VolumesOf(vols, d)
    <2>4. /\ e \in [Volumes -> [0 .. NSector - 1 -> Contents]]
          /\ DiskOf(e) = d /\ e[1][0] = d[NSector]
          /\ \A v \in Volumes \ {0}, b \in 0 .. NSector - 1 :
                ~(v = 1 /\ b = 0) => e[v][b] = vols[v][b]
      BY <1>0, <2>3, VolumesOfIs
    <2> HIDE DEF e
    <2>5. \A v \in Volumes \ {0} : vols[v][0] \in FirstBlocs
      BY DEF Stored
    <2>6. \A v \in Volumes \ {0} : e[v][0] \in FirstBlocs
      BY <2>3, <2>4, <2>5, VolumesAre
    <2>7. Stored(e)
      BY <2>2, <2>4, <2>6 DEF Stored
    <2> QED
      BY <2>7 DEF e, d
  <1> QED
    BY <1>1, <1>2 DEF Fits

(* And no other volume is written to.                                      *)
LEMMA EndsBehind ==
    ASSUME Stored(vols), ~SuperLost, NEW start, Whence(start), NEW m, Fits(m, start)
    PROVE  Behind(VolumesOf(vols, m.disk))
  <1> DEFINE w == VolumesOf(vols, m.disk)
  <1>0. vols \in [Volumes -> [0 .. NSector - 1 -> Contents]]
    BY DEF Stored
  <1>1. CASE Dead(m)
    <2>1. m.disk = DiskOf(vols) /\ DiskOf(vols) \in [Bloc -> Contents]
      BY <1>0, <1>1, DiskOfIs DEF Dead, Before
    <2>2. w = vols
      BY <1>0, <2>1, VolumesOfIs
    <2> QED
      BY <2>2 DEF Behind
  <1>2. CASE \E g \in start .. NSector : On(m, start, g, 0)
    <2>1. PICK g \in start .. NSector : On(m, start, g, 0)
      BY <1>2
    <2> DEFINE d == m.disk
    <2>2. /\ Ordered(d, g, 0)
          /\ d[NSector] = Before[NSector] \/ (start < NSector /\ g = NSector)
      BY <2>1 DEF On
    <2>3. d \in [Bloc -> Contents]
      BY <2>2 DEF Ordered
    <2> HIDE DEF d
    <2> DEFINE e == VolumesOf(vols, d)
    <2>4. /\ e \in [Volumes -> [0 .. NSector - 1 -> Contents]]
          /\ \A b \in 0 .. NSector - 1 : e[0][b] = d[b]
          /\ e[1][0] = d[NSector]
          /\ \A v \in Volumes \ {0}, b \in 0 .. NSector - 1 :
                ~(v = 1 /\ b = 0) => e[v][b] = vols[v][b]
      BY <1>0, <2>3, VolumesOfIs
    <2> HIDE DEF e
    <2>5. Before[NSector] = vols[1][0] /\ Before[0] = vols[0][0]
      BY <1>0, DiskOfIs, VolumesAre DEF Before
    <2>6. ASSUME d[NSector] = Before[NSector]
          PROVE  Behind(e)
      BY <2>4, <2>5, <2>6 DEF Behind
    <2>7. ASSUME start < NSector, g = NSector
          PROVE  Behind(e)
      <3>1. Ordered(Before, start, 0) /\ vols[0] # Blank
        <4>1. Ordered(Before, start, 0)
          BY <2>7, NSectorAssumption DEF Whence
        <4>2. Before[1].kind = "inode" /\ Before[1] = vols[0][1]
          BY <1>0, <4>1, DiskOfIs, VolumesAre DEF Before, Ordered
        <4>3. vols[0] = Blank => vols[0][1].kind = "zero"
          BY VolumesAre DEF Blank, Zero
        <4> QED
          BY <4>1, <4>2, <4>3
      <3>2. vols[0][0].kind = "super"
        BY <3>1 DEF SuperLost, disk0, vol_courant
      <3>3. OwnSuper(Before[0], start)
        BY <2>5, <3>1, <3>2 DEF Ordered, Plain
      <3>4. disk0[0].kind = "super" /\ disk0[0].first_free < NSector
        BY <2>5, <2>7, <3>2, <3>3 DEF disk0, vol_courant, OwnSuper
      <3>5. e[0][0] = d[0] /\ e[0][1] = d[1]
        BY <2>4, VolumesAre
      <3>6. Plain(d[0], NSector) \/ OwnSuper(d[0], NSector)
        BY <2>2, <2>7 DEF Ordered
      <3>7. e[0] # Blank
        <4>1. e[0][1].kind = "inode"
          BY <2>2, <3>5 DEF Ordered
        <4>2. e[0] = Blank => e[0][1].kind = "zero"
          BY VolumesAre DEF Blank, Zero
        <4> QED
          BY <4>1, <4>2
      <3>8. e[0][0].kind # "super" \/ e[0][0].first_free = NSector
        BY <3>5, <3>6 DEF Plain, OwnSuper
      <3>9. Took(e)
        BY <3>4, <3>7, <3>8 DEF Took
      <3> QED
        BY <2>4, <3>9 DEF Behind
    <2>8. Behind(e)
      BY <2>2, <2>6, <2>7
    <2> QED
      BY <2>8 DEF e, d
  <1> QED
    BY <1>1, <1>2 DEF Fits

(* A bloc behind the volume that a command of that volume has written.      *)
LEMMA OrderedBehind ==
    ASSUME NEW d, NEW first, Ordered(d, first, 0), NEW e \in [Bloc -> Contents],
           \A b \in 0 .. NSector - 1 : e[b] = d[b], e[NSector] \in FirstBlocs
    PROVE  Ordered(e, first, 0)
  <1>1. \A b \in 1 .. NSector - 1 : b \in 0 .. NSector - 1
    BY NSectorAssumption
  <1>2. e[0] = d[0] /\ e[1] = d[1] /\ \A b \in 1 .. NSector - 1 : e[b] = d[b]
    BY <1>1, VolumesAre
  <1> QED
    BY <1>2 DEF Ordered

-----------------------------------------------------------------------------
(* mknfs.                                                                  *)

\* The volumes once mknfs has written to volume v, and made no root yet.
Labelled(v) == [vols EXCEPT ![v] = [b \in 0 .. NSector - 1 |->
                   IF b = 0 THEN OtherSuper ELSE IF b = 1 THEN Header ELSE vols[v][b]]]

\* The blocs of volume v; init_super does not look behind them.
AsRead(v) == [b \in Bloc |-> IF b < NSector THEN vols[v][b] ELSE Zero]

(* init_super.                                                             *)
LEMMA InitSuperIs ==
    ASSUME Stored(vols), NEW v \in Volumes,
           NEW q, q = InitSuper(Machine(AsRead(v), NoSuper))
    PROVE  /\ q.super = OtherSuper
           /\ [b \in 0 .. NSector - 1 |-> q.disk[b]] = Labelled(v)[v]
  <1> DEFINE d == AsRead(v)
             s == [Machine(d, NoSuper) EXCEPT !.super = OtherSuper]
             t == WriteBloc(s, 0, OtherSuper)
             r == WriteBloc(t, 1, Header)
  <1>0. InitSuper(Machine(d, NoSuper)) = r
    BY ONLY DEF InitSuper, OtherSuper, Header
  <1>1. q = r
    <2>1. q = InitSuper(Machine(d, NoSuper))
      OBVIOUS
    <2> QED
      BY ONLY <1>0, <2>1
  <1>2. Running(s) /\ s.disk = d /\ s.super = OtherSuper
    BY DEF Running, Machine, Fields
  <1> HIDE DEF s
  <1>3. Running(t) /\ t.disk = Put(d, 0, OtherSuper) /\ t.super = OtherSuper
    BY <1>2, WriteIs
  <1> HIDE DEF t
  <1>4. Running(r) /\ r.disk = Put(t.disk, 1, Header) /\ r.super = OtherSuper
    BY <1>3, WriteIs
  <1> HIDE DEF r
  <1> DEFINE e == Put(Put(d, 0, OtherSuper), 1, Header)
  <1>5. \A b \in 0 .. NSector - 1 :
           e[b] = IF b = 0 THEN OtherSuper ELSE IF b = 1 THEN Header ELSE vols[v][b]
    <2> TAKE b \in 0 .. NSector - 1
    <2>1. b \in Bloc /\ d[b] = vols[v][b] /\ DOMAIN d = Bloc
      BY VolumesAre DEF AsRead
    <2> QED
      BY ONLY <2>1 DEF Put
  <1> HIDE DEF e
  <1>6. Labelled(v)[v] = [b \in 0 .. NSector - 1 |->
             IF b = 0 THEN OtherSuper ELSE IF b = 1 THEN Header ELSE vols[v][b]]
    BY DEF Labelled, Stored
  <1>7. q.disk = e
    BY <1>1, <1>3, <1>4 DEF e
  <1>8. [b \in 0 .. NSector - 1 |-> q.disk[b]] = Labelled(v)[v]
    <2>1. \A b \in 0 .. NSector - 1 :
             q.disk[b] = IF b = 0 THEN OtherSuper ELSE IF b = 1 THEN Header ELSE vols[v][b]
      BY <1>5, <1>7
    <2> QED
      BY ONLY <1>6, <2>1
  <1>9. q.super = OtherSuper
    BY <1>1, <1>4
  <1> QED
    BY ONLY <1>8, <1>9

(* The volumes are stored, whichever it is told but volume 0.              *)
LEMMA LabelledIs ==
    ASSUME Stored(vols), NEW v \in Volumes
    PROVE  /\ Labelled(v) \in [Volumes -> [0 .. NSector - 1 -> Contents]]
           /\ \A u \in Volumes : u # v => Labelled(v)[u] = vols[u]
           /\ \A b \in 0 .. NSector - 1 : Labelled(v)[v][b] =
                IF b = 0 THEN OtherSuper ELSE IF b = 1 THEN Header ELSE vols[v][b]
           /\ Labelled(v)[v][0] = OtherSuper
           /\ v # 0 => Stored(Labelled(v))
  <1> DEFINE w == Labelled(v)
             f == [b \in 0 .. NSector - 1 |->
                     IF b = 0 THEN OtherSuper ELSE IF b = 1 THEN Header ELSE vols[v][b]]
  <1>1. vols \in [Volumes -> [0 .. NSector - 1 -> Contents]]
    BY DEF Stored
  <1>2. f \in [0 .. NSector - 1 -> Contents]
    BY <1>1, ContentsAre
  <1>3. w = [vols EXCEPT ![v] = f]
    BY DEF Labelled
  <1>4. f[0] = OtherSuper /\ \A b \in 0 .. NSector - 1 : f[b] =
           IF b = 0 THEN OtherSuper ELSE IF b = 1 THEN Header ELSE vols[v][b]
    BY VolumesAre
  <1> HIDE DEF f, w
  <1>5. /\ w \in [Volumes -> [0 .. NSector - 1 -> Contents]]
        /\ w[v] = f /\ \A u \in Volumes : u # v => w[u] = vols[u]
    BY <1>1, <1>2, <1>3
  <1>6. ASSUME v # 0
        PROVE  Stored(w)
    <2>1. \A u \in Volumes \ {0} : w[u][0] \in FirstBlocs
      BY <1>4, <1>5 DEF Stored, FirstBlocs
    <2>2. w[0] = vols[0]
      BY <1>5, <1>6, VolumesAre
    <2>3. CASE vols[0] = Blank
      BY <1>5, <2>1, <2>2, <2>3 DEF Stored
    <2>4. CASE \E first \in 2 .. NSector : Ordered(DiskOf(vols), first, 0)
      <3>1. PICK first \in 2 .. NSector : Ordered(DiskOf(vols), first, 0)
        BY <2>4
      <3> DEFINE d == DiskOf(vols)
                 e == DiskOf(w)
      <3>2. /\ e \in [Bloc -> Contents]
            /\ \A b \in 0 .. NSector - 1 : e[b] = w[0][b]
            /\ e[NSector] = w[1][0]
        BY <1>5, DiskOfIs
      <3>3. \A b \in 0 .. NSector - 1 : d[b] = vols[0][b]
        BY <1>1, DiskOfIs
      <3> HIDE DEF d, e
      <3>4. \A b \in 0 .. NSector - 1 : e[b] = d[b]
        BY <2>2, <3>2, <3>3
      <3>5. e[NSector] \in FirstBlocs
        BY <2>1, <3>2, VolumesAre
      <3>6. Ordered(e, first, 0)
        BY <3>1, <3>2, <3>4, <3>5, OrderedBehind DEF d
      <3> QED
        BY <1>5, <2>1, <3>6 DEF Stored, e
    <2> QED
      BY <2>3, <2>4 DEF Stored
  <1> QED
    BY <1>4, <1>5, <1>6 DEF w
(* Where bloc 1 is no header, no root is made.                             *)
LEMMA CreateStops ==
    ASSUME NEW d, d[1].kind # "free",
           NEW m, m = CreateInode(Machine(d, OtherSuper), "DIRECTORY")
    PROVE  ~m.ok /\ m.disk = d
  <1> DEFINE c == Machine(d, OtherSuper)
             q == NewBloc(c)
             n == Inode("DIRECTORY", 0, NoBlocs, NULL_BLOC, NULL_BLOC)
  <1>1. /\ DOMAIN c = Fields /\ c.disk = d /\ c.ok /\ c.super = OtherSuper
        /\ c.super.nb_free_blc = NSector - 1 /\ c.super.first_free = 1
    BY DEF Machine, Fields, OtherSuper, Super
  <1>2. m = WriteFound(q, n)
    BY DEF CreateInode
  <1> HIDE DEF c, n
  <1>3. q = Stopped(c)
    BY <1>1, NSectorAssumption DEF NewBloc
  <1>4. ~q.ok /\ q.disk = d
    BY <1>1, <1>3 DEF Stopped, Fields
  <1> HIDE DEF q
  <1>5. WriteFound(q, n) = q
    BY <1>4, StoppedWrites DEF WriteFound
  <1> QED
    BY <1>2, <1>4, <1>5

(* What create_inode writes.                                               *)
LEMMA FreshInodeIs ==
    ASSUME NEW first \in 2 .. NSector
    PROVE  LET n == Inode("DIRECTORY", 0, NoBlocs, NULL_BLOC, NULL_BLOC)
           IN  n \in Contents /\ n.kind = "inode" /\ Plain(n, first)
  <1>1. ASSUME NEW type \in Types \cup {"DIRECTORY"}
        PROVE  LET n == Inode(type, 0, NoBlocs, NULL_BLOC, NULL_BLOC)
               IN  n \in Contents /\ n.kind = "inode" /\ Plain(n, first)
    <2> DEFINE n == Inode(type, 0, NoBlocs, NULL_BLOC, NULL_BLOC)
    <2>1. NULL_BLOC \in Num(first) /\ NoBlocs \in [Index -> Num(first)] /\ 0 \in 0 .. MaxFbloc
      BY NumIs, FblocIs DEF NoBlocs
    <2>2. Plain(n, first) /\ n.kind = "inode"
      BY <2>1, PlainInode
    <2> HIDE DEF n
    <2> QED
      BY <2>2 DEF Plain, n
  <1>2. "DIRECTORY" \in Types \cup {"DIRECTORY"}
    OBVIOUS
  <1> QED
    BY ONLY <1>1, <1>2, Zenon

(* Where bloc 1 is the header of all the blocs, it becomes the root.        *)
LEMMA RootIs ==
    ASSUME Roomy, NEW d \in [Bloc -> Contents], d[1] = Header,
           NEW m, m = CreateInode(Machine(d, OtherSuper), "DIRECTORY")
    PROVE  /\ m.ok /\ m.ret = 1 /\ m.disk \in [Bloc -> Contents]
           /\ m.disk[0] = Super(NULL_BLOC, NSector - 2, 2)
           /\ m.disk[1] = Inode("DIRECTORY", 0, NoBlocs, NULL_BLOC, NULL_BLOC)
           /\ m.disk[2] = Header
           /\ \A b \in 3 .. NSector : m.disk[b] = d[b]
  <1> DEFINE c == Machine(d, OtherSuper)
             s == Super(NULL_BLOC, NSector - 2, 2)
             e == [c EXCEPT !.super = s]
             t == WriteBloc(e, 0, s)
             w == WriteBloc(t, 2, Header)
             q == Return(w, 1)
             n == Inode("DIRECTORY", 0, NoBlocs, NULL_BLOC, NULL_BLOC)
             r == WriteBloc(q, 1, n)
  <1>0. NSector \in Nat /\ NSector > 2 /\ 0 \in Bloc /\ 1 \in Bloc /\ 2 \in Bloc
    BY NSectorAssumption DEF Roomy, Bloc
  <1>1. Running(c) /\ c.disk = d /\ c.super = OtherSuper
    BY DEF Running, Machine, Fields
  <1>2. /\ c.super.nb_free_blc = NSector - 1 /\ c.super.first_free = 1 /\ c.super.root = NULL_BLOC
        /\ Header.kind = "free" /\ Header.nb_free_blocs = NSector - 1
    BY <1>1 DEF OtherSuper, Super, Header, FreeBlc
  <1> HIDE DEF c
  <1>3. (NSector - 1) - 1 = NSector - 2 /\ NSector - 1 # 0 /\ NSector - 1 # 1 /\ 1 + 1 = 2
    BY <1>0
  <1>4. Running(e) /\ e.disk = d /\ e.super = s
    BY <1>1 DEF Running, Fields
  <1>5. SaveSuper(e) = t
    BY <1>4 DEF SaveSuper
  <1>6. NewBloc(c) = q
    <2>1. c.ok /\ c.disk[1] = Header
      BY <1>1 DEF Running
    <2> DEFINE HeadAt(next) == SaveSuper([c EXCEPT !.super =
                                Super(c.super.root, c.super.nb_free_blc - 1, next)])
    <2>2. NewBloc(c) = Return(WriteBloc(HeadAt(c.super.first_free + 1),
                                        c.super.first_free + 1, Header),
                              c.super.first_free)
      BY <1>2, <1>3, <2>1 DEF NewBloc
    <2>3. HeadAt(2) = t
      BY <1>2, <1>3, <1>5
    <2> HIDE DEF HeadAt, t
    <2> QED
      BY <1>2, <1>3, <2>2, <2>3
  <1> HIDE DEF e
  <1>7. Running(t) /\ t.disk = Put(d, 0, s)
    BY <1>4, WriteIs
  <1> HIDE DEF t
  <1>8. Running(w) /\ w.disk = Put(t.disk, 2, Header)
    BY <1>7, WriteIs
  <1> HIDE DEF w
  <1>9. Running(q) /\ q.disk = w.disk /\ q.ret = 1
    BY <1>8 DEF Running, Return, Fields
  <1> HIDE DEF q
  <1>10. Running(r) /\ r.disk = Put(q.disk, 1, n) /\ r.ret = q.ret
    BY <1>9, WriteIs
  <1>11. m = r
    <2>1. m = WriteFound(NewBloc(c), n)
      BY DEF CreateInode, c
    <2> QED
      BY <1>6, <1>9, <2>1 DEF WriteFound
  <1>12. r.ok
    BY <1>10 DEF Running
  <1> HIDE DEF r
  <1> DEFINE f == Put(Put(Put(d, 0, s), 2, Header), 1, n)
  <1>13. r.disk = f
    BY <1>7, <1>8, <1>9, <1>10
  <1>14. s \in Contents /\ n \in Contents /\ Header \in Contents
    <2>1. s \in Contents
      BY <1>0, ContentsAre DEF NULL_BLOC
    <2>2. n \in Contents
      BY FreshInodeIs, NSectorAssumption
    <2> QED
      BY <2>1, <2>2, ContentsAre
  <1> HIDE DEF s, n
  <1>15. /\ f \in [Bloc -> Contents] /\ f[0] = s /\ f[1] = n /\ f[2] = Header
         /\ \A b \in Bloc : b # 0 /\ b # 1 /\ b # 2 => f[b] = d[b]
    BY ONLY <1>0, <1>14, d \in [Bloc -> Contents] DEF Put
  <1> HIDE DEF f
  <1>16. \A b \in 3 .. NSector : f[b] = d[b]
    BY <1>0, <1>15 DEF Bloc
  <1> QED
    BY <1>9, <1>10, <1>11, <1>12, <1>13, <1>15, <1>16 DEF s, n

\* What mknfs leaves of the volumes.
Makes(v) ==
    /\ Stored(vols')
    /\ \A u \in Volumes \ {0}, b \in 0 .. NSector - 1 :
          vols'[u][b] # vols[u][b] => u = v /\ b \in {0, 1}
    /\ printed' = << >> /\ deleted' = deleted
    /\ \E ok \in BOOLEAN : command' = Ran("mknfs", v, NULL_BLOC, ok)

(* mknfs.                                                                  *)
LEMMA MknfsMakes ==
    ASSUME Roomy, Stored(vols), NEW v \in Volumes, Mknfs(v)
    PROVE  Makes(v)
  <1> DEFINE d0     == [b \in Bloc |-> IF b < NSector THEN vols[v][b] ELSE Zero]
             fresh  == InitSuper(Machine(d0, NoSuper))
             made   == [vols EXCEPT ![v] = [b \in 0 .. NSector - 1 |-> fresh.disk[b]]]
             d      == DiskOf(made)
             m      == CreateInode(Machine(d, fresh.super), "DIRECTORY")
             after  == VolumesOf(made, m.disk)
             rooted == [after EXCEPT ![v][0] = [@ EXCEPT !.root = m.ret]]
             w      == Labelled(v)
             S      == 0 .. NSector - 1
  <1> DEFINE ok == m.ok /\ after[v][0].kind = "super"
  <1>1. /\ v = vol_courant => vols[v] = Blank
        /\ vols' = IF ok THEN rooted ELSE after
        /\ printed' = << >>
        /\ command' = Ran("mknfs", v, NULL_BLOC, ok)
        /\ deleted' = deleted
    BY ONLY Mknfs(v), Zenon DEF Mknfs
  <1>0. ok \in BOOLEAN /\ (ok <=> m.ok /\ after[v][0].kind = "super")
    BY ONLY Zenon
  <1> HIDE DEF ok
  <1>2. fresh.super = OtherSuper /\ [b \in S |-> fresh.disk[b]] = w[v]
    <2>1. fresh = InitSuper(Machine(AsRead(v), NoSuper))
      BY DEF AsRead
    <2>2. Stored(vols) /\ v \in Volumes
      OBVIOUS
    <2> HIDE DEF fresh
    <2>3. /\ fresh.super = OtherSuper
          /\ [b \in 0 .. NSector - 1 |-> fresh.disk[b]] = Labelled(v)[v]
      BY ONLY <2>1, <2>2, InitSuperIs
    <2> QED
      BY <2>3
  <1> HIDE DEF fresh
  <1>3. made = w
    <2>1. w = [vols EXCEPT ![v] = w[v]]
      BY DEF Labelled, Stored
    <2> QED
      BY <1>2, <2>1
  <1> HIDE DEF made
  <1>4. /\ made \in [Volumes -> [S -> Contents]]
        /\ \A u \in Volumes : u # v => made[u] = vols[u]
        /\ \A b \in S : made[v][b] =
             IF b = 0 THEN OtherSuper ELSE IF b = 1 THEN Header ELSE vols[v][b]
        /\ v # 0 => Stored(made)
    BY <1>3, LabelledIs
  <1>5. /\ d \in [Bloc -> Contents] /\ d[NSector] = made[1][0]
        /\ \A b \in S : d[b] = made[0][b]
    BY <1>4, DiskOfIs
  <1>6. m = CreateInode(Machine(d, OtherSuper), "DIRECTORY")
    BY <1>2
  <1> HIDE DEF m
  <1>7. CASE v # 0
    <2>1. d[1] = vols[0][1]
      BY <1>4, <1>5, <1>7, VolumesAre
    <2>2. vols[0][1].kind # "free"
      <3>1. CASE vols[0] = Blank
        BY <3>1, VolumesAre DEF Blank, Zero
      <3>2. CASE \E first \in 2 .. NSector : Ordered(DiskOf(vols), first, 0)
        <4>1. DiskOf(vols)[1].kind = "inode"
          BY <3>2 DEF Ordered
        <4>2. DiskOf(vols)[1] = vols[0][1]
          BY DiskOfIs, VolumesAre DEF Stored
        <4> QED
          BY <4>1, <4>2
      <3> QED
        BY <3>1, <3>2 DEF Stored
    <2>3. ~m.ok /\ m.disk = d
      <3> HIDE DEF d
      <3>1. d[1].kind # "free"
        BY <2>1, <2>2
      <3> QED
        BY ONLY <1>6, <3>1, CreateStops
    <2>4. after = made
      BY <1>4, <1>5, <2>3, VolumesOfIs
    <2> HIDE DEF after, rooted, d
    <2>5. vols' = made
      BY <1>0, <1>1, <2>3, <2>4
    <2>7. \A u \in Volumes \ {0}, b \in S : vols'[u][b] # vols[u][b] => u = v /\ b \in {0, 1}
      BY <1>4, <2>5
    <2> QED
      BY <1>0, <1>1, <1>4, <1>7, <2>5, <2>7 DEF Makes
  <1>8. CASE v = 0
    <2>1. vols[0] = Blank /\ \A b \in S : vols[0][b] = Zero
      BY <1>1, <1>8, VolumesAre DEF Blank
    <2>2. /\ d[1] = Header /\ d[NSector] = vols[1][0]
          /\ \A b \in 3 .. NSector - 1 : d[b] = Zero
      <3>1. 1 \in S /\ \A b \in 3 .. NSector - 1 : b \in S
        BY NSectorAssumption
      <3>2. \A b \in 3 .. NSector - 1 : d[b] = Zero
        BY <1>4, <1>5, <1>8, <2>1, <3>1
      <3> QED
        BY <1>4, <1>5, <1>8, <3>1, <3>2, VolumesAre
    <2> DEFINE s == Super(NULL_BLOC, NSector - 2, 2)
               t == Super(1, NSector - 2, 2)
               n == Inode("DIRECTORY", 0, NoBlocs, NULL_BLOC, NULL_BLOC)
    <2>3. /\ m.ok /\ m.ret = 1 /\ m.disk \in [Bloc -> Contents]
          /\ m.disk[0] = s /\ m.disk[1] = n /\ m.disk[2] = Header
          /\ \A b \in 3 .. NSector : m.disk[b] = d[b]
      <3> HIDE DEF d, s, n
      <3>1. Roomy /\ d \in [Bloc -> Contents] /\ d[1] = Header
        BY <1>5, <2>2
      <3> QED
        BY ONLY <1>6, <3>1, RootIs DEF s, n
    <2>4. NSector \in 3 .. NSector /\ m.disk[NSector] = vols[1][0]
      BY <2>2, <2>3, NSectorAssumption DEF Roomy
    <2>5. /\ after \in [Volumes -> [S -> Contents]]
          /\ \A b \in S : after[0][b] = m.disk[b]
          /\ after[1][0] = vols[1][0]
          /\ \A u \in Volumes \ {0}, b \in S : ~(u = 1 /\ b = 0) => after[u][b] = made[u][b]
      BY <1>4, <2>3, <2>4, VolumesOfIs
    <2> HIDE DEF after, d
    <2>6. \A u \in Volumes \ {0}, b \in S : after[u][b] = vols[u][b]
      <3> TAKE u \in Volumes \ {0}, b \in S
      <3>1. made[u] = vols[u]
        BY <1>4, <1>8
      <3> QED
        BY <2>5, <3>1
    <2>7. after[v][0] = s /\ s.kind = "super" /\ [s EXCEPT !.root = 1] = t
      <3>1. s.kind = "super" /\ [s EXCEPT !.root = 1] = t
        BY ONLY DEF Super
      <3>2. after[v][0] = m.disk[0]
        BY <1>8, <2>5, VolumesAre
      <3> HIDE DEF s, t
      <3> QED
        BY <2>3, <3>1, <3>2
    <2> HIDE DEF s
    <2>8. vols' = [after EXCEPT ![0][0] = t]
      <3> HIDE DEF t
      <3>1. ok
        BY <1>0, <2>3, <2>7
      <3>2. vols' = [after EXCEPT ![0][0] = [@ EXCEPT !.root = m.ret]]
        BY <1>1, <1>8, <3>1
      <3>3. [after[0][0] EXCEPT !.root = m.ret] = t
        BY <1>8, <2>3, <2>7
      <3> QED
        BY ONLY <3>2, <3>3
    <2> DEFINE e == vols'
    <2>9. t \in Contents
      <3>1. 1 \in Bloc /\ 2 \in Bloc /\ NSector - 2 \in Nat
        BY NSectorAssumption DEF Roomy, Bloc
      <3> QED
        BY <3>1, ContentsAre
    <2>10. /\ e \in [Volumes -> [S -> Contents]]
           /\ e[0][0] = t /\ \A b \in S : b # 0 => e[0][b] = m.disk[b]
           /\ \A u \in Volumes \ {0} : e[u] = after[u]
      <3> HIDE DEF t
      <3> DEFINE z == [after[0] EXCEPT ![0] = t]
      <3>1. e = [after EXCEPT ![0] = z]
        BY <2>8
      <3>2. after[0] \in [S -> Contents]
        BY <2>5, VolumesAre
      <3>3. z \in [S -> Contents] /\ z[0] = t /\ \A b \in S : b # 0 => z[b] = after[0][b]
        BY <2>9, <3>2, VolumesAre
      <3> HIDE DEF z, e
      <3>4. /\ e \in [Volumes -> [S -> Contents]] /\ e[0] = z
            /\ \A u \in Volumes \ {0} : e[u] = after[u]
        BY <2>5, <3>1, <3>3, VolumesAre
      <3> QED
        BY <2>5, <3>3, <3>4
    <2> HIDE DEF e
    <2>11. \A u \in Volumes \ {0}, b \in S : e[u][b] = vols[u][b]
      BY <2>6, <2>10
    <2>12. \A u \in Volumes \ {0} : e[u][0] \in FirstBlocs
      BY <2>11, VolumesAre DEF Stored
    <2> DEFINE f == DiskOf(e)
    <2>13. /\ f \in [Bloc -> Contents] /\ f[NSector] = e[1][0]
           /\ \A b \in S : f[b] = e[0][b]
      BY <2>10, DiskOfIs
    <2> HIDE DEF f
    <2>14. Ordered(f, 2, 0)
      <3>1. 2 \in 2 .. NSector /\ 1 \in S /\ 2 \in S /\ 0 \in S
        BY NSectorAssumption DEF Roomy
      <3>2. OwnSuper(f[0], 2)
        BY <2>9, <2>10, <2>13, <3>1 DEF OwnSuper, Super
      <3>3. f[1] = n /\ Plain(f[1], 2) /\ f[1].kind = "inode"
        <4>1. Plain(n, 2) /\ n.kind = "inode"
          BY <3>1, FreshInodeIs
        <4> QED
          BY <2>3, <2>10, <2>13, <3>1, <4>1
      <3>4. f[2] = Header
        BY <2>3, <2>10, <2>13, <3>1
      <3>5. \A b \in 3 .. NSector - 1 : Plain(f[b], 2)
        <4>1. \A b \in 3 .. NSector - 1 : b \in S /\ b # 0 /\ b \in 3 .. NSector
          BY NSectorAssumption
        <4>2. \A b \in 3 .. NSector - 1 : f[b] = Zero
          BY <2>2, <2>3, <2>10, <2>13, <4>1
        <4> QED
          BY <3>1, <4>2, PlainAre
      <3>6. \A b \in 1 .. NSector - 1 : Plain(f[b], 2) \/ (f[b] = Header /\ (b >= 2 \/ b = 0))
        <4>1. \A b \in 1 .. NSector - 1 : b = 1 \/ b = 2 \/ b \in 3 .. NSector - 1
          BY NSectorAssumption
        <4> HIDE DEF n
        <4> QED
          BY <3>3, <3>4, <3>5, <4>1
      <3>7. f[NSector] \in FirstBlocs
        BY <2>12, <2>13, VolumesAre
      <3> QED
        BY <2>13, <3>1, <3>2, <3>3, <3>6, <3>7 DEF Ordered
    <2>15. Stored(e)
      BY <2>10, <2>12, <2>14, NSectorAssumption DEF Stored, f, Roomy
    <2> QED
      BY <1>0, <1>1, <2>11, <2>15 DEF Makes, e
  <1> QED
    BY <1>7, <1>8
-----------------------------------------------------------------------------
(* The steps.                                                              *)

\* What is printed, and the history, are of the right types.
Said ==
    /\ \A k \in DOMAIN printed : printed[k] \in Octet
    /\ command \in [name : CommandNames, vol : VolArgument, inumber : Bloc, ok : BOOLEAN]

\* The inductive invariant.
IInv == deleted \in BOOLEAN /\ (~deleted => Stored(vols) /\ Said)

\* What VolumesApart says of a step.
KeptApart ==
    ~deleted /\ ~SuperLost =>
      \A v \in Volumes \ {vol_courant, command'.vol}, b \in 0 .. NSector - 1 :
         vols'[v][b] # vols[v][b] => TakesLast /\ v = vol_courant + 1 /\ b = 0

\* A step before the first if_dfile, or the step of the first one itself.
Steps == IInv' /\ TypeOK' /\ KeptApart

(* The invariant has the types.                                            *)
LEMMA StoredTypes ==
    ASSUME IInv
    PROVE  ~deleted => TypeOK
  BY DEF IInv, Stored, Said, TypeOK

(* The history of a command.                                               *)
LEMMA RanIs ==
    ASSUME NEW name \in CommandNames,
           NEW v \in VolArgument, NEW i \in Bloc, NEW ok \in BOOLEAN
    PROVE  Ran(name, v, i, ok) \in
             [name : CommandNames, vol : VolArgument, inumber : Bloc, ok : BOOLEAN]
  BY DEF Ran

(* What the end of a command says.                                         *)
LEMMA EndsSays ==
    ASSUME deleted \in BOOLEAN, NEW m, m.ok \in BOOLEAN,
           NEW name \in CommandNames,
           NEW v \in VolArgument, NEW i \in Bloc,
           NEW output, \A k \in DOMAIN output : output[k] \in Octet,
           Ends(m, name, v, i, output)
    PROVE  Said' /\ deleted' \in BOOLEAN /\ vols' = VolumesOf(vols, m.disk)
  <1>1. /\ vols' = VolumesOf(vols, m.disk)
        /\ printed' \in {output} \cup (IF m.ok THEN {} ELSE {<< >>})
        /\ command' = Ran(name, v, i, m.ok)
        /\ deleted' = (deleted \/ name = "if_dfile")
    BY DEF Ends
  <1>2. deleted' \in BOOLEAN
    BY ONLY <1>1, Zenon
  <1>3. \A k \in DOMAIN printed' : printed'[k] \in Octet
    <2>1. printed' = output \/ printed' = << >>
      BY <1>1
    <2>2. \A k \in DOMAIN << >> : << >>[k] \in Octet
      OBVIOUS
    <2> QED
      BY <2>1, <2>2
  <1>4. command' \in [name : CommandNames, vol : VolArgument, inumber : Bloc, ok : BOOLEAN]
    BY <1>1, RanIs
  <1> QED
    BY <1>1, <1>2, <1>3, <1>4 DEF Said

(* if_dfile is remembered.                                                 *)
LEMMA EndsDeletes ==
    ASSUME NEW m, NEW name, NEW v, NEW i, NEW output, Ends(m, name, v, i, output)
    PROVE  /\ deleted' \in BOOLEAN /\ (deleted => deleted')
           /\ name = "if_dfile" => deleted'
  <1>1. deleted' = (deleted \/ name = "if_dfile")
    BY DEF Ends
  <1> QED
    BY ONLY <1>1, Zenon

(* When volume 0 alone changes, or the last bloc is taken.                 *)
LEMMA BehindApart ==
    ASSUME NEW w, vols' = w, ~SuperLost => Behind(w)
    PROVE  KeptApart
  <1> SUFFICES ASSUME ~SuperLost,
                      NEW v \in Volumes \ {vol_courant, command'.vol},
                      NEW b \in 0 .. NSector - 1,
                      vols'[v][b] # vols[v][b]
               PROVE  TakesLast /\ v = vol_courant + 1 /\ b = 0
    BY DEF KeptApart
  <1>1. Behind(w)
    OBVIOUS
  <1>2. v = 1 /\ b = 0 /\ Took(w)
    BY <1>1 DEF Behind, vol_courant
  <1>3. TakesLast
    BY <1>2 DEF Took, TakesLast, SuperLost, disk0, vol_courant
  <1> QED
    BY <1>2, <1>3 DEF vol_courant

(* A command that deletes nothing ends.                                    *)
LEMMA EndsSteps ==
    ASSUME Roomy, IInv, ~deleted, NEW start, Whence(start), NEW m, Fits(m, start),
           NEW name \in {"if_nfile", "if_nfile_untyped", "if_pfile", "if_cfile"},
           NEW v \in VolArgument, NEW i \in Bloc,
           NEW output, \A k \in DOMAIN output : output[k] \in Octet,
           Ends(m, name, v, i, output)
    PROVE  Steps
  <1>1. Stored(vols) /\ deleted \in BOOLEAN
    BY DEF IInv
  <1>2. m.ok \in BOOLEAN
    BY DEF Fits, Dead, On
  <1>3. Said' /\ deleted' \in BOOLEAN /\ vols' = VolumesOf(vols, m.disk)
    BY <1>1, <1>2, EndsSays DEF CommandNames
  <1> DEFINE w == VolumesOf(vols, m.disk)
  <1>4. Stored(w) /\ (~SuperLost => Behind(w))
    BY <1>1, EndsStored, EndsBehind
  <1> HIDE DEF w
  <1>5. vols' = w
    BY <1>3 DEF w
  <1>6. Stored(vols')
    BY <1>4, <1>5
  <1>7. KeptApart
    BY <1>4, <1>5, BehindApart
  <1>8. IInv' /\ TypeOK'
    BY <1>3, <1>6 DEF IInv, TypeOK, Said, Stored
  <1> QED
    BY <1>7, <1>8 DEF Steps

(* if_nfile.                                                               *)
LEMMA NfileSteps ==
    ASSUME Roomy, IInv, ~deleted, NEW v \in VolArgument, NEW input \in Inputs,
           Nfile(v, input)
    PROVE  Steps
  <1> DEFINE l == Loaded(vols, v)
  <1>1. PICK start \in 2 .. NSector : Whence(start)
    BY WhenceIs DEF IInv
  <1>2. Starts(l, start)
    BY <1>1, LoadedStarts DEF IInv
  <1>3. input \in Seq(Octet)
    BY CommandsAssumption DEF Octet
  <1>4. NULL_BLOC \in Bloc /\ \A k \in DOMAIN << >> : << >>[k] \in Octet
    BY NSectorAssumption DEF Bloc, NULL_BLOC
  <1>5. CASE \E type \in Types : \E made \in {CreateIfile(l, type)} :
               \E m \in {Fill(made, made.ret, input)} :
                  Ends(m, "if_nfile", v, NULL_BLOC, << >>)
    <2>1. PICK type \in Types : \E made \in {CreateIfile(l, type)} :
                 \E m \in {Fill(made, made.ret, input)} :
                    Ends(m, "if_nfile", v, NULL_BLOC, << >>)
      BY <1>5
    <2> DEFINE made == CreateIfile(l, type)
               i == made.ret
               m == Fill(made, i, input)
    <2>2. Ends(m, "if_nfile", v, NULL_BLOC, << >>)
      BY <2>1
    <2> HIDE DEF l
    <2>3. Fits(made, start) /\ (made.ok => i \in Bloc)
      BY <1>2, CreateFits
    <2> HIDE DEF made, i
    <2>4. Roomy
      OBVIOUS
    <2>5. Fits(Fill(made, i, input), start)
      BY ONLY <1>3, <2>3, <2>4, FillFits
    <2>6. Fits(m, start)
      BY <2>5
    <2> HIDE DEF m
    <2> QED
      BY <1>1, <1>4, <2>2, <2>6, EndsSteps
  <1>6. CASE \E j \in Bloc : \E m \in {Fill(l, j, input)} :
               Ends(m, "if_nfile_untyped", v, j, << >>)
    <2>1. PICK j \in Bloc : Ends(Fill(l, j, input), "if_nfile_untyped", v, j, << >>)
      BY <1>6
    <2> DEFINE m == Fill(l, j, input)
    <2> HIDE DEF l
    <2>2. Uses(OpenIfile(l, j), start)
      BY <1>2, OpenStarts
    <2>3. Fits(m, start)
      BY <1>3, <2>2, FillOpenFits
    <2>4. Ends(m, "if_nfile_untyped", v, j, << >>)
      BY <2>1
    <2> HIDE DEF m
    <2> QED
      BY <1>1, <1>4, <2>3, <2>4, EndsSteps
  <1> QED
    BY <1>5, <1>6 DEF Nfile

(* if_pfile.                                                               *)
LEMMA PfileSteps ==
    ASSUME Roomy, IInv, ~deleted, NEW v \in VolArgument, NEW i \in Bloc, Pfile(v, i)
    PROVE  Steps
  <1> DEFINE read == PrintLoop(OpenIfile(Loaded(vols, v), i), i)
             m == read.use.machine
             output == Displayed(read)
  <1>1. PICK start \in 2 .. NSector : Whence(start)
    BY WhenceIs DEF IInv
  <1>2. Starts(Loaded(vols, v), start)
    BY <1>1, LoadedStarts DEF IInv
  <1>3. Ends(m, "if_pfile", v, i, output)
    BY DEF Pfile
  <1>4. Fits(m, start) /\ \A k \in DOMAIN output : output[k] \in Octet
    BY <1>2, PrintFits
  <1> HIDE DEF m, output
  <1> QED
    BY <1>1, <1>3, <1>4, EndsSteps

(* if_cfile.                                                               *)
LEMMA CfileSteps ==
    ASSUME Roomy, IInv, ~deleted, NEW v \in VolArgument, NEW i \in Bloc, Cfile(v, i)
    PROVE  Steps
  <1> DEFINE l == Loaded(vols, v)
  <1>1. PICK start \in 2 .. NSector : Whence(start)
    BY WhenceIs DEF IInv
  <1>2. Starts(l, start)
    BY <1>1, LoadedStarts DEF IInv
  <1>3. \A k \in DOMAIN << >> : << >>[k] \in Octet
    OBVIOUS
  <1>4. CASE \E type \in Types : \E made \in {CreateIfile(l, type)} :
               \E m \in {CopyTo(made, i, made.ret)} : Ends(m, "if_cfile", v, i, << >>)
    <2>1. PICK type \in Types : \E made \in {CreateIfile(l, type)} :
                 \E m \in {CopyTo(made, i, made.ret)} : Ends(m, "if_cfile", v, i, << >>)
      BY <1>4
    <2> DEFINE made == CreateIfile(l, type)
               j == made.ret
               m == CopyTo(made, i, j)
    <2>2. Ends(m, "if_cfile", v, i, << >>)
      BY <2>1
    <2> HIDE DEF l
    <2>3. Fits(made, start) /\ (made.ok => j \in Bloc)
      BY <1>2, CreateFits
    <2> HIDE DEF made
    <2>4. /\ Uses(OpenIfile(made, i), start) /\ OpenIfile(made, i).descriptor \in Descs
          /\ OpenIfile(made, i).machine.ok => made.ok
      BY <2>3, OpenGoes
    <2>5. OpenIfile(made, i).machine.ok => j \in Bloc
      BY <2>3, <2>4
    <2> HIDE DEF j
    <2>6. Fits(m, start)
      BY <2>4, <2>5, CopyToFits
    <2> HIDE DEF m
    <2> QED
      BY <1>1, <1>3, <2>2, <2>6, EndsSteps
  <1>5. CASE \E j \in Bloc : \E m \in {CopyTo(l, i, j)} : Ends(m, "if_cfile", v, i, << >>)
    <2>1. PICK j \in Bloc : Ends(CopyTo(l, i, j), "if_cfile", v, i, << >>)
      BY <1>5
    <2> DEFINE m == CopyTo(l, i, j)
    <2> HIDE DEF l
    <2>2. Uses(OpenIfile(l, i), start) /\ OpenIfile(l, i).descriptor \in Descs
      BY <1>2, OpenStarts
    <2>3. Fits(m, start)
      BY <2>2, CopyToFits
    <2> HIDE DEF m
    <2> QED
      BY <1>1, <1>3, <2>1, <2>3, EndsSteps DEF m
  <1> QED
    BY <1>4, <1>5 DEF Cfile

(* What load_super leaves of the disk.                                     *)
LEMMA LoadedDeletes ==
    ASSUME Stored(vols), NEW v
    PROVE  Deleting(Loaded(vols, v))
  <1> DEFINE m == Machine(Before, NoSuper)
             r == Loaded(vols, v)
             s == vols[v][0]
  <1>0. vols \in [Volumes -> [0 .. NSector - 1 -> Contents]]
    BY DEF Stored
  <1>1. /\ DOMAIN m = Fields /\ m.ok /\ m.ok \in BOOLEAN
        /\ m.disk = Before /\ m.super = NoSuper
    BY DEF Machine, Fields
  <1>2. /\ v \notin Volumes => r = m
        /\ v \in Volumes /\ s.kind # "super" => r = Stopped(m)
        /\ v \in Volumes /\ s.kind = "super" => r = [m EXCEPT !.super = s]
    BY DEF Loaded, Before
  <1> HIDE DEF m, r
  <1>3. /\ DOMAIN r = Fields /\ r.ok \in BOOLEAN /\ r.disk = Before
        /\ r.super = NoSuper \/ (v \in Volumes /\ s.kind = "super" /\ r.super = s)
    <2>1. CASE v \notin Volumes
      <3>1. r = m
        BY <1>2, <2>1
      <3> QED
        BY ONLY <1>1, <3>1
    <2>2. CASE v \in Volumes /\ s.kind # "super"
      <3>1. r = Stopped(m)
        BY <1>2, <2>2
      <3>2. DOMAIN r = Fields /\ r.ok = FALSE /\ r.disk = m.disk /\ r.super = m.super
        BY ONLY <1>1, <3>1 DEF Stopped, Fields
      <3>3. r.ok \in BOOLEAN
        BY ONLY <3>2
      <3> QED
        BY <1>1, <3>2, <3>3
    <2>3. CASE v \in Volumes /\ s.kind = "super"
      <3>1. r = [m EXCEPT !.super = s]
        BY <1>2, <2>3
      <3> HIDE DEF s
      <3>2. DOMAIN r = Fields /\ r.ok = m.ok /\ r.disk = m.disk /\ r.super = s
        BY ONLY <1>1, <3>1 DEF Fields
      <3> QED
        BY <1>1, <2>3, <3>2
    <2> QED
      BY <2>1, <2>2, <2>3
  <1>4. v \in Volumes => s \in Contents
    BY <1>0, VolumesAre
  <1>5. /\ Before \in [Bloc -> Contents]
        /\ \A b \in 0 .. NSector - 1 : Before[b] = vols[0][b]
        /\ Before[NSector] = vols[1][0]
    BY <1>0, DiskOfIs DEF Before
  <1>6. Before[NSector].kind # "inode"
    <2>1. vols[1][0] \in FirstBlocs
      BY VolumesAre DEF Stored
    <2> QED
      BY <1>5, <2>1 DEF FirstBlocs, Zero, Header, FreeBlc, OtherSuper, Super
  <1>7. ASSUME NEW b \in 0 .. NSector - 1
        PROVE  Plain(Before[b], NSector) \/ Before[b].kind \in {"super", "free"}
    <2>0. NSector \in 2 .. NSector
      BY NSectorAssumption
    <2>1. CASE vols[0] = Blank
      <3>1. Before[b] = Zero
        BY <1>5, <2>1 DEF Blank
      <3> QED
        BY <2>0, <3>1, PlainAre
    <2>2. CASE \E first \in 2 .. NSector : Ordered(DiskOf(vols), first, 0)
      <3>1. PICK first \in 2 .. NSector : Ordered(Before, first, 0)
        BY <2>2 DEF Before
      <3>2. Plain(Before[b], first) \/ Before[b].kind \in {"super", "free"}
        <4>1. b = 0 \/ b \in 1 .. NSector - 1
          BY NSectorAssumption
        <4>2. Header.kind = "free"
          BY DEF Header, FreeBlc
        <4> QED
          BY <3>1, <4>1, <4>2 DEF Ordered, OwnSuper
      <3>3. NSector \in first .. NSector
        BY <2>0
      <3> QED
        BY <3>2, <3>3, PlainOn
    <2> QED
      BY <2>1, <2>2 DEF Stored
  <1> HIDE DEF s
  <1> QED
    BY <1>3, <1>4, <1>5, <1>6, <1>7 DEF Deleting, r

(* if_dfile.                                                               *)
LEMMA DfileSteps ==
    ASSUME IInv, ~deleted, NEW v \in VolArgument, NEW i \in Bloc, Dfile(v, i)
    PROVE  Steps
  <1> DEFINE l == Loaded(vols, v)
             m == DeleteIfile(l, i)
  <1>1. Stored(vols) /\ deleted \in BOOLEAN
    BY DEF IInv
  <1>2. vols \in [Volumes -> [0 .. NSector - 1 -> Contents]]
    BY <1>1 DEF Stored
  <1>3. Ends(m, "if_dfile", v, i, << >>)
    BY DEF Dfile
  <1>4. Deleting(l)
    BY <1>1, LoadedDeletes
  <1> HIDE DEF l
  <1>5. Deleting(m)
    BY <1>4, DeleteStays
  <1> HIDE DEF m
  <1>6. m.ok \in BOOLEAN /\ m.disk \in [Bloc -> Contents] /\ m.disk[NSector] = Before[NSector]
    BY <1>5 DEF Deleting
  <1>7. \A k \in DOMAIN << >> : << >>[k] \in Octet
    OBVIOUS
  <1>8. Said' /\ deleted' \in BOOLEAN /\ vols' = VolumesOf(vols, m.disk)
    BY <1>1, <1>3, <1>6, <1>7, EndsSays DEF CommandNames
  <1> DEFINE w == VolumesOf(vols, m.disk)
  <1>9. /\ w \in [Volumes -> [0 .. NSector - 1 -> Contents]]
        /\ w[1][0] = m.disk[NSector]
        /\ \A u \in Volumes \ {0}, b \in 0 .. NSector - 1 :
              ~(u = 1 /\ b = 0) => w[u][b] = vols[u][b]
    BY <1>2, <1>6, VolumesOfIs
  <1> HIDE DEF w
  <1>10. vols' = w
    BY <1>8 DEF w
  <1>11. Before[NSector] = vols[1][0]
    BY <1>2, DiskOfIs DEF Before
  <1>12. Behind(w)
    BY <1>6, <1>9, <1>11 DEF Behind
  <1>13. KeptApart
    BY <1>10, <1>12, BehindApart
  <1>14. deleted'
    BY <1>3, EndsDeletes
  <1>15. IInv' /\ TypeOK'
    BY <1>8, <1>9, <1>10, <1>14 DEF IInv, TypeOK, Said
  <1> QED
    BY <1>13, <1>15 DEF Steps

(* mknfs.                                                                  *)
LEMMA MknfsSteps ==
    ASSUME Roomy, IInv, ~deleted, NEW v \in VolArgument, Mknfs(v)
    PROVE  Steps
  <1>1. v \in Volumes
    BY ONLY Mknfs(v), Zenon DEF Mknfs
  <1>2. Makes(v)
    BY <1>1, MknfsMakes DEF IInv
  <1>3. /\ Stored(vols') /\ printed' = << >> /\ deleted' = deleted
        /\ \A u \in Volumes \ {0}, b \in 0 .. NSector - 1 :
              vols'[u][b] # vols[u][b] => u = v /\ b \in {0, 1}
    BY <1>2 DEF Makes
  <1>4. PICK ok \in BOOLEAN : command' = Ran("mknfs", v, NULL_BLOC, ok)
    BY <1>2 DEF Makes
  <1>5. command'.name = "mknfs" /\ command'.vol = v
    BY <1>4 DEF Ran
  <1>6. KeptApart
    BY <1>3, <1>5 DEF KeptApart, vol_courant
  <1>7. Said'
    <2>1. NULL_BLOC \in Bloc
      BY NSectorAssumption DEF Bloc, NULL_BLOC
    <2>2. command' \in [name : CommandNames, vol : VolArgument, inumber : Bloc, ok : BOOLEAN]
      BY <1>4, <2>1, RanIs DEF CommandNames
    <2>3. \A k \in DOMAIN printed' : printed'[k] \in Octet
      BY <1>3
    <2> QED
      BY <2>2, <2>3 DEF Said
  <1>8. IInv' /\ TypeOK'
    <2>1. deleted' \in BOOLEAN
      BY <1>3 DEF IInv
    <2> QED
      BY <1>3, <1>7, <2>1 DEF IInv, TypeOK, Said, Stored
  <1> QED
    BY <1>6, <1>8 DEF Steps

(* Nothing changes.                                                        *)
LEMMA StutterSteps ==
    ASSUME IInv, ~deleted, UNCHANGED vars
    PROVE  Steps
  <1>1. vols' = vols /\ printed' = printed /\ command' = command /\ deleted' = deleted
    BY DEF vars
  <1>2. KeptApart
    BY <1>1 DEF KeptApart
  <1>3. IInv' /\ TypeOK'
    BY <1>1 DEF IInv, TypeOK, Said, Stored
  <1> QED
    BY <1>2, <1>3 DEF Steps

(* Every step before the end of the first if_dfile.                        *)
LEMMA NextSteps ==
    ASSUME Roomy, IInv, ~deleted, [Next]_vars
    PROVE  Steps
  <1>1. CASE UNCHANGED vars
    BY <1>1, StutterSteps
  <1>2. CASE Next
    <2>1. PICK v \in VolArgument :
            \/ Mknfs(v)
            \/ \E input \in Inputs : Nfile(v, input)
            \/ \E i \in Bloc : Pfile(v, i) \/ Cfile(v, i) \/ Dfile(v, i)
      BY <1>2 DEF Next
    <2>2. CASE Mknfs(v)
      BY <2>2, MknfsSteps
    <2>3. CASE \E input \in Inputs : Nfile(v, input)
      BY <2>3, NfileSteps
    <2>4. ASSUME NEW i \in Bloc, Pfile(v, i)
          PROVE  Steps
      BY <2>4, PfileSteps
    <2>5. ASSUME NEW i \in Bloc, Cfile(v, i)
          PROVE  Steps
      BY <2>5, CfileSteps
    <2>6. ASSUME NEW i \in Bloc, Dfile(v, i)
          PROVE  Steps
      BY <2>6, DfileSteps
    <2> QED
      BY <2>1, <2>2, <2>3, <2>4, <2>5, <2>6
  <1> QED
    BY <1>1, <1>2

(* Once if_dfile has run, it has run.                                      *)
LEMMA DeletedStays ==
    ASSUME IInv, deleted, [Next]_vars
    PROVE  IInv' /\ KeptApart
  <1>1. ASSUME UNCHANGED vars
        PROVE  deleted' \in BOOLEAN /\ deleted'
    BY <1>1 DEF vars, IInv
  <1>2. ASSUME Next
        PROVE  deleted' \in BOOLEAN /\ deleted'
    <2>1. PICK v \in VolArgument :
            \/ Mknfs(v)
            \/ \E input \in Inputs : Nfile(v, input)
            \/ \E i \in Bloc : Pfile(v, i) \/ Cfile(v, i) \/ Dfile(v, i)
      BY <1>2 DEF Next
    <2>2. ASSUME Mknfs(v)
          PROVE  deleted' \in BOOLEAN /\ deleted'
      <3>1. deleted' = deleted
        BY ONLY <2>2, Zenon DEF Mknfs
      <3> QED
        BY <3>1 DEF IInv
    <2>3. ASSUME NEW input \in Inputs, Nfile(v, input)
          PROVE  deleted' \in BOOLEAN /\ deleted'
      BY <2>3, EndsDeletes DEF Nfile
    <2>4. ASSUME NEW i \in Bloc, Pfile(v, i)
          PROVE  deleted' \in BOOLEAN /\ deleted'
      BY <2>4, EndsDeletes DEF Pfile
    <2>5. ASSUME NEW i \in Bloc, Cfile(v, i)
          PROVE  deleted' \in BOOLEAN /\ deleted'
      BY <2>5, EndsDeletes DEF Cfile
    <2>6. ASSUME NEW i \in Bloc, Dfile(v, i)
          PROVE  deleted' \in BOOLEAN /\ deleted'
      BY <2>6, EndsDeletes DEF Dfile
    <2> QED
      BY <2>1, <2>2, <2>3, <2>4, <2>5, <2>6
  <1>3. deleted' \in BOOLEAN /\ deleted'
    BY <1>1, <1>2
  <1> QED
    BY <1>3 DEF IInv, KeptApart

(* A disk on which nothing was written.                                    *)
LEMMA InitInv ==
    ASSUME Init
    PROVE  IInv
  <1>1. /\ vols = [v \in Volumes |-> Blank] /\ printed = << >> /\ deleted = FALSE
        /\ command = Ran("none", vol_courant, NULL_BLOC, TRUE)
    BY DEF Init
  <1>2. Blank \in [0 .. NSector - 1 -> Contents]
    BY ContentsAre DEF Blank
  <1>3. Stored(vols)
    <2>1. vols \in [Volumes -> [0 .. NSector - 1 -> Contents]]
      BY <1>1, <1>2
    <2>2. \A v \in Volumes : vols[v] = Blank
      BY <1>1
    <2>3. Blank[0] = Zero
      BY VolumesAre DEF Blank
    <2> QED
      BY <2>1, <2>2, <2>3, VolumesAre DEF Stored, FirstBlocs
  <1>4. Said
    <2>1. vol_courant \in VolArgument /\ NULL_BLOC \in Bloc
      BY CommandsAssumption, NSectorAssumption DEF VolArgument, vol_courant, Bloc, NULL_BLOC
    <2>2. \A ok \in BOOLEAN : Ran("none", vol_courant, NULL_BLOC, ok) \in
             [name : CommandNames, vol : VolArgument, inumber : Bloc, ok : BOOLEAN]
      BY <2>1, RanIs DEF CommandNames
    <2>3. Ran("none", vol_courant, NULL_BLOC, TRUE) \in
             [name : CommandNames, vol : VolArgument, inumber : Bloc, ok : BOOLEAN]
      BY ONLY <2>2, Zenon
    <2>4. \A k \in DOMAIN printed : printed[k] \in Octet
      <3>1. printed = << >>
        BY <1>1
      <3> QED
        BY ONLY <3>1
    <2>5. command = Ran("none", vol_courant, NULL_BLOC, TRUE)
      BY ONLY <1>1, Zenon
    <2> QED
      BY ONLY <2>3, <2>4, <2>5, Zenon DEF Said
  <1>5. deleted \in BOOLEAN
    BY ONLY <1>1
  <1> QED
    BY <1>3, <1>4, <1>5 DEF IInv

(* The invariant is inductive.                                             *)
LEMMA Inductive ==
    ASSUME Roomy
    PROVE  Spec => []IInv
  <1>1. Init => IInv
    BY InitInv
  <1>2. IInv /\ [Next]_vars => IInv'
    <2> SUFFICES ASSUME IInv, [Next]_vars
                 PROVE  IInv'
      OBVIOUS
    <2>1. CASE deleted
      BY <2>1, DeletedStays
    <2>2. CASE ~deleted
      BY <2>2, NextSteps DEF Steps
    <2> QED
      BY <2>1, <2>2
  <1> QED
    BY <1>1, <1>2, PTL DEF Spec

-----------------------------------------------------------------------------
(***************************************************************************)
(* On volumes of any size, and any number of them, what the commands leave  *)
(* on the disk are super blocs, headers, inodes, tables and data of the     *)
(* right types, each number in them that of a bloc, until the first         *)
(* if_dfile and still when it has ended.  From then on blocs may be handed  *)
(* out twice (free_bloc of a hole frees bloc 0), and nothing is claimed.    *)
(***************************************************************************)
THEOREM CommandsTypes ==
    ASSUME Roomy
    PROVE  Spec => [](~deleted => TypeOK) /\ [][~deleted => TypeOK']_vars
  <1>1. IInv => (~deleted => TypeOK)
    BY StoredTypes
  <1>2. IInv /\ [Next]_vars => [~deleted => TypeOK']_vars
    <2> SUFFICES ASSUME IInv, [Next]_vars, ~deleted
                 PROVE  TypeOK'
      OBVIOUS
    <2> QED
      BY NextSteps DEF Steps
  <1>3. Spec => []IInv
    BY Inductive
  <1> QED
    BY <1>1, <1>2, <1>3, PTL DEF Spec

(***************************************************************************)
(* On volumes of any size, and any number of them, a volume that is neither *)
(* the one a command is told nor vol_courant keeps all its blocs, but the   *)
(* one behind vol_courant its super bloc when the command takes the last    *)
(* bloc there.                                                             *)
(***************************************************************************)
THEOREM VolumesStayApart ==
    ASSUME Roomy
    PROVE  Spec => VolumesApart
  <1>1. IInv /\ [Next]_vars => [KeptApart]_vars
    <2> SUFFICES ASSUME IInv, [Next]_vars
                 PROVE  KeptApart
      OBVIOUS
    <2>1. CASE deleted
      BY <2>1, DeletedStays
    <2>2. CASE ~deleted
      BY <2>2, NextSteps DEF Steps
    <2> QED
      BY <2>1, <2>2
  <1>2. Spec => []IInv
    BY Inductive
  <1>3. Spec => [][KeptApart]_vars
    BY <1>1, <1>2, PTL DEF Spec
  <1> QED
    BY <1>3 DEF VolumesApart, KeptApart
=============================================================================

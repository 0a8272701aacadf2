------------------------------- MODULE Inodes -------------------------------
(***************************************************************************)
(* The inodes of one volume: the calls of src/filesystem.c that create and  *)
(* read them, and the walk from a bloc of a file (fbloc) to a bloc of the   *)
(* volume (vbloc) through the direct, indirect and double indirect tables.  *)
(*                                                                         *)
(* A table is the function from its indices to the bloc numbers it holds.   *)
(* Its octets are taken apart (High, Low) only where the code reads an      *)
(* octet as if it were the whole number.                                    *)
(***************************************************************************)
EXTENDS Blocs

CONSTANTS
  NB_BLOCS,     \* entries of each table (10 in filesystem.h:68)
  OCTET         \* 256: the values of an unsigned char

ASSUME InodesAssumption == NB_BLOCS \in Nat \ {0} /\ OCTET \in Nat \ {0, 1}

Index == 0 .. NB_BLOCS - 1

\* The file blocs an inode can name.
MaxFbloc == (2 + NB_BLOCS) * NB_BLOCS

Inode(type, taille, direct, indirect, double) ==
    [kind |-> "inode", type |-> type, taille |-> taille, direct |-> direct,
     indirect |-> indirect, double |-> double]

NoBlocs == [k \in Index |-> NULL_BLOC]

Table(entries) == [kind |-> "table", entries |-> entries]

High(bloc) == bloc \div OCTET
Low(bloc)  == bloc % OCTET

\* Octet k of a table: entry k \div 2, its high octet first.
OctetOf(entries, k) ==
    IF k % 2 = 0 THEN High(entries[k \div 2]) ELSE Low(entries[k \div 2])

Larger(a, b) == IF a >= b THEN a ELSE b

-----------------------------------------------------------------------------
(* A bloc read as a table.  A bloc that was just cleaned is a table of      *)
(* NULL_BLOCs.  Reading anything else as a table stops the machine: it      *)
(* takes a bloc that belongs to two owners, and the code would then follow  *)
(* whatever octets it finds.                                               *)
IsTable(c) == c.kind \in {"zero", "table"}

Entries(c) == IF c.kind = "table" THEN c.entries ELSE NoBlocs

\* Mutant: the inode is written where the next bloc will be taken.
CreateInodeMisplaced(m, type) ==
    LET got == NewBloc(m)
    IN  WriteBloc(got, got.super.first_free,
                  Inode(type, 0, NoBlocs, NULL_BLOC, NULL_BLOC))

\* The bloc a call has returned is written, cleaned, or named in the inode or
\* table at.
WriteFound(found, content) == WriteBloc(found, found.ret, content)

CleanFound(found) == WriteFound(found, Zero)

NameFound(found, at, Naming(_)) == WriteBloc(found, at, Naming(found.ret))

\* create_inode: on a full volume new_bloc returns 0, the bloc of the super bloc.
CreateInode(m, type) ==
    WriteFound(NewBloc(m), Inode(type, 0, NoBlocs, NULL_BLOC, NULL_BLOC))

-----------------------------------------------------------------------------
(* aux_vbloc_of_fbloc, one operator for each of its three parts.           *)

Grown(inode, fbloc) == [inode EXCEPT !.taille = Larger(@, fbloc + 1)]

Direct(m, i, fbloc, do_allocate) ==
    LET inode == m.disk[i]
        Naming(bloc) == [Grown(inode, fbloc) EXCEPT !.direct[fbloc] = bloc]
    IN  IF inode.direct[fbloc] # NULL_BLOC THEN Return(m, inode.direct[fbloc])
        ELSE IF ~do_allocate THEN Return(m, NULL_BLOC)
        ELSE CleanFound(NameFound(NewBloc(m), i, Naming))

\* Mutant: the table is not written back.
IndirectEntryUnwritten(m, table, idx, do_allocate) ==
    LET entries == Entries(m.disk[table])
    IN  IF ~m.ok \/ ~IsTable(m.disk[table]) THEN Stopped(m)
        ELSE IF entries[idx] # NULL_BLOC THEN Return(m, entries[idx])
        ELSE IF ~do_allocate THEN Return(m, NULL_BLOC)
        ELSE CleanFound(NewBloc(m))

\* The bloc at entry idx of a table, allocated if it must be.
IndirectEntry(m, table, idx, do_allocate) ==
    LET entries == Entries(m.disk[table])
        Naming(bloc) == Table([entries EXCEPT ![idx] = bloc])
    IN  IF ~m.ok \/ ~IsTable(m.disk[table]) THEN Stopped(m)
        ELSE IF entries[idx] # NULL_BLOC THEN Return(m, entries[idx])
        ELSE IF ~do_allocate THEN Return(m, NULL_BLOC)
        ELSE CleanFound(NameFound(NewBloc(m), table, Naming))

\* The inode grows only when its indirect table is created.
Indirect(m, i, fbloc, do_allocate) ==
    LET inode == m.disk[i]
        Naming(bloc) == [Grown(inode, fbloc) EXCEPT !.indirect = bloc]
        Within(found) == IndirectEntry(found, found.ret, fbloc - NB_BLOCS, do_allocate)
    IN  IF inode.indirect # NULL_BLOC THEN Within(Return(m, inode.indirect))
        ELSE IF ~do_allocate THEN Return(m, NULL_BLOC)
        ELSE Within(NameFound(CleanFound(NewBloc(m)), i, Naming))

(* Entry idx of a level 2 table.  Octet idx, twice, is tested in place of   *)
(* entry idx.                                                              *)
DoubleEntry(m, i, inode, table2, fbloc, idx, do_allocate) ==
    LET entries == Entries(m.disk[table2])
        octet   == OctetOf(entries, idx)
        Naming(bloc) == Table([entries EXCEPT ![idx] = bloc])
    IN  IF ~m.ok \/ ~IsTable(m.disk[table2]) THEN Stopped(m)
        ELSE IF octet * OCTET + octet # NULL_BLOC THEN Return(m, entries[idx])
        ELSE IF ~do_allocate THEN Return(m, NULL_BLOC)
        ELSE CleanFound(NameFound(WriteBloc(CleanFound(NewBloc(m)), i, Grown(inode, fbloc)),
                                  table2, Naming))

\* The level 1 table holds a level 2 table at idx1; the high octet of its
\* number is shifted the wrong way and lost.
DoubleTable(m, i, inode, table1, fbloc, do_allocate) ==
    LET idx1    == ((fbloc - NB_BLOCS) \div NB_BLOCS) - 1
        idx2    == (fbloc - NB_BLOCS * 2) - idx1 * NB_BLOCS
        entries == Entries(m.disk[table1])
        table2  == (High(entries[idx1]) \div OCTET) + Low(entries[idx1])
        Naming(bloc) == Table([entries EXCEPT ![idx1] = bloc])
        Within(found) == DoubleEntry(found, i, inode, found.ret, fbloc, idx2, do_allocate)
    IN  IF ~m.ok \/ ~IsTable(m.disk[table1]) THEN Stopped(m)
        ELSE IF table2 # NULL_BLOC THEN Within(Return(m, table2))
        ELSE IF ~do_allocate THEN Return(m, NULL_BLOC)
        ELSE Within(NameFound(CleanFound(NewBloc(m)), table1, Naming))

Double(m, i, fbloc, do_allocate) ==
    LET Naming(bloc) == [m.disk[i] EXCEPT !.double = bloc]
        Within(found, inode) == DoubleTable(found, i, inode, inode.double, fbloc, do_allocate)
        Made(found) == Within(found, Naming(found.ret))
    IN  IF m.disk[i].double # NULL_BLOC THEN Within(m, m.disk[i])
        ELSE IF ~do_allocate THEN Return(m, NULL_BLOC)
        ELSE Made(NameFound(CleanFound(NewBloc(m)), i, Naming))

\* The assert of read_inode and the exit without a super bloc come first.
AuxVblocOfFbloc(m, i, fbloc, do_allocate) ==
    IF ~m.ok \/ m.disk[i].kind # "inode" \/ m.super = NoSuper THEN Stopped(m)
    ELSE IF fbloc < NB_BLOCS THEN Direct(m, i, fbloc, do_allocate)
    ELSE IF fbloc < 2 * NB_BLOCS THEN Indirect(m, i, fbloc, do_allocate)
    ELSE IF fbloc < MaxFbloc THEN Double(m, i, fbloc, do_allocate)
    ELSE Return(m, NULL_BLOC)

VblocOfFbloc(m, i, fbloc) == AuxVblocOfFbloc(m, i, fbloc, FALSE)

AllocateVblocOfFbloc(m, i, fbloc) == AuxVblocOfFbloc(m, i, fbloc, TRUE)

-----------------------------------------------------------------------------
(* What the blocs of disk d say, for the properties.                       *)

EntriesOf(d, table) ==
    IF table = NULL_BLOC THEN {}
    ELSE { <<table, k, Entries(d[table])[k]>> : k \in Index }

\* The blocs named from inode i on: <<the holder of the name, where, the bloc>>.
NamedFrom(d, i) ==
    LET inode   == d[i]
        second  == { e[3] : e \in EntriesOf(d, inode.double) }
    IN  { n \in { <<i, k, inode.direct[k]>> : k \in Index }
                \cup {<<i, NB_BLOCS, inode.indirect>>, <<i, NB_BLOCS + 1, inode.double>>}
                \cup EntriesOf(d, inode.indirect) \cup EntriesOf(d, inode.double)
                \cup UNION { EntriesOf(d, t) : t \in second } :
          n[3] # NULL_BLOC }

EntryOf(d, table, k) ==
    IF table = NULL_BLOC THEN NULL_BLOC ELSE Entries(d[table])[k]

\* The bloc that inode i and its tables name for a file bloc.
NamedBloc(d, i, fbloc) ==
    LET above == fbloc - 2 * NB_BLOCS
    IN  IF fbloc < NB_BLOCS THEN d[i].direct[fbloc]
        ELSE IF above < 0 THEN EntryOf(d, d[i].indirect, fbloc - NB_BLOCS)
        ELSE EntryOf(d, EntryOf(d, d[i].double, above \div NB_BLOCS), above % NB_BLOCS)
=============================================================================

------------------------------ MODULE Directory ------------------------------
(***************************************************************************)
(* Directories and files by pathname on one volume: src/dir.c and           *)
(* src/file.c over the calls of ifile.c, and mknfs that makes the root.     *)
(*                                                                         *)
(* An octet of Descriptors is here half an entry: the number and the name   *)
(* of an entry are one unit each.  SECTOR is odd, so that an entry may lie  *)
(* across two sectors, as in the code, where 512 is no multiple of the 20   *)
(* octets of struct entry_s.                                               *)
(*                                                                         *)
(* A program is stopped by its own asserts and exits, or killed between two *)
(* of the sector writes of a call.                                         *)
(***************************************************************************)
EXTENDS Descriptors

CONSTANTS
  Names,        \* the names of less than ENTRYMAXLENGTH octets
  Long,         \* a name of ENTRYMAXLENGTH octets or more
  Cut,          \* its first ENTRYMAXLENGTH - 1 octets, itself a name
  Paths,        \* the pathnames programs use
  Creations,    \* the files they create: pairs of a pathname and a type
  MaxKills      \* BOUND: calls that are killed

\* What lies between two '/' with nothing between them; also a null name field.
EMPTY == 0

\* What half an entry is.
Halves == Bloc \cup Names \cup {EMPTY, HEADER}

(***************************************************************************)
(* A pathname is the row of names between its '/', the first one left out:  *)
(* "/a/b" is <<a, b>>, "/a/" is <<a, EMPTY>>, "/" is <<EMPTY>>.  A pathname *)
(* that does not begin with '/' is << >>.                                  *)
(***************************************************************************)
ASSUME DirectoryAssumption ==
    /\ Cut \in Names /\ Long \notin Names /\ EMPTY \notin Names \cup {Long}
    /\ Paths \subseteq Seq(Names \cup {EMPTY, Long})
    /\ \A path \in Paths : \A k \in DOMAIN path : path[k] = Long => k = Len(path)
    /\ \A creation \in Creations : creation[1] \in Paths
    /\ MaxKills \in Nat

VARIABLES
  disk,     \* the blocs of the volume
  super,    \* super_courant, NoSuper when no program runs
  answer,   \* the last call of a program, and what it returned
  kills     \* history: the calls killed so far

vars == <<disk, super, answer, kills>>

Answer(call, path, ret) == [call |-> call, path |-> path, ret |-> ret]

NONE == -2
STOPPED == -4           \* the call did not return

NoAnswer == Answer("none", << >>, NONE)

RETURN_SUCCESS == 0
RETURN_FAILURE == -1
ENTRY == 2              \* sizeof(struct entry_s)

NullEntry == <<NULL_BLOC, EMPTY>>

-----------------------------------------------------------------------------
(* Entries of the directory that is open in the descriptor of u.           *)

\* The loop of new_entry and find_entry: the entries are read from the start
\* to the first that is wanted or to the end of the file.
Looked(r, k, wanted) ==
    [use |-> r.use, index |-> k, eof |-> r.eof, found |-> ~r.eof /\ r.octets \in wanted]

Look(s, k, idir, wanted) ==
    IF s.found \/ s.eof THEN s ELSE Looked(ReadIfile(s.use, idir, ENTRY), k, wanted)

Scan(u, idir, wanted) ==
    LET slots == (u.descriptor.size * SECTOR) \div ENTRY
        looked[k \in 0 .. slots + 1] ==
          IF k = 0 THEN [use |-> u, index |-> 0, eof |-> FALSE, found |-> FALSE]
                   ELSE Look(looked[k - 1], k - 1, idir, wanted)
    IN  looked[slots + 1]

NewEntry(u, idir) == Scan(u, idir, {NULL_BLOC} \X Halves)

FindEntry(u, idir, basename) ==
    Scan(u, idir, (Halves \ {NULL_BLOC}) \X {basename})

SeekEntry(scanned, idir) ==
    SeekIfile(scanned.use.machine, idir, scanned.use.descriptor,
              scanned.index * ENTRY)

CloseUsing(u, idir) == FlushIfile(u.machine, idir, u.descriptor)

\* The entry is written where the scan ended, and the directory closed.
PutEntry(scanned, idir, entry) ==
    CloseUsing(WriteIfile(SeekEntry(scanned, idir), idir, entry), idir)

\* The assert of read_inode.
IsInode(m, i) == m.ok /\ m.disk[i].kind = "inode"

IsDirectory(m, i) == IsInode(m, i) /\ m.disk[i].type = "DIRECTORY"

\* The call of a directory: Do of it, or not_dir if i is another inode.
OnDirectory(m, i, not_dir, Do(_)) ==
    IF ~IsInode(m, i) THEN Stopped(m)
    ELSE IF ~IsDirectory(m, i) THEN Return(m, not_dir)
    ELSE Do(OpenIfile(m, i))

\* strncpy and the null octet behind it.
StoredName(basename) == IF basename = Long THEN Cut ELSE basename

\* Mutant: the entry is always appended.
AddEntryAtEnd(m, idir, inumber, basename) ==
    OnDirectory(m, idir, RETURN_FAILURE, LAMBDA u :
      Return(PutEntry(Scan(u, idir, {}), idir,
                      <<inumber, StoredName(basename)>>),
             RETURN_SUCCESS))

\* Mutant: the name is written in full.
AddEntryUncut(m, idir, inumber, basename) ==
    OnDirectory(m, idir, RETURN_FAILURE, LAMBDA u :
      Return(PutEntry(NewEntry(u, idir), idir, <<inumber, basename>>),
             RETURN_SUCCESS))

\* add_entry does not look for the name: a directory may have it twice.
AddEntry(m, idir, inumber, basename) ==
    OnDirectory(m, idir, RETURN_FAILURE, LAMBDA u :
      Return(PutEntry(NewEntry(u, idir), idir, <<inumber, StoredName(basename)>>),
             RETURN_SUCCESS))

\* del_entry answers what write_ifile answered.
DelFound(scanned, idir) ==
    IF scanned.found
      THEN Return(PutEntry(scanned, idir, NullEntry), ENTRY)
      ELSE Return(scanned.use.machine, RETURN_FAILURE)

DelEntry(m, idir, basename) ==
    OnDirectory(m, idir, RETURN_FAILURE,
                LAMBDA u : DelFound(FindEntry(u, idir, basename), idir))

\* The entry found is read again.
InumberFound(scanned, idir) ==
    LET Inumber(r) == Return(r.use.machine, r.octets[1])
    IN  IF scanned.found /\ scanned.use.machine.ok
          THEN Inumber(ReadIfile(SeekEntry(scanned, idir), idir, ENTRY))
          ELSE Return(scanned.use.machine, NULL_BLOC)

InumberOfBasename(m, idir, basename) ==
    OnDirectory(m, idir, NULL_BLOC,
                LAMBDA u : InumberFound(FindEntry(u, idir, basename), idir))

-----------------------------------------------------------------------------
(* Pathnames.                                                              *)

\* A basename that is not found ends the walk; a root of 0 does not.
WalkOn(at, basename, root) ==
    IF basename = EMPTY \/ (at.ret = NULL_BLOC /\ root # NULL_BLOC) THEN at
    ELSE InumberOfBasename(at, at.ret, basename)

InumberOfPath(m, path) ==
    LET root == m.super.root
        walked[k \in 0 .. Len(path)] ==
          IF k = 0 THEN Return(m, root) ELSE WalkOn(walked[k - 1], path[k], root)
    IN  IF path = << >> THEN Return(m, NULL_BLOC) ELSE walked[Len(path)]

\* The pathname up to its last '/'.
Dirname(path) == [path EXCEPT ![Len(path)] = EMPTY]

\* The walk has found a directory, or the answer is 0.
IfDirectory(dir) ==
    IF ~dir.ok \/ dir.ret = NULL_BLOC THEN dir
    ELSE OnDirectory(dir, dir.ret, NULL_BLOC, LAMBDA u : dir)

DinumberOfPath(m, path) ==
    IF path = << >> THEN Return(m, NULL_BLOC)
    ELSE IfDirectory(InumberOfPath(m, Dirname(path)))

\* The next call, when the last one stopped or found no inode it says so.
OnInumber(m, Do(_)) ==
    IF ~m.ok THEN m
    ELSE IF m.ret = NULL_BLOC THEN Return(m, RETURN_FAILURE)
    ELSE Do(m)

\* Mutant: the entry is made first, with the number the inode will have.
CreateFileEntryFirst(m, path, type) ==
    LET Linked(dir) == AddEntry(dir, dir.ret, dir.super.first_free + 1, Last(path))
    IN  OnInumber(DinumberOfPath(m, path), LAMBDA dir :
          Return(CreateInode(Linked(dir), type), RETURN_SUCCESS))

\* The inode is made before the directory has a place for it.
CreateFile(m, path, type) ==
    OnInumber(DinumberOfPath(m, path), LAMBDA dir :
      OnInumber(CreateInode(dir, type), LAMBDA new :
        AddEntry(new, dir.ret, new.ret, Last(path))))

\* The file itself is left as it is: no bloc is freed.
DeleteFile(m, path) ==
    OnInumber(DinumberOfPath(m, path), LAMBDA dir : DelEntry(dir, dir.ret, Last(path)))

\* open_file, followed by what reads inoeud in the descriptor.
OpenFile(m, path) ==
    OnInumber(InumberOfPath(m, path), LAMBDA found :
      Return(OpenIfile(found, found.ret).machine, found.ret))

-----------------------------------------------------------------------------
Now == Machine(disk, super)

\* The call returns, or stops the program.
Returns(m, call, path) ==
    /\ disk' = m.disk
    /\ super' = IF m.ok THEN m.super ELSE NoSuper
    /\ answer' = Answer(call, path, IF m.ok THEN m.ret ELSE STOPPED)
    /\ UNCHANGED kills

\* Disk d once the first n of the writes have reached it.
After(d, writes, n) ==
    LET to(b) == { k \in 1 .. n : writes[k][1] = b }
    IN  [b \in Bloc |-> IF to(b) = {} THEN d[b] ELSE writes[Max(to(b))][2]]

\* The program is killed in the call, after some of its sector writes.
Killed(m, call, path) ==
    /\ kills < MaxKills
    /\ \E n \in 1 .. Len(m.log) - 1 : disk' = After(disk, m.log, n)
    /\ super' = NoSuper
    /\ answer' = Answer(call, path, STOPPED)
    /\ kills' = kills + 1

\* A call is one step: its machine is worked out once.
Call(call, path, m) ==
    /\ super # NoSuper
    /\ \E done \in {m} : Returns(done, call, path) \/ Killed(done, call, path)

Init ==
    /\ disk = [b \in Bloc |-> Zero]
    /\ super = NoSuper
    /\ answer = NoAnswer
    /\ kills = 0

\* No file was made on the volume but by an mknfs that was killed.
Unused == /\ disk[0].kind \in {"zero", "super"}
          /\ disk[0].kind = "super" => disk[0].root = NULL_BLOC
          /\ \A b \in Bloc \ 0 .. 2 : disk[b] = Zero

\* mknfs on volume 0, a whole program: init_super, create_ifile(DIRECTORY),
\* load_super, write_super_bloc.
Mknfs ==
    LET made   == CreateInode(InitSuper(Now), "DIRECTORY")
        loaded == LoadSuper(made)
        rooted == SaveSuper([loaded EXCEPT !.super.root = made.ret])
    IN  /\ super = NoSuper
        /\ Unused
        /\ \/ /\ disk' = rooted.disk
              /\ answer' = NoAnswer
              /\ UNCHANGED <<super, kills>>
           \/ Killed(rooted, "mknfs", << >>)

\* mount: a program starts.
Mount ==
    /\ super = NoSuper
    /\ disk[0].kind = "super"
    /\ super' = LoadSuper(Now).super
    /\ answer' = NoAnswer
    /\ UNCHANGED <<disk, kills>>

Create(path, type) == Call("create", path, CreateFile(Now, path, type))

Delete(path) == Call("delete", path, DeleteFile(Now, path))

\* A name of ENTRYMAXLENGTH octets or more is not looked up: undefined in C.
Open(path) ==
    /\ \A k \in DOMAIN path : path[k] # Long
    /\ Call("open", path, OpenFile(Now, path))

\* The program ends between two calls.
Exit ==
    /\ super # NoSuper
    /\ super' = NoSuper
    /\ answer' = NoAnswer
    /\ UNCHANGED <<disk, kills>>

Next ==
    \/ Mknfs \/ Mount \/ Exit
    \/ \E path \in Paths :
          Delete(path) \/ Open(path)
    \/ \E creation \in Creations : Create(creation[1], creation[2])

Spec == Init /\ [][Next]_vars

-----------------------------------------------------------------------------
InodeBlocs == { b \in Bloc : disk[b].kind = "inode" }

Directories == { b \in InodeBlocs : disk[b].type = "DIRECTORY" }

\* mknfs is done, and the super bloc is there.
Rooted == disk[0].kind = "super" /\ disk[0].root # NULL_BLOC

(***************************************************************************)
(* A bloc was asked of the full volume and the answer, 0, used as a bloc:   *)
(* the super bloc is lost.                                                 *)
(***************************************************************************)
SuperLost == ~Rooted /\ ~Unused

HalfEntry(d, p) ==
    LET b == NamedBloc(disk, d, PositionToFbloc(p))
    IN  IF b = NULL_BLOC THEN 0 ELSE Octets(disk[b])[p % SECTOR]

\* <<directory, place in it, name, inumber>>, for each entry within taille.
Links ==
    { link \in UNION { { <<d, k, HalfEntry(d, ENTRY * k + 1), HalfEntry(d, ENTRY * k)>> :
                            k \in 0 .. (disk[d].taille * SECTOR) \div ENTRY - 1 } :
                         d \in Directories } :
        link[4] # NULL_BLOC }

Contents ==
    { Zero }
    \cup [kind : {"super"}, root : Bloc, nb_free_blc : Nat, first_free : Bloc]
    \cup [kind : {"free"}, nb_free_blocs : Nat, next : Bloc]
    \cup [kind : {"data"}, octets : [0 .. SECTOR - 1 -> Halves]]
    \cup [kind : {"table"}, entries : [Index -> Bloc]]
    \cup [kind : {"inode"}, type : {"DIRECTORY"} \cup { cr[2] : cr \in Creations },
          taille : 0 .. MaxFbloc, direct : [Index -> Bloc], indirect : Bloc,
          double : Bloc]

(* The variables keep their types: no name is stored that does not fit.    *)
TypeOK ==
    /\ disk \in [Bloc -> Contents]
    /\ super = NoSuper \/ (super \in Contents /\ super.kind = "super")
    /\ answer \in [call : {"none", "mknfs", "create", "delete", "open"},
                   path : Paths \cup {<< >>},
                   ret : Bloc \cup {RETURN_FAILURE, NONE, STOPPED}]
    /\ kills \in 0 .. MaxKills

(***************************************************************************)
(* Whatever call is killed after whatever sector write, a name in a         *)
(* directory is the name of an inode, never of a bloc that was not yet or   *)
(* not at all written as one.  (An entry without a name may hold anything:  *)
(* see HEADER.)                                                            *)
(***************************************************************************)
EntriesNameInodes ==
    Rooted =>
      \A link \in Links : link[3] \in Names => link[4] \in InodeBlocs

(***************************************************************************)
(* The blocs new_bloc handed out are inodes or are named once, by one       *)
(* inode or table; each killed call loses one bloc at most.                 *)
(***************************************************************************)
BlocsNamedOnce ==
    LET named == UNION { NamedFrom(disk, i) : i \in InodeBlocs }
        taken == 1 .. disk[0].first_free - 1
    IN  Rooted =>
          /\ \A n1, n2 \in named : n1[3] = n2[3] => n1 = n2
          /\ { n[3] : n \in named } \cup InodeBlocs \subseteq taken
          /\ Cardinality(taken \ ({ n[3] : n \in named } \cup InodeBlocs)) <= kills

(***************************************************************************)
(* Directory implements Namespace: the lookups and the programs that end or *)
(* are killed at any place leave the tree of names as it was, but for what  *)
(* the call that was killed did; and a call is stopped by an assert or an   *)
(* exit only after a kill or on a full volume.  What the taille of a        *)
(* directory follows is its direct table and one entry of the indirect one. *)
(***************************************************************************)
Promise == INSTANCE Namespace WITH
    Inumbers <- Bloc \ {NULL_BLOC},
    Capacity <- ((NB_BLOCS + 1) * SECTOR) \div ENTRY,
    links    <- Links,
    types    <- [i \in InodeBlocs |-> disk[i].type],
    root     <- IF disk[0].kind = "super" THEN disk[0].root ELSE NULL_BLOC,
    killed   <- kills > 0,
    full     <- SuperLost

ImplementsNamespace == Promise!Spec

-----------------------------------------------------------------------------
(* What file.h says of the calls and the code does not do: Namespace        *)
(* promises neither.                                                       *)

\* No name is in a directory twice.
NoNameTwice ==
    \A k, l \in Links : k[1] = l[1] /\ k[3] = l[3] => k = l

\* A directory with names in it is the root or has a name itself.
NoNameCutOff ==
    \A link \in Links : link[1] = disk[0].root \/ \E l \in Links : l[4] = link[1]

(***************************************************************************)
(* create_file returns RETURN_FAILURE for a "pre-existing file"             *)
(* (file.h:25-26), which gives NoNameTwice, and delete_file for a "non      *)
(* empty directory" (file.h:29-30), which gives NoNameCutOff, as long as no *)
(* program is killed.  One of the two is asked for, so that a state without *)
(* either shows that both calls succeed where file.h says they fail.        *)
(***************************************************************************)
FileHeaderHolds == NoNameTwice \/ NoNameCutOff
=============================================================================

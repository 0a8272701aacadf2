-------------------------------- MODULE IFile --------------------------------
(***************************************************************************)
(* The files of src/ifile.c on one volume: create, open, read, write, seek, *)
(* flush, close and delete, by programs that run one after the other.       *)
(*                                                                         *)
(* A call is atomic, since a program has one thread; it can end between any *)
(* two calls with descriptors open.  BlocAllocator has the programs killed  *)
(* inside a call.                                                          *)
(***************************************************************************)
EXTENDS Descriptors

CONSTANTS
  Files,        \* the names a caller has for its files
  Values,       \* the octets a caller writes; 0 is one of them
  MaxPosition   \* BOUND: cursors go up to it (the code has MaxFbloc * SECTOR - 1)

ASSUME IFileAssumption ==
    /\ 0 \in Values /\ Values \subseteq 0 .. OCTET - 1
    /\ MaxPosition \in 1 .. MaxFbloc * SECTOR - 1

Position == 0 .. MaxPosition - 1

VARIABLES
  disk,     \* the blocs of the volume
  super,    \* super_courant, NoSuper when no program runs
  inumber,  \* inumber[f]: the inode of f, NULL_BLOC when f is not created
  fd,       \* fd[f]: the descriptor of f
  got,      \* what readc_ifile returned, when it was the last call
  deleted   \* history: delete_ifile was called

vars == <<disk, super, inumber, fd, got, deleted>>

NONE == -2

-----------------------------------------------------------------------------
Now == Machine(disk, super)

\* The call ends with the machine m and leaves the descriptors fds, or has
\* stopped the program: what it wrote before is on the disk.
Ends(m, fds) ==
    /\ disk' = m.disk
    /\ super' = IF m.ok THEN m.super ELSE NoSuper
    /\ fd' = IF m.ok THEN fds ELSE [f \in Files |-> Closed]

IsOpen(f) == super # NoSuper /\ ~fd[f].closed

Init ==
    /\ disk = InitSuper(Machine([b \in Bloc |-> Zero], NoSuper)).disk
    /\ super = NoSuper
    /\ inumber = [f \in Files |-> NULL_BLOC]
    /\ fd = [f \in Files |-> Closed]
    /\ got = NONE
    /\ deleted = FALSE

\* mount: a program starts.
Mount ==
    /\ super = NoSuper
    /\ Ends(LoadSuper(Now), fd)
    /\ got' = NONE
    /\ UNCHANGED <<inumber, deleted>>

\* create_ifile
Create(f) ==
    LET m == CreateInode(Now, "NORMAL")
    IN  /\ super # NoSuper
        /\ inumber[f] = NULL_BLOC
        /\ Ends(m, fd)
        /\ inumber' = IF m.ok THEN [inumber EXCEPT ![f] = m.ret] ELSE inumber
        /\ got' = NONE
        /\ UNCHANGED deleted

\* open_ifile
Open(f) ==
    LET u == OpenIfile(Now, inumber[f])
    IN  /\ super # NoSuper
        /\ inumber[f] # NULL_BLOC
        /\ fd[f].closed
        /\ Ends(u.machine, [fd EXCEPT ![f] = u.descriptor])
        /\ got' = NONE
        /\ UNCHANGED <<inumber, deleted>>

\* readc_ifile
Read(f) ==
    LET d == fd[f]
        s == SeekIfile(Now, inumber[f], d, d.cursor + 1)
    IN  /\ IsOpen(f)
        /\ ~AtEnd(d)
        /\ d.cursor < MaxPosition
        /\ Ends(s.machine, [fd EXCEPT ![f] = s.descriptor])
        /\ got' = IF s.machine.ok THEN CurrentOctet(d) ELSE NONE
        /\ UNCHANGED <<inumber, deleted>>

ReadEnd(f) ==
    /\ IsOpen(f)
    /\ AtEnd(fd[f])
    /\ got' = READ_EOF
    /\ UNCHANGED <<disk, super, fd, inumber, deleted>>

\* writec_ifile
Write(f, c) ==
    LET s == WritecIfile(Now, inumber[f], fd[f], c)
    IN  /\ IsOpen(f)
        /\ fd[f].cursor < MaxPosition
        /\ Ends(s.machine, [fd EXCEPT ![f] = s.descriptor])
        /\ got' = NONE
        /\ UNCHANGED <<inumber, deleted>>

\* seek_ifile and seek2_ifile, to a position of the file.
Seek(f, position) ==
    LET s == SeekIfile(Now, inumber[f], fd[f], position)
    IN  /\ IsOpen(f)
        /\ Ends(s.machine, [fd EXCEPT ![f] = s.descriptor])
        /\ got' = NONE
        /\ UNCHANGED <<inumber, deleted>>

\* flush_ifile: the descriptor stays modified.
Flush(f) ==
    /\ IsOpen(f)
    /\ Ends(FlushIfile(Now, inumber[f], fd[f]), fd)
    /\ got' = NONE
    /\ UNCHANGED <<inumber, deleted>>

\* close_ifile
Close(f) ==
    /\ IsOpen(f)
    /\ Ends(FlushIfile(Now, inumber[f], fd[f]), [fd EXCEPT ![f] = Closed])
    /\ got' = NONE
    /\ UNCHANGED <<inumber, deleted>>

\* delete_ifile, on a file the program has not open.
Delete(f) ==
    /\ super # NoSuper
    /\ inumber[f] # NULL_BLOC
    /\ fd[f].closed
    /\ Ends(DeleteIfile(Now, inumber[f]), fd)
    /\ inumber' = [inumber EXCEPT ![f] = NULL_BLOC]
    /\ got' = NONE
    /\ deleted' = TRUE

\* The program ends or is killed between two calls; umount saves nothing
\* either, its test of super_loaded being the wrong way round.
Exit ==
    /\ super # NoSuper
    /\ super' = NoSuper
    /\ fd' = [f \in Files |-> Closed]
    /\ got' = NONE
    /\ UNCHANGED <<disk, inumber, deleted>>

Next ==
    \/ Mount
    \/ \E f \in Files :
          \/ Create(f) \/ Open(f) \/ Read(f) \/ ReadEnd(f)
          \/ Flush(f) \/ Close(f) \/ Delete(f)
          \/ \E c \in Values : Write(f, c)
          \/ \E position \in Position : Seek(f, position)
    \/ Exit

Spec == Init /\ [][Next]_vars

-----------------------------------------------------------------------------
Contents ==
    { Zero }
    \cup [kind : {"super"}, root : {NULL_BLOC}, nb_free_blc : Nat, first_free : Bloc]
    \cup [kind : {"free"}, nb_free_blocs : Nat, next : Bloc]
    \cup [kind : {"data"}, octets : [0 .. SECTOR - 1 -> Values]]
    \cup [kind : {"table"}, entries : [Index -> Bloc]]
    \cup [kind : {"inode"}, type : {"NORMAL"}, taille : 0 .. MaxFbloc,
          direct : [Index -> Bloc], indirect : Bloc, double : Bloc]

(* The variables keep their types.                                         *)
TypeOK ==
    /\ disk \in [Bloc -> Contents]
    /\ super = NoSuper \/ (super \in Contents /\ super.kind = "super")
    /\ inumber \in [Files -> Bloc]
    /\ fd \in [Files -> [cursor : 0 .. MaxPosition, size : 0 .. MaxFbloc,
                         file_buffer : [0 .. SECTOR - 1 -> Values],
                         modified : BOOLEAN, closed : BOOLEAN]]
    /\ got \in Values \cup {READ_EOF, NONE}
    /\ deleted \in BOOLEAN

(***************************************************************************)
(* The super bloc was written over: what becomes of bloc 0 when a bloc is   *)
(* asked of a full volume and the answer, 0, is used as a bloc.             *)
(***************************************************************************)
SuperLost == disk[0].kind # "super"

Created == { f \in Files : inumber[f] # NULL_BLOC }

\* The names of blocs: <<the bloc (or the file) that holds it, where, the bloc it names>>.
Names == UNION { {<<f, 0, inumber[f]>>} \cup NamedFrom(disk, inumber[f]) : f \in Created }

(***************************************************************************)
(* As long as no file was deleted, the inodes, tables and data of all files *)
(* are in different blocs, and together they are all the blocs new_bloc has *)
(* handed out: none is shared, none is lost, even when programs end with    *)
(* files open, and up to the call that finds the volume full.  (The one     *)
(* bloc of a volume of two is never handed out: new_bloc answers 0.)        *)
(***************************************************************************)
BlocsAccountedFor ==
    ~deleted =>
      /\ \A f \in Created : disk[inumber[f]].kind = "inode"
      /\ \A n1, n2 \in Names : n1[3] = n2[3] => n1 = n2
      /\ NSector > 2 =>
           { n[3] : n \in Names } =
             1 .. (IF SuperLost THEN NSector ELSE disk[0].first_free) - 1

(***************************************************************************)
(* "Essaie de lire le fbloc-ieme de l'inode. Si le bloc est alloue, sont    *)
(* numero est retourne" (filesystem.c:486-487): after a call has allocated  *)
(* a bloc of the file, a call that may not allocate finds that bloc.        *)
(***************************************************************************)
AllocatedIsFound ==
    \A f \in Created, fbloc \in { PositionToFbloc(p) : p \in Position } :
       LET m == AllocateVblocOfFbloc(Now, inumber[f], fbloc)
       IN  super # NoSuper /\ ~deleted /\ m.ok /\ m.ret # NULL_BLOC
             => VblocOfFbloc(m, inumber[f], fbloc).ret = m.ret

(***************************************************************************)
(* Deleting a file whose file blocs below taille are all allocated gives    *)
(* the volume back these blocs and the inode, and leaves the super bloc     *)
(* readable.  (The second bloc named by the indirect table is beyond taille *)
(* and lost, as the table is; a hole is bloc 0, and freeing it writes over  *)
(* the super bloc.)                                                        *)
(***************************************************************************)
NoHoles(f) ==
    \A k \in 0 .. disk[inumber[f]].taille - 1 :
       VblocOfFbloc(Now, inumber[f], k).ret # NULL_BLOC

DeleteGivesBack ==
    [][\A f \in Created :
         ~deleted /\ ~SuperLost /\ inumber'[f] = NULL_BLOC /\ NoHoles(f)
           => /\ disk'[0] = super'
              /\ super'.nb_free_blc =
                   super.nb_free_blc + disk[inumber[f]].taille + 1]_vars

-----------------------------------------------------------------------------
(***************************************************************************)
(* IFile implements ByteFile: no interleaving of two files, no hole, no     *)
(* reading past the end and no program that ends early makes a read return  *)
(* an octet other than the last one written there, as long as the volume is *)
(* not full.  The Near part is what the direct table and the first entry of *)
(* the indirect one name: the taille of the inode does not follow beyond.   *)
(***************************************************************************)
StoredOctet(f, p) ==
    IF inumber[f] = NULL_BLOC THEN 0
    ELSE LET b == NamedBloc(disk, inumber[f], PositionToFbloc(p))
         IN  IF b = NULL_BLOC THEN 0 ELSE Octets(disk[b])[p % SECTOR]

ViewedOctet(f, p) ==
    IF ~IsOpen(f) THEN 0
    ELSE IF PositionToFbloc(p) = PositionToFbloc(fd[f].cursor)
      THEN fd[f].file_buffer[p % SECTOR]
    ELSE StoredOctet(f, p)

Promise == INSTANCE ByteFile WITH
    Near   <- (NB_BLOCS + 1) * SECTOR,
    stored <- [f \in Files |-> [p \in Position |-> StoredOctet(f, p)]],
    view   <- [f \in Files |-> [p \in Position |-> ViewedOctet(f, p)]],
    pos    <- [f \in Files |-> fd[f].cursor],
    limit  <- [f \in Files |-> fd[f].size * SECTOR],
    open   <- { f \in Files : IsOpen(f) },
    full   <- SuperLost

ImplementsByteFile == Promise!Spec
=============================================================================

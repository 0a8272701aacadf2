------------------------------ MODULE Commands ------------------------------
(***************************************************************************)
(* The commands mknfs, if_nfile, if_pfile, if_cfile and if_dfile on a disk  *)
(* of several volumes, each volume right behind the one before.            *)
(*                                                                         *)
(* A command loads the super bloc of the volume it is told, but every bloc  *)
(* it reads and writes from then on is a bloc of vol_courant, which nothing *)
(* assigns: volume 0.  It runs to its end, or to an assert or an exit.      *)
(***************************************************************************)
EXTENDS Descriptors

CONSTANTS
  NVol,         \* mbr.nvol
  MAX_VOLUME,   \* the volume numbers the commands accept end below it
  Types,        \* the types of the files if_nfile and if_cfile make
  Inputs        \* what if_nfile reads from its standard input

ASSUME CommandsAssumption ==
    /\ NVol \in Nat /\ MAX_VOLUME \in Nat /\ 1 < NVol /\ NVol <= MAX_VOLUME
    /\ Inputs \subseteq Seq(0 .. OCTET - 1)

Volumes == 0 .. NVol - 1

\* What read_vol lets through; BOUND: of the inumbers, those up to Bloc.
VolArgument == 0 .. MAX_VOLUME - 1

VARIABLES
  vols,     \* vols[v][b]: bloc b of volume v
  printed,  \* what if_pfile has printed, << >> for the other commands
  command,  \* history: the last command, what it was told and how it ended
  deleted   \* history: if_dfile has run

vars == <<vols, printed, command, deleted>>

vol_courant == 0

-----------------------------------------------------------------------------
(* The blocs of vol_courant, and the first one of the volume behind it.    *)
DiskOf(volumes) ==
    [b \in Bloc |-> IF b < NSector THEN volumes[vol_courant][b]
                                   ELSE volumes[vol_courant + 1][0]]

VolumesOf(volumes, d) ==
    [volumes EXCEPT ![vol_courant] = [b \in 0 .. NSector - 1 |-> d[b]],
                    ![vol_courant + 1][0] = d[NSector]]

\* load_super: nothing is loaded when there is no such volume.
Loaded(volumes, v) ==
    LET m == Machine(DiskOf(volumes), NoSuper)
    IN  IF v \notin Volumes THEN m
        ELSE IF volumes[v][0].kind = "super" THEN [m EXCEPT !.super = volumes[v][0]]
        ELSE Stopped(m)

\* new_bloc follows super_courant, NULL or not.
CreateIfile(m, type) ==
    IF m.super = NoSuper THEN Stopped(m) ELSE CreateInode(m, type)

CloseIfile(u, i) == FlushIfile(u.machine, i, u.descriptor)

\* if_nfile, once the inode is made.
Fill(m, i, input) == CloseIfile(WriteIfile(OpenIfile(m, i), i, input), i)

-----------------------------------------------------------------------------
(* The loop of if_pfile and if_cfile.  READ_EOF is looked for in a char, so *)
(* that the octet 0xFF is the end of the file too.                         *)

\* Mutant: a null octet ends the loop.
IsEofCharNull(c) == c = 0

IsEofChar(c) == c = OCTET - 1

LoopEnds(read) ==
    \/ read.eof \/ ~read.use.machine.ok
    \/ read.octets # << >> /\ IsEofChar(Last(read.octets))

\* As many turns of the loop as the file has octets, and one.
Turns(d) == d.size * SECTOR + 1

NothingRead(u) == [use |-> u, octets |-> << >>, eof |-> FALSE]

PrintTurn(read, i) == IF LoopEnds(read) THEN read ELSE ReadOn(read, i)

PrintLoop(u, i) ==
    LET read[k \in 0 .. Turns(u.descriptor)] ==
          IF k = 0 THEN NothingRead(u) ELSE PrintTurn(read[k - 1], i)
    IN  read[Turns(u.descriptor)]

\* The octet that ends the loop is not shown, nor the one whose reading stopped.
Displayed(read) ==
    IF read.eof \/ read.octets = << >> THEN read.octets ELSE Front(read.octets)

\* A copy under way: what was read, and the descriptor written to.
Copying(read, dest) == [read |-> read, dest |-> dest]

\* The octet just read is written to dest, the file of inode j.
CopyOctet(read, dest, j) ==
    LET Wrote(w) == Copying([read EXCEPT !.use.machine = w.machine], w.descriptor)
    IN  IF LoopEnds(read) THEN Copying(read, dest)
        ELSE Wrote(WritecIfile(read.use.machine, j, dest, Last(read.octets)))

CopyTurn(c, i, j) ==
    IF LoopEnds(c.read) THEN c ELSE CopyOctet(ReadOn(c.read, i), c.dest, j)

\* What is read from u, the file of inode i, is written to dest, that of inode j.
CopyLoop(u, i, dest, j) ==
    LET copied[k \in 0 .. Turns(u.descriptor)] ==
          IF k = 0 THEN Copying(NothingRead(u), dest) ELSE CopyTurn(copied[k - 1], i, j)
    IN  copied[Turns(u.descriptor)]

\* if_cfile, once the inode j to copy to is known: the source is read only, so
\* that its close does nothing.
CopyTo(m, i, j) ==
    LET Done(c) == CloseIfile(Using(c.read.use.machine, c.dest), j)
        Both(src, dest) == Done(CopyLoop(Using(dest.machine, src.descriptor), i,
                                         dest.descriptor, j))
        Source(src) == Both(src, OpenIfile(src.machine, j))
    IN  Source(OpenIfile(m, i))

-----------------------------------------------------------------------------
CommandNames ==
    {"none", "mknfs", "if_nfile", "if_nfile_untyped", "if_pfile", "if_cfile", "if_dfile"}

Ran(name, v, i, ok) == [name |-> name, vol |-> v, inumber |-> i, ok |-> ok]

\* What is printed is lost if an assert stops the command, and kept by an exit.
Ends(m, name, v, i, output) ==
    /\ vols' = VolumesOf(vols, m.disk)
    /\ printed' \in {output} \cup (IF m.ok THEN {} ELSE {<< >>})
    /\ command' = Ran(name, v, i, m.ok)
    /\ deleted' = (deleted \/ name = "if_dfile")

Blank == [b \in 0 .. NSector - 1 |-> Zero]

Init ==
    /\ vols = [v \in Volumes |-> Blank]
    /\ printed = << >>
    /\ command = Ran("none", vol_courant, NULL_BLOC, TRUE)
    /\ deleted = FALSE

\* mknfs: the super bloc and the first header go to the volume it is told, the
\* inode of the root does not.  BOUND: volume 0 is formatted once.
Mknfs(v) ==
    LET fresh == InitSuper(Machine([b \in Bloc |-> IF b < NSector THEN vols[v][b] ELSE Zero],
                                   NoSuper))
        made  == [vols EXCEPT ![v] = [b \in 0 .. NSector - 1 |-> fresh.disk[b]]]
        m     == CreateInode(Machine(DiskOf(made), fresh.super), "DIRECTORY")
        after == VolumesOf(made, m.disk)
        rooted == [after EXCEPT ![v][0] = [@ EXCEPT !.root = m.ret]]
    IN  /\ v \in Volumes
        /\ v = vol_courant => vols[v] = Blank
        /\ vols' = IF m.ok /\ after[v][0].kind = "super" THEN rooted ELSE after
        /\ printed' = << >>
        /\ command' = Ran("mknfs", v, NULL_BLOC, m.ok /\ after[v][0].kind = "super")
        /\ UNCHANGED deleted

\* if_nfile makes no inode when it is given a letter that is no type, and fills
\* the one its ifile happens to name: history keeps these two apart.
Nfile(v, input) ==
    \/ \E type \in Types : \E made \in {CreateIfile(Loaded(vols, v), type)} :
         \E m \in {Fill(made, made.ret, input)} : Ends(m, "if_nfile", v, NULL_BLOC, << >>)
    \/ \E j \in Bloc : \E m \in {Fill(Loaded(vols, v), j, input)} :
         Ends(m, "if_nfile_untyped", v, j, << >>)

\* if_pfile looks the volume up in the table first.
Pfile(v, i) ==
    /\ v \in Volumes
    /\ \E read \in {PrintLoop(OpenIfile(Loaded(vols, v), i), i)} :
         Ends(read.use.machine, "if_pfile", v, i, Displayed(read))

\* if_cfile asks a descriptor it has not opened for the type, and makes no inode
\* when what it finds there is none of the four.
Cfile(v, i) ==
    \/ \E type \in Types : \E made \in {CreateIfile(Loaded(vols, v), type)} :
         \E m \in {CopyTo(made, i, made.ret)} : Ends(m, "if_cfile", v, i, << >>)
    \/ \E j \in Bloc : \E m \in {CopyTo(Loaded(vols, v), i, j)} :
         Ends(m, "if_cfile", v, i, << >>)

\* if_dfile: free_bloc loads the super bloc of vol_courant when none is loaded.
Dfile(v, i) ==
    \E m \in {DeleteIfile(Loaded(vols, v), i)} : Ends(m, "if_dfile", v, i, << >>)

Next ==
    \E v \in VolArgument :
      \/ Mknfs(v)
      \/ \E input \in Inputs : Nfile(v, input)
      \/ \E i \in Bloc : Pfile(v, i) \/ Cfile(v, i) \/ Dfile(v, i)

Spec == Init /\ [][Next]_vars

-----------------------------------------------------------------------------
Octet == 0 .. OCTET - 1

Contents ==
    { Zero }
    \cup [kind : {"super"}, root : Bloc, nb_free_blc : Nat, first_free : Bloc]
    \cup [kind : {"free"}, nb_free_blocs : Nat, next : Bloc]
    \cup [kind : {"data"}, octets : [0 .. SECTOR - 1 -> Octet]]
    \cup [kind : {"table"}, entries : [Index -> Bloc]]
    \cup [kind : {"inode"}, type : Types \cup {"DIRECTORY"}, taille : 0 .. MaxFbloc,
          direct : [Index -> Bloc], indirect : Bloc, double : Bloc]

(* The variables keep their types.                                         *)
TypeOK ==
    /\ vols \in [Volumes -> [0 .. NSector - 1 -> Contents]]
    /\ \A k \in DOMAIN printed : printed[k] \in Octet
    /\ command \in [name : CommandNames, vol : VolArgument, inumber : Bloc, ok : BOOLEAN]
    /\ deleted \in BOOLEAN

disk0 == vols[vol_courant]

(***************************************************************************)
(* A bloc was asked of the full volume 0 and the answer, 0, used as a bloc. *)
(***************************************************************************)
SuperLost == disk0 # Blank /\ disk0[0].kind # "super"

\* new_bloc writes the header of what is left behind the last bloc.
TakesLast == /\ disk0[0].kind = "super" /\ disk0[0].first_free < NSector
             /\ (SuperLost \/ disk0[0].first_free = NSector)'

(***************************************************************************)
(* A volume that is neither the one a command is told nor vol_courant loses *)
(* its super bloc at most, and only if it lies behind vol_courant and the   *)
(* command takes the last bloc there.  (Of vol_courant see ToldAnother.)   *)
(***************************************************************************)
VolumesApart ==
    [][~deleted /\ ~SuperLost =>
         \A v \in Volumes \ {vol_courant, command'.vol}, b \in 0 .. NSector - 1 :
            vols'[v][b] # vols[v][b] => TakesLast /\ v = vol_courant + 1 /\ b = 0]_vars

-----------------------------------------------------------------------------
(***************************************************************************)
(* Commands implements FileStore: what is made, printed and copied, the     *)
(* commands that are told another volume running in between.                *)
(***************************************************************************)
Files == { b \in DOMAIN disk0 : disk0[b].kind = "inode" }

Position == 0 .. MaxFbloc * SECTOR - 1

StoredOctet(i, p) ==
    LET b == NamedBloc(disk0, i, PositionToFbloc(p))
    IN  IF b = NULL_BLOC THEN 0 ELSE Octets(DiskOf(vols)[b])[p % SECTOR]

Promise == INSTANCE FileStore WITH
    Inumbers <- Bloc \ {NULL_BLOC},
    Near     <- (NB_BLOCS + 1) * SECTOR,
    EofChar  <- OCTET - 1,
    files    <- [i \in Files |-> [p \in Position |-> StoredOctet(i, p)]],
    ended    <- deleted \/ SuperLost

ImplementsFileStore == Promise!Spec

-----------------------------------------------------------------------------
(* What the code says of itself and does not do: FileStore promises none    *)
(* of it.                                                                  *)

\* What if_pfile printed is a file of the volume it was told.
PrintsTheTold ==
    command.name = "if_pfile" /\ printed # << >> =>
      /\ command.inumber < NSector
      /\ vols[command.vol][command.inumber].kind = "inode"

\* The files there are keep their octets.
KeepsFiles ==
    \A i \in Files :
      /\ i \in Files'
      /\ \A p \in Position : StoredOctet(i, p)' = StoredOctet(i, p)

(***************************************************************************)
(* A command works on the volume it is told: "cette fonction remplace le    *)
(* superbloc du volume courant, le volume courant change"                   *)
(* (filesystem.c:180-181, of load_super).  So when if_pfile and then        *)
(* if_cfile are told another volume than 0, the first shows no file of      *)
(* volume 0 ("un fichier sur un volume donnée", if_pfile.c:18) or else the  *)
(* second changes none ("vers un nouveau nouvellement créer",               *)
(* if_cfile.c:13): the least these lines ask for, so that where it fails    *)
(* all three are wrong.                                                    *)
(***************************************************************************)
ToldAnother ==
    [][command.vol # vol_courant /\ command'.vol # vol_courant
         /\ command'.name = "if_cfile"
         => PrintsTheTold \/ KeepsFiles]_vars
=============================================================================

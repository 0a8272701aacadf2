# A verification of the disk library

The repository is a small file system in C over a simulated disk: a driver, a
table of volumes, one file system per volume (super bloc, list of free blocs,
inodes, directories) and a command line program for each operation. This
directory holds TLA+ models of it, the TLC configurations that check them, and
proofs checked by TLAPS.

Line numbers are those of the files under `src/src/`.

## 1. Inventory

| Part | State | Operations | Used by |
| --- | --- | --- | --- |
| driver, `drive.c` | controller registers, interrupt, `MASTERBUFFER` | `read_sector`, `write_sector`, `format_sector` | volumes, frmt |
| volumes, `volume.c` | table of volumes on sector (0, 0) and its copy `mbr` | `get_mbr`, `save_mbr`, `convert_bloc`, `convert_cyl_sec`, `read_bloc`, `write_bloc` | everything below |
| `frmt.c`, `mkvol.c`, `rvol.c` | none | make an empty table, add a volume, remove one | users |
| blocs, `filesystem.c` 1-278 | super bloc on bloc 0 and its copy `super_courant`; list of free blocs in the free blocs | `init_super`, `load_super`, `save_super`, `new_bloc`, `free_bloc`, `clean_bloc` | inodes, files, mknfs |
| inodes, `filesystem.c` 281-644 | inodes and their direct, indirect and double indirect tables | `create_inode`, `read_inode`, `write_inode`, `aux_vbloc_of_fbloc` | files, directories |
| files, `ifile.c` | descriptors: cursor, size, one sector of buffer | `create`, `delete`, `open`, `readc`, `writec`, `read`, `write`, `seek`, `flush`, `close`, `mount`, `umount` | directories, commands |
| directories, `dir.c` | entries of 20 octets in files of type DIRECTORY | add, delete and find an entry, walk a path | `file.c` |
| files by path, `file.c` | none | `create_file`, `delete_file`, `open_file` | programs linked with the library |
| commands, `mknfs.c`, `if_*.c`, `dvol.c`, `dmps.c` | none; `vol_courant` is 0 and stays so | one operation each, by inode number | users |

Everything is called in one direction, from the commands down to the driver. A
program is one thread and loads its own copies of the table and of the super
bloc; programs follow each other and meet on the disk only. Nothing is logged
or repaired, so a program that ends or is killed leaves what its sector writes
have done so far.

What is hard here:

- the calls of `filesystem.c` write two or three sectors, and a program can be
  killed between any two of them;
- the super bloc lives in memory and on disk, and `umount` does not save it
  (`super_loaded` answers the wrong way round), so every call has to;
- the free list is threaded through the free blocs, in runs, and only a magic
  number tells a header from a bloc that is in use;
- bloc 0 is both the super bloc and "no bloc", and few callers look at the 0
  that `new_bloc` returns on a full volume;
- reading a file allocates, because leaving a sector asks for the next one;
- a descriptor holds one sector, to be written back before the next is read;
- an entry of a directory may lie across two sectors, the inode of a file is made
  before its entry, and looking for an entry may make the directory longer;
- every command is told a volume and loads its super bloc, but all blocs it
  reads and writes are those of `vol_courant`, which nothing assigns;
- arithmetic on cylinders, sectors and octets with fields of fixed width;
- the driver shares one buffer and one interrupt between all its commands.

What makes each part correct:

- driver: an atomic store of sectors, in spite of the shared buffer, and every
  call returns;
- volumes: disjoint, and the two conversions are inverse of each other;
- blocs: none is given twice, none is lost, the super bloc is never behind;
- inodes: what was allocated is found again, and no bloc has two names;
- files: each is a row of octets that reads back what was last written;
- directories: a tree of names that a lookup does not change, a call that is
  killed leaves the other names, and no name leads to what is no inode;
- commands: a file keeps what it was made with, a copy has it too, and no volume
  is written but the one that is meant. The code has the first two within limits, and
  the third not: a command that is told another volume works on volume 0
  (`commands_told`), and one that fills volume 0 writes on the super bloc of the next
  (the exception in `VolumesApart`).

The hazards, each at its line and with the properties that watch it, are listed
in `PROJECT.json`.

## 2. The modules

| Module | Models | Form |
| --- | --- | --- |
| `Blocs` | `filesystem.c` 1-278 | operators from a *machine* to a machine |
| `BlocAllocator` | programs that call `new_bloc` and `free_bloc`, with kills | state machine |
| `BlocAllocator_proofs` | | inductive invariants and proofs |
| `Inodes` | `filesystem.c` 281-644 | operators over `Blocs` |
| `Inodes_proofs` | | what its calls do to a volume: lemmas |
| `Descriptors` | `ifile.c` | operators over `Inodes` |
| `Descriptors_proofs` | | what its calls do to a volume and a file: lemmas |
| `IFile` | programs that call `ifile.c` | state machine |
| `IFile_proofs` | | inductive invariant, proofs, refinement |
| `ByteFile` | what `ifile.c` promises | abstract specification |
| `Directory` | `dir.c`, `file.c` and `mknfs.c` over `Descriptors`, with kills | state machine |
| `Directory_proofs` | | inductive invariant and proofs, through kills |
| `Namespace` | what `file.c` promises | abstract specification |
| `Commands` | `mknfs.c`, `if_nfile.c`, `if_pfile.c`, `if_cfile.c`, `if_dfile.c` on several volumes | state machine |
| `Commands_proofs` | | inductive invariant and proofs |
| `FileStore` | what the commands promise | abstract specification |
| `Mbr` | `volume.c`, `frmt.c`, `mkvol.c`, `rvol.c` | state machine |
| `Mbr_proofs` | | invariants and proofs |
| `Drive` | `drive.c` and the controller it expects | state machine with fairness |
| `Drive_proofs` | | inductive invariant, proofs, refinement |
| `SectorStore` | what `drive.c` promises | abstract specification |
| `MCBlocAllocator`, `MCIFile`, `MCDirectory`, `MCCommands` | | values, symmetry and bounds for TLC |

**A machine** (`Blocs`) is the record of what a process sees during a call: the
disk, `super_courant`, whether an assert or an exit has stopped it, the value
the last call returned, and the sector writes issued so far. `NewBloc(m)` is
the machine after `new_bloc` was called on `m`; calls compose as they do in C.
`BlocAllocator` takes the writes from the machine and lets them reach the disk
one by one, so a kill can fall between any two; `Directory` applies any first
part of them when a call is killed; `IFile` and `Commands` keep the disk of the
machine, so there a call is atomic.

Contents of blocs are records whose `kind` is the magic number the readers test.
The serial number and the name in a super bloc never influence anything and are
left out.

**BlocAllocator.** `Mount` is `load_super` (if its assert fails the program
stops and nothing changes, so there is no step). `Format` is mknfs on a volume
in use: `init_super`. (mknfs goes on to make the root directory, a bloc like any
other here, and to write the same super bloc with its root.) `Take` is
`new_bloc` together with the first thing its caller stores in the bloc; on a
full volume that is bloc 0. `TakeStopped` is the assert of `read_free_bloc`.
`GiveBack` is `free_bloc`. `WriteSector` lets the next write reach the disk.
`Exit` ends the program, or kills it if there are writes to come. `owned`,
`given`, `freed` and `cut` are history: the code has no such variables, the
properties need them.

**Inodes.** One operator for each part of `aux_vbloc_of_fbloc`. A table is the
function from its indices to bloc numbers; where the code reads single octets of
it (lines 592 and 614) so does the operator, through `High`, `Low` and `OctetOf`.
A bloc that is not a table and is read as one stops the machine: the code would
go on with whatever octets it finds there.

**Descriptors.** One operator for each call of `ifile.c`, from a machine and a
descriptor (a *use*) to both. What a sector holds is a row of octets; a bloc that
was never written as data reads as null octets, and a header as one octet
`HEADER`, which is none of those a program writes.

**IFile.** One action per call of `ifile.c`. A cursor move is `SeekIfile`, called
by `Read`, `Write` and `Seek` as in the code. `inumber` is what the callers keep:
the number that `create_ifile` returned. Once the super bloc is written over by
a user of bloc 0 the properties say nothing (`SuperLost`), and so does `ByteFile`
(`full`).

**ByteFile** is the promise: rows of octets, a view per open descriptor that is
stored when the descriptor leaves a sector, flushes or closes, and lost when the
program ends first. `IFile` implements it under the refinement mapping at the end
of `IFile` (`stored` follows the tables on disk, `view` overlays the descriptor's
buffer). Two weaknesses of the code are in the promise itself: sizes are whole
sectors, taken at open; and `taille` does not follow the indirect table beyond
its first entry, so that only the `Near` part of a file is sure to be there on
reopening.

**Directory.** One action per call of `file.c` and one for the whole of `mknfs`;
`Call` either lets the call return (`Returns`) or stops it after any of its
sector writes but the last (`Killed`). The unit of a sector is half an entry, a
number or a name, and a sector is three of them, so that some entries lie across
two sectors as they do in the code, and can be torn. Names are model values, of
which `Long` stands for all of `ENTRYMAXLENGTH` octets or more and `Cut` for what
`strncpy` leaves of it. `Long` is only ever the last name of a path, and no
program opens it: the lookup writes behind its array there (`dir.c:219`), which is
undefined.

**Namespace** is the promise of `file.c`: a set of links from a place in a directory to
an inode, the types of the inodes, and the answer to every call. It says what the
code does, which is less than `file.h` says: a name may be there twice, and the first
place counts, where `file.h:25` has `create_file` fail; a directory is deleted with the
files in it, where `file.h:29` has `delete_file` fail (`FileHeaderHolds`, violated in
`directory_header`, has both); `delete_file` frees nothing; and the file made in a full directory is lost although the call answers
success. A full directory is one of which `taille` does
not follow more blocs: the direct ones and one entry of the indirect table, 281
entries of 20 octets in the code, 4 places in the run. A killed call has done all,
nothing, or left one torn place. Once the volume is full (`full`) nothing is promised.

**Commands.** One action per command, from its arguments to its end. `DiskOf` is the
disk as `vol_courant` shows it to a command, with the first bloc of the volume
behind it, and `VolumesOf` puts it back; `Loaded` takes the super bloc from the
volume that was named. So `mknfs` told volume 1 writes a super bloc and a header
there and then stops, or makes its root, in volume 0; the other commands told volume
1 use its list of free blocs on the blocs of volume 0; `if_dfile` told a volume that
is not there deletes from volume 0. `IsEofChar` is the comparison of a `char` with
`READ_EOF`: the octet 0xFF ends `if_pfile` and `if_cfile`. `if_cfile` asks a
descriptor it has not opened for the type of its copy, and with a type that is none
of the four never assigns the inumber of the copy: `Cfile` has every type and every
inumber for it. So has `Nfile` when the letter for the type is none of N, D, L and S:
`if_nfile` then says nothing, never assigns `ifile` and writes what it reads over the inode
of that number, whichever it is (`if_nfile_untyped` in the history variable `command`).

**FileStore** is the promise of the commands, as long as no file was deleted and volume 0
was not full. It too has the code's weaknesses: what is printed ends at the first 0xFF,
may go on with null octets (each `if_pfile` makes the file one sector longer), `if_pfile`
and `if_cfile` take the files of volume 0 whatever volume they are told, a copy may go to
any inumber, and `if_nfile` may write over any file (`Overwrite`). The code's own comments
say otherwise of the volume and of the copy (`filesystem.c:180`, `if_pfile.c:18`,
`if_cfile.c:13`): `ToldAnother`, which `commands_told` shows violated.

**Mbr.** A command reads the table, changes it and writes it with one sector
write, so it is one step; a refused command is no step. `Saved` is what the next
command reads back: one octet for cylinder and sector, two for the size. The
history variables say whether the table still means what the commands said.
`mkvol` never refuses an absent argument (`chck_present_flag` always answers 0):
it is 0. Negative arguments are left out.

**Drive.** The controller is a library outside the repository. Its action
`Complete` says what `drive.c` relies on: it carries out the command, with the
coordinates in the data registers for a seek, at the head for a transfer of one
sector, and raises its interrupt once. `_sleep` waits for an interrupt to come
(`include/hardware.h:99`); since a command takes at least one SYSTICK (a
millisecond, `hardware.ini:19`) the command and the `_sleep` behind it are one
step, an assumption of this module. `_out_16bits(HDA_DATAREGS, 1)` (lines 127
and 145) has its arguments exchanged and writes to ports 1 and 2: it has no
effect on the disk's registers, and the model has none.

## 3. The runs

| Run | Bounds | Shows |
| --- | --- | --- |
| `allocator` | 5 blocs, 2 files | six invariants below, through every kill (1.4 million states) |
| `allocator_new` | 4 blocs, 1 file | **violation**: a bloc is handed out that a file owns |
| `allocator_super` | 3 blocs, 1 file | **violation**: a full volume cannot be mounted again |
| `ifile` | 5 blocs, 2 files, tables of 2 entries, sectors of 2 octets | files are rows of octets, no bloc shared or lost, at every entry of the direct and of the indirect table |
| `ifile_double` | 8 blocs, 1 file, tables of 1 entry | **violation**: the double indirect table loses blocs |
| `directory` | 12 blocs, 2 names and a long one, 6 paths, 3 files to make, sectors of 1.5 entries, 2 kills | the library is a tree of names, through every kill |
| `directory_header` | as `directory`, no kills | **violation**: a name is made twice, and a directory deleted with files in it |
| `commands` | 3 volumes of 7 blocs, a fourth that may be told and is in no table, sectors of 2 octets, 3 inputs | files keep, show and copy their octets; volumes that are not told stay as they are |
| `commands_told` | 2 volumes of 7 blocs | **violation**: told volume 1, `if_pfile` shows a file of volume 0 and `if_cfile` copies over one |
| `mbr` | cylinders of 3 sectors, table of 3, octets of 4 values | five properties over every sequence of commands |
| `drive` | 2 cylinders, 2 sectors, 2 contents | the driver is a sector store and every call returns |
| `drive_alias` | 2 sectors, one above the nibble | **violation**: two sectors are one |

Why the bounds are enough. `allocator`: with five blocs a list of freed blocs of
length 4, a run of several blocs and both together occur, next to a full volume; two
files are needed to own the same bloc. The list of freed blocs may lead behind the
volume; it is followed as long as its head is inside (`HeadInVolume`), and nothing
bounds it before the first `free_bloc`. `ifile`: four sectors of
a file reach every entry of the direct and of the indirect table, in any order and with
holes; the volume has room for three blocs of one file (both entries of the indirect table
with it, or any two sectors of which one is named directly and one is not) or for one sector
of each of two files, and then is full; `VIEW Remembered` leaves out `got`, on which no
step depends; the cursor stops at `MaxPosition`; nothing is explored behind the first
`delete_ifile` (`NotDeleted`), since `BlocAllocator` shows what becomes of the list from there on.
`mbr`: the last cylinder and the last size do not fit in the table, the table fills
up, and sizes include 0, less than, and more than a cylinder. `directory`: the
volume is filled up, also by lookups; a directory in the root and entries in it, a
file made twice, a full directory, and a second kill after the first all occur.
`Explored` stops at more than one inode that no directory names (each `delete_file`
and each `create_file` after a kill makes one, and they are all alike) and, after a
kill, at `MaxTaken` blocs handed out. `VIEW Remembered` leaves out `answer`, on
which no step depends; TLC still compares every step with the promise. `commands`:
volume 0 has room for two or three files, so that every command meets empty, small,
longer, copied and full ones; behind it lie a volume that takes what runs over its end and
one that must stay as it is whatever the other two are told, both formatted or not; volume
3 may be told and is in no table. Nothing is explored behind the first `if_dfile`
(`BlocAllocator` shows what becomes of the list) nor on a full volume; the inumbers given
are those up to the bloc behind the volume, and `mknfs` formats volume 0 once. `drive`:
two coordinates of each kind, two contents, and a kill at any point.

The properties, module by module:

- *Blocs.* `NewBlocIsFresh`: before the first `free_bloc` a bloc handed out is in
  the volume and nobody's, whatever was killed. `NeverTwiceBetweenFrees`: even
  after frees no bloc is handed out twice before the next one, because the
  magic stops the program first. `HeadIsAHeader`: that assert cannot fail before
  a free or a kill. `NoBlocLost`: each bloc is owned or counted free.
  `SuperIsSaved`: between calls the disk has the super bloc of memory.
- *Files.* `BlocsAccountedFor`: inodes, tables and data of all files are
  different blocs, and together all that was handed out. `AllocatedIsFound`: what
  a call allocated, another finds. `DeleteGivesBack`: deleting a file without
  holes gives back its blocs below `taille` and its inode. `ImplementsByteFile`.
- *Directories.* `EntriesNameInodes`: no kill leaves a name that leads to what is no
  inode. `BlocsNamedOnce`: no bloc is in two files or directories, and each killed call
  loses one at most. `ImplementsNamespace`.
- *Commands.* `VolumesApart`: a command leaves alone every volume but volume 0, on
  which all of them work, and the one it is told; only the one that takes the last bloc
  of volume 0 changes the super bloc behind it (line 256). `ImplementsFileStore`.
- *Volumes.* `DistinctStarts` and `OrderedAreDisjoint`, as long as all numbers fit in
  the table and `rvol` was not given a full one: no two volumes start at one place, and
  those made one behind the other share no sector; `ConversionsAgree`;
  `RvolKeepsOthers`, on a table that is not full.
- *Driver.* `NoStaleIrq`: no call begins with an interrupt pending or a command in the
  register, whatever the one before was doing, so that no `_sleep` meets the interrupt of
  another command. `CallsReturn`, `ImplementsSectorStore`.

Every property of a passing run has a mutant in `PROJECT.json`: a plausible
mistake in the code it speaks of, with which TLC finds the property violated.

**Fairness.** Only `Drive` has any: weak fairness of the two steps of the program
and of the controller. The program is alone on a simulated machine, where nothing
preempts it for ever, and a controller that never answers is outside of what the
code handles: it has no timeout. Calls are not required to be made. All other
modules state safety only.

**What the violations say.** The six violating runs are disagreements between the code
and its own comments or assertions, quoted in `PROJECT.json` ("findings"). Two of their
properties ask for one of two things the sources say, so that a single behaviour shows
that neither holds: `FileHeaderHolds`, that no name is in a directory twice or that no
directory with files is cut off; and `ToldAnother`, that of two commands told another volume
`if_pfile` shows no file of volume 0 or `if_cfile` changes none. They are what
`ImplementsNamespace` and `ImplementsFileStore` leave out.

Three more disagreements have no run of their own; the passing properties name the case
they leave out. `convert_cyl_sec` answers a bloc number for the sector behind the volume
(`<=`, line 203) and -1 for sectors of the volume that lie below its start sector on a
later cylinder (line 197), where `volume.c:180` says -1 for what is not in the volume:
`ConversionsAgree` speaks of the sectors both functions answer for. A volume made behind
cylinder 255 is elsewhere for the next command (`volume.c:106`), and `rvol` on a full table
loses the last volume (`rvol.c:17`): `DistinctStarts` and `OrderedAreDisjoint` leave these out
(`Faithful`), and `RvolKeepsOthers` the full table.

## 4. The proofs

Eight modules are checked by TLAPS to the last leaf. They hold

- `BlocAllocator_proofs` for every `NSector` from 2 to 32768 and every set of files;
- `Inodes_proofs`, `Descriptors_proofs`, `IFile_proofs`, `Directory_proofs` and
  `Commands_proofs` also for every number of entries of a table (`NB_BLOCS`), every size
  of a sector and every set of octets, or of names, paths and kills, or of volumes and
  inputs;
- `Mbr_proofs` for every geometry, table size and set of arguments;
- `Drive_proofs` for every set of coordinates, every content and any width of the
  registers.

They assume the named assumptions of the modules (`NSectorAssumption`,
`InodesAssumption`, `DescriptorsAssumption`, `IFileAssumption`, `DirectoryAssumption`,
`CommandsAssumption`, `MbrAssumption`, `DriveAssumption`), which TLC evaluates in the
runs. The refinement of the driver assumes `ToldApart` in addition, the theorems on files
`BelowDouble`, and those on directories and commands a `Roomy` each; all are explained
below, and the passing runs satisfy them.

**The allocator.** None of the invariants is inductive: while a call is writing,
disk and memory disagree. `IInv` adds to `TypeOK`

- `AllContentOK`: what a bloc says when it claims to be a super bloc or a header,
  on disk or in a write to come (before the first free: numbers that fit the
  volume);
- `BlocZero`: no file owns bloc 0, and none owns a bloc of a volume of two;
- `Saving`: how the writes to come lead from the super bloc on disk to the one in
  memory;
- `Frontier`: before the first free, what files own is below the first free
  bloc, and the bloc of the call under way is the last one below it;
- `HeadReady`: the header is at `first_free`, or its write is to come;
- `NoGap`: before a free or a kill, all blocs below the frontier are owned.

Each conjunct has a lemma that every action preserves it, by cases on `Next`,
from lemmas on what a call does to a machine (`TakeBloc`, `GiveBackBloc`, ...)
and on the entries of a log. `Invariance` collects them; the theorems on the
properties follow from `IInv` alone. `IInv` was first checked by TLC.

**The allocator after frees.** `NeverTwiceBetweenFrees` needs a second invariant,
`NoRepeat`, on top of `IInv`: if the head of the list will be a header when the call
is over, it is that of a run (not of one bloc) and lies above every bloc handed out
since the last `free_bloc`. A run is handed out upwards and keeps this; the header of
a single bloc is only met while no bloc is out, and what is handed out behind it is
the new head, without magic, which stops all further calls (`RepeatTake`).

**The table.** `DistinctStarts` follows from what `chck_possible` refuses: the
start of a volume is found by `convert_cyl_sec` in the volume that starts there
(`StartIsFound`). `OrderedAreDisjoint` follows since a start that is refused by
no volume, and lies below none by cylinder or sector, lies behind all of them
(`RefusedIsBehind`). Both are kept by `rvol`, whose result has only entries of
the old table, in their order (`MovedEntries`, which gives `RvolKeepsOthers` too).
`ConversionsAgree` holds of every table of the right type, since quotient and
remainder of a sector number are its cylinder and sector and no others are
(`Division`, `QuotientIsUnique`).

**The driver.** `IInv` says for each place the program sleeps at what it relies on:
`Idle`, no command and no interrupt; `Seeking`, the registers name the sector of the
call, and the interrupt is raised exactly when the head is there; `Transferring`, the
head is there, and `MASTERBUFFER` is the sector once the interrupt is raised.
`NoStaleIrq` follows at once. `DriverIsAStore` maps every step to one of `SectorStore`
or to a stutter: the controller's write is the one step that changes a sector. It
assumes `ToldApart`, that the registers tell any two of the coordinates callers use
apart; `drive_alias` shows that sectors 0 and 16 are not.

**Inodes and tables.** `Inodes_proofs` says what the calls of `filesystem.c` on inodes
do, with no state machine in sight, so that any module which calls them can use it.
Its volume is a function from blocs to contents:

- `Complete(C)`, the contents a disk may have; `FreeRun`, the one free bloc run that
  a volume has before the first free; `Saved`, memory has what bloc 0 has;
- `ShapeOf`, an inode with its tables where its words say; `Apart`, no two words of the
  inodes name the same bloc; `Covers`, together they name all that was handed out;
- `Volume`, all of these; `Lost`, bloc 0 has been written over.

Its lemmas say what `new_bloc` leaves of a volume, what the direct and the
indirect part of `aux_vbloc_of_fbloc` answer (`Allocates`: the name that is there, or the
first free bloc, with its table if that was missing too; `Keeps`: all other names stay),
and what `create_inode` adds (`Creates`). `SameHeld` says that the octets a file shows stay
the same, as they do when a bloc is allocated.

**Descriptors.** `Descriptors_proofs` does the same for `ifile.c`: `Flushes` (one sector of
one file changes, nothing if the volume is full), `Seeks` (a cursor that leaves a sector
flushes it and loads the next one, and may allocate it), `OpenIs`, and `Deletes`.
`delete_ifile` is a loop of `free_bloc`, a recursive function of the number of blocs
freed. What it does is proved from the least number at which it would fail (`Induction`),
since the induction theorems of the library are out of the provers' reach.

**The files.** None of the invariants of `ifile` is inductive: `BlocsAccountedFor` does not
say where the free blocs are, so the next one handed out may have a name already, nor
that a table is a table; `AllocatedIsFound` needs both. Until the first `delete_ifile`
`IInv` says

- `Typed`, the types, with all contents that blocs may have;
- `Mounted`, the disk with the super bloc of memory, or that of the disk while no
  program runs, is a `Volume` of the inodes in `inumber`, which are different (its bloc 0
  is the super bloc, or was written over when the volume was full);
- `Faithful`, a descriptor that is not closed is that of a file there is, in a program
  with a super bloc, and shows the sector on disk as long as it is not modified.

Behind the first `delete_ifile` it says nothing, as `NotDeleted` in the runs: the list of
free blocs then leads through blocs in use, and `BlocAllocator` shows what becomes of it.
The step that deletes is part of the proofs: `DeletionGivesBack` is about it, and
`TypeCorrect` and `StepsOfByteFile` speak of the state behind it.

`BelowDouble` says that positions stay below the double indirect table. Beyond it the
theorems are false and not only unproved: line 614 tests the wrong octet of a table, and
`ifile_double` loses blocs. The run `ifile` satisfies it, with equality but for one octet.

`IsByteFile` is the refinement: `AbsStored`, `AbsView` and `AbsPos` are the variables
of `ByteFile` in terms of `IFile`, and each action is mapped to the action of that name
or to a stutter, until the volume is full and the super bloc written over (`full`). What
makes it work is `Apart` (a flush changes the octets of one file in one sector) and
`Faithful` (loading a sector changes no view). `StepsOfByteFile` says so of every step up
to and with the first that deletes, `IsByteFile` of behaviours that never delete.

Two facts came out of the proofs. `BlocsAccountedFor` was false on a volume of two
blocs, whose one bloc `new_bloc` never hands out, and now says so (`NSector > 2`); no
run has so small a volume. And `DeletionGivesBack` holds without the premise
`NoHoles`: freeing a hole does write a header over the super bloc, but the inode is
freed last and its `free_bloc` saves the super bloc again.

**The directories.** A kill inside a call leaves what is no `Volume`, so the proofs look at
every sector write on its own. `Sane` is a disk in order: the blocs from the first free
one on are clean, and those below it are inodes, or named once in inodes and tables, or
*lost*; each file bloc of a directory holds entries whose numbers are those of inodes, or
null, or the header a bloc begins with that was named and not yet cleaned. `Left(n)` is a
disk that a program may be killed on with at most `n` blocs lost: one without a root, or
one in order. The argument has three parts:

- each write of `new_bloc`, `create_inode`, the tables and a flush leads from a disk in
  order to one in order, and one bloc at most is between being handed out and being
  named (`Leaves`, `Gets`, `Makes`);
- `Traced` says this of every first part of the writes of a machine, so a call that is
  killed after any of them leaves a disk in `Left(kills + 1)`; it is carried through
  reads, writes, the search for an entry and the walk of a path, each of which may
  allocate. What a loop does is proved from the least number of turns at which it would
  fail, as for `delete_ifile`;
- `delete_file` only sets the number of an entry to null, and the inode of a new file
  is written before its entry, so no number is stored that is not that of an inode.

`IInv` is `Left(kills)`, a super bloc in memory that fits it, and the types.
`DirectoryTypes`, `NamesLeadToInodes` and `OneBlocLostByAKill` follow. They assume
`Roomy`: an inode names more than one bloc directly (10 in the code), and a sector has
more octets than an entry (512 and 20). Then what a full directory reads still lies before
the double indirect table. That no name which does not fit is ever stored is part of
`TypeOK`, and needs that only the last name of a path is one (`DirectoryAssumption`).

**The commands.** That volumes stay apart needs little of what the files are. `IInv` says,
until the first `if_dfile`, that volume 0 is blank or `Ordered`: the numbers in inodes
and tables are those of blocs below the first free one, bloc 1 is an inode, and no header
lies below the first free bloc; and that bloc 0 of any other volume is blank, a header
or the super bloc `mknfs` leaves there (`OtherSuper`). Hence a command that is told another
volume, and so takes that super bloc to the blocs of volume 0, finds in bloc 1 an inode
where `new_bloc` wants a header, and stops as soon as it asks for a bloc; and a command that
is told volume 0 leaves it only when its last bloc is taken, by the header it writes
behind it. A volume that is neither volume 0 nor told has no part in any of this.
`On`, `Gives` and `Fits` say this of the machine during a command, call by call; `if_nfile`
without a type writes over any inode, so `FillOpenFits` says it of any bloc that can be
opened. `VolumesStayApart` is the action property of the run. `CommandsTypes` says that
`TypeOK` holds until the first `if_dfile` and still when it has ended: that step is
followed through (`Deleting`), since all it frees lies in the volume. Beyond it nothing
is claimed: freeing a hole frees bloc 0, and blocs may then be handed out twice. Both
theorems assume `Roomy`, `NSector > 2`: on a volume of two blocs `mknfs` writes the inode
of the root over the super bloc.

**Only model-checked.** `ImplementsNamespace` and `ImplementsFileStore`. The invariants
above say where the blocs of a directory or a file are and of what kind, and nothing of
which names or octets they show, which is what these promises are about; and `Namespace`
walks a path with a fold, whose operator argument the provers cannot instantiate.
`CallsReturn` is liveness under fairness, which is out of the prover's reach,
as are `ENABLED`, induction over data by the theorems of the library (the proofs use
least counterexamples instead) and recursive operators: loops are recursive functions in
all modules with proofs.

## 5. Not modelled, and why

- Volumes that overlap (`mkvol` allows some), and a volume that starts on the
  sector of the table, once blocs are written to them: one sector would have to be
  two things. `Mbr` says when volumes are disjoint; `Commands` has disjoint ones,
  each right behind the one before. The aliases of `drive.c:22` are in `Drive` only.
- `delete_inode`, `free_bloc_array`, `allocate` and `format_vol`: nothing calls them.
- The lookup of a name of `ENTRYMAXLENGTH` octets or more, which writes behind an
  array (`dir.c:219`).
- Two descriptors that both write to one inode, and positions below 0: no program
  does that. Kills inside the calls of `IFile` and `Commands`; `BlocAllocator` and
  `Directory` have them.
- What is done with a volume after the first `delete_ifile` or `if_dfile`, but by
  `BlocAllocator`; volumes that are formatted again, but by `BlocAllocator`.
- `if_status`, `dmps`, `dvol`, `print_mbr`, which print and change nothing (`if_status`
  loads a super bloc and reads it), `create_disk`, `format_sector`, `get_disk_info`
  and `tools.c`; names of volumes and their serial numbers, which nothing reads.
- Two programs at the same time: the library has no means against it.
- The test programs, and the unused headers `mbr.h`, `super.h` and `inode.h`.

## 6. Plan

Done: the modules of section 2 and the proofs of section 4. Left, in this order:

1. Kills inside the calls of `IFile`, replayed write by write from the log of the machine as
   `Directory` does, to say what a kill leaves of a file's octets.
2. `Commands` beyond the first `if_dfile`, with a promise that says which files may
   then share a bloc.
3. `Mbr` and `Blocs` composed on shared sectors: overlapping volumes, and the
   sector of the table.
4. Proofs: `ImplementsFileStore`, from `Descriptors_proofs` and an invariant that adds to
   that of `Commands_proofs` who owns a bloc, and then `ImplementsNamespace`, with the walk
   of a path in `Namespace` written as a recursive function.

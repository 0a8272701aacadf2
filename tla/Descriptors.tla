----------------------------- MODULE Descriptors -----------------------------
(***************************************************************************)
(* The calls of src/ifile.c, as operators over a machine and a descriptor.  *)
(*                                                                         *)
(* A file is a row of octets cut into sectors of SECTOR octets.  What an    *)
(* octet is is left to the module that uses this one: IFile gives them      *)
(* small numbers, Directory numbers and names.                             *)
(***************************************************************************)
EXTENDS Inodes, SequencesExt

CONSTANT SECTOR       \* HDA_SECTORSIZE

ASSUME DescriptorsAssumption == SECTOR \in Nat \ {0}

READ_EOF == -1

\* The first octets of the header of a run of free blocs, read as data.
HEADER == -3

-----------------------------------------------------------------------------
(* The octets of a sector.                                                 *)
NoOctets == [k \in 0 .. SECTOR - 1 |-> 0]

\* A data bloc of null octets is what clean_bloc leaves.
Data(octets) ==
    IF octets = NoOctets THEN Zero ELSE [kind |-> "data", octets |-> octets]

\* A bloc that was named in an inode and not yet cleaned when the process was
\* killed still is the header it was.
Octets(c) ==
    CASE c.kind = "data" -> c.octets
      [] c.kind = "free" -> [NoOctets EXCEPT ![0] = HEADER]
      [] OTHER           -> NoOctets

PositionToFbloc(position) == position \div SECTOR

\* What open_ifile leaves in a descriptor; inoeud is a parameter of the calls.
Descriptor(size, octets) ==
    [cursor |-> 0, size |-> size, file_buffer |-> octets,
     modified |-> FALSE, closed |-> FALSE]

Closed == [Descriptor(0, NoOctets) EXCEPT !.closed = TRUE]

\* A program in the middle of its calls: the machine and one descriptor.
Using(m, d) == [machine |-> m, descriptor |-> d]

-----------------------------------------------------------------------------
\* What a descriptor shows of the bloc that was looked for; NULL_BLOC is a
\* sector of null octets.
OctetsFound(found) ==
    IF found.ret = NULL_BLOC THEN NoOctets ELSE Octets(found.disk[found.ret])

OnceFound(found, i) ==
    Using(found, IF found.ok THEN Descriptor(found.disk[i].taille, OctetsFound(found))
                             ELSE Closed)

\* open_ifile and iopen_ifile: bloc 0 of the file is read if it has one.
OpenIfile(m, i) == OnceFound(VblocOfFbloc(m, i, 0), i)

\* On a full volume the bloc written is bloc 0.  The descriptor stays modified.
FlushIfile(m, i, d) ==
    IF d.modified
      THEN WriteFound(AllocateVblocOfFbloc(m, i, PositionToFbloc(d.cursor)),
                      Data(d.file_buffer))
      ELSE m

\* The descriptor goes to the sector found; exit(1) when there is none.
MoveTo(found, d, position) ==
    IF found.ret = NULL_BLOC THEN Using(Stopped(found), d)
    ELSE Using(found, [d EXCEPT !.cursor = position,
                                !.file_buffer = OctetsFound(found)])

InSector(d, position) == PositionToFbloc(position) = PositionToFbloc(d.cursor)

\* Mutant: the sector written is not flushed before the next one is read.
SeekUnflushed(m, i, d, position) ==
    IF InSector(d, position) THEN Using(m, [d EXCEPT !.cursor = position])
    ELSE MoveTo(AllocateVblocOfFbloc(m, i, PositionToFbloc(position)), d, position)

\* Leaving a sector flushes it and ALLOCATES the next one, even to read it.
SeekIfile(m, i, d, position) ==
    IF InSector(d, position) THEN Using(m, [d EXCEPT !.cursor = position])
    ELSE MoveTo(AllocateVblocOfFbloc(FlushIfile(m, i, d), i, PositionToFbloc(position)),
                d, position)

AtEnd(d) == d.cursor >= d.size * SECTOR

CurrentOctet(d) == d.file_buffer[d.cursor % SECTOR]

\* The descriptor goes one octet on.
Advance(m, i, d) == SeekIfile(m, i, d, d.cursor + 1)

\* writec_ifile
WritecIfile(m, i, d, c) ==
    Advance(m, i, [d EXCEPT !.file_buffer[d.cursor % SECTOR] = c, !.modified = TRUE])

\* One octet more of read_ifile.
ReadOn(r, i) ==
    IF r.eof \/ AtEnd(r.use.descriptor) THEN [r EXCEPT !.eof = TRUE]
    ELSE [use    |-> Advance(r.use.machine, i, r.use.descriptor),
          octets |-> Append(r.octets, CurrentOctet(r.use.descriptor)),
          eof    |-> FALSE]

\* read_ifile: READ_EOF at the end of the file, whatever was read before it.
ReadIfile(u, i, nbyte) ==
    LET read[k \in 0 .. nbyte] ==
          IF k = 0 THEN [use |-> u, octets |-> << >>, eof |-> FALSE]
                   ELSE ReadOn(read[k - 1], i)
    IN  read[nbyte]

\* write_ifile
WriteIfile(u, i, octets) ==
    LET Wrote(v, c) == WritecIfile(v.machine, i, v.descriptor, c)
        wrote[k \in 0 .. Len(octets)] ==
          IF k = 0 THEN u ELSE Wrote(wrote[k - 1], octets[k])
    IN  wrote[Len(octets)]

\* Mutant: a bloc is freed without a look at the inode in it.
DeleteInode(m, i) == FreeBloc(m, i)

\* delete_ifile frees the file blocs below taille, holes (bloc 0) included,
\* then the inode; never a table.
DeleteIfile(m, i) ==
    LET FreeFound(found) == FreeBloc(found, found.ret)
        freed[k \in 0 .. m.disk[i].taille] ==
            IF k = 0 THEN m ELSE FreeFound(VblocOfFbloc(freed[k - 1], i, k - 1))
    IN  IF m.disk[i].kind = "inode"
          THEN FreeBloc(freed[m.disk[i].taille], i)
          ELSE Stopped(m)
=============================================================================

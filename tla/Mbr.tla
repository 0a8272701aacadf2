--------------------------------- MODULE Mbr ---------------------------------
(***************************************************************************)
(* The table of volumes of a disk (src/volume.c) and the three commands     *)
(* that write it: frmt (src/frmt.c), mkvol (src/mkvol.c), rvol (src/rvol.c).*)
(*                                                                         *)
(* A command reads the table from sector 0 of cylinder 0, changes it and    *)
(* writes it back with one write_sector, so it is one step.  A command that *)
(* refuses its arguments leaves the disk as it is and is no step.           *)
(* The type of a volume is left out: mkvol makes BASE volumes only.         *)
(***************************************************************************)
EXTENDS Integers, Sequences

CONSTANTS
  HDA_MAXSECTOR,    \* sectors of a cylinder (32 in hw_info.h:11)
  MAX_VOLUME,       \* entries of the table (8 in volume.h:14)
  OCTET,            \* 256: the values of an unsigned char
  Cylinders,        \* the arguments of mkvol: -fc,
  Sectors,          \*   -fs,
  Sizes             \*   and -s

ASSUME MbrAssumption ==
    /\ HDA_MAXSECTOR \in Nat \ {0}
    /\ MAX_VOLUME \in Nat \ {0, 1}
    /\ OCTET \in Nat \ {0, 1}
    /\ Cylinders \subseteq Nat /\ Sectors \subseteq Nat /\ Sizes \subseteq Nat

VARIABLES
  vols,     \* the first nvol entries of the table on disk, from vols[1] on
  ordered,  \* history: no mkvol came before a volume, by cylinder or by sector
  cropped,  \* history: a mkvol was given a number the table has no room for
  shifted   \* history: a rvol was called on a full table

vars == <<vols, ordered, cropped, shifted>>

Volume(cyl, sec, size) == [start_cyl |-> cyl, start_sec |-> sec, nsector |-> size]

\* convert_bloc: the cylinder and the sector of a bloc.  The bloc is not
\* compared with nsector.
ConvertBloc(vol, bloc) ==
    << vol.start_cyl + (vol.start_sec + bloc) \div HDA_MAXSECTOR,
       (vol.start_sec + bloc) % HDA_MAXSECTOR >>

\* Mutant: the start sector is not taken off.
ConvertCylSecFromZero(vol, cyl, sec) ==
    LET blc == (cyl - vol.start_cyl + 1) * HDA_MAXSECTOR - (HDA_MAXSECTOR - sec)
    IN  IF cyl >= vol.start_cyl /\ (sec < 0 \/ sec >= vol.start_sec) /\ blc <= vol.nsector
          THEN blc ELSE -1

(***************************************************************************)
(* convert_cyl_sec: the bloc at a cylinder and sector, or -1.  A sector of  *)
(* -1 is the greatest unsigned int to the first test and -1 to the rest.    *)
(***************************************************************************)
ConvertCylSec(vol, cyl, sec) ==
    LET blc == (cyl - vol.start_cyl + 1) * HDA_MAXSECTOR
                 - vol.start_sec - (HDA_MAXSECTOR - sec)
    IN  IF cyl >= vol.start_cyl /\ (sec < 0 \/ sec >= vol.start_sec) /\ blc <= vol.nsector
          THEN blc ELSE -1

\* Mutant: only the end of the new volume is looked at.
ChckEnd(fc, fs, size) ==
    \A i \in 1 .. Len(vols) :
       ConvertCylSec(vols[i], fc + size \div HDA_MAXSECTOR, fs - 1) = -1

\* chck_possible: neither the start nor what it takes for the end of the new
\* volume (size % HDA_MAXSECTOR cancels out) is in a volume.
ChckPossible(fc, fs, size) ==
    \A i \in 1 .. Len(vols) :
       /\ ConvertCylSec(vols[i], fc, fs) = -1
       /\ ConvertCylSec(vols[i], fc + size \div HDA_MAXSECTOR, fs - 1) = -1

\* save_mbr, as the next command reads it: one octet for the cylinder and the
\* sector, two for the size.
Saved(vol) ==
    Volume(vol.start_cyl % OCTET, vol.start_sec % OCTET, vol.nsector % (OCTET * OCTET))

\* Mutant: entries are moved one less.
MovedTooFew(k) ==
    [i \in 1 .. Len(vols) - 1 |->
       IF i >= k /\ i <= MAX_VOLUME - 3 THEN vols[i + 1] ELSE vols[i]]

\* The loop of rvol: the entries from k on move down, up to entry MAX_VOLUME - 2.
Moved(k) ==
    [i \in 1 .. Len(vols) - 1 |->
       IF i >= k /\ i <= MAX_VOLUME - 2 THEN vols[i + 1] ELSE vols[i]]

-----------------------------------------------------------------------------
\* A disk frmt has prepared.
Init ==
    /\ vols = << >>
    /\ ordered = TRUE
    /\ cropped = FALSE
    /\ shifted = FALSE

\* frmt: the magic of the table is never read, so an interrupted frmt leaves
\* an empty table too.
Frmt ==
    /\ vols' = << >>
    /\ ordered' = TRUE
    /\ cropped' = FALSE
    /\ shifted' = FALSE

\* Mutant: the table is not looked at for room.
MkvolFull(fc, fs, size) ==
    LET vol == Volume(fc, fs, size)
    IN  /\ ChckPossible(fc, fs, size)
        /\ vols' = Append(vols, Saved(vol))
        /\ ordered' = (ordered /\ \A i \in 1 .. Len(vols) :
                          vols[i].start_cyl <= fc /\ vols[i].start_sec <= fs)
        /\ cropped' = (cropped \/ Saved(vol) # vol)
        /\ UNCHANGED shifted

\* mkvol: chck_present_flag never refuses, so an absent argument is 0.
Mkvol(fc, fs, size) ==
    LET vol == Volume(fc, fs, size)
    IN  /\ Len(vols) # MAX_VOLUME
        /\ ChckPossible(fc, fs, size)
        /\ vols' = Append(vols, Saved(vol))
        /\ ordered' = (ordered /\ \A i \in 1 .. Len(vols) :
                          vols[i].start_cyl <= fc /\ vols[i].start_sec <= fs)
        /\ cropped' = (cropped \/ Saved(vol) # vol)
        /\ UNCHANGED shifted

\* rvol, on the volume vols[k].
Rvol(k) ==
    /\ vols' = Moved(k)
    /\ shifted' = (shifted \/ Len(vols) = MAX_VOLUME)
    /\ UNCHANGED <<ordered, cropped>>

Next ==
    \/ Frmt
    \/ \E fc \in Cylinders, fs \in Sectors, size \in Sizes : Mkvol(fc, fs, size)
    \/ \E k \in 1 .. Len(vols) : Rvol(k)

Spec == Init /\ [][Next]_vars

-----------------------------------------------------------------------------
Volumes == [start_cyl : 0 .. OCTET - 1, start_sec : 0 .. OCTET - 1,
            nsector : 0 .. OCTET * OCTET - 1]

(* The variables keep their types, and the table never overflows.          *)
TypeOK ==
    /\ vols \in Seq(Volumes)
    /\ Len(vols) <= MAX_VOLUME
    /\ ordered \in BOOLEAN
    /\ cropped \in BOOLEAN
    /\ shifted \in BOOLEAN

\* The table says what the commands meant.
Faithful == ~cropped /\ ~shifted

\* The place of a sector on the disk, counted from sector 0 of cylinder 0.
Place(cyl, sec) == cyl * HDA_MAXSECTOR + sec

Start(vol) == Place(vol.start_cyl, vol.start_sec)

Disjoint(v, w) ==
    \/ Start(v) + v.nsector <= Start(w)
    \/ Start(w) + w.nsector <= Start(v)

(***************************************************************************)
(* Two volumes never start at the same cylinder and sector, so mknfs on one *)
(* cannot replace the super bloc of another: as long as the table had room  *)
(* for the numbers given and no rvol has met a full table.                  *)
(***************************************************************************)
DistinctStarts ==
    Faithful => \A i, j \in 1 .. Len(vols) :
                   /\ vols[i].start_cyl = vols[j].start_cyl
                   /\ vols[i].start_sec = vols[j].start_sec
                   => i = j

(***************************************************************************)
(* Volumes made one behind the other, none at a cylinder or a sector below  *)
(* that of an earlier one, share no sector, whatever was removed in between *)
(* and however long they are: chck_possible is enough for that use.         *)
(***************************************************************************)
OrderedAreDisjoint ==
    Faithful /\ ordered =>
       \A i, j \in 1 .. Len(vols) : i # j => Disjoint(vols[i], vols[j])

(***************************************************************************)
(* Where both conversions answer they are inverse of each other: a bloc at  *)
(* a sector not below start_sec is found again, and the bloc found at a     *)
(* cylinder and sector is the one that lies there.                          *)
(***************************************************************************)
ConversionsAgree ==
    \A i \in 1 .. Len(vols) :
       LET vol == vols[i]
       IN  vol.start_sec < HDA_MAXSECTOR =>
             /\ \A bloc \in 0 .. vol.nsector :
                   LET at == ConvertBloc(vol, bloc)
                   IN  at[2] >= vol.start_sec
                         => ConvertCylSec(vol, at[1], at[2]) = bloc
             /\ \A cyl \in 0 .. OCTET, sec \in 0 .. HDA_MAXSECTOR - 1 :
                   LET bloc == ConvertCylSec(vol, cyl, sec)
                   IN  bloc # -1 => /\ bloc \in 0 .. vol.nsector
                                    /\ ConvertBloc(vol, bloc) = <<cyl, sec>>

(***************************************************************************)
(* rvol on a table that is not full removes the volume it was given and     *)
(* keeps all the others, in their order, though its loop stops at a fixed   *)
(* entry of the table and never looks at nvol.                              *)
(***************************************************************************)
RvolKeepsOthers ==
    [][\A k \in 1 .. Len(vols) :
          Len(vols) < MAX_VOLUME /\ Rvol(k)
            => vols' = SubSeq(vols, 1, k - 1) \o SubSeq(vols, k + 1, Len(vols))]_vars
=============================================================================

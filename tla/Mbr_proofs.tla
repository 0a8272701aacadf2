------------------------------ MODULE Mbr_proofs ------------------------------
(***************************************************************************)
(* For every size of the table, of a cylinder and of an octet, and for all  *)
(* arguments of mkvol: no two volumes start at the same place, volumes made *)
(* one behind the other share no sector, the two conversions of volume.c    *)
(* are inverse of each other, and rvol removes one volume.                 *)
(***************************************************************************)
EXTENDS Mbr, SequenceTheorems, TLAPS

USE MbrAssumption

-----------------------------------------------------------------------------
(* Lemmas about the table, and about what the commands compute from it.    *)

(* The table of a disk frmt has prepared has its type.                     *)
LEMMA EmptyTable == << >> \in Seq(Volumes) /\ Len(<< >>) <= MAX_VOLUME
  <1>1. << >> \in Seq(Volumes)
    OBVIOUS
  <1>2. Len(<< >>) = 0
    OBVIOUS
  <1>3. MAX_VOLUME \in Nat
    OBVIOUS
  <1> QED
    BY <1>1, <1>2, <1>3

(* An entry read back has its type, whatever numbers it was made of.       *)
LEMMA SavedType ==
    ASSUME NEW cyl \in Nat, NEW sec \in Nat, NEW size \in Nat
    PROVE  Saved(Volume(cyl, sec, size)) \in Volumes
  <1>1. OCTET * OCTET \in Nat \ {0}
    OBVIOUS
  <1>2. \A n, d \in Nat : d > 0 => n % d \in 0 .. d - 1
    OBVIOUS
  <1> QED
    BY <1>1, <1>2 DEF Saved, Volume, Volumes

(* convert_cyl_sec finds the start of a volume.                            *)
LEMMA StartIsFound ==
    ASSUME NEW vol \in Volumes
    PROVE  ConvertCylSec(vol, vol.start_cyl, vol.start_sec) = 0
  <1>1. /\ vol.start_cyl \in Nat /\ vol.start_sec \in Nat /\ vol.nsector \in Nat
    BY DEF Volumes
  <1>2. (vol.start_cyl - vol.start_cyl + 1) * HDA_MAXSECTOR = HDA_MAXSECTOR
    BY <1>1
  <1> QED
    BY <1>1, <1>2 DEF ConvertCylSec

(* A place not below the start of a volume in cylinder or sector, and       *)
(* refused by convert_cyl_sec, is behind the volume.                       *)
LEMMA RefusedIsBehind ==
    ASSUME NEW vol \in Volumes, NEW cyl \in Nat, NEW sec \in Nat,
           vol.start_cyl <= cyl, vol.start_sec <= sec,
           ConvertCylSec(vol, cyl, sec) = -1
    PROVE  Start(vol) + vol.nsector < Place(cyl, sec)
  <1> DEFINE d == cyl - vol.start_cyl
  <1>1. /\ vol.start_cyl \in Nat /\ vol.start_sec \in Nat /\ vol.nsector \in Nat
    BY DEF Volumes
  <1>2. d \in Nat
    BY <1>1
  <1>3. d * HDA_MAXSECTOR \in Nat
    BY <1>2
  <1>4. (d + 1) * HDA_MAXSECTOR = d * HDA_MAXSECTOR + HDA_MAXSECTOR
    BY <1>2
  <1>5. cyl * HDA_MAXSECTOR = d * HDA_MAXSECTOR + vol.start_cyl * HDA_MAXSECTOR
    BY <1>1
  <1>6. d * HDA_MAXSECTOR + sec - vol.start_sec > vol.nsector
    <2> DEFINE blc == (d + 1) * HDA_MAXSECTOR - vol.start_sec - (HDA_MAXSECTOR - sec)
    <2>1. blc = d * HDA_MAXSECTOR + sec - vol.start_sec
      BY <1>1, <1>2, <1>3, <1>4
    <2>2. blc >= 0
      BY <1>1, <1>3, <2>1
    <2>3. ~(blc <= vol.nsector)
      BY <1>1, <2>2 DEF ConvertCylSec
    <2> QED
      BY <1>1, <1>3, <2>1, <2>3
  <1>7. vol.start_cyl * HDA_MAXSECTOR \in Nat
    BY <1>1
  <1> QED
    BY <1>1, <1>3, <1>5, <1>6, <1>7 DEF Start, Place

(* Division by the sectors of a cylinder.                                  *)
LEMMA Division ==
    ASSUME NEW n \in Nat
    PROVE  /\ n \div HDA_MAXSECTOR \in Nat
           /\ n % HDA_MAXSECTOR \in 0 .. HDA_MAXSECTOR - 1
           /\ n = (n \div HDA_MAXSECTOR) * HDA_MAXSECTOR + (n % HDA_MAXSECTOR)
  <1>1. /\ n \div HDA_MAXSECTOR \in Int
        /\ n % HDA_MAXSECTOR \in 0 .. HDA_MAXSECTOR - 1
        /\ n = HDA_MAXSECTOR * (n \div HDA_MAXSECTOR) + (n % HDA_MAXSECTOR)
    BY SMTT(30)
  <1> DEFINE q == n \div HDA_MAXSECTOR
             r == n % HDA_MAXSECTOR
  <1>2. /\ q \in Int /\ r \in 0 .. HDA_MAXSECTOR - 1 /\ n = HDA_MAXSECTOR * q + r
    BY <1>1
  <1> HIDE DEF q, r
  <1>3. ~(q < 0)
    <2> SUFFICES ASSUME q < 0 PROVE FALSE
      OBVIOUS
    <2>1. (0 - q - 1) \in Nat
      BY <1>2
    <2>2. HDA_MAXSECTOR * (0 - q - 1) \in Nat
      BY <2>1
    <2>3. HDA_MAXSECTOR * (0 - q - 1) = 0 - HDA_MAXSECTOR * q - HDA_MAXSECTOR
      BY <1>2
    <2> QED
      BY <1>2, <2>2, <2>3
  <1>4. HDA_MAXSECTOR * q = q * HDA_MAXSECTOR
    BY <1>2
  <1> QED
    BY <1>2, <1>3, <1>4 DEF q, r

(* A cylinder and a sector are the quotient and the remainder.             *)
LEMMA QuotientIsUnique ==
    ASSUME NEW d \in Nat, NEW sec \in 0 .. HDA_MAXSECTOR - 1
    PROVE  /\ (d * HDA_MAXSECTOR + sec) \div HDA_MAXSECTOR = d
           /\ (d * HDA_MAXSECTOR + sec) % HDA_MAXSECTOR = sec
  <1>1. d * HDA_MAXSECTOR \in Nat
    OBVIOUS
  <1> DEFINE n == d * HDA_MAXSECTOR + sec
             q == n \div HDA_MAXSECTOR
             r == n % HDA_MAXSECTOR
  <1>2. n \in Nat
    BY <1>1
  <1>3. /\ q \in Nat /\ r \in 0 .. HDA_MAXSECTOR - 1
        /\ d * HDA_MAXSECTOR + sec = q * HDA_MAXSECTOR + r
    <2> HIDE DEF n
    <2>1. n = q * HDA_MAXSECTOR + r /\ q \in Nat /\ r \in 0 .. HDA_MAXSECTOR - 1
      BY <1>2, Division
    <2> QED
      BY <2>1 DEF n
  <1> HIDE DEF q, r
  <1>4. ASSUME NEW a \in Nat, NEW b \in Nat,
               NEW x \in 0 .. HDA_MAXSECTOR - 1, NEW y \in 0 .. HDA_MAXSECTOR - 1,
               a * HDA_MAXSECTOR + x = b * HDA_MAXSECTOR + y
        PROVE  ~(a < b)
    <2> SUFFICES ASSUME a < b PROVE FALSE
      OBVIOUS
    <2>1. (b - a - 1) \in Nat
      OBVIOUS
    <2>2. (b - a - 1) * HDA_MAXSECTOR \in Nat
      BY <2>1
    <2>3. /\ (b - a - 1) * HDA_MAXSECTOR
                = b * HDA_MAXSECTOR - a * HDA_MAXSECTOR - HDA_MAXSECTOR
          /\ a * HDA_MAXSECTOR \in Nat /\ b * HDA_MAXSECTOR \in Nat
      OBVIOUS
    <2> QED
      BY <1>4, <2>2, <2>3
  <1>5. ~(d < q) /\ ~(q < d)
    BY <1>3, <1>4
  <1>6. q = d
    BY <1>3, <1>5
  <1>7. r = sec
    BY <1>1, <1>3, <1>6
  <1> QED
    BY <1>6, <1>7 DEF q, r

(* What convert_cyl_sec answers for a sector with both coordinates not      *)
(* below those of the start.                                               *)
LEMMA BlocOfCylSec ==
    ASSUME NEW vol \in Volumes, NEW d \in Nat, NEW sec \in Nat, sec >= vol.start_sec
    PROVE  ConvertCylSec(vol, vol.start_cyl + d, sec)
             = IF d * HDA_MAXSECTOR + sec - vol.start_sec <= vol.nsector
                 THEN d * HDA_MAXSECTOR + sec - vol.start_sec ELSE -1
  <1>1. /\ vol.start_cyl \in Nat /\ vol.start_sec \in Nat /\ vol.nsector \in Nat
        /\ d * HDA_MAXSECTOR \in Nat
    BY DEF Volumes
  <1>2. (vol.start_cyl + d - vol.start_cyl + 1) * HDA_MAXSECTOR
          = d * HDA_MAXSECTOR + HDA_MAXSECTOR
    BY <1>1
  <1> DEFINE blc == (vol.start_cyl + d - vol.start_cyl + 1) * HDA_MAXSECTOR
                      - vol.start_sec - (HDA_MAXSECTOR - sec)
  <1>3. blc = d * HDA_MAXSECTOR + sec - vol.start_sec
    BY <1>1, <1>2
  <1>4. vol.start_cyl + d >= vol.start_cyl
    BY <1>1
  <1>5. ConvertCylSec(vol, vol.start_cyl + d, sec)
          = IF /\ vol.start_cyl + d >= vol.start_cyl
               /\ sec < 0 \/ sec >= vol.start_sec
               /\ blc <= vol.nsector
              THEN blc ELSE -1
    BY <1>1 DEF ConvertCylSec
  <1> HIDE DEF blc
  <1> QED
    BY <1>3, <1>4, <1>5

(* What rvol leaves of a table that is not full.                           *)
LEMMA MovedEntries ==
    ASSUME vols \in Seq(Volumes), NEW k \in 1 .. Len(vols)
    PROVE  /\ Moved(k) \in Seq(Volumes)
           /\ Len(Moved(k)) = Len(vols) - 1
           /\ Len(vols) < MAX_VOLUME
                => \A i \in 1 .. Len(vols) - 1 :
                      Moved(k)[i] = vols[IF i < k THEN i ELSE i + 1]
  <1>1. Len(vols) \in Nat /\ Len(vols) - 1 \in Nat
    BY LenProperties
  <1>2. \A i \in 1 .. Len(vols) : vols[i] \in Volumes
    BY ElementOfSeq
  <1>3. Moved(k) \in [1 .. Len(vols) - 1 -> Volumes]
    BY <1>1, <1>2 DEF Moved
  <1>4. Moved(k) \in Seq(Volumes)
    BY <1>1, <1>3, SeqDef
  <1>5. Len(Moved(k)) = Len(vols) - 1
    BY <1>1, <1>3, <1>4, LenProperties
  <1>6. ASSUME Len(vols) < MAX_VOLUME, NEW i \in 1 .. Len(vols) - 1
        PROVE  Moved(k)[i] = vols[IF i < k THEN i ELSE i + 1]
    BY <1>1, <1>6 DEF Moved
  <1> QED
    BY <1>4, <1>5, <1>6

-----------------------------------------------------------------------------
(***************************************************************************)
(* The table keeps its type and never holds more than MAX_VOLUME entries,   *)
(* for every argument mkvol may be given.                                  *)
(***************************************************************************)
THEOREM TypeCorrect == Spec => []TypeOK
  <1>1. Init => TypeOK
    BY EmptyTable DEF Init, TypeOK
  <1>2. TypeOK /\ [Next]_vars => TypeOK'
    <2> SUFFICES ASSUME TypeOK, [Next]_vars
                 PROVE  TypeOK'
      OBVIOUS
    <2>1. CASE Frmt
      BY <2>1, EmptyTable DEF Frmt, TypeOK
    <2>2. ASSUME NEW fc \in Cylinders, NEW fs \in Sectors, NEW size \in Sizes,
                 Mkvol(fc, fs, size)
          PROVE  TypeOK'
      <3>1. Saved(Volume(fc, fs, size)) \in Volumes
        BY SavedType
      <3>2. /\ vols' \in Seq(Volumes)
            /\ Len(vols') = Len(vols) + 1
        BY <2>2, <3>1 DEF Mkvol, TypeOK
      <3>3. Len(vols) < MAX_VOLUME
        BY <2>2 DEF Mkvol, TypeOK
      <3>4. ordered' \in BOOLEAN
        BY <2>2 DEF Mkvol
      <3>5. cropped' \in BOOLEAN /\ shifted' \in BOOLEAN
        BY <2>2 DEF Mkvol, TypeOK
      <3> QED
        BY <3>2, <3>3, <3>4, <3>5 DEF TypeOK
    <2>3. ASSUME NEW k \in 1 .. Len(vols), Rvol(k)
          PROVE  TypeOK'
      BY <2>3, MovedEntries DEF Rvol, TypeOK
    <2>4. CASE UNCHANGED vars
      BY <2>4 DEF vars, TypeOK
    <2> QED
      BY <2>1, <2>2, <2>3, <2>4 DEF Next
  <1> QED
    BY <1>1, <1>2, PTL DEF Spec

(***************************************************************************)
(* mknfs on a volume never replaces the super bloc of another, as long as   *)
(* the table could say what the commands meant.                             *)
(***************************************************************************)
THEOREM StartsStayDistinct == Spec => []DistinctStarts
  <1>1. Init => DistinctStarts
    BY DEF Init, DistinctStarts
  <1>2. TypeOK /\ DistinctStarts /\ [Next]_vars => DistinctStarts'
    <2> SUFFICES ASSUME TypeOK, DistinctStarts, [Next]_vars, Faithful',
                        NEW i \in 1 .. Len(vols'), NEW j \in 1 .. Len(vols'),
                        vols'[i].start_cyl = vols'[j].start_cyl,
                        vols'[i].start_sec = vols'[j].start_sec
                 PROVE  i = j
      BY DEF DistinctStarts
    <2>1. CASE Frmt
      BY <2>1 DEF Frmt
    <2>2. ASSUME NEW fc \in Cylinders, NEW fs \in Sectors, NEW size \in Sizes,
                 Mkvol(fc, fs, size)
          PROVE  i = j
      <3> DEFINE vol == Volume(fc, fs, size)
      <3>1. Saved(vol) = vol /\ Faithful
        BY <2>2 DEF Mkvol, Faithful, TypeOK
      <3>2. vol \in Volumes
        BY <3>1, SavedType
      <3>3. /\ Len(vols') = Len(vols) + 1
            /\ \A n \in 1 .. Len(vols) : vols'[n] = vols[n]
            /\ vols'[Len(vols) + 1] = vol
        BY <2>2, <3>1, <3>2 DEF Mkvol, TypeOK
      <3>4. \A n \in 1 .. Len(vols) :
               ~(vols[n].start_cyl = fc /\ vols[n].start_sec = fs)
        <4> SUFFICES ASSUME NEW n \in 1 .. Len(vols),
                            vols[n].start_cyl = fc, vols[n].start_sec = fs
                     PROVE  FALSE
          OBVIOUS
        <4>1. vols[n] \in Volumes
          BY ElementOfSeq DEF TypeOK
        <4>2. ConvertCylSec(vols[n], fc, fs) = 0
          BY <4>1, StartIsFound
        <4> QED
          BY <2>2, <4>2 DEF Mkvol, ChckPossible
      <3>5. vol.start_cyl = fc /\ vol.start_sec = fs
        BY DEF Volume
      <3>6. \A n, o \in 1 .. Len(vols) :
               /\ vols[n].start_cyl = vols[o].start_cyl
               /\ vols[n].start_sec = vols[o].start_sec
               => n = o
        BY <3>1 DEF DistinctStarts
      <3>7. Len(vols) \in Nat
        BY LenProperties DEF TypeOK
      <3> HIDE DEF vol
      <3>8. CASE i \in 1 .. Len(vols) /\ j \in 1 .. Len(vols)
        <4>1. vols'[i] = vols[i] /\ vols'[j] = vols[j]
          BY <3>3, <3>8
        <4> QED
          BY <3>6, <3>8, <4>1
      <3>9. CASE i \in 1 .. Len(vols) /\ j = Len(vols) + 1
        <4>1. vols'[i] = vols[i] /\ vols'[j] = vol
          BY <3>3, <3>9
        <4> QED
          BY <3>4, <3>5, <3>9, <4>1
      <3>10. CASE i = Len(vols) + 1 /\ j \in 1 .. Len(vols)
        <4>1. vols'[i] = vol /\ vols'[j] = vols[j]
          BY <3>3, <3>10
        <4> QED
          BY <3>4, <3>5, <3>10, <4>1
      <3>11. /\ i \in 1 .. Len(vols) \/ i = Len(vols) + 1
             /\ j \in 1 .. Len(vols) \/ j = Len(vols) + 1
        BY <3>3, <3>7
      <3> QED
        BY <3>8, <3>9, <3>10, <3>11
    <2>3. ASSUME NEW k \in 1 .. Len(vols), Rvol(k)
          PROVE  i = j
      <3> DEFINE Old(n) == IF n < k THEN n ELSE n + 1
      <3>1. Faithful /\ Len(vols) < MAX_VOLUME
        <4>1. ~cropped /\ ~shifted /\ Len(vols) # MAX_VOLUME
          BY <2>3 DEF Rvol, Faithful
        <4>2. Len(vols) \in Nat /\ Len(vols) <= MAX_VOLUME
          BY LenProperties DEF TypeOK
        <4> QED
          BY <4>1, <4>2 DEF Faithful
      <3>2. /\ Len(vols') = Len(vols) - 1
            /\ \A n \in 1 .. Len(vols) - 1 : vols'[n] = vols[Old(n)]
        BY <2>3, <3>1, MovedEntries DEF Rvol, TypeOK
      <3>3. Old(i) \in 1 .. Len(vols) /\ Old(j) \in 1 .. Len(vols)
        BY <3>2 DEF TypeOK
      <3>4. Old(i) = Old(j)
        BY <3>1, <3>2, <3>3 DEF DistinctStarts
      <3> QED
        BY <3>2, <3>4 DEF TypeOK
    <2>4. CASE UNCHANGED vars
      BY <2>4 DEF vars, DistinctStarts, Faithful
    <2> QED
      BY <2>1, <2>2, <2>3, <2>4 DEF Next
  <1> QED
    BY <1>1, <1>2, TypeCorrect, PTL DEF Spec

(***************************************************************************)
(* The test of the start of a new volume is enough for volumes that are     *)
(* made one behind the other: they share no sector.                         *)
(***************************************************************************)
THEOREM OrderedStayDisjoint == Spec => []OrderedAreDisjoint
  <1>1. Init => OrderedAreDisjoint
    BY DEF Init, OrderedAreDisjoint
  <1>2. TypeOK /\ OrderedAreDisjoint /\ [Next]_vars => OrderedAreDisjoint'
    <2> SUFFICES ASSUME TypeOK, OrderedAreDisjoint, [Next]_vars,
                        Faithful', ordered',
                        NEW i \in 1 .. Len(vols'), NEW j \in 1 .. Len(vols'), i # j
                 PROVE  Disjoint(vols'[i], vols'[j])
      BY DEF OrderedAreDisjoint, Disjoint, Start, Place
    <2>1. CASE Frmt
      BY <2>1 DEF Frmt
    <2>2. ASSUME NEW fc \in Cylinders, NEW fs \in Sectors, NEW size \in Sizes,
                 Mkvol(fc, fs, size)
          PROVE  Disjoint(vols'[i], vols'[j])
      <3> DEFINE vol == Volume(fc, fs, size)
      <3>1. Saved(vol) = vol /\ Faithful /\ ordered
        BY <2>2 DEF Mkvol, Faithful, TypeOK
      <3>2. vol \in Volumes
        BY <3>1, SavedType
      <3>3. /\ Len(vols') = Len(vols) + 1
            /\ \A n \in 1 .. Len(vols) : vols'[n] = vols[n]
            /\ vols'[Len(vols) + 1] = vol
        BY <2>2, <3>1, <3>2 DEF Mkvol, TypeOK
      <3>4. \A n \in 1 .. Len(vols) : Start(vols[n]) + vols[n].nsector < Start(vol)
        <4> SUFFICES ASSUME NEW n \in 1 .. Len(vols)
                     PROVE  Start(vols[n]) + vols[n].nsector < Start(vol)
          OBVIOUS
        <4>1. vols[n] \in Volumes
          BY ElementOfSeq DEF TypeOK
        <4>2. vols[n].start_cyl <= fc /\ vols[n].start_sec <= fs
          BY <2>2 DEF Mkvol
        <4>3. ConvertCylSec(vols[n], fc, fs) = -1
          BY <2>2 DEF Mkvol, ChckPossible
        <4>4. Start(vols[n]) + vols[n].nsector < Place(fc, fs)
          BY <4>1, <4>2, <4>3, RefusedIsBehind
        <4> QED
          BY <4>4 DEF Start, Volume
      <3>5. \A n \in 1 .. Len(vols) : /\ Start(vols[n]) + vols[n].nsector \in Int
                                      /\ Start(vol) \in Int
        <4> SUFFICES ASSUME NEW n \in 1 .. Len(vols)
                     PROVE  /\ Start(vols[n]) + vols[n].nsector \in Int
                            /\ Start(vol) \in Int
          OBVIOUS
        <4>1. vols[n] \in Volumes
          BY ElementOfSeq DEF TypeOK
        <4>2. ASSUME NEW v \in Volumes
              PROVE  Start(v) \in Int /\ v.nsector \in Int
          <5>1. v.start_cyl \in Nat /\ v.start_sec \in Nat /\ v.nsector \in Nat
            BY DEF Volumes
          <5>2. v.start_cyl * HDA_MAXSECTOR \in Nat
            BY <5>1
          <5>3. Start(v) = v.start_cyl * HDA_MAXSECTOR + v.start_sec
            BY DEF Start, Place
          <5> QED
            BY ONLY <5>1, <5>2, <5>3
        <4>3. Start(vols[n]) \in Int /\ vols[n].nsector \in Int
          BY <4>1, <4>2
        <4>4. Start(vol) \in Int
          BY <3>2, <4>2
        <4> QED
          BY <4>3, <4>4
      <3>6. CASE i \in 1 .. Len(vols) /\ j \in 1 .. Len(vols)
        <4>1. Disjoint(vols[i], vols[j])
          BY <3>1, <3>6 DEF OrderedAreDisjoint
        <4>2. vols'[i] = vols[i] /\ vols'[j] = vols[j]
          BY <3>3, <3>6
        <4> QED
          BY ONLY <4>1, <4>2
      <3>7. CASE i = Len(vols) + 1
        <4>1. j \in 1 .. Len(vols)
          BY <3>3, <3>7 DEF TypeOK
        <4>2. vols'[i] = vol /\ vols'[j] = vols[j]
          BY <3>3, <3>7, <4>1
        <4> HIDE DEF vol
        <4>3. Disjoint(vol, vols[j])
          BY ONLY <3>4, <3>5, <4>1 DEF Disjoint
        <4> QED
          BY ONLY <4>2, <4>3
      <3>8. CASE j = Len(vols) + 1
        <4>1. i \in 1 .. Len(vols)
          BY <3>3, <3>8 DEF TypeOK
        <4>2. vols'[i] = vols[i] /\ vols'[j] = vol
          BY <3>3, <3>8, <4>1
        <4> HIDE DEF vol
        <4>3. Disjoint(vols[i], vol)
          BY ONLY <3>4, <3>5, <4>1 DEF Disjoint
        <4> QED
          BY ONLY <4>2, <4>3
      <3> QED
        BY <3>3, <3>6, <3>7, <3>8 DEF TypeOK
    <2>3. ASSUME NEW k \in 1 .. Len(vols), Rvol(k)
          PROVE  Disjoint(vols'[i], vols'[j])
      <3> DEFINE Old(n) == IF n < k THEN n ELSE n + 1
      <3>1. Faithful /\ ordered /\ Len(vols) < MAX_VOLUME
        <4>1. ordered /\ ~cropped /\ ~shifted /\ Len(vols) # MAX_VOLUME
          BY <2>3 DEF Rvol, Faithful
        <4>2. Len(vols) \in Nat /\ Len(vols) <= MAX_VOLUME
          BY LenProperties DEF TypeOK
        <4> QED
          BY <4>1, <4>2 DEF Faithful
      <3>2. /\ Len(vols') = Len(vols) - 1
            /\ \A n \in 1 .. Len(vols) - 1 : vols'[n] = vols[Old(n)]
        BY <2>3, <3>1, MovedEntries DEF Rvol, TypeOK
      <3>3. /\ Old(i) \in 1 .. Len(vols)
            /\ Old(j) \in 1 .. Len(vols)
            /\ Old(i) # Old(j)
        BY <3>2 DEF TypeOK
      <3>4. Disjoint(vols[Old(i)], vols[Old(j)])
        BY <3>1, <3>3 DEF OrderedAreDisjoint
      <3>5. vols'[i] = vols[Old(i)] /\ vols'[j] = vols[Old(j)]
        BY <3>2
      <3> HIDE DEF Old
      <3> QED
        BY <3>4, <3>5
    <2>4. CASE UNCHANGED vars
      BY <2>4 DEF vars, OrderedAreDisjoint, Faithful
    <2> QED
      BY <2>1, <2>2, <2>3, <2>4 DEF Next
  <1> QED
    BY <1>1, <1>2, TypeCorrect, PTL DEF Spec

(***************************************************************************)
(* convert_bloc and convert_cyl_sec are inverse of each other where both    *)
(* answer, for any cylinder size and any volume of the table.              *)
(***************************************************************************)
THEOREM ConversionsStayInverse == Spec => []ConversionsAgree
  <1>1. ASSUME NEW vol \in Volumes, vol.start_sec < HDA_MAXSECTOR,
               NEW bloc \in 0 .. vol.nsector,
               ConvertBloc(vol, bloc)[2] >= vol.start_sec
        PROVE  ConvertCylSec(vol, ConvertBloc(vol, bloc)[1], ConvertBloc(vol, bloc)[2])
                 = bloc
    <2>1. /\ vol.start_cyl \in Nat /\ vol.start_sec \in Nat /\ vol.nsector \in Nat
          /\ vol.start_sec + bloc \in Nat
      BY DEF Volumes
    <2> DEFINE n == vol.start_sec + bloc
               d == n \div HDA_MAXSECTOR
               sec == n % HDA_MAXSECTOR
    <2>2. d \in Nat /\ sec \in Nat /\ n = d * HDA_MAXSECTOR + sec
      <3>1. n \in Nat
        BY <2>1
      <3> HIDE DEF n
      <3>2. /\ d \in Nat /\ sec \in 0 .. HDA_MAXSECTOR - 1
            /\ n = d * HDA_MAXSECTOR + sec
        BY <3>1, Division
      <3> HIDE DEF d, sec
      <3> QED
        BY <3>2
    <2>3. ConvertBloc(vol, bloc)[1] = vol.start_cyl + d /\ ConvertBloc(vol, bloc)[2] = sec
      BY DEF ConvertBloc
    <2> HIDE DEF d, sec
    <2>4. sec >= vol.start_sec
      BY <1>1, <2>3
    <2>5. d * HDA_MAXSECTOR \in Nat
      BY <2>2
    <2>6. d * HDA_MAXSECTOR + sec - vol.start_sec = bloc /\ bloc <= vol.nsector
      BY <2>1, <2>2, <2>5
    <2>7. ConvertCylSec(vol, vol.start_cyl + d, sec) = bloc
      BY <2>2, <2>4, <2>6, BlocOfCylSec
    <2> QED
      BY <2>3, <2>7
  <1>2. ASSUME NEW vol \in Volumes, vol.start_sec < HDA_MAXSECTOR,
               NEW cyl \in 0 .. OCTET, NEW sec \in 0 .. HDA_MAXSECTOR - 1,
               ConvertCylSec(vol, cyl, sec) # -1
        PROVE  /\ ConvertCylSec(vol, cyl, sec) \in 0 .. vol.nsector
               /\ ConvertBloc(vol, ConvertCylSec(vol, cyl, sec)) = <<cyl, sec>>
    <2> DEFINE d == cyl - vol.start_cyl
               bloc == d * HDA_MAXSECTOR + sec - vol.start_sec
    <2>1. /\ vol.start_cyl \in Nat /\ vol.start_sec \in Nat /\ vol.nsector \in Nat
      BY DEF Volumes
    <2>2. cyl >= vol.start_cyl /\ sec >= vol.start_sec
      BY <1>2, <2>1 DEF ConvertCylSec
    <2>3. d \in Nat /\ cyl = vol.start_cyl + d
      BY <2>1, <2>2
    <2> HIDE DEF d
    <2>4. d * HDA_MAXSECTOR \in Nat
      BY <2>3
    <2>5. ConvertCylSec(vol, cyl, sec) = IF bloc <= vol.nsector THEN bloc ELSE -1
      BY <2>2, <2>3, BlocOfCylSec
    <2>6. ConvertCylSec(vol, cyl, sec) = bloc /\ bloc <= vol.nsector
      BY <1>2, <2>5
    <2>7. bloc \in 0 .. vol.nsector
      BY <2>1, <2>2, <2>4, <2>6
    <2>8. vol.start_sec + bloc = d * HDA_MAXSECTOR + sec
      BY <2>1, <2>4
    <2>9. /\ (vol.start_sec + bloc) \div HDA_MAXSECTOR = d
          /\ (vol.start_sec + bloc) % HDA_MAXSECTOR = sec
      BY <2>3, <2>8, QuotientIsUnique
    <2> HIDE DEF bloc
    <2>10. ConvertBloc(vol, bloc) = <<cyl, sec>>
      BY <2>3, <2>9 DEF ConvertBloc
    <2> QED
      BY <2>6, <2>7, <2>10
  <1>3. TypeOK => ConversionsAgree
    <2> SUFFICES ASSUME TypeOK, NEW i \in 1 .. Len(vols), vols[i].start_sec < HDA_MAXSECTOR
                 PROVE  /\ \A bloc \in 0 .. vols[i].nsector :
                             ConvertBloc(vols[i], bloc)[2] >= vols[i].start_sec
                               => ConvertCylSec(vols[i], ConvertBloc(vols[i], bloc)[1],
                                                ConvertBloc(vols[i], bloc)[2]) = bloc
                        /\ \A cyl \in 0 .. OCTET, sec \in 0 .. HDA_MAXSECTOR - 1 :
                             ConvertCylSec(vols[i], cyl, sec) # -1
                               => /\ ConvertCylSec(vols[i], cyl, sec) \in 0 .. vols[i].nsector
                                  /\ ConvertBloc(vols[i], ConvertCylSec(vols[i], cyl, sec))
                                       = <<cyl, sec>>
      BY DEF ConversionsAgree
    <2>1. vols[i] \in Volumes
      BY ElementOfSeq DEF TypeOK
    <2> QED
      BY <1>1, <1>2, <2>1
  <1> QED
    BY <1>3, TypeCorrect, PTL

(***************************************************************************)
(* rvol on a table that is not full removes one entry and keeps the others  *)
(* in their order, on a table of any size.                                 *)
(***************************************************************************)
THEOREM RvolRemovesOne == Spec => RvolKeepsOthers
  <1>1. ASSUME TypeOK, NEW k \in 1 .. Len(vols), Len(vols) < MAX_VOLUME, Rvol(k)
        PROVE  vols' = SubSeq(vols, 1, k - 1) \o SubSeq(vols, k + 1, Len(vols))
    <2> DEFINE n == Len(vols)
               low == SubSeq(vols, 1, k - 1)
               high == SubSeq(vols, k + 1, n)
    <2>1. n \in Nat /\ k \in Int /\ 1 <= k /\ k <= n
      BY <1>1, LenProperties DEF TypeOK
    <2>2. \A i \in 1 .. n : vols[i] \in Volumes
      BY <1>1, ElementOfSeq DEF TypeOK
    <2>3. /\ vols' \in Seq(Volumes) /\ Len(vols') = n - 1
          /\ \A i \in 1 .. n - 1 : vols'[i] = vols[IF i < k THEN i ELSE i + 1]
      BY <1>1, MovedEntries DEF Rvol, TypeOK
    <2> HIDE DEF n
    <2>4. /\ low \in Seq(Volumes) /\ Len(low) = k - 1
          /\ \A i \in 1 .. k - 1 : low[i] = vols[i]
      <3>1. \A i \in 1 .. k - 1 : vols[i] \in Volumes
        BY <2>1, <2>2
      <3> QED
        BY <2>1, <3>1, SubSeqProperties
    <2>5. /\ high \in Seq(Volumes) /\ Len(high) = n - k
          /\ \A i \in 1 .. n - k : high[i] = vols[k + i]
      <3>1. \A i \in k + 1 .. n : vols[i] \in Volumes
        BY <2>1, <2>2
      <3> QED
        BY <2>1, <3>1, SubSeqProperties
    <2> HIDE DEF low, high
    <2>6. /\ low \o high \in Seq(Volumes) /\ Len(low \o high) = n - 1
          /\ \A i \in 1 .. n - 1 :
                (low \o high)[i] = IF i <= k - 1 THEN low[i] ELSE high[i - (k - 1)]
      BY <2>1, <2>4, <2>5, ConcatProperties
    <2>7. ASSUME NEW i \in 1 .. n - 1
          PROVE  vols'[i] = (low \o high)[i]
      <3>1. CASE i < k
        <4>1. i \in 1 .. k - 1 /\ i <= k - 1
          BY <2>1, <3>1
        <4>2. (low \o high)[i] = low[i]
          BY <2>6, <4>1
        <4> QED
          BY <2>3, <2>4, <3>1, <4>1, <4>2
      <3>2. CASE ~(i < k)
        <4>1. i - (k - 1) \in 1 .. n - k /\ k + (i - (k - 1)) = i + 1 /\ ~(i <= k - 1)
          BY <2>1, <3>2
        <4>2. (low \o high)[i] = high[i - (k - 1)]
          BY <2>6, <4>1
        <4>3. high[i - (k - 1)] = vols[k + (i - (k - 1))]
          BY <2>5, <4>1
        <4>4. vols'[i] = vols[i + 1]
          BY <2>3, <3>2
        <4> QED
          BY ONLY <4>1, <4>2, <4>3, <4>4
      <3> QED
        BY <3>1, <3>2
    <2>8. vols' = low \o high
      BY <2>3, <2>6, <2>7, SeqEqual
    <2> QED
      BY <2>8 DEF low, high, n
  <1>2. TypeOK /\ [Next]_vars
          => [\A k \in 1 .. Len(vols) :
                Len(vols) < MAX_VOLUME /\ Rvol(k)
                  => vols' = SubSeq(vols, 1, k - 1) \o SubSeq(vols, k + 1, Len(vols))]_vars
    BY <1>1
  <1> QED
    BY <1>2, TypeCorrect, PTL DEF Spec, RvolKeepsOthers
=============================================================================

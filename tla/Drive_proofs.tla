----------------------------- MODULE Drive_proofs -----------------------------
(***************************************************************************)
(* For every set of coordinates, every content of sectors and any width of  *)
(* the registers: the driver keeps its types, no interrupt wakes the wrong  *)
(* sleep, and it is a store of sectors as soon as the registers tell the    *)
(* coordinates of two sectors apart.                                       *)
(***************************************************************************)
EXTENDS Drive, SequenceTheorems, TLAPS

USE DriveAssumption

-----------------------------------------------------------------------------
(* The inductive invariant: what registers, head, buffer and interrupt have *)
(* to do with the call under way, for each place the program sleeps at.     *)

Idle ==
    pc = "idle" => call = NoCall /\ command = "none" /\ ~irq

Seeking ==
    pc = "seeking" =>
      /\ call \in Calls
      /\ Addressed = PlaceOf(call.at)
      /\ \/ command = "seek" /\ ~irq
         \/ command = "none" /\ irq /\ head = PlaceOf(call.at)

Transferring ==
    pc = "transferring" =>
      /\ call \in Calls
      /\ head = PlaceOf(call.at)
      /\ call.op = "write" => masterbuffer = call.buffer
      /\ \/ command = call.op /\ ~irq
         \/ command = "none" /\ irq /\ platter[head] = masterbuffer

IInv == TypeOK /\ Idle /\ Seeking /\ Transferring

-----------------------------------------------------------------------------
(* Lemmas on coordinates and calls.                                        *)

(* The two registers of a coordinate hold octets.                          *)
LEMMA OctetsOut ==
    ASSUME NEW val \in 0 .. OCTET * OCTET - 1
    PROVE  /\ Out16(val)[1] \in 0 .. OCTET - 1
           /\ Out16(val)[2] \in 0 .. OCTET - 1
  <1>1. val \div OCTET \in 0 .. OCTET - 1
    <2>1. /\ val \div OCTET \in Int /\ val % OCTET \in 0 .. OCTET - 1
          /\ val = OCTET * (val \div OCTET) + (val % OCTET)
      BY SMTT(30)
    <2> DEFINE q == val \div OCTET
    <2>2. q \in Int /\ OCTET * q <= val /\ val < OCTET * OCTET /\ val < OCTET * q + OCTET
      BY <2>1
    <2> HIDE DEF q
    <2>3. CASE q < 0
      <3>1. (0 - q - 1) \in Nat /\ OCTET * (0 - q - 1) \in Nat
        BY <2>2, <2>3
      <3>2. OCTET * (0 - q - 1) = 0 - OCTET * q - OCTET
        BY <2>2
      <3> QED
        BY <2>2, <3>1, <3>2
    <2>4. CASE q > OCTET - 1
      <3>1. (q - OCTET) \in Nat /\ OCTET * (q - OCTET) \in Nat
        BY <2>2, <2>4
      <3>2. OCTET * (q - OCTET) = OCTET * q - OCTET * OCTET
        BY <2>2
      <3> QED
        BY <2>2, <3>1, <3>2
    <2> QED
      BY <2>2, <2>3, <2>4 DEF q
  <1>2. val % NIBBLE \in 0 .. NIBBLE - 1
    OBVIOUS
  <1> QED
    BY <1>1, <1>2 DEF Out16

(* What a call is made of.                                                 *)
LEMMA CallParts ==
    ASSUME NEW c \in Calls
    PROVE  /\ c # NoCall
           /\ c.op \in {"read", "write"}
           /\ c.at \in Cylinders \X Sectors
           /\ c.at[1] \in Cylinders /\ c.at[2] \in Sectors
           /\ c.op = "write" => c.buffer \in Buffers
  BY DEF Calls, NoCall

(* Two pairs behind one another.                                           *)
LEMMA TwoPairs ==
    ASSUME NEW s \in Seq(Int), NEW t \in Seq(Int), Len(s) = 2, Len(t) = 2
    PROVE  /\ (s \o t)[1] = s[1] /\ (s \o t)[2] = s[2]
           /\ (s \o t)[3] = t[1] /\ (s \o t)[4] = t[2]
  <1>1. \A i \in 1 .. Len(s) + Len(t) :
           (s \o t)[i] = IF i <= Len(s) THEN s[i] ELSE t[i - Len(s)]
    BY ConcatProperties
  <1>2. \A i \in 1 .. 4 : (s \o t)[i] = IF i <= 2 THEN s[i] ELSE t[i - 2]
    <2>1. 1 .. Len(s) + Len(t) = 1 .. 4
      OBVIOUS
    <2> QED
      BY <1>1, <2>1
  <1>3. (s \o t)[1] = s[1]
    BY <1>2
  <1>4. (s \o t)[2] = s[2]
    BY <1>2
  <1>5. (s \o t)[3] = t[1]
    <2>1. 3 \in 1 .. 4 /\ ~(3 <= 2) /\ 3 - 2 = 1
      OBVIOUS
    <2>2. (s \o t)[3] = IF 3 <= 2 THEN s[3] ELSE t[3 - 2]
      BY ONLY <1>2, <2>1, Zenon
    <2> QED
      BY ONLY <2>1, <2>2, Zenon
  <1>6. (s \o t)[4] = t[2]
    <2>1. 4 \in 1 .. 4 /\ ~(4 <= 2) /\ 4 - 2 = 2
      OBVIOUS
    <2>2. (s \o t)[4] = IF 4 <= 2 THEN s[4] ELSE t[4 - 2]
      BY ONLY <1>2, <2>1, Zenon
    <2> QED
      BY ONLY <2>1, <2>2, Zenon
  <1> QED
    BY <1>3, <1>4, <1>5, <1>6

(* The registers of a call name the place of its sector.                   *)
LEMMA RegistersName ==
    ASSUME NEW c \in Calls, NEW r, r = Out16(c.at[1]) \o Out16(c.at[2])
    PROVE  /\ \A i \in 1 .. 4 : r[i] \in 0 .. OCTET - 1
           /\ <<In16(r[1], r[2]), In16(r[3], r[4])>> = PlaceOf(c.at)
           /\ PlaceOf(c.at) \in Places
  <1>1. c.at[1] \in Cylinders /\ c.at[2] \in Sectors
    BY CallParts
  <1>2. c.at[1] \in 0 .. OCTET * OCTET - 1 /\ c.at[2] \in 0 .. OCTET * OCTET - 1
    BY <1>1
  <1>3. ASSUME NEW val \in 0 .. OCTET * OCTET - 1
        PROVE  Out16(val) \in Seq(Int) /\ Len(Out16(val)) = 2
    <2>1. val \div OCTET \in Int /\ val % NIBBLE \in Int
      BY OctetsOut DEF Out16
    <2> QED
      BY <2>1 DEF Out16
  <1>4. /\ Out16(c.at[1]) \in Seq(Int) /\ Len(Out16(c.at[1])) = 2
        /\ Out16(c.at[2]) \in Seq(Int) /\ Len(Out16(c.at[2])) = 2
    BY <1>2, <1>3
  <1>5. /\ r[1] = Out16(c.at[1])[1] /\ r[2] = Out16(c.at[1])[2]
        /\ r[3] = Out16(c.at[2])[1] /\ r[4] = Out16(c.at[2])[2]
    BY <1>4, TwoPairs
  <1>6. \A i \in 1 .. 4 : r[i] \in 0 .. OCTET - 1
    <2>1. /\ r[1] \in 0 .. OCTET - 1 /\ r[2] \in 0 .. OCTET - 1
          /\ r[3] \in 0 .. OCTET - 1 /\ r[4] \in 0 .. OCTET - 1
      BY <1>2, <1>5, OctetsOut
    <2>2. \A i \in 1 .. 4 : i = 1 \/ i = 2 \/ i = 3 \/ i = 4
      OBVIOUS
    <2> QED
      BY <2>1, <2>2
  <1>7. PlaceOf(c.at) \in Places
    BY ONLY <1>1 DEF PlaceOf, Places
  <1> QED
    BY <1>5, <1>6, <1>7 DEF PlaceOf

(* A write to one place of the platter.                                    *)
LEMMA PlatterWritten ==
    ASSUME NEW p \in Places, NEW b \in Buffers, platter \in [Places -> Buffers]
    PROVE  /\ [platter EXCEPT ![p] = b] \in [Places -> Buffers]
           /\ [platter EXCEPT ![p] = b][p] = b
           /\ \A q \in Places : q # p => [platter EXCEPT ![p] = b][q] = platter[q]
  OBVIOUS

-----------------------------------------------------------------------------
(***************************************************************************)
(* The inductive invariant, in every state: the registers name the sector   *)
(* of the call while its head moves, the head is over it afterwards, and    *)
(* MASTERBUFFER is what the sector holds when the transfer is over.         *)
(***************************************************************************)
THEOREM Invariance == Spec => []IInv
  <1>1. Init => IInv
    <2> SUFFICES ASSUME Init
                 PROVE  IInv
      OBVIOUS
    <2>1. \A i \in 1 .. 4 : registers[i] \in 0 .. OCTET - 1
      <3>1. registers = <<0, 0, 0, 0>> /\ 0 \in 0 .. OCTET - 1
        BY DEF Init
      <3>2. \A i \in 1 .. 4 : i = 1 \/ i = 2 \/ i = 3 \/ i = 4
        OBVIOUS
      <3>3. registers[1] = 0 /\ registers[2] = 0 /\ registers[3] = 0 /\ registers[4] = 0
        BY <3>1
      <3> QED
        BY <3>1, <3>2, <3>3
    <2>2. TypeOK
      BY <2>1 DEF Init, TypeOK
    <2> QED
      BY <2>2 DEF Init, IInv, Idle, Seeking, Transferring
  <1>2. IInv /\ [Next]_vars => IInv'
    <2> SUFFICES ASSUME IInv, [Next]_vars
                 PROVE  IInv'
      OBVIOUS
    <2> USE DEF IInv
    <2>1. ASSUME NEW c \in Calls, MoveHead(c)
          PROVE  IInv'
      <3>1. /\ \A i \in 1 .. 4 : registers'[i] \in 0 .. OCTET - 1
            /\ Addressed' = PlaceOf(c.at)
        BY <2>1, RegistersName DEF MoveHead, Addressed
      <3>2. command = "none" /\ ~irq
        BY <2>1 DEF MoveHead, Idle
      <3>3. TypeOK'
        BY <2>1, <3>1 DEF MoveHead, TypeOK
      <3> QED
        BY <2>1, <3>1, <3>2, <3>3 DEF MoveHead, Idle, Seeking, Transferring
    <2>2. CASE Transfer
      <3>1. call \in Calls /\ command = "none" /\ head = PlaceOf(call.at)
        BY <2>2 DEF Transfer, Seeking
      <3>2. /\ call.op \in {"read", "write"}
            /\ call.op = "write" => call.buffer \in Buffers
        BY <3>1, CallParts
      <3>3. TypeOK'
        BY <2>2, <3>1, <3>2 DEF Transfer, TypeOK
      <3> QED
        BY <2>2, <3>1, <3>2, <3>3 DEF Transfer, Idle, Seeking, Transferring
    <2>3. CASE Finish
      <3>1. /\ call \in Calls /\ command = "none"
            /\ call.op = "write" => call.buffer \in Buffers
            /\ call.op \in {"read", "write"}
        BY <2>3, CallParts DEF Finish, Transferring
      <3>2. TypeOK'
        BY <2>3, <3>1 DEF Finish, TypeOK
      <3> QED
        BY <2>3, <3>1, <3>2 DEF Finish, Idle, Seeking, Transferring
    <2>4. CASE Kill
      <3>1. TypeOK'
        BY <2>4 DEF Kill, TypeOK
      <3> QED
        BY <2>4, <3>1 DEF Kill, Idle, Seeking, Transferring
    <2>5. CASE Complete
      <3>1. CASE pc = "seeking"
        <4>1. /\ call \in Calls /\ command = "seek"
              /\ Addressed = PlaceOf(call.at)
          BY <2>5, <3>1 DEF Complete, Seeking
        <4>2. PlaceOf(call.at) \in Places
          BY <4>1, RegistersName
        <4>3. TypeOK'
          BY <2>5, <3>1, <4>1, <4>2 DEF Complete, TypeOK
        <4>4. Addressed' = Addressed
          BY <2>5 DEF Complete, Addressed
        <4> QED
          BY <2>5, <3>1, <4>1, <4>3, <4>4 DEF Complete, Idle, Seeking, Transferring
      <3>2. CASE pc = "transferring"
        <4>1. /\ call \in Calls /\ command = call.op
              /\ head = PlaceOf(call.at)
              /\ call.op = "write" => masterbuffer = call.buffer
          BY <2>5, <3>2 DEF Complete, Transferring
        <4>2. head \in Places
          BY <4>1, RegistersName
        <4>3. call.op = "write" => masterbuffer \in Buffers
          BY <4>1, CallParts
        <4>4. call.op \in {"read", "write"}
          BY <4>1, CallParts
        <4>5. CASE call.op = "read"
          <5>1. /\ masterbuffer' = platter[head] /\ platter' = platter
                /\ head' = head /\ command' = "none" /\ irq' = TRUE
                /\ UNCHANGED <<registers, call, pc, result>>
            BY <2>5, <4>1, <4>5 DEF Complete
          <5>2. platter[head] \in Buffers
            BY <4>2 DEF TypeOK
          <5>3. TypeOK'
            BY <5>1, <5>2 DEF TypeOK
          <5> QED
            BY <3>2, <4>1, <4>5, <5>1, <5>3 DEF Idle, Seeking, Transferring
        <4>6. CASE call.op = "write"
          <5>1. /\ platter' = [platter EXCEPT ![head] = masterbuffer]
                /\ masterbuffer' = masterbuffer
                /\ head' = head /\ command' = "none" /\ irq' = TRUE
                /\ UNCHANGED <<registers, call, pc, result>>
            BY <2>5, <4>1, <4>6 DEF Complete
          <5>2. platter' \in [Places -> Buffers] /\ platter'[head] = masterbuffer
            BY <4>2, <4>3, <4>6, <5>1, PlatterWritten DEF TypeOK
          <5>3. TypeOK'
            BY <5>1, <5>2 DEF TypeOK
          <5> QED
            BY <3>2, <4>1, <5>1, <5>2, <5>3 DEF Idle, Seeking, Transferring
        <4> QED
          BY <4>4, <4>5, <4>6
      <3>3. pc # "idle"
        BY <2>5 DEF Complete, Idle
      <3> QED
        BY <3>1, <3>2, <3>3 DEF TypeOK
    <2>6. CASE UNCHANGED vars
      BY <2>6 DEF vars, TypeOK, Idle, Seeking, Transferring, Addressed
    <2> QED
      BY <2>1, <2>2, <2>3, <2>4, <2>5, <2>6 DEF Next
  <1> QED
    BY <1>1, <1>2, PTL DEF Spec

(* Registers hold octets, and the head is over a sector that has a place.  *)
THEOREM TypeCorrect == Spec => []TypeOK
  <1>1. IInv => TypeOK
    BY DEF IInv
  <1> QED
    BY <1>1, Invariance, PTL

(***************************************************************************)
(* No interrupt outlives the call whose command raised it, whatever was     *)
(* killed: _sleep is never woken for the command of another call.           *)
(***************************************************************************)
THEOREM NoStaleIrqs == Spec => []NoStaleIrq
  <1>1. IInv => NoStaleIrq
    BY DEF IInv, TypeOK, Idle, Seeking, Transferring, NoStaleIrq
  <1> QED
    BY <1>1, Invariance, PTL

-----------------------------------------------------------------------------
(* The registers tell the sectors callers use apart: _out_16bits loses four *)
(* bits of a coordinate, but of no two of these the ones they differ in.    *)
ToldApart ==
    \A at1, at2 \in Cylinders \X Sectors :
       PlaceOf(at1) = PlaceOf(at2) => at1 = at2

Stored == [at \in Cylinders \X Sectors |-> platter[PlaceOf(at)]]

(* Every sector callers use has a place on the platter.                    *)
LEMMA PlaceOfAddress ==
    ASSUME NEW at \in Cylinders \X Sectors
    PROVE  PlaceOf(at) \in Places
  <1>1. at[1] \in Cylinders /\ at[2] \in Sectors
    OBVIOUS
  <1> QED
    BY ONLY <1>1 DEF PlaceOf, Places

(***************************************************************************)
(* read_sector and write_sector are a store of sectors: what the controller *)
(* does for a write is the one step that changes a sector, everything else  *)
(* is the start and the end of the call or nothing a caller can see.        *)
(***************************************************************************)
THEOREM DriverIsAStore ==
    ASSUME ToldApart
    PROVE  Spec => ImplementsSectorStore
  <1> USE DEF Store!NoCall, NoCall
  <1>1. Init => Store!Init
    <2> SUFFICES ASSUME Init
                 PROVE  Store!Init
      OBVIOUS
    <2>1. Stored \in [Cylinders \X Sectors -> Buffers]
      BY PlaceOfAddress DEF Init, Stored
    <2> QED
      BY <2>1 DEF Init, Store!Init, Stored
  <1>2. IInv /\ [Next]_vars => [Store!Next]_(Store!vars)
    <2> SUFFICES ASSUME IInv, [Next]_vars
                 PROVE  [Store!Next]_(Store!vars)
      OBVIOUS
    <2> USE DEF IInv
    <2>1. ASSUME NEW c \in Calls, MoveHead(c)
          PROVE  Store!Begin
      BY <2>1 DEF MoveHead, Idle, Calls, Store!Begin
    <2>2. CASE Transfer
      BY <2>2 DEF Transfer, Store!vars
    <2>3. CASE Finish
      <3>1. /\ call \in Calls /\ head = PlaceOf(call.at)
            /\ platter[head] = masterbuffer
            /\ call.op = "write" => masterbuffer = call.buffer
        BY <2>3 DEF Finish, Transferring
      <3>2. Stored[call.at] = masterbuffer
        BY <3>1, CallParts DEF Stored
      <3>3. /\ call # NoCall
            /\ call.op \in {"read", "write"}
        BY <3>1, CallParts
      <3>4. result' = Stored[call.at]
        BY <2>3, <3>1, <3>2, <3>3 DEF Finish
      <3>5. call' = NoCall /\ Stored' = Stored
        BY <2>3 DEF Finish, Stored
      <3> QED
        BY <3>1, <3>2, <3>3, <3>4, <3>5 DEF Store!Next, Store!End, Stored
    <2>4. CASE Kill
      BY <2>4 DEF Kill, Store!Next, Store!Killed
    <2>5. CASE Complete
      <3>1. CASE command = "write"
        <4>1. /\ call \in Calls /\ call.op = "write" /\ head = PlaceOf(call.at)
              /\ masterbuffer = call.buffer
          BY <2>5, <3>1 DEF Complete, TypeOK, Idle, Seeking, Transferring
        <4>2. /\ platter' = [platter EXCEPT ![head] = masterbuffer]
              /\ UNCHANGED <<call, result>>
          BY <2>5, <3>1 DEF Complete
        <4>3. call.at \in Cylinders \X Sectors
          BY <4>1, CallParts
        <4>4. ASSUME NEW at \in Cylinders \X Sectors
              PROVE  platter'[PlaceOf(at)]
                       = IF at = call.at THEN call.buffer ELSE platter[PlaceOf(at)]
          <5>1. PlaceOf(at) \in Places /\ head \in Places /\ call.buffer \in Buffers
            BY <4>1, <4>3, PlaceOfAddress, CallParts
          <5>2. at # call.at => PlaceOf(at) # head
            BY <4>1, <4>3 DEF ToldApart
          <5> QED
            BY <4>1, <4>2, <5>1, <5>2, PlatterWritten DEF TypeOK
        <4>5. Stored' = [Stored EXCEPT ![call.at] = call.buffer]
          BY <4>3, <4>4 DEF Stored
        <4> QED
          BY <4>1, <4>2, <4>5 DEF Store!Next, Store!Store, Stored
      <3>2. CASE command # "write"
        <4>1. UNCHANGED <<platter, call, result>>
          BY <2>5, <3>2 DEF Complete
        <4> QED
          BY ONLY <4>1 DEF Store!vars
      <3> QED
        BY <3>1, <3>2
    <2>6. CASE UNCHANGED vars
      <3>1. UNCHANGED <<platter, call, result>>
        BY <2>6 DEF vars
      <3> QED
        BY ONLY <3>1 DEF Store!vars
    <2> QED
      BY <2>1, <2>2, <2>3, <2>4, <2>5, <2>6 DEF Next, Store!Next
  <1> QED
    BY <1>1, <1>2, Invariance, PTL DEF Spec, Store!Spec, ImplementsSectorStore
=============================================================================

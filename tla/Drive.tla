-------------------------------- MODULE Drive --------------------------------
(***************************************************************************)
(* The disk driver, src/drive.c: read_sector and write_sector talk to the   *)
(* controller through registers, a command register, a buffer and an        *)
(* interrupt.  The controller is a library that is not in the repository:   *)
(* its actions say no more of it than drive.c relies on, and what           *)
(* include/hardware.h says of _out and _sleep.                              *)
(*                                                                         *)
(* _sleep waits for an interrupt still to come (hardware.h:99).  A command  *)
(* takes a SYSTICK, a millisecond, or more (hardware.ini:19), so that the   *)
(* program sleeps before the controller is done: the command and the        *)
(* _sleep behind it are one step.                                          *)
(***************************************************************************)
EXTENDS Integers, Sequences

CONSTANTS
  OCTET,        \* 256: the values of a register
  NIBBLE,       \* 16: val & 0x0F is val % NIBBLE
  Cylinders,    \* the coordinates the callers use
  Sectors,
  Buffers,      \* the contents of a sector
  NoBuffer

ASSUME DriveAssumption ==
    /\ OCTET \in Nat \ {0, 1} /\ NIBBLE \in Nat \ {0, 1} /\ NIBBLE < OCTET
    /\ Cylinders \subseteq 0 .. OCTET * OCTET - 1
    /\ Sectors \subseteq 0 .. OCTET * OCTET - 1
    /\ NoBuffer \notin Buffers

VARIABLES
  \* the controller
  registers,    \* HDA_DATAREGS 0 .. 3
  command,      \* HDA_CMDREG: the command to carry out, or "none"
  head,         \* the cylinder and sector the head is at
  platter,      \* what the sectors hold
  masterbuffer, \* MASTERBUFFER
  irq,          \* HDA_IRQ is raised and has woken nobody yet
  \* the program
  call,         \* the call under way
  pc,           \* "idle", or asleep: "seeking", "transferring"
  result        \* the caller's buffer when the last call has returned

vars == <<registers, command, head, platter, masterbuffer, irq, call, pc, result>>

NoCall == [op |-> "none"]

Calls == [op : {"read"}, at : Cylinders \X Sectors]
           \cup [op : {"write"}, at : Cylinders \X Sectors, buffer : Buffers]

\* Mutant: the high octet is dropped.
Out16Low(val) == <<0, val % NIBBLE>>

\* _out_16bits: the two registers val goes to.
Out16(val) == <<val \div OCTET, val % NIBBLE>>

\* The number the controller makes of two registers.
In16(high, low) == high * OCTET + low

Addressed == <<In16(registers[1], registers[2]), In16(registers[3], registers[4])>>

\* Every place the registers can name.
Places == { <<In16(Out16(c)[1], Out16(c)[2]), In16(Out16(s)[1], Out16(s)[2])>> :
              c \in Cylinders, s \in Sectors }

Init ==
    /\ registers = <<0, 0, 0, 0>>
    /\ command = "none"
    /\ head = <<0, 0>>
    /\ platter \in [Places -> Buffers]
    /\ masterbuffer = NoBuffer
    /\ irq = FALSE
    /\ call = NoCall
    /\ pc = "idle"
    /\ result = NoBuffer

\* Mutant: the head is taken to be there, and no seek is asked for.
MoveHeadUnasked(c) ==
    /\ pc = "idle"
    /\ call' = c
    /\ registers' = Out16(c.at[1]) \o Out16(c.at[2])
    /\ pc' = "seeking"
    /\ result' = NoBuffer
    /\ UNCHANGED <<command, head, platter, masterbuffer, irq>>

\* read_sector or write_sector is called: move_head, up to its _sleep.
MoveHead(c) ==
    /\ pc = "idle"
    /\ call' = c
    /\ registers' = Out16(c.at[1]) \o Out16(c.at[2])
    /\ command' = "seek"
    /\ pc' = "seeking"
    /\ result' = NoBuffer
    /\ UNCHANGED <<head, platter, masterbuffer, irq>>

\* Mutant: the buffer is handed over when the transfer is done.
TransferLate ==
    /\ pc = "seeking" /\ irq
    /\ irq' = FALSE
    /\ command' = call.op
    /\ pc' = "transferring"
    /\ UNCHANGED <<registers, head, platter, masterbuffer, call, result>>

\* Mutant: a write returns without the second _sleep.
TransferUnawaited ==
    /\ pc = "seeking" /\ irq
    /\ irq' = FALSE
    /\ masterbuffer' = IF call.op = "write" THEN call.buffer ELSE masterbuffer
    /\ command' = call.op
    /\ IF call.op = "write"
         THEN pc' = "idle" /\ call' = NoCall /\ result' = call.buffer
         ELSE pc' = "transferring" /\ UNCHANGED <<call, result>>
    /\ UNCHANGED <<registers, head, platter>>

\* The rest of the call, up to its second _sleep.  _out_16bits(HDA_DATAREGS, 1)
\* has its arguments the wrong way round: it writes to ports 1 and 2, which
\* are none of the disk's, and the registers keep the coordinates.
Transfer ==
    /\ pc = "seeking" /\ irq
    /\ irq' = FALSE
    /\ masterbuffer' = IF call.op = "write" THEN call.buffer ELSE masterbuffer
    /\ command' = call.op
    /\ pc' = "transferring"
    /\ UNCHANGED <<registers, head, platter, call, result>>

\* The end of the call: read_sector copies MASTERBUFFER.
Finish ==
    /\ pc = "transferring" /\ irq
    /\ irq' = FALSE
    /\ result' = IF call.op = "read" THEN masterbuffer ELSE call.buffer
    /\ call' = NoCall
    /\ pc' = "idle"
    /\ UNCHANGED <<registers, command, head, platter, masterbuffer>>

\* The program is killed, and with it the controller it is linked with.
Kill ==
    /\ pc # "idle"
    /\ pc' = "idle"
    /\ call' = NoCall
    /\ result' = NoBuffer
    /\ command' = "none"
    /\ irq' = FALSE
    /\ UNCHANGED <<registers, head, platter, masterbuffer>>

\* The controller carries out the command and raises its interrupt.
Complete ==
    /\ command # "none"
    /\ command' = "none"
    /\ irq' = TRUE
    /\ head' = IF command = "seek" THEN Addressed ELSE head
    /\ masterbuffer' = IF command = "read" THEN platter[head] ELSE masterbuffer
    /\ platter' = IF command = "write"
                    THEN [platter EXCEPT ![head] = masterbuffer] ELSE platter
    /\ UNCHANGED <<registers, call, pc, result>>

Next ==
    \/ \E c \in Calls : MoveHead(c)
    \/ Transfer
    \/ Finish
    \/ Kill
    \/ Complete

\* The program is alone on the machine and the controller does not stall.
Fairness == WF_vars(Transfer) /\ WF_vars(Finish) /\ WF_vars(Complete)

Spec == Init /\ [][Next]_vars /\ Fairness

-----------------------------------------------------------------------------
(* The variables keep their types.                                         *)
TypeOK ==
    /\ \A i \in 1 .. 4 : registers[i] \in 0 .. OCTET - 1
    /\ command \in {"none", "seek", "read", "write"}
    /\ head \in Places \cup {<<0, 0>>}
    /\ platter \in [Places -> Buffers]
    /\ masterbuffer \in Buffers \cup {NoBuffer}
    /\ irq \in BOOLEAN
    /\ call \in Calls \cup {NoCall}
    /\ pc \in {"idle", "seeking", "transferring"}
    /\ result \in Buffers \cup {NoBuffer}

(***************************************************************************)
(* An interrupt wakes the sleep that waits for its command, never a later   *)
(* one: if a call left an interrupt to come, the _sleep of the next one     *)
(* would end before the head is there, or before MASTERBUFFER is filled.    *)
(***************************************************************************)
NoStaleIrq ==
    /\ irq => pc # "idle" /\ command = "none"
    /\ command # "none" => command = (IF pc = "seeking" THEN "seek" ELSE call.op)

(***************************************************************************)
(* A call that is not killed returns: no sleep waits for ever.              *)
(***************************************************************************)
CallsReturn == pc # "idle" ~> pc = "idle"

(***************************************************************************)
(* The driver implements SectorStore for the coordinates callers use: it    *)
(* says of every two of them that they are different sectors.  "Mets dans   *)
(* le registre addr+1 les bite de poids faible de val" (drive.c:14-15).     *)
(***************************************************************************)
PlaceOf(at) ==
    <<In16(Out16(at[1])[1], Out16(at[1])[2]), In16(Out16(at[2])[1], Out16(at[2])[2])>>

Store == INSTANCE SectorStore WITH
    Addresses <- Cylinders \X Sectors,
    sectors   <- [at \in Cylinders \X Sectors |-> platter[PlaceOf(at)]]

ImplementsSectorStore == Store!Spec
=============================================================================

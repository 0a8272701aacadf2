------------------------------ MODULE ByteFile ------------------------------
(***************************************************************************)
(* What src/ifile.c promises its callers: each file is an unbounded row of  *)
(* octets, null where nothing was written, read and written through one     *)
(* descriptor at a time.                                                   *)
(*                                                                         *)
(* A descriptor works on a view of the file.  What it wrote is stored when  *)
(* it leaves the sector it wrote in, is flushed or is closed, and is lost   *)
(* if the program ends before.  Sizes are kept in whole sectors and are     *)
(* taken when the file is opened, so all that is promised of the end of the *)
(* file is that a reader meets it behind every non-null octet of the Near   *)
(* part.  Once a bloc was asked of a full volume nothing is promised.       *)
(***************************************************************************)
EXTENDS Integers

CONSTANTS
  Files,
  Values,       \* the octets; 0 is one of them
  Position,     \* the positions of a file that are looked at: 0 .. some bound
  SECTOR,       \* octets in a sector
  Near          \* octets at the start of a file that reopening it always finds

READ_EOF == -1
NONE == -2      \* the last call returned no octet

VARIABLES
  stored,   \* stored[f][p]: the octet on disk
  view,     \* view[f][p]: the octet the open descriptor of f shows
  pos,      \* pos[f]: its cursor
  limit,    \* limit[f]: where it meets the end of the file
  open,     \* the files that are open
  got,      \* what the last call returned to its caller
  full      \* a bloc was asked of a full volume

vars == <<stored, view, pos, limit, open, got, full>>

NoOctets == [p \in Position |-> 0]

Init ==
    /\ stored = [f \in Files |-> NoOctets]
    /\ view = [f \in Files |-> NoOctets]
    /\ pos = [f \in Files |-> 0]
    /\ limit = [f \in Files |-> 0]
    /\ open = {}
    /\ got = NONE
    /\ full = FALSE

\* The descriptor of f goes to p; leaving its sector stores what it wrote.
MoveTo(f, p, octets) ==
    /\ open' = open
    /\ pos' = [pos EXCEPT ![f] = p]
    /\ view'[f] = octets
    /\ \A g \in Files \ {f} : view'[g] = view[g]
    /\ stored' = IF p \div SECTOR = pos[f] \div SECTOR
                   THEN stored
                   ELSE [stored EXCEPT ![f] = octets]
    /\ UNCHANGED <<limit, full>>

Open(f) ==
    /\ f \notin open
    /\ open' = open \cup {f}
    /\ pos' = [pos EXCEPT ![f] = 0]
    /\ view' = [view EXCEPT ![f] = stored[f]]
    /\ \A p \in Position : p < Near /\ stored[f][p] # 0 => p < limit'[f]
    /\ \A g \in Files \ {f} : limit'[g] = limit[g]
    /\ got' = NONE
    /\ UNCHANGED <<stored, full>>

Read(f) ==
    /\ f \in open
    /\ pos[f] < limit[f] /\ pos[f] \in Position
    /\ got' = view[f][pos[f]]
    /\ MoveTo(f, pos[f] + 1, view[f])

ReadEnd(f) ==
    /\ f \in open
    /\ pos[f] >= limit[f]
    /\ got' = READ_EOF
    /\ UNCHANGED <<stored, view, pos, limit, open, full>>

Write(f, v) ==
    /\ f \in open
    /\ pos[f] \in Position
    /\ got' = NONE
    /\ MoveTo(f, pos[f] + 1, [view[f] EXCEPT ![pos[f]] = v])

Seek(f, p) ==
    /\ f \in open
    /\ got' = NONE
    /\ MoveTo(f, p, view[f])

Flush(f) ==
    /\ f \in open
    /\ got' = NONE
    /\ UNCHANGED <<open, pos, limit, full, view>>
    /\ stored' = [stored EXCEPT ![f] = view[f]]

\* The descriptors in gone are no more; what they had not stored is lost.
Forget(gone) ==
    /\ open' = open \ gone
    /\ got' = NONE
    /\ pos' = [f \in Files |-> IF f \in gone THEN 0 ELSE pos[f]]
    /\ limit' = [f \in Files |-> IF f \in gone THEN 0 ELSE limit[f]]
    /\ view' = [f \in Files |-> IF f \in gone THEN NoOctets ELSE view[f]]

Close(f) ==
    /\ f \in open
    /\ Forget({f})
    /\ stored' = [stored EXCEPT ![f] = view[f]]
    /\ UNCHANGED full

\* The other files stay as they are.
Delete(f) ==
    /\ f \notin open
    /\ got' = NONE
    /\ UNCHANGED <<open, pos, limit, full, view>>
    /\ stored' = [stored EXCEPT ![f] = NoOctets]

\* The program ends, another one starts.
Exit ==
    /\ Forget(Files)
    /\ UNCHANGED <<stored, full>>

Next ==
    \/ full \/ full'
    \/ \E f \in Files :
          \/ Open(f) \/ Read(f) \/ ReadEnd(f) \/ Flush(f) \/ Close(f) \/ Delete(f)
          \/ \E v \in Values : Write(f, v)
          \/ \E p \in Position : Seek(f, p)
    \/ Exit

Spec == Init /\ [][Next]_vars
=============================================================================

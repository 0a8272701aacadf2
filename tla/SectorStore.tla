---------------------------- MODULE SectorStore ----------------------------
(***************************************************************************)
(* What src/drive.c promises: a sector holds the last value written to it;  *)
(* a write is a single step, and a read returns what the sector held at     *)
(* some moment of the call.  Of a write the program did not live to finish  *)
(* nobody knows whether it took place.                                     *)
(***************************************************************************)
CONSTANTS Addresses, Buffers, NoBuffer

VARIABLES
  sectors,  \* sectors[a]: what sector a holds
  call,     \* the call under way: its operation, its sector, its buffer
  result    \* the buffer the last call moved, NoBuffer if it was killed

vars == <<sectors, call, result>>

NoCall == [op |-> "none"]

Init ==
    /\ sectors \in [Addresses -> Buffers]
    /\ call = NoCall
    /\ result = NoBuffer

Begin ==
    /\ call = NoCall
    /\ call' \in [op : {"read"}, at : Addresses]
                   \cup [op : {"write"}, at : Addresses, buffer : Buffers]
    /\ result' = NoBuffer
    /\ UNCHANGED sectors

\* The sector is written, while the call goes on.
Store ==
    /\ call.op = "write"
    /\ sectors' = [sectors EXCEPT ![call.at] = call.buffer]
    /\ UNCHANGED <<call, result>>

End ==
    /\ call # NoCall
    /\ call.op = "write" => sectors[call.at] = call.buffer
    /\ result' = sectors[call.at]
    /\ call' = NoCall
    /\ UNCHANGED sectors

Killed ==
    /\ call' = NoCall
    /\ result' = NoBuffer
    /\ UNCHANGED sectors

Next == Begin \/ Store \/ End \/ Killed

Spec == Init /\ [][Next]_vars
=============================================================================

------------------------------ MODULE FileStore ------------------------------
(***************************************************************************)
(* What the commands do for who types them, as long as no file was deleted  *)
(* and volume 0 was not full: a file keeps the octets it was made with; a   *)
(* copy, like what is printed of a file, has its octets up to the first     *)
(* EofChar, and is the only file to change.                                *)
(*                                                                         *)
(* Less than what the sources say of them: a command that is told another   *)
(* volume is refused, or prints or writes over files of volume 0; if_cfile  *)
(* may take any file for its copy, and if_nfile any for the one it did not  *)
(* make.  ToldAnother of Commands says what the sources do, and the code    *)
(* breaks it.                                                              *)
(***************************************************************************)
EXTENDS Integers, Sequences

CONSTANTS
  Inumbers,
  Inputs,       \* the rows of octets files are made of
  Position,     \* the positions of a file: 0 .. some bound
  Near,         \* octets at the start of a file that are always shown
  EofChar       \* the octet that is taken for the end of the file

VARIABLES
  files,    \* files[i][p]: octet p of file i, null beyond its end
  printed,  \* what the last command printed
  command,  \* the last command: its name, volume, inumber and whether it ended well
  ended     \* nothing is promised any more

vars == <<files, printed, command, ended>>

NoOctets == [p \in Position |-> 0]

\* The first e octets of input over those of a file.
Over(input, e, octets) ==
    [p \in Position |-> IF p < e /\ p < Len(input) THEN input[p + 1] ELSE octets[p]]

Padded(input) == Over(input, Len(input), NoOctets)

WithFile(i, octets) ==
    [j \in DOMAIN files \cup {i} |-> IF j = i THEN octets ELSE files[j]]

\* A file of octets may end at e: what is behind is null or not Near.
MayEnd(octets, e) == \A p \in Position : e <= p /\ p < Near => octets[p] = 0

\* The positions of a file before its end and its first EofChar.
Legible(octets, e) ==
    { p \in Position : p < e /\ \A q \in 0 .. p : octets[q] # EofChar }

-----------------------------------------------------------------------------
Init ==
    /\ files = << >>
    /\ printed = << >>
    /\ command = [name |-> "none", vol |-> 0, inumber |-> 0, ok |-> TRUE]
    /\ ended = FALSE

Make ==
    /\ command'.vol = 0 /\ command'.ok
    /\ printed' = << >>
    /\ UNCHANGED ended
    /\ \E i \in Inumbers \ DOMAIN files :
          \/ command'.name = "mknfs" /\ files' = WithFile(i, NoOctets)
          \/ command'.name = "if_nfile"
             /\ \E input \in Inputs : files' = WithFile(i, Padded(input))

\* if_nfile was given no type: it goes over a file there is.
Overwrite ==
    /\ command'.name = "if_nfile_untyped" /\ command'.ok
    /\ command'.inumber \in DOMAIN files
    /\ \E input \in Inputs :
          files' = WithFile(command'.inumber,
                            Over(input, Len(input), files[command'.inumber]))
    /\ printed' = << >>
    /\ UNCHANGED ended

\* The octets of a file up to e.
Text(octets, e) == [k \in { p + 1 : p \in Legible(octets, e) } |-> octets[k - 1]]

Show ==
    /\ command'.name = "if_pfile" /\ command'.ok
    /\ command'.inumber \in DOMAIN files
    /\ \E e \in Position :
          /\ MayEnd(files[command'.inumber], e)
          /\ printed' = Text(files[command'.inumber], e)
    /\ UNCHANGED <<files, ended>>

\* File i to file j, up to e.
Copied(i, j, e) ==
    LET before == IF j \in DOMAIN files THEN files[j] ELSE NoOctets
    IN  WithFile(j, [p \in Position |-> IF p \in Legible(files[i], e) THEN files[i][p]
                                                                     ELSE before[p]])

\* A volume other than 0 has no place for a new file.
Targets == IF command'.vol = 0 THEN Inumbers ELSE DOMAIN files

\* The file to copy may be the one that is made to copy to: it is empty.
Copy ==
    /\ command'.name = "if_cfile" /\ command'.ok
    /\ IF command'.inumber \in DOMAIN files
         THEN \E j \in Targets, e \in Position :
                /\ MayEnd(files[command'.inumber], e)
                /\ files' = Copied(command'.inumber, j, e)
         ELSE /\ command'.inumber \in Targets
              /\ files' = WithFile(command'.inumber, NoOctets)
    /\ printed' = << >>
    /\ UNCHANGED ended

\* The command stops; if_pfile may have printed some octets, if_cfile have made
\* the file to copy to and copied some, and if_nfile have gone over a file.
Refuse ==
    /\ ~command'.ok
    /\ \/ command'.vol # 0
       \/ files = << >>
       \/ command'.name = "if_cfile"
       \/ /\ command'.name \in {"if_pfile", "if_nfile_untyped"}
          /\ command'.inumber \notin DOMAIN files
    /\ UNCHANGED ended
    /\ IF command'.inumber \in DOMAIN files
         THEN \E e \in Position :
                \/ /\ command'.name = "if_pfile" /\ UNCHANGED files
                   /\ printed' = Text(files[command'.inumber], e)
                \/ /\ command'.name = "if_cfile" /\ printed' = << >>
                   /\ \E j \in Targets : files' = Copied(command'.inumber, j, e)
                \/ /\ command'.name = "if_nfile_untyped" /\ printed' = << >>
                   /\ \E input \in Inputs :
                        files' = WithFile(command'.inumber,
                                          Over(input, e, files[command'.inumber]))
                \/ UNCHANGED files /\ printed' = << >>
         ELSE /\ printed' = << >>
              /\ \/ UNCHANGED files
                 \/ /\ command'.name = "if_cfile"
                    /\ \E j \in Targets \ DOMAIN files : files' = WithFile(j, NoOctets)

Next == Make \/ Overwrite \/ Show \/ Copy \/ Refuse \/ ended \/ ended'

Spec == Init /\ [][Next]_vars
=============================================================================

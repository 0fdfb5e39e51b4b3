------------------------------- MODULE ByteStream -------------------------------
(***************************************************************************)
(* What a std::streambuf reading a file descriptor promises its istream:   *)
(* the bytes the descriptor delivers, in order, one per sbumpc(); sgetc()  *)
(* shows the next one without taking it; sungetc() steps back over the     *)
(* byte taken last and returns it, or fails with EOF when no putback is    *)
(* available.  pos counts the bytes taken; result is what the last call    *)
(* returned.                                                               *)
(***************************************************************************)
EXTENDS Naturals, Sequences

CONSTANT EOF  \* the value returned at end of file or on failure

VARIABLES data,  \* the bytes the descriptor has delivered, or will before
                 \* end of file; a pipe's grows while the reader waits
          pos, result

Next1 == IF pos < Len(data) THEN data[pos + 1] ELSE EOF

Init == pos = 0 /\ result = EOF

Get ==
  /\ result' = Next1
  /\ pos' = IF pos < Len(data) THEN pos + 1 ELSE pos

Peek ==
  /\ result' = Next1
  /\ UNCHANGED pos

Unget ==
  \/ /\ pos > 0
     /\ pos' = pos - 1
     /\ result' = data[pos]
  \/ /\ result' = EOF
     /\ UNCHANGED pos

Spec == Init /\ [][Get \/ Peek \/ Unget]_<<pos, result>>

\* A reader that never puts back (getline, extraction of words and numbers).
ReadSpec == Init /\ [][Get \/ Peek]_<<pos, result>>
=============================================================================

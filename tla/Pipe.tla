-------------------------------- MODULE Pipe --------------------------------
(***************************************************************************)
(* What one direction of a TCP forward promises: what one socket gives is  *)
(* what the other socket gets, in order, the end of the stream last, and   *)
(* never more than Window items (chunks or the end) are between the two.   *)
(* The chunks are numbered as they are read.  Either end may give up.      *)
(***************************************************************************)
EXTENDS Naturals, Sequences

CONSTANTS Window

VARIABLES given, gotten          \* sequences of chunks, Eof the last

Eof == 0
Ended(s) == s # <<>> /\ s[Len(s)] = Eof

PipeInit == given = <<>> /\ gotten = <<>>

Give ==
    /\ ~Ended(given) /\ Len(given) - Len(gotten) < Window
    /\ given' \in {Append(given, Len(given) + 1), Append(given, Eof)}
    /\ UNCHANGED gotten

Get ==
    /\ Len(gotten) < Len(given)
    /\ gotten' = Append(gotten, given[Len(gotten) + 1])
    /\ UNCHANGED given

PipeNext == Give \/ Get

PipeSpec == PipeInit /\ [][PipeNext]_<<given, gotten>>
=============================================================================

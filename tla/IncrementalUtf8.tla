---------------------------- MODULE IncrementalUtf8 ----------------------------
(***************************************************************************)
(* Decoding PTY output that arrives in arbitrary chunks                    *)
(* (terminal-model/src/utf8.rs).  A byte is a lead announcing how many     *)
(* bytes its character has, a continuation byte, or one no character       *)
(* contains; the narrower second byte some leads ask for is left out.      *)
(***************************************************************************)
EXTENDS Naturals, Sequences, SequencesExt, FiniteSets, FiniteSetsExt

CONSTANTS
    MaxFed,         \* bound: bytes the program writes
    MaxRead         \* bound: bytes of one read

VARIABLES
    pendingBytes,   \* IncrementalUtf8.pending
    decoded,        \* the characters handed to the terminal, as their bytes
    fed             \* every byte so far

utf8Vars == <<pendingBytes, decoded, fed>>

Continuation == 0
InvalidByte == 5
Leads == 1..4
PtyBytes == Leads \cup {Continuation, InvalidByte}

Utf8Init == pendingBytes = <<>> /\ decoded = <<>> /\ fed = <<>>

\* The bytes at the front of the input that can belong to one character.
FrontLen(rest) ==
    Max({k \in 1..Len(rest) : Head(rest) \in k..4 /\ \A i \in 2..k : rest[i] = Continuation} \cup {1})

\* from_utf8 on the front of the input: a character, an incomplete tail
\* (error_len is None), or an invalid sequence of known length.
Verdict(rest) ==
    LET n == FrontLen(rest) IN
    IF Head(rest) \in Leads /\ n = Head(rest) THEN "char"
    ELSE IF Head(rest) \in Leads /\ n = Len(rest) THEN "tail"
    ELSE "error"

\* The bug of dropping the byte after a truncated sequence with it.
Skip_next(rest) == Min({FrontLen(rest) + 1, Len(rest)})
Skip(rest) == FrontLen(rest)

\* The loop of push: invalid sequences are dropped, an incomplete tail waits.
RECURSIVE Decode(_, _)
Decode(rest, out) ==
    IF rest = <<>> THEN [out |-> out, tail |-> <<>>]
    ELSE LET from(k) == SubSeq(rest, k + 1, Len(rest))
             n == FrontLen(rest)
         IN  CASE Verdict(rest) = "char" -> Decode(from(n), Append(out, SubSeq(rest, 1, n)))
               [] Verdict(rest) = "error" -> Decode(from(Skip(rest)), out)
               [] Verdict(rest) = "tail" -> [out |-> out, tail |-> rest]

\* One read of the PTY.
push_bytes(input) ==
    LET d == Decode(pendingBytes \o input, <<>>) IN
    /\ Len(fed) + Len(input) <= MaxFed
    /\ fed' = fed \o input
    /\ decoded' = decoded \o d.out
    /\ pendingBytes' = d.tail

Utf8Next == \E n \in 1..MaxRead : \E input \in [1..n -> PtyBytes] : push_bytes(input)

Utf8Spec == Utf8Init /\ [][Utf8Next]_utf8Vars

-----------------------------------------------------------------------------
(* Properties *)

WellFormed(s) == s # <<>> /\ Head(s) \in Leads \cap {Len(s)} /\ \A i \in 2..Len(s) : s[i] = Continuation

\* However the reads cut the output, the terminal is given exactly the
\* well-formed characters of the whole output, in order, whole and once; what
\* waits is at most three bytes (IncrementalUtf8::push).
SplitInvisible ==
    LET spans == {s \in (1..Len(fed)) \X (1..Len(fed)) : WellFormed(SubSeq(fed, s[1], s[2]))}
        inOrder == SetToSortSeq(spans, LAMBDA s, t : s[1] < t[1])
    IN  /\ decoded = [i \in 1..Cardinality(spans) |-> SubSeq(fed, inOrder[i][1], inOrder[i][2])]
        /\ Len(pendingBytes) <= 3
=============================================================================

------------------------------ MODULE ModeTracker ------------------------------
(***************************************************************************)
(* The scanner that keeps the input modes an application asked for, so     *)
(* that a snapshot can replay them (terminal-model/src/modes.rs).  A       *)
(* character is one of the classes step tells apart; the digits and the    *)
(* semicolon of one parameter are one character here, carrying the mode.   *)
(***************************************************************************)
EXTENDS Naturals, Sequences, SequencesExt, FiniteSets

CONSTANTS
    Tracked,        \* TRACKED, in replay order
    MouseProtocols, \* MOUSE_PROTOCOLS
    OtherModes,     \* modes nobody tracks
    MaxParams       \* MAX_PARAMS

VARIABLE tracker    \* ModeTracker

modeVars == <<tracker>>

Modes == Range(Tracked) \cup OtherModes
Char(k, code) == [k |-> k, code |-> code]
Codes == {Char("param", c) : c \in Modes}
Plain == {Char(k, 0) : k \in {"esc", "csi", "[", "string", "c", "?", "odd", "!", "h", "l", "p",
                              "final", "abort", "bel", "st", "slash", "control", "text"}}
Chars == Codes \cup Plain

CsiFrame == [private |-> FALSE, bang |-> FALSE, invalid |-> FALSE, params |-> <<>>]
Fresh == [state |-> "ground", frame |-> CsiFrame, active |-> {}]

\* Enabling a mouse protocol disables the others.
apply(active, code, set) ==
    IF code \notin Range(Tracked) THEN active
    ELSE IF ~set THEN active \ {code}
    ELSE (IF code \in MouseProtocols THEN active \ MouseProtocols ELSE active) \cup {code}

\* DECSTR resets; DECSET and DECRST apply their parameters from left to right.
finish_csi(t, final) ==
    LET change(active, code) == apply(active, code, final = "h")
        f == t.frame
    IN  IF f.invalid THEN t
        ELSE IF f.bang /\ final = "p" THEN [t EXCEPT !.active = {}]
        ELSE IF f.private /\ final \in {"h", "l"}
        THEN [t EXCEPT !.active = FoldLeft(change, t.active, f.params)]
        ELSE t

Into(t, state) == [t EXCEPT !.state = state, !.frame = CsiFrame]

OpensCsi(t) == [t EXCEPT !.state = "csi", !.frame = CsiFrame]

InCsi(t, ch) ==
    LET f == t.frame IN
    CASE ch.k = "?" -> IF f.params = <<>> /\ ~f.private
                       THEN [t EXCEPT !.frame.private = TRUE]
                       ELSE [t EXCEPT !.frame.invalid = TRUE]
      [] ch.k = "param" -> IF Len(f.params) < MaxParams
                           THEN [t EXCEPT !.frame.params = Append(@, ch.code)]
                           ELSE [t EXCEPT !.frame.invalid = TRUE]
      [] ch.k = "odd" -> [t EXCEPT !.frame.invalid = TRUE]
      [] ch.k = "!" -> [t EXCEPT !.frame.bang = TRUE]
      [] ch.k \in {"[", "string", "c", "h", "l", "p", "final", "slash"} ->
            Into(finish_csi(t, ch.k), "ground")
      [] ch.k = "esc" -> [t EXCEPT !.state = "escape"]
      [] ch.k \in {"control", "bel"} -> t
      [] ch.k \in {"abort", "csi", "st", "text"} -> Into(t, "ground")

InEscape(t, ch) ==
    CASE ch.k = "[" -> OpensCsi(t)
      [] ch.k = "string" -> Into(t, "string")
      [] ch.k = "c" -> [Into(t, "ground") EXCEPT !.active = {}]
      [] ch.k = "esc" -> t
      [] OTHER -> Into(t, "ground")

InString(t, ch) ==
    CASE ch.k \in {"bel", "st", "abort"} -> Into(t, "ground")
      [] ch.k = "esc" -> Into(t, "string escape")
      [] OTHER -> t

InStringEscape(t, ch) ==
    CASE ch.k = "slash" -> Into(t, "ground")
      [] ch.k = "esc" -> t
      [] OTHER -> Into(t, "string")

step(t, ch) ==
    CASE t.state = "ground" -> IF ch.k = "esc" THEN [t EXCEPT !.state = "escape"]
                               ELSE IF ch.k = "csi" THEN OpensCsi(t) ELSE t
      [] t.state = "escape" -> InEscape(t, ch)
      [] t.state = "csi" -> InCsi(t, ch)
      [] t.state = "string" -> InString(t, ch)
      [] t.state = "string escape" -> InStringEscape(t, ch)

\* The bug of replaying the modes without the private marker.
restore_sequence_public(active) ==
    FlattenSeq([i \in DOMAIN Tracked |->
        IF Tracked[i] \in active
        THEN <<Char("esc", 0), Char("[", 0), Char("param", Tracked[i]), Char("h", 0)>>
        ELSE <<>>])

\* One DECSET for each active mode, in the order of TRACKED.
restore_sequence(active) ==
    FlattenSeq([i \in DOMAIN Tracked |->
        IF Tracked[i] \in active
        THEN <<Char("esc", 0), Char("[", 0), Char("?", 0), Char("param", Tracked[i]), Char("h", 0)>>
        ELSE <<>>])

ModesInit == tracker = Fresh

\* scan: the text arrives in chunks, and the tracker keeps nothing but its
\* own state between two characters.
scan(ch) == tracker' = step(tracker, ch)

ModesNext == \E ch \in Chars : scan(ch)

ModesSpec == ModesInit /\ [][ModesNext]_modeVars

-----------------------------------------------------------------------------
(* Properties *)

\* What a snapshot replays puts a fresh terminal in the modes of the session
\* and leaves it reading plain text; one mouse protocol at most is in force, or
\* the replay of one would undo another (restore_sequence, apply).
RestoreExact ==
    LET again == FoldLeft(step, Fresh, restore_sequence(tracker.active))
    IN  again.active = tracker.active /\ again.state = "ground"
            /\ Cardinality(tracker.active \cap MouseProtocols) <= 1

=============================================================================

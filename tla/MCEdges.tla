------------------------------ MODULE MCEdges ------------------------------
(***************************************************************************)
(* What a connection must prove, what a client keeps of it and what a      *)
(* terminal is shown, side by side: authentication with its rate limiter,  *)
(* the desktop's state file, the web client's tab, the mode tracker and    *)
(* the incremental decoder of the terminal model.  They share no state     *)
(* here, so one of them (focus) moves and the others stay where they       *)
(* begin.  Only safety is checked, so no fairness is stated.               *)
(***************************************************************************)
EXTENDS Authentication, DesktopCore, WebClient, ModeTracker, IncrementalUtf8

CONSTANTS caller1, caller2, caller3, k1, k2

VARIABLE focus

MCSourceOf == [c \in AuthConns |-> IF c = caller3 THEN 2 ELSE 1]
MCKeys     == [u \in AuthUsers |-> IF u = "ann" THEN {k1, k2} ELSE {}]
MCAttempts == [c \in AuthConns |-> IF c = caller1 THEN 3 ELSE 1]
MCPrior    == {[sub |-> "ann", iat |-> 1, exp |-> 2, ops |-> {"list"}]}
MCForeign  == {[sub |-> "eve", iat |-> 1, exp |-> 9, ops |-> {}]}
MCTracked  == <<1, 9, 1000>>
-----------------------------------------------------------------------------
Parts == {"auth", "core", "web", "modes", "utf8"}

On(part) == focus = part /\ UNCHANGED focus

EdgesInit ==
    /\ focus \in Parts
    /\ AuthInit /\ CoreInit /\ WebInit /\ ModesInit /\ Utf8Init
    /\ focus # "core" => disk.version = "absent" /\ cliServers = 0

EdgesNext ==
    \/ On("auth") /\ AuthNext /\ UNCHANGED <<coreVars, webVars, modeVars, utf8Vars>>
    \/ On("core") /\ CoreNext /\ UNCHANGED <<authVars, webVars, modeVars, utf8Vars>>
    \/ On("web") /\ WebNext /\ UNCHANGED <<authVars, coreVars, modeVars, utf8Vars>>
    \/ On("modes") /\ ModesNext /\ UNCHANGED <<authVars, coreVars, webVars, utf8Vars>>
    \/ On("utf8") /\ Utf8Next /\ UNCHANGED <<authVars, coreVars, webVars, modeVars>>

edgesVars == <<focus, authVars, coreVars, webVars, modeVars, utf8Vars>>

EdgesSpec == EdgesInit /\ [][EdgesNext]_edgesVars
=============================================================================

----------------------------- MODULE MCClients -----------------------------
(***************************************************************************)
(* What serves and reads an attached shell, side by side: the desktop's    *)
(* two tasks of an attachment, its login loop, the pages of history, and   *)
(* the agent's end of an attachment.  They share no state here, so one of  *)
(* them (focus) moves and the others stay where they begin.                *)
(***************************************************************************)
EXTENDS ShellPumps, DesktopLogin, Scrollback, AgentAttachment

VARIABLE focus

Parts == {"pumps", "login", "scroll", "attachment"}

On(part) == focus = part /\ UNCHANGED focus

ClientsInit ==
    /\ focus \in Parts
    /\ PumpsInit /\ LoginInit /\ ScrollInit /\ AttachInit
    /\ focus # "login" => method = "key"

ClientsNext ==
    \/ On("pumps") /\ PumpsNext /\ UNCHANGED <<loginVars, scrollVars, attachVars>>
    \/ On("login") /\ LoginNext /\ UNCHANGED <<pumpVars, scrollVars, attachVars>>
    \/ On("scroll") /\ ScrollNext /\ UNCHANGED <<pumpVars, loginVars, attachVars>>
    \/ On("attachment") /\ AttachNext /\ UNCHANGED <<pumpVars, loginVars, scrollVars>>

clientsVars == <<focus, pumpVars, loginVars, scrollVars, attachVars>>

\* ShellPumps: both tasks are polled, the daemon serves the stream and the
\* window shows what it is given.
PumpsFair ==
    /\ WF_pumpVars(focus = "pumps" /\ WriterTakes)
    /\ WF_pumpVars(focus = "pumps" /\ WriterPongs)
    /\ WF_pumpVars(focus = "pumps" /\ ReaderTakes)
    /\ WF_pumpVars(focus = "pumps" /\ ReaderFails)
    /\ WF_pumpVars(focus = "pumps" /\ DaemonTakes)
    /\ WF_pumpVars(focus = "pumps" /\ WindowShows)

ClientsSpec == ClientsInit /\ [][ClientsNext]_clientsVars /\ PumpsFair
=============================================================================

----------------------------- MODULE CliResume -----------------------------
(***************************************************************************)
(* The command-line client hf (crates/native-client/src/cli.rs): processes *)
(* that open, attach to and terminate shells of one daemon, and share the  *)
(* state file of state.rs.  state::load and state::save are two steps with *)
(* no lock between them, so processes can undo each other's writes.        *)
(*                                                                         *)
(* A request is one step with three outcomes: answered, executed with the  *)
(* answer lost, and lost.                                                  *)
(***************************************************************************)
EXTENDS ShellService

CONSTANTS
    Procs,               \* hf processes
    NoKey,               \* no idempotency key
    MaxFaults            \* bound: losses, crashes, restarts, commands, and
                         \* recoveries while another process uses the shell

ASSUME CliAssumption == NoShell \notin Shells /\ NoKey \notin OpenKeys

VARIABLES
    file,                \* state.json: token and key per shell, token 0 = none
    pc, shell, key, tok, \* per process: where it is, and run_session's locals
    conn,                \* per process: is its connection alive?
    copy, edit,          \* per process: the loaded state, what it will change
    faults,              \* how many faults happened
    openedBy             \* history: the key a shell was opened with

local == <<pc, shell, key, tok, conn, copy, edit>>
vars  == <<service, file, local, faults, openedBy>>

NoEntry == [token |-> 0, key |-> NoKey]
NoFile  == [s \in Shells |-> NoEntry]
NoEdit  == [op |-> "none", shell |-> NoShell, next |-> "idle"]
Stored(s) == file[s].token > 0
Running(s) == s \in Shells /\ phase[s] = "running"
Fault   == faults < MaxFaults /\ faults' = faults + 1

Init ==
    /\ ServiceInit
    /\ file = NoFile
    /\ pc = [p \in Procs |-> "idle"] /\ shell = [p \in Procs |-> NoShell]
    /\ key = [p \in Procs |-> NoKey] /\ tok = [p \in Procs |-> 0]
    /\ conn = [p \in Procs |-> FALSE]
    /\ copy = [p \in Procs |-> NoFile] /\ edit = [p \in Procs |-> NoEdit]
    /\ faults = 0
    /\ openedBy = [s \in Shells |-> NoKey]

Goto(p, l)      == pc' = [pc EXCEPT ![p] = l]
Locals(p, s, k, t) ==
    /\ shell' = [shell EXCEPT ![p] = s]
    /\ key' = [key EXCEPT ![p] = k]
    /\ tok' = [tok EXCEPT ![p] = t]
KeepLocals      == UNCHANGED <<shell, key, tok>>
NoRequest       == UNCHANGED <<service, openedBy>>

\* The process is over; what it held in memory is gone.
Exit(p) ==
    /\ Goto(p, "idle")
    /\ Locals(p, NoShell, NoKey, 0)
    /\ conn' = [conn EXCEPT ![p] = FALSE]
    /\ copy' = [copy EXCEPT ![p] = NoFile] /\ edit' = [edit EXCEPT ![p] = NoEdit]
-----------------------------------------------------------------------------
(* The state file.                                                         *)

\* Go and change the file (op), then go on at `next`.
Persist(p, op, s, next) ==
    /\ Goto(p, "load")
    /\ edit' = [edit EXCEPT ![p] = [op |-> op, shell |-> s, next |-> next]]
    /\ UNCHANGED copy

state_load(p) ==
    /\ pc[p] = "load"
    /\ copy' = [copy EXCEPT ![p] = file]
    /\ Goto(p, "save")
    /\ NoRequest /\ KeepLocals
    /\ UNCHANGED <<file, conn, edit, faults>>

\* Mutant of persist_entry: a rotation keeps a key of some stored shell.
persist_entry_any_key(p, f, s) ==
    LET keys == {f[x].key : x \in Shells} \ {NoKey} IN
    [f EXCEPT ![s] = [token |-> tok[p],
                      key |-> IF edit[p].op = "first" THEN key[p]
                              ELSE IF keys = {} THEN NoKey
                              ELSE CHOOSE k \in keys : TRUE]]

\* persist_entry: the first one stores the key, later ones keep what is there.
persist_entry(p, f, s) ==
    [f EXCEPT ![s] = [token |-> tok[p],
                      key |-> IF edit[p].op = "first" THEN key[p] ELSE @.key]]

forget_token(f, s) == [f EXCEPT ![s] = NoEntry]

\* persist_grant writes the loaded state back with only the grant changed.
state_save(p) ==
    LET e == edit[p] IN
    /\ pc[p] = "save"
    /\ file' = CASE e.op \in {"first", "rotate"} -> persist_entry(p, copy[p], e.shell)
                 [] e.op = "forget" -> forget_token(copy[p], e.shell)
                 [] e.op = "grant" -> copy[p]
    /\ IF e.next = "exit" THEN Exit(p)
       ELSE /\ Goto(p, e.next) /\ KeepLocals
            /\ copy' = [copy EXCEPT ![p] = NoFile]
            /\ edit' = [edit EXCEPT ![p] = NoEdit]
            /\ UNCHANGED conn
    /\ NoRequest /\ UNCHANGED faults
-----------------------------------------------------------------------------
(* Commands.                                                               *)

\* hf open: connect, then open with a fresh key.
CmdOpen(p, k) ==
    /\ pc[p] = "idle" /\ Fault
    /\ \A q \in Procs : key[q] # k
    /\ \A s \in Shells : openedBy[s] # k
    /\ Locals(p, NoShell, k, 0)
    /\ conn' = [conn EXCEPT ![p] = TRUE]
    /\ Persist(p, "grant", NoShell, "open")
    /\ NoRequest /\ UNCHANGED file

\* hf attach: the stored entry, then connect.
CmdAttach(p, s) ==
    /\ pc[p] = "idle" /\ Stored(s) /\ Fault
    /\ Locals(p, s, file[s].key, file[s].token)
    /\ conn' = [conn EXCEPT ![p] = TRUE]
    /\ Persist(p, "grant", s, "attach")
    /\ NoRequest /\ UNCHANGED file

\* hf terminate: connect; the shell is picked from ListShells.
CmdTerminate(p, s) ==
    /\ pc[p] = "idle" /\ Fault
    /\ s \in Known
    /\ Locals(p, s, NoKey, 0)
    /\ conn' = [conn EXCEPT ![p] = TRUE]
    /\ Persist(p, "grant", s, "terminate")
    /\ NoRequest /\ UNCHANGED file
-----------------------------------------------------------------------------
(* Requests.                                                               *)

\* Is the answer heard?  If not the connection is dead.
Heard(p)   == conn[p] /\ UNCHANGED <<conn, faults>>
Unheard(p) == conn[p] /\ Fault

\* OpenShell with key k; `s` is the shell it returns.
OpenShell(k, s) ==
    \/ /\ s = byKey[k] /\ Reopen(k)
       /\ UNCHANGED openedBy
    \/ /\ s \in Shells /\ Open(k, s)
       /\ openedBy' = [openedBy EXCEPT ![s] = k]

\* cmd_open persists key and token only when the answer has come.
OpenAnswered(p) ==
    /\ pc[p] = "open" /\ Heard(p)
    /\ \E s \in Shells :
           /\ OpenShell(key[p], s)
           /\ Locals(p, s, key[p], token'[s])
           /\ Persist(p, "first", s, "attach")
    /\ UNCHANGED file

\* The answer is lost, or the daemon refuses: hf ends with an error.
OpenFails(p) ==
    /\ pc[p] = "open"
    /\ \/ conn[p] /\ Fault /\ NoRequest
       \/ Unheard(p) /\ \E s \in Shells : OpenShell(key[p], s)
       \/ ~conn[p] /\ NoRequest /\ UNCHANGED faults
    /\ Exit(p) /\ UNCHANGED file

\* What attach answers to a token t for shell s, other than success.
Verdict(s, t) ==
    IF s \notin Known THEN "notfound"
    ELSE IF t # token[s] THEN "stale"
    ELSE IF ~Running(s) THEN "notfound" ELSE "ok"

AttachAnswered(p) ==
    LET s == shell[p] IN
    /\ pc[p] = "attach" /\ Heard(p)
    /\ \/ /\ Attach(s, tok[p])
          /\ tok' = [tok EXCEPT ![p] = token'[s]]
          /\ Persist(p, "rotate", s, "attached")
          /\ UNCHANGED <<shell, key, openedBy>>
       \/ /\ \/ Verdict(s, tok[p]) = "notfound"
             \/ Verdict(s, tok[p]) = "stale" /\ key[p] = NoKey
          /\ Persist(p, "forget", s, "exit")
          /\ NoRequest /\ KeepLocals
       \/ /\ Verdict(s, tok[p]) = "stale" /\ key[p] # NoKey
          /\ Goto(p, "recover")
          /\ NoRequest /\ KeepLocals /\ UNCHANGED <<copy, edit>>
    /\ UNCHANGED file

\* Mutant of AttachRetry: it tries again on the dead connection.
AttachRetry_unconnected(p) ==
    /\ pc[p] = "attach"
    /\ \/ Unheard(p) /\ NoRequest
       \/ Unheard(p) /\ Attach(shell[p], tok[p]) /\ UNCHANGED openedBy
       \/ ~conn[p] /\ UNCHANGED faults /\ NoRequest
    /\ conn' = [conn EXCEPT ![p] = FALSE]
    /\ KeepLocals /\ UNCHANGED <<file, pc, copy, edit>>

\* Transport loss or a retryable refusal: reconnect and try again.
AttachRetry(p) ==
    /\ pc[p] = "attach"
    /\ \/ Unheard(p) /\ NoRequest
       \/ Unheard(p) /\ Attach(shell[p], tok[p]) /\ UNCHANGED openedBy
       \/ ~conn[p] /\ UNCHANGED faults /\ NoRequest
    /\ Goto(p, "reconnect")
    /\ conn' = [conn EXCEPT ![p] = FALSE]
    /\ KeepLocals /\ UNCHANGED <<file, copy, edit>>

\* Refused for a reason that is not the token's: exit and keep it.
AttachKeeps(p) ==
    /\ pc[p] = "attach" /\ Unheard(p)
    /\ Exit(p) /\ NoRequest /\ UNCHANGED file

Reconnect(p) ==
    /\ pc[p] = "reconnect"
    /\ conn' = [conn EXCEPT ![p] = TRUE]
    /\ Persist(p, "grant", shell[p], "attach")
    /\ NoRequest /\ KeepLocals /\ UNCHANGED <<file, faults>>

\* recover_shell: the presence check.
RecoverChecked(p) ==
    /\ pc[p] = "recover" /\ Heard(p)
    /\ Running(shell[p])
    /\ Goto(p, "reopen")
    /\ NoRequest /\ KeepLocals /\ UNCHANGED <<file, copy, edit>>

\* recover_shell: the idempotent re-open; attach again on the same connection.
\* The clean-up of an accidental other shell is not modelled: it is proved to be
\* dead code, as remove_exited has no caller.  Two processes on one shell can supersede each other's tokens for
\* ever, so their recoveries count against the bound.
RecoverAnswered(p) ==
    LET s == shell[p] IN
    /\ pc[p] = "reopen" /\ conn[p] /\ UNCHANGED conn
    /\ IF \E q \in Procs \ {p} : shell[q] = s THEN Fault ELSE UNCHANGED faults
    /\ \E r \in Shells :
           /\ OpenShell(key[p], r)
           /\ IF r = s
              THEN /\ tok' = [tok EXCEPT ![p] = token'[s]]
                   /\ Persist(p, "rotate", s, "attach")
              ELSE Goto(p, "accident") /\ UNCHANGED <<tok, copy, edit>>
    /\ UNCHANGED <<file, shell, key>>

\* Any error of recover_shell forgets the token: the shell is not running, the
\* daemon refuses, or the connection is lost before or after the re-open.
RecoverFails(p) ==
    /\ pc[p] \in {"recover", "reopen"}
    /\ \/ pc[p] = "recover" /\ ~Running(shell[p]) /\ Heard(p) /\ NoRequest
       \/ /\ Unheard(p) /\ conn' = [conn EXCEPT ![p] = FALSE]
          /\ \/ NoRequest
             \/ pc[p] = "reopen" /\ OpenShell(key[p], shell[p])
       \/ ~conn[p] /\ UNCHANGED <<conn, faults>> /\ NoRequest
    /\ Persist(p, "forget", shell[p], "exit")
    /\ KeepLocals /\ UNCHANGED file

TerminateAnswered(p) ==
    LET s == shell[p] IN
    /\ pc[p] = "terminate" /\ Heard(p) /\ s \in Known
    /\ phase' = [phase EXCEPT ![s] = "ended"]
    /\ Persist(p, "forget", s, "exit")
    /\ KeepLocals /\ UNCHANGED <<byKey, token, openedBy, file>>

TerminateFails(p) ==
    /\ pc[p] = "terminate"
    /\ \/ conn[p] /\ Fault
       \/ (~conn[p] \/ shell[p] \notin Known) /\ UNCHANGED faults
    /\ Exit(p) /\ NoRequest /\ UNCHANGED file
-----------------------------------------------------------------------------
(* An attached session, and the environment.                               *)

SessionLost(p) ==
    /\ pc[p] = "attached"
    /\ \/ ~conn[p] /\ UNCHANGED faults
       \/ Unheard(p)
    /\ Goto(p, "reconnect")
    /\ conn' = [conn EXCEPT ![p] = FALSE]
    /\ NoRequest /\ KeepLocals /\ UNCHANGED <<file, copy, edit>>

SessionExited(p) ==
    /\ pc[p] = "attached" /\ conn[p] /\ ~Running(shell[p])
    /\ Persist(p, "forget", shell[p], "exit")
    /\ NoRequest /\ KeepLocals /\ UNCHANGED <<file, conn, faults>>

SessionDetached(p) ==
    /\ pc[p] = "attached"
    /\ Exit(p) /\ NoRequest /\ UNCHANGED <<file, faults>>

Crash(p) ==
    /\ pc[p] # "idle" /\ Fault
    /\ Exit(p) /\ NoRequest /\ UNCHANGED file

ShellEnds(s) == End(s) /\ UNCHANGED <<file, local, faults, openedBy>>

Restart ==
    /\ Fault
    /\ phase' = [s \in Shells |-> IF s \in Known THEN "gone" ELSE phase[s]]
    /\ byKey' = [k \in OpenKeys |-> NoShell]
    /\ conn' = [p \in Procs |-> FALSE]
    /\ UNCHANGED <<token, file, pc, shell, key, tok, copy, edit, openedBy>>
-----------------------------------------------------------------------------
Step(p) ==
    \/ state_load(p) \/ state_save(p)
    \/ OpenAnswered(p) \/ OpenFails(p)
    \/ AttachAnswered(p) \/ AttachRetry(p) \/ AttachKeeps(p) \/ Reconnect(p)
    \/ RecoverChecked(p) \/ RecoverAnswered(p) \/ RecoverFails(p)
    \/ TerminateAnswered(p) \/ TerminateFails(p)
    \/ SessionLost(p) \/ SessionExited(p)

Commands(p) ==
    \/ \E k \in OpenKeys : CmdOpen(p, k)
    \/ \E s \in Shells : CmdAttach(p, s) \/ CmdTerminate(p, s)
    \/ SessionDetached(p) \/ Crash(p)

Next ==
    \/ \E p \in Procs : Step(p) \/ Commands(p)
    \/ \E s \in Shells : ShellEnds(s)
    \/ Restart

Spec == Init /\ [][Next]_vars

\* A process does what its code says next; users, faults and shells are free.
FairSpec == Spec /\ \A p \in Procs : WF_vars(Step(p))
-----------------------------------------------------------------------------
(* Properties.                                                             *)

\* What the file says of a shell is true of it, whichever processes wrote it in
\* whichever order: its key is the one that opened the shell, and its token was
\* issued for it (persist_entry, load and save interleaved).
EntriesGenuine ==
    \A s \in Shells : Stored(s) =>
        /\ file[s].key \in {NoKey, openedBy[s]}
        /\ file[s].token <= token[s]

\* "the one thing a client must never get wrong is forgetting a resume token
\* ... on a *transient* failure" (FailureAction): a process forgets the entry
\* of a shell only when that shell has ended.
NeverForgetsRunning ==
    \A p \in Procs : pc[p] = "load" /\ edit[p].op = "forget" =>
        ~Running(edit[p].shell)

\* Once faults stop, a process that wants to attach is attached or gives up,
\* unless another process goes on using the same shell (run_session's loop).
AttachSettles ==
    \A p \in Procs : pc[p] = "attach" ~>
        \/ pc[p] \in {"attached", "idle"}
        \/ \E q \in Procs \ {p} : shell[q] = shell[p]
=============================================================================

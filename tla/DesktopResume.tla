--------------------------- MODULE DesktopResume ---------------------------
(***************************************************************************)
(* The desktop client's supervisor of one server (crates/client-core/src/  *)
(* server.rs) with its store (store.rs): the journal of opens under way,   *)
(* the recorded tokens, and their recovery, over ResumeLink.               *)
(*                                                                         *)
(* mutate_server writes the new state to disk before it replaces the one   *)
(* in memory, so one value is both; a failing write changes neither.  The  *)
(* supervisor works off one command at a time.                             *)
(***************************************************************************)
EXTENDS ResumeLink

VARIABLES
    journal,             \* ServerRecord.pending_opens: keys, in any order
    record,              \* ServerRecord.shells: token and key, token 0 = none
    pc,                  \* where the supervisor is; "down" = not running
    job,                 \* locals: key, shell, recovered; todo of the journal
    attached,            \* shells with a living attachment here
    used,                \* keys drawn so far; they are random and never repeat
    givenUp              \* history: keys given up because of an error

client == <<journal, record, pc, job, attached, used, givenUp>>
vars   == <<service, link, faults, client>>

NoRecord  == [token |-> 0, key |-> NoKey]
NoJob     == [key |-> NoKey, shell |-> NoShell, recovered |-> FALSE,
              todo |-> {}]
Recorded(s) == record[s].token > 0
Connected == pc \notin {"down", "offline"}

Init ==
    /\ ServiceInit /\ LinkInit
    /\ journal = {} /\ record = [s \in Shells |-> NoRecord]
    /\ pc = "down" /\ job = NoJob
    /\ attached = {} /\ used = {} /\ givenUp = {}

Send(op, k, s, t) == wire' = Request(op, k, s, t) /\ reply' = <<>>
Heard             == wire' = <<>> /\ reply' = <<>>
Answered(at)      == pc = at /\ reply # <<>>

\* mutate_server: saved, or the disk refuses.
Saved == UNCHANGED faults
NotSaved == Fault /\ UNCHANGED <<journal, record>>

push_pending_open(k) ==
    journal' = journal \cup {k} /\ UNCHANGED record
resolve_pending_open(k, s, t) ==
    /\ journal' = journal \ {k}
    /\ record' = [record EXCEPT ![s] = [token |-> t, key |-> k]]
drop_pending_open(k) == journal' = journal \ {k} /\ UNCHANGED record
update_token(s, t) ==
    /\ record' = [record EXCEPT ![s] =
                      IF @.token > 0 THEN [@ EXCEPT !.token = t] ELSE @]
    /\ UNCHANGED journal
remove_shell(s) ==
    record' = [record EXCEPT ![s] = NoRecord] /\ UNCHANGED journal

\* A finished or failed store call, whose result the caller ignores.
Try(call) == (call /\ Saved) \/ NotSaved
-----------------------------------------------------------------------------
(* Connecting: re-open every journalled key, then serve commands.          *)

StartUp ==
    /\ pc = "down" /\ pc' = "offline"
    /\ UNCHANGED <<service, link, faults, journal, record, job, attached, used,
                   givenUp>>

Connect ==
    /\ pc = "offline" /\ pc' = "resolving"
    /\ job' = [NoJob EXCEPT !.todo = journal]
    /\ UNCHANGED <<service, link, faults, journal, record, attached, used,
                   givenUp>>

ResolveNext ==
    /\ pc = "resolving" /\ Quiet
    /\ \/ /\ job.todo = {}
          /\ pc' = "ready" /\ job' = NoJob /\ UNCHANGED <<wire, reply>>
       \/ \E k \in job.todo :
             /\ Send("open", k, NoShell, 0)
             /\ job' = [job EXCEPT !.key = k] /\ UNCHANGED pc
    /\ UNCHANGED <<service, late, faults, journal, record, attached, used,
                   givenUp>>

\* An open that failed: its journal entry is dropped, if the disk lets us.
GiveUp(k) ==
    \/ drop_pending_open(k) /\ Saved /\ givenUp' = givenUp \cup {k}
    \/ NotSaved /\ UNCHANGED givenUp

\* The reply to an OpenShell with key k.
OpenDone(k) ==
    IF reply[1].code = "ok"
    THEN /\ Try(resolve_pending_open(k, reply[1].shell, reply[1].token))
         /\ UNCHANGED givenUp
    ELSE GiveUp(k)

ResolveReply ==
    /\ Answered("resolving")
    /\ OpenDone(job.key)
    /\ job' = [NoJob EXCEPT !.todo = job.todo \ {job.key}]
    /\ Heard
    /\ UNCHANGED <<service, late, pc, attached, used>>
-----------------------------------------------------------------------------
(* Commands.                                                               *)

\* Mutant of OpenCmd: the key is not journalled before the request leaves.
OpenCmd_unjournalled(k) ==
    /\ pc = "ready" /\ k \notin used
    /\ used' = used \cup {k}
    /\ Send("open", k, NoShell, 0)
    /\ pc' = "opening" /\ job' = [NoJob EXCEPT !.key = k]
    /\ UNCHANGED <<service, late, faults, journal, record, attached, givenUp>>

\* Open: journal the key, then send; a failing journal write ends the command.
OpenCmd(k) ==
    /\ pc = "ready" /\ k \notin used
    /\ used' = used \cup {k}
    /\ \/ /\ push_pending_open(k) /\ Saved
          /\ Send("open", k, NoShell, 0)
          /\ pc' = "opening" /\ job' = [NoJob EXCEPT !.key = k]
       \/ NotSaved /\ UNCHANGED <<wire, reply, pc, job>>
    /\ UNCHANGED <<service, late, attached, givenUp>>

OpenReply ==
    /\ Answered("opening")
    /\ OpenDone(job.key)
    /\ pc' = "ready" /\ job' = NoJob /\ Heard
    /\ UNCHANGED <<service, late, attached, used>>

\* Attach with the recorded token.  A second attach of an attached shell is
\* allowed and counts against the bound.
AttachCmd(s) ==
    /\ pc = "ready" /\ Recorded(s)
    /\ IF s \in attached THEN Fault ELSE UNCHANGED faults
    /\ Send("attach", NoKey, s, record[s].token)
    /\ pc' = "attaching" /\ job' = [NoJob EXCEPT !.shell = s, !.key = record[s].key]
    /\ UNCHANGED <<service, late, journal, record, attached, used, givenUp>>

Back == pc' = "ready" /\ job' = NoJob /\ Heard

AttachReply ==
    LET s == job.shell
        act == attach_failure_action(reply[1].code, ~job.recovered) IN
    /\ Answered("attaching")
    /\ \/ /\ reply[1].code = "ok"
          /\ Try(update_token(s, reply[1].token))
          /\ attached' = attached \cup {s}
          /\ Back /\ UNCHANGED givenUp
       \/ /\ reply[1].code # "ok" /\ act \in {"retry", "keep"}
          /\ Back /\ UNCHANGED <<faults, journal, record, attached, givenUp>>
       \/ /\ reply[1].code # "ok" /\ act = "forget"
          /\ Try(remove_shell(s))
          /\ givenUp' = IF reply[1].code = "stale" THEN givenUp \cup {job.key}
                        ELSE givenUp
          /\ Back /\ UNCHANGED attached
       \/ /\ reply[1].code # "ok" /\ act = "recover"
          /\ Send("list", NoKey, s, 0)
          /\ pc' = "checking" /\ job' = [job EXCEPT !.recovered = TRUE]
          /\ UNCHANGED <<faults, journal, record, attached, givenUp>>
    /\ UNCHANGED <<service, late, used>>

\* recover_token: the presence check.
CheckReply ==
    LET s == job.shell IN
    /\ Answered("checking")
    /\ \/ /\ reply[1].code = "ok"
          /\ Send("open", job.key, s, 0)
          /\ pc' = "reopening"
          /\ UNCHANGED <<faults, journal, record, job>>
       \/ reply[1].code # "ok" /\ Try(remove_shell(s)) /\ Back
    /\ UNCHANGED <<service, late, attached, used, givenUp>>

\* recover_token: adopt the fresh token of the same shell and attach again;
\* an accidental other shell is terminated; a refusal keeps the record.
ReopenReply ==
    LET s == job.shell
        r == reply[1] IN
    /\ Answered("reopening")
    /\ IF r.code # "ok"
       THEN Back /\ UNCHANGED <<faults, journal, record>>
       ELSE IF r.shell = s
       THEN /\ Try(update_token(s, r.token))
            /\ Send("attach", NoKey, s, r.token)
            /\ pc' = "attaching" /\ UNCHANGED job
       ELSE /\ Send("terminate", NoKey, r.shell, 0)
            /\ pc' = "undoing"
            /\ UNCHANGED <<faults, journal, record, job>>
    /\ UNCHANGED <<service, late, attached, used, givenUp>>

\* Terminate any shell the client has seen, recorded or not.
TerminateCmd(s) ==
    /\ pc = "ready" /\ phase[s] # "none"
    /\ Send("terminate", NoKey, s, 0)
    /\ pc' = "terminating" /\ job' = [NoJob EXCEPT !.shell = s]
    /\ attached' = attached \ {s}
    /\ UNCHANGED <<service, late, faults, journal, record, used, givenUp>>

\* A successful terminate removes the record; the clean-up of an accidental
\* shell ignores the answer.
TerminateReply ==
    /\ pc \in {"terminating", "undoing"} /\ reply # <<>>
    /\ IF pc = "terminating" /\ reply[1].code = "ok"
       THEN Try(remove_shell(job.shell))
       ELSE UNCHANGED <<faults, journal, record>>
    /\ Back
    /\ UNCHANGED <<service, late, attached, used, givenUp>>

DetachCmd(s) ==
    /\ pc = "ready" /\ s \in attached /\ Fault
    /\ attached' = attached \ {s}
    /\ UNCHANGED <<service, link, journal, record, pc, job, used, givenUp>>

\* The attachment's reader gets ShellExited, whatever the supervisor does.
ExitedEvent(s) ==
    /\ s \in attached /\ phase[s] # "running"
    /\ attached' = attached \ {s}
    /\ Try(remove_shell(s))
    /\ UNCHANGED <<service, link, pc, job, used, givenUp>>
-----------------------------------------------------------------------------
(* Faults.                                                                 *)

\* Keys an error takes out of the journal when the connection dies: the open
\* under way, and every key resolve_pending_opens has not got to, because its
\* loop goes on against the dead connection.
DroppedByLoss == IF pc = "opening" THEN {job.key}
                 ELSE IF pc = "resolving" THEN job.todo ELSE {}

\* The control channel dies: the command under way takes its error path.  Each
\* drop is a write of its own that may fail.
LoseConnection ==
    /\ Connected /\ Fault
    /\ Abandon
    /\ \E dropped \in SUBSET DroppedByLoss :
           /\ journal' = journal \ dropped
           /\ givenUp' = givenUp \cup dropped
    /\ pc' = "offline" /\ job' = NoJob /\ attached' = {}
    /\ UNCHANGED <<service, record, used>>

\* The attach stream fails or times out; the connection lives on.
AttachTimeout ==
    /\ pc = "attaching" /\ Fault
    /\ Abandon
    /\ pc' = "ready" /\ job' = NoJob
    /\ UNCHANGED <<service, journal, record, attached, used, givenUp>>

Crash ==
    /\ pc # "down" /\ Fault
    /\ Abandon
    /\ pc' = "down" /\ job' = NoJob /\ attached' = {}
    /\ UNCHANGED <<service, journal, record, used, givenUp>>

\* A restart kills the connection first (LoseConnection).
Restart == ~Connected /\ RestartDaemon /\ UNCHANGED client
-----------------------------------------------------------------------------
Supervisor ==
    \/ StartUp \/ Connect \/ ResolveNext \/ ResolveReply
    \/ OpenReply \/ AttachReply \/ CheckReply \/ ReopenReply \/ TerminateReply

Commands ==
    \/ \E k \in OpenKeys : OpenCmd(k)
    \/ \E s \in Shells : AttachCmd(s) \/ TerminateCmd(s) \/ DetachCmd(s)

Next ==
    \/ Supervisor \/ Commands
    \/ \E s \in Shells : ExitedEvent(s)
    \/ LoseConnection \/ AttachTimeout \/ Crash \/ Restart
    \/ Daemon /\ UNCHANGED client

Spec == Init /\ [][Next]_vars

\* The supervisor and the daemon keep going, and the frontend attaches again
\* when it sees `connected`; its command waits in the queue until it is served.
FairSpec ==
    /\ Spec
    /\ WF_vars(Supervisor) /\ WF_vars(Serve /\ UNCHANGED client)
    /\ \A s \in Shells : SF_vars(AttachCmd(s))
-----------------------------------------------------------------------------
(* Properties.                                                             *)

\* No running shell of this client is out of its reach: its key is journalled
\* or its record is kept, across crashes, lost and late requests, failing writes
\* and daemon restarts (push_pending_open before the send, resolve_pending_open
\* in one write).  The two exceptions are the client's own: an error dropped the
\* key from the journal, or a token was superseded twice during one attach.
NoSilentOrphan ==
    \A k \in OpenKeys : byKey[k] \in Shells /\ Running(byKey[k]) =>
        \/ k \in journal
        \/ Recorded(byKey[k]) /\ record[byKey[k]].key = k
        \/ k \in givenUp

\* "Terminating the accidental shell on the impossible mismatch": the presence
\* check of recover_token makes it impossible indeed.
NoAccidentalShell == pc # "undoing"

\* Once faults stop, every recorded shell is attached again or found ended.
ReattachOrForget ==
    \A s \in Shells : Recorded(s) ~> (s \in attached \/ ~Recorded(s))
=============================================================================

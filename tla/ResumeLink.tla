----------------------------- MODULE ResumeLink -----------------------------
(***************************************************************************)
(* One client's requests to a daemon over connections that die.  The       *)
(* client waits for each reply, so at most one request of the living       *)
(* connection is under way: on the wire, then answered.  A request whose   *)
(* connection died, or whose stream was given up, is lost, or is `late`:   *)
(* the daemon has it buffered and may still execute it.                    *)
(*                                                                         *)
(* The daemon's part is ShellService: crates/daemon/src/conn.rs calls the  *)
(* manager once per request and turns its verdict into a reply.            *)
(***************************************************************************)
EXTENDS ShellService, Sequences

CONSTANTS
    NoKey,               \* no idempotency key
    MaxFaults            \* bound: crashes, losses, restarts, refusals, ...

ASSUME ResumeAssumption == NoShell \notin Shells

VARIABLES
    wire,                \* <<>>, or the request under way
    reply,               \* <<>>, or the reply under way
    late,                \* requests of dead connections, still to be executed
    faults               \* how many faults happened

link == <<wire, reply, late>>

Request(op, k, s, t) == <<[op |-> op, key |-> k, shell |-> s, token |-> t]>>
Answer(code, s, t)   == <<[code |-> code, shell |-> s, token |-> t]>>
Quiet                == wire = <<>> /\ reply = <<>>

Running(s)  == s \in Shells /\ phase[s] = "running"
Fault       == faults < MaxFaults /\ faults' = faults + 1

LinkInit == wire = <<>> /\ reply = <<>> /\ late = <<>> /\ faults = 0

\* The connection or stream of the request under way is gone.
Abandon ==
    /\ wire' = <<>> /\ reply' = <<>>
    /\ \/ late' = late
       \/ wire # <<>> /\ late' = late \o wire

\* A reply to the living connection is heard, one to a dead connection is not.
Say(heard, a) == reply' = IF heard THEN a ELSE reply

\* OpenShell: a refusal (policy, caps, spawn) is possible only when the key
\* names no known shell, and certain when there is no shell left to open.
ExecuteOpen(r, heard) ==
    \/ /\ Reopen(r.key)
       /\ Say(heard, Answer("ok", byKey[r.key], token[byKey[r.key]] + 1))
       /\ UNCHANGED faults
    \/ /\ \E s \in Shells : Open(r.key, s) /\ Say(heard, Answer("ok", s, 1))
       /\ UNCHANGED faults
    \/ /\ byKey[r.key] \notin Known
       /\ IF \E s \in Shells : phase[s] = "none" THEN Fault ELSE UNCHANGED faults
       /\ Say(heard, Answer("refused", NoShell, 0))
       /\ UNCHANGED service

\* AttachShell: the grant's scope, ShellNotFound, then the token's verdict, then
\* NotRunning (also ERR_NOT_FOUND), then retryable refusals (attachment cap,
\* PTY errors).
ExecuteAttach(r, heard) ==
    \/ Fault /\ Say(heard, Answer("forbidden", r.shell, 0)) /\ UNCHANGED service
    \/ /\ Attach(r.shell, r.token)
       /\ Say(heard, Answer("ok", r.shell, r.token + 1))
       /\ UNCHANGED faults
    \/ /\ Running(r.shell) /\ r.token = token[r.shell] /\ Fault
       /\ Say(heard, Answer("busy", r.shell, 0))
       /\ UNCHANGED service
    \/ /\ r.shell \in Known /\ r.token # token[r.shell]
       /\ Say(heard, Answer("stale", r.shell, 0))
       /\ UNCHANGED <<service, faults>>
    \/ /\ ~Running(r.shell) /\ (r.shell \in Known => r.token = token[r.shell])
       /\ Say(heard, Answer("notfound", r.shell, 0))
       /\ UNCHANGED <<service, faults>>

\* ListShells, as far as a client looks at it: is this shell Running?
ExecuteList(r, heard) ==
    /\ Say(heard, Answer(IF Running(r.shell) THEN "ok" ELSE "notfound", r.shell, 0))
    /\ UNCHANGED <<service, faults>>

\* TerminateShell: the shell has ended; the reply may still be an error (the
\* kill failed, or its ten seconds passed).
ExecuteTerminate(r, heard) ==
    \/ /\ r.shell \in Known
       /\ phase' = [phase EXCEPT ![r.shell] = "ended"]
       /\ UNCHANGED <<byKey, token>>
       /\ \/ Say(heard, Answer("ok", r.shell, 0)) /\ UNCHANGED faults
          \/ Say(heard, Answer("failed", r.shell, 0)) /\ Fault
    \/ /\ r.shell \notin Known
       /\ Say(heard, Answer("notfound", r.shell, 0))
       /\ UNCHANGED <<service, faults>>

Execute(r, heard) ==
    \/ r.op = "open" /\ ExecuteOpen(r, heard)
    \/ r.op = "attach" /\ ExecuteAttach(r, heard)
    \/ r.op = "list" /\ ExecuteList(r, heard)
    \/ r.op = "terminate" /\ ExecuteTerminate(r, heard)

\* The daemon answers the living connection.
Serve ==
    /\ wire # <<>>
    /\ Execute(wire[1], TRUE)
    /\ wire' = <<>>
    /\ UNCHANGED late

\* The daemon works off a dead connection's request; nobody hears the answer.
ServeLate(i) ==
    /\ Execute(late[i], FALSE)
    /\ late' = SubSeq(late, 1, i - 1) \o SubSeq(late, i + 1, Len(late))
    /\ UNCHANGED wire

\* A shell ends by itself.
ShellEnds(s) == End(s) /\ UNCHANGED <<link, faults>>

\* The daemon restarts: its shells and keys were only in memory.
RestartDaemon ==
    /\ Fault
    /\ phase' = [s \in Shells |-> IF s \in Known THEN "gone" ELSE phase[s]]
    /\ byKey' = [k \in OpenKeys |-> NoShell]
    /\ late' = <<>>
    /\ UNCHANGED <<token, wire, reply>>

Daemon ==
    \/ Serve
    \/ \E i \in DOMAIN late : ServeLate(i)
    \/ \E s \in Shells : ShellEnds(s)
-----------------------------------------------------------------------------
\* Mutant of attach_failure_action: a superseded token is kept and tried again.
attach_failure_action_stubborn(code, haveKey) ==
    IF code = "notfound" THEN "forget"
    ELSE IF code \in {"busy", "stale"} THEN "retry" ELSE "keep"

\* What a client does when an attach fails (attach_failure_action): retryable
\* refusals (and transport loss) are retried, a superseded token is recovered
\* with the idempotency key, an unknown shell is forgotten.
attach_failure_action(code, haveKey) ==
    IF code = "stale" THEN (IF haveKey THEN "recover" ELSE "forget")
    ELSE IF code = "notfound" THEN "forget"
    ELSE IF code = "busy" THEN "retry" ELSE "keep"
=============================================================================

-------------------------- MODULE AgentAttachment --------------------------
(***************************************************************************)
(* Attachment streams between the gateway and one shell of an agent:       *)
(* RegisteredAgent::attach_shell, AgentAttachmentSender and -Receiver      *)
(* (crates/gateway/src/lib.rs), serve_attachment and its AttachmentLease   *)
(* (crates/agent/src/lib.rs).                                              *)
(*                                                                         *)
(* The agent's loop is one select! over the next frame, the next event of  *)
(* the shell and the expiry of the grant.  As in AgentControl a frame is   *)
(* read in two steps, and a branch that wins in between loses the first;   *)
(* here every chunk of output is such a branch.  A handler that writes     *)
(* waits for the stream's flow-control window.                             *)
(***************************************************************************)
EXTENDS Naturals, Sequences, FiniteSets

CONSTANTS
    Streams,           \* attachment streams
    MaxAttachments,    \* max_attachments_per_shell
    ChunkCap,          \* max_queued_chunks of an attachment
    BridgeCap,         \* AGENT_ATTACHMENT_OUTPUT_QUEUE_MESSAGES
    StreamWindow,      \* frames that fit the stream's flow-control window
    MaxInputs,         \* bound: frames sent on a stream
    MaxChunks          \* bound: chunks of output

VARIABLES
    stage, why,        \* serve_attachment of a stream; how it ended
    lease,             \* the attachment is in the shell's table
    inbox, halfRead,   \* gateway to agent, half-frames; a length is held
    sent, applied,     \* frames sent, and carried out, in order
    chunks, feeding,   \* the attachment's queue, and whether its sender lives
    bridge, forwarder, \* the queue to the loop, and the thread that fills it
    outbox, base, got, \* agent to gateway; chunks before the snapshot, received
    told,              \* what the gateway heard at the end
    expired,           \* the grant's time is up
    printed, alive     \* chunks the shell has printed; it runs

attachVars == <<stage, why, lease, inbox, halfRead, sent, applied, chunks, feeding,
                bridge, forwarder, outbox, base, got, told, expired, printed, alive>>
shellVars == <<printed, alive>>
queueVars == <<chunks, feeding, bridge, forwarder>>

ExitEvent == [kind |-> "exit", n |-> 0]
Chunk(n) == [kind |-> "chunk", n |-> n]
Notice(e) == [kind |-> e, n |-> 0]
Length == [half |-> "length", n |-> 0, kind |-> ""]
\* "pty": TerminalInput or TerminalResize, for a running shell only.
Payload(n, k) == [half |-> "payload", n |-> n, kind |-> k]

AttachInit ==
    /\ stage = [s \in Streams |-> "closed"] /\ why = [s \in Streams |-> ""]
    /\ lease = [s \in Streams |-> FALSE] /\ inbox = [s \in Streams |-> <<>>]
    /\ halfRead = [s \in Streams |-> FALSE] /\ sent = [s \in Streams |-> 0]
    /\ applied = [s \in Streams |-> <<>>] /\ chunks = [s \in Streams |-> <<>>]
    /\ feeding = [s \in Streams |-> FALSE] /\ bridge = [s \in Streams |-> <<>>]
    /\ forwarder = [s \in Streams |-> FALSE] /\ outbox = [s \in Streams |-> <<>>]
    /\ base = [s \in Streams |-> 0] /\ got = [s \in Streams |-> 0]
    /\ told = [s \in Streams |-> ""] /\ expired = [s \in Streams |-> FALSE]
    /\ printed = 0 /\ alive = TRUE
-----------------------------------------------------------------------------
(* The gateway.                                                            *)

attach_shell(s) ==
    /\ stage[s] = "closed" /\ stage' = [stage EXCEPT ![s] = "opened"]
    /\ UNCHANGED <<why, lease, inbox, halfRead, sent, applied, queueVars, outbox, base,
                   got, told, expired, shellVars>>

\* send_input and resize ("pty"), request_history ("history").
send_request(s, k) ==
    /\ stage[s] # "closed" /\ told[s] = "attached" /\ sent[s] < MaxInputs
    /\ Len(inbox[s]) < 2 * StreamWindow
    /\ sent' = [sent EXCEPT ![s] = @ + 1]
    /\ inbox' = [inbox EXCEPT ![s] = @ \o <<Length, Payload(sent[s] + 1, k)>>]
    /\ UNCHANGED <<stage, why, lease, halfRead, applied, queueVars, outbox, base, got,
                   told, expired, shellVars>>

detach_(s) ==
    /\ told[s] = "attached"
    /\ inbox' = [inbox EXCEPT ![s] = @ \o <<Length, Payload(0, "detach")>>]
    /\ told' = [told EXCEPT ![s] = "left"]
    /\ UNCHANGED <<stage, why, lease, halfRead, sent, applied, queueVars, outbox, base,
                   got, expired, shellVars>>

\* next_event, and the answer to attach_shell.
next_event(s) ==
    /\ outbox[s] # <<>> /\ outbox' = [outbox EXCEPT ![s] = Tail(@)]
    /\ LET e == Head(outbox[s]) IN
       IF e.kind = "chunk"
       THEN got' = [got EXCEPT ![s] = e.n] /\ UNCHANGED told
       ELSE IF e.kind \in {"history chunk", "history end"}
       THEN UNCHANGED <<got, told>>
       ELSE /\ told' = [told EXCEPT ![s] = IF @ = "left" THEN @ ELSE e.kind]
            /\ got' = IF e.kind = "attached" THEN [got EXCEPT ![s] = base[s]] ELSE got
    /\ UNCHANGED <<stage, why, lease, inbox, halfRead, sent, applied, queueVars, base,
                   expired, shellVars>>
-----------------------------------------------------------------------------
(* serve_attachment.                                                       *)

Leases == {s \in Streams : lease[s]}

\* Its return: the lease is dropped, and the forwarding thread finds the
\* channel closed.  e is what it writes last.
Returns(s, reason, e) ==
    /\ stage' = [stage EXCEPT ![s] = "ended"] /\ why' = [why EXCEPT ![s] = reason]
    /\ lease' = [lease EXCEPT ![s] = FALSE] /\ feeding' = [feeding EXCEPT ![s] = FALSE]
    /\ forwarder' = [forwarder EXCEPT ![s] = FALSE]
    /\ bridge' = [bridge EXCEPT ![s] = <<>>] /\ halfRead' = [halfRead EXCEPT ![s] = FALSE]
    /\ outbox' = [outbox EXCEPT ![s] = @ \o e]

\* The grant has to be good now; whether its user, operation and server fit
\* is settled when it is issued, and is a choice of Attaches.
validate_attach_request(s) == ~expired[s]

\* The attach frame: the snapshot, or the refusal.
Attaches(s) ==
    /\ stage[s] = "opened"
    /\ \/ /\ validate_attach_request(s)
          /\ alive /\ Cardinality(Leases) < MaxAttachments
          /\ stage' = [stage EXCEPT ![s] = "serving"]
          /\ lease' = [lease EXCEPT ![s] = TRUE] /\ feeding' = [feeding EXCEPT ![s] = TRUE]
          /\ forwarder' = [forwarder EXCEPT ![s] = TRUE]
          /\ base' = [base EXCEPT ![s] = printed]
          /\ outbox' = [outbox EXCEPT ![s] = <<Notice("attached")>>]
          /\ UNCHANGED <<why, bridge, halfRead>>
       \/ Returns(s, "refused", <<Notice("refused")>>) /\ UNCHANGED base
    /\ UNCHANGED <<inbox, sent, applied, chunks, got, told, expired, shellVars>>

\* A turn of the loop is possible: the previous handler's write is through.
Polling(s) == stage[s] = "serving" /\ Len(outbox[s]) < StreamWindow

ReadsLength(s) ==
    /\ Polling(s) /\ ~halfRead[s] /\ inbox[s] # <<>> /\ Head(inbox[s]).half = "length"
    /\ inbox' = [inbox EXCEPT ![s] = Tail(@)] /\ halfRead' = [halfRead EXCEPT ![s] = TRUE]
    /\ UNCHANGED <<stage, why, lease, sent, applied, queueVars, outbox, base, got, told,
                   expired, shellVars>>

\* The payload was taken for a length: FrameError.
MisreadsFrame(s) ==
    /\ Polling(s) /\ ~halfRead[s] /\ inbox[s] # <<>> /\ Head(inbox[s]).half = "payload"
    /\ Returns(s, "misread", <<Notice("reset")>>)
    /\ UNCHANGED <<inbox, sent, applied, chunks, base, got, told, expired, shellVars>>

\* A whole frame: input and resizes go to the PTY while the shell runs, a
\* history request is answered with a chunk and an end, also after the exit.
HandlesFrame(s) ==
    /\ Polling(s) /\ halfRead[s]
    /\ inbox' = [inbox EXCEPT ![s] = Tail(@)]
    /\ LET f == Head(inbox[s]) IN
       \/ /\ f.kind = "detach" /\ Returns(s, "detached", <<>>) /\ UNCHANGED applied
       \/ /\ f.kind = "history" \/ (f.kind = "pty" /\ alive)
          /\ applied' = [applied EXCEPT ![s] = Append(@, f.n)]
          /\ halfRead' = [halfRead EXCEPT ![s] = FALSE]
          /\ outbox' = [outbox EXCEPT ![s] = IF f.kind = "pty" THEN @
                           ELSE @ \o <<Notice("history chunk"), Notice("history end")>>]
          /\ UNCHANGED <<stage, why, lease, feeding, forwarder, bridge>>
       \/ /\ f.kind = "pty" /\ ~alive
          /\ Returns(s, "not running", <<Notice("not running")>>) /\ UNCHANGED applied
    /\ UNCHANGED <<sent, chunks, base, got, told, expired, shellVars>>

\* An event of the shell wins the select!, and a half-read frame is lost.
\* The end of the queue without an exit means the attachment was too slow.
HandlesEvent(s) ==
    /\ Polling(s)
    /\ \/ /\ bridge[s] # <<>> /\ Head(bridge[s]).kind = "chunk"
          /\ bridge' = [bridge EXCEPT ![s] = Tail(@)]
          /\ outbox' = [outbox EXCEPT ![s] = Append(@, Head(bridge[s]))]
          /\ halfRead' = [halfRead EXCEPT ![s] = FALSE]
          /\ UNCHANGED <<stage, why, lease, feeding, forwarder>>
       \/ /\ bridge[s] # <<>> /\ Head(bridge[s]) = ExitEvent
          /\ Returns(s, "exited", <<Notice("exited")>>)
       \/ /\ bridge[s] = <<>> /\ ~forwarder[s]
          /\ Returns(s, "too slow", <<Notice("too slow")>>)
    /\ UNCHANGED <<inbox, sent, applied, chunks, base, got, told, expired, shellVars>>

\* The grant's remaining time is up.
Expires(s) ==
    /\ Polling(s) /\ expired[s]
    /\ Returns(s, "expired", <<Notice("expired")>>)
    /\ UNCHANGED <<inbox, sent, applied, chunks, base, got, told, expired, shellVars>>

TimePasses(s) ==
    /\ ~expired[s] /\ stage[s] # "ended" /\ expired' = [expired EXCEPT ![s] = TRUE]
    /\ UNCHANGED <<stage, why, lease, inbox, halfRead, sent, applied, queueVars, outbox,
                   base, got, told, shellVars>>

\* hf-agent-attach-output moves an event, waiting for room; when the queue is
\* empty and its sender gone, or the loop is gone, it ends.
Forwards(s) ==
    /\ forwarder[s]
    /\ \/ /\ chunks[s] # <<>> /\ Len(bridge[s]) < BridgeCap
          /\ bridge' = [bridge EXCEPT ![s] = Append(@, Head(chunks[s]))]
          /\ chunks' = [chunks EXCEPT ![s] = Tail(@)]
          /\ UNCHANGED forwarder
       \/ /\ chunks[s] = <<>> /\ ~feeding[s]
          /\ forwarder' = [forwarder EXCEPT ![s] = FALSE]
          /\ UNCHANGED <<bridge, chunks>>
    /\ UNCHANGED <<stage, why, lease, inbox, halfRead, sent, applied, feeding, outbox,
                   base, got, told, expired, shellVars>>
-----------------------------------------------------------------------------
(* The shell: session-core's pump.                                         *)

Room(s) == Len(chunks[s]) < ChunkCap

\* Mutant of Emits: what does not fit is dropped.
Emits_drops ==
    /\ alive /\ printed < MaxChunks /\ printed' = printed + 1
    /\ chunks' = [s \in Streams |-> IF lease[s] /\ Room(s)
                    THEN Append(chunks[s], Chunk(printed + 1)) ELSE chunks[s]]
    /\ UNCHANGED <<lease, feeding, stage, why, inbox, halfRead, sent, applied, bridge,
                   forwarder, outbox, base, got, told, expired, alive>>
\* A chunk goes to every attachment; one without room loses its place.
Emits ==
    /\ alive /\ printed < MaxChunks /\ printed' = printed + 1
    /\ chunks' = [s \in Streams |-> IF lease[s] /\ Room(s)
                    THEN Append(chunks[s], Chunk(printed + 1)) ELSE chunks[s]]
    /\ lease' = [s \in Streams |-> lease[s] /\ Room(s)]
    /\ feeding' = [s \in Streams |-> lease[s] /\ Room(s)]
    /\ UNCHANGED <<stage, why, inbox, halfRead, sent, applied, bridge, forwarder, outbox,
                   base, got, told, expired, alive>>

\* The shell exits: each attachment is told if it has room.
Exits ==
    /\ alive /\ alive' = FALSE
    /\ chunks' = [s \in Streams |-> IF lease[s] /\ Room(s)
                    THEN Append(chunks[s], ExitEvent) ELSE chunks[s]]
    /\ lease' = [s \in Streams |-> FALSE] /\ feeding' = [s \in Streams |-> FALSE]
    /\ UNCHANGED <<stage, why, inbox, halfRead, sent, applied, bridge, forwarder, outbox,
                   base, got, told, expired, printed>>
-----------------------------------------------------------------------------
AgentLoop(s) == \/ Attaches(s) \/ ReadsLength(s) \/ MisreadsFrame(s) \/ HandlesFrame(s)
                \/ HandlesEvent(s) \/ Expires(s)

AttachNext ==
    \/ Emits \/ Exits
    \/ \E s \in Streams : attach_shell(s) \/ detach_(s) \/ next_event(s)
                            \/ AgentLoop(s) \/ Forwards(s) \/ TimePasses(s)
                            \/ \E k \in {"pty", "history"} : send_request(s, k)

AttachSpec == AttachInit /\ [][AttachNext]_attachVars
-----------------------------------------------------------------------------
\* The chunks in a queue, other events aside, are those numbered a + 1 to b,
\* in order.
InTurn(q, a, b) ==
    /\ \A i \in 1 .. Len(q) : q[i].kind = "chunk" => q[i].n \in (a + 1) .. b
    /\ \A i, j \in 1 .. Len(q) :
           i < j /\ q[i].kind = "chunk" /\ q[j].kind = "chunk" => q[i].n < q[j].n
    /\ \A m \in (a + 1) .. b : \E i \in 1 .. Len(q) : q[i] = Chunk(m)

\* The last chunk the gateway has, the snapshot standing for those before it.
Received(s) == IF told[s] = "" THEN base[s] ELSE got[s]

\* The gateway's stream of output has no hole: what it has received and what
\* is still queued for it is an unbroken run from the snapshot on, and only an
\* attachment that lost its place in the shell's table misses what follows.
OutputUnbroken ==
    \A s \in Streams : stage[s] = "serving" =>
        \E last \in Received(s) .. printed :
            /\ InTurn(outbox[s] \o bridge[s] \o chunks[s], Received(s), last)
            /\ lease[s] => last = printed

=============================================================================

--------------------------- MODULE ChannelWriters ---------------------------
(***************************************************************************)
(* How what a connection says reaches its client: every sender of a        *)
(* connection (dispatch, the forwarder threads of attachments) shares the  *)
(* queue `out`; an adapter task moves it into the router's queue, where    *)
(* the registrations of new streams arrive too; the router pushes each     *)
(* frame into its channel's WtChannelQueue, and one task per channel       *)
(* writes that queue to its stream (crates/daemon/src/webtransport.rs,     *)
(* conn.rs).                                                               *)
(*                                                                         *)
(* Channel 0 is the control stream; the chunks of a shell's output are     *)
(* numbered.  A frame in the hands of a task that waits for room counts as *)
(* still in the queue it came from, except in a channel's writer, whose    *)
(* frame can no longer be dropped by an overload.  A client attaches at    *)
(* most once per channel, as all clients of the repository do.             *)
(***************************************************************************)
EXTENDS Naturals, Sequences

CONSTANTS
    Channels,            \* the streams a client may open: 0 .. n
    Reading,             \* the channels their client keeps reading
    OutgoingQueue,       \* OUTGOING_QUEUE, of `out` and of the router
    MessageCap,          \* WT_CHANNEL_QUEUE_MESSAGES
    ByteCap,             \* WT_CHANNEL_QUEUE_BYTES
    ChunkBytes,          \* bytes of a frame with output
    EventCap,            \* max_queued_chunks of an attachment
    MaxOutput,           \* bound: chunks a shell prints
    MaxRequests          \* bound: other messages per channel

ASSUME ChannelsAssumption == Channels \subseteq Nat

VARIABLES
    sessionState,             \* the accept loop: "open", "closing" or "closed"
    nextChannel,         \* ProtocolSessionRuntime::next_channel
    mutex,               \* the channel whose reader holds Conn, with its reply
    requested,               \* messages a channel's reader has dispatched
    attachment,          \* per channel: "none", "replying", "bound", "dropped"
    printed,             \* chunks of the channel's shell since the attach
    events, sender,      \* the attachment's bounded queue; is its sender held?
    forwarder,           \* the hf-attach-forward thread
    out,                 \* the queue of (channel, envelope) pairs
    routed,              \* the router's queue of WriterMsg
    writerOf,            \* run_channel_writer of a channel
    known,               \* channels in the router's map
    frames, bytes,       \* WtChannelQueueState
    closing,             \* WtChannelQueueState
    hand,                \* the frame being written, as a sequence of at most one
    received,            \* what the client has read from a channel
    fin,                 \* has the stream been finished?
    entered              \* history: all that was put into `out`, by channel

attachVars == <<attachment, printed, events, sender, forwarder>>
queueVars  == <<frames, bytes, closing>>
clientVars == <<received, fin>>
writersVars == <<sessionState, nextChannel, mutex, requested, attachVars, out, routed,
                 writerOf, known, queueVars, hand, clientVars, entered>>

Opened == {c \in Channels : c < nextChannel}
Output(n)   == [kind |-> "ShellOutput", chunk |-> n]
Envelope(k) == [kind |-> k, chunk |-> 0]
Idle        == [channel |-> 0, reply |-> Envelope("none")]
Overload    == Envelope("Overload")
\* A pair of `out`, which the adapter hands on as a WriterMsg::Frame.
Framed(c, f) == [kind |-> "Frame", channel |-> c, frame |-> f]
Register(c)  == [kind |-> "Register", channel |-> c]
Size(f)     == IF f.kind = "ShellOutput" THEN ChunkBytes ELSE 1

WritersInit ==
    /\ sessionState = "open" /\ nextChannel = 0 /\ mutex = Idle
    /\ requested = [c \in Channels |-> 0]
    /\ attachment = [c \in Channels |-> "none"]
    /\ printed = [c \in Channels |-> 0]
    /\ events = [c \in Channels |-> <<>>]
    /\ sender = [c \in Channels |-> FALSE]
    /\ forwarder = [c \in Channels |-> "none"]
    /\ out = <<>> /\ routed = <<>>
    /\ writerOf = [c \in Channels |-> "none"] /\ known = {}
    /\ frames = [c \in Channels |-> <<>>] /\ bytes = [c \in Channels |-> 0]
    /\ closing = [c \in Channels |-> FALSE]
    /\ hand = [c \in Channels |-> <<>>]
    /\ received = [c \in Channels |-> <<>>] /\ fin = [c \in Channels |-> FALSE]
    /\ entered = [c \in Channels |-> <<>>]
-----------------------------------------------------------------------------
(* The session: streams and their readers.                                 *)

\* A stream is accepted: it is registered with the router, waiting for room,
\* before its reader starts.
register ==
    /\ sessionState = "open" /\ nextChannel \in Channels
    /\ Len(routed) < OutgoingQueue
    /\ nextChannel' = nextChannel + 1
    /\ routed' = Append(routed, Register(nextChannel))
    /\ UNCHANGED <<sessionState, mutex, requested, attachVars, out, writerOf, known,
                   queueVars, hand, clientVars, entered>>

ReaderDispatches(c) ==
    sessionState = "open" /\ c \in Opened /\ mutex = Idle /\ requested[c] < MaxRequests

\* A message with one reply on its own channel (Ping, ListShells,
\* RequestHistory, every refusal): the reply waits for room in `out` with
\* the connection's mutex held.
DispatchRequest(c) ==
    /\ ReaderDispatches(c)
    /\ requested' = [requested EXCEPT ![c] = @ + 1]
    /\ mutex' = [channel |-> c, reply |-> Envelope("reply")]
    /\ UNCHANGED <<sessionState, nextChannel, attachVars, out, routed, writerOf, known,
                   queueVars, hand, clientVars, entered>>

\* AttachShell: the manager makes the attachment, the channel is bound, the
\* reply waits for room; only then does the forwarder start.
DispatchAttach(c) ==
    /\ ReaderDispatches(c) /\ c # 0 /\ attachment[c] = "none"
    /\ requested' = [requested EXCEPT ![c] = @ + 1]
    /\ mutex' = [channel |-> c, reply |-> Envelope("ShellAttached")]
    /\ attachment' = [attachment EXCEPT ![c] = "replying"]
    /\ sender' = [sender EXCEPT ![c] = TRUE]
    /\ UNCHANGED <<sessionState, nextChannel, printed, events, forwarder, out, routed,
                   writerOf, known, queueVars, hand, clientVars, entered>>

Enqueue(c, f) ==
    /\ Len(out) < OutgoingQueue
    /\ out' = Append(out, Framed(c, f))
    /\ entered' = [entered EXCEPT ![c] = Append(@, f)]

\* The reply gets its place, the mutex is released.
Reply ==
    LET c == mutex.channel IN
    /\ mutex # Idle /\ Enqueue(c, mutex.reply)
    /\ mutex' = Idle
    /\ IF mutex.reply.kind = "ShellAttached"
       THEN /\ attachment' = [attachment EXCEPT ![c] = "bound"]
            /\ forwarder' = [forwarder EXCEPT ![c] = "running"]
       ELSE UNCHANGED <<attachment, forwarder>>
    /\ UNCHANGED <<sessionState, nextChannel, requested, printed, events, sender, routed,
                   writerOf, known, queueVars, hand, clientVars>>

\* DetachShell, or the end of an attachment's stream (channel_closed): the
\* manager drops the attachment's sender.
DispatchDetach(c) ==
    /\ sessionState = "open" /\ mutex = Idle /\ attachment[c] = "bound"
    /\ attachment' = [attachment EXCEPT ![c] = "dropped"]
    /\ sender' = [sender EXCEPT ![c] = FALSE]
    /\ UNCHANGED <<sessionState, nextChannel, mutex, requested, printed, events, forwarder,
                   out, routed, writerOf, known, queueVars, hand, clientVars,
                   entered>>
-----------------------------------------------------------------------------
(* The shell's side of an attachment (pump, see SessionCore).              *)

\* A chunk of output; an attachment whose queue is full is dropped.
ShellPrints(c) ==
    /\ sender[c] /\ printed[c] < MaxOutput
    /\ printed' = [printed EXCEPT ![c] = @ + 1]
    /\ IF Len(events[c]) < EventCap
       THEN /\ events' = [events EXCEPT ![c] = Append(@, Output(printed[c] + 1))]
            /\ UNCHANGED sender
       ELSE /\ sender' = [sender EXCEPT ![c] = FALSE]
            /\ UNCHANGED events
    /\ UNCHANGED <<sessionState, nextChannel, mutex, requested, attachment, forwarder, out,
                   routed, writerOf, known, queueVars, hand, clientVars, entered>>

\* The shell exits: Exited if there is room, and the sender is gone.
ShellExits(c) ==
    /\ sender[c]
    /\ sender' = [sender EXCEPT ![c] = FALSE]
    /\ events' = [events EXCEPT ![c] = IF Len(@) < EventCap
                                       THEN Append(@, Envelope("ShellExited")) ELSE @]
    /\ UNCHANGED <<sessionState, nextChannel, mutex, requested, attachment, printed,
                   forwarder, out, routed, writerOf, known, queueVars, hand,
                   clientVars, entered>>

\* hf-attach-forward: one event after the other.
Forward(c) ==
    /\ forwarder[c] \in {"running", "exited"} /\ sessionState # "closed"
    /\ events[c] # <<>> /\ Enqueue(c, Head(events[c]))
    /\ events' = [events EXCEPT ![c] = Tail(@)]
    /\ forwarder' = [forwarder EXCEPT ![c] = IF Head(events[c]).kind = "ShellExited"
                                             THEN "exited" ELSE @]
    /\ UNCHANGED <<sessionState, nextChannel, mutex, requested, attachment, printed, sender,
                   routed, writerOf, known, queueVars, hand, clientVars>>

\* The event channel is closed and drained: without an exit the client is told
\* that its attachment was dropped.
ForwardEnds(c) ==
    /\ events[c] = <<>> /\ ~sender[c] /\ sessionState # "closed"
    /\ \/ /\ forwarder[c] = "exited" /\ UNCHANGED <<out, entered>>
       \/ /\ forwarder[c] = "running" /\ Enqueue(c, Envelope("ErrTooSlow"))
    /\ forwarder' = [forwarder EXCEPT ![c] = "done"]
    /\ UNCHANGED <<sessionState, nextChannel, mutex, requested, attachment, printed, events,
                   sender, routed, writerOf, known, queueVars, hand, clientVars>>
-----------------------------------------------------------------------------
(* Adapter, router and writers.                                            *)

Adapt ==
    /\ sessionState # "closed" /\ out # <<>> /\ Len(routed) < OutgoingQueue
    /\ routed' = Append(routed, Head(out)) /\ out' = Tail(out)
    /\ UNCHANGED <<sessionState, nextChannel, mutex, requested, attachVars, writerOf, known,
                   queueVars, hand, clientVars, entered>>

\* Channels whose writer still holds its queue (Arc::strong_count > 1).
Retained == {c \in known : writerOf[c] = "running"}

RouteRegister ==
    LET c == Head(routed).channel IN
    /\ routed # <<>> /\ Head(routed).kind = "Register"
    /\ routed' = Tail(routed)
    /\ known' = Retained \cup {c}
    /\ writerOf' = [writerOf EXCEPT ![c] = "running"]
    /\ UNCHANGED <<sessionState, nextChannel, mutex, requested, attachVars, out, queueVars,
                   hand, clientVars, entered>>

push_drops_newest(c, f) ==
    IF closing[c] \/ Len(frames[c]) >= MessageCap \/ bytes[c] + Size(f) > ByteCap
    THEN UNCHANGED queueVars
    ELSE /\ frames' = [frames EXCEPT ![c] = Append(@, f)]
         /\ bytes' = [bytes EXCEPT ![c] = @ + Size(f)]
         /\ UNCHANGED closing
push_waits(c, f) ==
    \/ closing[c] /\ UNCHANGED queueVars
    \/ /\ Len(frames[c]) < MessageCap /\ bytes[c] + Size(f) <= ByteCap
       /\ frames' = [frames EXCEPT ![c] = Append(@, f)]
       /\ bytes' = [bytes EXCEPT ![c] = @ + Size(f)]
       /\ UNCHANGED closing

Fits(c, f) == Len(frames[c]) < MessageCap /\ bytes[c] + Size(f) <= ByteCap

\* WtChannelQueue::push: a queue without room is replaced by the overload
\* frame and takes nothing more.
push(c, f) ==
    \/ closing[c] /\ UNCHANGED queueVars
    \/ /\ ~closing[c] /\ Fits(c, f)
       /\ frames' = [frames EXCEPT ![c] = Append(@, f)]
       /\ bytes' = [bytes EXCEPT ![c] = @ + Size(f)]
       /\ UNCHANGED closing
    \/ /\ ~closing[c] /\ ~Fits(c, f)
       /\ frames' = [frames EXCEPT ![c] = <<Overload>>]
       /\ bytes' = [bytes EXCEPT ![c] = Size(Overload)]
       /\ closing' = [closing EXCEPT ![c] = TRUE]

RouteFrame ==
    LET c == Head(routed).channel IN
    /\ routed # <<>> /\ Head(routed).kind = "Frame"
    /\ routed' = Tail(routed)
    /\ IF c \in known THEN push(c, Head(routed).frame) ELSE UNCHANGED queueVars
    /\ UNCHANGED <<sessionState, nextChannel, mutex, requested, attachVars, out, writerOf,
                   known, hand, clientVars, entered>>

\* WtChannelQueue::next, then a write that lasts until the client reads.
WriterTakes(c) ==
    /\ writerOf[c] = "running" /\ hand[c] = <<>> /\ frames[c] # <<>>
    /\ hand' = [hand EXCEPT ![c] = <<Head(frames[c])>>]
    /\ frames' = [frames EXCEPT ![c] = Tail(@)]
    /\ bytes' = [bytes EXCEPT ![c] = @ - Size(Head(frames[c]))]
    /\ UNCHANGED <<sessionState, nextChannel, mutex, requested, attachVars, out, routed,
                   writerOf, known, closing, clientVars, entered>>

WriterWrites(c) ==
    /\ writerOf[c] = "running" /\ hand[c] # <<>>
    /\ received' = [received EXCEPT ![c] = @ \o hand[c]]
    /\ hand' = [hand EXCEPT ![c] = <<>>]
    /\ UNCHANGED <<sessionState, nextChannel, mutex, requested, attachVars, out, routed,
                   writerOf, known, queueVars, fin, entered>>

\* write_all fails: the stream was reset or the connection is gone.
WriterFails(c) ==
    /\ writerOf[c] = "running" /\ hand[c] # <<>>
    /\ writerOf' = [writerOf EXCEPT ![c] = "failed"]
    /\ hand' = [hand EXCEPT ![c] = <<>>]
    /\ UNCHANGED <<sessionState, nextChannel, mutex, requested, attachVars, out, routed,
                   known, queueVars, clientVars, entered>>

WriterEnds(c) ==
    /\ writerOf[c] = "running" /\ hand[c] = <<>>
    /\ frames[c] = <<>> /\ closing[c]
    /\ writerOf' = [writerOf EXCEPT ![c] = "done"]
    /\ fin' = [fin EXCEPT ![c] = TRUE]
    /\ UNCHANGED <<sessionState, nextChannel, mutex, requested, attachVars, out, routed,
                   known, queueVars, hand, received, entered>>
-----------------------------------------------------------------------------
(* The end of a session.                                                   *)

\* finish: the readers are cancelled wherever they are, one that is about to
\* reply to an attach included, and every attachment is detached.
FinishReaders ==
    /\ sessionState = "open" /\ nextChannel > 0
    /\ sessionState' = "closing" /\ mutex' = Idle
    /\ attachment' = [c \in Channels |-> IF attachment[c] = "none" THEN "none"
                                         ELSE "dropped"]
    /\ sender' = [c \in Channels |-> FALSE]
    /\ UNCHANGED <<nextChannel, requested, printed, events, forwarder, out, routed,
                   writerOf, known, queueVars, hand, clientVars, entered>>

\* The adapter is aborted: what is still in `out` is lost, and the next send
\* of a forwarder fails and ends it.
FinishAdapter ==
    /\ sessionState = "closing"
    /\ sessionState' = "closed" /\ out' = <<>>
    /\ forwarder' = [c \in Channels |-> IF forwarder[c] = "none" THEN "none"
                                        ELSE "done"]
    /\ UNCHANGED <<nextChannel, mutex, requested, attachment, printed, events, sender,
                   routed, writerOf, known, queueVars, hand, clientVars, entered>>

\* The router has drained its queue and closes those of the channels.
RouterEnds ==
    /\ sessionState = "closed" /\ routed = <<>> /\ \E c \in known : ~closing[c]
    /\ closing' = [c \in Channels |-> closing[c] \/ c \in known]
    /\ UNCHANGED <<sessionState, nextChannel, mutex, requested, attachVars, out, routed,
                   writerOf, known, frames, bytes, hand, clientVars, entered>>
-----------------------------------------------------------------------------
ClientActs ==
    \/ register
    \/ \E c \in Channels : DispatchRequest(c) \/ DispatchAttach(c) \/ DispatchDetach(c)
ShellActs  == \E c \in Channels : ShellPrints(c) \/ ShellExits(c)
Tasks ==
    \/ Reply \/ Adapt \/ RouteRegister \/ RouteFrame
    \/ \E c \in Channels : Forward(c) \/ ForwardEnds(c) \/ WriterTakes(c) \/ WriterEnds(c)

WritersNext ==
    \/ ClientActs \/ ShellActs \/ Tasks
    \/ \E c \in Channels : WriterWrites(c) \/ WriterFails(c)
    \/ FinishReaders \/ FinishAdapter \/ RouterEnds

WritersSpec == WritersInit /\ [][WritersNext]_writersVars

-----------------------------------------------------------------------------
(* Properties.                                                             *)

Overloaded(s) == s # <<>> /\ s[Len(s)] = Overload
Cut(s) == IF Overloaded(s) THEN SubSeq(s, 1, Len(s) - 1) ELSE s
Begins(s, t) == Len(s) <= Len(t) /\ \A i \in 1 .. Len(s) : s[i] = t[i]

\* What a client reads from a channel is what was said on it, from the start,
\* in order and without a gap, perhaps cut short by the transport's overload
\* frame: an overload never removes frames from the middle (push,
\* run_channel_writer).  Only after that frame is a stream finished before
\* the session has closed.
Gapless ==
    \A c \in Channels :
        /\ Begins(Cut(received[c]), entered[c])
        /\ fin[c] => sessionState = "closed" \/ Overloaded(received[c])

\* "A blocked shell must not delay control replies, new attachments, or
\* another shell" (webtransport.rs): whatever the other clients of the
\* session's channels read, all that was said on a channel that is read is
\* received, unless that channel overflows or fails or the session ends.
NoHeadOfLineBlocking ==
    \A c \in Reading :
        [](entered[c] # <<>> =>
             <>(\/ received[c] = entered[c]
                \/ closing[c] \/ writerOf[c] = "failed" \/ sessionState # "open"))

=============================================================================

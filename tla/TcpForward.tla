----------------------------- MODULE TcpForward -----------------------------
(***************************************************************************)
(* One TCP forward, end to end: an application speaks SOCKS5 to the proxy  *)
(* of the native client (crates/native-client/src/socks.rs), whose relay   *)
(* opens a channel and asks the daemon to connect; the daemon's actor      *)
(* (crates/daemon/src/forward.rs) runs one loop per direction, and the     *)
(* connection's reader hands it frames through one-slot queues guarded by  *)
(* two flags.  Both directions are stop-and-wait and share one channel.    *)
(*                                                                         *)
(* Chunk n of a direction is the number n, Eof is its end.  `up` is the    *)
(* direction from the application to the destination.                      *)
(***************************************************************************)
EXTENDS Naturals, Sequences

CONSTANTS
    MaxForwardChunks,           \* bound: chunks per direction
    MaxPermits           \* permits of ForwardService for this user

ASSUME PermitsAssumption == MaxPermits \in Nat

VARIABLES
    relay,               \* serve/relay: "handshake", "opening", "relay",
                         \* "writing", "done" or "failed"
    waitingAck, localEof, remoteEof, relayHolds,    \* locals of relay
    told,                \* the SOCKS reply the application has
    upGiven, downGotten, \* read from and written to the application
    c2d, d2c,            \* the channel's two streams of frames
    forwardBinding,             \* has Conn::forwards the channel?
    inputReady, ackExpected, inputQ, ackQ,          \* ForwardBinding
    task,                \* "none", "connecting", "running", "ended"
    upstream, upHolds, downstream, downHolds,       \* the two loops of the task
    upGotten, downGiven, \* written to and read from the destination
    active, others,      \* permits in use; those of other forwards
    forwardLink,                \* "up" or "cut"
    trouble              \* history: a timeout, an I/O error, a stop or a refusal

relayVars == <<relay, waitingAck, localEof, remoteEof, relayHolds, told,
               upGiven, downGotten>>
bindVars  == <<forwardBinding, inputReady, ackExpected, inputQ, ackQ>>
taskVars  == <<task, upstream, upHolds, downstream, downHolds, upGotten, downGiven>>
permitVars == <<active, others>>
forwardVars == <<relayVars, c2d, d2c, bindVars, taskVars, permitVars, forwardLink, trouble>>

Eof == 0
Item(f) == IF f.kind = "Eof" THEN Eof ELSE f.chunk
Frame(kind, n) == [kind |-> kind, chunk |-> n]
\* What a read of a socket returns next: a chunk or the end.
Reads(given) == {Frame("Eof", 0)} \cup
    (IF Len(given) < MaxForwardChunks THEN {Frame("Data", Len(given) + 1)} ELSE {})

Up   == INSTANCE Pipe WITH Window <- 1, given <- upGiven, gotten <- upGotten
Down == INSTANCE Pipe WITH Window <- 1, given <- downGiven, gotten <- downGotten

ForwardInit ==
    /\ relay = "handshake" /\ waitingAck = FALSE /\ localEof = FALSE
    /\ remoteEof = FALSE /\ relayHolds = Frame("none", 0) /\ told = "nothing"
    /\ upGiven = <<>> /\ downGotten = <<>> /\ upGotten = <<>> /\ downGiven = <<>>
    /\ c2d = <<>> /\ d2c = <<>>
    /\ forwardBinding = FALSE /\ inputReady = FALSE /\ ackExpected = FALSE
    /\ inputQ = <<>> /\ ackQ = <<>>
    /\ task = "none" /\ upstream = "none" /\ downstream = "none"
    /\ upHolds = Frame("none", 0) /\ downHolds = Frame("none", 0)
    /\ active = 0 /\ others = 0 /\ forwardLink = "up" /\ trouble = FALSE

ToDaemon(f) == c2d' = IF forwardLink = "up" THEN Append(c2d, f) ELSE c2d
ToClient(f) == d2c' = IF forwardLink = "up" THEN Append(d2c, f) ELSE d2c
-----------------------------------------------------------------------------
(* The client: request, serve, relay.                                      *)

\* The stream's send half is dropped at the end of serve, which finishes it.
RelayFails ==
    /\ relay' = "failed" /\ ToDaemon(Frame("Fin", 0))
    /\ UNCHANGED <<waitingAck, localEof, remoteEof, relayHolds, upGiven,
                   downGotten, d2c, bindVars, taskVars, permitVars, forwardLink>>

\* request: a valid CONNECT, or a reject before any channel is opened.
request ==
    /\ relay = "handshake"
    /\ \/ /\ relay' = "opening" /\ ToDaemon(Frame("Open", 0))
          /\ UNCHANGED <<told, trouble>>
       \/ /\ relay' = "failed" /\ told' = "rejected" /\ trouble' = TRUE
          /\ UNCHANGED c2d
    /\ UNCHANGED <<waitingAck, localEof, remoteEof, relayHolds, upGiven,
                   downGotten, d2c, bindVars, taskVars, permitVars, forwardLink>>

\* The answer of the daemon to OpenTcpForward.
serve ==
    /\ relay = "opening" /\ d2c # <<>>
    /\ d2c' = Tail(d2c)
    /\ IF Head(d2c).kind = "Opened"
       THEN relay' = "relay" /\ told' = "granted" /\ UNCHANGED c2d
       ELSE /\ relay' = "failed" /\ told' = "rejected"
            /\ ToDaemon(Frame("Fin", 0))
    /\ UNCHANGED <<waitingAck, localEof, remoteEof, relayHolds, upGiven, downGotten,
                   bindVars, taskVars, permitVars, forwardLink, trouble>>

\* Mutant of relay_reads: the relay does not wait for the acknowledgement.
relay_reads_ahead ==
    /\ relay = "relay" /\ ~localEof
    /\ \E f \in Reads(upGiven) :
         /\ upGiven' = Append(upGiven, Item(f))
         /\ localEof' = (f.kind = "Eof") /\ ToDaemon(f)
    /\ waitingAck' = TRUE
    /\ UNCHANGED <<relay, remoteEof, relayHolds, told, downGotten, d2c, bindVars,
                   taskVars, permitVars, forwardLink, trouble>>

\* socket.read, sent to the daemon.
relay_reads ==
    /\ relay = "relay" /\ ~localEof /\ ~waitingAck
    /\ \E f \in Reads(upGiven) :
         /\ upGiven' = Append(upGiven, Item(f))
         /\ localEof' = (f.kind = "Eof") /\ ToDaemon(f)
    /\ waitingAck' = TRUE
    /\ UNCHANGED <<relay, remoteEof, relayHolds, told, downGotten, d2c, bindVars,
                   taskVars, permitVars, forwardLink, trouble>>

\* receive: an awaited acknowledgement, data or the end from the daemon; all
\* else ends the relay.
relay_receives ==
    LET f == Head(d2c) IN
    /\ relay = "relay" /\ d2c # <<>>
    /\ d2c' = Tail(d2c)
    /\ \/ /\ f.kind = "Ack" /\ waitingAck /\ waitingAck' = FALSE
          /\ UNCHANGED <<relay, relayHolds, remoteEof, c2d>>
       \/ /\ f.kind \in {"Data", "Eof"} /\ ~remoteEof
          /\ relay' = "writing" /\ relayHolds' = f
          /\ remoteEof' = (f.kind = "Eof")
          /\ UNCHANGED <<waitingAck, c2d>>
       \/ /\ f.kind = "Ack" => ~waitingAck
          /\ f.kind \in {"Data", "Eof"} => remoteEof
          /\ relay' = "failed" /\ ToDaemon(Frame("Fin", 0))
          /\ UNCHANGED <<waitingAck, relayHolds, remoteEof>>
    /\ UNCHANGED <<localEof, told, upGiven, downGotten, bindVars, taskVars,
                   permitVars, forwardLink, trouble>>

\* The application has taken the bytes: they are acknowledged.
relay_writes ==
    /\ relay = "writing"
    /\ downGotten' = Append(downGotten, Item(relayHolds))
    /\ ToDaemon(Frame("Ack", 0)) /\ relay' = "relay"
    /\ UNCHANGED <<waitingAck, localEof, remoteEof, relayHolds, told, upGiven, d2c,
                   bindVars, taskVars, permitVars, forwardLink, trouble>>

\* Mutant of relay_ends: the last acknowledgement is not awaited.
relay_ends_early ==
    /\ relay = "relay" /\ localEof /\ remoteEof
    /\ relay' = "done" /\ ToDaemon(Frame("Fin", 0))
    /\ UNCHANGED <<waitingAck, localEof, remoteEof, relayHolds, told, upGiven,
                   downGotten, d2c, bindVars, taskVars, permitVars, forwardLink, trouble>>

relay_ends ==
    /\ relay = "relay" /\ localEof /\ remoteEof /\ ~waitingAck
    /\ relay' = "done" /\ ToDaemon(Frame("Fin", 0))
    /\ UNCHANGED <<waitingAck, localEof, remoteEof, relayHolds, told, upGiven,
                   downGotten, d2c, bindVars, taskVars, permitVars, forwardLink, trouble>>

\* A timeout (acknowledgement, idle, a write), an error of the application's
\* socket, the cut link, or SocksProxy::stop.
relay_gives_up ==
    /\ relay \in {"opening", "relay", "writing"} /\ RelayFails
    /\ told' = IF relay = "opening" THEN "rejected" ELSE told
    /\ trouble' = TRUE
-----------------------------------------------------------------------------
(* The daemon's connection: open_forward, ForwardBinding::message.         *)

TaskAlive == task \in {"connecting", "running"}
\* Permit's drop, at the end of the task.
Release == active' = IF TaskAlive THEN active - 1 ELSE active

acquire == active < MaxPermits

open_forward ==
    /\ c2d # <<>> /\ Head(c2d).kind = "Open"
    /\ c2d' = Tail(c2d)
    /\ \/ /\ acquire
          /\ active' = active + 1 /\ forwardBinding' = TRUE /\ task' = "connecting"
          /\ UNCHANGED <<d2c, trouble>>
       \/ \* not negotiated, not permitted for the user, or no permit left
          /\ ToClient(Frame("Error", 0)) /\ trouble' = TRUE
          /\ UNCHANGED <<active, forwardBinding, task>>
    /\ UNCHANGED <<relayVars, inputReady, ackExpected, inputQ, ackQ, upstream,
                   upHolds, downstream, downHolds, upGotten, downGiven, others, forwardLink>>

\* A frame on the channel of a forward.  What does not fit the flags aborts
\* the task and is answered with an error.
message ==
    LET f == Head(c2d)
        input == f.kind \in {"Data", "Eof"} /\ inputReady /\ inputQ = <<>>
                 /\ TaskAlive /\ upstream # "done"
        ack == f.kind = "Ack" /\ ackExpected /\ ackQ = <<>>
               /\ TaskAlive /\ downstream # "done" IN
    /\ c2d # <<>> /\ f.kind \in {"Data", "Eof", "Ack"}
    /\ c2d' = Tail(c2d)
    /\ IF f.kind = "Ack" THEN ackExpected' = FALSE /\ UNCHANGED inputReady
       ELSE inputReady' = FALSE /\ UNCHANGED ackExpected
    /\ \/ /\ input /\ inputQ' = Append(inputQ, f)
          /\ UNCHANGED <<ackQ, d2c, task, active>>
       \/ /\ ack /\ ackQ' = Append(ackQ, f)
          /\ UNCHANGED <<inputQ, d2c, task, active>>
       \/ /\ forwardBinding /\ ~input /\ ~ack
          /\ task' = "ended" /\ Release /\ ToClient(Frame("Error", 0))
          /\ UNCHANGED <<inputQ, ackQ>>
    /\ UNCHANGED <<relayVars, forwardBinding, upstream, upHolds, downstream, downHolds,
                   upGotten, downGiven, others, forwardLink, trouble>>

\* The stream is finished (channel_closed) or the connection is gone
\* (detach_all): the binding is dropped, which aborts the task.
unbind ==
    /\ \/ forwardLink = "up" /\ c2d # <<>> /\ Head(c2d).kind = "Fin" /\ c2d' = Tail(c2d)
       \/ forwardLink = "cut" /\ forwardBinding /\ UNCHANGED c2d
    /\ forwardBinding' = FALSE
    /\ task' = IF task = "none" THEN "none" ELSE "ended"
    /\ Release
    /\ UNCHANGED <<relayVars, d2c, inputReady, ackExpected, inputQ, ackQ, upstream,
                   upHolds, downstream, downHolds, upGotten, downGiven, others,
                   forwardLink, trouble>>
-----------------------------------------------------------------------------
(* The daemon's task: spawn.                                               *)

\* Mutant of connect: the flag is not raised for the first frame.
connect_unready ==
    /\ task = "connecting"
    /\ task' = "running" /\ upstream' = "recv" /\ downstream' = "read"
    /\ ToClient(Frame("Opened", 0))
    /\ UNCHANGED <<relayVars, c2d, bindVars, upHolds, downHolds, upGotten, downGiven,
                   permitVars, forwardLink, trouble>>

connect ==
    /\ task = "connecting"
    /\ task' = "running" /\ upstream' = "recv" /\ downstream' = "read"
    /\ inputReady' = TRUE /\ ToClient(Frame("Opened", 0))
    /\ UNCHANGED <<relayVars, c2d, forwardBinding, ackExpected, inputQ, ackQ, upHolds,
                   downHolds, upGotten, downGiven, permitVars, forwardLink, trouble>>

up_recv ==
    /\ task = "running" /\ upstream = "recv" /\ inputQ # <<>>
    /\ upHolds' = Head(inputQ) /\ inputQ' = Tail(inputQ) /\ upstream' = "write"
    /\ UNCHANGED <<relayVars, c2d, d2c, forwardBinding, inputReady, ackExpected, ackQ, task,
                   downstream, downHolds, upGotten, downGiven, permitVars, forwardLink,
                   trouble>>

\* write_all or shutdown; the flag is raised before the acknowledgement leaves.
up_write ==
    /\ task = "running" /\ upstream = "write"
    /\ upGotten' = Append(upGotten, Item(upHolds))
    /\ inputReady' = (upHolds.kind = "Data") /\ upstream' = "ack"
    /\ UNCHANGED <<relayVars, c2d, d2c, forwardBinding, ackExpected, inputQ, ackQ, task,
                   upHolds, downstream, downHolds, downGiven, permitVars, forwardLink,
                   trouble>>

\* After the acknowledgement of the end the queue is closed.
up_ack ==
    /\ task = "running" /\ upstream = "ack"
    /\ ToClient(Frame("Ack", 0))
    /\ upstream' = IF upHolds.kind = "Eof" THEN "done" ELSE "recv"
    /\ UNCHANGED <<relayVars, c2d, bindVars, task, upHolds, downstream, downHolds,
                   upGotten, downGiven, permitVars, forwardLink, trouble>>

down_read ==
    /\ task = "running" /\ downstream = "read"
    /\ \E f \in Reads(downGiven) :
         /\ downGiven' = Append(downGiven, Item(f)) /\ downHolds' = f
    /\ ackExpected' = TRUE /\ downstream' = "send"
    /\ UNCHANGED <<relayVars, c2d, d2c, forwardBinding, inputReady, inputQ, ackQ, task,
                   upstream, upHolds, upGotten, permitVars, forwardLink, trouble>>

down_send ==
    /\ task = "running" /\ downstream = "send"
    /\ ToClient(downHolds) /\ downstream' = "wait"
    /\ UNCHANGED <<relayVars, c2d, bindVars, task, upstream, upHolds, downHolds,
                   upGotten, downGiven, permitVars, forwardLink, trouble>>

down_acked ==
    /\ task = "running" /\ downstream = "wait" /\ ackQ # <<>>
    /\ ackQ' = Tail(ackQ)
    /\ downstream' = IF downHolds.kind = "Eof" THEN "done" ELSE "read"
    /\ UNCHANGED <<relayVars, c2d, d2c, forwardBinding, inputReady, ackExpected, inputQ,
                   task, upstream, upHolds, downHolds, upGotten, downGiven,
                   permitVars, forwardLink, trouble>>

\* try_join! has both results.
task_ends ==
    /\ task = "running" /\ upstream = "done" /\ downstream = "done"
    /\ task' = "ended" /\ Release
    /\ UNCHANGED <<relayVars, c2d, d2c, bindVars, upstream, upHolds, downstream,
                   downHolds, upGotten, downGiven, others, forwardLink, trouble>>

\* A timeout (connect, a write, the acknowledgement, idle) or an error of the
\* destination's socket: the error is sent and the permit dropped.
task_fails ==
    /\ TaskAlive
    /\ task' = "ended" /\ Release /\ trouble' = TRUE
    /\ ToClient(Frame("Error", 0))
    /\ UNCHANGED <<relayVars, c2d, bindVars, upstream, upHolds, downstream, downHolds,
                   upGotten, downGiven, others, forwardLink>>
-----------------------------------------------------------------------------
\* The connection breaks: what is on its way is lost.
CutLink ==
    /\ forwardLink = "up" /\ forwardLink' = "cut" /\ trouble' = TRUE
    /\ c2d' = <<>> /\ d2c' = <<>>
    /\ UNCHANGED <<relayVars, bindVars, taskVars, permitVars>>

\* Other forwards of the user take and return permits.
Others ==
    /\ \/ acquire /\ others' = others + 1 /\ active' = active + 1
       \/ others > 0 /\ others' = others - 1 /\ active' = active - 1
    /\ UNCHANGED <<relayVars, c2d, d2c, bindVars, taskVars, forwardLink, trouble>>

RelaySteps == \/ request \/ serve \/ relay_reads \/ relay_receives
              \/ relay_writes \/ relay_ends
DispatchSteps == open_forward \/ message \/ unbind
UpstreamSteps == up_recv \/ up_write \/ up_ack
DownstreamSteps == down_read \/ down_send \/ down_acked

ForwardNext ==
    \/ RelaySteps \/ DispatchSteps
    \/ connect \/ UpstreamSteps \/ DownstreamSteps \/ task_ends
    \/ relay_gives_up \/ task_fails \/ CutLink \/ Others

ForwardSpec == ForwardInit /\ [][ForwardNext]_forwardVars

-----------------------------------------------------------------------------
(* Properties.                                                             *)

\* Both directions are faithful pipes with at most one item under way: what
\* the destination gets is what the application gave, in order and the end
\* last, and the other way round (relay; spawn's upstream and downstream).
UpIsAPipe   == Up!PipeSpec
DownIsAPipe == Down!PipeSpec

\* Stop-and-wait never aborts itself: the flags are always up when a frame
\* that answers an earlier one arrives, so without a timeout, an error, a stop
\* or a refusal neither side fails (ForwardBinding::message, relay).
NoSpuriousAbort ==
    ~trouble => /\ relay # "failed"
                /\ task = "ended" => upstream = "done" /\ \/ downstream = "done"
                                                          \/ relay = "done"

\* A relay that ends well has moved everything: each side has got all that the
\* other gave, up to and including the end (relay's only Ok).
CleanEndIsComplete ==
    relay = "done" => /\ upGotten = upGiven /\ Up!Ended(upGotten)
                      /\ downGotten = downGiven /\ Down!Ended(downGotten)

\* The application is told "granted" only for a destination that the daemon
\* has reached, and nothing of it is read before (serve).
GrantedMeansConnected ==
    /\ told = "granted" => upstream # "none"
    /\ upGiven # <<>> => told = "granted"

\* Permits in use are those of live tasks: none leaks and none is returned
\* twice, whatever ends a task (Permit's drop), and the limit holds (acquire).
ForwardPermitsExact ==
    /\ active = others + (IF TaskAlive THEN 1 ELSE 0)
    /\ active <= MaxPermits

=============================================================================

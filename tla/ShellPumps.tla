------------------------------ MODULE ShellPumps -------------------------------
(***************************************************************************)
(* The two tasks of a desktop attachment (client-core/src/shell.rs): the   *)
(* writer serialises the window's commands onto the stream, the reader     *)
(* drains the stream into the window, and a FIFO shared by both pairs each *)
(* history request with its answer.  The daemon answers a request with a   *)
(* HistoryChunk and a HistoryEnd (daemon/src/conn.rs).                     *)
(***************************************************************************)
EXTENDS Naturals, Sequences, FiniteSets

CONSTANTS
    MaxPending,     \* MAX_PENDING_HISTORY
    WriterQueue,    \* WRITER_QUEUE
    SinkCap,        \* the window's output channel
    PongCap,        \* the reader's channel of pongs
    MaxRequests,    \* bound: history requests
    MaxOutputs,      \* bound: output frames
    MaxPings        \* bound: pings

VARIABLES
    cmds,           \* writer_rx
    pending,        \* pending_history
    upstream,       \* frames on their way to the daemon
    downstream,     \* frames on their way to the reader
    pongs,          \* pong_rx
    sink,           \* output waiting for the window
    tasks,          \* which of the tasks run
    linkUp,         \* whether the attachment's stream works
    attachedTo,     \* whether the daemon has the attachment
    shellUp,        \* whether the shell runs
    windowTold,           \* the event the reader ended with
    recorded,       \* whether the store has the shell
    requestsMade,          \* requests the window made
    answered,       \* what each request was answered with
    produced, shown, pinged

pumpVars == <<cmds, pending, upstream, downstream, pongs, sink, tasks, linkUp, attachedTo,
              shellUp, windowTold, recorded, requestsMade, answered, produced, shown, pinged>>

Requests == 1..MaxRequests
Unanswered == 0
Refused == MaxRequests + 1
EmptyPage == MaxRequests + 2

PumpsInit ==
    /\ cmds = <<>> /\ pending = <<>> /\ upstream = <<>> /\ downstream = <<>>
    /\ pongs = 0 /\ sink = 0
    /\ tasks = {"reader", "writer"}
    /\ linkUp = TRUE /\ attachedTo = TRUE /\ shellUp = TRUE
    /\ windowTold = "none" /\ recorded = TRUE
    /\ requestsMade = 0 /\ answered = [r \in Requests |-> Unanswered]
    /\ produced = 0 /\ shown = 0 /\ pinged = 0

PumpFrame(kind, n) == [kind |-> kind, n |-> n]

-----------------------------------------------------------------------------
(* The window *)

\* A history command waits in the writer's bounded queue.
WindowAsks ==
    /\ requestsMade < MaxRequests /\ "writer" \in tasks /\ Len(cmds) < WriterQueue
    /\ requestsMade' = requestsMade + 1
    /\ cmds' = Append(cmds, PumpFrame("history", requestsMade + 1))
    /\ UNCHANGED <<pending, upstream, downstream, pongs, sink, tasks, linkUp, attachedTo,
                   shellUp, windowTold, recorded, answered, produced, shown, pinged>>

WindowDetaches ==
    /\ "writer" \in tasks /\ Len(cmds) < WriterQueue
    /\ ~\E i \in DOMAIN cmds : cmds[i].kind = "detach"
    /\ cmds' = Append(cmds, PumpFrame("detach", 0))
    /\ UNCHANGED <<pending, upstream, downstream, pongs, sink, tasks, linkUp, attachedTo,
                   shellUp, windowTold, recorded, requestsMade, answered, produced, shown, pinged>>

WindowShows ==
    /\ sink > 0
    /\ sink' = sink - 1 /\ shown' = shown + 1
    /\ UNCHANGED <<cmds, pending, upstream, downstream, pongs, tasks, linkUp, attachedTo,
                   shellUp, windowTold, recorded, requestsMade, answered, produced, pinged>>

-----------------------------------------------------------------------------
(* The writer task *)

WriterSends(f) ==
    /\ upstream' = IF linkUp THEN Append(upstream, f) ELSE upstream
    /\ tasks' = IF linkUp /\ f.kind # "detach" THEN tasks ELSE tasks \ {"writer"}

\* A history request is refused when too many wait for their answer; otherwise
\* its reply is queued before the request is written.
WriterTakes ==
    LET cmd == Head(cmds) IN
    /\ "writer" \in tasks /\ cmds # <<>>
    /\ cmds' = Tail(cmds)
    /\ IF cmd.kind = "history" /\ Len(pending) >= MaxPending
       THEN /\ answered' = [answered EXCEPT ![cmd.n] = Refused]
            /\ UNCHANGED <<pending, upstream, tasks>>
       ELSE /\ WriterSends(cmd)
            /\ pending' = IF cmd.kind = "history" THEN Append(pending, cmd.n) ELSE pending
            /\ UNCHANGED answered
    /\ UNCHANGED <<downstream, pongs, sink, linkUp, attachedTo, shellUp, windowTold, recorded,
                   requestsMade, produced, shown, pinged>>

WriterPongs ==
    /\ "writer" \in tasks /\ pongs > 0
    /\ pongs' = pongs - 1
    /\ WriterSends(PumpFrame("pong", 0))
    /\ UNCHANGED <<cmds, pending, downstream, sink, linkUp, attachedTo, shellUp, windowTold, recorded,
                   requestsMade, answered, produced, shown, pinged>>

-----------------------------------------------------------------------------
(* The reader task *)

ReaderEnds(event) == tasks' = tasks \ {"reader"} /\ windowTold' = event

Forgets(kind) == recorded' = (recorded /\ kind # "exit")

\* The bug of never answering.
Pops_not(page) == pending' = pending /\ UNCHANGED answered

\* ctx_pop: an answer goes to the request that has waited longest.
Pops(page) ==
    IF pending = <<>> THEN UNCHANGED <<pending, answered>>
    ELSE /\ pending' = Tail(pending)
         /\ answered' = [answered EXCEPT ![Head(pending)] = page]

\* The reader takes the next envelope.  Output waits for room in the window's
\* channel and a ping for room in the pong channel.
ReaderTakes ==
    LET f == Head(downstream) IN
    /\ "reader" \in tasks /\ linkUp /\ downstream # <<>>
    /\ downstream' = Tail(downstream)
    /\ \/ /\ f.kind = "out" /\ sink < SinkCap
          /\ sink' = sink + 1
          /\ UNCHANGED <<pongs, pending, answered, tasks, windowTold, recorded>>
       \/ /\ f.kind = "ping" /\ "writer" \in tasks /\ pongs < PongCap
          /\ pongs' = pongs + 1
          /\ UNCHANGED <<sink, pending, answered, tasks, windowTold, recorded>>
       \/ /\ f.kind = "ping" /\ "writer" \notin tasks
          /\ ReaderEnds("none")
          /\ UNCHANGED <<sink, pongs, pending, answered, recorded>>
       \/ /\ f.kind \in {"chunk", "end"}
          /\ Pops(IF f.kind = "chunk" THEN f.n ELSE EmptyPage)
          /\ UNCHANGED <<sink, pongs, tasks, windowTold, recorded>>
       \/ /\ f.kind \in {"exit", "slow"}
          /\ Forgets(f.kind)
          /\ ReaderEnds(IF f.kind = "exit" THEN "exited" ELSE "detached")
          /\ UNCHANGED <<sink, pongs, pending, answered>>
    /\ UNCHANGED <<cmds, upstream, linkUp, attachedTo, shellUp, requestsMade, produced, shown, pinged>>

\* next_envelope fails.
ReaderFails ==
    /\ "reader" \in tasks /\ ~linkUp
    /\ ReaderEnds("detached")
    /\ UNCHANGED <<cmds, pending, upstream, downstream, pongs, sink, linkUp, attachedTo, shellUp,
                   recorded, requestsMade, answered, produced, shown, pinged>>

-----------------------------------------------------------------------------
(* The daemon and the stream *)

DaemonTakes ==
    LET f == Head(upstream) IN
    /\ linkUp /\ upstream # <<>>
    /\ upstream' = Tail(upstream)
    /\ downstream' = IF f.kind = "history" /\ attachedTo
                     THEN downstream \o <<PumpFrame("chunk", f.n), PumpFrame("end", f.n)>>
                     ELSE downstream
    /\ attachedTo' = (attachedTo /\ f.kind # "detach")
    /\ UNCHANGED <<cmds, pending, pongs, sink, tasks, linkUp, shellUp, windowTold, recorded, requestsMade,
                   answered, produced, shown, pinged>>

DaemonSends(kind) ==
    /\ linkUp /\ attachedTo /\ shellUp
    /\ kind = "out" => produced < MaxOutputs
    /\ kind = "ping" => pinged < MaxPings
    /\ downstream' = Append(downstream, PumpFrame(kind, 0))
    /\ produced' = IF kind = "out" THEN produced + 1 ELSE produced
    /\ pinged' = IF kind = "ping" THEN pinged + 1 ELSE pinged
    /\ attachedTo' = (kind \notin {"exit", "slow"})
    /\ shellUp' = (kind # "exit")
    /\ UNCHANGED <<cmds, pending, upstream, pongs, sink, tasks, linkUp, windowTold, recorded, requestsMade,
                   answered, shown>>

StreamDies ==
    /\ linkUp
    /\ linkUp' = FALSE /\ attachedTo' = FALSE
    /\ UNCHANGED <<cmds, pending, upstream, downstream, pongs, sink, tasks, shellUp, windowTold, recorded,
                   requestsMade, answered, produced, shown, pinged>>

PumpsNext ==
    \/ WindowAsks \/ WindowDetaches \/ WindowShows
    \/ WriterTakes \/ WriterPongs
    \/ ReaderTakes \/ ReaderFails
    \/ DaemonTakes \/ \E kind \in {"out", "ping", "exit", "slow"} : DaemonSends(kind)
    \/ StreamDies

PumpsSpec == PumpsInit /\ [][PumpsNext]_pumpVars

-----------------------------------------------------------------------------
(* Properties *)

\* Every history request the writer takes is answered, refused, or loses its
\* reply because a task of the attachment ended or the daemon let go of it.
HistorySettles ==
    \A r \in Requests : (requestsMade >= r) ~> (answered[r] # Unanswered \/ tasks # {"reader", "writer"}
                                          \/ ~attachedTo)

=============================================================================

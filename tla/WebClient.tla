------------------------------- MODULE WebClient -------------------------------
(***************************************************************************)
(* One tab of the browser client (web/src/client/app.ts) with the objects  *)
(* it drives: the WebTransport channels (transport.ts), the bounded pump   *)
(* in front of xterm.js (terminal-write-pump.ts) and the input queue       *)
(* (terminal-input-queue.ts).  The page is one thread: a read of a stream  *)
(* hands over several frames, each handled synchronously by onFrame, and   *)
(* the code behind an `await' whose promise a frame resolved runs only     *)
(* after the last frame of that read.  An action is one turn of the event  *)
(* loop; `page' is the whole client state, and the handlers, which call    *)
(* one another, are operators from page to page.                           *)
(*                                                                         *)
(* Output is a count: the k-th chunk the shell prints is k, a snapshot is  *)
(* the number of chunks it reflects, and a history page is one line.       *)
(***************************************************************************)
EXTENDS Naturals, Sequences, SequencesExt, FiniteSets

CONSTANTS
    MaxPrinted,     \* bound: chunks the shell prints
    MaxChannels,    \* bound: channels the page opens
    MaxInputs,      \* bound: inputs the user types
    MaxTroubles,    \* bound: lost links, expired tokens and refused attaches
    LiveCap,        \* LIVE_CHUNK_CAP
    PumpCap,        \* TERMINAL_WRITE_QUEUE_CHUNK_CAP
    InputCap,       \* TERMINAL_INPUT_QUEUE_CHUNK_CAP
    DownCap,        \* frames an attachment's queue holds in the daemon
    ReadCap         \* bound: frames one read of a stream returns

VARIABLES
    page,           \* the client
    printed,        \* chunks the shell has printed
    running,        \* whether the shell runs
    attachedChannels,       \* channels with an attachment in the daemon
    down,           \* per channel, the frames on their way to the page
    got,            \* per channel, the inputs the shell received
    answers,        \* answers on their way to the page on channel 0
    troubles        \* bounded counter of the faults

daemonVars == <<printed, running, attachedChannels, down, got, answers>>
webVars == <<page, printed, running, attachedChannels, down, got, answers, troubles>>

WebChannels == 1..(MaxChannels + 1)
NoChannel == 0

OutFrame(p) == [kind |-> "out", at |-> p]
ErrFrame(code) == [kind |-> code, at |-> 0]
InFrame(kind, n) == [kind |-> kind, n |-> n]

LiveItem(p) == [live |-> TRUE, snap |-> 0, chunks |-> <<p>>]
ReplayItem(w) == [live |-> FALSE, snap |-> w.snapshot, chunks |-> w.liveChunks]

NewChannel == [writer |-> FALSE, queue |-> <<>>, closing |-> FALSE, cancelled |-> FALSE]
DeadChannel == [NewChannel EXCEPT !.writer = TRUE, !.cancelled = TRUE]

WebInit ==
    /\ page = [transport |-> FALSE, authenticated |-> FALSE, state |-> "connecting", channel |-> NoChannel,
               mapped |-> {}, nextChannel |-> 1,
               chans |-> [c \in WebChannels |-> NewChannel],
               sent |-> [c \in WebChannels |-> <<>>],
               stored |-> FALSE, tab |-> FALSE,
               attaching |-> NoChannel, control |-> {}, due |-> <<>>,
               liveChunks |-> <<>>, overflowed |-> FALSE, presented |-> FALSE,
               snapshot |-> 0,
               queue |-> <<>>, inFlight |-> FALSE, overloaded |-> FALSE,
               screen |-> 0, torn |-> FALSE,
               fetching |-> FALSE, asked |-> NoChannel, initial |-> FALSE,
               oldest |-> 0, exhausted |-> FALSE,
               inputs |-> <<>>, paused |-> TRUE, typed |-> 0]
    /\ printed = 0 /\ running = FALSE /\ attachedChannels = {}
    /\ down = [c \in WebChannels |-> <<>>]
    /\ got = [c \in WebChannels |-> <<>>]
    /\ answers = {} /\ troubles = 0

-----------------------------------------------------------------------------
(* transport.ts: a frame sent before the stream is open waits in the        *)
(* channel's queue; closing a channel sends its last frame and stops the    *)
(* reader.                                                                  *)

send(w, c, f) ==
    IF w.chans[c].writer THEN [w EXCEPT !.sent[c] = Append(@, f)]
                         ELSE [w EXCEPT !.chans[c].queue = Append(@, f)]

closeChannel(w, c, f) ==
    LET frames == Append(w.chans[c].queue, f)
        entry == w.chans[c]
    IN  IF entry.writer
        THEN [w EXCEPT !.sent[c] = @ \o frames,
                       !.chans[c] = [entry EXCEPT !.queue = <<>>, !.closing = TRUE,
                                                  !.cancelled = TRUE]]
        ELSE [w EXCEPT !.chans[c] = [entry EXCEPT !.queue = frames, !.closing = TRUE]]

\* createBidirectionalStream resolves and the queue drains.  The writes after
\* the first await one another and a frame sent meanwhile overtakes them;
\* AttachFirst is why no channel of a tab has a second one.
StreamOpens(c) ==
    LET entry == page.chans[c] IN
    /\ page.transport /\ c < page.nextChannel /\ ~entry.writer
    /\ page' = [page EXCEPT !.chans[c] = [entry EXCEPT !.writer = TRUE, !.queue = <<>>,
                                                      !.cancelled = entry.closing],
                            !.sent[c] = @ \o entry.queue]
    /\ UNCHANGED <<daemonVars, troubles>>

Reading(c) == /\ page.transport
              /\ page.chans[c].writer /\ ~page.chans[c].cancelled

-----------------------------------------------------------------------------
(* terminal-input-queue.ts and the senders of app.ts *)

\* sendInputBytes throws unless the tab is live on a transport; resume then
\* pauses with the input still queued.
resumeInput(w) ==
    IF w.state # "live" \/ ~w.transport
    THEN [w EXCEPT !.paused = w.inputs # <<>>]
    ELSE LET sender(v, i) == send(v, v.channel, InFrame("input", i))
         IN  [FoldLeft(sender, w, w.inputs) EXCEPT !.inputs = <<>>, !.paused = FALSE]

pauseInput(w) == [w EXCEPT !.paused = TRUE]

sendInput(w, i) ==
    IF Len(w.inputs) >= InputCap THEN w
    ELSE LET queued == [w EXCEPT !.inputs = Append(@, i)]
         IN  IF w.state = "live" THEN resumeInput(queued) ELSE queued

-----------------------------------------------------------------------------
(* app.ts: attaching and recovering *)

forget(w) == [w EXCEPT !.stored = FALSE]

markExited(w) ==
    forget([pauseInput(w) EXCEPT !.inputs = <<>>, !.state = "exited"])

\* The part of attachShell before its await: a fresh channel, an empty live
\* buffer, nothing presented, and the attach request.
attachShell(w) ==
    IF ~w.transport THEN w
    ELSE LET c == w.nextChannel
             v == [pauseInput(w) EXCEPT
                     !.tab = TRUE,
                     !.nextChannel = c + 1,
                     !.channel = c,
                     !.mapped = (@ \ {w.channel}) \cup {c},
                     !.liveChunks = <<>>, !.overflowed = FALSE, !.presented = FALSE,
                     !.attaching = c]
         IN  send(v, c, InFrame("attach", 0))

reattachDropped(w) == IF w.stored THEN attachShell(w) ELSE w

recoverRenderOverload(w) ==
    IF ~w.transport \/ w.state # "live" THEN w
    ELSE LET v == [pauseInput(w) EXCEPT !.mapped = @ \ {w.channel},
                                        !.state = "reconnecting"]
         IN  reattachDropped(closeChannel(v, w.channel, InFrame("detach", 0)))

-----------------------------------------------------------------------------
(* terminal-write-pump.ts: one write at a time goes to xterm.js.  `screen'   *)
(* is the last chunk written and `torn' records a write that did not         *)
(* continue what was on the screen.                                          *)

Contiguous(snap, chunks) == \A i \in DOMAIN chunks : chunks[i] = snap + i

pump(w) ==
    IF w.inFlight \/ w.queue = <<>> THEN w
    ELSE LET item == Head(w.queue)
             from == IF item.live THEN w.screen ELSE item.snap
         IN  [w EXCEPT !.queue = Tail(@), !.inFlight = TRUE,
                       !.screen = IF item.chunks = <<>> THEN item.snap ELSE Last(item.chunks),
                       !.torn = (item.live /\ @) \/ ~Contiguous(from, item.chunks)]

QueuedLive(w) == Len(SelectSeq(w.queue, LAMBDA i : i.live))

\* The bug of dropping what does not fit without asking for a snapshot.
enqueue_drops(w, p) ==
    IF w.overloaded \/ QueuedLive(w) >= PumpCap THEN w
    ELSE pump([w EXCEPT !.queue = Append(@, LiveItem(p))])

enqueue(w, p) ==
    IF w.overloaded THEN w
    ELSE IF QueuedLive(w) >= PumpCap
    THEN recoverRenderOverload([w EXCEPT !.queue = <<>>, !.overloaded = TRUE])
    ELSE pump([w EXCEPT !.queue = Append(@, LiveItem(p))])

replace(w) ==
    pump([w EXCEPT !.queue = <<ReplayItem(w)>>, !.overloaded = FALSE])

-----------------------------------------------------------------------------
(* app.ts: what the tab shows *)

render(w) ==
    IF w.overflowed
    THEN IF w.presented THEN w ELSE recoverRenderOverload(w)
    ELSE replace([w EXCEPT !.presented = TRUE])

appendLive(w, p) ==
    LET kept == Append(w.liveChunks, p)
        over == Len(kept) > LiveCap
        v == [w EXCEPT !.liveChunks = IF over THEN Tail(kept) ELSE kept,
                       !.overflowed = @ \/ over]
    IN  IF w.presented THEN enqueue(v, p) ELSE v

\* The part of fetchOlderHistory before its await.
CanFetch(w, initial) ==
    /\ ~w.fetching /\ ~w.exhausted /\ w.state = "live"
    /\ initial \/ w.oldest # 0

fetchOlderHistory(w, initial) ==
    send([w EXCEPT !.fetching = TRUE, !.asked = w.channel, !.initial = initial],
         w.channel, InFrame("history", w.oldest))

\* The part of attachShell after its await, for a ShellAttached reply.  The
\* background fetch renders when it is done, at once if it does not start.
Attached(w, snap) ==
    LET live == resumeInput([w EXCEPT !.snapshot = snap, !.oldest = 0,
                                      !.exhausted = (snap = 0), !.state = "live"])
        shown == render(live)
    IN  IF shown.exhausted THEN shown
        ELSE IF CanFetch(shown, TRUE) THEN fetchOlderHistory(shown, TRUE)
        ELSE render(shown)

\* recoverExpired asks on the control channel to open the same shell again.
recoverExpired(w) == [w EXCEPT !.control = @ \cup {"reopen"}]

\* The part of fetchOlderHistory after its await: oldest line id `first', or
\* 0 when the reply is an error.
Fetched(w, first) ==
    LET v == [w EXCEPT !.fetching = FALSE, !.asked = NoChannel,
                       !.oldest = IF first = 0 THEN @ ELSE first,
                       !.exhausted = @ \/ first = 1]
    IN  IF first # 0 \/ w.initial THEN render(v) ELSE v

\* What runs when an awaited reply has arrived.
Continue(w, f) ==
    CASE f.kind = "attached" -> Attached(w, f.at)
      [] f.kind = "notfound" -> forget([w EXCEPT !.inputs = <<>>, !.state = "exited"])
      [] f.kind = "expired"  -> IF w.stored THEN recoverExpired(w)
                                ELSE [w EXCEPT !.inputs = <<>>, !.state = "exited"]
      [] f.kind = "refused"  -> w
      [] f.kind = "chunk"    -> Fetched(w, f.at)

Replies == {"attached", "notfound", "expired", "refused"}

onFrame(w, c, f) ==
    CASE f.kind \in Replies /\ w.attaching = c ->
            [w EXCEPT !.attaching = NoChannel, !.due = Append(@, f)]
      [] f.kind = "chunk" /\ w.asked = c ->
            [w EXCEPT !.asked = NoChannel, !.due = Append(@, f)]
      [] f.kind = "out" /\ c \in w.mapped -> appendLive(w, f.at)
      [] f.kind = "exit" /\ c \in w.mapped -> markExited(w)
      [] f.kind = "slow" /\ c \in w.mapped /\ w.state = "live" ->
            reattachDropped([pauseInput(w) EXCEPT !.mapped = @ \ {w.channel},
                                                  !.state = "reconnecting"])
      [] OTHER -> w

-----------------------------------------------------------------------------
(* The turns of the page.  Bounded: no turn takes a channel past the bound. *)

Turn(w) == page' = w /\ w.nextChannel <= MaxChannels + 1

\* One read of channel c returns k frames: all are dispatched, then the code
\* awaiting them runs in order.
Reads(c, k) ==
    LET frames == SubSeq(down[c], 1, k)
        handled == FoldLeft(LAMBDA w, f : onFrame(w, c, f), page, frames)
        run(w, f) == Continue(w, f)
    IN  /\ Reading(c) /\ k <= Len(down[c])
        /\ Turn([FoldLeft(run, handled, handled.due) EXCEPT !.due = <<>>])
        /\ down' = [down EXCEPT ![c] = SubSeq(@, k + 1, Len(@))]
        /\ UNCHANGED <<printed, running, attachedChannels, got, answers, troubles>>

\* xterm.js has parsed the write in flight.
Parsed ==
    /\ page.inFlight
    /\ Turn(pump([page EXCEPT !.inFlight = FALSE]))
    /\ UNCHANGED <<daemonVars, troubles>>

Types ==
    /\ page.typed < MaxInputs /\ page.tab /\ page.state \notin {"detached", "exited"}
    /\ Turn(sendInput([page EXCEPT !.typed = @ + 1], page.typed + 1))
    /\ UNCHANGED <<daemonVars, troubles>>

\* The user scrolls to the top of what is loaded.
Scrolls ==
    /\ CanFetch(page, FALSE)
    /\ Turn(fetchOlderHistory(page, FALSE))
    /\ UNCHANGED <<daemonVars, troubles>>

detachActive ==
    /\ page.state = "live" /\ page.transport
    /\ LET v == send(page, page.channel, InFrame("detach", 0))
       IN  Turn([pauseInput(v) EXCEPT !.mapped = @ \ {page.channel},
                                      !.inputs = <<>>, !.state = "detached"])
    /\ UNCHANGED <<daemonVars, troubles>>

terminateActive ==
    /\ page.tab /\ page.authenticated /\ "kill" \notin page.control
    /\ Turn([page EXCEPT !.control = @ \cup {"kill"}])
    /\ UNCHANGED <<daemonVars, troubles>>

\* connect reaches the daemon.
connect ==
    /\ ~page.transport
    /\ Turn([page EXCEPT !.transport = TRUE])
    /\ UNCHANGED <<daemonVars, troubles>>

\* The daemon answered hello and accepted the stored grant or the user's
\* login: connect goes on to reattach what is stored, or to open a first
\* shell on a fresh page.
authenticate ==
    /\ page.transport /\ ~page.authenticated
    /\ LET in == [page EXCEPT !.authenticated = TRUE]
       IN  Turn(IF in.stored THEN attachShell(in)
                ELSE IF in.tab THEN in
                ELSE [in EXCEPT !.control = @ \cup {"open"}])
    /\ UNCHANGED <<daemonVars, troubles>>

\* session.closed resolves: onDisconnect forgets every pending request, so
\* the code that awaits one never runs again.
onDisconnect ==
    /\ page.transport /\ troubles < MaxTroubles
    /\ LET v == [page EXCEPT !.transport = FALSE, !.authenticated = FALSE,
                             !.attaching = NoChannel,
                             !.control = {}, !.asked = NoChannel, !.mapped = {},
                             !.chans = [c \in WebChannels |->
                                          IF c < page.nextChannel THEN DeadChannel ELSE @[c]],
                             !.sent = [c \in WebChannels |-> <<>>]]
       IN  Turn(IF v.tab /\ v.state # "exited"
                THEN [pauseInput(v) EXCEPT !.state = "reconnecting"] ELSE v)
    /\ troubles' = troubles + 1
    /\ attachedChannels' = {} /\ answers' = {}
    /\ down' = [c \in WebChannels |-> <<>>]
    /\ UNCHANGED <<printed, running, got>>

\* A reply on the control channel.  newShell stores the shell and attaches;
\* recoverExpired stores the fresh token and attaches, or gives the tab up.
ControlReply(a) ==
    /\ a \in answers /\ a.to \in page.control /\ page.transport
    /\ answers' = answers \ {a}
    /\ LET v == [page EXCEPT !.control = @ \ {a.to}]
       IN  Turn(CASE a.to = "kill" -> markExited(v)
                  [] a.to = "open" -> IF a.ok THEN attachShell([v EXCEPT !.stored = TRUE]) ELSE v
                  [] a.to = "reopen" -> IF a.ok THEN attachShell(v)
                                        ELSE [v EXCEPT !.inputs = <<>>, !.state = "exited"])
    /\ UNCHANGED <<printed, running, attachedChannels, down, got, troubles>>

-----------------------------------------------------------------------------
(* The daemon, as the page sees it *)

\* Output reaches every attachment; one whose queue is full is dropped with
\* ERR_TOO_SLOW.
ShellPrints ==
    /\ running /\ printed < MaxPrinted
    /\ printed' = printed + 1
    /\ down' = [c \in WebChannels |->
                  IF c \notin attachedChannels THEN down[c]
                  ELSE Append(down[c], IF Len(down[c]) < DownCap THEN OutFrame(printed + 1)
                                       ELSE ErrFrame("slow"))]
    /\ attachedChannels' = {c \in attachedChannels : Len(down[c]) < DownCap}
    /\ UNCHANGED <<page, running, got, answers, troubles>>

ShellExits ==
    /\ running
    /\ running' = FALSE /\ attachedChannels' = {}
    /\ down' = [c \in WebChannels |-> IF c \in attachedChannels THEN Append(down[c], ErrFrame("exit"))
                                      ELSE down[c]]
    /\ UNCHANGED <<page, printed, got, answers, troubles>>

\* The daemon handles the next frame of channel c.
DaemonServes(c) ==
    LET f == Head(page.sent[c])
        reply(r) == down' = [down EXCEPT ![c] = Append(@, r)]
    IN  /\ page.sent[c] # <<>>
        /\ page' = [page EXCEPT !.sent[c] = Tail(@)]
        /\ \/ /\ f.kind = "attach" /\ running
              /\ reply([kind |-> "attached", at |-> printed])
              /\ attachedChannels' = attachedChannels \cup {c}
              /\ UNCHANGED <<got, troubles>>
           \/ /\ f.kind = "attach" /\ ~running
              /\ reply(ErrFrame("notfound"))
              /\ UNCHANGED <<attachedChannels, got, troubles>>
           \/ /\ f.kind = "attach" /\ running /\ troubles < MaxTroubles
              /\ \E code \in {"expired", "refused"} : reply(ErrFrame(code))
              /\ troubles' = troubles + 1
              /\ UNCHANGED <<attachedChannels, got>>
           \/ /\ f.kind = "history"
              /\ reply([kind |-> "chunk",
                        at |-> IF ~running THEN 0 ELSE IF f.n = 0 THEN printed ELSE f.n - 1])
              /\ UNCHANGED <<attachedChannels, got, troubles>>
           \/ /\ f.kind = "input"
              /\ got' = [got EXCEPT ![c] = IF c \in attachedChannels THEN Append(@, f.n) ELSE @]
              /\ UNCHANGED <<attachedChannels, down, troubles>>
           \/ /\ f.kind = "detach"
              /\ attachedChannels' = attachedChannels \ {c}
              /\ UNCHANGED <<got, down, troubles>>
        /\ UNCHANGED <<printed, running, answers>>

\* The daemon answers a control request: opening runs the shell, reopening
\* finds it by its key while it runs, terminating ends it.
DaemonAnswers ==
    \E r \in page.control :
        /\ ~\E a \in answers : a.to = r
        /\ \E ok \in IF r = "kill" THEN {TRUE} ELSE IF r = "open" THEN {TRUE, FALSE} ELSE {running} :
              /\ answers' = answers \cup {[to |-> r, ok |-> ok]}
              /\ running' = CASE r = "open" -> running \/ ok
                              [] r = "kill" -> FALSE
                              [] r = "reopen" -> running
        /\ IF r = "kill" THEN /\ attachedChannels' = {}
                              /\ down' = [c \in WebChannels |->
                                            IF c \in attachedChannels THEN Append(down[c], ErrFrame("exit"))
                                            ELSE down[c]]
                         ELSE UNCHANGED <<attachedChannels, down>>
        /\ UNCHANGED <<page, printed, got, troubles>>

WebNext ==
    \/ connect \/ authenticate
    \/ onDisconnect
    \/ \E c \in 1..MaxChannels : StreamOpens(c) \/ DaemonServes(c)
    \/ \E c \in 1..MaxChannels, k \in 1..ReadCap : Reads(c, k)
    \/ \E a \in answers : ControlReply(a)
    \/ Parsed \/ Types \/ Scrolls \/ detachActive \/ terminateActive
    \/ ShellPrints \/ ShellExits \/ DaemonAnswers

WebSpec == WebInit /\ [][WebNext]_webVars

-----------------------------------------------------------------------------
(* Properties *)

\* The last chunk the tab was told of.
LastHeard == IF page.liveChunks = <<>> THEN page.snapshot ELSE Last(page.liveChunks)

\* When a live tab is at rest, its screen is the snapshot of its attachment
\* followed by every later chunk it received, none missing and none applied
\* twice: across lost links, ERR_TOO_SLOW, a pump that overloads, a live
\* buffer that overflows and history that re-renders (app.ts attachShell,
\* appendLive, render; TerminalWritePump).
ScreenExact ==
    (page.state = "live" /\ page.presented /\ ~page.inFlight /\ page.queue = <<>>)
        => (page.screen = LastHeard /\ ~page.torn /\ ~page.overloaded)

=============================================================================

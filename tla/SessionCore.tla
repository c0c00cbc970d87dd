---------------------------- MODULE SessionCore ----------------------------
(***************************************************************************)
(* The shell manager of crates/session-core/src/lib.rs: persistent shells, *)
(* their bounded attachments, rotating resume tokens, idempotent opens,    *)
(* termination, the idle reaper and the per-shell pump thread.             *)
(*                                                                         *)
(* Every operation of ShellManager runs under the shell's runtime mutex,   *)
(* so it is one action, except where the code lets the mutex go: terminate *)
(* waits on a condition variable, reap_idle takes the lock three times per *)
(* shell, and the pump thread blocks in PtyProcess::wait WITH the mutex    *)
(* held (Locked below), which disables every other action on that shell    *)
(* and every operation that locks all runtimes under the manager lock.     *)
(*                                                                         *)
(* Calls that fail change nothing and are stuttering steps.  The n-th      *)
(* resume token of shell s is the pair <<s, n>>, so token[s] = n says that *)
(* n tokens were issued and the last one is current; chunk n of a shell's  *)
(* output is the number n.                                                 *)
(***************************************************************************)
EXTENDS Integers, Sequences, FiniteSets

CONSTANTS
    ShellIds,            \* random 16-byte shell ids, never reused
    NoShell,             \* Option::None for a shell id
    Users, Keys,         \* owners and idempotency keys
    Permitted,           \* users for whom policy.resolve succeeds
    Callers,             \* threads that call terminate
    Reaper,              \* the thread that runs reap_idle
    MaxShells,           \* max_shells
    MaxShellsPerUser,    \* max_shells_per_user, 0 disables it
    MaxAttachments,      \* max_attachments_per_shell
    MaxQueued,           \* max_queued_chunks
    SupersededHistory,   \* SUPERSEDED_TOKEN_HISTORY
    ReaperEnabled,       \* idle_shell_ttl is Some
    IdleTtl,             \* idle_shell_ttl
    ReqDims,             \* dimensions a client may ask for, 0 = unspecified
    MinDims,             \* <<MIN_COLS, MIN_ROWS>>
    DefaultDims,         \* <<80, 24>>
    MaxChunks,           \* bound: output chunks per shell
    MaxTokens,           \* bound: tokens issued per shell
    MaxTime              \* bound: the clock

ASSUME SessionAssumption ==
    /\ NoShell \notin ShellIds
    /\ Reaper \notin Callers
    /\ Permitted \subseteq Users
    /\ MaxShells \in Nat /\ MaxShellsPerUser \in Nat /\ MaxAttachments \in Nat
    /\ MaxQueued \in Nat \ {0}
    /\ SupersededHistory \in Nat \ {0}
    /\ ReaperEnabled \in BOOLEAN /\ IdleTtl \in Nat
    /\ ReqDims \subseteq Nat
    /\ MinDims \in Nat \X Nat /\ DefaultDims \in Nat \X Nat
    /\ MaxChunks \in Nat /\ MaxTokens \in Nat /\ MaxTime \in Nat

VARIABLES
    shells,              \* Inner.shells: the registered ids
    idempotency,         \* Inner.idempotency: (owner, key) -> shell
    owner,               \* ShellEntry.owner
    created,             \* ShellEntry.created_at_ms
    state,               \* Runtime.state, "unborn" before open_shell
    pty,                 \* Runtime.pty is Some
    exit,                \* Runtime.exit is Some
    token,               \* Runtime.token_hash: the newest token's number
    superseded,          \* Runtime.superseded_token_hashes
    lastAttached,        \* Runtime.last_attached_at_ms, 0 = never
    chan,                \* attachments ever made; chan[s][a] has id a
    fed,                 \* chunks fed to Runtime.model
    ptySize, modelSize,  \* winsize of the PTY, size of the model
    child, tty,          \* the process: alive?  is the PTY slave held open?
    waiting,             \* which shell a thread waits for inside terminate
    reaper,              \* locals of reap_idle
    now,                 \* the wall clock
    idleSince            \* history: when the shell last became unattached

registry == <<shells, idempotency, owner, created>>
tokens   == <<token, superseded>>
sizes    == <<ptySize, modelSize>>
process  == <<child, tty>>
vars     == <<registry, state, pty, exit, tokens, lastAttached, chan, fed,
              sizes, process, waiting, reaper, now, idleSince>>

Threads == Callers \cup {Reaper}
States  == {"unborn", "Running", "Terminating", "Exited"}

\* AttachmentEvent: Output(n) is the chunk's number, Exited(_) is 0.
Exited  == 0

\* One attachment: the sender sits in Runtime.attachments while `open`, the
\* receiver exists while `live`; `snap` chunks are in the snapshot, the
\* consumer has taken `got` chunks and `q` is the bounded sync_channel;
\* `saw` is how the stream ended for the consumer.
Channel == [open : BOOLEAN, live : BOOLEAN, snap : Nat, got : Nat,
            q : Seq(Nat), saw : {"nothing", "exited", "disconnect"}]

NewChannel(s) == [open |-> TRUE, live |-> TRUE, snap |-> fed[s],
                  got |-> fed[s], q |-> <<>>, saw |-> "nothing"]

Attachments(s) == {a \in DOMAIN chan[s] : chan[s][a].open}
Locked(s)      == state[s] # "unborn" /\ ~pty[s] /\ ~exit[s]
Live           == {s \in shells : state[s] # "Exited"}
NoneLocked     == \A s \in shells : ~Locked(s)

Clamp(d) == <<IF d[1] > MinDims[1] THEN d[1] ELSE MinDims[1],
              IF d[2] > MinDims[2] THEN d[2] ELSE MinDims[2]>>
Specified(d) == d[1] # 0 /\ d[2] # 0
-----------------------------------------------------------------------------
Init ==
    /\ shells = {} /\ idempotency = [uk \in Users \X Keys |-> NoShell]
    /\ owner = [s \in ShellIds |-> NoShell]
    /\ created = [s \in ShellIds |-> 0]
    /\ state = [s \in ShellIds |-> "unborn"]
    /\ pty = [s \in ShellIds |-> FALSE]
    /\ exit = [s \in ShellIds |-> FALSE]
    /\ token = [s \in ShellIds |-> 0]
    /\ superseded = [s \in ShellIds |-> <<>>]
    /\ lastAttached = [s \in ShellIds |-> 0]
    /\ chan = [s \in ShellIds |-> <<>>]
    /\ fed = [s \in ShellIds |-> 0]
    /\ ptySize = [s \in ShellIds |-> MinDims]
    /\ modelSize = [s \in ShellIds |-> MinDims]
    /\ child = [s \in ShellIds |-> FALSE]
    /\ tty = [s \in ShellIds |-> FALSE]
    /\ waiting = [c \in Threads |-> NoShell]
    /\ reaper = [pc |-> "idle", cutoff |-> 0, todo |-> {}, cur |-> NoShell,
                 mark |-> 0]
    /\ now = 1
    /\ idleSince = [s \in ShellIds |-> 0]
-----------------------------------------------------------------------------
(* Opening a shell.                                                        *)

rotate_token_pushes_new(s) ==
    /\ token[s] < MaxTokens
    /\ superseded' = [superseded EXCEPT ![s] =
           Append(IF Len(@) = SupersededHistory THEN Tail(@) ELSE @, token[s] + 1)]
    /\ token' = [token EXCEPT ![s] = @ + 1]

\* rotate_token: remember the superseded hash in a bounded ring.
rotate_token(s) ==
    /\ token[s] < MaxTokens
    /\ superseded' = [superseded EXCEPT ![s] =
           Append(IF Len(@) = SupersededHistory THEN Tail(@) ELSE @, token[s])]
    /\ token' = [token EXCEPT ![s] = @ + 1]

\* open_shell with a known (owner, key): same shell, rotated token, whatever
\* the shell's state is.
OpenReused(u, k) ==
    LET s == idempotency[<<u, k>>] IN
    /\ s \in shells
    /\ ~Locked(s)
    /\ rotate_token(s)
    /\ UNCHANGED <<registry, state, pty, exit, lastAttached, chan, fed, sizes,
                   process, waiting, reaper, now, idleSince>>

\* The caps of open_shell, counted over every registered runtime.
WithinCaps(u) ==
    /\ Cardinality(Live) < MaxShells
    /\ \/ MaxShellsPerUser = 0
       \/ Cardinality({s \in Live : owner[s] = u}) < MaxShellsPerUser

InitialSize(d) == Clamp(<<IF d[1] = 0 THEN DefaultDims[1] ELSE d[1],
                          IF d[2] = 0 THEN DefaultDims[2] ELSE d[2]>>)

\* open_shell that spawns; a failed spawn, policy or cap changes nothing.
OpenNew(u, k, s, d) ==
    /\ idempotency[<<u, k>>] \notin shells
    /\ state[s] = "unborn"
    /\ u \in Permitted
    /\ NoneLocked
    /\ WithinCaps(u)
    /\ MaxTokens > 0
    /\ shells' = shells \cup {s}
    /\ idempotency' = [idempotency EXCEPT ![<<u, k>>] = s]
    /\ owner' = [owner EXCEPT ![s] = u]
    /\ created' = [created EXCEPT ![s] = now]
    /\ state' = [state EXCEPT ![s] = "Running"]
    /\ pty' = [pty EXCEPT ![s] = TRUE]
    /\ token' = [token EXCEPT ![s] = 1]
    /\ ptySize' = [ptySize EXCEPT ![s] = InitialSize(d)]
    /\ modelSize' = [modelSize EXCEPT ![s] = InitialSize(d)]
    /\ child' = [child EXCEPT ![s] = TRUE]
    /\ tty' = [tty EXCEPT ![s] = TRUE]
    /\ idleSince' = [idleSince EXCEPT ![s] = now]
    /\ UNCHANGED <<exit, superseded, lastAttached, chan, fed, waiting,
                   reaper, now>>
-----------------------------------------------------------------------------
(* Attachments.                                                            *)

\* The judgement attach passes on token number t of shell s.
Judge(s, t) ==
    IF t = token[s] THEN "ok"
    ELSE IF \E i \in DOMAIN superseded[s] : superseded[s][i] = t
         THEN "replayed" ELSE "invalid"

\* attach_runtime: state and cap checks, resize, rotate, register.
attach_runtime(s, d) ==
    /\ state[s] = "Running"
    /\ Cardinality(Attachments(s)) < MaxAttachments
    /\ IF Specified(d) /\ modelSize[s] # Clamp(d)
       THEN /\ ptySize' = [ptySize EXCEPT ![s] =
                               IF pty[s] THEN Clamp(d) ELSE @]
            /\ modelSize' = [modelSize EXCEPT ![s] = Clamp(d)]
       ELSE UNCHANGED sizes
    /\ rotate_token(s)
    /\ lastAttached' = [lastAttached EXCEPT ![s] = now]
    /\ chan' = [chan EXCEPT ![s] = Append(@, NewChannel(s))]
    /\ UNCHANGED <<registry, state, pty, exit, fed, process, waiting, reaper,
                   now, idleSince>>

\* attach: the owner presents token t.
Attach(u, s, t, d) ==
    /\ s \in shells /\ owner[s] = u /\ ~Locked(s)
    /\ Judge(s, t) = "ok"
    /\ attach_runtime(s, d)

\* attach_authorized: agent mode, no token.
AttachAuthorized(u, s, d) ==
    /\ s \in shells /\ owner[s] = u /\ ~Locked(s)
    /\ attach_runtime(s, d)

\* Closing senders `gone` of shell s; history of when it became unattached.
NoteIdle(s, before, after) ==
    idleSince' = [idleSince EXCEPT ![s] =
                      IF before # {} /\ after = {} THEN now ELSE @]

\* detach: idempotent, the shell keeps running.
Detach(s, a) ==
    /\ s \in shells /\ ~Locked(s)
    /\ a \in Attachments(s)
    /\ chan' = [chan EXCEPT ![s][a].open = FALSE]
    /\ NoteIdle(s, Attachments(s), Attachments(s) \ {a})
    /\ UNCHANGED <<registry, state, pty, exit, tokens, lastAttached, fed,
                   sizes, process, waiting, reaper, now>>

\* resize: unspecified dimensions and shells without a PTY are left alone.
Resize(s, d) ==
    /\ s \in shells /\ ~Locked(s)
    /\ Specified(d)
    /\ pty[s]
    /\ ptySize' = [ptySize EXCEPT ![s] = Clamp(d)]
    /\ modelSize' = [modelSize EXCEPT ![s] = Clamp(d)]
    /\ UNCHANGED <<registry, state, pty, exit, tokens, lastAttached, chan, fed,
                   process, waiting, reaper, now, idleSince>>
-----------------------------------------------------------------------------
(* The pump thread of one shell, and the consumers of its attachments.     *)

\* Mutants: the queue holds one event more than its bound; a full queue drops
\* the chunk and keeps the attachment.
HasRoom_off_by_one(c) == c.live /\ Len(c.q) <= MaxQueued
Deliver_dropping(c, n) ==
    IF c.open /\ c.live /\ Len(c.q) < MaxQueued
    THEN [c EXCEPT !.q = Append(@, n)] ELSE c

\* try_send: a full queue or a dropped receiver detaches the attachment.
HasRoom(c)    == c.live /\ Len(c.q) < MaxQueued
Deliver(c, n) == IF ~c.open THEN c
                 ELSE IF HasRoom(c) THEN [c EXCEPT !.q = Append(@, n)]
                 ELSE [c EXCEPT !.open = FALSE]

\* One chunk: feed the model, then offer it to every attachment.
PumpChunk(s) ==
    /\ pty[s] /\ tty[s]
    /\ fed[s] < MaxChunks
    /\ fed' = [fed EXCEPT ![s] = @ + 1]
    /\ chan' = [chan EXCEPT ![s] =
                    [a \in DOMAIN @ |-> Deliver(@[a], fed[s] + 1)]]
    /\ NoteIdle(s, Attachments(s), {a \in Attachments(s) : HasRoom(chan[s][a])})
    /\ UNCHANGED <<registry, state, pty, exit, tokens, lastAttached, sizes,
                   process, waiting, reaper, now>>

\* EOF: take the PTY and block in wait(), holding the runtime mutex.
PumpEof(s) ==
    /\ pty[s] /\ ~tty[s]
    /\ pty' = [pty EXCEPT ![s] = FALSE]
    /\ UNCHANGED <<registry, state, exit, tokens, lastAttached, chan, fed,
                   sizes, process, waiting, reaper, now, idleSince>>

\* Mutant of Drain: the senders are not dropped.
Drain_keeping(c) == c

\* drain(): try_send(Exited) is ignored when it fails; the sender is dropped.
Drain(c) == IF ~c.open THEN c
            ELSE IF HasRoom(c)
                 THEN [c EXCEPT !.q = Append(@, Exited), !.open = FALSE]
                 ELSE [c EXCEPT !.open = FALSE]

RecordExit(s) ==
    /\ Locked(s)
    /\ state' = [state EXCEPT ![s] = "Exited"]
    /\ exit' = [exit EXCEPT ![s] = TRUE]
    /\ chan' = [chan EXCEPT ![s] = [a \in DOMAIN @ |-> Drain(@[a])]]
    /\ NoteIdle(s, Attachments(s), {})
    /\ UNCHANGED <<registry, pty, tokens, lastAttached, fed, sizes, process,
                   waiting, reaper, now>>

\* wait() returned the child's status, or failed (recorded as 255).
PumpReaped(s)    == ~child[s] /\ RecordExit(s)
PumpWaitFails(s) == child[s] /\ RecordExit(s)

\* The forwarder of an attachment takes one event; Exited ends it.
Recv(s, a) ==
    LET c == chan[s][a] IN
    /\ a \in DOMAIN chan[s] /\ c.live /\ c.q # <<>>
    /\ chan' = [chan EXCEPT ![s][a] =
           IF Head(c.q) = Exited
           THEN [c EXCEPT !.q = Tail(@), !.live = FALSE, !.saw = "exited"]
           ELSE [c EXCEPT !.q = Tail(@), !.got = Head(c.q)]]
    /\ UNCHANGED <<registry, state, pty, exit, tokens, lastAttached, fed,
                   sizes, process, waiting, reaper, now, idleSince>>

\* The forwarder sees the channel disconnected.
RecvDisconnect(s, a) ==
    LET c == chan[s][a] IN
    /\ a \in DOMAIN chan[s] /\ c.live /\ c.q = <<>> /\ ~c.open
    /\ chan' = [chan EXCEPT ![s][a] =
                    [c EXCEPT !.live = FALSE, !.saw = "disconnect"]]
    /\ UNCHANGED <<registry, state, pty, exit, tokens, lastAttached, fed,
                   sizes, process, waiting, reaper, now, idleSince>>

\* The consumer goes away without a detach (its connection died).
DropReceiver(s, a) ==
    /\ a \in DOMAIN chan[s] /\ chan[s][a].live
    /\ chan' = [chan EXCEPT ![s][a].live = FALSE]
    /\ UNCHANGED <<registry, state, pty, exit, tokens, lastAttached, fed,
                   sizes, process, waiting, reaper, now, idleSince>>
-----------------------------------------------------------------------------
(* terminate, remove_exited.                                               *)

\* Mutant of BeginTerminate: waiting without killing.
BeginTerminate_without_kill(c, s) ==
    /\ s \in shells /\ ~Locked(s) /\ ~exit[s]
    /\ state' = [state EXCEPT ![s] = "Terminating"]
    /\ waiting' = [waiting EXCEPT ![c] = s]
    /\ UNCHANGED <<registry, pty, exit, tokens, lastAttached, chan, fed, sizes,
                   process, now, idleSince>>

\* First half of terminate on a shell whose exit is not recorded yet: mark it,
\* kill the child, start waiting; a failing kill returns at once and leaves
\* the mark.
BeginTerminate(c, s) ==
    /\ s \in shells /\ ~Locked(s) /\ ~exit[s]
    /\ state' = [state EXCEPT ![s] = "Terminating"]
    /\ \/ /\ child' = [child EXCEPT ![s] = FALSE]
          /\ waiting' = [waiting EXCEPT ![c] = s]
       \/ child[s] /\ UNCHANGED <<child, waiting>>
    /\ UNCHANGED <<registry, pty, exit, tokens, lastAttached, chan, fed, sizes,
                   tty, now, idleSince>>

EndTerminate_ignores_timeout(c) ==
    LET s == waiting[c] IN
    /\ s # NoShell
    /\ ~Locked(s)
    /\ state' = [state EXCEPT ![s] = "Exited"]
    /\ waiting' = [waiting EXCEPT ![c] = NoShell]
    /\ UNCHANGED <<registry, pty, exit, tokens, lastAttached, chan, fed, sizes,
                   process, now, idleSince>>

\* The condition variable: exit recorded, or ten seconds passed without it.
EndTerminate(c) ==
    LET s == waiting[c] IN
    /\ s # NoShell
    /\ ~Locked(s)
    /\ state' = [state EXCEPT ![s] = IF exit[s] THEN "Exited" ELSE @]
    /\ waiting' = [waiting EXCEPT ![c] = NoShell]
    /\ UNCHANGED <<registry, pty, exit, tokens, lastAttached, chan, fed, sizes,
                   process, now, idleSince>>

Terminate(c, s) ==
    waiting[c] = NoShell /\ BeginTerminate(c, s) /\ UNCHANGED reaper
TerminateReturns(c) == EndTerminate(c) /\ UNCHANGED reaper

\* Mutants of RemoveExited: the shell's state is not looked at; the idempotency
\* entry stays.
RemoveExited_any_state(s) ==
    /\ s \in shells /\ ~Locked(s)
    /\ shells' = shells \ {s}
    /\ idempotency' = [uk \in DOMAIN idempotency |->
           IF idempotency[uk] = s THEN NoShell ELSE idempotency[uk]]
    /\ UNCHANGED <<owner, created, state, pty, exit, tokens, lastAttached, chan,
                   fed, sizes, process, waiting, reaper, now, idleSince>>
RemoveExited_keeps_key(s) ==
    /\ s \in shells /\ ~Locked(s) /\ state[s] = "Exited"
    /\ shells' = shells \ {s}
    /\ UNCHANGED <<idempotency, owner, created, state, pty, exit, tokens,
                   lastAttached, chan, fed, sizes, process, waiting, reaper,
                   now, idleSince>>

RemoveExited(s) ==
    /\ s \in shells /\ ~Locked(s) /\ state[s] = "Exited"
    /\ shells' = shells \ {s}
    /\ idempotency' = [uk \in DOMAIN idempotency |->
           IF idempotency[uk] = s THEN NoShell ELSE idempotency[uk]]
    /\ UNCHANGED <<owner, created, state, pty, exit, tokens, lastAttached, chan,
                   fed, sizes, process, waiting, reaper, now, idleSince>>
-----------------------------------------------------------------------------
(* reap_idle: scan, re-check each candidate, terminate it.                 *)

IdleAnchor(s) == IF lastAttached[s] > 0 THEN lastAttached[s] ELSE created[s]
Expired(s, cutoff) ==
    /\ state[s] = "Running"
    /\ Attachments(s) = {}
    /\ IdleAnchor(s) <= cutoff

reaperOnly == <<registry, state, pty, exit, tokens, lastAttached, chan, fed,
                sizes, process, waiting, now, idleSince>>

ReapScan ==
    /\ ReaperEnabled /\ reaper.pc = "idle" /\ NoneLocked
    /\ reaper' = [reaper EXCEPT !.pc = "pick", !.cutoff = now - IdleTtl,
           !.todo = {s \in shells : Expired(s, now - IdleTtl)}]
    /\ UNCHANGED reaperOnly

Condemn(s) == [reaper EXCEPT !.pc = "checked", !.cur = s,
                             !.mark = Len(chan[s])]
Skip(s)    == [reaper EXCEPT !.pc = "pick", !.todo = @ \ {s}, !.cur = NoShell]

\* Mutant of ReapRecheck: the scan's verdict is final.
ReapRecheck_trusting_scan(s) ==
    /\ reaper.pc = "pick" /\ s \in reaper.todo /\ ~Locked(s)
    /\ reaper' = Condemn(s)
    /\ UNCHANGED reaperOnly

ReapRecheck(s) ==
    /\ reaper.pc = "pick" /\ s \in reaper.todo /\ ~Locked(s)
    /\ reaper' = IF Expired(s, reaper.cutoff) THEN Condemn(s) ELSE Skip(s)
    /\ UNCHANGED reaperOnly

\* terminate() looks the shell up again; a recorded exit returns at once.
ReapTerminate ==
    LET s == reaper.cur IN
    /\ reaper.pc = "checked"
    /\ BeginTerminate(Reaper, s)
    /\ reaper' = IF waiting'[Reaper] = s
                 THEN [reaper EXCEPT !.pc = "killing"] ELSE Skip(s)

ReapGone ==
    LET s == reaper.cur IN
    /\ reaper.pc = "checked"
    /\ s \notin shells \/ exit[s]
    /\ reaper' = Skip(s)
    /\ UNCHANGED reaperOnly

ReapNext ==
    /\ reaper.pc = "killing"
    /\ EndTerminate(Reaper)
    /\ reaper' = Skip(reaper.cur)

ReapDone ==
    /\ reaper.pc = "pick" /\ reaper.todo = {}
    /\ reaper' = [reaper EXCEPT !.pc = "idle", !.cutoff = 0, !.mark = 0]
    /\ UNCHANGED reaperOnly
-----------------------------------------------------------------------------
(* The environment: the shell's processes and the clock.                   *)

ChildExits(s) ==
    /\ child[s]
    /\ child' = [child EXCEPT ![s] = FALSE]
    /\ UNCHANGED <<registry, state, pty, exit, tokens, lastAttached, chan, fed,
                   sizes, tty, waiting, reaper, now, idleSince>>

\* The last process holding the PTY slave lets it go; it need not be the
\* child, and the child may let go long before it exits.
TtyCloses(s) ==
    /\ tty[s]
    /\ tty' = [tty EXCEPT ![s] = FALSE]
    /\ UNCHANGED <<registry, state, pty, exit, tokens, lastAttached, chan, fed,
                   sizes, child, waiting, reaper, now, idleSince>>

Tick ==
    /\ now < MaxTime
    /\ now' = now + 1
    /\ UNCHANGED <<registry, state, pty, exit, tokens, lastAttached, chan, fed,
                   sizes, process, waiting, reaper, idleSince>>
-----------------------------------------------------------------------------
Dims == ReqDims \X ReqDims

Client ==
    \/ \E u \in Users, k \in Keys : OpenReused(u, k)
    \/ \E u \in Users, k \in Keys, s \in ShellIds, d \in Dims : OpenNew(u, k, s, d)
    \/ \E u \in Users, s \in ShellIds, t \in 1..MaxTokens, d \in Dims :
           Attach(u, s, t, d)
    \/ \E u \in Users, s \in ShellIds, d \in Dims : AttachAuthorized(u, s, d)
    \/ \E s \in ShellIds, a \in 1..MaxTokens : Detach(s, a)
    \/ \E s \in ShellIds, d \in Dims : Resize(s, d)
    \/ \E s \in ShellIds, a \in 1..MaxTokens : DropReceiver(s, a)
    \/ \E c \in Callers, s \in ShellIds : Terminate(c, s)
    \/ \E s \in ShellIds : RemoveExited(s)

Consumer == \E s \in ShellIds, a \in 1..MaxTokens :
                Recv(s, a) \/ RecvDisconnect(s, a)

Pump(s) == PumpChunk(s) \/ PumpEof(s) \/ PumpReaped(s)

Reap == ReapScan \/ (\E s \in ShellIds : ReapRecheck(s)) \/ ReapTerminate
        \/ ReapGone \/ ReapNext \/ ReapDone

Environment == (\E s \in ShellIds :
                    ChildExits(s) \/ TtyCloses(s) \/ PumpWaitFails(s)) \/ Tick

Next == \/ Client \/ Consumer \/ Reap \/ Environment
        \/ \E s \in ShellIds : Pump(s)
        \/ \E c \in Callers : TerminateReturns(c)

Spec == Init /\ [][Next]_vars

\* Threads the code runs without waiting for a client: pumps, forwarders,
\* callers inside terminate, and a reaper that has started a pass.
Fairness ==
    /\ \A s \in ShellIds : WF_vars(PumpEof(s)) /\ WF_vars(PumpReaped(s))
    /\ \A s \in ShellIds, a \in 1..MaxTokens :
           WF_vars(Recv(s, a) \/ RecvDisconnect(s, a))
    /\ \A c \in Callers : WF_vars(TerminateReturns(c))
    /\ WF_vars(Reap /\ reaper.pc # "idle")

FairSpec == Spec /\ Fairness
-----------------------------------------------------------------------------
(* Properties.                                                             *)

RegistryOK ==
    /\ shells \subseteq ShellIds
    /\ idempotency \in [Users \X Keys -> ShellIds \cup {NoShell}]
    /\ owner \in [ShellIds -> Users \cup {NoShell}]
RuntimeOK ==
    /\ state \in [ShellIds -> States]
    /\ pty \in [ShellIds -> BOOLEAN]
    /\ exit \in [ShellIds -> BOOLEAN]
TokensOK ==
    /\ token \in [ShellIds -> Nat]
    /\ superseded \in [ShellIds -> Seq(Nat)]
    /\ \A s \in ShellIds : Len(superseded[s]) <= SupersededHistory
StreamsOK ==
    /\ chan \in [ShellIds -> Seq(Channel)]
    /\ fed \in [ShellIds -> Nat]
SizesOK ==
    /\ ptySize \in [ShellIds -> Nat \X Nat]
    /\ modelSize \in [ShellIds -> Nat \X Nat]
ProcessOK ==
    /\ child \in [ShellIds -> BOOLEAN]
    /\ tty \in [ShellIds -> BOOLEAN]
ThreadsOK ==
    /\ waiting \in [Threads -> ShellIds \cup {NoShell}]
    /\ reaper \in [pc : {"idle", "pick", "checked", "killing"}, cutoff : Int,
                   todo : SUBSET ShellIds, cur : ShellIds \cup {NoShell},
                   mark : Nat]
ClocksOK ==
    /\ now \in Nat
    /\ created \in [ShellIds -> Nat]
    /\ lastAttached \in [ShellIds -> Nat]
    /\ idleSince \in [ShellIds -> Nat]

\* Every variable has the type its field has in the code, and the ring of
\* superseded tokens keeps within SUPERSEDED_TOKEN_HISTORY.
TypeOK ==
    /\ RegistryOK /\ RuntimeOK /\ TokensOK /\ StreamsOK
    /\ SizesOK /\ ProcessOK /\ ThreadsOK /\ ClocksOK

\* attach's verdict on every token a shell ever issued: the newest opens it,
\* each of the SupersededHistory tokens before it is recognised as a replay,
\* anything older is merely invalid (rotate_token's ring, attach's checks).
TokenJudgement ==
    \A s \in ShellIds : \A t \in 1..token[s] :
        Judge(s, t) = IF t = token[s] THEN "ok"
                      ELSE IF t + SupersededHistory >= token[s]
                           THEN "replayed" ELSE "invalid"

\* The idempotency map of open_shell and remove_exited: an entry names a
\* registered shell of the same owner, every registered shell is named by
\* exactly one (owner, key), so a repeated key never makes a second shell and
\* never reaches another user's.
IdempotencyExact ==
    /\ \A uk \in Users \X Keys : idempotency[uk] # NoShell =>
           idempotency[uk] \in shells /\ owner[idempotency[uk]] = uk[1]
    /\ \A uk, vl \in Users \X Keys :
           idempotency[uk] = idempotency[vl] /\ uk # vl
               => idempotency[uk] = NoShell
    /\ \A s \in shells : \E uk \in Users \X Keys : idempotency[uk] = s

\* The caps of open_shell and attach_runtime hold at all times, under every
\* interleaving with pumps, exits and the reaper.
CapsHold ==
    /\ Cardinality(Live) <= MaxShells
    /\ MaxShellsPerUser > 0 => \A u \in Users :
           Cardinality({s \in Live : owner[s] = u}) <= MaxShellsPerUser
    /\ \A s \in ShellIds :
           /\ Cardinality(Attachments(s)) <= MaxAttachments
           /\ \A a \in DOMAIN chan[s] : Len(chan[s][a].q) <= MaxQueued

\* A shell is Exited exactly when the pump has recorded its exit; then it has
\* no PTY and no attachment, so nothing can be sent after the Exited event.
ExitExact ==
    \A s \in ShellIds :
        /\ state[s] = "Exited" <=> exit[s]
        /\ exit[s] => ~pty[s] /\ Attachments(s) = {}
        /\ state[s] = "unborn" => ~pty[s] /\ chan[s] = <<>>

\* Does queue q end with Exited?  How many chunks does it hold?  Are they the
\* ones after chunk g, in order?
Final(q)  == q # <<>> /\ q[Len(q)] = Exited
Chunks(q) == IF Final(q) THEN Len(q) - 1 ELSE Len(q)
Run(q, g) == \A i \in 1..Chunks(q) : q[i] = g + i

\* Channel c of a shell that produced f chunks, and exited if e.
Continues(c, f, e) ==
    /\ c.snap <= c.got
    /\ c.got + Chunks(c.q) <= f
    /\ Run(c.q, c.got)
    /\ Final(c.q) => e /\ ~c.open
    /\ c.open \/ Final(c.q) => c.got + Chunks(c.q) = f
    /\ c.saw = "exited" => c.got = f /\ e /\ c.q = <<>> /\ ~c.open

\* Snapshot plus stream is the whole output: what an attachment has received
\* and has queued continues its snapshot without a gap or a repetition, an
\* open attachment is never behind the model, and Exited comes after the last
\* chunk (attach_runtime's snapshot under the lock, pump's try_send).
StreamExact ==
    \A s \in ShellIds : \A a \in DOMAIN chan[s] :
        Continues(chan[s][a], fed[s], exit[s])

\* PTY winsize and terminal model never disagree, and both respect the floor
\* (clamp_dims at every open, attach and resize).
SizesAgree ==
    \A s \in ShellIds : /\ ptySize[s] = modelSize[s]
                        /\ modelSize[s][1] >= MinDims[1]
                        /\ modelSize[s][2] >= MinDims[2]

\* A shell only moves forward: Running, Terminating, Exited; an exit is never
\* unrecorded and a PTY never comes back.
LifecycleForward ==
    [][\A s \in ShellIds :
           /\ state[s] = "Terminating" => state'[s] \in {"Terminating", "Exited"}
           /\ state[s] = "Exited" => state'[s] = "Exited"
           /\ exit[s] => exit'[s]
           /\ state[s] # "unborn" /\ ~pty[s] => ~pty'[s]]_vars

\* reap_idle: whoever is attached to a condemned shell when the kill comes
\* attached after the re-check; an attachment that was there is never killed.
ReapSparesAttached ==
    reaper.pc = "checked" =>
        \A a \in Attachments(reaper.cur) : a > reaper.mark

\* Once the child is gone and its terminal closed, the exit is recorded and
\* every consumer's stream ends (pump's EOF path, the forwarders).
EofReachesEveryone ==
    \A s \in ShellIds :
        (state[s] # "unborn" /\ ~child[s] /\ ~tty[s]) ~>
            (exit[s] /\ \A a \in DOMAIN chan[s] : ~chan[s][a].live)

\* terminate always answers: it kills before it waits, so the pump cannot hold
\* the mutex for ever against its ten-second timeout.
TerminateAnswers ==
    \A c \in Callers : waiting[c] # NoShell ~> waiting[c] = NoShell

=============================================================================

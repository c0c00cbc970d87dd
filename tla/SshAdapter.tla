------------------------------- MODULE SshAdapter -------------------------------
(***************************************************************************)
(* The loopback OpenSSH adapter (ssh-adapter/src/lib.rs): it accepts local *)
(* SSH connections and turns the one PTY shell channel of each into one    *)
(* Holdfast shell and attachment.  russh runs the handlers of a connection *)
(* one at a time and drops the handler when the connection ends; the       *)
(* bridge of the shell is a task of its own.                               *)
(***************************************************************************)
EXTENDS Naturals, Sequences, FiniteSets, SequencesExt

CONSTANTS
    SshConns,           \* the TCP connections that come
    LocalUsers,         \* those of local_user with an authorised key or password
    MaxConnections,     \* max_connections
    InputMessages,      \* INPUT_MESSAGES
    DefaultSize,        \* 80x24
    MaxDimension,       \* MAX_TERMINAL_DIMENSION
    SshSizes,           \* sizes the SSH client reports
    MaxMade,            \* bound: output chunks of a shell
    MaxTyped            \* bound: data packets of a client

VARIABLES
    permits,            \* what is left of the connection semaphore
    accepting,          \* whether the accept loop holds a permit
    ssh                 \* per connection, its handler, bridge and shell

sshVars == <<permits, accepting, ssh>>

NewConn ==
    [tcp |-> "none", authed |-> FALSE, pty |-> FALSE, opened |-> FALSE, started |-> FALSE,
     size |-> DefaultSize, watch |-> DefaultSize, remote |-> DefaultSize,
     cancel |-> FALSE, closed |-> FALSE, input |-> 0, typed |-> 0,
     bridge |-> "none", link |-> TRUE, attached |-> FALSE,
     shell |-> "none", shells |-> 0, made |-> 0, read |-> 0, told |-> <<>>]

SshInit ==
    /\ permits = MaxConnections /\ accepting = FALSE
    /\ ssh = [c \in SshConns |-> NewConn]

Updates(c, r) == ssh' = [ssh EXCEPT ![c] = r] /\ UNCHANGED <<permits, accepting>>

\* shell_request is awaited inside the session's loop.
Opening == {"connect", "open", "attach", "undo"}

\* The bridge's task runs.
Bridged(r) == r.bridge \in {"snapshot", "running"} /\ ~r.cancel

\* The loop of the session can run a handler.
Handles(c) == ssh[c].tcp = "up" /\ ssh[c].bridge \notin Opening

-----------------------------------------------------------------------------
(* serve_on *)

AcquirePermit ==
    /\ ~accepting /\ permits > 0
    /\ permits' = permits - 1 /\ accepting' = TRUE
    /\ UNCHANGED ssh

AcceptSsh(c) ==
    /\ accepting /\ ssh[c].tcp = "none"
    /\ ssh' = [ssh EXCEPT ![c].tcp = "up"]
    /\ accepting' = FALSE
    /\ UNCHANGED permits

DropHandler(r) == [r EXCEPT !.tcp = "gone", !.cancel = r.cancel \/ r.bridge # "none"]

\* The client's socket closed and no handler runs: the handler is dropped,
\* and the permit with the task.
SessionEnds(c) ==
    /\ ssh[c].tcp = "closing" /\ ssh[c].bridge \notin Opening
    /\ ssh' = [ssh EXCEPT ![c] = DropHandler(@)]
    /\ permits' = permits + 1
    /\ UNCHANGED accepting

-----------------------------------------------------------------------------
(* The handlers *)

auth_accepted(c) ==
    /\ Handles(c) /\ c \in LocalUsers /\ ~ssh[c].authed
    /\ Updates(c, [ssh[c] EXCEPT !.authed = TRUE])

channel_open_session(c) ==
    /\ Handles(c) /\ ssh[c].authed /\ ~ssh[c].opened
    /\ Updates(c, [ssh[c] EXCEPT !.opened = TRUE])

\* A zero size is OpenSSH without a terminal of its own.
pty_request(c, size) ==
    /\ Handles(c) /\ ssh[c].opened /\ ~ssh[c].started /\ size <= MaxDimension
    /\ Updates(c, [ssh[c] EXCEPT !.pty = TRUE, !.size = IF size = 0 THEN DefaultSize ELSE size])

\* One shell for the lifetime of the connection, whether it opens or not.
shell_request(c) ==
    /\ Handles(c) /\ ssh[c].pty /\ ~ssh[c].started
    /\ Updates(c, [ssh[c] EXCEPT !.started = TRUE, !.bridge = "connect"])

\* Input waits for room in the bridge's queue; without a bridge to take it
\* the channel is closed.
ssh_data(c) ==
    /\ Handles(c) /\ ssh[c].opened /\ ssh[c].typed < MaxTyped /\ ~ssh[c].closed
    /\ IF Bridged(ssh[c])
       THEN /\ ssh[c].input < InputMessages
            /\ Updates(c, [ssh[c] EXCEPT !.input = @ + 1, !.typed = @ + 1])
       ELSE Updates(c, [ssh[c] EXCEPT !.closed = TRUE])

\* watch::Sender keeps the newest size.
Publish(r, size) == [r EXCEPT !.size = size, !.watch = size]

window_change_request(c, size) ==
    /\ Handles(c) /\ ssh[c].opened /\ size \in 1..MaxDimension
    /\ Updates(c, IF Bridged(ssh[c]) THEN Publish(ssh[c], size)
                  ELSE [ssh[c] EXCEPT !.size = size])

channel_close(c) ==
    /\ Handles(c) /\ ssh[c].opened /\ ~ssh[c].cancel
    /\ Updates(c, [ssh[c] EXCEPT !.cancel = ssh[c].bridge # "none", !.closed = TRUE])

-----------------------------------------------------------------------------
(* open_remote *)

RemoteConnects(c) ==
    /\ ssh[c].bridge = "connect"
    /\ Updates(c, [ssh[c] EXCEPT !.bridge = IF ssh[c].link THEN "open" ELSE "done"])

\* The daemon opens the shell; a link lost before the answer leaves it there.
RemoteOpens(c) ==
    /\ ssh[c].bridge = "open"
    /\ \/ /\ ssh[c].link
          /\ Updates(c, [ssh[c] EXCEPT !.shell = "running", !.shells = @ + 1,
                                       !.bridge = "attach"])
       \/ /\ ~ssh[c].link
          /\ \E there \in {"none", "running"} :
                Updates(c, [ssh[c] EXCEPT !.shell = there, !.bridge = "done"])

\* The attachment starts with the size of the PTY request.
RemoteAttaches(c) ==
    /\ ssh[c].bridge = "attach"
    /\ \/ /\ ssh[c].link
          /\ Updates(c, [ssh[c] EXCEPT !.bridge = "snapshot", !.attached = TRUE,
                                       !.watch = ssh[c].size, !.remote = ssh[c].size])
       \/ Updates(c, [ssh[c] EXCEPT !.bridge = "undo"])

\* The bug of leaving the shell that could not be attached.
Undoes_not(r) == [r EXCEPT !.bridge = "done"]
Undoes(r) == [r EXCEPT !.bridge = "done", !.shell = IF r.link THEN "gone" ELSE @]

RemoteUndone(c) ==
    /\ ssh[c].bridge = "undo"
    /\ Updates(c, Undoes(ssh[c]))

-----------------------------------------------------------------------------
(* bridge_shell.  The select is biased: a cancellation before input, input   *)
(* before a resize, and output last.                                         *)

\* What the session still carries to the client.
Told(r, what) == [r EXCEPT !.told = IF r.tcp = "up" THEN @ \o what ELSE @]

Goodbye(status) == <<status, "eof", "close">>

BridgeStarts(c) ==
    /\ ssh[c].bridge = "snapshot"
    /\ Updates(c, IF ssh[c].tcp = "gone" THEN [ssh[c] EXCEPT !.bridge = "ending"]
                  ELSE [Told(ssh[c], <<"data">>) EXCEPT !.bridge = "running"])

BridgeCancels(c) ==
    /\ ssh[c].bridge = "running" /\ ssh[c].cancel
    /\ Updates(c, [ssh[c] EXCEPT !.bridge = "ending", !.input = 0])

\* The stream of a dropped attachment may still take a write.
WriteFails(r) == ~r.link \/ ~r.attached

BridgeTypes(c) ==
    /\ ssh[c].bridge = "running" /\ ~ssh[c].cancel /\ ssh[c].input > 0
    /\ \/ ssh[c].link /\ Updates(c, [ssh[c] EXCEPT !.input = @ - 1])
       \/ WriteFails(ssh[c]) /\ Updates(c, [ssh[c] EXCEPT !.bridge = "ending", !.input = 0])

BridgeResizes(c) ==
    /\ ssh[c].bridge = "running" /\ ~ssh[c].cancel /\ ssh[c].input = 0
    /\ ssh[c].watch # ssh[c].remote
    /\ \/ ssh[c].link /\ Updates(c, [ssh[c] EXCEPT !.remote = ssh[c].watch])
       \/ WriteFails(ssh[c]) /\ Updates(c, [ssh[c] EXCEPT !.bridge = "ending"])

ExitReady(r) == r.shell = "gone" /\ r.read = r.made

\* Output in order, then the exit; a lost attachment ends the loop.
BridgeReads(c) ==
    LET r == ssh[c] IN
    /\ r.bridge = "running" /\ ~r.cancel /\ r.input = 0 /\ r.watch = r.remote
    /\ \/ /\ r.link /\ r.attached /\ r.read < r.made
          /\ Updates(c, IF r.tcp = "gone" THEN [r EXCEPT !.bridge = "ending"]
                        ELSE [Told(r, <<"data">>) EXCEPT !.read = @ + 1])
       \/ /\ r.link /\ r.attached /\ ExitReady(r)
          /\ Updates(c, [Told(r, Goodbye("status")) EXCEPT !.bridge = "done"])
       \/ /\ ~r.link \/ ~r.attached
          /\ Updates(c, [r EXCEPT !.bridge = "ending"])

\* Every end but the shell's own terminates the shell, and says so.
BridgeEnds(c) ==
    /\ ssh[c].bridge = "ending"
    /\ Updates(c, [Told(ssh[c], Goodbye("failed")) EXCEPT
                      !.bridge = "done", !.shell = IF ssh[c].link THEN "gone" ELSE @])

-----------------------------------------------------------------------------
(* The SSH client, the daemon and the network *)

ClientLeaves(c) ==
    /\ ssh[c].tcp = "up"
    /\ Updates(c, [ssh[c] EXCEPT !.tcp = "closing"])

RemoteShellMoves(c) ==
    /\ ssh[c].shell = "running"
    /\ \/ ssh[c].made < MaxMade /\ Updates(c, [ssh[c] EXCEPT !.made = @ + 1])
       \/ Updates(c, [ssh[c] EXCEPT !.shell = "gone"])

\* ERR_TOO_SLOW and the like.
AttachmentDropped(c) ==
    /\ ssh[c].attached
    /\ Updates(c, [ssh[c] EXCEPT !.attached = FALSE])

LinkLost(c) ==
    /\ ssh[c].link /\ ssh[c].bridge \notin {"none", "done"}
    /\ Updates(c, [ssh[c] EXCEPT !.link = FALSE])

BridgeStep(c) ==
    \/ RemoteConnects(c) \/ RemoteOpens(c) \/ RemoteAttaches(c) \/ RemoteUndone(c)
    \/ BridgeStarts(c) \/ BridgeCancels(c) \/ BridgeTypes(c) \/ BridgeResizes(c)
    \/ BridgeReads(c) \/ BridgeEnds(c)

SshNext ==
    \/ AcquirePermit
    \/ \E c \in SshConns :
          \/ AcceptSsh(c) \/ SessionEnds(c)
          \/ auth_accepted(c) \/ channel_open_session(c) \/ shell_request(c) \/ channel_close(c)
          \/ ssh_data(c)
          \/ \E size \in SshSizes : pty_request(c, size) \/ window_change_request(c, size)
          \/ BridgeStep(c)
          \/ ClientLeaves(c) \/ RemoteShellMoves(c) \/ AttachmentDropped(c) \/ LinkLost(c)

SshSpec == SshInit /\ [][SshNext]_sshVars

-----------------------------------------------------------------------------
(* Properties *)

\* The shell ends with the SSH connection that owns it, at whatever point of
\* opening it the connection goes, unless the link to the daemon is lost
\* first (open_remote, bridge_shell, Drop of the handler).
ShellEndsWithConnection ==
    \A c \in LocalUsers :
        (ssh[c].tcp = "gone") ~> (ssh[c].shell # "running" \/ ~ssh[c].link)

=============================================================================

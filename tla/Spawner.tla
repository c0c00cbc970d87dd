------------------------------ MODULE Spawner ------------------------------
(***************************************************************************)
(* A shell launched across the privilege boundary: the daemon's            *)
(* spawn_shell and RemoteShell (crates/spawner/src/lib.rs), the process    *)
(* holdfast-spawner that systemd starts for the connection                 *)
(* (crates/spawner/src/bin/holdfast-spawner.rs), and what session-core     *)
(* makes of the pair: PtyProcess::adopt, terminate and the pump.           *)
(*                                                                         *)
(* One connection, one shell.  The process has two threads, the one that   *)
(* waits for the child and the one that waits for a kill.  Either side may *)
(* die at any step; the socket and the PTY master are closed with it.      *)
(***************************************************************************)
EXTENDS Naturals, Sequences

CONSTANTS
    Accounts,          \* account names
    AllowAccount,      \* --allow-account
    UidOf,             \* uid of an account that exists; its domain says which do
    MaxDeaths          \* bound: deaths of the daemon, of the helper

VARIABLES
    asked,             \* the account of the SpawnRequest
    shellState,        \* the daemon: "idle", "asking", "running", "refused", "dead"
    terminate,         \* terminate: "no", "calling" (wants the lock), "sent"
    pumpAt, exitSeen,  \* the pump; the exit it recorded
    helper,            \* the helper's main thread
    watcher,           \* watch_for_kill
    child, childAs,    \* the shell process; the account it runs as
    left,              \* it has closed its terminal and runs on
    master,            \* who holds the PTY master: subset of three places
    toHelper, toDaemon,\* the socket
    daemonEnd, helperEnd,  \* its two ends are open
    deaths

daemonVars == <<asked, shellState, terminate, pumpAt, exitSeen>>
helperVars == <<helper, watcher>>
childVars == <<child, childAs, left>>
socketVars == <<toHelper, toDaemon, daemonEnd, helperEnd>>
spawnVars == <<daemonVars, helperVars, childVars, master, socketVars, deaths>>

Nobody == "nobody"

SpawnInit ==
    /\ asked = Nobody /\ shellState = "idle" /\ terminate = "no"
    /\ pumpAt = "none" /\ exitSeen = "none"
    /\ helper = "idle" /\ watcher = "none"
    /\ child = "none" /\ childAs = Nobody /\ left = FALSE /\ master = {}
    /\ toHelper = <<>> /\ toDaemon = <<>> /\ daemonEnd = FALSE /\ helperEnd = FALSE
    /\ deaths = 0
-----------------------------------------------------------------------------
(* The daemon.                                                             *)

\* spawn_shell connects, which starts the helper, and sends its request.
AskShell(a) ==
    /\ shellState = "idle" /\ shellState' = "asking" /\ asked' = a
    /\ daemonEnd' = TRUE /\ helperEnd' = TRUE /\ toHelper' = <<"request">>
    /\ helper' = "started"
    /\ UNCHANGED <<terminate, pumpAt, exitSeen, watcher, childVars, master, toDaemon,
                   deaths>>

\* The reply.  An error, or the end of the connection, fails the open; the
\* socket is dropped.
ReplyCame ==
    /\ shellState = "asking"
    /\ \/ /\ toDaemon # <<>> /\ Head(toDaemon) = "spawned"
          /\ shellState' = "running" /\ pumpAt' = "reading"
          /\ master' = {"daemon"} /\ toDaemon' = Tail(toDaemon)
          /\ UNCHANGED daemonEnd
       \/ /\ IF toDaemon # <<>> THEN Head(toDaemon) = "error" ELSE ~helperEnd
          /\ shellState' = "refused" /\ daemonEnd' = FALSE /\ toDaemon' = <<>>
          /\ UNCHANGED <<pumpAt, master>>
    /\ UNCHANGED <<asked, terminate, exitSeen, helperVars, childVars, toHelper,
                   helperEnd, deaths>>

TerminateCalled ==
    /\ shellState = "running" /\ terminate = "no" /\ terminate' = "calling"
    /\ UNCHANGED <<asked, shellState, pumpAt, exitSeen, helperVars, childVars, master,
                   socketVars, deaths>>

\* terminate has the runtime's lock, which the pump keeps while it waits for
\* the exit.  A kill after the exit, and one that cannot be sent, is Ok.
SendKill ==
    /\ terminate = "calling" /\ shellState = "running" /\ pumpAt # "waiting"
    /\ terminate' = "sent"
    /\ toHelper' = IF exitSeen = "none" /\ helperEnd THEN Append(toHelper, "kill")
                   ELSE toHelper
    /\ UNCHANGED <<asked, shellState, pumpAt, exitSeen, helperVars, childVars, master,
                   toDaemon, daemonEnd, helperEnd, deaths>>

\* The reader thread's read fails once nobody has the terminal open.
PumpSeesEof ==
    /\ pumpAt = "reading" /\ (left \/ child \in {"zombie", "reaped"})
    /\ pumpAt' = "waiting"
    /\ UNCHANGED <<asked, shellState, terminate, exitSeen, helperVars, childVars,
                   master, socketVars, deaths>>

\* RemoteShell::wait: the exit message, or the end of the connection; then
\* the PtyProcess is dropped, and with it the master and the socket.
PumpWaits ==
    /\ pumpAt = "waiting" /\ pumpAt' = "done"
    /\ \/ toDaemon # <<>> /\ exitSeen' = "status"
       \/ toDaemon = <<>> /\ ~helperEnd /\ exitSeen' = "lost"
    /\ toDaemon' = <<>> /\ daemonEnd' = FALSE /\ master' = master \ {"daemon"}
    /\ UNCHANGED <<asked, shellState, terminate, helperVars, childVars, toHelper,
                   helperEnd, deaths>>

DaemonDies ==
    /\ deaths < MaxDeaths /\ deaths' = deaths + 1
    /\ shellState \in {"asking", "running"} /\ shellState' = "dead"
    /\ daemonEnd' = FALSE /\ toDaemon' = <<>> /\ master' = master \ {"daemon", "socket"}
    /\ pumpAt' = "none"
    /\ UNCHANGED <<asked, terminate, exitSeen, helperVars, childVars, toHelper,
                   helperEnd>>
-----------------------------------------------------------------------------
(* holdfast-spawner.                                                       *)

\* The account is in the list, exists, and is not root.
resolve_allowed_account(a) ==
    a \in AllowAccount /\ a \in DOMAIN UidOf /\ UidOf[a] # 0

\* The account's login shell runs on the slave of a new PTY.
spawn_shell ==
    /\ resolve_allowed_account(asked)
    /\ child' = "running" /\ childAs' = asked /\ master' = {"helper"}

\* The request: the shell is launched, or refused because the account is not
\* allowed or the PTY or the process cannot be made.
Launches ==
    /\ helper = "started" /\ toHelper # <<>> /\ toHelper' = Tail(toHelper)
    /\ \/ /\ spawn_shell
          /\ helper' = "launched" /\ UNCHANGED <<helperEnd, toDaemon>>
       \/ /\ helper' = "gone" /\ helperEnd' = FALSE
          /\ toDaemon' = IF daemonEnd THEN Append(toDaemon, "error") ELSE toDaemon
          /\ UNCHANGED <<child, childAs, master>>
    /\ UNCHANGED <<daemonVars, watcher, left, daemonEnd, deaths>>

\* Mutant of HandsOver: the failed send is ignored, and no thread watches.
HandsOver_regardless ==
    /\ helper = "launched"
    /\ toDaemon' = IF daemonEnd THEN Append(toDaemon, "spawned") ELSE toDaemon
    /\ master' = IF daemonEnd THEN {"socket"} ELSE {}
    /\ helper' = "waiting" /\ watcher' = IF daemonEnd THEN "reading" ELSE "done"
    /\ UNCHANGED <<daemonVars, childVars, toHelper, daemonEnd, helperEnd, deaths>>
\* The master goes to the daemon in the reply, and the control thread
\* starts; when it cannot be sent, the shell is killed and reaped.
HandsOver ==
    /\ helper = "launched"
    /\ IF daemonEnd
       THEN /\ toDaemon' = Append(toDaemon, "spawned") /\ master' = {"socket"}
            /\ helper' = "waiting" /\ watcher' = "reading"
            /\ UNCHANGED <<child, helperEnd>>
       ELSE /\ child' = "reaped" /\ helper' = "gone" /\ helperEnd' = FALSE
            /\ master' = {} /\ UNCHANGED <<toDaemon, watcher>>
    /\ UNCHANGED <<daemonVars, childAs, left, toHelper, daemonEnd, deaths>>

\* watch_for_kill: a kill message and the end of the connection are one.
WatchForKill ==
    /\ watcher = "reading"
    /\ \/ toHelper # <<>> /\ toHelper' = Tail(toHelper)
       \/ toHelper = <<>> /\ ~daemonEnd /\ UNCHANGED toHelper
    /\ watcher' = "killing"
    /\ UNCHANGED <<daemonVars, helper, childVars, master, toDaemon, daemonEnd,
                   helperEnd, deaths>>

\* signal_child, with SIGKILL.
SignalChild ==
    /\ watcher = "killing" /\ watcher' = "done"
    /\ child' = IF child = "running" THEN "zombie" ELSE child
    /\ UNCHANGED <<daemonVars, helper, childAs, left, master, socketVars, deaths>>

Reaps ==
    /\ helper = "waiting" /\ child = "zombie"
    /\ child' = "reaped" /\ helper' = "reaped"
    /\ UNCHANGED <<daemonVars, watcher, childAs, left, master, socketVars, deaths>>

\* The exit message; then the process ends, and with it the other thread.
Reports ==
    /\ helper = "reaped" /\ helper' = "reported"
    /\ toDaemon' = IF daemonEnd THEN Append(toDaemon, "exited") ELSE toDaemon
    /\ UNCHANGED <<daemonVars, watcher, childVars, master, toHelper, daemonEnd,
                   helperEnd, deaths>>
HelperEnds ==
    /\ helper = "reported" /\ helper' = "gone" /\ helperEnd' = FALSE
    /\ watcher' = "none" /\ UNCHANGED <<daemonVars, childVars, master, toHelper,
                                        toDaemon, daemonEnd, deaths>>

\* The helper is killed, and its unit's processes with it.
HelperDies ==
    /\ deaths < MaxDeaths /\ deaths' = deaths + 1
    /\ helper \in {"started", "launched", "waiting", "reaped"}
    /\ helper' = "gone" /\ helperEnd' = FALSE /\ watcher' = "none"
    /\ master' = master \ {"helper"}
    /\ child' = IF child = "none" THEN child ELSE "reaped"
    /\ UNCHANGED <<daemonVars, childAs, left, toHelper, toDaemon, daemonEnd>>
-----------------------------------------------------------------------------
(* The shell.                                                              *)

ChildExits ==
    /\ child = "running" /\ child' = "zombie"
    /\ UNCHANGED <<daemonVars, helperVars, childAs, left, master, socketVars, deaths>>
\* A program that closes its terminal and goes on.
LeavesTerminal ==
    /\ child = "running" /\ ~left /\ left' = TRUE
    /\ UNCHANGED <<daemonVars, helperVars, child, childAs, master, socketVars, deaths>>
-----------------------------------------------------------------------------
HelperStep == \/ Launches \/ HandsOver \/ WatchForKill \/ SignalChild \/ Reaps
              \/ Reports \/ HelperEnds
DaemonStep == ReplyCame \/ SendKill \/ PumpSeesEof \/ PumpWaits

SpawnNext ==
    \/ \E a \in Accounts : AskShell(a)
    \/ DaemonStep \/ TerminateCalled \/ DaemonDies
    \/ HelperStep \/ HelperDies \/ ChildExits \/ LeavesTerminal

SpawnSpec == SpawnInit /\ [][SpawnNext]_spawnVars
-----------------------------------------------------------------------------
\* Types; the PTY master is never in two places, and no account is run that
\* the helper would not allow by itself.
SpawnTypeOK ==
    /\ shellState \in {"idle", "asking", "running", "refused", "dead"}
    /\ helper \in {"idle", "started", "launched", "waiting", "reaped", "reported", "gone"}
    /\ (\A p, q \in master : p = q) /\ Len(toHelper) <= 2 /\ Len(toDaemon) <= 2
    /\ child # "none" => childAs \in AllowAccount /\ UidOf[childAs] # 0
    /\ helper = "reported" => child = "reaped"

\* An exit the daemon has recorded is true: the process is gone, although the
\* pump learns of it from the end of a terminal that a program may close, and
\* from a connection that either side may lose (RemoteShell::wait, lost).
ExitIsTrue == exitSeen # "none" => child \in {"zombie", "reaped"}

\* No orphans: a shell whose daemon has let go of the connection, at whatever
\* point of the exchange, does not go on running (watch_for_kill; the failed
\* hand-over).
NoOrphan == (child = "running" /\ ~daemonEnd) ~> (child # "running")

=============================================================================

---------------------------- MODULE ShellService ----------------------------
(***************************************************************************)
(* What the shell manager promises to clients, without its threads, locks  *)
(* and queues: idempotency keys name shells, a shell's newest token opens  *)
(* it and is then superseded, and a shell ends once.  SessionCore is shown *)
(* to implement this specification (SessionRefinement), and the clients'   *)
(* resume protocols are checked against it (DesktopResume, CliResume).     *)
(***************************************************************************)
EXTENDS Naturals

CONSTANTS
    Shells, NoShell,     \* shell ids, and no shell
    OpenKeys             \* pairs of an owner and an idempotency key

VARIABLES
    phase,               \* "none", "running", "ended" or "gone"
    byKey,               \* the shell an idempotency key names
    token                \* how many tokens were issued; the last one is valid

service == <<phase, byKey, token>>

Phases == {"none", "running", "ended", "gone"}

\* Shells the manager knows; the others answer ERR_NOT_FOUND.
Known == {s \in Shells : phase[s] \in {"running", "ended"}}

ServiceInit ==
    /\ phase = [s \in Shells |-> "none"]
    /\ byKey = [k \in OpenKeys |-> NoShell]
    /\ token = [s \in Shells |-> 0]

\* Mutant of Open: the key is not remembered.
Open_forgets_key(k, s) ==
    /\ byKey[k] \notin Known /\ phase[s] = "none"
    /\ phase' = [phase EXCEPT ![s] = "running"]
    /\ token' = [token EXCEPT ![s] = 1]
    /\ UNCHANGED byKey

\* OpenShell with a key that names no known shell makes one.
Open(k, s) ==
    /\ byKey[k] \notin Known /\ phase[s] = "none"
    /\ phase' = [phase EXCEPT ![s] = "running"]
    /\ byKey' = [byKey EXCEPT ![k] = s]
    /\ token' = [token EXCEPT ![s] = 1]

\* A repeated OpenShell returns the same shell, whatever its state, with a
\* fresh token.
Reopen(k) ==
    /\ byKey[k] \in Known
    /\ token' = [token EXCEPT ![byKey[k]] = @ + 1]
    /\ UNCHANGED <<phase, byKey>>

\* AttachShell: the newest token of a running shell, which it supersedes.
Attach(s, t) ==
    /\ phase[s] = "running" /\ t = token[s]
    /\ token' = [token EXCEPT ![s] = @ + 1]
    /\ UNCHANGED <<phase, byKey>>

\* The shell's process ends, or is being terminated.
End(s) ==
    /\ phase[s] = "running"
    /\ phase' = [phase EXCEPT ![s] = "ended"]
    /\ UNCHANGED <<byKey, token>>

\* An ended shell is removed together with its key.
Retire(s) ==
    /\ phase[s] = "ended"
    /\ phase' = [phase EXCEPT ![s] = "gone"]
    /\ byKey' = [k \in OpenKeys |-> IF byKey[k] = s THEN NoShell ELSE byKey[k]]
    /\ UNCHANGED token

ServiceNext ==
    \/ \E k \in OpenKeys, s \in Shells : Open(k, s)
    \/ \E k \in OpenKeys : Reopen(k)
    \/ \E s \in Shells : Attach(s, token[s]) \/ End(s) \/ Retire(s)

ServiceSpec == ServiceInit /\ [][ServiceNext]_service
=============================================================================

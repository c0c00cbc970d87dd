----------------------------- MODULE DesktopLogin ------------------------------
(***************************************************************************)
(* How the desktop client reaches and logs in to one server: the outer     *)
(* loop of client-core/src/server.rs run_supervisor, connect_and_auth, and *)
(* the authentication exchange of native-client/src/lib.rs, with the       *)
(* commands the window queues meanwhile.  A server record logs in with an  *)
(* SSH key (possibly one that needs a touch), with a password the user     *)
(* types, or with neither (a loopback daemon in development).              *)
(***************************************************************************)
EXTENDS Naturals, Sequences

CONSTANTS
    LoginKinds,     \* the ways this run's records log in
    MaxCommands,    \* bound: commands the window sends
    MaxLogins,      \* bound: logins the user tries
    MaxOutages      \* bound: lost networks and expired grants

VARIABLES
    method,         \* username and ssh_key_path of the record
    grant,          \* the stored grant: none, good, or stale to the daemon
    netUp,          \* whether the daemon can be reached
    supervisor,     \* where run_supervisor is
    password,       \* the one-shot password waiting for the next attempt
    usedPassword,           \* the password of the attempt under way
    commands,       \* the command channel
    closed,         \* whether the Core dropped the server
    rejected,       \* history: rejections by the daemon since the last user action
    issued, logins, outages

loginVars == <<method, grant, netUp, supervisor, password, usedPassword, commands, closed,
               rejected, issued, logins, outages>>

Passwords == {"right", "wrong"}
Waiting == {"locked", "login"}      \* the two loops behind AuthRequired

LoginInit ==
    /\ method \in LoginKinds
    /\ grant = "none" /\ netUp = TRUE /\ supervisor = "outer"
    /\ password = "none" /\ usedPassword = "none"
    /\ commands = <<>> /\ closed = FALSE
    /\ rejected = 0
    /\ issued = 0 /\ logins = 0 /\ outages = 0

Environment == <<method, netUp, commands, closed, issued, logins, outages>>

-----------------------------------------------------------------------------
(* One attempt *)

\* The bug of keeping the password for later attempts.
Attempts_keeps ==
    /\ supervisor = "outer"
    /\ usedPassword' = password /\ password' = password
    /\ supervisor' = IF grant = "none" THEN "full" ELSE "grant"
    /\ UNCHANGED <<Environment, grant, rejected>>

\* password.take(): the attempt owns the password.
Attempts ==
    /\ supervisor = "outer"
    /\ usedPassword' = password /\ password' = "none"
    /\ supervisor' = IF grant = "none" THEN "full" ELSE "grant"
    /\ UNCHANGED <<Environment, grant, rejected>>

\* A URL that dials: a control channel with the daemon's hello, or an error
\* of the transport.
connect_with == netUp

Connects ==
    /\ supervisor' = "connected" /\ grant' = "good" /\ usedPassword' = "none"
    /\ rejected' = 0

\* Where an error of connect_and_auth leads: a judged SSH failure and a
\* password attempt wait for the user, anything else backs off.
AfterFailure(error) ==
    IF error = "ssh" THEN "locked"
    ELSE IF usedPassword # "none" \/ error = "password required" THEN "login"
    ELSE "backoff"

Fails(error, judged) ==
    /\ supervisor' = AfterFailure(error) /\ usedPassword' = "none"
    /\ rejected' = rejected + judged
    /\ UNCHANGED grant

\* An answer that is not ok.
ensure_ok_fails(error) == Fails(error, 1)

\* Any failure of the stored grant, a lost network included, falls through.
TriesGrant ==
    /\ supervisor = "grant"
    /\ IF connect_with /\ grant = "good" THEN Connects
       ELSE supervisor' = "full" /\ UNCHANGED <<grant, usedPassword, rejected>>
    /\ UNCHANGED <<Environment, password>>

TriesDev ==
    /\ supervisor = "full" /\ method = "dev"
    /\ IF connect_with THEN Connects ELSE Fails("transport", 0)
    /\ UNCHANGED <<Environment, password>>

TriesPassword ==
    /\ supervisor = "full" /\ method = "password"
    /\ IF usedPassword = "none" THEN Fails("password required", 0)
       ELSE IF ~connect_with THEN Fails("transport", 0)
       ELSE IF usedPassword = "right" THEN Connects ELSE ensure_ok_fails("rejected")
    /\ UNCHANGED <<Environment, password>>

\* The file is missing, too large or no key, or the key has a passphrase: the
\* daemon is not asked.
read_private_key_fails == Fails("ssh", 0)

\* The key is read and offered; an unusable key or one that is not authorised
\* is an SSH failure, otherwise the challenge is there to sign.
OffersKey ==
    /\ supervisor = "full" /\ method = "key"
    /\ IF ~connect_with THEN Fails("transport", 0)
       ELSE \/ read_private_key_fails \/ ensure_ok_fails("ssh")
            \/ supervisor' = "signing" /\ UNCHANGED <<grant, usedPassword, rejected>>
    /\ UNCHANGED <<Environment, password>>

\* ssh-keygen is not there, or the key was not touched in time.
sign_with_ssh_keygen_fails == Fails("ssh", 0)

SignsChallenge ==
    /\ supervisor = "signing"
    /\ \/ sign_with_ssh_keygen_fails
       \/ /\ supervisor' = "proving"
          /\ UNCHANGED <<grant, usedPassword, rejected>>
    /\ UNCHANGED <<Environment, password>>

ProvesPossession ==
    /\ supervisor = "proving"
    /\ IF ~netUp THEN Fails("transport", 0)
       ELSE Connects \/ ensure_ok_fails("ssh")
    /\ UNCHANGED <<Environment, password>>

\* The back-off ends in another attempt unless the Core is gone.
BacksOff ==
    /\ supervisor = "backoff"
    /\ supervisor' = IF closed THEN "gone" ELSE "outer"
    /\ UNCHANGED <<Environment, grant, password, usedPassword, rejected>>

-----------------------------------------------------------------------------
(* Waiting for the user, and being connected *)

\* In the AuthRequired loops a login starts the next attempt (with its
\* password, unless a key is what failed) and every other command is refused.
TakesWhileWaiting ==
    /\ supervisor \in Waiting /\ commands # <<>>
    /\ commands' = Tail(commands)
    /\ IF Head(commands) \in Passwords
       THEN /\ supervisor' = "outer" /\ rejected' = 0
            /\ password' = IF supervisor = "login" THEN Head(commands) ELSE password
       ELSE UNCHANGED <<supervisor, rejected, password>>
    /\ UNCHANGED <<method, netUp, closed, issued, logins, outages, grant, usedPassword>>

\* Connected, commands are handled; a stray login is ignored.
TakesCommand ==
    /\ supervisor = "connected" /\ commands # <<>>
    /\ commands' = Tail(commands)
    /\ UNCHANGED <<method, netUp, closed, issued, logins, outages, grant, supervisor, password,
                   usedPassword, rejected>>

Stops ==
    /\ supervisor \in Waiting \cup {"connected"} /\ closed /\ commands = <<>>
    /\ supervisor' = "gone"
    /\ UNCHANGED <<Environment, grant, password, usedPassword, rejected>>

\* The control channel dies: keepalive, a failed list_shells or a closed link.
LosesControl ==
    /\ supervisor = "connected" /\ ~netUp
    /\ supervisor' = "outer"
    /\ UNCHANGED <<Environment, grant, password, usedPassword, rejected>>

-----------------------------------------------------------------------------
(* The window, the network and the daemon *)

WindowCalls ==
    /\ ~closed /\ issued < MaxCommands
    /\ issued' = issued + 1 /\ commands' = Append(commands, "call")
    /\ UNCHANGED <<method, netUp, closed, logins, outages, grant, supervisor, password, usedPassword,
                   rejected>>

LogsIn(p) ==
    /\ ~closed /\ supervisor \in Waiting /\ logins < MaxLogins
    /\ logins' = logins + 1 /\ commands' = Append(commands, p)
    /\ UNCHANGED <<method, netUp, closed, issued, outages, grant, supervisor, password, usedPassword,
                   rejected>>

Removes ==
    /\ ~closed
    /\ closed' = TRUE
    /\ UNCHANGED <<method, netUp, commands, issued, logins, outages, grant, supervisor, password,
                   usedPassword, rejected>>

NetworkFails ==
    /\ netUp /\ outages < MaxOutages
    /\ netUp' = FALSE /\ outages' = outages + 1
    /\ UNCHANGED <<method, commands, closed, issued, logins, grant, supervisor, password, usedPassword,
                   rejected>>

NetworkReturns ==
    /\ ~netUp
    /\ netUp' = TRUE
    /\ UNCHANGED <<method, commands, closed, issued, logins, outages, grant, supervisor, password,
                   usedPassword, rejected>>

GrantExpires ==
    /\ grant = "good" /\ outages < MaxOutages
    /\ grant' = "stale" /\ outages' = outages + 1
    /\ UNCHANGED <<method, netUp, commands, closed, issued, logins, supervisor, password, usedPassword,
                   rejected>>

SupervisorStep ==
    \/ Attempts \/ TriesGrant \/ TriesDev \/ TriesPassword
    \/ OffersKey \/ SignsChallenge \/ ProvesPossession
    \/ BacksOff \/ TakesWhileWaiting \/ TakesCommand \/ Stops \/ LosesControl

LoginNext ==
    \/ SupervisorStep
    \/ WindowCalls \/ Removes \/ \E p \in Passwords : LogsIn(p)
    \/ NetworkFails \/ NetworkReturns \/ GrantExpires

LoginSpec == LoginInit /\ [][LoginNext]_loginVars

-----------------------------------------------------------------------------
(* Properties *)

\* A password lives for one attempt: it is held from the login to the attempt
\* and by nothing afterwards, whatever way the attempt ends (run_supervisor
\* `password', password.take()).
PasswordForOneAttempt ==
    /\ password # "none" => (supervisor = "outer" /\ method = "password")
    /\ usedPassword # "none" => supervisor \in {"grant", "full"}

\* The daemon judges at most one key or password between two actions of the
\* user, so the supervisor's own retries never run into its rate limiter
\* (run_supervisor's AuthRequired loops; Authentication has the limiter).
JudgedOnce == rejected <= 1
=============================================================================

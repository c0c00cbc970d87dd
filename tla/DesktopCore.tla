----------------------------- MODULE DesktopCore -----------------------------
(***************************************************************************)
(* The desktop's servers across runs of the process: the state file with   *)
(* its migration and import (client-core/src/store.rs), the Core that      *)
(* starts and drops a supervisor per server (client-core/src/lib.rs), and  *)
(* the part of each supervisor that reads and writes a server's record     *)
(* (client-core/src/server.rs).  A record is kept down to what consent is  *)
(* about: whether the login is remembered, and the grant, known by the run *)
(* of the process that obtained it.  DesktopResume has a record's shells,  *)
(* DesktopLogin the ways of one login.                                     *)
(***************************************************************************)
EXTENDS Naturals, FiniteSets

CONSTANTS
    ServerKeys,          \* new_server_key: random, so never drawn twice
    MaxRuns,             \* bound: runs of the process, the one before included
    MaxSaveFaults        \* bound: saves that fail

VARIABLES
    disk,                \* desktop.json: its schema version and its servers
    cliServers,          \* how many servers the CLI's state file has
    core,                \* "down", "importing", "starting" or "running"
    memory,              \* StoreData.servers
    starting,            \* servers start_supervisor is still to be called for
    handles,             \* CoreInner.servers: where the command sender lives
    dropping,            \* remove_server calls between their two halves
    supervisors,         \* where each server's run_supervisor is
    offered,             \* the grant in the record connect_and_auth has cloned
    run, minted, saveFaults,
    agreed, agreedAtStart,  \* history: whose login the user lets be remembered
    removed                 \* history: servers whose removal was answered Ok

storeVars == <<disk, memory, saveFaults>>
taskVars  == <<handles, supervisors, offered>>
consents  == <<agreed, agreedAtStart, removed>>
coreVars  == <<storeVars, taskVars, consents, cliServers, core, starting, dropping, run, minted>>

NoGrant == 0
Empty   == [k \in {} |-> NoGrant]
Record(remember, grant) == [remember |-> remember, grant |-> grant]

\* What an earlier run may have left: nothing, a file of this schema (whose
\* grants are those of remembered logins), of an older one (which never asked),
\* of a newer one, or one that does not parse.
Leftovers ==
    LET first == CHOOSE k \in ServerKeys : TRUE
    IN  {[version |-> "absent", servers |-> Empty]}
        \cup [version : {"older", "newer", "invalid"},
              servers : [{first} -> {Record(FALSE, 1), Record(TRUE, 1)}]]
        \cup [version : {"current"},
              servers : [{first} -> {Record(FALSE, NoGrant), Record(TRUE, 1)}]]

CoreInit ==
    /\ disk \in Leftovers /\ cliServers \in {0, 1}
    /\ core = "down" /\ memory = Empty /\ starting = {} /\ dropping = {}
    /\ handles = {} /\ supervisors = [k \in ServerKeys |-> "none"]
    /\ offered = [k \in ServerKeys |-> NoGrant]
    /\ run = 1 /\ minted = DOMAIN disk.servers /\ saveFaults = 0
    /\ agreed = {k \in DOMAIN disk.servers : disk.version = "current" /\ disk.servers[k].remember}
    /\ agreedAtStart = {} /\ removed = {}
-----------------------------------------------------------------------------
(* The store: each mutation is saved under the lock before it is kept *)

\* save: grants of logins that are not remembered stay out of the file.
Persisted(servers) ==
    [k \in DOMAIN servers |-> IF servers[k].remember THEN servers[k]
                              ELSE Record(FALSE, NoGrant)]

\* save to a temporary file, synced and renamed over the old one: the new file
\* and then the new memory, or an error and neither.
Saves(next) ==
    /\ disk' = [version |-> "current", servers |-> Persisted(next)]
    /\ memory' = next /\ UNCHANGED saveFaults

SaveFails ==
    /\ saveFaults < MaxSaveFaults /\ saveFaults' = saveFaults + 1
    /\ UNCHANGED <<disk, memory>>

\* Mutant of Loaded: an older file is read like one of this version.
Loaded_alike(file) == Persisted(file.servers)

\* load: an older version never asked, so its logins are not remembered.
Loaded(file) ==
    [k \in DOMAIN file.servers |->
        IF file.version = "current" /\ file.servers[k].remember THEN file.servers[k]
        ELSE Record(FALSE, NoGrant)]

\* A server's record; a closure of mutate_server starts from it.
Of(k) == IF k \in DOMAIN memory THEN memory[k] ELSE Record(FALSE, NoGrant)

\* mutate_server: an unknown server is an error.
mutate_server(k, r) == k \in DOMAIN memory /\ Saves([memory EXCEPT ![k] = r])
-----------------------------------------------------------------------------
(* Starting: load, migrate, import, one supervisor per server *)

Idle == UNCHANGED <<cliServers, starting, dropping, minted, taskVars, removed>>

\* A file of a newer version, or one that does not parse, is left alone.
LoadRefuses ==
    /\ core = "down" /\ run < MaxRuns /\ disk.version \in {"newer", "invalid"}
    /\ run' = run + 1
    /\ Idle /\ UNCHANGED <<core, storeVars, agreed, agreedAtStart>>

\* An older file is replaced before any supervisor can authenticate; if that
\* fails the Core does not start.
Load ==
    /\ core = "down" /\ run < MaxRuns /\ disk.version \in {"absent", "current", "older"}
    /\ run' = run + 1 /\ agreedAtStart' = agreed
    /\ \/ /\ core' = "importing"
          /\ IF disk.version = "older" THEN Saves(Loaded(disk))
             ELSE memory' = Loaded(disk) /\ UNCHANGED <<disk, saveFaults>>
       \/ disk.version = "older" /\ SaveFails /\ UNCHANGED core
    /\ Idle /\ UNCHANGED agreed

\* import_v1: the CLI's servers, if there are none yet; its grants are not
\* taken over, and a failure is ignored.
Imports ==
    /\ core = "importing" /\ core' = "starting"
    /\ \/ /\ DOMAIN memory = {} /\ cliServers > 0
          /\ \E new \in SUBSET (ServerKeys \ minted) :
                /\ Cardinality(new) = cliServers
                /\ Saves([k \in new |-> Record(FALSE, NoGrant)])
                /\ minted' = minted \cup new /\ starting' = new
       \/ /\ DOMAIN memory = {} /\ cliServers > 0 /\ SaveFails
          /\ UNCHANGED <<minted, starting>>
       \/ /\ DOMAIN memory # {} \/ cliServers = 0
          /\ starting' = DOMAIN memory /\ UNCHANGED <<storeVars, minted>>
    /\ UNCHANGED <<cliServers, dropping, run, taskVars, consents>>

\* start_supervisor: the task, and the handle that holds its command sender.
start_supervisor(k) ==
    /\ k \in starting /\ starting' = starting \ {k}
    /\ supervisors' = [supervisors EXCEPT ![k] = "outer"]
    /\ handles' = handles \cup {k}
    /\ UNCHANGED <<storeVars, consents, cliServers, core, dropping, run, minted, offered>>

Spawned ==
    /\ core = "starting" /\ starting = {} /\ core' = "running"
    /\ UNCHANGED <<storeVars, taskVars, consents, cliServers, starting, dropping, run, minted>>

\* The process ends, killed or not: only the file is left.
ProcessEnds ==
    /\ core # "down" /\ core' = "down"
    /\ memory' = Empty /\ starting' = {} /\ handles' = {} /\ dropping' = {}
    /\ supervisors' = [k \in ServerKeys |-> "none"]
    /\ offered' = [k \in ServerKeys |-> NoGrant]
    /\ UNCHANGED <<disk, saveFaults, consents, cliServers, run, minted>>
-----------------------------------------------------------------------------
(* The window's commands *)

Agrees(k, remember) == agreed' = IF remember THEN agreed \cup {k} ELSE agreed \ {k}

\* add_server: saved first, supervised afterwards.
add_server(k, remember) ==
    /\ core = "running" /\ k \notin minted /\ minted' = minted \cup {k}
    /\ \/ /\ Saves([j \in DOMAIN memory \cup {k} |->
                        IF j = k THEN Record(remember, NoGrant) ELSE memory[j]])
          /\ starting' = starting \cup {k} /\ Agrees(k, remember)
       \/ SaveFails /\ UNCHANGED <<starting, agreed>>
    /\ UNCHANGED <<taskVars, cliServers, core, dropping, run, agreedAtStart, removed>>

set_remember_login(k, remember) ==
    /\ core = "running" /\ k \in DOMAIN memory
    /\ \/ mutate_server(k, Record(remember, memory[k].grant)) /\ Agrees(k, remember)
       \/ SaveFails /\ UNCHANGED agreed
    /\ UNCHANGED <<taskVars, cliServers, core, starting, dropping, run, minted, agreedAtStart,
                   removed>>

\* remove_server: the handle goes, and with it the supervisor's commands; ...
DropsHandle(k) ==
    /\ core = "running" /\ k \in DOMAIN memory /\ k \notin dropping
    /\ handles' = handles \ {k} /\ dropping' = dropping \cup {k}
    /\ UNCHANGED <<storeVars, consents, cliServers, core, starting, run, minted, supervisors,
                   offered>>

\* ... then its record, unless the file cannot be written.
DropsRecord(k) ==
    /\ k \in dropping /\ dropping' = dropping \ {k}
    /\ \/ /\ Saves([j \in DOMAIN memory \ {k} |-> memory[j]])
          /\ removed' = removed \cup {k} /\ agreed' = agreed \ {k}
       \/ SaveFails /\ UNCHANGED <<removed, agreed>>
    /\ UNCHANGED <<cliServers, core, starting, run, minted, handles, supervisors, offered,
                   agreedAtStart>>
-----------------------------------------------------------------------------
(* A supervisor, as far as it reads and writes its record *)

Goes(k, from, to) ==
    supervisors[k] = from /\ supervisors' = [supervisors EXCEPT ![k] = to]

Unstored == UNCHANGED <<storeVars, consents, cliServers, core, starting, dropping, run, minted,
                        handles>>

\* An attempt begins, and connect_and_auth clones the record; a server that is
\* gone from the store is an error like any other.
ReadsRecord(k) ==
    /\ IF k \in DOMAIN memory
       THEN /\ Goes(k, "outer", IF memory[k].grant = NoGrant THEN "full" ELSE "grant")
            /\ offered' = [offered EXCEPT ![k] = memory[k].grant]
       ELSE Goes(k, "outer", "failed") /\ UNCHANGED offered
    /\ Unstored

\* The grant is accepted, or the full login is next.
OffersGrant(k) ==
    /\ \E to \in {"accepted", "full"} : Goes(k, "grant", to)
    /\ offered' = [offered EXCEPT ![k] = NoGrant]
    /\ Unstored

\* Key or password: accepted, refused (the user is asked) or unreachable.
LogsInFully(k) ==
    /\ \E to \in {"accepted", "waiting", "failed"} : Goes(k, "full", to)
    /\ UNCHANGED offered /\ Unstored

\* The daemon's grant, if it sent one, is stored; a failure only warns.  The
\* next list_shells may fail, which is a lost connection.
StoresGrant(k) ==
    /\ \E to \in {"connected", "outer"} : Goes(k, "accepted", to)
    /\ \/ \E g \in {run, Of(k).grant} : mutate_server(k, Record(Of(k).remember, g))
       \/ k \in DOMAIN memory /\ SaveFails
       \/ k \notin DOMAIN memory /\ UNCHANGED storeVars
    /\ UNCHANGED <<consents, cliServers, core, starting, dropping, run, minted, handles, offered>>

\* After a failed attempt the supervisor of a dropped server stops, any other
\* tries again; a lost connection and a login start another attempt.
Retries(k) ==
    /\ \/ Goes(k, "failed", IF k \in handles THEN "outer" ELSE "gone")
       \/ Goes(k, "connected", "outer")
       \/ k \in handles /\ Goes(k, "waiting", "outer")
    /\ UNCHANGED offered /\ Unstored

\* Waiting for a command, the supervisor of a dropped server returns.
SupervisorReturns(k) ==
    /\ k \notin handles /\ (Goes(k, "waiting", "gone") \/ Goes(k, "connected", "gone"))
    /\ UNCHANGED offered /\ Unstored

CoreNext ==
    \/ LoadRefuses \/ Load \/ Imports \/ Spawned \/ ProcessEnds
    \/ \E k \in ServerKeys, remember \in BOOLEAN :
          add_server(k, remember) \/ set_remember_login(k, remember)
    \/ \E k \in ServerKeys :
          \/ start_supervisor(k) \/ DropsHandle(k) \/ DropsRecord(k)
          \/ ReadsRecord(k) \/ OffersGrant(k) \/ LogsInFully(k) \/ StoresGrant(k)
          \/ Retries(k) \/ SupervisorReturns(k)

CoreSpec == CoreInit /\ [][CoreNext]_coreVars
-----------------------------------------------------------------------------
(* Properties *)

\* "Explicit consent to retain a login across app restarts" (store.rs): the
\* file holds a grant only of a server whose login the user agreed to have
\* remembered, and a grant of an earlier run reaches a supervisor only if that
\* was agreed when this run began, whatever saves fail, whichever version wrote
\* the file and whenever the process ends.
GrantsNeedConsent ==
    /\ disk.version = "current" =>
           \A k \in DOMAIN disk.servers : disk.servers[k].grant # NoGrant => k \in agreed
    /\ \A k \in DOMAIN memory : memory[k].grant \notin {NoGrant, run} => k \in agreedAtStart
    /\ \A k \in ServerKeys : offered[k] \notin {NoGrant, run} => k \in agreedAtStart

\* A server that was removed stays removed: its supervisor, which may be about
\* to store a grant or to try again, brings its record back neither in memory
\* nor in the file (mutate_server).
RemovedStaysRemoved ==
    \A k \in removed : k \notin DOMAIN memory /\ k \notin DOMAIN disk.servers
=============================================================================

--------------------------- MODULE DesktopProofs ----------------------------
(***************************************************************************)
(* What the desktop keeps, for any servers, shells, keys and faults: its   *)
(* logins and passwords, and the shells it holds.                          *)
(*                                                                         *)
(* GrantsNeedConsent is about grants; what carries it from one step to the *)
(* next is about the mark that a login is remembered: it is in memory and  *)
(* in the file only for logins the user agreed to (ConsentInv).            *)
(*                                                                         *)
(* NoSilentOrphan speaks of shells that run; what carries it is about the  *)
(* requests that may still start one, on the wire or late, and about the   *)
(* replies that let a key go (ResumeInv).                                  *)
(***************************************************************************)
EXTENDS DesktopCore, DesktopLogin, DesktopResume, TLAPS
-----------------------------------------------------------------------------
(* Consent to remember a login.                                            *)

\* A table of servers whose remembered logins, and grants that are neither
\* absent nor of run r, are agreed to in a and in b.
Marked(servers, a) == \A k \in DOMAIN servers : servers[k].remember => k \in a
Inherits(servers, r, b) ==
    \A k \in DOMAIN servers : servers[k].grant \notin {NoGrant, r} => k \in b
\* In a file no grant is kept without the mark.
Kept(servers) == \A k \in DOMAIN servers : servers[k].grant # NoGrant => servers[k].remember

ConsentInv ==
    /\ disk.version = "current" => Marked(disk.servers, agreed) /\ Kept(disk.servers)
    /\ Marked(memory, agreed) /\ Inherits(memory, run, agreedAtStart)
    /\ DOMAIN offered = ServerKeys
    /\ \A k \in ServerKeys : offered[k] \notin {NoGrant, run} => k \in agreedAtStart
    /\ core = "down" => DOMAIN memory = {} /\ \A k \in ServerKeys : offered[k] = NoGrant

\* What a save writes.
LEMMA SavesAgreed ==
    ASSUME NEW next, NEW a, Marked(next, a), Saves(next)
    PROVE  /\ disk'.version = "current" /\ Marked(disk'.servers, a) /\ Kept(disk'.servers)
           /\ memory' = next
<1>1. disk' = [version |-> "current", servers |-> Persisted(next)] /\ memory' = next
    BY Zenon DEF Saves
<1>2. disk'.version = "current" /\ disk'.servers = Persisted(next)
    BY Zenon, <1>1
<1>3. Marked(Persisted(next), a) /\ Kept(Persisted(next))
    BY Zenon DEF Persisted, Marked, Kept, Record, NoGrant
<1> QED BY Zenon, <1>1, <1>2, <1>3

\* What is loaded: nothing from an older file, and from this version's file
\* what was agreed when the run begins.
LEMMA LoadedAgreed ==
    ASSUME ConsentInv, NEW r
    PROVE  Marked(Loaded(disk), agreed) /\ Inherits(Loaded(disk), r, agreed)
<1>1. CASE disk.version = "current"
    BY Zenon, <1>1 DEF ConsentInv, Loaded, Marked, Inherits, Kept, Record, NoGrant
<1>2. CASE disk.version # "current"
    BY Zenon, <1>2 DEF Loaded, Marked, Inherits, Record, NoGrant
<1> QED BY Zenon, <1>1, <1>2

\* Nothing is remembered without consent at the start.
LEMMA ConsentInit == CoreInit => ConsentInv
<1> SUFFICES ASSUME CoreInit PROVE ConsentInv
    BY Zenon
<1>1. DOMAIN memory = {} /\ offered = [k \in ServerKeys |-> NoGrant]
    BY Zenon DEF CoreInit, Empty
<1>2. ASSUME disk.version = "current"
      PROVE  Marked(disk.servers, agreed) /\ Kept(disk.servers)
    <2>1. agreed = {k \in DOMAIN disk.servers : disk.version = "current" /\ disk.servers[k].remember}
        BY Zenon DEF CoreInit
    <2>2. Kept(disk.servers)
        <3> DEFINE first == CHOOSE k \in ServerKeys : TRUE
        <3>1. disk.servers \in [{first} -> {Record(FALSE, NoGrant), Record(TRUE, 1)}]
            <4> DEFINE none  == [version |-> "absent", servers |-> Empty]
                       other == [version : {"older", "newer", "invalid"},
                                 servers : [{first} -> {Record(FALSE, 1), Record(TRUE, 1)}]]
                       ours  == [version : {"current"},
                                 servers : [{first} -> {Record(FALSE, NoGrant), Record(TRUE, 1)}]]
            <4>1. disk \in {none} \cup other \cup ours
                BY ZenonT(20) DEF CoreInit, Leftovers
            <4>2. disk # none /\ disk \notin other
                <5>1. none.version # "current"
                    BY Zenon
                <5>2. \A d \in other : d.version \in {"older", "newer", "invalid"}
                    BY Zenon
                <5> QED BY ZenonT(20), <1>2, <5>1, <5>2
            <4>3. disk \in ours
                BY ZenonT(20), <4>1, <4>2
            <4> QED BY ZenonT(20), <4>3
        <3>2. \A r \in {Record(FALSE, NoGrant), Record(TRUE, 1)} :
                  r.grant # NoGrant => r.remember
            BY DEF Record, NoGrant
        <3>3. \A k \in DOMAIN disk.servers :
                  disk.servers[k] \in {Record(FALSE, NoGrant), Record(TRUE, 1)}
            BY ZenonT(20), <3>1
        <3> QED BY ZenonT(20), <3>2, <3>3 DEF Kept
    <2> QED BY Zenon, <1>2, <2>1, <2>2 DEF Marked
<1> QED BY Zenon, <1>1, <1>2 DEF ConsentInv, Marked, Inherits

\* The steps of the process and of its store.
LEMMA ProcessConsents ==
    ASSUME ConsentInv, LoadRefuses \/ Load \/ Imports \/ Spawned \/ ProcessEnds
    PROVE  ConsentInv'
<1>1. CASE LoadRefuses
    BY Zenon, <1>1 DEF LoadRefuses, Idle, storeVars, taskVars, ConsentInv, Marked, Inherits
<1>2. CASE Load
    <2>1. /\ core = "down" /\ agreedAtStart' = agreed /\ UNCHANGED <<agreed, offered>>
          /\ run' = run + 1
        BY Zenon, <1>2 DEF Load, Idle, taskVars
    <2>2. CASE SaveFails /\ UNCHANGED core
        BY Zenon, <2>1, <2>2 DEF SaveFails, ConsentInv, Marked, Inherits
    <2>3. CASE core' = "importing" /\ disk.version = "older" /\ Saves(Loaded(disk))
        <3>1. /\ disk'.version = "current" /\ Marked(disk'.servers, agreed) /\ Kept(disk'.servers)
              /\ memory' = Loaded(disk)
            BY Zenon, <2>3, LoadedAgreed, SavesAgreed
        <3> QED BY Zenon, <2>1, <2>3, <3>1, LoadedAgreed DEF ConsentInv
    <2>4. CASE core' = "importing" /\ memory' = Loaded(disk) /\ UNCHANGED disk
        BY Zenon, <2>1, <2>4, LoadedAgreed DEF ConsentInv
    <2> QED BY Zenon, <1>2, <2>2, <2>3, <2>4 DEF Load
<1>3. CASE Imports
    <2>1. core' # "down" /\ UNCHANGED <<run, offered, agreed, agreedAtStart>>
        BY Zenon, <1>3 DEF Imports, taskVars, consents
    <2>2. CASE UNCHANGED <<disk, memory>>
        BY Zenon, <2>1, <2>2 DEF ConsentInv, Marked, Inherits
    <2>3. ASSUME NEW new, Saves([k \in new |-> Record(FALSE, NoGrant)]) PROVE ConsentInv'
        <3> DEFINE next == [k \in new |-> Record(FALSE, NoGrant)]
        <3>1. Marked(next, agreed) /\ Inherits(next, run, agreedAtStart)
            BY Zenon DEF Marked, Inherits, Record, NoGrant
        <3>2. Saves(next)
            BY Zenon, <2>3
        <3> HIDE DEF next
        <3>3. /\ disk'.version = "current" /\ Marked(disk'.servers, agreed) /\ Kept(disk'.servers)
              /\ memory' = next
            BY Zenon, <3>1, <3>2, SavesAgreed
        <3> QED BY Zenon, <2>1, <3>1, <3>3 DEF ConsentInv
    <2> QED BY ZenonT(20), <1>3, <2>2, <2>3 DEF Imports, SaveFails, storeVars
<1>4. CASE Spawned
    BY Zenon, <1>4 DEF Spawned, storeVars, taskVars, consents, ConsentInv, Marked, Inherits
<1>5. CASE ProcessEnds
    <2>1. /\ DOMAIN memory' = {} /\ offered' = [k \in ServerKeys |-> NoGrant]
          /\ UNCHANGED <<disk, agreed>>
        BY Zenon, <1>5 DEF ProcessEnds, Empty, consents
    <2> QED BY Zenon, <2>1 DEF ConsentInv, Marked, Inherits, Kept
<1> QED BY Zenon, <1>1, <1>2, <1>3, <1>4, <1>5

\* The window's commands.
LEMMA CommandConsents ==
    ASSUME ConsentInv, NEW k \in ServerKeys, NEW remember \in BOOLEAN,
           \/ add_server(k, remember) \/ set_remember_login(k, remember)
           \/ DropsHandle(k) \/ DropsRecord(k)
    PROVE  ConsentInv'
<1>0. UNCHANGED <<run, offered, agreedAtStart, core>>
    BY Zenon DEF add_server, set_remember_login, DropsHandle, DropsRecord, taskVars, consents
<1>1. CASE UNCHANGED <<disk, memory, agreed>>
    BY Zenon, <1>0, <1>1 DEF ConsentInv, Marked, Inherits
\* A table saved while the Core runs.
<1>2. ASSUME NEW next, Saves(next), Marked(next, agreed'), Inherits(next, run, agreedAtStart),
             core # "down"
      PROVE  ConsentInv'
    <2>1. /\ disk'.version = "current" /\ Marked(disk'.servers, agreed') /\ Kept(disk'.servers)
          /\ memory' = next
        BY Zenon, <1>2, SavesAgreed
    <2> QED BY Zenon, <1>0, <1>2, <2>1 DEF ConsentInv
<1>3. CASE add_server(k, remember)
    <2> DEFINE next == [j \in DOMAIN memory \cup {k} |->
                           IF j = k THEN Record(remember, NoGrant) ELSE memory[j]]
    <2>1. CASE Saves(next) /\ Agrees(k, remember)
        <3>1. Marked(next, agreed')
            BY Zenon, <2>1 DEF Marked, Agrees, Record, ConsentInv
        <3>2. Inherits(next, run, agreedAtStart)
            BY Zenon DEF Inherits, Record, ConsentInv, NoGrant
        <3>3. core # "down"
            BY Zenon, <1>3 DEF add_server
        <3> HIDE DEF next
        <3> QED BY Zenon, <1>2, <2>1, <3>1, <3>2, <3>3
    <2> QED BY Zenon, <1>1, <1>3, <2>1 DEF add_server, SaveFails
<1>4. CASE set_remember_login(k, remember)
    <2> DEFINE next == [memory EXCEPT ![k] = Record(remember, memory[k].grant)]
    <2>1. CASE Saves(next) /\ Agrees(k, remember) /\ k \in DOMAIN memory
        <3>0. \A j \in DOMAIN next : /\ j \in DOMAIN memory
                                     /\ next[j] = IF j = k THEN Record(remember, memory[k].grant)
                                                  ELSE memory[j]
            BY Zenon
        <3> HIDE DEF next
        <3>1. Marked(next, agreed')
            BY <2>1, <3>0 DEF Marked, Agrees, Record, ConsentInv
        <3>2. Inherits(next, run, agreedAtStart)
            BY <2>1, <3>0 DEF Inherits, Record, ConsentInv
        <3>3. core # "down"
            BY Zenon, <1>4 DEF set_remember_login
        <3> QED BY Zenon, <1>2, <2>1, <3>1, <3>2, <3>3
    <2> QED BY Zenon, <1>1, <1>4, <2>1 DEF set_remember_login, mutate_server, SaveFails
<1>5. CASE DropsHandle(k)
    BY Zenon, <1>1, <1>5 DEF DropsHandle, storeVars, consents
<1>6. CASE DropsRecord(k)
    <2> DEFINE next == [j \in DOMAIN memory \ {k} |-> memory[j]]
    <2>1. CASE Saves(next) /\ agreed' = agreed \ {k}
        <3>1. Marked(next, agreed') /\ Inherits(next, run, agreedAtStart)
            BY Zenon, <2>1 DEF Marked, Inherits, ConsentInv
        <3> HIDE DEF next
        <3>2. CASE core # "down"
            BY Zenon, <1>2, <2>1, <3>1, <3>2
        <3>3. CASE core = "down"
            <4>1. /\ disk'.version = "current" /\ Marked(disk'.servers, agreed')
                  /\ Kept(disk'.servers) /\ memory' = next
                BY Zenon, <2>1, <3>1, SavesAgreed
            <4>2. DOMAIN memory' = {}
                BY Zenon, <3>3, <4>1 DEF ConsentInv, next
            <4> QED BY Zenon, <1>0, <3>1, <4>1, <4>2 DEF ConsentInv
        <3> QED BY Zenon, <3>2, <3>3
    <2> QED BY Zenon, <1>1, <1>6, <2>1 DEF DropsRecord, SaveFails
<1> QED BY Zenon, <1>3, <1>4, <1>5, <1>6

\* The supervisors.
LEMMA SupervisorConsents ==
    ASSUME ConsentInv, NEW k \in ServerKeys,
           \/ start_supervisor(k) \/ ReadsRecord(k) \/ OffersGrant(k) \/ LogsInFully(k)
           \/ StoresGrant(k) \/ Retries(k) \/ SupervisorReturns(k),
           core = "down" => supervisors[k] = "none" /\ k \notin starting
    PROVE  ConsentInv'
<1>0. UNCHANGED <<run, agreed, agreedAtStart, core>> /\ core # "down"
    BY Zenon DEF start_supervisor, ReadsRecord, OffersGrant, LogsInFully, StoresGrant, Retries,
           SupervisorReturns, Unstored, consents, Goes
<1>1. CASE StoresGrant(k)
    <2>1. UNCHANGED offered
        BY ZenonT(60), <1>1 DEF StoresGrant
    <2>2. CASE UNCHANGED <<disk, memory>>
        BY ZenonT(60), <1>0, <2>1, <2>2 DEF ConsentInv, Marked, Inherits
    <2>3. CASE \E g \in {run, Of(k).grant} : mutate_server(k, Record(Of(k).remember, g))
        <3>1. PICK g \in {run, Of(k).grant} : mutate_server(k, Record(Of(k).remember, g))
            BY Zenon, <2>3
        <3> DEFINE r == Record(Of(k).remember, g)
                   next == [memory EXCEPT ![k] = r]
        <3>2. k \in DOMAIN memory /\ Saves(next)
            BY Zenon, <3>1 DEF mutate_server
        <3>3. r.remember = memory[k].remember /\ r.grant \in {run, memory[k].grant}
            BY Zenon, <3>2 DEF Record, Of
        <3>4. \A j \in DOMAIN next : /\ j \in DOMAIN memory
                                     /\ next[j] = IF j = k THEN r ELSE memory[j]
            BY Zenon
        <3> HIDE DEF r, next
        <3>5. Marked(next, agreed) /\ Inherits(next, run, agreedAtStart)
            BY Zenon, <3>2, <3>3, <3>4 DEF Marked, Inherits, ConsentInv
        <3>6. /\ disk'.version = "current" /\ Marked(disk'.servers, agreed)
              /\ Kept(disk'.servers) /\ memory' = next
            BY Zenon, <3>2, <3>5, SavesAgreed
        <3> QED BY ZenonT(20), <1>0, <2>1, <3>5, <3>6 DEF ConsentInv
    <2> QED BY ZenonT(60), <1>1, <2>2, <2>3 DEF StoresGrant, SaveFails, storeVars
<1>2. CASE ~StoresGrant(k)
    <2>1. UNCHANGED <<disk, memory>>
        BY ZenonT(60), <1>2 DEF start_supervisor, ReadsRecord, OffersGrant, LogsInFully, Retries,
                    SupervisorReturns, Unstored, storeVars
    <2>2. \/ UNCHANGED offered
          \/ offered' = [offered EXCEPT ![k] = NoGrant]
          \/ k \in DOMAIN memory /\ offered' = [offered EXCEPT ![k] = memory[k].grant]
        BY Zenon, <1>2 DEF start_supervisor, ReadsRecord, OffersGrant, LogsInFully, Retries,
                    SupervisorReturns
    <2>3. /\ DOMAIN offered' = ServerKeys
          /\ \A j \in ServerKeys : offered'[j] \notin {NoGrant, run} => j \in agreedAtStart
        BY Zenon, <2>2 DEF ConsentInv, Inherits
    <2> QED BY Zenon, <1>0, <2>1, <2>3 DEF ConsentInv, Marked, Inherits
<1> QED BY Zenon, <1>1, <1>2

\* While the process is down no supervisor is there to take a step.
DownIsQuiet == core = "down" => \A k \in ServerKeys : supervisors[k] = "none" /\ k \notin starting

\* Every step keeps that no supervisor is there while the process is down.
LEMMA DownNext == DownIsQuiet /\ [CoreNext]_coreVars => DownIsQuiet'
<1> SUFFICES ASSUME DownIsQuiet, [CoreNext]_coreVars, core' = "down"
             PROVE  \A k \in ServerKeys : supervisors'[k] = "none" /\ k \notin starting'
    BY Zenon DEF DownIsQuiet
<1>1. CASE ProcessEnds
    BY Zenon, <1>1 DEF ProcessEnds
<1>2. CASE LoadRefuses \/ Load
    BY Zenon, <1>2 DEF LoadRefuses, Load, Idle, taskVars, DownIsQuiet
<1>3. ~Imports /\ ~Spawned
    BY Zenon DEF Imports, Spawned
<1>4. CASE core = "down" /\ \E k \in ServerKeys, remember \in BOOLEAN :
               add_server(k, remember) \/ set_remember_login(k, remember)
    BY Zenon, <1>4 DEF add_server, set_remember_login
<1>5. CASE core = "down" /\ \E k \in ServerKeys :
               \/ start_supervisor(k) \/ DropsHandle(k) \/ DropsRecord(k)
               \/ ReadsRecord(k) \/ OffersGrant(k) \/ LogsInFully(k) \/ StoresGrant(k)
               \/ Retries(k) \/ SupervisorReturns(k)
    BY ZenonT(60), <1>5 DEF DownIsQuiet, start_supervisor, DropsHandle, DropsRecord, ReadsRecord, OffersGrant,
                LogsInFully, StoresGrant, Retries, SupervisorReturns, Goes
<1>6. CASE UNCHANGED coreVars
    BY Zenon, <1>6 DEF coreVars, taskVars, DownIsQuiet
<1>7. core = "down" \/ ProcessEnds \/ LoadRefuses \/ Load \/ UNCHANGED coreVars
    BY ZenonT(20), <1>3 DEF CoreNext, add_server, set_remember_login, start_supervisor, DropsHandle,
                DropsRecord, ReadsRecord, OffersGrant, LogsInFully, StoresGrant, Retries,
                SupervisorReturns, Unstored
<1> QED BY Zenon, <1>1, <1>2, <1>3, <1>4, <1>5, <1>6, <1>7 DEF CoreNext

\* Every step keeps what is remembered within what the user agreed to.
LEMMA ConsentNext == ConsentInv /\ DownIsQuiet /\ [CoreNext]_coreVars => ConsentInv'
<1> SUFFICES ASSUME ConsentInv, DownIsQuiet, [CoreNext]_coreVars PROVE ConsentInv'
    BY Zenon
<1>1. CASE UNCHANGED coreVars
    BY ZenonT(20), <1>1 DEF coreVars, storeVars, taskVars, consents, ConsentInv, Marked, Inherits
<1>2. CASE CoreNext
    BY ZenonT(20), <1>2, ProcessConsents, CommandConsents, SupervisorConsents DEF CoreNext, DownIsQuiet
<1> QED BY Zenon, <1>1, <1>2

\* "Explicit consent to retain a login across app restarts" (store.rs): the
\* file holds a grant only of a server whose login the user agreed to have
\* remembered, and a grant of an earlier run reaches a supervisor only if that
\* was agreed when this run began.
THEOREM GrantsAreAgreed == CoreSpec => []GrantsNeedConsent
<1>1. CoreInit => ConsentInv /\ DownIsQuiet
    BY Zenon, ConsentInit DEF CoreInit, DownIsQuiet
<1>2. ConsentInv => GrantsNeedConsent
    BY ZenonT(20) DEF ConsentInv, GrantsNeedConsent, Marked, Kept, Inherits
<1> QED BY <1>1, <1>2, ConsentNext, DownNext, PTL DEF CoreSpec
-----------------------------------------------------------------------------
(* A removed server.                                                       *)

\* Every key in use, on its way out, or gone was minted.
KeysInv ==
    /\ DOMAIN memory \subseteq minted /\ DOMAIN disk.servers \subseteq minted
    /\ dropping \subseteq minted /\ removed \subseteq minted
    /\ RemovedStaysRemoved

\* A saved table has the same servers in memory and in the file.
LEMMA SavesKeys ==
    ASSUME NEW next, Saves(next)
    PROVE  DOMAIN memory' = DOMAIN next /\ DOMAIN disk'.servers = DOMAIN next
<1>1. disk' = [version |-> "current", servers |-> Persisted(next)] /\ memory' = next
    BY Zenon DEF Saves
<1>2. disk'.servers = Persisted(next)
    BY Zenon, <1>1
<1> QED BY Zenon, <1>1, <1>2 DEF Persisted

\* Every step keeps the keys in use among those that were minted.
LEMMA KeysNext == KeysInv /\ [CoreNext]_coreVars => KeysInv'
<1> SUFFICES ASSUME KeysInv, [CoreNext]_coreVars PROVE KeysInv'
    BY Zenon
<1> USE DEF KeysInv, RemovedStaysRemoved
\* A step that saves a table of known or new servers, or none.
<1>a. ASSUME NEW D, DOMAIN memory' = D, DOMAIN disk'.servers = D, D \subseteq minted',
             D \cap removed' = {}, minted \subseteq minted', dropping' \subseteq dropping,
             removed' \subseteq minted
      PROVE  KeysInv'
    BY Zenon, <1>a
<1>b. ASSUME UNCHANGED <<memory, disk, removed>>, minted \subseteq minted',
             dropping' \subseteq minted
      PROVE  KeysInv'
    BY Zenon, <1>b
<1>1. CASE LoadRefuses \/ Spawned
    BY Zenon, <1>b, <1>1 DEF LoadRefuses, Spawned, Idle, storeVars, taskVars, consents
<1>2. CASE Load
    <2>1. UNCHANGED <<minted, dropping, removed>>
        BY Zenon, <1>2 DEF Load, Idle
    <2>2. DOMAIN Loaded(disk) = DOMAIN disk.servers
        BY Zenon DEF Loaded
    <2>3. CASE Saves(Loaded(disk))
        BY Zenon, <1>a, <2>1, <2>2, <2>3, SavesKeys
    <2>4. CASE memory' = Loaded(disk) /\ UNCHANGED disk
        BY Zenon, <1>a, <2>1, <2>2, <2>4
    <2>5. CASE UNCHANGED <<memory, disk>>
        BY Zenon, <1>b, <2>1, <2>5
    <2> QED BY Zenon, <1>2, <2>3, <2>4, <2>5 DEF Load, SaveFails
<1>3. CASE Imports
    <2>1. UNCHANGED <<dropping, removed>>
        BY Zenon, <1>3 DEF Imports, consents
    <2>2. ASSUME NEW new \in SUBSET (ServerKeys \ minted), minted' = minted \cup new,
                 Saves([k \in new |-> Record(FALSE, NoGrant)])
          PROVE  KeysInv'
        <3>1. DOMAIN memory' = new /\ DOMAIN disk'.servers = new
            BY <2>2, SavesKeys
        <3> QED BY Zenon, <1>a, <2>1, <2>2, <3>1
    <2>3. CASE UNCHANGED <<memory, disk, minted>>
        BY Zenon, <1>b, <2>1, <2>3
    <2> QED BY ZenonT(20), <1>3, <2>2, <2>3 DEF Imports, SaveFails, storeVars
<1>4. CASE ProcessEnds
    BY Zenon, <1>4 DEF ProcessEnds, consents, Empty
<1>5. ASSUME NEW k \in ServerKeys, NEW remember \in BOOLEAN, add_server(k, remember)
      PROVE  KeysInv'
    <2> DEFINE next == [j \in DOMAIN memory \cup {k} |->
                           IF j = k THEN Record(remember, NoGrant) ELSE memory[j]]
    <2>1. k \notin minted /\ minted' = minted \cup {k} /\ UNCHANGED <<dropping, removed>>
        BY Zenon, <1>5 DEF add_server
    <2>2. CASE Saves(next)
        <3>1. DOMAIN memory' = DOMAIN memory \cup {k} /\ DOMAIN disk'.servers = DOMAIN memory \cup {k}
            BY <2>2, SavesKeys
        <3> QED BY Zenon, <1>a, <2>1, <3>1
    <2>3. CASE UNCHANGED <<memory, disk>>
        BY Zenon, <1>b, <2>1, <2>3
    <2> QED BY Zenon, <1>5, <2>2, <2>3 DEF add_server, SaveFails
\* A record that changes is one that is there.
<1>c. ASSUME NEW k, NEW r, mutate_server(k, r), UNCHANGED <<minted, dropping, removed>>
      PROVE  KeysInv'
    <2>1. DOMAIN memory' = DOMAIN memory /\ DOMAIN disk'.servers = DOMAIN memory
        BY <1>c, SavesKeys DEF mutate_server
    <2> QED BY Zenon, <1>a, <1>c, <2>1
<1>6. ASSUME NEW k \in ServerKeys, NEW remember \in BOOLEAN, set_remember_login(k, remember)
      PROVE  KeysInv'
    <2>1. UNCHANGED <<minted, dropping, removed>>
        BY Zenon, <1>6 DEF set_remember_login
    <2> QED BY Zenon, <1>b, <1>c, <1>6, <2>1 DEF set_remember_login, SaveFails
<1>7. ASSUME NEW k \in ServerKeys, DropsHandle(k) PROVE KeysInv'
    BY Zenon, <1>b, <1>7 DEF DropsHandle, storeVars, consents
<1>8. ASSUME NEW k \in ServerKeys, DropsRecord(k) PROVE KeysInv'
    <2> DEFINE next == [j \in DOMAIN memory \ {k} |-> memory[j]]
    <2>1. k \in dropping /\ dropping' = dropping \ {k} /\ UNCHANGED minted
        BY Zenon, <1>8 DEF DropsRecord
    <2>2. CASE Saves(next) /\ removed' = removed \cup {k}
        <3>1. DOMAIN memory' = DOMAIN memory \ {k} /\ DOMAIN disk'.servers = DOMAIN memory \ {k}
            BY <2>2, SavesKeys
        <3> QED BY ZenonT(20), <1>a, <2>1, <2>2, <3>1
    <2>3. CASE UNCHANGED <<memory, disk, removed>>
        BY Zenon, <1>b, <2>1, <2>3
    <2> QED BY Zenon, <1>8, <2>2, <2>3 DEF DropsRecord, SaveFails
<1>9. ASSUME NEW k \in ServerKeys, StoresGrant(k) PROVE KeysInv'
    <2>1. UNCHANGED <<minted, dropping, removed>>
        BY ZenonT(20), <1>9 DEF StoresGrant, consents
    <2> QED BY Zenon, <1>b, <1>c, <1>9, <2>1 DEF StoresGrant, SaveFails, storeVars
<1>10. ASSUME NEW k \in ServerKeys,
              \/ start_supervisor(k) \/ ReadsRecord(k) \/ OffersGrant(k) \/ LogsInFully(k)
              \/ Retries(k) \/ SupervisorReturns(k)
       PROVE  KeysInv'
    <2>1. UNCHANGED <<memory, disk, minted, dropping, removed>>
        BY Zenon, <1>10 DEF start_supervisor, ReadsRecord, OffersGrant, LogsInFully, Retries,
                     SupervisorReturns, Unstored, storeVars, consents
    <2> QED BY Zenon, <1>b, <2>1
<1>11. CASE UNCHANGED coreVars
    BY ZenonT(20), <1>11 DEF coreVars, storeVars, consents
<1> QED BY ZenonT(20), <1>1, <1>2, <1>3, <1>4, <1>5, <1>6, <1>7, <1>8, <1>9, <1>10, <1>11 DEF CoreNext

\* A server that was removed stays removed: neither its supervisor, about to
\* store a grant or to try again, nor a later run brings its record back
\* (remove_server, mutate_server).
THEOREM RemovedServersStayRemoved == CoreSpec => []RemovedStaysRemoved
<1>1. CoreInit => KeysInv
    BY Zenon DEF CoreInit, KeysInv, RemovedStaysRemoved, Empty
<1>2. KeysInv => RemovedStaysRemoved
    BY Zenon DEF KeysInv
<1> QED BY <1>1, <1>2, KeysNext, PTL DEF CoreSpec

-----------------------------------------------------------------------------
(* The password of one attempt.                                            *)

\* Only records with a password ever wait for one.
PasswordInv ==
    /\ PasswordForOneAttempt
    /\ usedPassword # "none" => method = "password"
    /\ supervisor = "login" => method = "password"

\* Every step of a login keeps a password within its attempt.
LEMMA PasswordNext == PasswordInv /\ [LoginNext]_loginVars => PasswordInv'
<1> SUFFICES ASSUME PasswordInv, [LoginNext]_loginVars PROVE PasswordInv'
    BY Zenon
<1> USE DEF PasswordInv, PasswordForOneAttempt
<1>1. CASE Attempts
    BY Zenon, <1>1 DEF Attempts, Environment
<1>2. CASE TriesGrant \/ TriesDev
    BY Zenon, <1>2 DEF TriesGrant, TriesDev, Connects, Fails, AfterFailure, Environment
<1>3. CASE TriesPassword
    BY Zenon, <1>3 DEF TriesPassword, Connects, Fails, ensure_ok_fails, AfterFailure, Environment
<1>4. CASE OffersKey \/ SignsChallenge \/ ProvesPossession
    BY Zenon, <1>4 DEF OffersKey, SignsChallenge, ProvesPossession, Connects, Fails, AfterFailure, Environment,
                ensure_ok_fails, read_private_key_fails, sign_with_ssh_keygen_fails
<1>5. CASE BacksOff \/ Stops \/ LosesControl
    BY Zenon, <1>5 DEF BacksOff, Stops, LosesControl, Environment, Waiting
<1>6. CASE TakesWhileWaiting
    BY Zenon, <1>6 DEF TakesWhileWaiting, Waiting
<1>7. CASE TakesCommand \/ WindowCalls \/ Removes \/ (\E p \in Passwords : LogsIn(p))
           \/ NetworkFails \/ NetworkReturns \/ GrantExpires
    BY Zenon, <1>7 DEF TakesCommand, WindowCalls, Removes, LogsIn, NetworkFails, NetworkReturns, GrantExpires
<1>8. CASE UNCHANGED loginVars
    BY Zenon, <1>8 DEF loginVars
<1> QED BY Zenon, <1>1, <1>2, <1>3, <1>4, <1>5, <1>6, <1>7, <1>8 DEF LoginNext, SupervisorStep

\* A password lives for one attempt, whatever way the attempt ends and whatever
\* the network, the daemon and the user do (run_supervisor, password.take()).
THEOREM PasswordsAreSpent == LoginSpec => []PasswordForOneAttempt
<1>1. LoginInit => PasswordInv
    BY Zenon DEF LoginInit, PasswordInv, PasswordForOneAttempt
<1>2. PasswordInv => PasswordForOneAttempt
    BY Zenon DEF PasswordInv
<1> QED BY <1>1, <1>2, PasswordNext, PTL DEF LoginSpec

\* Whoever was turned away waits for the user.
JudgedInv ==
    /\ rejected \in {0, 1}
    /\ rejected = 1 => supervisor \in {"locked", "login", "gone"}

\* Every step keeps that whoever was turned away waits for the user.
LEMMA JudgedNext == JudgedInv /\ [LoginNext]_loginVars => JudgedInv'
<1> SUFFICES ASSUME JudgedInv, [LoginNext]_loginVars PROVE JudgedInv'
    BY Zenon
<1> USE DEF JudgedInv
<1>1. CASE Attempts \/ BacksOff \/ Stops \/ LosesControl
    BY Zenon, <1>1 DEF Attempts, BacksOff, Stops, LosesControl, Waiting
<1>2. CASE TriesGrant \/ TriesDev
    BY <1>2 DEF TriesGrant, TriesDev, Connects, Fails
<1>3. CASE TriesPassword
    BY <1>3 DEF TriesPassword, Connects, Fails, ensure_ok_fails, AfterFailure
<1>4. CASE OffersKey \/ SignsChallenge \/ ProvesPossession
    BY <1>4 DEF OffersKey, SignsChallenge, ProvesPossession, Connects, Fails, AfterFailure,
                ensure_ok_fails, read_private_key_fails, sign_with_ssh_keygen_fails
<1>5. CASE TakesWhileWaiting
    BY <1>5 DEF TakesWhileWaiting, Waiting
<1>6. CASE TakesCommand \/ WindowCalls \/ Removes \/ (\E p \in Passwords : LogsIn(p))
           \/ NetworkFails \/ NetworkReturns \/ GrantExpires
    BY Zenon, <1>6 DEF TakesCommand, WindowCalls, Removes, LogsIn, NetworkFails, NetworkReturns, GrantExpires
<1>7. CASE UNCHANGED loginVars
    BY Zenon, <1>7 DEF loginVars
<1> QED BY Zenon, <1>1, <1>2, <1>3, <1>4, <1>5, <1>6, <1>7 DEF LoginNext, SupervisorStep

\* Between two actions of the user the daemon judges the client at most once,
\* so that retrying never runs into the rate limiter (run_supervisor).
THEOREM RetriesAreNotJudged == LoginSpec => []JudgedOnce
<1>1. LoginInit => JudgedInv
    BY DEF LoginInit, JudgedInv
<1>2. JudgedInv => JudgedOnce
    BY DEF JudgedInv, JudgedOnce
<1> QED BY <1>1, <1>2, JudgedNext, PTL DEF LoginSpec

-----------------------------------------------------------------------------
(* Facts about sequences.  They are stated here because SequenceTheorems   *)
(* would put all of its facts into the context of every obligation.        *)

\* What the concatenation of two sequences is.
LEMMA ConcatProperties ==
    ASSUME NEW S, NEW p \in Seq(S), NEW q \in Seq(S)
    PROVE  /\ p \o q \in Seq(S) /\ Len(p \o q) = Len(p) + Len(q)
           /\ \A i \in 1 .. Len(p) + Len(q) : (p \o q)[i] = IF i <= Len(p) THEN p[i] ELSE q[i - Len(p)]
  OBVIOUS

\* Append is concatenation with one element.
LEMMA AppendIsConcat ==
    ASSUME NEW S, NEW q \in Seq(S), NEW e \in S
    PROVE  Append(q, e) = q \o <<e>>
  OBVIOUS

\* What SubSeq gives.
LEMMA SubSeqProperties ==
    ASSUME NEW S, NEW q \in Seq(S), NEW m \in 1 .. (Len(q) + 1), NEW n \in 0 .. Len(q)
    PROVE  /\ SubSeq(q, m, n) \in Seq(S) /\ Len(SubSeq(q, m, n)) = IF m <= n THEN n - m + 1 ELSE 0
           /\ \A i \in 1 .. (n - m + 1) : SubSeq(q, m, n)[i] = q[m + i - 1]
  OBVIOUS
-----------------------------------------------------------------------------
(* Shells within reach.                                                    *)

Requests == [op : {"open", "attach", "list", "terminate"}, key : OpenKeys \cup {NoKey},
             shell : Shells \cup {NoShell}, token : Nat]
Answers == [code : {"ok", "refused", "forbidden", "busy", "stale", "notfound", "failed"},
            shell : Shells \cup {NoShell}, token : Nat]

\* An OpenShell with this key makes no shell that is out of reach.
Covered(k) == k \in journal \/ k \in givenUp \/ byKey[k] \in Known
Over(s)    == phase[s] \in {"ended", "gone"}

\* A request that may still be executed, on the wire or late.
Harmless(r) ==
    /\ r \in Requests
    /\ IF r.op = "open" THEN r.key \in OpenKeys /\ Covered(r.key) ELSE r.shell \in Shells

\* The request and the reply the supervisor waits for.
Asked(r) ==
    \/ pc \in {"resolving", "opening", "reopening"} /\ r.op = "open" /\ r.key = job.key
    \/ pc = "attaching" /\ r.op = "attach" /\ r.shell = job.shell
    \/ pc = "checking" /\ r.op = "list" /\ r.shell = job.shell
    \/ pc = "terminating" /\ r.op = "terminate" /\ r.shell = job.shell
Told(a) ==
    \/ /\ pc \in {"resolving", "opening", "reopening"} /\ job.key \in OpenKeys
       /\ a.code = "ok" => a.shell = byKey[job.key] /\ a.shell \in Known /\ a.token > 0
    \/ /\ pc = "attaching"
       /\ a.code = "ok" => a.token > 0
       /\ a.code = "notfound" => Over(job.shell)
    \/ pc = "checking" /\ (IF a.code = "ok" THEN job.shell \in Known ELSE Over(job.shell))
    \/ pc = "terminating" /\ (a.code = "ok" => Over(job.shell))

ServiceInv ==
    /\ phase \in [Shells -> Phases]
    /\ byKey \in [OpenKeys -> Shells \cup {NoShell}]
    /\ token \in [Shells -> Nat]
    /\ \A k \in OpenKeys : byKey[k] \in Shells => phase[byKey[k]] # "none"
    /\ \A k, l \in OpenKeys : byKey[k] = byKey[l] /\ byKey[k] \in Shells => k = l
LinkInv ==
    /\ wire # <<>> => wire = <<wire[1]>> /\ Harmless(wire[1]) /\ Asked(wire[1])
    /\ reply # <<>> => reply = <<reply[1]>> /\ reply[1] \in Answers /\ Told(reply[1])
    /\ late \in Seq(Requests)
    /\ \A i \in DOMAIN late : Harmless(late[i])
StoreInv ==
    /\ journal \subseteq OpenKeys
    /\ record \in [Shells -> [token : Nat, key : OpenKeys \cup {NoKey}]]
    /\ \A s \in Shells : Recorded(s) =>
           /\ record[s].key \in OpenKeys /\ phase[s] # "none"
           /\ s \in Known => byKey[record[s].key] = s
JobInv ==
    /\ pc \in {"down", "offline", "resolving", "ready", "opening", "attaching",
               "checking", "reopening", "terminating"}
    /\ job \in [key : OpenKeys \cup {NoKey}, shell : Shells \cup {NoShell},
                recovered : BOOLEAN, todo : SUBSET OpenKeys]
    /\ pc \in {"attaching", "checking", "reopening"} =>
           /\ job.shell \in Shells /\ phase[job.shell] # "none" /\ job.key \in OpenKeys
           /\ job.shell \in Known => byKey[job.key] = job.shell
    /\ pc = "reopening" => job.shell \in Known
    /\ pc = "terminating" => job.shell \in Shells /\ phase[job.shell] # "none"
    /\ pc = "resolving" => \A k \in job.todo : Covered(k)
ResumeInv == ServiceInv /\ LinkInv /\ StoreInv /\ JobInv /\ NoSilentOrphan

\* What a step of the daemon short of a restart may do: shells go forward, and
\* a key names another shell only when it named none the daemon knows.
Forward ==
    /\ \A s \in Shells :
          \/ phase'[s] = phase[s]
          \/ phase[s] = "none" /\ phase'[s] = "running"
          \/ phase[s] \in {"running", "ended"} /\ phase'[s] = "ended"
    /\ \A k \in OpenKeys :
          \/ byKey'[k] = byKey[k]
          \/ byKey[k] \notin Known /\ byKey'[k] \in Shells /\ phase[byKey'[k]] = "none"

\* A sequence without its i-th element, as ServeLate leaves it.
Rest(q, i) == SubSeq(q, 1, i - 1) \o SubSeq(q, i + 1, Len(q))

\* Taking a late request off leaves the others.
LEMMA RemovedElements ==
    ASSUME NEW S, NEW q \in Seq(S), NEW i \in DOMAIN q
    PROVE  /\ Rest(q, i) \in Seq(S)
           /\ \A j \in DOMAIN Rest(q, i) : \E l \in DOMAIN q : Rest(q, i)[j] = q[l]
  <1> DEFINE a == SubSeq(q, 1, i - 1)
             b == SubSeq(q, i + 1, Len(q))
  <1>1. i \in 1 .. Len(q) /\ Len(q) \in Nat
    OBVIOUS
  <1>2. a \in Seq(S) /\ Len(a) = i - 1 /\ \A j \in 1 .. (i - 1) : a[j] = q[j]
    BY <1>1, SubSeqProperties
  <1>3. b \in Seq(S) /\ Len(b) = Len(q) - i /\ \A j \in 1 .. (Len(q) - i) : b[j] = q[i + j]
    BY <1>1, SubSeqProperties
  <1>4. Rest(q, i) = a \o b
    BY Zenon DEF Rest
  <1> HIDE DEF a, b
  <1>5. a \o b \in Seq(S) /\ Len(a \o b) = Len(q) - 1
        /\ \A j \in 1 .. Len(a \o b) : (a \o b)[j] = IF j <= Len(a) THEN a[j] ELSE b[j - Len(a)]
    BY <1>1, <1>2, <1>3, ConcatProperties, SMTT(40)
  <1>6. ASSUME NEW j \in DOMAIN (a \o b) PROVE \E l \in DOMAIN q : (a \o b)[j] = q[l]
    <2>1. j \in 1 .. (Len(q) - 1)
      BY <1>5
    <2>2. CASE j <= i - 1
      <3>1. (a \o b)[j] = q[j] /\ j \in 1 .. Len(q)
        BY <1>1, <1>2, <1>5, <2>1, <2>2
      <3> QED BY <3>1
    <2>3. CASE j > i - 1
      <3>1. (a \o b)[j] = q[j + 1] /\ j + 1 \in 1 .. Len(q)
        <4>1. j - Len(a) \in 1 .. (Len(q) - i) /\ ~(j <= Len(a))
          BY SMTT(20), <1>1, <1>2, <2>1, <2>3
        <4>2. (a \o b)[j] = b[j - Len(a)] /\ b[j - Len(a)] = q[i + (j - Len(a))]
          BY Zenon, <1>3, <1>5, <2>1, <4>1
        <4>3. i + (j - Len(a)) = j + 1
          BY <1>1, <1>2, <2>1
        <4> QED BY <1>1, <2>1, <4>2, <4>3
      <3> QED BY <3>1
    <2> QED BY <1>1, <2>1, <2>2, <2>3
  <1> QED BY Zenon, <1>4, <1>5, <1>6

\* Executing a harmless request.
LEMMA ExecuteForward ==
    ASSUME ServiceInv, NEW r, Harmless(r), NEW heard \in BOOLEAN, Execute(r, heard)
    PROVE  /\ ServiceInv' /\ Forward
           /\ \A k \in OpenKeys : byKey'[k] # byKey[k] => r.op = "open" /\ k = r.key
  <1>1. r \in Requests /\ (r.op = "open" => r.key \in OpenKeys) /\ (r.op # "open" => r.shell \in Shells)
    BY Zenon DEF Harmless
  <1>2. ASSUME UNCHANGED <<phase, byKey>>, token' \in [Shells -> Nat]
        PROVE  ServiceInv' /\ Forward /\ \A k \in OpenKeys : byKey'[k] = byKey[k]
    BY Zenon, <1>2 DEF ServiceInv, Forward
  <1>3. ASSUME NEW s \in Shells, phase[s] \in {"running", "ended"}, phase' = [phase EXCEPT ![s] = "ended"],
               UNCHANGED <<byKey, token>>
        PROVE  ServiceInv' /\ Forward /\ \A k \in OpenKeys : byKey'[k] = byKey[k]
    BY Zenon, <1>3 DEF ServiceInv, Forward, Phases
  <1>4. ASSUME NEW s \in Shells, r.op = "open", Open(r.key, s)
        PROVE  /\ ServiceInv' /\ Forward
               /\ \A k \in OpenKeys : byKey'[k] # byKey[k] => k = r.key
    <2> USE <1>1, <1>4 DEF Open
    <2>1. /\ phase' \in [Shells -> Phases] /\ token' \in [Shells -> Nat]
          /\ byKey' \in [OpenKeys -> Shells \cup {NoShell}]
      BY Zenon DEF ServiceInv, Phases
    <2>2. \A k \in OpenKeys : byKey'[k] = IF k = r.key THEN s ELSE byKey[k]
      BY Zenon DEF ServiceInv
    <2>3. \A x \in Shells : phase'[x] = IF x = s THEN "running" ELSE phase[x]
      BY Zenon DEF ServiceInv
    <2>4. ServiceInv'
      BY <2>1, <2>2, <2>3 DEF ServiceInv
    <2>5. Forward
      BY Zenon, <2>2, <2>3 DEF Forward
    <2> QED BY Zenon, <2>2, <2>4, <2>5
  <1>5. CASE r.op = "open" /\ ExecuteOpen(r, heard)
    <2>1. CASE Reopen(r.key)
      <3>1. UNCHANGED <<phase, byKey>> /\ token' \in [Shells -> Nat]
        BY <2>1, <1>1, <1>5 DEF Reopen, ServiceInv, Known
      <3> QED BY Zenon, <3>1, <1>2
    <2>2. CASE \E s \in Shells : Open(r.key, s)
      BY Zenon, <2>2, <1>4, <1>5
    <2>3. CASE UNCHANGED service
      <3>1. UNCHANGED <<phase, byKey>> /\ token' \in [Shells -> Nat]
        BY Zenon, <2>3 DEF service, ServiceInv
      <3> QED BY Zenon, <3>1, <1>2
    <2> QED BY Zenon, <1>5, <2>1, <2>2, <2>3 DEF ExecuteOpen
  <1>6. CASE r.op = "attach" /\ ExecuteAttach(r, heard)
    <2>1. CASE Attach(r.shell, r.token)
      <3>1. UNCHANGED <<phase, byKey>> /\ token' \in [Shells -> Nat]
        BY <2>1, <1>1, <1>6 DEF Attach, ServiceInv, Known
      <3> QED BY Zenon, <3>1, <1>2
    <2>2. CASE UNCHANGED service
      <3>1. UNCHANGED <<phase, byKey>> /\ token' \in [Shells -> Nat]
        BY Zenon, <2>2 DEF service, ServiceInv
      <3> QED BY Zenon, <3>1, <1>2
    <2> QED BY Zenon, <1>6, <2>1, <2>2 DEF ExecuteAttach
  <1>7. CASE r.op = "list" /\ ExecuteList(r, heard)
    <2>1. UNCHANGED <<phase, byKey>> /\ token' \in [Shells -> Nat]
      BY Zenon, <1>7 DEF service, ServiceInv, ExecuteList
    <2> QED BY Zenon, <2>1, <1>2
  <1>8. CASE r.op = "terminate" /\ ExecuteTerminate(r, heard)
    <2>1. CASE r.shell \in Known /\ phase' = [phase EXCEPT ![r.shell] = "ended"] /\ UNCHANGED <<byKey, token>>
      BY ZenonT(20), <1>1, <1>3, <1>8, <2>1 DEF Known
    <2>2. CASE UNCHANGED service
      <3>1. UNCHANGED <<phase, byKey>> /\ token' \in [Shells -> Nat]
        BY Zenon, <2>2 DEF service, ServiceInv
      <3> QED BY Zenon, <3>1, <1>2
    <2> QED BY Zenon, <1>8, <2>1, <2>2 DEF ExecuteTerminate
  <1> QED BY Zenon, <1>5, <1>6, <1>7, <1>8 DEF Execute
\* When the daemon moves on, its shells and keys stay known and what is over
\* stays over.
LEMMA ForwardKnown ==
    ASSUME ServiceInv, Forward
    PROVE  /\ \A s \in Shells : phase[s] # "none" => phase'[s] # "none"
           /\ \A s \in Shells : Over(s) => Over(s)'
           /\ \A s \in Shells : s \in Known => s \in Known'
           /\ \A s \in Shells : phase[s] # "none" /\ s \in Known' => s \in Known
           /\ \A k \in OpenKeys : byKey[k] \in Known => byKey'[k] = byKey[k] /\ byKey'[k] \in Known'
  BY Zenon DEF ServiceInv, Forward, Known, Over, Phases

\* A step of the daemon that does what Forward says leaves the client's part of
\* the invariant alone.
LEMMA ClientUnmoved ==
    ASSUME ServiceInv, Forward, UNCHANGED client
    PROVE  /\ \A k \in OpenKeys : Covered(k) => Covered(k)'
           /\ \A r : Harmless(r) => Harmless(r)'
           /\ \A r : Asked(r) => Asked(r)'
           /\ \A a : JobInv /\ Told(a) => Told(a)'
           /\ StoreInv => StoreInv'
           /\ JobInv => JobInv'
  <1> USE DEF client
  <1>1. \A k \in OpenKeys : Covered(k) => Covered(k)'
    BY Zenon, ForwardKnown DEF Covered
  <1>2. ASSUME NEW r, Harmless(r) PROVE Harmless(r)'
    BY Zenon, <1>1, <1>2 DEF Harmless
  <1>3. ASSUME NEW r, Asked(r) PROVE Asked(r)'
    BY Zenon, <1>3 DEF Asked
  <1>4. ASSUME NEW a, JobInv, Told(a) PROVE Told(a)'
    BY ZenonT(40), <1>4, ForwardKnown DEF Told, JobInv, Known
  <1>5. ASSUME StoreInv PROVE StoreInv'
    <2>1. journal' \subseteq OpenKeys /\ record' \in [Shells -> [token : Nat, key : OpenKeys \cup {NoKey}]]
      BY Zenon, <1>5 DEF StoreInv
    <2>2. ASSUME NEW s \in Shells, Recorded(s)'
          PROVE  /\ record'[s].key \in OpenKeys /\ phase'[s] # "none"
                 /\ s \in Known' => byKey'[record'[s].key] = s
      <3>1. record[s].key \in OpenKeys /\ phase[s] # "none" /\ (s \in Known => byKey[record[s].key] = s)
        BY Zenon, <1>5, <2>2 DEF StoreInv, Recorded
      <3> QED BY Zenon, <3>1, ForwardKnown
    <2> QED BY Zenon, <2>1, <2>2 DEF StoreInv
  <1>6. ASSUME JobInv PROVE JobInv'
    <2>1. ASSUME pc \in {"attaching", "checking", "reopening"}
          PROVE  /\ job.shell \in Shells /\ phase'[job.shell] # "none" /\ job.key \in OpenKeys
                 /\ job.shell \in Known' => byKey'[job.key] = job.shell
      <3>1. /\ job.shell \in Shells /\ phase[job.shell] # "none" /\ job.key \in OpenKeys
            /\ job.shell \in Known => byKey[job.key] = job.shell
        BY Zenon, <1>6, <2>1 DEF JobInv
      <3> QED BY Zenon, <3>1, ForwardKnown
    <2>2. pc = "reopening" => job.shell \in Known'
      BY Zenon, <1>6, ForwardKnown DEF JobInv
    <2>3. pc = "terminating" => job.shell \in Shells /\ phase'[job.shell] # "none"
      BY Zenon, <1>6, ForwardKnown DEF JobInv
    <2>4. pc = "resolving" => \A k \in job.todo : Covered(k)'
      BY Zenon, <1>1, <1>6 DEF JobInv
    <2> QED BY Zenon, <1>6, <2>1, <2>2, <2>3, <2>4 DEF JobInv
  <1> QED BY Zenon, <1>1, <1>2, <1>3, <1>4, <1>5, <1>6

\* What a reply to a request of the living connection says.
LEMMA ExecuteTells ==
    ASSUME ServiceInv, JobInv, NEW r, Harmless(r), Asked(r), Execute(r, TRUE), UNCHANGED client
    PROVE  \E a \in Answers : reply' = <<a>> /\ Told(a)'
  <1> USE DEF client
  <1>1. r \in Requests /\ (r.op = "open" => r.key \in OpenKeys) /\ (r.op # "open" => r.shell \in Shells)
    BY Zenon DEF Harmless
  <1>2. Forward /\ ServiceInv'
    BY ZenonT(20), ExecuteForward
  <1>3. CASE r.op = "open" /\ ExecuteOpen(r, TRUE)
    <2>1. pc \in {"resolving", "opening", "reopening"} /\ r.key = job.key /\ job.key \in OpenKeys
      BY Zenon, <1>1, <1>3 DEF Asked
    <2>2. CASE Reopen(r.key) /\ Say(TRUE, Answer("ok", byKey[r.key], token[byKey[r.key]] + 1))
      <3>0. PICK a : a = [code |-> "ok", shell |-> byKey[r.key], token |-> token[byKey[r.key]] + 1]
        BY ZenonT(20)
      <3>1. reply' = <<a>>
        BY Zenon, <2>2, <3>0 DEF Say, Answer
      <3>2. a \in Answers /\ a.token > 0
        BY <2>1, <2>2, <3>0 DEF Reopen, ServiceInv, Known, Answers
      <3>3. Told(a)'
        BY Zenon, <2>1, <2>2, <3>0, <3>2 DEF Told, Reopen, Known
      <3> QED BY Zenon, <3>1, <3>2, <3>3
    <2>3. CASE \E s \in Shells : Open(r.key, s) /\ Say(TRUE, Answer("ok", s, 1))
      <3>1. PICK s \in Shells : Open(r.key, s) /\ Say(TRUE, Answer("ok", s, 1))
        BY ZenonT(20), <2>3
      <3> DEFINE a == [code |-> "ok", shell |-> s, token |-> 1]
      <3>2. reply' = <<a>> /\ a \in Answers /\ a.token > 0
        BY <3>1 DEF Say, Answer, Answers
      <3>3. byKey'[r.key] = s /\ s \in Known'
        BY Zenon, <2>1, <3>1 DEF Open, ServiceInv, Known
      <3>4. Told(a)'
        BY Zenon, <2>1, <3>2, <3>3 DEF Told
      <3> QED BY Zenon, <3>2, <3>4
    <2>4. CASE Say(TRUE, Answer("refused", NoShell, 0))
      <3> DEFINE a == [code |-> "refused", shell |-> NoShell, token |-> 0]
      <3>1. reply' = <<a>> /\ a \in Answers /\ a.code = "refused"
        BY Zenon, <2>4 DEF Say, Answer, Answers
      <3>2. Told(a)'
        BY Zenon, <2>1, <3>1 DEF Told
      <3> QED BY Zenon, <3>1, <3>2
    <2> QED BY ZenonT(20), <1>3, <2>2, <2>3, <2>4 DEF ExecuteOpen
  <1>4. CASE r.op = "attach" /\ ExecuteAttach(r, TRUE)
    <2>1. pc = "attaching" /\ r.shell = job.shell /\ job.shell \in Shells /\ phase[job.shell] # "none"
      BY Zenon, <1>4 DEF Asked, JobInv
    <2>2. ASSUME NEW c \in {"forbidden", "busy", "stale"}, Say(TRUE, Answer(c, r.shell, 0))
          PROVE  \E a \in Answers : reply' = <<a>> /\ Told(a)'
      <3> DEFINE a == [code |-> c, shell |-> r.shell, token |-> 0]
      <3>1. reply' = <<a>> /\ a \in Answers /\ a.code = c
        BY Zenon, <1>1, <2>2 DEF Say, Answer, Answers, Requests
      <3>2. Told(a)'
        BY Zenon, <2>1, <3>1 DEF Told
      <3> QED BY Zenon, <3>1, <3>2
    <2>3. CASE Say(TRUE, Answer("ok", r.shell, r.token + 1))
      <3> DEFINE a == [code |-> "ok", shell |-> r.shell, token |-> r.token + 1]
      <3>1. reply' = <<a>> /\ a \in Answers /\ a.code = "ok" /\ a.token > 0
        BY <1>1, <2>3 DEF Say, Answer, Answers, Requests
      <3>2. Told(a)'
        BY Zenon, <2>1, <3>1 DEF Told
      <3> QED BY Zenon, <3>1, <3>2
    <2>4. CASE ~Running(r.shell) /\ UNCHANGED service /\ Say(TRUE, Answer("notfound", r.shell, 0))
      <3> DEFINE a == [code |-> "notfound", shell |-> r.shell, token |-> 0]
      <3>1. reply' = <<a>> /\ a \in Answers /\ a.code = "notfound"
        BY Zenon, <1>1, <2>4 DEF Say, Answer, Answers, Requests
      <3>2. Over(job.shell)'
        BY Zenon, <2>1, <2>4 DEF Over, Running, service, ServiceInv, Phases
      <3>3. Told(a)'
        BY Zenon, <2>1, <3>1, <3>2 DEF Told
      <3> QED BY Zenon, <3>1, <3>3
    <2> QED BY ZenonT(20), <1>4, <2>2, <2>3, <2>4 DEF ExecuteAttach
  <1>5. CASE r.op = "list" /\ ExecuteList(r, TRUE)
    <2>1. pc = "checking" /\ r.shell = job.shell /\ job.shell \in Shells /\ phase[job.shell] # "none"
      BY Zenon, <1>5 DEF Asked, JobInv
    <2>0. PICK a : a = [code |-> IF Running(r.shell) THEN "ok" ELSE "notfound", shell |-> r.shell, token |-> 0]
      BY ZenonT(20)
    <2>2. reply' = <<a>> /\ a \in Answers /\ a.code = IF Running(r.shell) THEN "ok" ELSE "notfound"
      BY Zenon, <1>1, <1>5, <2>0 DEF Say, Answer, Answers, Requests, ExecuteList
    <2>3. UNCHANGED service
      BY Zenon, <1>5 DEF ExecuteList
    <2>4. IF a.code = "ok" THEN job.shell \in Known' ELSE Over(job.shell)'
      BY Zenon, <2>1, <2>2, <2>3 DEF Over, Running, service, ServiceInv, Phases, Known
    <2>5. Told(a)'
      BY Zenon, <2>1, <2>2, <2>4 DEF Told
    <2> QED BY Zenon, <2>2, <2>5
  <1>6. CASE r.op = "terminate" /\ ExecuteTerminate(r, TRUE)
    <2>1. pc = "terminating" /\ r.shell = job.shell /\ job.shell \in Shells
      BY Zenon, <1>6 DEF Asked, JobInv
    <2>2. ASSUME NEW c \in {"failed", "notfound"}, Say(TRUE, Answer(c, r.shell, 0))
          PROVE  \E a \in Answers : reply' = <<a>> /\ Told(a)'
      <3> DEFINE a == [code |-> c, shell |-> r.shell, token |-> 0]
      <3>1. reply' = <<a>> /\ a \in Answers /\ a.code = c
        BY Zenon, <1>1, <2>2 DEF Say, Answer, Answers, Requests
      <3>2. Told(a)'
        BY Zenon, <2>1, <3>1 DEF Told
      <3> QED BY Zenon, <3>1, <3>2
    <2>3. CASE phase' = [phase EXCEPT ![r.shell] = "ended"] /\ Say(TRUE, Answer("ok", r.shell, 0))
      <3> DEFINE a == [code |-> "ok", shell |-> r.shell, token |-> 0]
      <3>1. reply' = <<a>> /\ a \in Answers
        BY Zenon, <1>1, <2>3 DEF Say, Answer, Answers, Requests
      <3>2. Over(job.shell)'
        BY Zenon, <2>1, <2>3 DEF Over, ServiceInv
      <3>3. Told(a)'
        BY Zenon, <2>1, <3>2 DEF Told
      <3> QED BY Zenon, <3>1, <3>3
    <2> QED BY ZenonT(20), <1>6, <2>2, <2>3 DEF ExecuteTerminate
  <1> QED BY ZenonT(20), <1>3, <1>4, <1>5, <1>6 DEF Execute

-----------------------------------------------------------------------------
(* The daemon's steps                                                      *)

\* The late requests that are left stay harmless when one was executed.
LEMMA LateStays ==
    ASSUME LinkInv, ServiceInv, Forward, UNCHANGED client, NEW i \in DOMAIN late, late' = Rest(late, i)
    PROVE  late' \in Seq(Requests) /\ \A j \in DOMAIN late' : Harmless(late[j])'
  <1>1. late' \in Seq(Requests) /\ \A j \in DOMAIN late' : \E l \in DOMAIN late : late'[j] = late[l]
    BY RemovedElements DEF LinkInv
  <1>2. ASSUME NEW j \in DOMAIN late' PROVE Harmless(late[j])'
    <2>1. PICK l \in DOMAIN late : late'[j] = late[l]
      BY Zenon, <1>1
    <2>2. PICK r : r = late[l]
      BY Zenon
    <2>3. Harmless(r)'
      BY Zenon, <2>2, ClientUnmoved DEF LinkInv
    <2>4. r = late'[j]
      BY Zenon, <2>1, <2>2
    <2> QED BY Zenon, <2>3, <2>4 DEF Harmless, Covered
  <1> QED BY Zenon, <1>1, <1>2

\* What the daemon does puts no shell out of reach if the key it binds is
\* covered.
LEMMA OrphanByDaemon ==
    ASSUME ServiceInv, NoSilentOrphan, Forward, UNCHANGED client,
           \A k \in OpenKeys : byKey'[k] # byKey[k] => Covered(k)
    PROVE  NoSilentOrphan'
  <1> SUFFICES ASSUME NEW k \in OpenKeys, byKey'[k] \in Shells, Running(byKey[k])'
               PROVE  \/ k \in journal
                      \/ Recorded(byKey[k])' /\ record[byKey'[k]].key = k
                      \/ k \in givenUp
    BY Zenon DEF NoSilentOrphan, client
  <1>1. CASE byKey'[k] = byKey[k]
    <2>1. Running(byKey[k])
      BY Zenon, <1>1 DEF ServiceInv, Forward, Running
    <2> QED BY Zenon, <1>1, <2>1 DEF NoSilentOrphan, client, Recorded
  <1>2. CASE byKey'[k] # byKey[k]
    BY Zenon, <1>2 DEF Covered, Forward
  <1> QED BY Zenon, <1>1, <1>2

\* Executing the request on the wire keeps the invariant.
LEMMA ServeResume ==
    ASSUME ResumeInv, Serve, UNCHANGED client PROVE ResumeInv'
  <1> USE DEF ResumeInv
  <1>1. PICK r : r = wire[1]
    BY Zenon
  <1>2. Harmless(r) /\ Asked(r) /\ Execute(r, TRUE)
    BY ZenonT(20), <1>1 DEF Serve, LinkInv
  <1>3. /\ ServiceInv' /\ Forward
        /\ \A k \in OpenKeys : byKey'[k] # byKey[k] => r.op = "open" /\ k = r.key
    BY ZenonT(20), <1>2, ExecuteForward
  <1>4. StoreInv' /\ JobInv'
    BY Zenon, <1>3, ClientUnmoved
  <1>5. NoSilentOrphan'
    BY Zenon, <1>2, <1>3, OrphanByDaemon DEF Harmless
  <1>6. PICK a \in Answers : reply' = <<a>> /\ Told(a)'
    BY ZenonT(20), <1>2, ExecuteTells
  <1>7. reply'[1] = a
    BY Zenon, <1>6
  <1>8. Told(reply[1])'
    BY Zenon, <1>6, <1>7 DEF Told
  <1>9. late' \in Seq(Requests) /\ \A j \in DOMAIN late' : Harmless(late[j])'
    <2>1. ASSUME NEW j \in DOMAIN late PROVE Harmless(late[j])'
      <3>1. PICK x : x = late[j]
        BY Zenon
      <3>2. Harmless(x)'
        BY Zenon, <1>3, <3>1, ClientUnmoved DEF LinkInv
      <3>3. x = late'[j]
        BY Zenon, <3>1 DEF Serve
      <3> QED BY Zenon, <3>2, <3>3 DEF Harmless, Covered
    <2> QED BY Zenon, <2>1 DEF Serve, LinkInv
  <1>10. LinkInv'
    BY Zenon, <1>6, <1>7, <1>8, <1>9 DEF LinkInv, Serve
  <1> QED BY Zenon, <1>3, <1>4, <1>5, <1>10

\* A link whose requests and replies stay as they are, while the daemon moves.
LEMMA LinkUnmoved ==
    ASSUME LinkInv, JobInv, ServiceInv, Forward, UNCHANGED client, UNCHANGED <<wire, reply>>,
           late' \in Seq(Requests), \A j \in DOMAIN late' : Harmless(late[j])'
    PROVE  LinkInv'
  <1>1. ASSUME wire # <<>> PROVE wire' = <<wire'[1]>> /\ Harmless(wire[1])' /\ Asked(wire[1])'
    <2>1. PICK r : r = wire[1]
      BY Zenon
    <2>2. Harmless(r)' /\ Asked(r)' /\ wire = <<r>>
      BY Zenon, <1>1, <2>1, ClientUnmoved DEF LinkInv
    <2>3. r = wire'[1]
      BY Zenon, <2>1
    <2> QED BY Zenon, <2>2, <2>3 DEF Harmless, Covered, Asked
  <1>2. ASSUME reply # <<>> PROVE reply' = <<reply'[1]>> /\ reply'[1] \in Answers /\ Told(reply[1])'
    <2>1. PICK a : a = reply[1]
      BY Zenon
    <2>2. Told(a)' /\ reply = <<a>> /\ a \in Answers
      BY Zenon, <1>2, <2>1, ClientUnmoved DEF LinkInv
    <2>3. a = reply'[1]
      BY Zenon, <2>1
    <2> QED BY Zenon, <2>2, <2>3 DEF Told
  <1>3. \A j \in DOMAIN late' : Harmless(late[j])'
    <2> TAKE j \in DOMAIN late'
    <2>1. Harmless(late[j])'
      BY Zenon
    <2> QED BY Zenon, <2>1 DEF Harmless, Covered
  <1> QED BY Zenon, <1>1, <1>2, <1>3 DEF LinkInv

\* Executing a late request keeps the invariant.
LEMMA LateResume ==
    ASSUME ResumeInv, NEW i \in DOMAIN late, ServeLate(i), UNCHANGED client PROVE ResumeInv'
  <1> USE DEF ResumeInv
  <1>1. PICK r : r = late[i]
    BY Zenon
  <1>2. Harmless(r) /\ Execute(r, FALSE)
    BY ZenonT(20), <1>1 DEF ServeLate, LinkInv
  <1>3. /\ ServiceInv' /\ Forward
        /\ \A k \in OpenKeys : byKey'[k] # byKey[k] => r.op = "open" /\ k = r.key
    BY ZenonT(20), <1>2, ExecuteForward
  <1>4. StoreInv' /\ JobInv'
    BY Zenon, <1>3, ClientUnmoved
  <1>5. NoSilentOrphan'
    BY Zenon, <1>2, <1>3, OrphanByDaemon DEF Harmless
  <1>6. UNCHANGED <<wire, reply>>
    BY ZenonT(20), <1>2 DEF ServeLate, Execute, ExecuteOpen, ExecuteAttach, ExecuteList, ExecuteTerminate, Say
  <1>7. late' \in Seq(Requests) /\ \A j \in DOMAIN late' : Harmless(late[j])'
    BY ZenonT(60), <1>3, LateStays DEF ServeLate, Rest
  <1>8. LinkInv'
    BY Zenon, <1>3, <1>6, <1>7, LinkUnmoved
  <1> QED BY Zenon, <1>3, <1>4, <1>5, <1>8

\* The end of a shell keeps the invariant.
LEMMA EndResume ==
    ASSUME ResumeInv, NEW s \in Shells, ShellEnds(s), UNCHANGED client PROVE ResumeInv'
  <1> USE DEF ResumeInv
  <1>1. ServiceInv' /\ Forward /\ \A k \in OpenKeys : byKey'[k] = byKey[k]
    BY Zenon DEF ShellEnds, End, ServiceInv, Forward, Phases
  <1>2. StoreInv' /\ JobInv'
    BY ZenonT(20), <1>1, ClientUnmoved
  <1>3. NoSilentOrphan'
    BY Zenon, <1>1, OrphanByDaemon
  <1>4. UNCHANGED <<wire, reply, late>>
    BY Zenon DEF ShellEnds, link
  <1>5. late' \in Seq(Requests) /\ \A j \in DOMAIN late' : Harmless(late[j])'
    <2>1. ASSUME NEW j \in DOMAIN late PROVE Harmless(late[j])'
      <3>1. PICK x : x = late[j]
        BY Zenon
      <3>2. Harmless(x)'
        BY Zenon, <1>1, <3>1, ClientUnmoved DEF LinkInv
      <3>3. x = late'[j]
        BY Zenon, <3>1, <1>4
      <3> QED BY Zenon, <3>2, <3>3 DEF Harmless, Covered
    <2> QED BY Zenon, <1>4, <2>1 DEF LinkInv
  <1>6. LinkInv'
    BY Zenon, <1>1, <1>4, <1>5, LinkUnmoved
  <1> QED BY Zenon, <1>1, <1>2, <1>3, <1>6

\* A restart of the daemon keeps the invariant.
LEMMA RestartResume ==
    ASSUME ResumeInv, Restart PROVE ResumeInv'
  <1> USE DEF ResumeInv, Restart, RestartDaemon, client
  <1>1. ServiceInv'
    BY Zenon, ResumeAssumption DEF ServiceInv, Phases, Known
  <1>2. wire = <<>> /\ reply = <<>> /\ pc \in {"down", "offline"}
    BY Zenon DEF LinkInv, Asked, Told, Connected
  <1>3. LinkInv'
    BY <1>2 DEF LinkInv
  <1>4. \A s \in Shells : s \notin Known' /\ (phase[s] # "none" => phase'[s] # "none")
    BY Zenon DEF ServiceInv, Known
  <1>5. StoreInv'
    BY Zenon, <1>4 DEF StoreInv, Recorded
  <1>6. JobInv'
    BY Zenon, <1>2 DEF JobInv
  <1>7. NoSilentOrphan'
    BY Zenon, <1>4 DEF NoSilentOrphan, Running, Known
  <1> QED BY Zenon, <1>1, <1>3, <1>5, <1>6, <1>7

-----------------------------------------------------------------------------
(* The client's steps.  The service does not move; what a store call leaves*)
(* covered, and what is under way afterwards, is all there is to check.    *)

Keeps == \A k \in OpenKeys : Covered(k) => Covered(k)'
StoreFine == StoreInv' /\ NoSilentOrphan' /\ Keeps

\* A step that leaves the store alone keeps it fine.
LEMMA StoreSame ==
    ASSUME StoreInv, NoSilentOrphan, UNCHANGED <<service, journal, record>>, givenUp \subseteq givenUp'
    PROVE  StoreFine
  <1>1. StoreInv'
    BY Zenon DEF StoreInv, service, Recorded, Known
  <1>2. NoSilentOrphan'
    BY Zenon DEF NoSilentOrphan, service, Recorded, Running
  <1>3. Keeps
    BY Zenon DEF Keeps, Covered, service, Known
  <1> QED BY Zenon, <1>1, <1>2, <1>3 DEF StoreFine

\* push_pending_open covers its key.
LEMMA StorePushes ==
    ASSUME StoreInv, NoSilentOrphan, NEW k \in OpenKeys, push_pending_open(k), UNCHANGED <<service, givenUp>>
    PROVE  StoreFine /\ Covered(k)'
  <1> USE DEF push_pending_open
  <1>1. StoreInv'
    BY Zenon DEF StoreInv, service, Recorded, Known
  <1>2. NoSilentOrphan'
    BY Zenon DEF NoSilentOrphan, service, Recorded, Running
  <1>3. Keeps /\ Covered(k)'
    BY Zenon DEF Keeps, Covered, service, Known
  <1> QED BY Zenon, <1>1, <1>2, <1>3 DEF StoreFine

\* Dropping keys that are thereby given up keeps the store fine.
LEMMA StoreDrops ==
    ASSUME StoreInv, NoSilentOrphan, UNCHANGED <<service, record>>, NEW D,
           journal' = journal \ D, givenUp' = givenUp \cup D
    PROVE  StoreFine
  <1>1. StoreInv'
    BY Zenon DEF StoreInv, service, Recorded, Known
  <1>2. NoSilentOrphan'
    BY Zenon DEF NoSilentOrphan, service, Recorded, Running
  <1>3. Keeps
    BY Zenon DEF Keeps, Covered, service, Known
  <1> QED BY Zenon, <1>1, <1>2, <1>3 DEF StoreFine

\* resolve_pending_open replaces a key's cover by the shell's record.
LEMMA StoreResolves ==
    ASSUME StoreInv, ServiceInv, NoSilentOrphan, UNCHANGED <<service, givenUp>>,
           NEW k \in OpenKeys, NEW s \in Known, NEW t \in Nat, t > 0, byKey[k] = s,
           resolve_pending_open(k, s, t)
    PROVE  StoreFine
  <1> USE DEF resolve_pending_open
  <1>0. s \in Shells /\ phase[s] # "none"
    BY Zenon DEF Known
  <1>1. \A x \in Shells : record'[x] = IF x = s THEN [token |-> t, key |-> k] ELSE record[x]
    BY Zenon DEF StoreInv
  <1>2. StoreInv'
    <2>1. journal' \subseteq OpenKeys /\ record' \in [Shells -> [token : Nat, key : OpenKeys \cup {NoKey}]]
      BY Zenon, <1>0 DEF StoreInv
    <2> QED BY Zenon, <1>0, <1>1, <2>1 DEF StoreInv, service, Recorded, Known
  <1>3. NoSilentOrphan'
    <2> SUFFICES ASSUME NEW l \in OpenKeys, byKey[l] \in Shells, Running(byKey[l])
                 PROVE  \/ l \in journal'
                        \/ Recorded(byKey[l])' /\ record'[byKey[l]].key = l
                        \/ l \in givenUp
      BY Zenon DEF NoSilentOrphan, service, Running
    <2>1. CASE l = k
      BY <1>0, <1>1, <2>1 DEF Recorded, service
    <2>2. CASE l # k
      <3>1. byKey[l] # s
        BY Zenon, <1>0, <2>2 DEF ServiceInv
      <3> QED BY Zenon, <1>1, <2>2, <3>1 DEF NoSilentOrphan, Recorded, service
    <2> QED BY Zenon, <2>1, <2>2
  <1>4. Keeps
    BY Zenon DEF Keeps, Covered, service, Known
  <1> QED BY Zenon, <1>2, <1>3, <1>4 DEF StoreFine

\* update_token keeps the store fine.
LEMMA StoreUpdates ==
    ASSUME StoreInv, NoSilentOrphan, UNCHANGED <<service, givenUp>>,
           NEW s \in Shells, NEW t \in Nat, t > 0, update_token(s, t)
    PROVE  StoreFine
  <1> USE DEF update_token
  <1>0. record[s].token \in Nat /\ record[s].key \in OpenKeys \cup {NoKey}
        /\ record[s] = [token |-> record[s].token, key |-> record[s].key]
    BY Zenon DEF StoreInv
  <1>1. \A x \in Shells : record'[x] = IF x = s /\ record[s].token > 0
                                       THEN [token |-> t, key |-> record[s].key] ELSE record[x]
    BY <1>0 DEF StoreInv
  <1>2. \A x \in Shells : /\ record'[x] \in [token : Nat, key : OpenKeys \cup {NoKey}]
                          /\ record'[x].key = record[x].key
                          /\ (record'[x].token > 0) <=> (record[x].token > 0)
    BY Zenon, <1>0, <1>1 DEF StoreInv
  <1>3. record' \in [Shells -> [token : Nat, key : OpenKeys \cup {NoKey}]]
    BY Zenon, <1>2 DEF StoreInv
  <1>4. StoreInv'
    BY Zenon, <1>2, <1>3 DEF StoreInv, service, Recorded, Known
  <1>5. NoSilentOrphan'
    BY Zenon, <1>2 DEF NoSilentOrphan, service, Recorded, Running
  <1>6. Keeps
    BY Zenon DEF Keeps, Covered, service, Known
  <1> QED BY Zenon, <1>4, <1>5, <1>6 DEF StoreFine

\* remove_shell keeps the store fine where the shell is over or its key given
\* up.
LEMMA StoreRemoves ==
    ASSUME StoreInv, NoSilentOrphan, UNCHANGED service, givenUp \subseteq givenUp',
           NEW s \in Shells, remove_shell(s),
           \A k \in OpenKeys : byKey[k] = s /\ Running(s) => k \in givenUp'
    PROVE  StoreFine
  <1> USE DEF remove_shell, NoRecord
  <1>1. \A x \in Shells : record'[x] = IF x = s THEN [token |-> 0, key |-> NoKey] ELSE record[x]
    BY Zenon DEF StoreInv
  <1>2. StoreInv'
    <2>1. record' \in [Shells -> [token : Nat, key : OpenKeys \cup {NoKey}]]
      BY Zenon DEF StoreInv
    <2> QED BY <1>1, <2>1, SMTT(40) DEF StoreInv, service, Recorded, Known
  <1>3. NoSilentOrphan'
    BY Zenon, <1>1 DEF NoSilentOrphan, service, Recorded, Running
  <1>4. Keeps
    BY Zenon DEF Keeps, Covered, service, Known
  <1> QED BY Zenon, <1>2, <1>3, <1>4 DEF StoreFine

\* Late requests stay harmless, also when the request under way joins them.
LEMMA LateKept ==
    ASSUME LinkInv, Keeps, late' = late \/ (wire # <<>> /\ late' = late \o wire)
    PROVE  late' \in Seq(Requests) /\ \A j \in DOMAIN late' : Harmless(late[j])'
  <1>1. ASSUME NEW r, Harmless(r) PROVE Harmless(r)'
    BY Zenon, <1>1 DEF Harmless, Keeps
  <1>2. ASSUME NEW j \in DOMAIN late', NEW r, Harmless(r), r = late'[j] PROVE Harmless(late[j])'
    <2>1. Harmless(r)'
      BY Zenon, <1>1, <1>2
    <2> QED BY Zenon, <1>2, <2>1 DEF Harmless, Covered
  <1>3. CASE late' = late
    BY Zenon, <1>2, <1>3 DEF LinkInv
  <1>4. CASE wire # <<>> /\ late' = late \o wire
    <2>1. PICK r : r = wire[1]
      BY Zenon
    <2>2. wire = <<r>> /\ Harmless(r) /\ r \in Requests
      BY Zenon, <1>4, <2>1 DEF LinkInv, Harmless
    <2>3. late' = Append(late, r) /\ late \in Seq(Requests)
      BY Zenon, <1>4, <2>2, AppendIsConcat DEF LinkInv
    <2>4. late' \in Seq(Requests) /\ DOMAIN late' = 1 .. (Len(late) + 1)
          /\ late'[Len(late) + 1] = r /\ \A j \in 1 .. Len(late) : late'[j] = late[j]
      BY <2>2, <2>3
    <2>5. ASSUME NEW j \in DOMAIN late' PROVE Harmless(late[j])'
      <3>1. CASE j = Len(late) + 1
        BY Zenon, <1>2, <2>2, <2>4, <3>1
      <3>2. CASE j # Len(late) + 1
        <4>1. j \in 1 .. Len(late)
          BY <2>3, <2>4, <3>2
        <4>2. PICK x : x = late[j]
          BY Zenon
        <4>3. Harmless(x) /\ x = late'[j]
          BY <2>3, <2>4, <4>1, <4>2 DEF LinkInv
        <4> QED BY Zenon, <1>2, <4>3
      <3> QED BY Zenon, <3>1, <3>2
    <2> QED BY Zenon, <2>4, <2>5
  <1> QED BY Zenon, <1>3, <1>4

\* A link without a request or a reply keeps its invariant.
LEMMA LinkQuiet ==
    ASSUME LinkInv, Keeps, wire' = <<>>, reply' = <<>>,
           late' = late \/ (wire # <<>> /\ late' = late \o wire)
    PROVE  LinkInv'
  BY Zenon, LateKept DEF LinkInv

\* Sending a harmless request that the supervisor waits for keeps the link's
\* invariant.
LEMMA LinkSends ==
    ASSUME LinkInv, Keeps, late' = late, NEW op, NEW k, NEW s, NEW t, Send(op, k, s, t),
           NEW r, r = [op |-> op, key |-> k, shell |-> s, token |-> t], Harmless(r)', Asked(r)'
    PROVE  LinkInv'
  <1>1. late' \in Seq(Requests) /\ \A j \in DOMAIN late' : Harmless(late[j])'
    BY Zenon, LateKept
  <1>2. wire' = <<r>> /\ wire'[1] = r /\ reply' = <<>>
    BY Zenon DEF Send, Request
  <1>3. Harmless(wire[1])' /\ Asked(wire[1])'
    BY Zenon, <1>2 DEF Harmless, Asked, Covered
  <1> QED BY Zenon, <1>1, <1>2, <1>3 DEF LinkInv

\* A step that leaves the link and the supervisor's place alone keeps the
\* link's invariant.
LEMMA LinkSame ==
    ASSUME LinkInv, Keeps, UNCHANGED <<service, link, pc, job>>
    PROVE  LinkInv'
  <1>1. late' \in Seq(Requests) /\ \A j \in DOMAIN late' : Harmless(late[j])'
    BY Zenon, LateKept DEF link
  <1>2. wire' = wire /\ reply' = reply
    BY Zenon DEF link
  <1>3. wire # <<>> => Harmless(wire[1])'
    BY Zenon, <1>2 DEF LinkInv, Harmless, Keeps
  <1>4. wire # <<>> => Asked(wire[1])'
    BY Zenon, <1>2 DEF LinkInv, Asked
  <1>5. reply # <<>> => Told(reply[1])'
    BY Zenon, <1>2 DEF LinkInv, Told, service, Known, Over
  <1> QED BY Zenon, <1>1, <1>2, <1>3, <1>4, <1>5 DEF LinkInv

\* A step that leaves the daemon alone keeps its invariant.
LEMMA ServiceSame == ASSUME ServiceInv, UNCHANGED service PROVE ServiceInv'
  BY Zenon DEF ServiceInv, service

\* A supervisor without a job keeps the invariant of its job.
LEMMA JobIdle ==
    ASSUME JobInv, job' = NoJob, pc' \in {"ready", "down", "offline"}
    PROVE  JobInv'
  BY Zenon DEF JobInv, NoJob

\* A step that leaves the job and the service alone.
LEMMA JobSame ==
    ASSUME JobInv, Keeps, UNCHANGED <<service, pc, job>>
    PROVE  JobInv'
  BY Zenon DEF JobInv, Keeps, service, Known

\* A finished command.
LEMMA Finished ==
    ASSUME ResumeInv, UNCHANGED service, StoreFine, Back, late' = late
    PROVE  ResumeInv'
  BY Zenon, ServiceSame, JobIdle, LinkQuiet DEF ResumeInv, StoreFine, Back, Heard

\* Starting, connecting and taking the next pending open keep the invariant.
LEMMA ConnectsResume ==
    ASSUME ResumeInv, StartUp \/ Connect \/ ResolveNext PROVE ResumeInv'
  <1> USE DEF ResumeInv
  <1>1. UNCHANGED <<service, journal, record, givenUp>>
    BY Zenon DEF StartUp, Connect, ResolveNext
  <1>2. ServiceInv' /\ StoreFine
    BY Zenon, <1>1, ServiceSame, StoreSame
  <1>3. Keeps /\ StoreInv' /\ NoSilentOrphan'
    BY Zenon, <1>2 DEF StoreFine
  <1>4. CASE StartUp
    <2>1. wire = <<>> /\ reply = <<>>
      BY Zenon, <1>4 DEF StartUp, LinkInv, Asked, Told
    <2>2. LinkInv'
      BY Zenon, <1>3, <1>4, <2>1, LinkQuiet DEF StartUp, link
    <2>3. JobInv'
      BY Zenon, <1>4 DEF StartUp, JobInv
    <2> QED BY Zenon, <1>2, <1>3, <2>2, <2>3
  <1>5. CASE Connect
    <2>1. wire = <<>> /\ reply = <<>>
      BY Zenon, <1>5 DEF Connect, LinkInv, Asked, Told
    <2>2. LinkInv'
      BY Zenon, <1>3, <1>5, <2>1, LinkQuiet DEF Connect, link
    <2>3. job' = [key |-> NoKey, shell |-> NoShell, recovered |-> FALSE, todo |-> journal]
      BY ZenonT(20), <1>5 DEF Connect, NoJob
    <2>4. \A k \in journal : Covered(k)'
      BY Zenon, <1>1 DEF Covered
    <2>t. /\ job'.todo = journal
          /\ job' \in [key : OpenKeys \cup {NoKey}, shell : Shells \cup {NoShell},
                         recovered : BOOLEAN, todo : SUBSET OpenKeys]
      BY Zenon, <2>3 DEF StoreInv
    <2>5. JobInv'
      BY Zenon, <1>5, <2>4, <2>t DEF Connect, JobInv
    <2> QED BY Zenon, <1>2, <1>3, <2>2, <2>5
  <1>6. CASE ResolveNext
    <2>1. CASE job.todo = {} /\ pc' = "ready" /\ job' = NoJob /\ UNCHANGED <<wire, reply>>
      <3>1. LinkInv'
        BY Zenon, <1>3, <1>6, <2>1, LinkQuiet DEF ResolveNext, Quiet
      <3> QED BY Zenon, <1>2, <1>3, <2>1, <3>1, JobIdle
    <2>2. CASE \E k \in job.todo : /\ Send("open", k, NoShell, 0)
                                   /\ job' = [job EXCEPT !.key = k] /\ UNCHANGED pc
      <3>1. PICK k \in job.todo : /\ Send("open", k, NoShell, 0)
                                  /\ job' = [job EXCEPT !.key = k] /\ UNCHANGED pc
        BY Zenon, <2>2
      <3>2. pc = "resolving" /\ pc' = "resolving" /\ k \in OpenKeys /\ Covered(k)
        BY Zenon, <1>6, <3>1 DEF ResolveNext, JobInv
      <3>3. /\ job'.key = k /\ job'.todo = job.todo
            /\ job' \in [key : OpenKeys \cup {NoKey}, shell : Shells \cup {NoShell},
                         recovered : BOOLEAN, todo : SUBSET OpenKeys]
        BY Zenon, <3>1, <3>2 DEF JobInv
      <3>4. JobInv'
        BY Zenon, <1>3, <3>2, <3>3 DEF JobInv, Keeps
      <3>5. PICK r : r = [op |-> "open", key |-> k, shell |-> NoShell, token |-> 0]
        BY ZenonT(20)
      <3>6. Harmless(r)' /\ Asked(r)'
        BY Zenon, <1>3, <3>2, <3>3, <3>5 DEF Harmless, Asked, Keeps, Requests
      <3>7. LinkInv'
        BY Zenon, <1>3, <1>6, <3>1, <3>5, <3>6, LinkSends DEF ResolveNext
      <3> QED BY Zenon, <1>2, <1>3, <3>4, <3>7
    <2> QED BY Zenon, <1>6, <2>1, <2>2 DEF ResolveNext
  <1> QED BY Zenon, <1>4, <1>5, <1>6

\* The reply to an OpenShell, in the reconnect loop or to a command.
LEMMA OpenDoneFine ==
    ASSUME ResumeInv, reply # <<>>, pc \in {"resolving", "opening"}, OpenDone(job.key), UNCHANGED service
    PROVE  StoreFine
  <1> USE DEF ResumeInv
  <1>1. reply[1] \in Answers /\ job.key \in OpenKeys
        /\ (reply[1].code = "ok" => /\ reply[1].shell = byKey[job.key]
                                    /\ reply[1].shell \in Known /\ reply[1].token > 0)
    BY Zenon DEF LinkInv, Told
  <1>2. reply[1].token \in Nat
    BY Zenon, <1>1 DEF Answers
  <1>3. CASE UNCHANGED <<journal, record, givenUp>>
    BY Zenon, <1>3, StoreSame
  <1>4. CASE reply[1].code = "ok" /\ resolve_pending_open(job.key, reply[1].shell, reply[1].token) /\ UNCHANGED givenUp
    BY Zenon, <1>1, <1>2, <1>4, StoreResolves
  <1>5. CASE drop_pending_open(job.key) /\ givenUp' = givenUp \cup {job.key}
    BY ZenonT(20), <1>5, StoreDrops DEF drop_pending_open
  <1> QED BY Zenon, <1>3, <1>4, <1>5 DEF OpenDone, Try, NotSaved, GiveUp

\* An open, its reply and the reply of a pending one keep the invariant.
LEMMA OpensResume ==
    ASSUME ResumeInv, ResolveReply \/ OpenReply \/ \E k \in OpenKeys : OpenCmd(k) PROVE ResumeInv'
  <1> USE DEF ResumeInv
  <1>1. CASE ResolveReply
    <2>1. StoreFine
      BY Zenon, <1>1, OpenDoneFine DEF ResolveReply, Answered
    <2>2. ServiceInv' /\ Keeps /\ StoreInv' /\ NoSilentOrphan'
      BY Zenon, <1>1, <2>1, ServiceSame DEF ResolveReply, StoreFine
    <2>3. LinkInv'
      BY Zenon, <1>1, <2>2, LinkQuiet DEF ResolveReply, Heard
    <2>4. pc' = "resolving" /\ job' = [key |-> NoKey, shell |-> NoShell, recovered |-> FALSE,
                                      todo |-> job.todo \ {job.key}]
      BY ZenonT(20), <1>1 DEF ResolveReply, NoJob, Answered
    <2>5. \A k \in job.todo : k \in OpenKeys /\ Covered(k)'
      BY Zenon, <1>1, <2>2 DEF JobInv, Keeps, ResolveReply, Answered
    <2>6. JobInv'
      BY Zenon, <2>4, <2>5 DEF JobInv
    <2> QED BY Zenon, <2>2, <2>3, <2>6
  <1>2. CASE OpenReply
    <2>1. StoreFine
      BY Zenon, <1>2, OpenDoneFine DEF OpenReply, Answered
    <2> QED BY Zenon, <1>2, <2>1, Finished DEF OpenReply, Back
  <1>3. ASSUME NEW k \in OpenKeys, OpenCmd(k) PROVE ResumeInv'
    <2>1. UNCHANGED service /\ late' = late /\ pc = "ready"
      BY Zenon, <1>3 DEF OpenCmd
    <2>2. CASE NotSaved /\ UNCHANGED <<wire, reply, pc, job>>
      <3>1. StoreFine
        BY Zenon, <1>3, <2>1, <2>2, StoreSame DEF OpenCmd, NotSaved
      <3> QED BY Zenon, <2>1, <2>2, <3>1, ServiceSame, LinkSame, JobSame DEF StoreFine, link
    <2>3. CASE /\ push_pending_open(k) /\ Send("open", k, NoShell, 0)
               /\ pc' = "opening" /\ job' = [NoJob EXCEPT !.key = k]
      <3>1. StoreFine /\ Covered(k)'
        BY Zenon, <1>3, <2>1, <2>3, StorePushes DEF OpenCmd
      <3>2. ServiceInv' /\ Keeps /\ StoreInv' /\ NoSilentOrphan'
        BY Zenon, <2>1, <3>1, ServiceSame DEF StoreFine
      <3>3. job' = [key |-> k, shell |-> NoShell, recovered |-> FALSE, todo |-> {}]
        BY ZenonT(20), <2>3 DEF NoJob
      <3>t. job' \in [key : OpenKeys \cup {NoKey}, shell : Shells \cup {NoShell},
                         recovered : BOOLEAN, todo : SUBSET OpenKeys]
        BY Zenon, <3>3
      <3>4. JobInv'
        BY Zenon, <2>3, <3>t DEF JobInv
      <3>5. PICK r : r = [op |-> "open", key |-> k, shell |-> NoShell, token |-> 0]
        BY ZenonT(20)
      <3>6. Harmless(r)' /\ Asked(r)'
        BY Zenon, <2>3, <3>1, <3>3, <3>5 DEF Harmless, Asked, Requests
      <3>7. LinkInv'
        BY Zenon, <2>1, <2>3, <3>2, <3>5, <3>6, LinkSends
      <3> QED BY Zenon, <3>2, <3>4, <3>7
    <2> QED BY Zenon, <1>3, <2>2, <2>3 DEF OpenCmd
  <1> QED BY Zenon, <1>1, <1>2, <1>3

\* The user's attach keeps the invariant.
LEMMA AttachCmdResume ==
    ASSUME ResumeInv, NEW s \in Shells, AttachCmd(s) PROVE ResumeInv'
  <1> USE DEF ResumeInv
  <1>1. UNCHANGED <<service, late, journal, record, givenUp>> /\ pc' = "attaching"
    BY Zenon DEF AttachCmd
  <1>2. ServiceInv' /\ Keeps /\ StoreInv' /\ NoSilentOrphan'
    BY Zenon, <1>1, ServiceSame, StoreSame DEF StoreFine
  <1>3. job' = [key |-> record[s].key, shell |-> s, recovered |-> FALSE, todo |-> {}]
    BY ZenonT(20) DEF AttachCmd, NoJob
  <1>4. /\ record[s].key \in OpenKeys /\ phase[s] # "none" /\ record[s].token \in Nat
        /\ s \in Known => byKey[record[s].key] = s
    BY Zenon DEF AttachCmd, StoreInv
  <1>5. JobInv'
    BY ZenonT(20), <1>1, <1>3, <1>4 DEF JobInv, service, Known
  <1>6. PICK r : r = [op |-> "attach", key |-> NoKey, shell |-> s, token |-> record[s].token]
    BY ZenonT(20)
  <1>7. Harmless(r)' /\ Asked(r)'
    BY ZenonT(20), <1>1, <1>3, <1>4, <1>6 DEF Harmless, Asked, Requests
  <1>8. PICK t : t = record[s].token
    BY Zenon
  <1>9. Send("attach", NoKey, s, t) /\ r = [op |-> "attach", key |-> NoKey, shell |-> s, token |-> t]
    BY Zenon, <1>6, <1>8 DEF AttachCmd
  <1>10. LinkInv'
    BY Zenon, <1>1, <1>2, <1>7, <1>9, LinkSends
  <1> QED BY Zenon, <1>2, <1>5, <1>10

\* Every reply to an attach keeps the invariant.
LEMMA AttachReplyResume ==
    ASSUME ResumeInv, AttachReply PROVE ResumeInv'
  <1> USE DEF ResumeInv
  <1>1. UNCHANGED service /\ late' = late /\ pc = "attaching" /\ reply # <<>>
    BY Zenon DEF AttachReply, Answered
  <1>2. /\ job.shell \in Shells /\ phase[job.shell] # "none" /\ job.key \in OpenKeys
        /\ job.shell \in Known => byKey[job.key] = job.shell
    BY Zenon, <1>1 DEF JobInv
  <1>3. /\ reply[1] \in Answers
        /\ reply[1].code = "ok" => reply[1].token > 0
        /\ reply[1].code = "notfound" => Over(job.shell)
    BY Zenon, <1>1 DEF LinkInv, Told
  <1>4. reply[1].token \in Nat
    BY Zenon, <1>3 DEF Answers
  <1>5. CASE /\ reply[1].code = "ok" /\ Try(update_token(job.shell, reply[1].token))
             /\ Back /\ UNCHANGED givenUp
    <2>1. StoreFine
      BY Zenon, <1>1, <1>2, <1>3, <1>4, <1>5, StoreUpdates, StoreSame DEF Try, NotSaved
    <2> QED BY Zenon, <1>1, <1>5, <2>1, Finished
  <1>6. CASE Back /\ UNCHANGED <<journal, record, givenUp>>
    <2>1. StoreFine
      BY Zenon, <1>1, <1>6, StoreSame
    <2> QED BY Zenon, <1>1, <1>6, <2>1, Finished
  <1>7. CASE /\ reply[1].code # "ok"
             /\ attach_failure_action(reply[1].code, ~job.recovered) = "forget"
             /\ Try(remove_shell(job.shell))
             /\ givenUp' = IF reply[1].code = "stale" THEN givenUp \cup {job.key} ELSE givenUp
             /\ Back
    <2>1. reply[1].code \in {"stale", "notfound"}
      BY Zenon, <1>7 DEF attach_failure_action
    <2>2. givenUp \subseteq givenUp'
      BY Zenon, <1>7
    <2>3. ASSUME NEW k \in OpenKeys, byKey[k] = job.shell, Running(job.shell) PROVE k \in givenUp'
      <3>1. reply[1].code = "stale"
        BY Zenon, <1>3, <2>1, <2>3 DEF Over, Running
      <3>2. byKey[job.key] = job.shell
        BY Zenon, <1>2, <2>3 DEF Running, Known
      <3>3. k = job.key
        BY Zenon, <1>2, <2>3, <3>2 DEF ServiceInv
      <3> QED BY Zenon, <1>7, <3>1, <3>3
    <2>4. StoreFine
      <3>1. CASE remove_shell(job.shell)
        BY Zenon, <1>1, <1>2, <2>2, <2>3, <3>1, StoreRemoves
      <3>2. CASE UNCHANGED <<journal, record>>
        BY Zenon, <1>1, <2>2, <3>2, StoreSame
      <3> QED BY Zenon, <1>7, <3>1, <3>2 DEF Try, NotSaved
    <2> QED BY Zenon, <1>1, <1>7, <2>4, Finished
  <1>8. CASE /\ Send("list", NoKey, job.shell, 0) /\ pc' = "checking"
             /\ job' = [job EXCEPT !.recovered = TRUE] /\ UNCHANGED <<journal, record, givenUp>>
    <2>1. ServiceInv' /\ Keeps /\ StoreInv' /\ NoSilentOrphan'
      BY Zenon, <1>1, <1>8, ServiceSame, StoreSame DEF StoreFine
    <2>2. /\ job'.shell = job.shell /\ job'.key = job.key
          /\ job' \in [key : OpenKeys \cup {NoKey}, shell : Shells \cup {NoShell},
                       recovered : BOOLEAN, todo : SUBSET OpenKeys]
      BY ZenonT(20), <1>8 DEF JobInv
    <2>3. JobInv'
      BY Zenon, <1>1, <1>2, <1>8, <2>2 DEF JobInv, service, Known
    <2>4. PICK s : s = job.shell
      BY Zenon
    <2>5. PICK r : r = [op |-> "list", key |-> NoKey, shell |-> s, token |-> 0]
      BY ZenonT(60)
    <2>6. Harmless(r)' /\ Asked(r)' /\ Send("list", NoKey, s, 0)
      BY Zenon, <1>2, <1>8, <2>2, <2>4, <2>5 DEF Harmless, Asked, Requests
    <2>7. LinkInv'
      BY Zenon, <1>1, <2>1, <2>5, <2>6, LinkSends
    <2> QED BY Zenon, <2>1, <2>3, <2>7
  <1> QED BY Zenon, <1>5, <1>6, <1>7, <1>8 DEF AttachReply

\* Every reply to the presence check keeps the invariant.
LEMMA CheckReplyResume ==
    ASSUME ResumeInv, CheckReply PROVE ResumeInv'
  <1> USE DEF ResumeInv
  <1>1. UNCHANGED <<service, givenUp>> /\ late' = late /\ pc = "checking" /\ reply # <<>>
    BY Zenon DEF CheckReply, Answered
  <1>2. /\ job.shell \in Shells /\ phase[job.shell] # "none" /\ job.key \in OpenKeys
        /\ job.shell \in Known => byKey[job.key] = job.shell
    BY Zenon, <1>1 DEF JobInv
  <1>3. IF reply[1].code = "ok" THEN job.shell \in Known ELSE Over(job.shell)
    BY Zenon, <1>1 DEF LinkInv, Told
  <1>4. CASE /\ reply[1].code = "ok" /\ Send("open", job.key, job.shell, 0) /\ pc' = "reopening"
             /\ UNCHANGED <<journal, record, job>>
    <2>1. ServiceInv' /\ Keeps /\ StoreInv' /\ NoSilentOrphan'
      BY Zenon, <1>1, <1>4, ServiceSame, StoreSame DEF StoreFine
    <2>2. JobInv'
      BY ZenonT(20), <1>1, <1>2, <1>3, <1>4 DEF JobInv, service, Known
    <2>3. PICK k, s : k = job.key /\ s = job.shell
      BY Zenon
    <2>4. PICK r : r = [op |-> "open", key |-> k, shell |-> s, token |-> 0]
      BY ZenonT(20)
    <2>5. Covered(k) /\ k \in OpenKeys /\ s \in Shells
      BY ZenonT(20), <1>2, <1>3, <1>4, <2>3 DEF Covered
    <2>6. r \in Requests /\ r.key = k /\ r.op = "open"
      BY Zenon, <2>4, <2>5 DEF Requests
    <2>7. Harmless(r)' /\ Asked(r)' /\ Send("open", k, s, 0)
      BY Zenon, <1>4, <2>1, <2>3, <2>5, <2>6 DEF Harmless, Asked, Keeps
    <2>8. LinkInv'
      BY Zenon, <1>1, <2>1, <2>4, <2>7, LinkSends
    <2> QED BY Zenon, <2>1, <2>2, <2>8
  <1>5. CASE reply[1].code # "ok" /\ Try(remove_shell(job.shell)) /\ Back
    <2>1. ~Running(job.shell)
      BY Zenon, <1>3, <1>5 DEF Over, Running
    <2>2. CASE remove_shell(job.shell)
      <3>1. StoreFine
        BY Zenon, <1>1, <1>2, <2>1, <2>2, StoreRemoves
      <3> QED BY Zenon, <1>1, <1>5, <3>1, Finished
    <2>3. CASE UNCHANGED <<journal, record>>
      <3>1. StoreFine
        BY Zenon, <1>1, <2>3, StoreSame
      <3> QED BY Zenon, <1>1, <1>5, <3>1, Finished
    <2> QED BY Zenon, <1>5, <2>2, <2>3 DEF Try, NotSaved
  <1> QED BY ZenonT(20), <1>4, <1>5 DEF CheckReply

\* Every reply to the re-open after the presence check keeps the invariant.
LEMMA ReopenReplyResume ==
    ASSUME ResumeInv, ReopenReply PROVE ResumeInv'
  <1> USE DEF ResumeInv
  <1>1. UNCHANGED <<service, givenUp>> /\ late' = late /\ pc = "reopening" /\ reply # <<>>
    BY Zenon DEF ReopenReply, Answered
  <1>2. /\ job.shell \in Shells /\ phase[job.shell] # "none" /\ job.key \in OpenKeys
        /\ byKey[job.key] = job.shell
    BY Zenon, <1>1 DEF JobInv
  <1>3. reply[1] \in Answers
        /\ (reply[1].code = "ok" => reply[1].shell = job.shell /\ reply[1].token > 0)
    BY Zenon, <1>1, <1>2 DEF LinkInv, Told
  <1>4. reply[1].token \in Nat
    BY Zenon, <1>3 DEF Answers
  <1>5. CASE reply[1].code # "ok"
    <2>1. Back /\ UNCHANGED <<journal, record>>
      BY Zenon, <1>5 DEF ReopenReply
    <2>2. StoreFine
      BY Zenon, <1>1, <2>1, StoreSame
    <2> QED BY Zenon, <1>1, <2>1, <2>2, Finished
  <1>6. CASE reply[1].code = "ok"
    <2>1. /\ Try(update_token(job.shell, reply[1].token))
          /\ Send("attach", NoKey, job.shell, reply[1].token)
          /\ pc' = "attaching" /\ UNCHANGED job
      BY Zenon, <1>3, <1>6 DEF ReopenReply
    <2>2. StoreFine
      BY Zenon, <1>1, <1>2, <1>3, <1>4, <1>6, <2>1, StoreUpdates, StoreSame DEF Try, NotSaved
    <2>3. ServiceInv' /\ Keeps /\ StoreInv' /\ NoSilentOrphan'
      BY Zenon, <1>1, <2>2, ServiceSame DEF StoreFine
    <2>4. JobInv'
      BY ZenonT(20), <1>1, <1>2, <2>1 DEF JobInv, service, Known
    <2>5. PICK s, t : s = job.shell /\ t = reply[1].token
      BY Zenon
    <2>6. PICK r : r = [op |-> "attach", key |-> NoKey, shell |-> s, token |-> t]
      BY ZenonT(20)
    <2>7. Harmless(r)' /\ Asked(r)' /\ Send("attach", NoKey, s, t)
      BY Zenon, <1>2, <1>4, <2>1, <2>5, <2>6 DEF Harmless, Asked, Requests
    <2>8. LinkInv'
      BY Zenon, <1>1, <2>3, <2>6, <2>7, LinkSends
    <2> QED BY Zenon, <2>3, <2>4, <2>8
  <1> QED BY Zenon, <1>5, <1>6

\* A terminate and its reply keep the invariant.
LEMMA TerminateResume ==
    ASSUME ResumeInv, TerminateReply \/ \E s \in Shells : TerminateCmd(s) PROVE ResumeInv'
  <1> USE DEF ResumeInv
  <1>1. CASE TerminateReply
    <2>1. UNCHANGED <<service, givenUp>> /\ late' = late /\ pc = "terminating" /\ reply # <<>> /\ Back
      BY Zenon, <1>1 DEF TerminateReply, JobInv
    <2>2. job.shell \in Shells /\ (reply[1].code = "ok" => Over(job.shell))
      BY Zenon, <2>1 DEF JobInv, LinkInv, Told
    <2>3. CASE UNCHANGED <<journal, record>>
      <3>1. StoreFine
        BY Zenon, <2>1, <2>3, StoreSame
      <3> QED BY Zenon, <2>1, <3>1, Finished
    <2>4. CASE reply[1].code = "ok" /\ remove_shell(job.shell)
      <3>1. ~Running(job.shell)
        BY Zenon, <2>2, <2>4 DEF Over, Running
      <3>2. StoreFine
        BY Zenon, <2>1, <2>2, <2>4, <3>1, StoreRemoves
      <3> QED BY Zenon, <2>1, <3>2, Finished
    <2> QED BY ZenonT(60), <1>1, <2>3, <2>4 DEF TerminateReply, Try, NotSaved
  <1>2. ASSUME NEW s \in Shells, TerminateCmd(s) PROVE ResumeInv'
    <2>1. UNCHANGED <<service, late, journal, record, givenUp>> /\ pc' = "terminating"
      BY Zenon, <1>2 DEF TerminateCmd
    <2>2. ServiceInv' /\ Keeps /\ StoreInv' /\ NoSilentOrphan'
      BY Zenon, <2>1, ServiceSame, StoreSame DEF StoreFine
    <2>3. job' = [key |-> NoKey, shell |-> s, recovered |-> FALSE, todo |-> {}] /\ phase[s] # "none"
      BY ZenonT(20), <1>2 DEF TerminateCmd, NoJob
    <2>4. JobInv'
      BY ZenonT(20), <2>1, <2>3 DEF JobInv, service
    <2>5. PICK r : r = [op |-> "terminate", key |-> NoKey, shell |-> s, token |-> 0]
      BY ZenonT(60)
    <2>6. Harmless(r)' /\ Asked(r)'
      BY Zenon, <2>1, <2>3, <2>5 DEF Harmless, Asked, Requests
    <2>7. LinkInv'
      BY Zenon, <1>2, <2>1, <2>2, <2>5, <2>6, LinkSends DEF TerminateCmd
    <2> QED BY Zenon, <2>2, <2>4, <2>7
  <1> QED BY Zenon, <1>1, <1>2

\* A detach and a shell's exit event keep the invariant.
LEMMA EventsResume ==
    ASSUME ResumeInv, \E s \in Shells : DetachCmd(s) \/ ExitedEvent(s) PROVE ResumeInv'
  <1> USE DEF ResumeInv
  <1>1. PICK s \in Shells : DetachCmd(s) \/ ExitedEvent(s)
    BY Zenon
  <1>2. UNCHANGED <<service, link, pc, job, givenUp>>
    BY ZenonT(20), <1>1 DEF DetachCmd, ExitedEvent
  <1>3. StoreFine
    <2>1. CASE UNCHANGED <<journal, record>>
      BY Zenon, <1>2, <2>1, StoreSame
    <2>2. CASE phase[s] # "running" /\ remove_shell(s)
      BY Zenon, <1>2, <2>2, StoreRemoves DEF Running
    <2> QED BY Zenon, <1>1, <2>1, <2>2 DEF DetachCmd, ExitedEvent, Try, NotSaved
  <1> QED BY Zenon, <1>2, <1>3, ServiceSame, LinkSame, JobSame DEF StoreFine

\* A lost connection, a time-out and a crash of the client keep the
\* invariant.
LEMMA FaultsResume ==
    ASSUME ResumeInv, LoseConnection \/ AttachTimeout \/ Crash PROVE ResumeInv'
  <1> USE DEF ResumeInv
  <1>1. UNCHANGED service /\ Abandon /\ job' = NoJob /\ pc' \in {"ready", "down", "offline"}
    BY Zenon DEF LoseConnection, AttachTimeout, Crash
  <1>2. StoreFine
    <2>1. CASE LoseConnection
      <3>1. PICK D \in SUBSET DroppedByLoss : journal' = journal \ D /\ givenUp' = givenUp \cup D
        BY Zenon, <2>1 DEF LoseConnection
      <3> QED BY Zenon, <1>1, <2>1, <3>1, StoreDrops DEF LoseConnection
    <2>2. CASE AttachTimeout \/ Crash
      BY Zenon, <1>1, <2>2, StoreSame DEF AttachTimeout, Crash
    <2> QED BY Zenon, <2>1, <2>2
  <1>3. LinkInv'
    BY Zenon, <1>1, <1>2, LinkQuiet DEF StoreFine, Abandon
  <1> QED BY Zenon, <1>1, <1>2, <1>3, ServiceSame, JobIdle DEF StoreFine

\* The invariant of the desktop client's recovery holds at the start.
LEMMA ResumeInit == Init => ResumeInv
  <1> SUFFICES ASSUME Init PROVE ResumeInv
    BY Zenon
  <1> USE ResumeAssumption DEF Init, ServiceInit, LinkInit
  <1>1. ServiceInv
    BY Zenon DEF ServiceInv, Phases
  <1>2. LinkInv
    BY DEF LinkInv
  <1>3. StoreInv
    BY DEF StoreInv, NoRecord, Recorded
  <1>4. JobInv
    BY Zenon DEF JobInv, NoJob
  <1>5. NoSilentOrphan
    BY Zenon DEF NoSilentOrphan
  <1> QED BY Zenon, <1>1, <1>2, <1>3, <1>4, <1>5 DEF ResumeInv

\* Every step keeps the invariant of the desktop client's recovery.
LEMMA ResumeNext == ResumeInv /\ [Next]_vars => ResumeInv'
  <1> SUFFICES ASSUME ResumeInv, [Next]_vars PROVE ResumeInv'
    BY Zenon
  <1>1. CASE Supervisor
    BY Zenon, <1>1, ConnectsResume, OpensResume, AttachReplyResume, CheckReplyResume, ReopenReplyResume,
       TerminateResume DEF Supervisor
  <1>2. CASE Commands
    BY Zenon, <1>2, OpensResume, AttachCmdResume, TerminateResume, EventsResume DEF Commands
  <1>3. CASE \E s \in Shells : ExitedEvent(s)
    BY Zenon, <1>3, EventsResume
  <1>4. CASE LoseConnection \/ AttachTimeout \/ Crash
    BY Zenon, <1>4, FaultsResume
  <1>5. CASE Restart
    BY Zenon, <1>5, RestartResume
  <1>6. CASE Daemon /\ UNCHANGED client
    BY Zenon, <1>6, ServeResume, LateResume, EndResume DEF Daemon
  <1>7. CASE UNCHANGED vars
    <2>1. UNCHANGED <<service, link, pc, job, journal, record, givenUp>>
      BY Zenon, <1>7 DEF vars, client
    <2>2. StoreFine
      BY Zenon, <2>1, StoreSame DEF ResumeInv
    <2> QED BY Zenon, <2>1, <2>2, ServiceSame, LinkSame, JobSame DEF StoreFine, ResumeInv
  <1> QED BY Zenon, <1>1, <1>2, <1>3, <1>4, <1>5, <1>6, <1>7 DEF Next

\* No running shell of the desktop client is out of its reach, whatever crashes,
\* losses, late requests, failing writes and daemon restarts there are, for any
\* number of shells and keys (push_pending_open before the send,
\* resolve_pending_open in one write).
THEOREM NothingIsOrphaned == Spec => []NoSilentOrphan
  <1>1. ResumeInv => NoSilentOrphan
    BY Zenon DEF ResumeInv
  <1> QED BY <1>1, ResumeInit, ResumeNext, PTL DEF Spec

\* The presence check of recover_token does what its comment says: re-opening
\* with the key never makes an accidental shell.
THEOREM NoShellByAccident == Spec => []NoAccidentalShell
  <1>1. ResumeInv => NoAccidentalShell
    BY Zenon DEF ResumeInv, JobInv, NoAccidentalShell
  <1> QED BY <1>1, ResumeInit, ResumeNext, PTL DEF Spec

=============================================================================

---------------------------- MODULE ClientProofs ----------------------------
(***************************************************************************)
(* What the other clients keep, for any shells, keys, processes and faults:*)
(* the state file of hf, and the pages of history a client joins.          *)
(*                                                                         *)
(* EntriesGenuine is about the file; what carries it is about the copies   *)
(* and locals of the processes, from which entries are written (CliInv).   *)
(* PagesJoin is about the lines a client holds; what carries it is about   *)
(* the ring they come from and the page under way (ScrollInv).             *)
(***************************************************************************)
EXTENDS CliResume, Scrollback, WellFoundedInduction, TLAPS
-----------------------------------------------------------------------------
(* hf: what the state file says of a shell is true of it.  An entry travels*)
(* through the copies and the locals of processes while tokens rotate and  *)
(* shells appear, so each of these is genuine, and stays it because a token*)
(* only grows and a shell's key never changes.                             *)

CliPlaces == {"idle", "load", "save", "open", "attach", "recover", "reopen", "accident",
              "reconnect", "attached", "terminate"}
Entries == [token : Nat, key : OpenKeys \cup {NoKey}]
Edits == [op : {"none", "grant", "first", "rotate", "forget"}, shell : Shells \cup {NoShell},
          next : {"idle", "open", "attach", "attached", "terminate", "exit"}]

ServiceTypes ==
    /\ phase \in [Shells -> Phases] /\ token \in [Shells -> Nat]
    /\ byKey \in [OpenKeys -> Shells \cup {NoShell}]
    /\ openedBy \in [Shells -> OpenKeys \cup {NoKey}]

LocalTypes ==
    /\ pc \in [Procs -> CliPlaces] /\ shell \in [Procs -> Shells \cup {NoShell}]
    /\ key \in [Procs -> OpenKeys \cup {NoKey}] /\ tok \in [Procs -> Nat]
    /\ conn \in [Procs -> BOOLEAN]
    /\ copy \in [Procs -> [Shells -> Entries]] /\ edit \in [Procs -> Edits]

\* A key names the shell it opened, and keeps naming it while that is known.
KeysNameShells ==
    /\ \A s \in Shells : phase[s] = "none" => openedBy[s] = NoKey /\ token[s] = 0
    /\ \A k \in OpenKeys : byKey[k] \in Shells => openedBy[byKey[k]] = k
    /\ \A s \in Known : openedBy[s] \in OpenKeys /\ byKey[openedBy[s]] = s

\* A key k and a token t are of shell s, as far as the service's o and n tell.
Fits(s, k, t, o, n) == k \in {NoKey, o[s]} /\ t <= n[s]
Genuine(f, o, n) == \A s \in Shells : Fits(s, f[s].key, f[s].token, o, n)
Sound(s, k, t, o, n) == s \in Shells => Fits(s, k, t, o, n)

Heading(p, places) ==
    pc[p] \in places \/ (pc[p] \in {"load", "save"} /\ edit[p].next \in places)

\* What a process holds, by where it is.
AtWork(p) ==
    /\ pc[p] \in {"load", "save"} => edit[p].op # "none"
    /\ edit[p].op \in {"first", "rotate"} => edit[p].shell = shell[p] /\ shell[p] \in Shells
    /\ Heading(p, {"open"}) => key[p] \in OpenKeys
    /\ Heading(p, {"attach", "attached", "reconnect", "recover", "reopen", "terminate"}) =>
           shell[p] \in Shells
    /\ pc[p] \in {"recover", "reopen"} => key[p] \in OpenKeys
    /\ pc[p] = "reopen" /\ conn[p] => shell[p] \in Known
    /\ pc[p] # "accident"

LocalOK(p) ==
    /\ Genuine(copy[p], openedBy, token)
    /\ Sound(shell[p], key[p], tok[p], openedBy, token)
    /\ AtWork(p)

CliInv ==
    /\ ServiceTypes /\ LocalTypes /\ file \in [Shells -> Entries]
    /\ KeysNameShells
    /\ Genuine(file, openedBy, token)
    /\ \A p \in Procs : LocalOK(p)

\* The service moves on: tokens grow, and a key that is there stays.
Onward(o, n, o2, n2) ==
    \A s \in Shells : n[s] <= n2[s] /\ o2[s] \in {o[s]} \cup (IF o[s] = NoKey THEN OpenKeys ELSE {})

\* A token and a key that belong to a shell do so after the daemon moved on.
LEMMA FitsOnward ==
    ASSUME NEW o \in [Shells -> OpenKeys \cup {NoKey}], NEW n \in [Shells -> Nat],
           NEW o2 \in [Shells -> OpenKeys \cup {NoKey}], NEW n2 \in [Shells -> Nat],
           Onward(o, n, o2, n2),
           NEW s \in Shells, NEW k, NEW t \in Nat, Fits(s, k, t, o, n)
    PROVE  Fits(s, k, t, o2, n2)
BY DEF Onward, Fits

\* What the service just issued fits.
LEMMA IssuedFits ==
    ASSUME NEW o, NEW n \in [Shells -> Nat], NEW s \in Shells, NEW k \in {NoKey, o[s]}
    PROVE  n[s] \in Nat /\ Sound(s, k, n[s], o, n)
BY DEF Sound, Fits

\* A copy of the state file stays genuine while the daemon moves on.
LEMMA GenuineOnward ==
    ASSUME NEW o \in [Shells -> OpenKeys \cup {NoKey}], NEW n \in [Shells -> Nat],
           NEW o2 \in [Shells -> OpenKeys \cup {NoKey}], NEW n2 \in [Shells -> Nat],
           Onward(o, n, o2, n2),
           NEW f \in [Shells -> Entries], Genuine(f, o, n)
    PROVE  Genuine(f, o2, n2)
<1> SUFFICES ASSUME NEW s \in Shells PROVE Fits(s, f[s].key, f[s].token, o2, n2)
    BY ZenonT(20) DEF Genuine
<1>1. f[s].token \in Nat /\ Fits(s, f[s].key, f[s].token, o, n)
    BY Zenon DEF Genuine, Entries
<1> QED BY <1>1, FitsOnward

\* An answered or unanswered OpenShell.
LEMMA OpenKeeps ==
    ASSUME ServiceTypes, KeysNameShells, NEW k \in OpenKeys, NEW s \in Shells, OpenShell(k, s)
    PROVE  /\ ServiceTypes' /\ KeysNameShells' /\ Onward(openedBy, token, openedBy', token')
           /\ openedBy'[s] = k /\ Known \subseteq Known'
           /\ (byKey[k] \in Known => s = byKey[k])
<1>1. CASE s = byKey[k] /\ Reopen(k) /\ UNCHANGED openedBy
    <2>1. /\ s \in Known /\ token' = [token EXCEPT ![s] = @ + 1]
          /\ UNCHANGED <<phase, byKey, openedBy>>
        BY Zenon, <1>1 DEF Reopen
    <2>2. ServiceTypes' /\ Known' = Known /\ phase[s] # "none"
        BY <2>1 DEF ServiceTypes, Known
    <2>3. \A r \in Shells : token'[r] = IF r = s THEN token[s] + 1 ELSE token[r]
        BY Zenon, <2>1 DEF ServiceTypes
    <2>4. KeysNameShells'
        BY ZenonT(20), <2>1, <2>2, <2>3 DEF KeysNameShells, ServiceTypes
    <2>5. Onward(openedBy, token, openedBy', token')
        BY <2>1, <2>3 DEF Onward, ServiceTypes
    <2> QED BY ZenonT(20), <1>1, <2>1, <2>2, <2>4, <2>5 DEF KeysNameShells
<1>2. CASE Open(k, s) /\ openedBy' = [openedBy EXCEPT ![s] = k]
    <2>1. /\ byKey[k] \notin Known /\ phase[s] = "none"
          /\ phase' = [phase EXCEPT ![s] = "running"] /\ byKey' = [byKey EXCEPT ![k] = s]
          /\ token' = [token EXCEPT ![s] = 1] /\ openedBy' = [openedBy EXCEPT ![s] = k]
        BY Zenon, <1>2 DEF Open
    <2>2. ServiceTypes' /\ Known' = Known \cup {s} /\ s \notin Known
        BY Zenon, <2>1 DEF ServiceTypes, Known, Phases
    <2>3. openedBy[s] = NoKey /\ token[s] = 0 /\ \A j \in OpenKeys : byKey[j] # s
        BY <2>1, CliAssumption DEF KeysNameShells
    <2>4. KeysNameShells'
        <3>1. \A r \in Shells : phase'[r] = "none" => openedBy'[r] = NoKey /\ token'[r] = 0
            BY Zenon, <2>1 DEF KeysNameShells, ServiceTypes
        <3>2. \A j \in OpenKeys : byKey'[j] \in Shells => openedBy'[byKey'[j]] = j
            BY Zenon, <2>1, <2>3 DEF KeysNameShells, ServiceTypes
        <3>3. \A r \in Known' : openedBy'[r] \in OpenKeys /\ byKey'[openedBy'[r]] = r
            BY <2>1, <2>2 DEF KeysNameShells, ServiceTypes, Known
        <3> QED BY ZenonT(20), <3>1, <3>2, <3>3 DEF KeysNameShells
    <2>5. Onward(openedBy, token, openedBy', token')
        BY <2>1, <2>3 DEF Onward, ServiceTypes
    <2> QED BY ZenonT(20), <2>1, <2>2, <2>4, <2>5 DEF ServiceTypes
<1> QED BY Zenon, <1>1, <1>2 DEF OpenShell

\* attach rotates a token and changes no key's shell.
LEMMA AttachKeepsKeys ==
    ASSUME ServiceTypes, KeysNameShells, NEW s \in Shells, NEW t, Attach(s, t), UNCHANGED openedBy
    PROVE  /\ ServiceTypes' /\ KeysNameShells' /\ Onward(openedBy, token, openedBy', token')
           /\ Known' = Known
<1>1. /\ phase[s] = "running" /\ token' = [token EXCEPT ![s] = @ + 1]
      /\ UNCHANGED <<phase, byKey, openedBy>>
    BY Zenon DEF Attach
<1>2. ServiceTypes' /\ Known' = Known
    BY <1>1 DEF ServiceTypes, Known
<1>3. \A r \in Shells : token'[r] = IF r = s THEN token[s] + 1 ELSE token[r]
    BY Zenon, <1>1 DEF ServiceTypes
<1>4. KeysNameShells'
    BY <1>1, <1>2, <1>3, SMTT(40) DEF KeysNameShells
<1> QED BY <1>1, <1>2, <1>3, <1>4 DEF Onward, ServiceTypes

\* A shell that ends keeps its key and its token.
LEMMA EndKeeps ==
    ASSUME ServiceTypes, KeysNameShells, NEW s \in Known,
           phase' = [phase EXCEPT ![s] = "ended"], UNCHANGED <<byKey, token, openedBy>>
    PROVE  /\ ServiceTypes' /\ KeysNameShells' /\ Onward(openedBy, token, openedBy', token')
           /\ Known' = Known
<1>1. ServiceTypes' /\ Known' = Known
    BY Zenon DEF ServiceTypes, Known, Phases
<1>2. KeysNameShells'
    BY Zenon, <1>1 DEF KeysNameShells, ServiceTypes, Known
<1> QED BY <1>1, <1>2 DEF Onward, ServiceTypes

\* Steps without a request to the daemon leave its shells alone.
LEMMA NoRequestKeeps ==
    ASSUME ServiceTypes, KeysNameShells, NoRequest
    PROVE  /\ ServiceTypes' /\ KeysNameShells' /\ Onward(openedBy, token, openedBy', token')
           /\ Known' = Known
BY DEF NoRequest, service, ServiceTypes, KeysNameShells, Known, Onward

-----------------------------------------------------------------------------
\* The process that steps; the others keep what they hold.
OthersKeep(p) == \A q \in Procs \ {p} :
    /\ pc'[q] = pc[q] /\ shell'[q] = shell[q] /\ key'[q] = key[q] /\ tok'[q] = tok[q]
    /\ conn'[q] = conn[q] /\ copy'[q] = copy[q] /\ edit'[q] = edit[q]

\* What a step has to keep of the service for the processes that do not step.
ServiceKept ==
    /\ ServiceTypes' /\ KeysNameShells' /\ Onward(openedBy, token, openedBy', token')
    /\ Known \subseteq Known'

\* What the daemon does for one process keeps the locals of the others in
\* order.
LEMMA OthersOK ==
    ASSUME CliInv, NEW p \in Procs, OthersKeep(p), ServiceKept
    PROVE  \A q \in Procs \ {p} : LocalOK(q)'
<1> SUFFICES ASSUME NEW q \in Procs \ {p} PROVE LocalOK(q)'
    BY Zenon
<1>1. LocalOK(q) /\ copy[q] \in [Shells -> Entries] /\ tok[q] \in Nat
    BY Zenon DEF CliInv, LocalTypes
<1>2. /\ pc'[q] = pc[q] /\ shell'[q] = shell[q] /\ key'[q] = key[q] /\ tok'[q] = tok[q]
      /\ conn'[q] = conn[q] /\ copy'[q] = copy[q] /\ edit'[q] = edit[q]
    BY Zenon DEF OthersKeep
<1>3. Genuine(copy[q], openedBy', token')
    BY ZenonT(60), <1>1, GenuineOnward DEF LocalOK, ServiceKept, CliInv, ServiceTypes
<1>4. Sound(shell[q], key[q], tok[q], openedBy', token')
    BY ZenonT(60), <1>1, FitsOnward DEF LocalOK, Sound, ServiceKept, CliInv, ServiceTypes
<1>5. AtWork(q)'
    BY ZenonT(20), <1>1, <1>2 DEF LocalOK, AtWork, Heading, ServiceKept
<1> QED BY ZenonT(20), <1>2, <1>3, <1>4, <1>5 DEF LocalOK

\* A step of p keeps the invariant if the service, the file and p are well.
LEMMA StepKeeps ==
    ASSUME CliInv, NEW p \in Procs, OthersKeep(p), ServiceKept, LocalTypes', LocalOK(p)',
           UNCHANGED file
    PROVE  CliInv'
<1>1. Genuine(file, openedBy', token')
    BY Zenon, GenuineOnward DEF ServiceKept, CliInv, ServiceTypes
<1>2. \A q \in Procs : LocalOK(q)'
    BY Zenon, OthersOK
<1> QED BY Zenon, <1>1, <1>2 DEF CliInv, ServiceKept

\* A missing state file holds no entry that could be wrong.
LEMMA NoFileGenuine ==
    ASSUME ServiceTypes
    PROVE  NoFile \in [Shells -> Entries] /\ Genuine(NoFile, openedBy, token)
BY DEF NoFile, NoEntry, Entries, Genuine, Fits, ServiceTypes

\* A process that ends holds nothing.
LEMMA ExitOK ==
    ASSUME CliInv, NEW p \in Procs, Exit(p), ServiceTypes'
    PROVE  OthersKeep(p) /\ LocalTypes' /\ LocalOK(p)'
<1>1. /\ pc' = [pc EXCEPT ![p] = "idle"] /\ shell' = [shell EXCEPT ![p] = NoShell]
      /\ key' = [key EXCEPT ![p] = NoKey] /\ tok' = [tok EXCEPT ![p] = 0]
      /\ conn' = [conn EXCEPT ![p] = FALSE] /\ copy' = [copy EXCEPT ![p] = NoFile]
      /\ edit' = [edit EXCEPT ![p] = NoEdit]
    BY Zenon DEF Exit, Goto, Locals
<1>2. NoFile \in [Shells -> Entries] /\ Genuine(NoFile, openedBy', token')
    BY DEF NoFile, NoEntry, Entries, Genuine, Fits, ServiceTypes
<1>3. NoEdit \in Edits /\ NoEdit.op = "none"
    BY Zenon DEF NoEdit, Edits
<1>4. OthersKeep(p) /\ LocalTypes'
    BY Zenon, <1>1, <1>2, <1>3 DEF OthersKeep, CliInv, LocalTypes, CliPlaces
<1>5. /\ pc'[p] = "idle" /\ shell'[p] = NoShell /\ copy'[p] = NoFile /\ edit'[p] = NoEdit
    BY Zenon, <1>1 DEF CliInv, LocalTypes
<1>6. AtWork(p)'
    BY Zenon, <1>3, <1>5 DEF AtWork, Heading
<1> QED BY ZenonT(20), <1>2, <1>4, <1>5, <1>6, CliAssumption DEF LocalOK, Sound

\* A process that goes and changes the file, with locals that fit.
LEMMA PersistOK ==
    ASSUME CliInv, ServiceKept, NEW p \in Procs,
           NEW op \in {"grant", "first", "rotate", "forget"},
           NEW s \in Shells \cup {NoShell},
           NEW next \in {"open", "attach", "attached", "terminate", "exit"},
           NEW k \in OpenKeys \cup {NoKey}, NEW t \in Nat, NEW c \in BOOLEAN,
           Persist(p, op, s, next),
           shell' = [shell EXCEPT ![p] = s], key' = [key EXCEPT ![p] = k],
           tok' = [tok EXCEPT ![p] = t], conn' = [conn EXCEPT ![p] = c],
           Sound(s, k, t, openedBy', token'),
           op \in {"first", "rotate"} => s \in Shells,
           next = "open" => k \in OpenKeys,
           next \notin {"open", "exit"} => s \in Shells
    PROVE  OthersKeep(p) /\ LocalTypes' /\ LocalOK(p)'
<1> DEFINE e == [op |-> op, shell |-> s, next |-> next]
<1>1. /\ pc' = [pc EXCEPT ![p] = "load"] /\ edit' = [edit EXCEPT ![p] = e] /\ copy' = copy
    BY Zenon DEF Persist, Goto
<1>2. e \in Edits
    BY Zenon DEF Edits
<1>3. OthersKeep(p) /\ LocalTypes'
    <2> HIDE DEF e
    <2> QED BY Zenon, <1>1, <1>2 DEF OthersKeep, CliInv, LocalTypes, CliPlaces
<1>4. /\ pc'[p] = "load" /\ shell'[p] = s /\ key'[p] = k /\ tok'[p] = t /\ edit'[p] = e
      /\ copy'[p] = copy[p]
    <2> HIDE DEF e
    <2> QED BY Zenon, <1>1, <1>2 DEF CliInv, LocalTypes
<1>5. AtWork(p)'
    BY <1>4, SMTT(40) DEF AtWork, Heading
<1>6. Genuine(copy[p], openedBy', token')
    BY ZenonT(60), GenuineOnward DEF CliInv, LocalOK, LocalTypes, ServiceKept, ServiceTypes
<1> QED BY ZenonT(20), <1>3, <1>4, <1>5, <1>6 DEF LocalOK

\* A process that goes elsewhere with what it holds.
LEMMA GotoOK ==
    ASSUME CliInv, ServiceKept, NEW p \in Procs,
           NEW l \in {"recover", "reopen", "reconnect", "attach"}, NEW c \in BOOLEAN,
           Goto(p, l), KeepLocals, UNCHANGED <<copy, edit>>, conn' = [conn EXCEPT ![p] = c],
           pc[p] \notin {"load", "save"}, shell[p] \in Shells,
           l \in {"recover", "reopen"} => key[p] \in OpenKeys,
           l = "reopen" => shell[p] \in Known
    PROVE  OthersKeep(p) /\ LocalTypes' /\ LocalOK(p)'
<1>1. pc' = [pc EXCEPT ![p] = l] /\ UNCHANGED <<shell, key, tok, copy, edit>>
    BY Zenon DEF Goto, KeepLocals
<1>2. OthersKeep(p) /\ LocalTypes'
    BY Zenon, <1>1 DEF OthersKeep, CliInv, LocalTypes, CliPlaces
<1>3. pc'[p] = l
    BY Zenon, <1>1 DEF CliInv, LocalTypes
<1>4. AtWork(p)'
    BY ZenonT(60), <1>1, <1>3 DEF AtWork, Heading, CliInv, LocalOK, ServiceKept
<1>5. Genuine(copy[p], openedBy', token')
    BY ZenonT(20), GenuineOnward DEF CliInv, LocalOK, LocalTypes, ServiceKept, ServiceTypes
<1>6. Sound(shell[p], key[p], tok[p], openedBy', token')
    BY ZenonT(20), FitsOnward DEF CliInv, LocalOK, LocalTypes, Sound, ServiceKept, ServiceTypes
<1> QED BY ZenonT(20), <1>1, <1>2, <1>4, <1>5, <1>6 DEF LocalOK

\* Unchanged locals, written the way the steps of a process are.
LEMMA LocalsKept ==
    ASSUME CliInv, NEW p \in Procs
    PROVE  /\ KeepLocals => /\ shell' = [shell EXCEPT ![p] = shell[p]]
                            /\ key' = [key EXCEPT ![p] = key[p]] /\ tok' = [tok EXCEPT ![p] = tok[p]]
           /\ UNCHANGED conn => conn' = [conn EXCEPT ![p] = conn[p]]
           /\ conn[p] \in BOOLEAN /\ tok[p] \in Nat
           /\ key[p] \in OpenKeys \cup {NoKey} /\ shell[p] \in Shells \cup {NoShell}
           /\ LocalOK(p)
BY Zenon DEF KeepLocals, CliInv, LocalTypes

\* A step without a request keeps the daemon's side.
LEMMA QuietService ==
    ASSUME CliInv, NoRequest
    PROVE  ServiceKept /\ UNCHANGED <<phase, byKey, token, openedBy>>
BY Zenon, NoRequestKeeps DEF CliInv, ServiceKept, NoRequest, service

\* A process' locals stay sound while the daemon moves on.
LEMMA SoundOnward ==
    ASSUME CliInv, ServiceKept, NEW p \in Procs
    PROVE  Sound(shell[p], key[p], tok[p], openedBy', token')
BY ZenonT(20), FitsOnward DEF CliInv, LocalOK, LocalTypes, Sound, ServiceKept, ServiceTypes

\* Reading the state file keeps the invariant.
LEMMA LoadKeeps ==
    ASSUME CliInv, NEW p \in Procs, state_load(p)
    PROVE  CliInv'
<1>1. /\ pc[p] = "load" /\ pc' = [pc EXCEPT ![p] = "save"] /\ copy' = [copy EXCEPT ![p] = file]
      /\ UNCHANGED <<shell, key, tok, conn, edit, file>>
    BY Zenon DEF state_load, Goto, KeepLocals
<1>2. ServiceKept /\ UNCHANGED <<phase, byKey, token, openedBy>>
    BY Zenon, QuietService DEF state_load
<1>3. OthersKeep(p) /\ LocalTypes'
    BY Zenon, <1>1 DEF OthersKeep, CliInv, LocalTypes, CliPlaces
<1>4. pc'[p] = "save" /\ copy'[p] = file
    BY Zenon, <1>1 DEF CliInv, LocalTypes
<1>5. AtWork(p)'
    BY ZenonT(60), <1>1, <1>4 DEF AtWork, Heading, CliInv, LocalOK
<1>6. LocalOK(p)'
    BY ZenonT(20), <1>1, <1>2, <1>4, <1>5 DEF CliInv, LocalOK
<1> QED BY Zenon, <1>1, <1>2, <1>3, <1>6, StepKeeps

\* Writing a copy, perhaps a stale one, over the state file keeps the
\* invariant.
LEMMA SaveKeeps ==
    ASSUME CliInv, NEW p \in Procs, state_save(p)
    PROVE  CliInv'
<1>1. ServiceKept /\ UNCHANGED <<phase, byKey, token, openedBy>>
    BY Zenon, QuietService DEF state_save
<1>2. /\ pc[p] = "save" /\ LocalOK(p) /\ AtWork(p) /\ tok[p] \in Nat
      /\ edit[p] \in Edits /\ copy[p] \in [Shells -> Entries] /\ Genuine(copy[p], openedBy, token)
      /\ key[p] \in OpenKeys \cup {NoKey} /\ edit[p].op \in {"grant", "first", "rotate", "forget"}
    BY Zenon DEF state_save, CliInv, LocalTypes, LocalOK, AtWork, Edits
<1>3. file' \in [Shells -> Entries] /\ Genuine(file', openedBy, token)
    <2>1. CASE edit[p].op \in {"first", "rotate"}
        <3>1. /\ file' = persist_entry(p, copy[p], shell[p]) /\ shell[p] \in Shells
              /\ Fits(shell[p], key[p], tok[p], openedBy, token)
            BY Zenon, <1>2, <2>1 DEF state_save, AtWork, LocalOK, Sound
        <3>2. PICK k \in {key[p], copy[p][shell[p]].key} :
                  file' = [copy[p] EXCEPT ![shell[p]] = [token |-> tok[p], key |-> k]]
            BY ZenonT(20), <3>1 DEF persist_entry
        <3>3. k \in OpenKeys \cup {NoKey} /\ Fits(shell[p], k, tok[p], openedBy, token)
            <4>1. CASE k = key[p]
                BY ZenonT(60), <1>2, <3>1, <4>1
            <4>2. CASE k = copy[p][shell[p]].key
                BY <1>2, <3>1, <4>2, SMTT(40) DEF Genuine, Fits, Entries
            <4> QED BY ZenonT(60), <3>2, <4>1, <4>2
        <3>4. [token |-> tok[p], key |-> k] \in Entries
            BY ZenonT(60), <1>2, <3>3 DEF Entries
        <3> QED BY <1>2, <3>1, <3>2, <3>3, <3>4 DEF Genuine
    <2>2. CASE edit[p].op = "forget"
        <3>1. file' = [copy[p] EXCEPT ![edit[p].shell] = NoEntry]
            BY Zenon, <1>2, <2>2 DEF state_save, forget_token
        <3>2. NoEntry \in Entries /\ \A s \in Shells :
                  Fits(s, NoEntry.key, NoEntry.token, openedBy, token)
            BY DEF NoEntry, Entries, Fits, CliInv, ServiceTypes
        <3> QED BY ZenonT(20), <1>2, <3>1, <3>2 DEF Genuine
    <2>3. CASE edit[p].op = "grant"
        BY Zenon, <1>2, <2>3 DEF state_save
    <2> QED BY Zenon, <1>2, <2>1, <2>2, <2>3
<1>4. OthersKeep(p) /\ LocalTypes' /\ LocalOK(p)'
    <2>1. CASE edit[p].next = "exit"
        BY Zenon, <1>1, <2>1, ExitOK DEF state_save, ServiceKept
    <2>2. CASE edit[p].next # "exit"
        <3>1. /\ pc' = [pc EXCEPT ![p] = edit[p].next] /\ copy' = [copy EXCEPT ![p] = NoFile]
              /\ edit' = [edit EXCEPT ![p] = NoEdit] /\ UNCHANGED <<shell, key, tok, conn>>
            BY Zenon, <2>2 DEF state_save, Goto, KeepLocals
        <3>2. NoFile \in [Shells -> Entries] /\ Genuine(NoFile, openedBy, token)
            BY Zenon, NoFileGenuine DEF CliInv
        <3>3. /\ NoEdit \in Edits /\ NoEdit.op = "none"
              /\ edit[p].next \in {"idle", "open", "attach", "attached", "terminate"}
            BY ZenonT(60), <1>2, <2>2 DEF NoEdit, Edits
        <3>4. OthersKeep(p) /\ LocalTypes'
            BY ZenonT(20), <3>1, <3>2, <3>3 DEF OthersKeep, CliInv, LocalTypes, CliPlaces
        <3>5. pc'[p] = edit[p].next /\ copy'[p] = NoFile /\ edit'[p] = NoEdit
            BY Zenon, <3>1 DEF CliInv, LocalTypes
        <3>6. AtWork(p)'
            BY ZenonT(20), <1>2, <3>1, <3>3, <3>5 DEF AtWork, Heading
        <3> QED BY ZenonT(20), <1>1, <1>2, <3>1, <3>2, <3>4, <3>5, <3>6 DEF LocalOK
    <2> QED BY Zenon, <2>1, <2>2
<1>5. \A q \in Procs : LocalOK(q)'
    BY Zenon, <1>1, <1>4, OthersOK
<1> QED BY Zenon, <1>1, <1>3, <1>4, <1>5 DEF CliInv, ServiceKept

\* Starting a command keeps the invariant.
LEMMA CommandKeeps ==
    ASSUME CliInv, NEW p \in Procs, Commands(p)
    PROVE  CliInv'
<1>1. ASSUME NEW k \in OpenKeys, CmdOpen(p, k) PROVE CliInv'
    <2>1. ServiceKept /\ UNCHANGED file
        BY ZenonT(60), <1>1, QuietService DEF CmdOpen
    <2>2. /\ Persist(p, "grant", NoShell, "open") /\ Sound(NoShell, k, 0, openedBy', token')
          /\ shell' = [shell EXCEPT ![p] = NoShell] /\ key' = [key EXCEPT ![p] = k]
          /\ tok' = [tok EXCEPT ![p] = 0] /\ conn' = [conn EXCEPT ![p] = TRUE]
        BY ZenonT(60), <1>1, CliAssumption DEF CmdOpen, Locals, Sound
    <2>3. OthersKeep(p) /\ LocalTypes' /\ LocalOK(p)'
        BY ZenonT(20), <2>1, <2>2, PersistOK
    <2> QED BY Zenon, <2>1, <2>3, StepKeeps
<1>2. ASSUME NEW s \in Shells, CmdAttach(p, s) PROVE CliInv'
    <2>1. ServiceKept /\ UNCHANGED <<file, token, openedBy>>
        BY Zenon, <1>2, QuietService DEF CmdAttach
    <2>2. /\ file[s].key \in OpenKeys \cup {NoKey} /\ file[s].token \in Nat
          /\ Sound(s, file[s].key, file[s].token, openedBy', token')
        BY Zenon, <2>1 DEF CliInv, Entries, Genuine, Sound
    <2>3. /\ Persist(p, "grant", s, "attach")
          /\ shell' = [shell EXCEPT ![p] = s] /\ key' = [key EXCEPT ![p] = file[s].key]
          /\ tok' = [tok EXCEPT ![p] = file[s].token] /\ conn' = [conn EXCEPT ![p] = TRUE]
        BY Zenon, <1>2 DEF CmdAttach, Locals
    <2>4. OthersKeep(p) /\ LocalTypes' /\ LocalOK(p)'
        BY ZenonT(20), <2>1, <2>2, <2>3, PersistOK
    <2> QED BY Zenon, <2>1, <2>4, StepKeeps
<1>3. ASSUME NEW s \in Shells, CmdTerminate(p, s) PROVE CliInv'
    <2>1. ServiceKept /\ UNCHANGED <<file, token, openedBy>>
        BY Zenon, <1>3, QuietService DEF CmdTerminate
    <2>2. Sound(s, NoKey, 0, openedBy', token')
        BY <2>1 DEF Sound, Fits, ServiceKept, ServiceTypes
    <2>3. /\ Persist(p, "grant", s, "terminate")
          /\ shell' = [shell EXCEPT ![p] = s] /\ key' = [key EXCEPT ![p] = NoKey]
          /\ tok' = [tok EXCEPT ![p] = 0] /\ conn' = [conn EXCEPT ![p] = TRUE]
        BY Zenon, <1>3 DEF CmdTerminate, Locals
    <2>4. OthersKeep(p) /\ LocalTypes' /\ LocalOK(p)'
        BY ZenonT(20), <2>1, <2>2, <2>3, PersistOK
    <2> QED BY Zenon, <2>1, <2>4, StepKeeps
<1>4. ASSUME SessionDetached(p) \/ Crash(p) PROVE CliInv'
    <2>1. ServiceKept /\ UNCHANGED file /\ Exit(p)
        BY Zenon, <1>4, QuietService DEF SessionDetached, Crash
    <2>2. OthersKeep(p) /\ LocalTypes' /\ LocalOK(p)'
        BY Zenon, <2>1, ExitOK DEF ServiceKept
    <2> QED BY Zenon, <2>1, <2>2, StepKeeps
<1> QED BY Zenon, <1>1, <1>2, <1>3, <1>4 DEF Commands

\* A request that ends in a change of the file, with the same shell and key.
LEMMA PersistHeld ==
    ASSUME CliInv, ServiceKept, NEW p \in Procs, UNCHANGED file,
           NEW op \in {"grant", "rotate", "forget"},
           NEW next \in {"attach", "attached", "exit"},
           NEW c \in BOOLEAN, Persist(p, op, shell[p], next), conn' = [conn EXCEPT ![p] = c],
           shell' = [shell EXCEPT ![p] = shell[p]], key' = [key EXCEPT ![p] = key[p]],
           NEW t \in Nat, tok' = [tok EXCEPT ![p] = t],
           shell[p] \in Shells, Sound(shell[p], key[p], t, openedBy', token')
    PROVE  CliInv'
<1>1. key[p] \in OpenKeys \cup {NoKey}
    BY ZenonT(20), LocalsKept
<1>2. OthersKeep(p) /\ LocalTypes' /\ LocalOK(p)'
    BY ZenonT(60), <1>1, PersistOK
<1> QED BY Zenon, <1>2, StepKeeps

\* Going on to persist what a process holds keeps the invariant.
LEMMA PersistSame ==
    ASSUME CliInv, ServiceKept, NEW p \in Procs, UNCHANGED file,
           NEW op \in {"grant", "rotate", "forget"},
           NEW next \in {"attach", "attached", "exit"},
           NEW c \in BOOLEAN, Persist(p, op, shell[p], next), KeepLocals,
           conn' = [conn EXCEPT ![p] = c], shell[p] \in Shells
    PROVE  CliInv'
<1>1. /\ shell' = [shell EXCEPT ![p] = shell[p]] /\ key' = [key EXCEPT ![p] = key[p]]
      /\ tok' = [tok EXCEPT ![p] = tok[p]] /\ tok[p] \in Nat
    BY ZenonT(60), LocalsKept
<1>2. Sound(shell[p], key[p], tok[p], openedBy', token')
    BY ZenonT(20), SoundOnward
<1> QED BY ZenonT(20), <1>1, <1>2, PersistHeld

\* An answer with a new token for the shell the process holds.
LEMMA PersistToken ==
    ASSUME CliInv, ServiceKept, NEW p \in Procs, UNCHANGED file,
           NEW next \in {"attach", "attached"}, Persist(p, "rotate", shell[p], next),
           NEW t \in Nat, t = token'[shell[p]], tok' = [tok EXCEPT ![p] = t],
           UNCHANGED <<shell, key, conn>>, shell[p] \in Shells
    PROVE  CliInv'
<1>1. shell' = [shell EXCEPT ![p] = shell[p]] /\ key' = [key EXCEPT ![p] = key[p]]
    BY Zenon DEF CliInv, LocalTypes
<1>2. PICK c \in BOOLEAN : conn' = [conn EXCEPT ![p] = c]
    BY ZenonT(60), LocalsKept
<1>3. key[p] \in {NoKey, openedBy'[shell[p]]}
    BY ZenonT(20), SoundOnward DEF Sound, Fits
<1>4. Sound(shell[p], key[p], t, openedBy', token')
    BY ZenonT(20), <1>3, IssuedFits DEF ServiceKept, ServiceTypes
<1> QED BY ZenonT(20), <1>1, <1>2, <1>4, PersistHeld

\* The end of a process keeps the invariant.
LEMMA ExitKeeps ==
    ASSUME CliInv, ServiceKept, NEW p \in Procs, UNCHANGED file, Exit(p)
    PROVE  CliInv'
<1>1. OthersKeep(p) /\ LocalTypes' /\ LocalOK(p)'
    BY Zenon, ExitOK DEF ServiceKept
<1> QED BY Zenon, <1>1, StepKeeps

\* An open with a key the daemon knows gives the key's shell.
LEMMA OpensKept ==
    ASSUME CliInv, NEW k \in OpenKeys, NEW s \in Shells, OpenShell(k, s)
    PROVE  ServiceKept /\ openedBy'[s] = k /\ (byKey[k] \in Known => s = byKey[k])
BY ZenonT(20), OpenKeeps DEF CliInv, ServiceKept

\* attach keeps what the processes rely on.
LEMMA AttachesKept ==
    ASSUME CliInv, NEW s \in Shells, NEW t, Attach(s, t), UNCHANGED openedBy
    PROVE  ServiceKept
BY Zenon, AttachKeepsKeys DEF CliInv, ServiceKept

\* Where a process is tells what it holds.
LEMMA Holding ==
    ASSUME CliInv, NEW p \in Procs
    PROVE  /\ pc[p] = "open" => key[p] \in OpenKeys
           /\ pc[p] \in {"attach", "attached", "reconnect", "recover", "reopen", "terminate"} =>
                  shell[p] \in Shells
           /\ pc[p] \in {"recover", "reopen"} => key[p] \in OpenKeys
           /\ pc[p] = "reopen" /\ conn[p] => shell[p] \in Known
           /\ shell[p] \in Shells /\ key[p] \in OpenKeys => key[p] = openedBy[shell[p]]
BY ZenonT(20), CliAssumption DEF CliInv, LocalOK, AtWork, Heading, Sound, Fits

\* The answer to an open, or its failure, keeps the invariant.
LEMMA OpenStepKeeps ==
    ASSUME CliInv, NEW p \in Procs, OpenAnswered(p) \/ OpenFails(p)
    PROVE  CliInv'
<1>1. CASE OpenAnswered(p)
    <2>1. PICK s \in Shells : /\ OpenShell(key[p], s) /\ Locals(p, s, key[p], token'[s])
                              /\ Persist(p, "first", s, "attach")
        BY ZenonT(60), <1>1 DEF OpenAnswered
    <2>2. pc[p] = "open" /\ UNCHANGED <<file, conn>>
        BY ZenonT(20), <1>1 DEF OpenAnswered, Heard
    <2>3. key[p] \in OpenKeys
        BY Zenon, <2>2, Holding
    <2>4. ServiceKept /\ openedBy'[s] = key[p]
        BY ZenonT(60), <2>1, <2>3, OpensKept
    <2>5. token'[s] \in Nat /\ Sound(s, key[p], token'[s], openedBy', token')
        BY ZenonT(60), <2>4, IssuedFits DEF ServiceKept, ServiceTypes
    <2>6. /\ shell' = [shell EXCEPT ![p] = s] /\ key' = [key EXCEPT ![p] = key[p]]
          /\ tok' = [tok EXCEPT ![p] = token'[s]] /\ conn' = [conn EXCEPT ![p] = conn[p]]
          /\ conn[p] \in BOOLEAN
        BY ZenonT(20), <2>1, <2>2, LocalsKept DEF Locals
    <2>7. OthersKeep(p) /\ LocalTypes' /\ LocalOK(p)'
        BY ZenonT(20), <2>1, <2>3, <2>4, <2>5, <2>6, PersistOK
    <2> QED BY ZenonT(60), <2>2, <2>4, <2>7, StepKeeps
<1>2. CASE OpenFails(p)
    <2>1. pc[p] = "open" /\ Exit(p) /\ UNCHANGED file /\ key[p] \in OpenKeys
        BY ZenonT(60), <1>2, Holding DEF OpenFails
    <2>2. ServiceKept
        BY ZenonT(20), <1>2, <2>1, QuietService, OpensKept DEF OpenFails
    <2> QED BY Zenon, <2>1, <2>2, ExitKeeps
<1> QED BY Zenon, <1>1, <1>2

\* Every outcome of an attach and every retry keeps the invariant.
LEMMA AttachStepKeeps ==
    ASSUME CliInv, NEW p \in Procs,
           AttachAnswered(p) \/ AttachRetry(p) \/ AttachKeeps(p) \/ Reconnect(p)
    PROVE  CliInv'
<1>0. shell[p] \in Shells /\ pc[p] \in {"attach", "reconnect"} /\ UNCHANGED file
    <2>1. pc[p] \in {"attach", "reconnect"} /\ UNCHANGED file
        BY ZenonT(60) DEF AttachAnswered, AttachRetry, AttachKeeps, Reconnect
    <2> QED BY ZenonT(60), <2>1, Holding
<1>1. CASE AttachAnswered(p)
    <2>0. UNCHANGED conn /\ conn' = [conn EXCEPT ![p] = conn[p]] /\ conn[p] \in BOOLEAN
        BY Zenon, <1>1, LocalsKept DEF AttachAnswered, Heard
    <2>1. CASE /\ Attach(shell[p], tok[p]) /\ tok' = [tok EXCEPT ![p] = token'[shell[p]]]
               /\ Persist(p, "rotate", shell[p], "attached") /\ UNCHANGED <<shell, key, openedBy>>
        <3>1. ServiceKept
            BY ZenonT(20), <1>0, <2>1, AttachesKept
        <3>2. PICK t \in Nat : t = token'[shell[p]]
            BY ZenonT(20), <1>0, <3>1 DEF ServiceKept, ServiceTypes
        <3> QED BY ZenonT(60), <1>0, <2>0, <2>1, <3>1, <3>2, PersistToken
    <2>2. CASE Persist(p, "forget", shell[p], "exit") /\ NoRequest /\ KeepLocals
        <3>1. ServiceKept
            BY Zenon, <2>2, QuietService
        <3> QED BY ZenonT(20), <1>0, <2>0, <2>2, <3>1, PersistSame
    <2>3. CASE /\ key[p] # NoKey /\ Goto(p, "recover")
               /\ NoRequest /\ KeepLocals /\ UNCHANGED <<copy, edit>>
        <3>1. ServiceKept /\ key[p] \in OpenKeys
            BY Zenon, <2>3, QuietService, LocalsKept
        <3>2. OthersKeep(p) /\ LocalTypes' /\ LocalOK(p)'
            BY ZenonT(60), <1>0, <2>0, <2>3, <3>1, GotoOK
        <3> QED BY Zenon, <1>0, <3>1, <3>2, StepKeeps
    <2> QED BY ZenonT(60), <1>1, <2>1, <2>2, <2>3 DEF AttachAnswered
<1>2. CASE AttachRetry(p)
    <2>1. /\ Goto(p, "reconnect") /\ conn' = [conn EXCEPT ![p] = FALSE] /\ KeepLocals
          /\ UNCHANGED <<copy, edit>>
        BY ZenonT(60), <1>2 DEF AttachRetry
    <2>2. ServiceKept
        BY ZenonT(60), <1>0, <1>2, QuietService, AttachesKept DEF AttachRetry
    <2>3. OthersKeep(p) /\ LocalTypes' /\ LocalOK(p)'
        BY ZenonT(60), <1>0, <2>1, <2>2, GotoOK
    <2> QED BY ZenonT(20), <1>0, <2>2, <2>3, StepKeeps
<1>3. CASE AttachKeeps(p)
    BY ZenonT(20), <1>0, <1>3, QuietService, ExitKeeps DEF AttachKeeps
<1>4. CASE Reconnect(p)
    <2>1. ServiceKept
        BY ZenonT(20), <1>4, QuietService DEF Reconnect
    <2> QED BY ZenonT(20), <1>0, <1>4, <2>1, PersistSame DEF Reconnect
<1> QED BY Zenon, <1>1, <1>2, <1>3, <1>4

\* Every step of recover_shell keeps the invariant.
LEMMA RecoverStepKeeps ==
    ASSUME CliInv, NEW p \in Procs,
           RecoverChecked(p) \/ RecoverAnswered(p) \/ RecoverFails(p)
    PROVE  CliInv'
<1>0. /\ shell[p] \in Shells /\ pc[p] \in {"recover", "reopen"} /\ UNCHANGED file
      /\ key[p] \in OpenKeys /\ key[p] = openedBy[shell[p]]
    <2>1. pc[p] \in {"recover", "reopen"} /\ UNCHANGED file
        BY ZenonT(60) DEF RecoverChecked, RecoverAnswered, RecoverFails
    <2> QED BY Zenon, <2>1, Holding
<1>1. CASE RecoverChecked(p)
    <2>1. ServiceKept /\ shell[p] \in Known
        BY ZenonT(20), <1>1, QuietService DEF RecoverChecked, Running, Known
    <2>2. /\ Goto(p, "reopen") /\ KeepLocals /\ UNCHANGED <<copy, edit>>
          /\ conn' = [conn EXCEPT ![p] = conn[p]] /\ conn[p] \in BOOLEAN
        BY Zenon, <1>1, LocalsKept DEF RecoverChecked, Heard
    <2>3. OthersKeep(p) /\ LocalTypes' /\ LocalOK(p)'
        BY ZenonT(60), <1>0, <2>1, <2>2, GotoOK
    <2> QED BY ZenonT(60), <1>0, <2>1, <2>3, StepKeeps
<1>2. CASE RecoverAnswered(p)
    <2>1. PICK r \in Shells :
              /\ OpenShell(key[p], r)
              /\ r = shell[p] => /\ tok' = [tok EXCEPT ![p] = token'[shell[p]]]
                                 /\ Persist(p, "rotate", shell[p], "attach")
        BY ZenonT(60), <1>2 DEF RecoverAnswered
    <2>2. pc[p] = "reopen" /\ conn[p] /\ UNCHANGED <<shell, key, conn>>
        BY ZenonT(60), <1>2 DEF RecoverAnswered
    <2>3. shell[p] \in Known /\ byKey[key[p]] = shell[p]
        BY ZenonT(60), <1>0, <2>2, Holding DEF CliInv, KeysNameShells
    <2>4. ServiceKept /\ r = shell[p]
        BY ZenonT(60), <1>0, <2>1, <2>3, OpensKept
    <2>5. PICK t \in Nat : t = token'[shell[p]]
        BY ZenonT(60), <1>0, <2>4 DEF ServiceKept, ServiceTypes
    <2> QED BY ZenonT(20), <1>0, <2>1, <2>2, <2>4, <2>5, PersistToken
<1>3. CASE RecoverFails(p)
    <2>1. Persist(p, "forget", shell[p], "exit") /\ KeepLocals
        BY ZenonT(60), <1>3 DEF RecoverFails
    <2>2. \E c \in BOOLEAN : conn' = [conn EXCEPT ![p] = c]
        BY ZenonT(60), <1>3, LocalsKept DEF RecoverFails, Heard
    <2>3. ServiceKept
        BY ZenonT(20), <1>0, <1>3, QuietService, OpensKept DEF RecoverFails
    <2> QED BY ZenonT(60), <1>0, <2>1, <2>2, <2>3, PersistSame
<1> QED BY Zenon, <1>1, <1>2, <1>3

\* Every way an attached session or a terminate ends keeps the invariant.
LEMMA SessionStepKeeps ==
    ASSUME CliInv, NEW p \in Procs,
           TerminateAnswered(p) \/ TerminateFails(p) \/ SessionLost(p) \/ SessionExited(p)
    PROVE  CliInv'
<1>0. shell[p] \in Shells /\ pc[p] \in {"terminate", "attached"} /\ UNCHANGED file
    <2>1. pc[p] \in {"terminate", "attached"} /\ UNCHANGED file
        BY ZenonT(20) DEF TerminateAnswered, TerminateFails, SessionLost, SessionExited
    <2> QED BY ZenonT(60), <2>1, Holding
<1>1. CASE TerminateAnswered(p)
    <2>1. /\ shell[p] \in Known /\ phase' = [phase EXCEPT ![shell[p]] = "ended"]
          /\ UNCHANGED <<byKey, token, openedBy>>
        BY ZenonT(20), <1>1 DEF TerminateAnswered
    <2>2. ServiceKept
        BY ZenonT(20), <2>1, EndKeeps DEF CliInv, ServiceKept
    <2>3. /\ Persist(p, "forget", shell[p], "exit") /\ KeepLocals
          /\ conn' = [conn EXCEPT ![p] = conn[p]] /\ conn[p] \in BOOLEAN
        BY Zenon, <1>1, LocalsKept DEF TerminateAnswered, Heard
    <2> QED BY ZenonT(20), <1>0, <2>2, <2>3, PersistSame
<1>2. CASE TerminateFails(p)
    BY ZenonT(20), <1>0, <1>2, QuietService, ExitKeeps DEF TerminateFails
<1>3. CASE SessionLost(p)
    <2>1. /\ Goto(p, "reconnect") /\ conn' = [conn EXCEPT ![p] = FALSE] /\ KeepLocals
          /\ UNCHANGED <<copy, edit>> /\ ServiceKept
        BY Zenon, <1>3, QuietService DEF SessionLost
    <2>2. OthersKeep(p) /\ LocalTypes' /\ LocalOK(p)'
        BY ZenonT(20), <1>0, <2>1, GotoOK
    <2> QED BY Zenon, <1>0, <2>1, <2>2, StepKeeps
<1>4. CASE SessionExited(p)
    <2>1. /\ Persist(p, "forget", shell[p], "exit") /\ KeepLocals /\ ServiceKept
          /\ conn' = [conn EXCEPT ![p] = conn[p]] /\ conn[p] \in BOOLEAN
        BY Zenon, <1>4, LocalsKept, QuietService DEF SessionExited
    <2> QED BY ZenonT(60), <1>0, <2>1, PersistSame
<1> QED BY Zenon, <1>1, <1>2, <1>3, <1>4

\* The daemon: a shell ends, or everything does.
LEMMA DaemonKeeps ==
    ASSUME CliInv, Restart \/ \E s \in Shells : ShellEnds(s)
    PROVE  CliInv'
<1>1. ASSUME NEW s \in Shells, ShellEnds(s) PROVE CliInv'
    <2>1. s \in Known /\ UNCHANGED <<file, local, token, openedBy>>
        BY Zenon, <1>1 DEF ShellEnds, End, Known
    <2>2. ServiceTypes' /\ KeysNameShells' /\ Known' = Known
        BY ZenonT(20), <1>1, <2>1, EndKeeps DEF ShellEnds, End, CliInv
    <2> QED BY Zenon, <2>1, <2>2
            DEF CliInv, local, LocalTypes, LocalOK, AtWork, Heading
<1>2. CASE Restart
    <2>1. /\ phase' = [s \in Shells |-> IF s \in Known THEN "gone" ELSE phase[s]]
          /\ byKey' = [k \in OpenKeys |-> NoShell] /\ conn' = [p \in Procs |-> FALSE]
          /\ UNCHANGED <<token, openedBy, file, pc, shell, key, tok, copy, edit>>
        BY Zenon, <1>2 DEF Restart
    <2>2. ServiceTypes' /\ Known' = {}
        BY Zenon, <2>1 DEF CliInv, ServiceTypes, Known, Phases
    <2>3. KeysNameShells'
        BY ZenonT(20), <2>1, <2>2, CliAssumption DEF CliInv, KeysNameShells
    <2>4. \A p \in Procs : ~conn'[p]
        BY Zenon, <2>1
    <2>5. LocalTypes'
        BY Zenon, <2>1 DEF CliInv, LocalTypes
    <2>6. \A p \in Procs : LocalOK(p)'
        BY ZenonT(20), <2>1, <2>4 DEF CliInv, LocalOK, AtWork, Heading
    <2> QED BY Zenon, <2>1, <2>2, <2>3, <2>5, <2>6 DEF CliInv
<1> QED BY Zenon, <1>1, <1>2

\* The invariant of hf's processes holds at the start.
LEMMA CliInvInit == Init => CliInv
<1> SUFFICES ASSUME Init PROVE CliInv
    BY Zenon
<1>1. ServiceTypes /\ KeysNameShells
    BY Zenon, CliAssumption DEF Init, ServiceInit, ServiceTypes, KeysNameShells, Known, Phases
<1>2. NoFile \in [Shells -> Entries] /\ Genuine(NoFile, openedBy, token)
    BY Zenon, <1>1, NoFileGenuine
<1>3. NoEdit \in Edits /\ NoEdit.op = "none"
    BY Zenon DEF NoEdit, Edits
<1>4. LocalTypes
    BY Zenon, <1>2, <1>3 DEF Init, LocalTypes, CliPlaces
<1>5. ASSUME NEW p \in Procs PROVE LocalOK(p)
    <2>1. pc[p] = "idle" /\ shell[p] = NoShell /\ copy[p] = NoFile /\ edit[p] = NoEdit
        BY Zenon DEF Init
    <2> QED BY ZenonT(20), <1>2, <1>3, <2>1, CliAssumption DEF LocalOK, AtWork, Heading, Sound
<1> QED BY Zenon, <1>1, <1>2, <1>4, <1>5 DEF CliInv, Init

\* Every step keeps the invariant of hf's processes.
LEMMA CliInvNext == CliInv /\ [Next]_vars => CliInv'
<1> SUFFICES ASSUME CliInv, [Next]_vars PROVE CliInv'
    BY Zenon
<1>1. CASE UNCHANGED vars
    BY ZenonT(20), <1>1 DEF vars, service, local, CliInv, ServiceTypes, LocalTypes, KeysNameShells, Known,
                LocalOK, AtWork, Heading
<1>2. ASSUME NEW p \in Procs, Step(p) PROVE CliInv'
    BY Zenon, <1>2, LoadKeeps, SaveKeeps, OpenStepKeeps, AttachStepKeeps, RecoverStepKeeps,
       SessionStepKeeps DEF Step
<1> QED BY Zenon, <1>1, <1>2, CommandKeeps, DaemonKeeps DEF Next

\* Whatever processes share the state file, and however they interleave, what
\* it says of a shell is true of it (persist_entry, state.rs load and save).
THEOREM EntriesAreGenuine == Spec => []EntriesGenuine
<1>1. CliInv => EntriesGenuine
    BY ZenonT(20) DEF CliInv, EntriesGenuine, Genuine, Fits
<1> QED BY <1>1, CliInvInit, CliInvNext, PTL DEF Spec

\* The re-open of recover_shell returns the shell it was meant for: the branch
\* that cleans up an accidental other shell is never taken.
THEOREM RecoveryOpensNothing == Spec => [](\A p \in Procs : pc[p] # "accident")
<1>1. CliInv => \A p \in Procs : pc[p] # "accident"
    BY ZenonT(20) DEF CliInv, LocalOK, AtWork
<1> QED BY <1>1, CliInvInit, CliInvNext, PTL DEF Spec

-----------------------------------------------------------------------------
(* Pages of history.                                                       *)

Lines == [no : Nat, size : Nat]
Pagers == [on : BOOLEAN, held : Seq(Lines), oldestFetched : Nat, oldestAvailable : Nat,
           exhausted : BOOLEAN, fetching : BOOLEAN]
Ranges == [first : Nat, lines : Seq(Lines), truncated : BOOLEAN]
Frames == [kind : {"chunk"}, range : Ranges] \cup [kind : {"end"}, oldest : Nat]

Consecutive(ls) == \A i \in 1 .. (Len(ls) - 1) : ls[i + 1].no = ls[i].no + 1

\* The ring's lines are numbered without a gap from first_id to next_id.
RingOK(r) ==
    /\ r.lines \in Seq(Lines) /\ r.first_id \in Nat \ {0} /\ r.next_id \in Nat \ {0}
    /\ r.next_id = r.first_id + Len(r.lines)
    /\ \A i \in 1 .. Len(r.lines) : r.lines[i].no = r.first_id + (i - 1)

\* A page that goes before line b: the lines end just before it.
Joins(page, b, n) ==
    page.lines # <<>> =>
        /\ Consecutive(page.lines)
        /\ page.first # 0 /\ page.lines[1].no = page.first
        /\ page.first < n
        /\ b # 0 => page.lines[Len(page.lines)].no = b - 1

IsChunk(i) == i \in 1 .. Len(replies) /\ replies[i].kind = "chunk"
\* Requests the handler has not answered with a chunk.
Unserved == IF serving THEN Len(asked) - 1 ELSE Len(asked)

\* One request is under way at most, and its answer goes before what is held.
OneRequest ==
    /\ serving => asked # <<>>
    /\ Unserved \in {0, 1}
    /\ \A i, j \in 1 .. Len(replies) : IsChunk(i) /\ IsChunk(j) => i = j
    /\ pager.fetching <=> Unserved = 1 \/ \E i \in 1 .. Len(replies) : IsChunk(i)
    /\ Unserved = 1 => /\ asked[Len(asked)] = pager.oldestFetched
                       /\ \A i \in 1 .. Len(replies) : ~IsChunk(i)
    /\ \A i \in 1 .. Len(replies) : IsChunk(i) =>
           Joins(replies[i].range, pager.oldestFetched, ring.next_id)

HeldOK ==
    /\ pager \in Pagers /\ Consecutive(pager.held)
    /\ pager.held = <<>> => pager.oldestFetched = 0
    /\ pager.held # <<>> => pager.oldestFetched # 0 /\ pager.held[1].no = pager.oldestFetched
    /\ pager.oldestFetched < ring.next_id
    /\ ~pager.on => ~pager.fetching

ScrollInv ==
    /\ RingOK(ring) /\ serving \in BOOLEAN
    /\ asked \in Seq(Nat) /\ replies \in Seq(Frames)
    /\ HeldOK /\ OneRequest

\* A set of naturals that is not empty has a least element.
LEMMA LeastNat ==
    ASSUME NEW T \in SUBSET Nat, T # {} PROVE \E m \in T : \A k \in T : m <= k
<1> DEFINE R == OpToRel(<, Nat)
<1>1. IsWellFoundedOn(R, Nat)
    BY NatLessThanWellFounded, Zenon
<1>2. R = {ss \in Nat \X Nat : ss[1] < ss[2]}
    BY Zenon DEF OpToRel
<1> HIDE DEF R
<1>3. PICK m \in T : \A k \in T : ~(<<k, m>> \in R)
    BY ZenonT(20), <1>1, WFMin
<1>4. ASSUME NEW k \in T, k < m PROVE FALSE
  <2> DEFINE p == <<k, m>>
  <2>1. p \in Nat \X Nat /\ p[1] = k /\ p[2] = m
    BY Zenon
  <2> HIDE DEF p
  <2>2. p \in R
    BY Zenon, <1>2, <1>4, <2>1
  <2> QED BY Zenon, <1>3, <2>2 DEF p
<1> QED BY <1>4, SMT

\* What SubSeq gives.
LEMMA SubSeqFacts ==
    ASSUME NEW S, NEW q \in Seq(S), NEW a \in Nat \ {0}, NEW b \in Nat, a <= b + 1, b <= Len(q)
    PROVE  /\ SubSeq(q, a, b) \in Seq(S) /\ Len(SubSeq(q, a, b)) = b + 1 - a
           /\ \A i \in 1 .. (b + 1 - a) : SubSeq(q, a, b)[i] = q[a + i - 1]
<1>1. \A i \in a .. b : q[i] \in S
    OBVIOUS
<1> QED BY <1>1

\* r is q with e at its end.
Extended(r, q, e) == /\ r # <<>> /\ Len(r) = Len(q) + 1 /\ Len(q) \in Nat
                     /\ r[Len(q) + 1] = e /\ \A i \in 1 .. Len(q) : r[i] = q[i]

\* Append extends a sequence by one element.
LEMMA AppendFacts ==
    ASSUME NEW S, NEW q \in Seq(S), NEW e \in S
    PROVE  Append(q, e) \in Seq(S) /\ Extended(Append(q, e), q, e)
  BY DEF Extended

\* With no request unserved, one more makes one, whether or not one is being
\* served.
LEMMA OneMore ==
    ASSUME NEW k \in Nat, NEW b \in BOOLEAN, (IF b THEN k - 1 ELSE k) = 0
    PROVE  (IF b THEN (k + 1) - 1 ELSE k + 1) = 1
  OBVIOUS

\* The last of two elements is the last of the tail.
LEMMA LastOfTwo ==
    ASSUME NEW q, NEW t, Len(q) \in Nat, Len(q) - 1 = 1, Len(t) = Len(q) - 1,
           \A i \in 1 .. Len(t) : t[i] = q[i + 1]
    PROVE  t[Len(t)] = q[Len(q)]
  OBVIOUS

\* What Head and Tail of a sequence that is not empty are.
LEMMA TailFacts ==
    ASSUME NEW S, NEW q \in Seq(S), q # <<>>
    PROVE  /\ Tail(q) \in Seq(S) /\ Len(Tail(q)) = Len(q) - 1 /\ Len(q) \in Nat \ {0}
           /\ Head(q) = q[1] /\ q[1] \in S
           /\ \A i \in 1 .. Len(Tail(q)) : Tail(q)[i] = q[i + 1]
  OBVIOUS

\* The eviction loop ends within the ring, before the line just pushed.
LEMMA EvictionsExist ==
    ASSUME NEW ls \in Seq(Lines), ls # <<>>
    PROVE  Evictions(ls) \in 0 .. (Len(ls) - 1)
<1> DEFINE n == Len(ls) - 1
           T == {k \in 0 .. n : ~Over(Drop(ls, k)) \/ k = n}
<1>1. n \in Nat
    OBVIOUS
<1> HIDE DEF n
<1>2. T \in SUBSET Nat /\ n \in T
    BY <1>1
<1>3. PICK m \in T : \A k \in T : m <= k
    BY ZenonT(20), <1>2, LeastNat
<1>4. m \in 0 .. n /\ (~Over(Drop(ls, m)) \/ m = n)
    BY Zenon
<1>5. \A j \in 0 .. (m - 1) : Over(Drop(ls, j))
  <2> SUFFICES ASSUME NEW j \in 0 .. (m - 1), ~Over(Drop(ls, j)) PROVE FALSE
      BY Zenon
  <2>1. j \in T
    BY <1>1, <1>4
  <2> HIDE DEF T
  <2>2. m <= j
    BY Zenon, <1>3, <2>1
  <2> QED BY <1>1, <1>4, <2>2
<1> DEFINE P(k) == /\ ~Over(Drop(ls, k)) \/ k = n
                   /\ \A j \in 0 .. (k - 1) : Over(Drop(ls, j))
<1>6. P(m)
    BY Zenon, <1>4, <1>5
<1>7. Evictions(ls) = CHOOSE k \in 0 .. n : P(k)
    BY Zenon DEF Evictions, n
<1> HIDE DEF P
<1> QED BY Zenon, <1>4, <1>6, <1>7 DEF n

\* push numbers the new line and takes whole lines from the front.
LEMMA PushOK ==
    ASSUME NEW r, RingOK(r), NEW size \in LineSizes
    PROVE  RingOK(push(r, size)) /\ push(r, size).next_id = r.next_id + 1
<1> DEFINE line == [no |-> r.next_id, size |-> size]
           all == Append(r.lines, line)
           k == Evictions(all)
           n == Len(r.lines)
           kept == Drop(all, k)
<1>1. /\ r.lines \in Seq(Lines) /\ r.first_id \in Nat \ {0} /\ r.next_id \in Nat \ {0}
      /\ r.next_id = r.first_id + Len(r.lines)
      /\ \A i \in 1 .. Len(r.lines) : r.lines[i].no = r.first_id + (i - 1)
    BY Zenon DEF RingOK
<1>2. line \in Lines /\ line.no = r.next_id
    BY Zenon, <1>1, HistoryLimits DEF Lines
<1>3. push(r, size) = [lines |-> kept, first_id |-> r.first_id + k,
                       next_id |-> r.next_id + 1, bytes |-> Bytes(kept)]
    BY Zenon DEF push
<1>a. all = Append(r.lines, line)
    BY Zenon
<1> HIDE DEF line, all
<1>4. /\ all \in Seq(Lines) /\ Len(all) = n + 1 /\ all # <<>> /\ n \in Nat
      /\ all[n + 1] = line /\ \A i \in 1 .. n : all[i] = r.lines[i]
  <2>1. all \in Seq(Lines) /\ Extended(all, r.lines, line)
    BY Zenon, <1>1, <1>2, <1>a, AppendFacts
  <2> QED BY Zenon, <2>1 DEF Extended
<1>5. ASSUME NEW i \in 1 .. Len(all) PROVE all[i].no = r.first_id + (i - 1)
  <2>1. CASE i = n + 1
    <3>1. r.first_id + n = r.first_id + ((n + 1) - 1)
      BY <1>1, <1>4
    <3> QED BY Zenon, <1>1, <1>2, <1>4, <2>1, <3>1
  <2>2. CASE i # n + 1
    <3>1. i \in 1 .. n
      BY <1>4, <2>2
    <3> QED BY Zenon, <1>1, <1>4, <3>1
  <2> QED BY Zenon, <2>1, <2>2
<1>6. k \in 0 .. n
    BY <1>4, EvictionsExist
<1> HIDE DEF k, n
<1>7. /\ kept \in Seq(Lines) /\ Len(kept) = n + 1 - k
      /\ \A i \in 1 .. (n + 1 - k) : kept[i] = all[k + i]
  <2>1. kept = SubSeq(all, k + 1, n + 1)
    BY Zenon, <1>4 DEF Drop
  <2>2. /\ kept \in Seq(Lines) /\ Len(kept) = n + 1 + 1 - (k + 1)
        /\ \A i \in 1 .. (n + 1 + 1 - (k + 1)) : kept[i] = all[k + 1 + i - 1]
    BY SMTT(20), <1>4, <1>6, <2>1, SubSeqFacts
  <2>3. n + 1 + 1 - (k + 1) = n + 1 - k /\ \A i \in 1 .. (n + 1 - k) : k + 1 + i - 1 = k + i
    BY <1>4, <1>6
  <2> QED BY Zenon, <2>2, <2>3
<1> HIDE DEF kept
<1>8. \A i \in 1 .. (n + 1 - k) : kept[i].no = r.first_id + k + (i - 1)
  <2> TAKE i \in 1 .. (n + 1 - k)
  <2>1. k + i \in 1 .. Len(all)
    BY <1>4, <1>6
  <2>2. all[k + i].no = r.first_id + ((k + i) - 1)
    BY Zenon, <1>5, <2>1
  <2>3. r.first_id + ((k + i) - 1) = r.first_id + k + (i - 1)
    BY <1>1, <1>4, <1>6
  <2> QED BY Zenon, <1>7, <2>2, <2>3
<1> DEFINE s == push(r, size)
<1>9. s.lines = kept /\ s.first_id = r.first_id + k /\ s.next_id = r.next_id + 1
    BY <1>3
<1> HIDE DEF s
<1>10. r.next_id = r.first_id + n
    BY Zenon, <1>1 DEF n
<1>11. r.first_id + k \in Nat \ {0} /\ r.next_id + 1 = r.first_id + k + (n + 1 - k)
    BY SMTT(20), <1>1, <1>4, <1>6, <1>10
<1>12. RingOK(s)
    BY SMTT(20), <1>1, <1>7, <1>8, <1>9, <1>11 DEF RingOK
<1> QED BY Zenon, <1>9, <1>12 DEF s

\* range ends its page within the ring.
LEMMA TakenExists ==
    ASSUME NEW r, RingOK(r), NEW upper \in Nat, r.first_id <= upper
    PROVE  Taken(r, upper) \in 1 .. (upper - r.first_id + 1)
<1> DEFINE n == upper - r.first_id + 1
           T == {k \in 1 .. n : k = n \/ ~Fit(r, upper, k + 1)}
<1>1. n \in Nat \ {0}
    BY DEF RingOK
<1> HIDE DEF n
<1>2. T \in SUBSET Nat /\ n \in T
    BY <1>1
<1>3. PICK m \in T : \A k \in T : m <= k
    BY ZenonT(20), <1>2, LeastNat
<1>4. m \in 1 .. n /\ (m = n \/ ~Fit(r, upper, m + 1))
    BY Zenon
<1>5. Fit(r, upper, m)
  <2>1. CASE m = 1
    BY Zenon, <2>1 DEF Fit
  <2>2. CASE m # 1
    <3>1. m - 1 \in 1 .. n /\ m - 1 # n /\ m - 1 + 1 = m /\ ~(m <= m - 1)
      BY <1>1, <1>4, <2>2
    <3>2. m - 1 \notin T
      BY Zenon, <1>3, <3>1
    <3>3. Fit(r, upper, m - 1 + 1)
      BY Zenon, <3>1, <3>2
    <3> QED BY Zenon, <3>1, <3>3
  <2> QED BY Zenon, <2>1, <2>2
<1> DEFINE P(k) == Fit(r, upper, k) /\ (k = n \/ ~Fit(r, upper, k + 1))
<1>6. P(m)
    BY Zenon, <1>4, <1>5
<1>7. Taken(r, upper) = CHOOSE k \in 1 .. n : P(k)
    BY Zenon DEF Taken, n
<1> HIDE DEF P
<1> QED BY Zenon, <1>4, <1>6, <1>7 DEF n

\* A page of history is a run of the ring's lines that ends just before the
\* line it was asked for.
LEMMA RangeOK ==
    ASSUME NEW r, RingOK(r), NEW before \in Nat, before < r.next_id
    PROVE  range(r, before) \in Ranges /\ Joins(range(r, before), before, r.next_id)
<1> DEFINE upper == IF before = 0 THEN newest_id(r) ELSE Least(before - 1, newest_id(r))
           page == range(r, before)
           n == Len(r.lines)
<1>1. /\ r.lines \in Seq(Lines) /\ r.first_id \in Nat \ {0} /\ r.next_id \in Nat \ {0}
      /\ r.next_id = r.first_id + n /\ n \in Nat
      /\ \A i \in 1 .. n : r.lines[i].no = r.first_id + (i - 1)
    BY DEF RingOK
<1>2. upper \in Nat /\ upper < r.next_id /\ (before # 0 => upper = before - 1)
    BY <1>1 DEF newest_id, Least
<1>3. CASE r.lines = <<>> \/ upper = 0 \/ upper < r.first_id
  <2>1. page = [first |-> 0, lines |-> <<>>,
                truncated |-> upper # 0 /\ newest_id(r) # 0 /\ upper < r.first_id]
    BY Zenon, <1>3 DEF range
  <2>2. <<>> \in Seq(Lines)
    OBVIOUS
  <2>3. page \in Ranges
    BY <2>1, <2>2 DEF Ranges
  <2>4. page.lines = <<>>
    BY <2>1
  <2> QED BY Zenon, <2>3, <2>4 DEF Joins
<1>4. CASE ~(r.lines = <<>> \/ upper = 0 \/ upper < r.first_id)
  <2> DEFINE k == Taken(r, upper)
             a == upper - r.first_id + 2 - k
             b == upper - r.first_id + 1
             ls == SubSeq(r.lines, a, b)
  <2>1. page = [first |-> upper + 1 - k, lines |-> ls,
                truncated |-> upper + 1 - k = r.first_id /\ r.first_id > 1]
    BY Zenon, <1>4 DEF range
  <2> HIDE DEF upper, page
  <2>2. r.first_id <= upper
    BY <1>1, <1>2, <1>4
  <2>3. k \in 1 .. b
    BY Zenon, <1>2, <2>2, TakenExists
  <2> DEFINE first == r.first_id
  <2> HIDE DEF k, n, first
  <2>13. /\ first \in Nat \ {0} /\ n \in Nat /\ upper \in Nat /\ upper < first + n /\ first <= upper
         /\ b = upper - first + 1 /\ a = upper - first + 2 - k
    BY Zenon, <1>1, <1>2, <2>2 DEF first
  <2> HIDE DEF a, b
  <2>14. b \in Nat \ {0} /\ b <= n /\ a = b + 1 - k
    BY <2>3, <2>13
  <2>4. a \in Nat \ {0} /\ b \in Nat /\ a <= b + 1 /\ b <= n /\ b + 1 - a = k /\ k \in Nat \ {0}
    BY <2>3, <2>14
  <2>5. /\ ls \in Seq(Lines) /\ Len(ls) = k
        /\ \A i \in 1 .. k : ls[i] = r.lines[a + i - 1]
    <3>1. Len(r.lines) = n
      BY Zenon DEF n
    <3> QED BY <1>1, <2>4, <3>1, SubSeqFacts
  <2> HIDE DEF ls
  <2>6. \A i \in 1 .. k : ls[i].no = upper + 1 - k + (i - 1)
    <3> TAKE i \in 1 .. k
    <3>1. a + i - 1 \in 1 .. n
      BY <2>4, <2>13
    <3>2. r.lines[a + i - 1].no = first + ((a + i - 1) - 1)
      BY Zenon, <1>1, <3>1 DEF first
    <3>3. first + ((a + i - 1) - 1) = upper + 1 - k + (i - 1)
      BY <2>3, <2>4, <2>13
    <3> QED BY Zenon, <2>5, <3>2, <3>3
  <2> DEFINE f == upper + 1 - k
  <2>7. f \in Nat \ {0} /\ f < r.next_id /\ f + (k - 1) = upper
    <3>1. r.next_id = first + n
      BY Zenon, <1>1 DEF first
    <3> QED BY <2>3, <2>4, <2>13, <3>1
  <2>8. \A i \in 1 .. k : ls[i].no = f + (i - 1)
    BY Zenon, <2>6
  <2> HIDE DEF f
  <2>9. page.first = f /\ page.lines = ls /\ page \in Ranges
    BY Zenon, <2>1, <2>5, <2>7 DEF f, Ranges
  <2>10. Consecutive(ls)
    BY <2>4, <2>5, <2>7, <2>8 DEF Consecutive
  <2>11. ls[1].no = f /\ ls[Len(ls)].no = upper
    BY <2>4, <2>5, <2>7, <2>8
  <2>12. Joins(page, before, r.next_id)
    BY Zenon, <1>2, <2>7, <2>9, <2>10, <2>11 DEF Joins
  <2> QED BY Zenon, <2>9, <2>12 DEF page
<1> QED BY Zenon, <1>3, <1>4

\* Joining two runs that meet is a run.
LEMMA RunsJoin ==
    ASSUME NEW p \in Seq(Lines), NEW q \in Seq(Lines), p # <<>>, Consecutive(p), Consecutive(q),
           q # <<>> => q[1].no = p[Len(p)].no + 1
    PROVE  p \o q \in Seq(Lines) /\ p \o q # <<>> /\ Consecutive(p \o q) /\ (p \o q)[1] = p[1]
<1> DEFINE s == p \o q
           m == Len(p)
           n == Len(q)
<1>1. /\ s \in Seq(Lines) /\ Len(s) = m + n /\ m \in Nat \ {0} /\ n \in Nat
      /\ \A i \in 1 .. m : s[i] = p[i]
      /\ \A i \in (m + 1) .. (m + n) : s[i] = q[i - m]
    OBVIOUS
<1> HIDE DEF s
<1>2. ASSUME NEW i \in 1 .. (Len(s) - 1) PROVE s[i + 1].no = s[i].no + 1
  <2>1. CASE i < m
    <3>1. i \in 1 .. (m - 1) /\ i \in 1 .. m /\ i + 1 \in 1 .. m
      BY <1>1, <2>1
    <3>2. p[i + 1].no = p[i].no + 1
      BY Zenon, <3>1 DEF Consecutive
    <3> QED BY Zenon, <1>1, <3>1, <3>2
  <2>2. CASE i = m
    <3>1. i \in 1 .. m /\ i + 1 \in (m + 1) .. (m + n) /\ i + 1 - m = 1 /\ n > 0
      BY <1>1, <2>2
    <3>2. q # <<>>
      BY <3>1
    <3>4. s[i + 1] = q[i + 1 - m]
      BY <1>1, <3>1
    <3>3. s[i + 1] = q[1] /\ s[i] = p[m]
      BY Zenon, <1>1, <2>2, <3>1, <3>4
    <3> QED BY Zenon, <3>2, <3>3
  <2>3. CASE i > m
    <3>1. /\ i \in (m + 1) .. (m + n) /\ i + 1 \in (m + 1) .. (m + n)
          /\ i - m \in 1 .. (n - 1) /\ i + 1 - m = i - m + 1
      BY <1>1, <2>3
    <3>2. q[i - m + 1].no = q[i - m].no + 1
      BY Zenon, <3>1 DEF Consecutive
    <3> QED BY SMTT(20), <1>1, <3>1, <3>2
  <2> QED BY <1>1, <2>1, <2>2, <2>3
<1>3. s # <<>> /\ s[1] = p[1]
    BY <1>1
<1> QED BY Zenon, <1>1, <1>2, <1>3 DEF Consecutive, s

\* The invariant of the history pages holds at the start.
LEMMA ScrollInitInv == ScrollInit => ScrollInv
<1> SUFFICES ASSUME ScrollInit PROVE ScrollInv
    BY Zenon
<1>1. <<>> \in Seq(Lines) /\ <<>> \in Seq(Nat) /\ <<>> \in Seq(Frames) /\ Len(<<>>) = 0
    OBVIOUS
<1>2. /\ ring.lines = <<>> /\ ring.first_id = 1 /\ ring.next_id = 1
      /\ asked = <<>> /\ serving = FALSE /\ replies = <<>>
      /\ pager = [on |-> FALSE, held |-> <<>>, oldestFetched |-> 0, oldestAvailable |-> 0,
                  exhausted |-> FALSE, fetching |-> FALSE]
    BY Zenon DEF ScrollInit
<1>3. RingOK(ring)
    BY <1>1, <1>2 DEF RingOK
<1>4. /\ pager \in Pagers /\ pager.held = <<>> /\ pager.oldestFetched = 0 /\ ~pager.fetching
    BY Zenon, <1>1, <1>2 DEF Pagers
<1>5. HeldOK
    BY <1>1, <1>2, <1>4 DEF HeldOK, Consecutive
<1>6. OneRequest
  <2>1. Unserved = 0
    BY Zenon, <1>1, <1>2 DEF Unserved
  <2> QED BY <1>1, <1>2, <1>4, <2>1 DEF OneRequest, IsChunk
<1> QED BY ZenonT(20), <1>1, <1>2, <1>3, <1>5, <1>6 DEF ScrollInv

\* What a feed or a resize commits moves no line that is held or on its way.
LEMMA CommitKeeps ==
    ASSUME ScrollInv, ring' \in commit(ring), UNCHANGED <<pager, asked, serving, replies>>
    PROVE  ScrollInv'
<1>1. RingOK(ring) /\ HeldOK /\ OneRequest /\ asked \in Seq(Nat) /\ replies \in Seq(Frames)
      /\ serving \in BOOLEAN
    BY Zenon DEF ScrollInv
<1>2. RingOK(ring') /\ (ring'.next_id = ring.next_id \/ ring'.next_id = ring.next_id + 1)
    BY Zenon, <1>1, PushOK DEF commit
<1>3. ring.next_id \in Nat /\ ring'.next_id \in Nat /\ ring.next_id <= ring'.next_id
    BY <1>1, <1>2 DEF RingOK
<1>4. \A i \in 1 .. Len(replies) : IsChunk(i) =>
          Joins(replies[i].range, pager.oldestFetched, ring'.next_id)
  <2> SUFFICES ASSUME NEW i \in 1 .. Len(replies), IsChunk(i)
               PROVE  Joins(replies[i].range, pager.oldestFetched, ring'.next_id)
      BY Zenon
  <2>1. Joins(replies[i].range, pager.oldestFetched, ring.next_id)
    BY Zenon, <1>1 DEF OneRequest
  <2>2. replies[i] \in Frames /\ replies[i].kind = "chunk"
    BY <1>1 DEF IsChunk
  <2>3. replies[i].range.first \in Nat
    BY Zenon, <2>2 DEF Frames, Ranges
  <2>4. replies[i].range.first < ring.next_id => replies[i].range.first < ring'.next_id
    BY <1>3, <2>3
  <2> QED BY Zenon, <2>1, <2>4 DEF Joins
<1>5. OneRequest'
    BY Zenon, <1>1, <1>4 DEF OneRequest, IsChunk, Unserved
<1>6. HeldOK'
  <2>1. pager.oldestFetched \in Nat /\ pager.oldestFetched < ring.next_id
    BY Zenon, <1>1 DEF HeldOK, Pagers
  <2>2. pager.oldestFetched < ring'.next_id
    BY <1>3, <2>1
  <2> QED BY Zenon, <1>1, <2>2 DEF HeldOK, Consecutive
<1> QED BY Zenon, <1>1, <1>2, <1>5, <1>6 DEF ScrollInv

\* The chunk answers the one request under way.
LEMMA SendsChunkKeeps == ASSUME ScrollInv, SendsChunk PROVE ScrollInv'
<1> DEFINE page == range(ring, Head(asked))
           f == [kind |-> "chunk", range |-> page]
           n == Len(replies)
<1>1. RingOK(ring) /\ HeldOK /\ OneRequest /\ asked \in Seq(Nat) /\ replies \in Seq(Frames)
    BY Zenon DEF ScrollInv
<1>2. /\ asked # <<>> /\ ~serving /\ replies' = Append(replies, f) /\ serving' = TRUE
      /\ UNCHANGED <<ring, pager, asked>>
    BY Zenon DEF SendsChunk, history
<1>3. Len(asked) = 1 /\ Unserved = 1
    BY <1>1, <1>2 DEF OneRequest, Unserved
<1>4. Head(asked) = pager.oldestFetched
    BY <1>1, <1>3 DEF OneRequest
<1>5. \A i \in 1 .. n : ~IsChunk(i)
    BY Zenon, <1>1, <1>3 DEF OneRequest
<1>6. pager.oldestFetched \in Nat /\ pager.oldestFetched < ring.next_id
    BY Zenon, <1>1 DEF HeldOK, Pagers
<1>7. page \in Ranges /\ Joins(page, pager.oldestFetched, ring.next_id)
    BY Zenon, <1>1, <1>4, <1>6, RangeOK
<1> HIDE DEF page
<1>8. f \in Frames /\ f.kind = "chunk" /\ f.range = page
    BY Zenon, <1>7 DEF Frames
<1> HIDE DEF f
<1>9. /\ replies' \in Seq(Frames) /\ Len(replies') = n + 1 /\ n \in Nat
      /\ replies'[n + 1] = f /\ \A i \in 1 .. n : replies'[i] = replies[i]
  <2>1. replies' \in Seq(Frames) /\ Extended(replies', replies, f)
    BY Zenon, <1>1, <1>2, <1>8, AppendFacts
  <2> QED BY Zenon, <2>1 DEF Extended
<1>10. \A i \in 1 .. Len(replies') : IsChunk(i)' <=> i = n + 1
    BY <1>5, <1>8, <1>9 DEF IsChunk
<1>11. Unserved' = 0
    BY <1>2, <1>3 DEF Unserved
<1>12. \E i \in 1 .. Len(replies') : IsChunk(i)'
    BY <1>9, <1>10
<1>13. pager.fetching
    BY Zenon, <1>1, <1>3 DEF OneRequest
<1>14. OneRequest'
  <2>1. \A i \in 1 .. Len(replies') : IsChunk(i)' =>
            Joins(replies'[i].range, pager.oldestFetched, ring.next_id)
    BY Zenon, <1>7, <1>8, <1>9, <1>10
  <2>2. \A i, j \in 1 .. Len(replies') : IsChunk(i)' /\ IsChunk(j)' => i = j
    BY Zenon, <1>10
  <2>3. Unserved' \in {0, 1} /\ Unserved' # 1
    BY <1>11
  <2>4. pager' = pager /\ ring' = ring /\ asked' # <<>>
    BY Zenon, <1>2
  <2> QED BY Zenon, <1>12, <1>13, <2>1, <2>2, <2>3, <2>4 DEF OneRequest
<1>15. HeldOK'
    BY ZenonT(20), <1>1, <1>2 DEF HeldOK, Consecutive
<1>16. RingOK(ring')
    BY Zenon, <1>1, <1>2
<1> QED BY Zenon, <1>1, <1>2, <1>9, <1>14, <1>15, <1>16 DEF ScrollInv

\* HistoryEnd takes the request it ends off the queue.
LEMMA SendsEndKeeps == ASSUME ScrollInv, SendsEnd PROVE ScrollInv'
<1> DEFINE f == [kind |-> "end", oldest |-> oldest_id(ring)]
           n == Len(replies)
<1>1. RingOK(ring) /\ HeldOK /\ OneRequest /\ asked \in Seq(Nat) /\ replies \in Seq(Frames)
    BY Zenon DEF ScrollInv
<1>2. /\ serving /\ replies' = Append(replies, f) /\ serving' = FALSE /\ asked' = Tail(asked)
      /\ UNCHANGED <<ring, pager>>
    BY Zenon DEF SendsEnd, history_bounds
<1>3. f \in Frames /\ f.kind = "end"
    BY Zenon, <1>1 DEF Frames, oldest_id, RingOK
<1> HIDE DEF f
<1>4. /\ replies' \in Seq(Frames) /\ Len(replies') = n + 1 /\ n \in Nat
      /\ replies'[n + 1] = f /\ \A i \in 1 .. n : replies'[i] = replies[i]
  <2>1. replies' \in Seq(Frames) /\ Extended(replies', replies, f)
    BY Zenon, <1>1, <1>2, <1>3, AppendFacts
  <2> QED BY Zenon, <2>1 DEF Extended
<1>5. /\ asked # <<>> /\ Unserved = Len(asked) - 1 /\ Unserved \in {0, 1}
    BY Zenon, <1>1, <1>2 DEF OneRequest, Unserved
<1>6. /\ asked' \in Seq(Nat) /\ Len(asked') = Len(asked) - 1 /\ Len(asked) \in Nat \ {0}
      /\ \A i \in 1 .. Len(asked') : asked'[i] = asked[i + 1]
    BY Zenon, <1>1, <1>2, <1>5, TailFacts
<1>7. Unserved' = Unserved
    BY Zenon, <1>2, <1>5, <1>6 DEF Unserved
<1>8. Unserved = 1 => asked'[Len(asked')] = asked[Len(asked)]
    BY Zenon, <1>5, <1>6, LastOfTwo
<1>9. \A i \in 1 .. Len(replies') : IsChunk(i)' <=> (i \in 1 .. n /\ IsChunk(i))
    BY <1>3, <1>4 DEF IsChunk
<1>10. OneRequest'
  <2>1. \A i \in 1 .. Len(replies') : IsChunk(i)' =>
            Joins(replies'[i].range, pager.oldestFetched, ring.next_id)
    BY Zenon, <1>1, <1>4, <1>9 DEF OneRequest
  <2>2. \A i, j \in 1 .. Len(replies') : IsChunk(i)' /\ IsChunk(j)' => i = j
    BY Zenon, <1>1, <1>9 DEF OneRequest
  <2>3. (\E i \in 1 .. Len(replies') : IsChunk(i)') <=> \E i \in 1 .. n : IsChunk(i)
    BY <1>4, <1>9
  <2>4. pager.fetching <=> Unserved = 1 \/ \E i \in 1 .. n : IsChunk(i)
    BY Zenon, <1>1 DEF OneRequest
  <2>5. Unserved = 1 => asked[Len(asked)] = pager.oldestFetched /\ \A i \in 1 .. n : ~IsChunk(i)
    BY Zenon, <1>1 DEF OneRequest
  <2>6. Unserved' = 1 => \A i \in 1 .. Len(replies') : ~IsChunk(i)'
    BY Zenon, <1>7, <1>9, <2>5
  <2>7. pager' = pager /\ ring' = ring /\ ~serving' /\ Unserved' \in {0, 1}
    BY Zenon, <1>2, <1>5, <1>7
  <2>8. pager'.fetching <=> Unserved' = 1 \/ \E i \in 1 .. Len(replies') : IsChunk(i)'
    BY Zenon, <1>7, <2>3, <2>4, <2>7
  <2>9. Unserved' = 1 => asked'[Len(asked')] = pager'.oldestFetched
    BY Zenon, <1>7, <1>8, <2>5, <2>7
  <2> QED BY Zenon, <2>1, <2>2, <2>6, <2>7, <2>8, <2>9 DEF OneRequest
<1>11. HeldOK'
    BY Zenon, <1>1, <1>2 DEF HeldOK, Consecutive
<1>12. RingOK(ring')
    BY Zenon, <1>1, <1>2
<1> QED BY ZenonT(20), <1>1, <1>2, <1>4, <1>6, <1>10, <1>11, <1>12 DEF ScrollInv

\* A page asked for goes before what is held; nothing else is under way.
LEMMA AsksKeeps ==
    ASSUME ScrollInv, ~pager.fetching, pager'.fetching, pager' \in Pagers,
           pager'.held = pager.held, pager'.oldestFetched = pager.oldestFetched, pager'.on,
           asked' = Append(asked, pager.oldestFetched), UNCHANGED <<ring, serving, replies>>
    PROVE  ScrollInv'
<1> DEFINE n == Len(asked)
<1>1. /\ RingOK(ring) /\ HeldOK /\ OneRequest /\ asked \in Seq(Nat) /\ replies \in Seq(Frames)
      /\ serving \in BOOLEAN
    BY Zenon DEF ScrollInv
<1>2. Unserved = 0 /\ \A i \in 1 .. Len(replies) : ~IsChunk(i)
    BY Zenon, <1>1 DEF OneRequest
<1>3. pager.oldestFetched \in Nat
    BY Zenon, <1>1 DEF HeldOK, Pagers
<1>4. asked' \in Seq(Nat) /\ Len(asked') = n + 1 /\ n \in Nat /\ asked' # <<>>
      /\ asked'[n + 1] = pager.oldestFetched
  <2>1. asked' \in Seq(Nat) /\ Extended(asked', asked, pager.oldestFetched)
    BY Zenon, <1>1, <1>3, AppendFacts
  <2> QED BY Zenon, <2>1 DEF Extended
<1>5. Unserved' = 1
    BY Zenon, <1>1, <1>2, <1>4, OneMore DEF Unserved
<1>6. \A i \in 1 .. Len(replies') : ~IsChunk(i)'
    BY Zenon, <1>2 DEF IsChunk
<1>7. OneRequest'
    BY Zenon, <1>4, <1>5, <1>6 DEF OneRequest
<1>8. HeldOK'
    BY Zenon, <1>1 DEF HeldOK, Consecutive
<1>9. RingOK(ring')
    BY Zenon, <1>1
<1> QED BY Zenon, <1>1, <1>4, <1>7, <1>8, <1>9 DEF ScrollInv

\* Opening the pager keeps the invariant.
LEMMA OpensPagerKeeps == ASSUME ScrollInv, OpensPager PROVE ScrollInv'
<1> DEFINE p == [pager EXCEPT !.on = TRUE, !.oldestAvailable = history_bounds.oldest,
                              !.exhausted = history_bounds.newest = 0]
<1>1. /\ RingOK(ring) /\ HeldOK /\ OneRequest /\ asked \in Seq(Nat) /\ replies \in Seq(Frames)
      /\ serving \in BOOLEAN
    BY Zenon DEF ScrollInv
<1>2. ~pager.on /\ UNCHANGED <<ring, serving, replies>>
    BY Zenon DEF OpensPager
<1>3. pager \in Pagers /\ ~pager.fetching
    BY Zenon, <1>1, <1>2 DEF HeldOK
<1>4. history_bounds.oldest \in Nat
    BY Zenon, <1>1 DEF history_bounds, oldest_id, RingOK
<1>5. /\ p \in Pagers /\ p.held = pager.held /\ p.oldestFetched = pager.oldestFetched
      /\ ~p.fetching /\ p.on
    BY ZenonT(20), <1>3, <1>4 DEF Pagers
<1>6. CASE pager' = p /\ asked' = asked
  <2> HIDE DEF p
  <2>1. /\ pager' \in Pagers /\ pager'.held = pager.held
        /\ pager'.oldestFetched = pager.oldestFetched /\ ~pager'.fetching /\ pager'.on
    BY Zenon, <1>5, <1>6
  <2>2. OneRequest'
    <3>1. Unserved' = Unserved /\ \A i \in 1 .. Len(replies) : IsChunk(i)' <=> IsChunk(i)
      BY Zenon, <1>2, <1>6 DEF Unserved, IsChunk
    <3>2. Unserved = 0 /\ \A i \in 1 .. Len(replies) : ~IsChunk(i)
      BY Zenon, <1>1, <1>3 DEF OneRequest
    <3>3. serving => asked # <<>>
      BY Zenon, <1>1 DEF OneRequest
    <3> QED BY <1>2, <1>6, <2>1, <3>1, <3>2, <3>3 DEF OneRequest
  <2>3. HeldOK'
    BY Zenon, <1>1, <1>2, <2>1 DEF HeldOK, Consecutive
  <2>4. RingOK(ring')
    BY Zenon, <1>1, <1>2
  <2> QED BY Zenon, <1>1, <1>2, <1>6, <2>2, <2>3, <2>4 DEF ScrollInv
<1>7. CASE Asks(p)
  <2> HIDE DEF p
  <2>1. asked' = Append(asked, p.oldestFetched) /\ pager' = [p EXCEPT !.fetching = TRUE]
    BY Zenon, <1>7 DEF Asks
  <2>2. /\ pager' \in Pagers /\ pager'.held = p.held /\ pager'.oldestFetched = p.oldestFetched
        /\ pager'.fetching /\ pager'.on
    BY ZenonT(20), <1>5, <2>1 DEF Pagers
  <2> QED BY Zenon, <1>2, <1>3, <1>5, <2>1, <2>2, AsksKeeps
<1> QED BY Zenon, <1>6, <1>7 DEF OpensPager

\* A request for older lines keeps the invariant.
LEMMA ScrollsUpKeeps == ASSUME ScrollInv, ScrollsUp PROVE ScrollInv'
<1>1. pager \in Pagers
    BY Zenon DEF ScrollInv, HeldOK
<1>2. /\ pager.on /\ ~pager.fetching /\ UNCHANGED <<ring, serving, replies>>
      /\ asked' = Append(asked, pager.oldestFetched) /\ pager' = [pager EXCEPT !.fetching = TRUE]
    BY Zenon DEF ScrollsUp, Asks
<1>3. /\ pager' \in Pagers /\ pager'.held = pager.held /\ pager'.oldestFetched = pager.oldestFetched
      /\ pager'.fetching /\ pager'.on
    BY ZenonT(20), <1>1, <1>2 DEF Pagers
<1> QED BY Zenon, <1>2, <1>3, AsksKeeps

\* turn_page puts the page before what is held, and they meet.
LEMMA TurnPageOK ==
    ASSUME HeldOK, NEW page \in Ranges, Joins(page, pager.oldestFetched, ring.next_id)
    PROVE  LET p == turn_page(pager, page) IN
           /\ p \in Pagers /\ Consecutive(p.held) /\ ~p.fetching
           /\ p.held = <<>> => p.oldestFetched = 0
           /\ p.held # <<>> => p.oldestFetched # 0 /\ p.held[1].no = p.oldestFetched
           /\ p.oldestFetched < ring.next_id
<1> DEFINE p == turn_page(pager, page)
<1>1. /\ pager \in Pagers /\ pager.held \in Seq(Lines) /\ pager.oldestFetched \in Nat
      /\ Consecutive(pager.held) /\ pager.oldestFetched < ring.next_id
      /\ pager.held = <<>> => pager.oldestFetched = 0
      /\ pager.held # <<>> => pager.oldestFetched # 0 /\ pager.held[1].no = pager.oldestFetched
    BY Zenon DEF HeldOK, Pagers
<1>2. page.lines \in Seq(Lines) /\ page.first \in Nat /\ page.truncated \in BOOLEAN
    BY Zenon DEF Ranges
<1>3. CASE page.lines = <<>>
  <2>1. p = [pager EXCEPT !.exhausted = TRUE, !.fetching = FALSE]
    BY Zenon, <1>3 DEF turn_page
  <2>2. /\ p \in Pagers /\ p.held = pager.held /\ p.oldestFetched = pager.oldestFetched /\ ~p.fetching
    BY ZenonT(20), <1>1, <2>1 DEF Pagers
  <2> HIDE DEF p
  <2>3. /\ p \in Pagers /\ Consecutive(p.held) /\ ~p.fetching
        /\ p.held = <<>> => p.oldestFetched = 0
        /\ p.held # <<>> => p.oldestFetched # 0 /\ p.held[1].no = p.oldestFetched
        /\ p.oldestFetched < ring.next_id
    BY Zenon, <1>1, <2>2 DEF Consecutive
  <2> QED BY Zenon, <2>3 DEF p
<1>4. CASE page.lines # <<>>
  <2> DEFINE h == page.lines \o pager.held
             e == pager.exhausted \/ page.truncated \/ page.first <= pager.oldestAvailable
  <2>1. p = [pager EXCEPT !.held = h, !.oldestFetched = page.first, !.exhausted = e, !.fetching = FALSE]
    BY Zenon, <1>4 DEF turn_page
  <2>2. /\ Consecutive(page.lines) /\ page.first # 0 /\ page.lines[1].no = page.first
        /\ page.first < ring.next_id
        /\ pager.oldestFetched # 0 =>
               page.lines[Len(page.lines)].no = pager.oldestFetched - 1
    BY Zenon, <1>4 DEF Joins
  <2>3. pager.held # <<>> => pager.held[1].no = page.lines[Len(page.lines)].no + 1
    <3> SUFFICES ASSUME pager.held # <<>>
                 PROVE  pager.held[1].no = page.lines[Len(page.lines)].no + 1
        BY Zenon
    <3>1. Len(page.lines) \in 1 .. Len(page.lines) /\ 1 \in 1 .. Len(pager.held)
      BY SMTT(20), <1>1, <1>2, <1>4
    <3>2. page.lines[Len(page.lines)] \in Lines /\ pager.held[1] \in Lines
      BY <1>1, <1>2, <3>1
    <3>3. page.lines[Len(page.lines)].no \in Nat
      BY Zenon, <3>2 DEF Lines
    <3>4. page.lines[Len(page.lines)].no = pager.oldestFetched - 1
      BY Zenon, <1>1, <2>2
    <3> QED BY <1>1, <3>3, <3>4
  <2>4. /\ h \in Seq(Lines) /\ h # <<>> /\ Consecutive(h) /\ h[1] = page.lines[1]
    BY ZenonT(20), <1>1, <1>2, <1>4, <2>2, <2>3, RunsJoin
  <2>5. e \in BOOLEAN
    BY Zenon
  <2> HIDE DEF h, e
  <2>6. p \in Pagers /\ p.held = h /\ p.oldestFetched = page.first /\ ~p.fetching
    BY ZenonT(20), <1>1, <1>2, <2>1, <2>4, <2>5 DEF Pagers
  <2> HIDE DEF p
  <2>7. /\ p \in Pagers /\ Consecutive(p.held) /\ ~p.fetching
        /\ p.held = <<>> => p.oldestFetched = 0
        /\ p.held # <<>> => p.oldestFetched # 0 /\ p.held[1].no = p.oldestFetched
        /\ p.oldestFetched < ring.next_id
    BY Zenon, <2>2, <2>4, <2>6
  <2> QED BY Zenon, <2>7 DEF p
<1> QED BY Zenon, <1>3, <1>4

\* The frame at the head is the one chunk, or leaves the pager alone.
LEMMA PageArrivesKeeps == ASSUME ScrollInv, PageArrives PROVE ScrollInv'
<1> DEFINE f == Head(replies)
           n == Len(replies)
<1>1. /\ RingOK(ring) /\ HeldOK /\ OneRequest /\ asked \in Seq(Nat) /\ replies \in Seq(Frames)
      /\ serving \in BOOLEAN
    BY Zenon DEF ScrollInv
<1>2. /\ replies # <<>> /\ replies' = Tail(replies) /\ UNCHANGED <<ring, asked, serving>>
      /\ pager' = IF f.kind = "chunk" THEN turn_page(pager, f.range) ELSE pager
    BY Zenon DEF PageArrives
<1>3. /\ replies' \in Seq(Frames) /\ Len(replies') = n - 1 /\ n \in Nat \ {0}
      /\ f = replies[1] /\ f \in Frames
      /\ \A i \in 1 .. Len(replies') : replies'[i] = replies[i + 1]
    BY <1>1, <1>2, TailFacts
<1>4. \A i \in 1 .. Len(replies') : i + 1 \in 1 .. n /\ (IsChunk(i)' <=> IsChunk(i + 1))
    BY <1>3 DEF IsChunk
<1>5. Unserved' = Unserved /\ RingOK(ring')
    BY Zenon, <1>1, <1>2 DEF Unserved
<1>6. 1 \in 1 .. n /\ (IsChunk(1) <=> f.kind = "chunk")
    BY <1>3 DEF IsChunk
<1>7. CASE f.kind = "chunk"
  <2>1. IsChunk(1) /\ f.range \in Ranges
    BY Zenon, <1>3, <1>6, <1>7 DEF Frames
  <2>2. Unserved = 0
    BY Zenon, <1>1, <1>6, <2>1 DEF OneRequest
  <2>3. \A i \in 1 .. n : IsChunk(i) => i = 1
    BY Zenon, <1>1, <1>6, <2>1 DEF OneRequest
  <2>4. \A i \in 1 .. Len(replies') : ~IsChunk(i)'
    <3> TAKE i \in 1 .. Len(replies')
    <3>1. i + 1 # 1
      BY <1>3
    <3> QED BY Zenon, <1>4, <2>3, <3>1
  <2>5. Joins(f.range, pager.oldestFetched, ring.next_id)
    BY Zenon, <1>1, <1>3, <1>6, <2>1 DEF OneRequest
  <2>6. pager' = turn_page(pager, f.range)
    BY Zenon, <1>2, <1>7
  <2>7. /\ pager' \in Pagers /\ Consecutive(pager'.held) /\ ~pager'.fetching
        /\ pager'.held = <<>> => pager'.oldestFetched = 0
        /\ pager'.held # <<>> => pager'.oldestFetched # 0 /\ pager'.held[1].no = pager'.oldestFetched
        /\ pager'.oldestFetched < ring.next_id
    <3> HIDE DEF f
    <3> QED BY Zenon, <1>1, <2>1, <2>5, <2>6, TurnPageOK
  <2>8. HeldOK'
    BY ZenonT(20), <1>2, <2>7 DEF HeldOK, Consecutive
  <2>9. serving => asked # <<>>
    BY Zenon, <1>1 DEF OneRequest
  <2>10. OneRequest'
    BY SMTT(20), <1>2, <1>5, <2>2, <2>4, <2>7, <2>9 DEF OneRequest
  <2> QED BY Zenon, <1>1, <1>2, <1>3, <1>5, <2>8, <2>10 DEF ScrollInv
<1>8. CASE f.kind # "chunk"
  <2>1. pager' = pager /\ ~IsChunk(1)
    BY Zenon, <1>2, <1>6, <1>8
  <2>2. HeldOK'
    BY Zenon, <1>1, <1>2, <2>1 DEF HeldOK, Consecutive
  <2>3. \A i \in 1 .. Len(replies') : IsChunk(i)' =>
            Joins(replies'[i].range, pager.oldestFetched, ring.next_id)
    BY ZenonT(20), <1>1, <1>3, <1>4 DEF OneRequest
  <2>4. \A i, j \in 1 .. Len(replies') : IsChunk(i)' /\ IsChunk(j)' => i = j
    <3> SUFFICES ASSUME NEW i \in 1 .. Len(replies'), NEW j \in 1 .. Len(replies'),
                        IsChunk(i)', IsChunk(j)'
                 PROVE  i = j
        BY Zenon
    <3>1. i + 1 = j + 1
      BY Zenon, <1>1, <1>4 DEF OneRequest
    <3> QED BY <1>3, <3>1
  <2>5. (\E i \in 1 .. Len(replies') : IsChunk(i)') <=> \E i \in 1 .. n : IsChunk(i)
    <3>1. ASSUME NEW i \in 1 .. n, IsChunk(i) PROVE \E j \in 1 .. Len(replies') : IsChunk(j)'
      <4>1. i - 1 \in 1 .. Len(replies') /\ i - 1 + 1 = i
        BY <1>3, <2>1, <3>1
      <4>2. IsChunk(i - 1)'
        BY Zenon, <1>4, <3>1, <4>1
      <4> QED BY Zenon, <4>1, <4>2
    <3> QED BY Zenon, <1>4, <3>1
  <2>6. /\ serving => asked # <<>>
        /\ pager.fetching <=> Unserved = 1 \/ \E i \in 1 .. n : IsChunk(i)
        /\ Unserved \in {0, 1}
        /\ Unserved = 1 => asked[Len(asked)] = pager.oldestFetched /\ \A i \in 1 .. n : ~IsChunk(i)
    BY Zenon, <1>1 DEF OneRequest
  <2>7. Unserved' = 1 => \A i \in 1 .. Len(replies') : ~IsChunk(i)'
    BY Zenon, <1>4, <1>5, <2>6
  <2>8. OneRequest'
    <3>1. \A i \in 1 .. Len(replies)' : IsChunk(i)' =>
              Joins(replies[i].range, pager.oldestFetched, ring.next_id)'
      BY Zenon, <1>2, <2>1, <2>3
    <3>2. pager'.fetching <=> Unserved' = 1 \/ \E i \in 1 .. Len(replies)' : IsChunk(i)'
      BY Zenon, <1>5, <2>1, <2>5, <2>6
    <3> HIDE DEF f
    <3> QED BY Zenon, <1>2, <1>5, <2>1, <2>4, <2>6, <2>7, <3>1, <3>2 DEF OneRequest
  <2> QED BY Zenon, <1>1, <1>2, <1>3, <1>5, <2>2, <2>8 DEF ScrollInv
<1> QED BY Zenon, <1>7, <1>8

\* Every step keeps the invariant of the history pages.
LEMMA ScrollNextInv == ScrollInv /\ [ScrollNext]_scrollVars => ScrollInv'
<1> SUFFICES ASSUME ScrollInv, [ScrollNext]_scrollVars PROVE ScrollInv'
    BY Zenon
<1>1. CASE feed
    BY Zenon, <1>1, CommitKeeps DEF feed
<1>2. ASSUME NEW c \in Widths, resize(c) PROVE ScrollInv'
    BY Zenon, <1>2, CommitKeeps DEF resize
<1>3. CASE OpensPager
    BY Zenon, <1>3, OpensPagerKeeps
<1>4. CASE ScrollsUp
    BY Zenon, <1>4, ScrollsUpKeeps
<1>5. CASE PageArrives
    BY Zenon, <1>5, PageArrivesKeeps
<1>6. CASE SendsChunk
    BY Zenon, <1>6, SendsChunkKeeps
<1>7. CASE SendsEnd
    BY Zenon, <1>7, SendsEndKeeps
<1>8. CASE UNCHANGED scrollVars
    BY Zenon, <1>8, CommitKeeps DEF scrollVars, commit
<1> QED BY Zenon, <1>1, <1>2, <1>3, <1>4, <1>5, <1>6, <1>7, <1>8 DEF ScrollNext

\* The pages a client joins have no hole and no line twice, for every ring
\* size, page limit and line length, whatever is committed and evicted
\* between its requests (HistoryRing::range, fetchOlderHistory).
THEOREM PagesAlwaysJoin == ScrollSpec => []PagesJoin
<1>1. ScrollInv => PagesJoin
    BY Zenon DEF ScrollInv, HeldOK, Consecutive, PagesJoin
<1> QED BY <1>1, ScrollInitInv, ScrollNextInv, PTL DEF ScrollSpec

=============================================================================

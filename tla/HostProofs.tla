----------------------------- MODULE HostProofs -----------------------------
(***************************************************************************)
(* The host's side, for any accounts, files, sessions, identities, streams *)
(* and failures: the privileged helper and the front-door bridge.          *)
(*                                                                         *)
(* ExitIsTrue is not inductive: the daemon records an exit because of what *)
(* it finds in the socket, so the invariant has to say what the socket can *)
(* hold at each stage of the helper (ShellInv).  OwnedIsWhole needs the    *)
(* same of the upload's two queues (FileInv).                              *)
(*                                                                         *)
(* The bridge's entries and their owners belong together both ways         *)
(* (Owned), and the streams of a session are counted at both ends (Home,   *)
(* Counted).                                                               *)
(***************************************************************************)
EXTENDS Spawner, SpawnerUpload, FrontdoorBridge, TLAPS
-----------------------------------------------------------------------------
(* Facts about sequences.  They are stated here because SequenceTheorems   *)
(* would put all of its facts into the context of every obligation.        *)

\* Elements of a sequence are of its type.
LEMMA ElementOfSeq ==
    ASSUME NEW S, NEW q \in Seq(S), NEW n \in 1 .. Len(q)
    PROVE  q[n] \in S
  OBVIOUS

\* Sequences with the same elements are equal.
LEMMA SeqEqual ==
    ASSUME NEW S, NEW p \in Seq(S), NEW q \in Seq(S), Len(p) = Len(q),
           \A i \in 1 .. Len(p) : p[i] = q[i]
    PROVE  p = q
  OBVIOUS

\* What the concatenation of two sequences is.
LEMMA ConcatProperties ==
    ASSUME NEW S, NEW p \in Seq(S), NEW q \in Seq(S)
    PROVE  /\ p \o q \in Seq(S) /\ Len(p \o q) = Len(p) + Len(q)
           /\ \A i \in 1 .. Len(p) + Len(q) : (p \o q)[i] = IF i <= Len(p) THEN p[i] ELSE q[i - Len(p)]
  OBVIOUS

\* Append is concatenation with one element.
LEMMA AppendIsConcat ==
    ASSUME NEW S, NEW q \in Seq(S), NEW e \in S
    PROVE  Append(q, e) = q \o <<e>>
  OBVIOUS

\* Concatenation with the empty sequence changes nothing.
LEMMA ConcatEmptySeq ==
    ASSUME NEW S, NEW q \in Seq(S)
    PROVE  q \o <<>> = q /\ <<>> \o q = q
  OBVIOUS

\* Concatenation is associative.
LEMMA ConcatAssociative ==
    ASSUME NEW S, NEW p \in Seq(S), NEW q \in Seq(S), NEW r \in Seq(S)
    PROVE  (p \o q) \o r = p \o (q \o r)
  <1>1. /\ (p \o q) \o r \in Seq(S) /\ p \o (q \o r) \in Seq(S)
        /\ Len((p \o q) \o r) = Len(p \o (q \o r))
    BY ConcatProperties
  <1>2. \A i \in 1 .. Len((p \o q) \o r) : ((p \o q) \o r)[i] = (p \o (q \o r))[i]
    BY ConcatProperties
  <1> QED
    BY Zenon, <1>1, <1>2, SeqEqual

\* What a sequence's length and domain are.
LEMMA LenProperties ==
    ASSUME NEW S, NEW q \in Seq(S)
    PROVE  Len(q) \in Nat /\ q \in [1 .. Len(q) -> S] /\ DOMAIN q = 1 .. Len(q)
  OBVIOUS

\* What Head and Tail of a sequence that is not empty are.
LEMMA HeadTailProperties ==
    ASSUME NEW S, NEW q \in Seq(S), q # <<>>
    PROVE  /\ Head(q) \in S /\ Tail(q) \in Seq(S) /\ Len(Tail(q)) = Len(q) - 1
           /\ \A i \in 1 .. Len(Tail(q)) : Tail(q)[i] = q[i + 1]
  OBVIOUS

\* What Append gives.
LEMMA AppendProperties ==
    ASSUME NEW S, NEW q \in Seq(S), NEW e \in S
    PROVE  /\ Append(q, e) \in Seq(S) /\ Append(q, e) # <<>> /\ Len(Append(q, e)) = Len(q) + 1
           /\ \A i \in 1 .. Len(q) : Append(q, e)[i] = q[i]
           /\ Append(q, e)[Len(q) + 1] = e
  OBVIOUS

-----------------------------------------------------------------------------
(* The helper: a shell's end, and an upload's file.                        *)

HelperStages == {"idle", "started", "launched", "waiting", "reaped", "reported", "gone"}
Places == {{}, {"daemon"}, {"socket"}, {"helper"}}

\* Types of the daemon's and the helper's variables.
ShellTypes ==
    /\ shellState \in {"idle", "asking", "running", "refused", "dead"}
    /\ terminate \in {"no", "calling", "sent"}
    /\ pumpAt \in {"none", "reading", "waiting", "done"}
    /\ helper \in HelperStages
    /\ child \in {"none", "running", "zombie", "reaped"}
    /\ toHelper \in Seq({"request", "kill"})
    /\ toDaemon \in Seq({"spawned", "error", "exited"})
    /\ master \in Places

\* What each stage of the helper says of the child and of the socket.
ShellStages ==
    /\ helper = "idle" => shellState = "idle"
    /\ helper \in {"idle", "started", "launched"} =>
           /\ shellState \in {"idle", "asking", "dead"} /\ toDaemon = <<>>
           /\ pumpAt = "none" /\ exitSeen = "none"
    /\ helper \in {"idle", "started"} => child = "none"
    /\ helper = "launched" => child \in {"running", "zombie"}
    /\ helper = "waiting" => child \in {"running", "zombie"}
    /\ helper \in {"reaped", "reported"} => child = "reaped"
    /\ helper = "gone" => child \in {"none", "reaped"}
    /\ helperEnd <=> helper \notin {"idle", "gone"}
    /\ shellState = "idle" => helper = "idle"

\* What the socket holds for the daemon: a second message, and a first one
\* after the reply, is the report of an exit.
ShellSocket ==
    /\ pumpAt \in {"reading", "waiting"} =>
           /\ shellState = "running" /\ child # "none"
           /\ toDaemon # <<>> => child = "reaped"
    /\ shellState = "running" => child # "none"
    /\ shellState = "asking" /\ toDaemon # <<>> /\ Head(toDaemon) = "spawned" =>
           /\ child # "none"
           /\ Tail(toDaemon) # <<>> => child = "reaped"
    /\ exitSeen # "none" => child \in {"zombie", "reaped"}

\* Bounds on both queues and the account of the child.
ShellBounds ==
    /\ Len(toHelper) <= 2
    /\ terminate # "sent" => Len(toHelper) <= 1
    /\ Len(toDaemon) <= 2
    /\ helper \in {"waiting", "reaped"} => Len(toDaemon) <= 1
    /\ child # "none" => childAs \in AllowAccount /\ UidOf[childAs] # 0

ShellInv == ShellTypes /\ ShellStages /\ ShellSocket /\ ShellBounds

\* The invariant of the privileged spawn holds at the start.
LEMMA ShellInit == SpawnInit => ShellInv
<1> SUFFICES ASSUME SpawnInit PROVE ShellInv
    BY Zenon
<1>0. master \in Places
    BY Zenon DEF SpawnInit, Places
<1>1. ShellTypes
    BY <1>0 DEF SpawnInit, ShellTypes, HelperStages
<1>2. ShellStages /\ ShellSocket
    BY Zenon DEF SpawnInit, ShellStages, ShellSocket
<1>3. ShellBounds
    BY DEF SpawnInit, ShellBounds
<1> QED BY Zenon, <1>1, <1>2, <1>3 DEF ShellInv

\* Taking the head off a short queue.
LEMMA Shorter ==
    ASSUME NEW S, NEW q \in Seq(S), q # <<>>
    PROVE  Tail(q) \in Seq(S) /\ Len(Tail(q)) = Len(q) - 1 /\ Len(q) \in Nat
BY Zenon, HeadTailProperties, LenProperties

\* Letting go of the master.
LEMMA LetsGo == \A p \in Places : /\ p \ {"daemon"} \in Places
                                  /\ p \ {"helper"} \in Places
                                  /\ p \ {"daemon", "socket"} \in Places
BY Zenon DEF Places

\* Every step of the daemon keeps the invariant.
LEMMA DaemonKeeps ==
    ASSUME ShellInv, \/ \E a \in Accounts : AskShell(a)
                     \/ DaemonStep \/ TerminateCalled \/ DaemonDies
    PROVE  ShellInv'
<1> USE DEF ShellInv, ShellTypes, ShellStages, ShellSocket, ShellBounds, HelperStages,
            helperVars, childVars, socketVars
<1>1. ASSUME NEW a \in Accounts, AskShell(a) PROVE ShellInv'
    <2>1. toHelper' \in Seq({"request", "kill"}) /\ Len(toHelper') = 1
        BY <1>1 DEF AskShell
    <2>2. ShellTypes'
        BY Zenon, <1>1, <2>1 DEF AskShell
    <2>3. ShellStages'
        BY Zenon, <1>1 DEF AskShell
    <2>4. ShellSocket' /\ ShellBounds'
        BY <1>1, <2>1 DEF AskShell
    <2> QED BY Zenon, <2>2, <2>3, <2>4
<1>2. CASE ReplyCame
    <2>1. CASE toDaemon # <<>> /\ Head(toDaemon) = "spawned" /\ shellState' = "running"
        <3>1. /\ pumpAt' = "reading" /\ master' = {"daemon"} /\ toDaemon' = Tail(toDaemon)
              /\ shellState = "asking"
              /\ UNCHANGED <<daemonEnd, asked, terminate, exitSeen, helperVars, childVars,
                             toHelper, helperEnd, deaths>>
            BY Zenon, <1>2, <2>1 DEF ReplyCame
        <3>2. toDaemon' \in Seq({"spawned", "error", "exited"}) /\ Len(toDaemon') <= 1
            BY <2>1, <3>1, Shorter
        <3>3. ShellTypes'
            BY Zenon, <2>1, <3>1, <3>2 DEF Places
        <3>4. ShellStages' /\ ShellSocket'
            BY Zenon, <2>1, <3>1
        <3>5. ShellBounds'
            BY <2>1, <3>1, <3>2
        <3> QED BY Zenon, <3>3, <3>4, <3>5
    <2>2. CASE shellState' = "refused"
        BY <1>2, <2>2 DEF ReplyCame
    <2> QED BY Zenon, <1>2, <2>1, <2>2 DEF ReplyCame
<1>3. CASE SendKill
    BY <1>3 DEF SendKill
<1>4. CASE PumpSeesEof
    BY Zenon, <1>4 DEF PumpSeesEof
<1>5. CASE PumpWaits
    <2>1. child \in {"zombie", "reaped"}
        BY Zenon, <1>5 DEF PumpWaits
    <2>2. /\ pumpAt' = "done" /\ toDaemon' = <<>> /\ master' = master \ {"daemon"}
          /\ pumpAt = "waiting"
          /\ UNCHANGED <<asked, shellState, terminate, helperVars, childVars, toHelper,
                         helperEnd, deaths>>
        BY Zenon, <1>5 DEF PumpWaits
    <2>a. (master \in Places)'
        BY ZenonT(20), <2>2, LetsGo
    <2>3. ShellTypes'
        BY <2>2, <2>a
    <2>4. ShellStages' /\ ShellSocket' /\ ShellBounds'
        BY <2>1, <2>2
    <2> QED BY Zenon, <2>3, <2>4
<1>6. CASE TerminateCalled
    BY Zenon, <1>6 DEF TerminateCalled
<1>7. CASE DaemonDies
    <2>a. (master \in Places)'
        BY ZenonT(20), <1>7, LetsGo DEF DaemonDies
    <2>1. ShellTypes'
        BY <1>7, <2>a DEF DaemonDies
    <2>2. ShellStages' /\ ShellSocket' /\ ShellBounds'
        BY <1>7 DEF DaemonDies
    <2> QED BY Zenon, <2>1, <2>2
<1> QED BY ZenonT(20), <1>1, <1>2, <1>3, <1>4, <1>5, <1>6, <1>7 DEF DaemonStep

\* Every step of the helper, of its death and of the shell does.
LEMMA HelperKeeps ==
    ASSUME ShellInv, HelperStep \/ HelperDies \/ ChildExits \/ LeavesTerminal
    PROVE  ShellInv'
<1> USE DEF ShellInv, ShellTypes, ShellStages, ShellSocket, ShellBounds, HelperStages,
            daemonVars, helperVars, childVars, socketVars
<1>1. CASE Launches
    <2>1. /\ helper = "started" /\ toHelper # <<>> /\ toHelper' = Tail(toHelper)
          /\ UNCHANGED <<daemonVars, watcher, left, daemonEnd, deaths>>
        BY Zenon, <1>1 DEF Launches
    <2>2. toHelper' \in Seq({"request", "kill"}) /\ Len(toHelper') <= 1
        BY <2>1, Shorter
    <2>3. CASE spawn_shell /\ helper' = "launched" /\ UNCHANGED <<helperEnd, toDaemon>>
        BY <2>1, <2>2, <2>3 DEF spawn_shell, resolve_allowed_account, Places
    <2>4. CASE /\ helper' = "gone" /\ helperEnd' = FALSE
               /\ toDaemon' = IF daemonEnd THEN Append(toDaemon, "error") ELSE toDaemon
               /\ UNCHANGED <<child, childAs, master>>
        <3>1. toDaemon' = <<>> \/ toDaemon' = <<"error">>
            BY <2>1, <2>4
        <3>2. /\ toDaemon' \in Seq({"spawned", "error", "exited"}) /\ Len(toDaemon') <= 1
              /\ toDaemon' # <<>> => Head(toDaemon') # "spawned"
            <4>1. CASE toDaemon' = <<>>
                BY <4>1
            <4>2. CASE toDaemon' = <<"error">>
                BY <4>2
            <4> QED BY Zenon, <3>1, <4>1, <4>2
        <3>3. ShellTypes'
            BY Zenon, <2>1, <2>2, <2>4, <3>2
        <3>4. ShellStages' /\ ShellSocket' /\ ShellBounds'
            BY <2>1, <2>2, <2>4, <3>2
        <3> QED BY Zenon, <3>3, <3>4
    <2> QED BY ZenonT(20), <1>1, <2>3, <2>4 DEF Launches
<1>2. CASE HandsOver
    <2>1. CASE daemonEnd
        <3>1. toDaemon' = <<"spawned">>
            BY <1>2, <2>1 DEF HandsOver
        <3>2. Head(toDaemon') = "spawned" /\ Tail(toDaemon') = <<>> /\ Len(toDaemon') = 1
              /\ toDaemon' \in Seq({"spawned", "error", "exited"})
            BY <3>1
        <3>3. ShellTypes'
            BY Zenon, <1>2, <2>1, <3>2 DEF HandsOver, Places
        <3>4. ShellStages' /\ ShellSocket' /\ ShellBounds'
            BY <1>2, <2>1, <3>2 DEF HandsOver
        <3> QED BY Zenon, <3>3, <3>4
    <2>2. CASE ~daemonEnd
        BY Zenon, <1>2, <2>2 DEF HandsOver, Places
    <2> QED BY Zenon, <2>1, <2>2
<1>3. CASE WatchForKill
    BY <1>3, Shorter DEF WatchForKill
<1>4. CASE SignalChild
    BY <1>4 DEF SignalChild
<1>5. CASE Reaps
    BY Zenon, <1>5 DEF Reaps
<1>6. CASE Reports
    BY <1>6 DEF Reports
<1>7. CASE HelperEnds
    BY Zenon, <1>7 DEF HelperEnds
<1>8. CASE HelperDies
    <2>1. ShellTypes'
        BY ZenonT(20), <1>8, LetsGo DEF HelperDies
    <2>2. ShellStages' /\ ShellSocket' /\ ShellBounds'
        BY Zenon, <1>8 DEF HelperDies
    <2> QED BY Zenon, <2>1, <2>2
<1>9. CASE ChildExits
    BY ZenonT(40), <1>9 DEF ChildExits
<1>10. CASE LeavesTerminal
    BY Zenon, <1>10 DEF LeavesTerminal
<1> QED BY ZenonT(20), <1>1, <1>2, <1>3, <1>4, <1>5, <1>6, <1>7, <1>8, <1>9, <1>10 DEF HelperStep

\* The invariant of the privileged spawn always holds.
LEMMA ShellInvariant == SpawnSpec => []ShellInv
<1>1. ShellInv /\ UNCHANGED spawnVars => ShellInv'
    BY DEF ShellInv, ShellTypes, ShellStages, ShellSocket, ShellBounds, spawnVars,
           daemonVars, helperVars, childVars, socketVars
<1>2. ShellInv /\ [SpawnNext]_spawnVars => ShellInv'
    BY Zenon, <1>1, DaemonKeeps, HelperKeeps DEF SpawnNext
<1> QED BY ShellInit, <1>2, PTL DEF SpawnSpec

\* An exit the daemon records is true, whatever dies when (RemoteShell::wait).
THEOREM RecordedExitsAreTrue == SpawnSpec => []ExitIsTrue
<1>1. ShellInv => ExitIsTrue
    BY Zenon DEF ShellInv, ShellSocket, ExitIsTrue
<1> QED BY ShellInvariant, <1>1, PTL

\* The master is never in two places, both queues are short, and a shell runs
\* only as an account the helper allows (spawn_shell, resolve_allowed_account).
THEOREM SpawnTypeCorrect == SpawnSpec => []SpawnTypeOK
<1>1. ASSUME master \in Places PROVE \A p, q \in master : p = q
    BY Zenon, <1>1 DEF Places
<1>2. ShellInv => SpawnTypeOK
    BY Zenon, <1>1 DEF ShellInv, ShellTypes, ShellStages, ShellBounds, HelperStages, SpawnTypeOK
<1> QED BY ShellInvariant, <1>2, PTL
-----------------------------------------------------------------------------
(* Uploads.                                                                *)

Requests == [op : {"chunk", "finish", "abort"}, at : Nat, right : BOOLEAN]

\* Types, with the bounds of both ends' counters.
FileTypes ==
    /\ remote \in {"idle", "asking", "open", "finishing", "finished", "failed",
                   "closed", "dead"}
    /\ receiver \in {"idle", "started", "receiving", "linked", "gone"}
    /\ uploadDir \in {"none", "partial", "linked", "owned"}
    /\ nextOffset \in 0..(FileChunks + 1)
    /\ stored \in Seq(BOOLEAN) /\ Len(stored) \in 0..FileChunks
    /\ toReceiver \in Seq(Requests)
    /\ toRemote \in Seq({"ready", "error", "finished"})

\* A finish on its way was sent, an answer on its way is true, and the stage
\* of the helper says what its directory holds.
FileStages ==
    /\ \A i \in 1..Len(toReceiver) : toReceiver[i].op = "finish" => finishSent
    /\ \A i \in 1..Len(toRemote) : toRemote[i] = "finished" => uploadDir = "owned"
    /\ remote = "finished" => uploadDir = "owned"
    /\ receiver \in {"idle", "started"} => uploadDir = "none"
    /\ receiver = "receiving" => uploadDir = "partial"
    /\ receiver = "linked" => uploadDir = "linked" /\ Whole /\ finishSent
    /\ remote = "idle" => receiver = "idle"
    /\ uploadDir = "owned" => receiver = "gone" /\ Whole /\ finishSent
    /\ receiver = "gone" /\ ~receiverKilled => uploadDir \in {"none", "owned"}

FileInv == FileTypes /\ FileStages

\* The invariant of an upload across the privilege boundary holds at the
\* start.
LEMMA FileInit == RemoteUploadInit => FileInv
<1> SUFFICES ASSUME RemoteUploadInit PROVE FileInv
    BY Zenon
<1>1. FileTypes
    BY FileChunksAssumption DEF RemoteUploadInit, FileTypes
<1>2. FileStages
    BY DEF RemoteUploadInit, FileStages
<1> QED BY Zenon, <1>1, <1>2 DEF FileInv

\* A queue of requests with one more, or one fewer.
LEMMA Queues ==
    ASSUME NEW S, NEW q \in Seq(S)
    PROVE  /\ Len(q) \in Nat
           /\ \A x \in S : /\ Append(q, x) \in Seq(S)
                           /\ Len(Append(q, x)) = Len(q) + 1
                           /\ \A i \in 1..(Len(q) + 1) :
                                  Append(q, x)[i] = IF i <= Len(q) THEN q[i] ELSE x
           /\ q # <<>> => /\ Head(q) = q[1] /\ Head(q) \in S /\ Len(q) >= 1
                         /\ Tail(q) \in Seq(S) /\ Len(Tail(q)) = Len(q) - 1
                         /\ \A i \in 1..(Len(q) - 1) : Tail(q)[i] = q[i + 1]
BY LenProperties, AppendProperties, HeadTailProperties

\* The daemon sends a request.
LEMMA SendKeeps ==
    ASSUME FileInv, NEW r \in Requests, r.op = "finish" => finishSent',
           finishSent => finishSent',
           toReceiver' = Append(toReceiver, r)
    PROVE  /\ toReceiver' \in Seq(Requests)
           /\ \A i \in 1..Len(toReceiver') : toReceiver'[i].op = "finish" => finishSent'
BY Queues DEF FileInv, FileTypes, FileStages

\* Chunks, abort and finish are requests; only finish is the finish.
LEMMA RequestTypes == /\ \A at \in Nat, right \in BOOLEAN : Chunk(at, right) \in Requests
                      /\ Command("abort") \in Requests /\ Command("finish") \in Requests
                      /\ \A at \in Nat, right \in BOOLEAN : Chunk(at, right).op # "finish"
                      /\ Command("abort").op # "finish"
BY Zenon DEF Chunk, Command, Requests

\* Every step of the daemon's half.
LEMMA RemoteKeeps ==
    ASSUME FileInv,
           \/ begin_upload \/ RemoteHears \/ RemoteFinish \/ RemoteAbort \/ RemoteDies
           \/ \E at \in 0..FileChunks, right \in BOOLEAN : write_wire_chunk(at, right)
    PROVE  FileInv'
<1> USE FileChunksAssumption DEF FileInv
<1>1. CASE begin_upload
    BY Zenon, <1>1 DEF begin_upload, FileTypes, FileStages, Whole
<1>2. CASE RemoteHears
    <2>1. UNCHANGED <<nextOffset, receiver, uploadDir, stored, toReceiver, finishSent,
                      receiverKilled, uploadFaults>>
        BY Zenon, <1>2 DEF RemoteHears, writerVars
    <2>2. /\ toRemote' \in Seq({"ready", "error", "finished"})
          /\ \A i \in 1..Len(toRemote') : toRemote'[i] = "finished" => uploadDir = "owned"
        <3>1. CASE toRemote = <<>>
            BY <1>2, <3>1 DEF RemoteHears
        <3>2. CASE toRemote # <<>>
            <4>1. toRemote' = Tail(toRemote)
                BY Zenon, <1>2, <3>2 DEF RemoteHears
            <4> QED BY <3>2, <4>1, Queues DEF FileTypes, FileStages
        <3> QED BY Zenon, <3>1, <3>2
    <2>3. remote' \in {"open", "finished", "failed"} /\ remote # "idle"
        BY Zenon, <1>2 DEF RemoteHears
    <2>4. remote' = "finished" => uploadDir = "owned"
        <3>1. SUFFICES ASSUME remote' = "finished" PROVE uploadDir = "owned"
            BY Zenon
        <3>2. toRemote # <<>> /\ Head(toRemote) = "finished"
            BY Zenon, <1>2, <3>1 DEF RemoteHears
        <3> QED BY <3>2, Queues DEF FileTypes, FileStages
    <2>5. FileTypes'
        BY Zenon, <2>1, <2>2, <2>3 DEF FileTypes
    <2>6. FileStages'
        BY Zenon, <2>1, <2>2, <2>3, <2>4 DEF FileStages, Whole
    <2> QED BY Zenon, <2>5, <2>6
<1>3. CASE RemoteFinish
    <2>1. /\ remote' \in {"finishing", "failed"} /\ remote = "open"
          /\ UNCHANGED <<nextOffset, receiver, uploadDir, stored, toRemote, receiverKilled>>
          /\ finishSent => finishSent'
        BY Zenon, <1>3 DEF RemoteFinish, writerVars
    <2>2. /\ toReceiver' \in Seq(Requests)
          /\ \A i \in 1..Len(toReceiver') : toReceiver'[i].op = "finish" => finishSent'
        <3>1. CASE receiverEnd
            <4>1. toReceiver' = Append(toReceiver, Command("finish")) /\ finishSent'
                BY Zenon, <1>3, <3>1 DEF RemoteFinish
            <4> QED BY Zenon, <4>1, SendKeeps, RequestTypes
        <3>2. CASE ~receiverEnd
            BY Zenon, <1>3, <3>2 DEF RemoteFinish, FileTypes, FileStages
        <3> QED BY Zenon, <3>1, <3>2
    <2>3. FileTypes'
        BY Zenon, <2>1, <2>2 DEF FileTypes
    <2>4. FileStages'
        BY Zenon, <2>1, <2>2 DEF FileStages, Whole
    <2> QED BY Zenon, <2>3, <2>4
<1>4. ASSUME NEW at \in 0..FileChunks, NEW right \in BOOLEAN,
             RemoteAbort \/ write_wire_chunk(at, right)
      PROVE  FileInv'
    <2>1. /\ remote' \in {"open", "failed", "closed"} /\ remote = "open"
          /\ nextOffset' \in 0..(FileChunks + 1)
          /\ UNCHANGED <<receiver, uploadDir, stored, toRemote, receiverKilled, finishSent>>
        BY <1>4 DEF RemoteAbort, write_wire_chunk, Dropped, writerVars, FileTypes
    <2>2. PICK r \in {Chunk(at, right), Command("abort")} :
             toReceiver' = Append(toReceiver, r) \/ toReceiver' = toReceiver
        BY Zenon, <1>4 DEF RemoteAbort, write_wire_chunk, Dropped
    <2>3. r \in Requests /\ r.op # "finish"
        BY <2>2, RequestTypes
    <2>4. /\ toReceiver' \in Seq(Requests)
          /\ \A i \in 1..Len(toReceiver') : toReceiver'[i].op = "finish" => finishSent'
        BY Zenon, <2>1, <2>2, <2>3, SendKeeps DEF FileTypes, FileStages
    <2>5. FileTypes'
        BY Zenon, <2>1, <2>4 DEF FileTypes
    <2>6. FileStages'
        BY Zenon, <2>1, <2>4 DEF FileStages, Whole
    <2> QED BY Zenon, <2>5, <2>6
<1>5. CASE RemoteDies
    BY Zenon, <1>5 DEF RemoteDies, OneMoreFault, writerVars, FileTypes, FileStages, Whole
<1>6. 0 \in 0..FileChunks /\ TRUE \in BOOLEAN
    OBVIOUS
<1> QED BY ZenonT(20), <1>1, <1>2, <1>3, <1>4, <1>5, <1>6

\* The helper answers, and takes at most one request off its queue.
LEMMA AnswerKeeps ==
    ASSUME FileInv, NEW what \in {"ready", "error", "finished"},
           what = "finished" => uploadDir' = "owned",
           uploadDir = "owned" => uploadDir' = "owned",
           toRemote' = toRemote \/ Tell(what)
    PROVE  /\ toRemote' \in Seq({"ready", "error", "finished"})
           /\ \A i \in 1..Len(toRemote') : toRemote'[i] = "finished" => uploadDir' = "owned"
<1>1. toRemote' = toRemote \/ toRemote' = Append(toRemote, what)
    BY Zenon DEF Tell
<1>2. CASE toRemote' = toRemote
    BY Zenon, <1>2 DEF FileInv, FileTypes, FileStages
<1>3. CASE toRemote' = Append(toRemote, what)
    <2>1. /\ toRemote \in Seq({"ready", "error", "finished"})
          /\ \A i \in 1..Len(toRemote) : toRemote[i] = "finished" => uploadDir = "owned"
        BY Zenon DEF FileInv, FileTypes, FileStages
    <2> QED BY <1>3, <2>1, Queues
<1> QED BY Zenon, <1>1, <1>2, <1>3

\* Taking from the queue to the receiver keeps its type and brings no finish.
LEMMA TakeKeeps ==
    ASSUME FileInv, UNCHANGED finishSent,
           \/ toReceiver' = <<>> \/ toReceiver' = toReceiver
           \/ toReceiver # <<>> /\ toReceiver' = Tail(toReceiver)
    PROVE  /\ toReceiver' \in Seq(Requests)
           /\ \A i \in 1..Len(toReceiver') : toReceiver'[i].op = "finish" => finishSent'
<1>1. /\ toReceiver \in Seq(Requests)
      /\ \A i \in 1..Len(toReceiver) : toReceiver[i].op = "finish" => finishSent
    BY Zenon DEF FileInv, FileTypes, FileStages
<1>2. CASE toReceiver' = <<>>
    BY <1>2
<1>3. CASE toReceiver' = toReceiver
    BY Zenon, <1>1, <1>3
<1>4. CASE toReceiver # <<>> /\ toReceiver' = Tail(toReceiver)
    BY <1>1, <1>4, Queues
<1> QED BY Zenon, <1>2, <1>3, <1>4

\* Every step of the helper's half.
LEMMA ReceiverKeeps ==
    ASSUME FileInv, ReceiverStep \/ ReceiverKilled
    PROVE  FileInv'
<1> USE FileChunksAssumption DEF FileInv
<1>1. CASE ReceiverBegins
    <2>1. /\ receiver = "started" /\ uploadDir = "none"
          /\ UNCHANGED <<remote, nextOffset, stored, toReceiver, finishSent, receiverKilled>>
          /\ \/ receiver' = "receiving" /\ uploadDir' = "partial"
             \/ receiver' = "gone" /\ uploadDir' = uploadDir
        BY Zenon, <1>1 DEF ReceiverBegins, Leave, FileStages
    <2>2. PICK what \in {"ready", "error"} : toRemote' = toRemote \/ Tell(what)
        BY Zenon, <1>1 DEF ReceiverBegins
    <2>3. /\ toRemote' \in Seq({"ready", "error", "finished"})
          /\ \A i \in 1..Len(toRemote') : toRemote'[i] = "finished" => uploadDir' = "owned"
        BY Zenon, <2>1, <2>2, AnswerKeeps
    <2>4. FileTypes'
        BY Zenon, <2>1, <2>3 DEF FileTypes
    <2>5. FileStages'
        BY Zenon, <2>1, <2>3 DEF FileStages, Whole
    <2> QED BY Zenon, <2>4, <2>5
<1>2. CASE ReceiverStops
    <2>1. /\ receiver = "receiving" /\ uploadDir = "partial"
          /\ receiver' = "gone" /\ uploadDir' = "none" /\ toReceiver' = <<>>
          /\ UNCHANGED <<remote, nextOffset, stored, toRemote, finishSent, receiverKilled>>
        BY Zenon, <1>2 DEF ReceiverStops, DropWriter, Leave, FileStages
    <2>2. FileTypes'
        BY <2>1 DEF FileTypes
    <2>3. FileStages'
        BY <2>1 DEF FileStages, Whole
    <2> QED BY Zenon, <2>2, <2>3
<1>3. CASE ReceiverWrites
    <2>1. /\ receiver = "receiving" /\ uploadDir = "partial" /\ toReceiver # <<>>
          /\ toReceiver' = Tail(toReceiver)
          /\ UNCHANGED <<remote, nextOffset, finishSent, receiverKilled>>
        BY Zenon, <1>3 DEF ReceiverWrites, FileStages
    <2>2. /\ toReceiver' \in Seq(Requests)
          /\ \A i \in 1..Len(toReceiver') : toReceiver'[i].op = "finish" => finishSent'
        BY Zenon, <2>1, TakeKeeps
    <2>3. CASE /\ Len(stored) < FileChunks /\ stored' = Append(stored, Head(toReceiver).right)
               /\ UNCHANGED <<receiver, uploadDir, toRemote>>
        <3>1. Head(toReceiver).right \in BOOLEAN
            <4>1. Head(toReceiver) \in Requests
                BY Zenon, <2>1, Queues DEF FileTypes
            <4> QED BY Zenon, <4>1 DEF Requests
        <3>2. stored' \in Seq(BOOLEAN) /\ Len(stored') = Len(stored) + 1
            BY <2>3, <3>1, Queues DEF FileTypes
        <3>3. FileTypes'
            BY <2>1, <2>2, <2>3, <3>2 DEF FileTypes
        <3>4. FileStages'
            BY Zenon, <2>1, <2>2, <2>3 DEF FileStages
        <3> QED BY Zenon, <3>3, <3>4
    <2>4. CASE /\ Tell("error") /\ DropWriter /\ Leave /\ UNCHANGED stored
        <3>1. receiver' = "gone" /\ uploadDir' = "none"
            BY Zenon, <2>1, <2>4 DEF DropWriter, Leave
        <3>2. /\ toRemote' \in Seq({"ready", "error", "finished"})
              /\ \A i \in 1..Len(toRemote') : toRemote'[i] = "finished" => uploadDir' = "owned"
            BY Zenon, <2>1, <2>4, AnswerKeeps
        <3>3. FileTypes'
            BY Zenon, <2>1, <2>2, <2>4, <3>1, <3>2 DEF FileTypes
        <3>4. FileStages'
            BY Zenon, <2>1, <2>2, <3>1, <3>2 DEF FileStages
        <3> QED BY Zenon, <3>3, <3>4
    <2> QED BY Zenon, <1>3, <2>3, <2>4 DEF ReceiverWrites
<1>4. CASE ReceiverLinks
    <2>1. /\ receiver = "receiving" /\ uploadDir = "partial" /\ toReceiver # <<>>
          /\ toReceiver' = Tail(toReceiver) /\ Head(toReceiver).op = "finish"
          /\ UNCHANGED <<remote, nextOffset, stored, finishSent, receiverKilled>>
        BY Zenon, <1>4 DEF ReceiverLinks, FileStages
    <2>2. /\ toReceiver' \in Seq(Requests)
          /\ \A i \in 1..Len(toReceiver') : toReceiver'[i].op = "finish" => finishSent'
        BY Zenon, <2>1, TakeKeeps
    <2>3. finishSent
        BY <2>1, Queues DEF FileTypes, FileStages
    <2>4. CASE Whole /\ uploadDir' = "linked" /\ receiver' = "linked" /\ UNCHANGED toRemote
        <3>1. FileTypes'
            BY Zenon, <2>1, <2>2, <2>4 DEF FileTypes
        <3>2. FileStages'
            BY Zenon, <2>1, <2>2, <2>3, <2>4 DEF FileStages, Whole
        <3> QED BY Zenon, <3>1, <3>2
    <2>5. CASE Tell("error") /\ DropWriter /\ Leave
        <3>1. receiver' = "gone" /\ uploadDir' = "none"
            BY Zenon, <2>1, <2>5 DEF DropWriter, Leave
        <3>2. /\ toRemote' \in Seq({"ready", "error", "finished"})
              /\ \A i \in 1..Len(toRemote') : toRemote'[i] = "finished" => uploadDir' = "owned"
            BY Zenon, <2>1, <2>5, AnswerKeeps
        <3>3. FileTypes'
            BY Zenon, <2>1, <2>2, <3>1, <3>2 DEF FileTypes
        <3>4. FileStages'
            BY Zenon, <2>1, <2>2, <3>1, <3>2 DEF FileStages
        <3> QED BY Zenon, <3>3, <3>4
    <2> QED BY Zenon, <1>4, <2>4, <2>5 DEF ReceiverLinks
<1>5. CASE ReceiverCommits
    <2>1. /\ receiver = "linked" /\ uploadDir = "linked" /\ Whole /\ finishSent
          /\ receiver' = "gone"
          /\ UNCHANGED <<remote, nextOffset, stored, toReceiver, finishSent, receiverKilled>>
        BY Zenon, <1>5 DEF ReceiverCommits, Leave, FileStages
    <2>2. PICK what \in {"error", "finished"} :
             Tell(what) /\ uploadDir' = IF what = "finished" THEN "owned" ELSE "none"
        BY Zenon, <1>5, <2>1 DEF ReceiverCommits, DropWriter
    <2>3. /\ toRemote' \in Seq({"ready", "error", "finished"})
          /\ \A i \in 1..Len(toRemote') : toRemote'[i] = "finished" => uploadDir' = "owned"
        BY Zenon, <2>1, <2>2, AnswerKeeps
    <2>4. FileTypes'
        BY Zenon, <2>1, <2>2, <2>3 DEF FileTypes
    <2>5. FileStages'
        BY Zenon, <2>1, <2>2, <2>3 DEF FileStages, Whole
    <2> QED BY Zenon, <2>4, <2>5
<1>6. CASE ReceiverKilled
    BY Zenon, <1>6 DEF ReceiverKilled, Leave, OneMoreFault, FileTypes, FileStages, Whole
<1> QED BY Zenon, <1>1, <1>2, <1>3, <1>4, <1>5, <1>6 DEF ReceiverStep

\* The invariant of an upload across the privilege boundary always holds.
LEMMA FileInvariant == RemoteUploadSpec => []FileInv
<1>1. FileInv /\ UNCHANGED remoteVars => FileInv'
    BY DEF FileInv, FileTypes, FileStages, Whole, remoteVars, writerVars, endVars
<1>2. FileInv /\ [RemoteUploadNext]_remoteVars => FileInv'
    BY Zenon, <1>1, RemoteKeeps, ReceiverKeeps DEF RemoteUploadNext
<1> QED BY FileInit, <1>2, PTL DEF RemoteUploadSpec

\* Types; the store holds no more than was declared (write_chunk).
THEOREM RemoteUploadTypeCorrect == RemoteUploadSpec => []RemoteUploadTypeOK
<1>1. FileInv => RemoteUploadTypeOK
    BY Zenon DEF FileInv, FileTypes, RemoteUploadTypeOK
<1> QED BY FileInvariant, <1>1, PTL

\* A file handed to the account is the whole declared file, and the client is
\* told so only then (receive_upload, RemoteUpload::finish).
THEOREM HandedOverIsWhole == RemoteUploadSpec => []OwnedIsWhole
<1>1. FileInv => OwnedIsWhole
    BY Zenon DEF FileInv, FileStages, OwnedIsWhole
<1> QED BY FileInvariant, <1>1, PTL

\* A helper that was not killed leaves a committed upload or nothing
\* (UploadWriter::drop).
THEOREM NothingIsLeft == RemoteUploadSpec => []NoDebris
<1>1. FileInv => NoDebris
    BY Zenon DEF FileInv, FileStages, NoDebris
<1> QED BY FileInvariant, <1>1, PTL

-----------------------------------------------------------------------------
(* Whose an entry is, and where a stream goes.                             *)

\* The steps in which a session has an entry, the last two without a handler.
Owning == {"entered", "queued", "serving", "over"}
Later == {"queued", "serving", "over"}
Opening == [from : Sessions, number : Nat]

\* Types.
Steps == {"none", "arrived", "refused", "entered", "queued", "serving", "over"}
Controls == {"shut", "open", "closed"}
Control == [identity : Identities \cup {0}, step : Steps, control : Controls]
Entry == [owner : Sessions \cup {0}, next : Nat]

BridgeTypes ==
    /\ entries \in [Identities -> Entry]
    /\ session \in [Sessions -> Control]
    /\ ready \in Seq(Sessions)
    /\ streams \in [Sessions -> Seq(Opening)] /\ served \in [Sessions -> Seq(Opening)]
    /\ opened \in [Sessions -> Nat]
    /\ stream \in [Sessions -> [step : {"none", "arrived", "entered", "answered"},
                                into : Sessions \cup {0}]]

\* From its entry to its end a session owns the entry of its identity, also
\* while nobody serves it yet and after it is over.
EntryOwners ==
    \A i \in Identities :
        /\ entries[i].owner \in Sessions =>
               LET g == entries[i].owner IN
               session[g].identity = i /\ session[g].control # "shut" /\ session[g].step \in Owning
        /\ entries[i].owner = 0 => entries[i] = NoEntry
OwnersEntry ==
    \A g \in Sessions :
        /\ session[g].step \in Owning /\ session[g].control # "shut" =>
               entries[session[g].identity].owner = g
        /\ session[g].step # "none" => session[g].identity \in Identities
        /\ session[g].step \in {"arrived", "entered"} => session[g].control # "shut"
Owned ==
    /\ EntryOwners /\ OwnersEntry
    /\ \A g \in Sessions : stream[g].step # "none" => session[g].step \in Later
    /\ \A k \in 1 .. Len(ready) : session[ready[k]].step \in Later

\* What becomes of the sessions when one changes its step, its control
\* connection, or both.
LEMMA SessionChanges ==
    ASSUME session \in [Sessions -> Control], NEW g \in Sessions,
           NEW v \in Steps, NEW w \in Controls,
           \/ session' = [session EXCEPT ![g].step = v] /\ w = session[g].control
           \/ session' = [session EXCEPT ![g].control = w] /\ v = session[g].step
           \/ session' = [session EXCEPT ![g].step = v, ![g].control = w]
    PROVE  /\ session' \in [Sessions -> Control]
           /\ session'[g].identity = session[g].identity
           /\ session'[g].step = v /\ session'[g].control = w
           /\ \A h \in Sessions \ {g} : session'[h] = session[h]
 <1> DEFINE r == [identity |-> session[g].identity, step |-> v, control |-> w]
 <1>1. session[g] \in Control /\ r \in Control
   BY Zenon DEF Control
 <1>2. session' = [session EXCEPT ![g] = r]
   <2>1. session[g] = [identity |-> session[g].identity, step |-> session[g].step,
                       control |-> session[g].control]
     BY Zenon, <1>1 DEF Control
   <2>2. CASE session' = [session EXCEPT ![g].step = v] /\ w = session[g].control
     BY ZenonT(20), <2>1, <2>2
   <2>3. CASE session' = [session EXCEPT ![g].control = w] /\ v = session[g].step
     BY ZenonT(20), <2>1, <2>3
   <2>4. CASE session' = [session EXCEPT ![g].step = v, ![g].control = w]
     BY ZenonT(20), <2>1, <2>4
   <2> QED
     BY Zenon, <2>2, <2>3, <2>4
 <1> QED
   BY Zenon, <1>1, <1>2

\* The same, one change at a time.
LEMMA StepChanges ==
    ASSUME session \in [Sessions -> Control], NEW g \in Sessions, NEW v \in Steps,
           session' = [session EXCEPT ![g].step = v]
    PROVE  /\ session' \in [Sessions -> Control]
           /\ session'[g].identity = session[g].identity
           /\ session'[g].step = v /\ session'[g].control = session[g].control
           /\ \A h \in Sessions \ {g} : session'[h] = session[h]
 <1>1. session[g].control \in Controls
   BY Zenon DEF Control
 <1> QED
   BY ZenonT(20), <1>1, SessionChanges

\* Its control connection alone.
LEMMA ControlChanges ==
    ASSUME session \in [Sessions -> Control], NEW g \in Sessions, NEW w \in Controls,
           session' = [session EXCEPT ![g].control = w]
    PROVE  /\ session' \in [Sessions -> Control]
           /\ session'[g].identity = session[g].identity
           /\ session'[g].step = session[g].step /\ session'[g].control = w
           /\ \A h \in Sessions \ {g} : session'[h] = session[h]
 <1>1. session[g].step \in Steps
   BY Zenon DEF Control
 <1> QED
   BY ZenonT(20), <1>1, SessionChanges

\* Both at once.
LEMMA BothChange ==
    ASSUME session \in [Sessions -> Control], NEW g \in Sessions, NEW v \in Steps,
           NEW w \in Controls, session' = [session EXCEPT ![g].step = v, ![g].control = w]
    PROVE  /\ session' \in [Sessions -> Control]
           /\ session'[g].identity = session[g].identity
           /\ session'[g].step = v /\ session'[g].control = w
           /\ \A h \in Sessions \ {g} : session'[h] = session[h]
   BY ZenonT(20), SessionChanges

\* A stream's number is used up.
LEMMA NumberUsed ==
    ASSUME entries \in [Identities -> Entry], NEW i \in Identities,
           entries' = [entries EXCEPT ![i].next = @ + 1]
    PROVE  /\ entries' \in [Identities -> Entry]
           /\ entries'[i].owner = entries[i].owner /\ entries'[i].next = entries[i].next + 1
           /\ \A j \in Identities \ {i} : entries'[j] = entries[j]
 <1> DEFINE r == [owner |-> entries[i].owner, next |-> entries[i].next + 1]
 <1>1. entries[i] \in Entry /\ r \in Entry
   BY DEF Entry
 <1>2. entries[i] = [owner |-> entries[i].owner, next |-> entries[i].next]
   BY Zenon, <1>1 DEF Entry
 <1>3. [entries[i] EXCEPT !.next = @ + 1] = r
   BY <1>2
 <1>4. entries' = [entries EXCEPT ![i] = [entries[i] EXCEPT !.next = @ + 1]]
   BY Zenon
 <1> QED
   BY Zenon, <1>1, <1>3, <1>4
-----------------------------------------------------------------------------
BridgeInv == BridgeTypes /\ Owned

\* What is left of a queue.
LEMMA TailOf ==
    ASSUME NEW S, NEW q \in Seq(S), q # <<>>
    PROVE  /\ Len(q) \in Nat /\ Len(q) >= 1 /\ Head(q) = q[1] /\ Head(q) \in S
           /\ Tail(q) \in Seq(S) /\ Len(Tail(q)) = Len(q) - 1
           /\ \A k \in 1 .. Len(Tail(q)) : Tail(q)[k] = q[k + 1]
  BY LenProperties, HeadTailProperties

\* A session that waits is a session.
LEMMA Waiting ==
    ASSUME BridgeInv
    PROVE  \A k \in 1 .. Len(ready) : ready[k] \in Sessions /\ session[ready[k]].step \in Later
  BY Zenon, ElementOfSeq DEF BridgeInv, BridgeTypes, Owned

\* Steps that change no entry and make nobody an owner or a former owner.
LEMMA StaysOwned ==
    ASSUME BridgeInv, UNCHANGED entries,
           \A h \in Sessions : /\ session'[h].identity = session[h].identity
                               /\ session'[h].control = "shut" => session[h].control = "shut"
                               /\ session[h].control = "shut" => session'[h].control = "shut"
                               /\ session'[h].step \in Owning <=> session[h].step \in Owning
                               /\ session'[h].step = "none" <=> session[h].step = "none"
                               /\ session'[h].step \in {"arrived", "entered"}
                                      => session[h].step \in {"arrived", "entered"}
    PROVE  EntryOwners' /\ OwnersEntry'
 <1>1. EntryOwners'
   BY Zenon DEF BridgeInv, Owned, EntryOwners
 <1>2. OwnersEntry'
   BY Zenon DEF BridgeInv, Owned, OwnersEntry
 <1> QED
   BY Zenon, <1>1, <1>2

\* Accepting the next session takes it from the queue only.
LEMMA AcceptsOwned == ASSUME BridgeInv, AcceptsSession PROVE BridgeInv'
 <1>1. /\ Head(ready) \in Sessions /\ Tail(ready) \in Seq(Sessions)
       /\ Len(ready) \in Nat /\ Head(ready) = ready[1] /\ Len(Tail(ready)) = Len(ready) - 1
       /\ Len(ready) >= 1 /\ \A k \in 1 .. Len(Tail(ready)) : Tail(ready)[k] = ready[k + 1]
   BY Zenon, TailOf DEF AcceptsSession, BridgeTypes, BridgeInv
 <1>2. PICK g \in Sessions : g = Head(ready)
   BY Zenon, <1>1
 <1>3. session' = [session EXCEPT ![g].step = "serving"] /\ ready' = Tail(ready)
       /\ UNCHANGED <<entries, streams, opened, stream, served>>
   BY Zenon, <1>2 DEF AcceptsSession
 <1>4. /\ session' \in [Sessions -> Control]
       /\ session'[g].identity = session[g].identity
       /\ session'[g].step = "serving" /\ session'[g].control = session[g].control
       /\ \A h \in Sessions \ {g} : session'[h] = session[h]
   BY ZenonT(20), <1>3, StepChanges DEF BridgeTypes, Steps, BridgeInv
 <1>5. session[g].step \in Later
   BY <1>1, <1>2, Waiting
 <1>6. BridgeTypes'
   BY Zenon, <1>1, <1>3, <1>4 DEF BridgeTypes, BridgeInv
 <1>7. \A h \in Sessions : session[h].step \in Later => session'[h].step \in Later
   BY Zenon, <1>4 DEF Later
 <1>8. \A k \in 1 .. Len(ready') : session'[ready'[k]].step \in Later
   <2> TAKE k \in 1 .. Len(ready')
   <2>1. ready'[k] = ready[k + 1] /\ k + 1 \in 1 .. Len(ready)
     BY <1>1, <1>3
   <2> QED
     BY Zenon, <1>7, <2>1, Waiting
 <1>9. EntryOwners' /\ OwnersEntry'
   BY Zenon, <1>3, <1>4, <1>5, StaysOwned DEF Owning, Later
 <1> QED
   BY Zenon, <1>3, <1>6, <1>7, <1>8, <1>9 DEF Owned, BridgeInv

\* Entering writes the entry of one identity, for one session (handle's insert).
LEMMA EntersOwned == ASSUME BridgeInv, NEW g \in Sessions, SessionEnters(g) PROVE BridgeInv'
 <1> DEFINE i == session[g].identity
 <1>1. /\ session[g].step = "arrived" /\ i \in Identities /\ session[g].control # "shut"
       /\ UNCHANGED <<ready, streams, opened, stream, served>>
   BY Zenon DEF SessionEnters, Owned, OwnersEntry, BridgeInv
 <1>l. stream[g].step = "none" /\ \A k \in 1 .. Len(ready) : ready[k] \in Sessions \ {g}
   BY Zenon, <1>1, Waiting DEF Owned, Later, BridgeInv
 <1>o. \A j \in Identities : entries[j].owner # g
   BY Zenon, <1>1 DEF EntryOwners, Owned, Owning, BridgeInv
 <1>2. CASE entries[i] = NoEntry /\ entries' = [entries EXCEPT ![i] = [owner |-> g, next |-> 1]]
            /\ session' = [session EXCEPT ![g].step = "entered"]
   <2>1. /\ session' \in [Sessions -> Control]
         /\ session'[g].identity = session[g].identity
         /\ session'[g].step = "entered" /\ session'[g].control = session[g].control
         /\ \A h \in Sessions \ {g} : session'[h] = session[h]
     BY ZenonT(20), <1>2, StepChanges DEF BridgeTypes, Steps, BridgeInv
   <2>2. [owner |-> g, next |-> 1] \in Entry
     BY Zenon DEF Entry
   <2>3. /\ entries' \in [Identities -> Entry] /\ entries'[i].owner = g
         /\ \A j \in Identities \ {i} : entries'[j] = entries[j]
     BY Zenon, <1>1, <1>2, <2>2 DEF BridgeTypes, BridgeInv
   <2>4. entries[i].owner = 0 /\ g # 0
     BY <1>2, BridgeAssumption DEF NoEntry
   <2>5. BridgeTypes'
     BY Zenon, <1>1, <2>1, <2>3 DEF BridgeTypes, BridgeInv
   <2>6. EntryOwners'
     <3> SUFFICES ASSUME NEW j \in Identities
                  PROVE  /\ entries'[j].owner \in Sessions =>
                               LET h == entries'[j].owner IN
                               /\ session'[h].identity = j /\ session'[h].control # "shut"
                               /\ session'[h].step \in Owning
                         /\ entries'[j].owner = 0 => entries'[j] = NoEntry
       BY Zenon DEF EntryOwners
     <3>1. CASE j = i
       BY Zenon, <1>1, <2>1, <2>3, <2>4, <3>1 DEF Owning
     <3>2. CASE j # i
       BY <1>o, <2>1, <2>3, <3>2 DEF EntryOwners, Owned, BridgeInv
     <3> QED
       BY Zenon, <3>1, <3>2
   <2>7. OwnersEntry'
     <3> SUFFICES ASSUME NEW h \in Sessions
                  PROVE  /\ session'[h].step \in Owning /\ session'[h].control # "shut" =>
                               entries'[session'[h].identity].owner = h
                         /\ session'[h].step # "none" => session'[h].identity \in Identities
                         /\ session'[h].step \in {"arrived", "entered"} => session'[h].control # "shut"
       BY Zenon DEF OwnersEntry
     <3>1. CASE h = g
       BY ZenonT(40), <1>1, <2>1, <2>3, <3>1
     <3>2. CASE h # g
       <4>1. session'[h] = session[h] /\ h # 0
         BY Zenon, <2>1, <3>2, BridgeAssumption
       <4> QED
         BY <2>3, <2>4, <4>1 DEF Owned, OwnersEntry, Owning, BridgeInv
     <3> QED
       BY Zenon, <3>1, <3>2
   <2>8. \A k \in 1 .. Len(ready') : session'[ready'[k]].step \in Later
     BY Zenon, <1>1, <1>l, <2>1, Waiting
   <2>9. \A h \in Sessions : stream'[h].step # "none" => session'[h].step \in Later
     BY Zenon, <1>1, <1>l, <2>1 DEF Owned, BridgeInv
   <2> QED
     BY Zenon, <2>5, <2>6, <2>7, <2>8, <2>9 DEF Owned, BridgeInv
 <1>3. CASE session' = [session EXCEPT ![g].step = "refused", ![g].control = "shut"]
            /\ UNCHANGED entries
   <2>1. /\ session' \in [Sessions -> Control]
         /\ session'[g].identity = session[g].identity
         /\ session'[g].step = "refused" /\ session'[g].control = "shut"
         /\ \A h \in Sessions \ {g} : session'[h] = session[h]
     BY ZenonT(20), <1>3, BothChange DEF BridgeTypes, Steps, Controls, BridgeInv
   <2>2. BridgeTypes'
     BY Zenon, <1>1, <1>3, <2>1 DEF BridgeTypes, BridgeInv
   <2>3. EntryOwners'
     BY <1>o, <1>3, <2>1 DEF EntryOwners, Owned, BridgeInv
   <2>4. OwnersEntry'
     BY Zenon, <1>1, <1>3, <2>1 DEF OwnersEntry, Owned, BridgeInv
   <2>5. \A k \in 1 .. Len(ready') : session'[ready'[k]].step \in Later
     BY Zenon, <1>1, <1>l, <2>1, Waiting
   <2>6. \A h \in Sessions : stream'[h].step # "none" => session'[h].step \in Later
     BY Zenon, <1>1, <1>l, <2>1 DEF Owned, BridgeInv
   <2> QED
     BY Zenon, <2>2, <2>3, <2>4, <2>5, <2>6 DEF Owned, BridgeInv
 <1> QED
   BY Zenon, <1>2, <1>3 DEF SessionEnters

\* The entry of session g goes, with g's control connection.
LEMMA LeavesOwned ==
    ASSUME BridgeInv, NEW g \in Sessions, session[g].step \in Owning,
           session[g].control # "shut",
           entries' = [entries EXCEPT ![session[g].identity] = NoEntry],
           \/ session[g].step # "entered" /\ session' = [session EXCEPT ![g].control = "shut"]
           \/ session' = [session EXCEPT ![g].step = "refused", ![g].control = "shut"]
    PROVE  EntryOwners' /\ OwnersEntry'
 <1> DEFINE i == session[g].identity
 <1>1. /\ session'[g].control = "shut" /\ session'[g].identity = i /\ i \in Identities
       /\ session'[g].step \notin {"none", "arrived", "entered"}
       /\ \A h \in Sessions \ {g} : session'[h] = session[h]
   <2>1. i \in Identities /\ session[g].step \notin {"none", "arrived"}
     BY Zenon DEF BridgeInv, Owned, OwnersEntry, Owning
   <2>2. CASE session[g].step # "entered" /\ session' = [session EXCEPT ![g].control = "shut"]
     BY Zenon, <2>1, <2>2, ControlChanges DEF Controls, BridgeTypes, BridgeInv
   <2>3. CASE session' = [session EXCEPT ![g].step = "refused", ![g].control = "shut"]
     BY ZenonT(20), <2>1, <2>3, BothChange DEF Controls, Steps, BridgeTypes, BridgeInv
   <2> QED
     BY Zenon, <2>2, <2>3
 <1>2. entries[i].owner = g
   BY Zenon DEF BridgeInv, Owned, OwnersEntry
 <1>3. entries'[i] = NoEntry /\ \A j \in Identities \ {i} : entries'[j] = entries[j]
   BY Zenon, <1>1 DEF BridgeInv, BridgeTypes
 <1>4. entries'[i].owner = 0 /\ 0 \notin Sessions
   BY <1>3, BridgeAssumption DEF NoEntry
 <1>5. \A j \in Identities \ {i} : entries[j].owner # g
   BY Zenon DEF BridgeInv, Owned, EntryOwners
 <1>6. EntryOwners'
   BY <1>1, <1>3, <1>4, <1>5 DEF BridgeInv, Owned, EntryOwners
 <1>7. OwnersEntry'
   <2> SUFFICES ASSUME NEW h \in Sessions
                PROVE  /\ session'[h].step \in Owning /\ session'[h].control # "shut" =>
                             entries'[session'[h].identity].owner = h
                       /\ session'[h].step # "none" => session'[h].identity \in Identities
                       /\ session'[h].step \in {"arrived", "entered"} => session'[h].control # "shut"
     BY Zenon DEF OwnersEntry
   <2>1. CASE h = g
     BY Zenon, <1>1, <2>1
   <2>2. CASE h # g
     BY <1>1, <1>2, <1>3, <2>2 DEF BridgeInv, Owned, OwnersEntry, Owning
   <2> QED
     BY Zenon, <2>1, <2>2
 <1> QED
   BY Zenon, <1>6, <1>7

\* The acknowledgement queues the session, or takes its entry back.
LEMMA AckedOwned == ASSUME BridgeInv, NEW g \in Sessions, SessionAcked(g) PROVE BridgeInv'
 <1>1. /\ session[g].step = "entered" /\ session[g].identity \in Identities
       /\ UNCHANGED <<streams, opened, stream, served>>
   BY Zenon DEF SessionAcked, Owned, OwnersEntry, BridgeInv
 <1>l. stream[g].step = "none" /\ \A k \in 1 .. Len(ready) : ready[k] \in Sessions \ {g}
   BY Zenon, <1>1, Waiting DEF Owned, Later, BridgeInv
 <1>2. CASE session' = [session EXCEPT ![g].step = "queued"]
            /\ ready' = Append(ready, g) /\ UNCHANGED entries
   <2>1. /\ session' \in [Sessions -> Control]
         /\ session'[g].identity = session[g].identity
         /\ session'[g].step = "queued" /\ session'[g].control = session[g].control
         /\ \A h \in Sessions \ {g} : session'[h] = session[h]
     BY ZenonT(20), <1>2, StepChanges DEF BridgeTypes, Steps, BridgeInv
   <2>2. /\ ready' \in Seq(Sessions) /\ Len(ready') = Len(ready) + 1 /\ ready'[Len(ready) + 1] = g
         /\ Len(ready) \in Nat /\ \A k \in 1 .. Len(ready) : ready'[k] = ready[k]
     BY <1>2, LenProperties, AppendProperties DEF BridgeTypes, BridgeInv
   <2>3. BridgeTypes'
     BY Zenon, <1>1, <1>2, <2>1, <2>2 DEF BridgeTypes, BridgeInv
   <2>4. \A k \in 1 .. Len(ready') : session'[ready'[k]].step \in Later
     <3> TAKE k \in 1 .. Len(ready')
     <3>1. CASE k = Len(ready) + 1
       BY Zenon, <2>1, <2>2, <3>1 DEF Later
     <3>2. CASE k # Len(ready) + 1
       <4>1. k \in 1 .. Len(ready) /\ ready'[k] = ready[k]
         BY <2>2, <3>2
       <4> QED
         BY Zenon, <1>l, <2>1, <4>1, Waiting
     <3> QED
       BY Zenon, <3>1, <3>2
   <2>5. EntryOwners' /\ OwnersEntry'
     BY Zenon, <1>1, <1>2, <2>1, StaysOwned DEF Owning
   <2>6. \A h \in Sessions : stream'[h].step # "none" => session'[h].step \in Later
     BY Zenon, <1>1, <1>l, <2>1 DEF Owned, BridgeInv
   <2> QED
     BY Zenon, <2>3, <2>4, <2>5, <2>6 DEF Owned, BridgeInv
 <1>3. CASE session[g].control # "open"
            /\ session' = [session EXCEPT ![g].step = "refused", ![g].control = "shut"]
            /\ entries' = [entries EXCEPT ![session[g].identity] = NoEntry] /\ UNCHANGED ready
   <2>1. /\ session' \in [Sessions -> Control]
         /\ \A h \in Sessions \ {g} : session'[h] = session[h]
     BY ZenonT(20), <1>3, BothChange DEF BridgeTypes, Steps, Controls, BridgeInv
   <2>2. NoEntry \in Entry
     BY Zenon DEF NoEntry, Entry
   <2>3. BridgeTypes'
     BY Zenon, <1>1, <1>3, <2>1, <2>2 DEF BridgeTypes, BridgeInv
   <2>4. session[g].control # "shut"
     BY Zenon, <1>1 DEF OwnersEntry, Owned, BridgeInv
   <2>5. EntryOwners' /\ OwnersEntry'
     BY ZenonT(20), <1>1, <1>3, <2>4, LeavesOwned DEF Owning
   <2>6. \A k \in 1 .. Len(ready') : session'[ready'[k]].step \in Later
     BY Zenon, <1>3, <1>l, <2>1, Waiting
   <2>7. \A h \in Sessions : stream'[h].step # "none" => session'[h].step \in Later
     BY Zenon, <1>1, <1>l, <2>1 DEF Owned, BridgeInv
   <2> QED
     BY Zenon, <2>3, <2>5, <2>6, <2>7 DEF Owned, BridgeInv
 <1> QED
   BY Zenon, <1>2, <1>3 DEF SessionAcked

\* Traffic on a control connection changes no entry.
LEMMA ControlOwned ==
    ASSUME BridgeInv, NEW g \in Sessions, ControlEnds(g) \/ ClosesControl(g)
    PROVE  BridgeInv'
 <1>1. CASE ControlEnds(g)
   <2>1. /\ session[g].step \in Later /\ session[g].control = "closed"
         /\ entries' = [entries EXCEPT ![session[g].identity] = NoEntry]
         /\ session' = [session EXCEPT ![g].control = "shut"]
         /\ UNCHANGED <<ready, streams, opened, stream, served>>
     BY Zenon, <1>1 DEF ControlEnds, Later
   <2>2. /\ session' \in [Sessions -> Control] /\ session'[g].step = session[g].step
         /\ \A h \in Sessions \ {g} : session'[h] = session[h]
     BY ZenonT(20), <2>1, ControlChanges DEF BridgeTypes, Controls, BridgeInv
   <2>3. NoEntry \in Entry
     BY Zenon DEF NoEntry, Entry
   <2>4. BridgeTypes'
     BY ZenonT(20), <2>1, <2>2, <2>3 DEF BridgeTypes, BridgeInv
   <2>5. EntryOwners' /\ OwnersEntry'
     BY ZenonT(20), <2>1, LeavesOwned DEF Owning, Later
   <2>6. \A h \in Sessions : session'[h].step = session[h].step
     BY Zenon, <2>2
   <2>7. \A k \in 1 .. Len(ready') : session'[ready'[k]].step \in Later
     BY Zenon, <2>1, <2>6, Waiting
   <2> QED
     BY Zenon, <2>1, <2>4, <2>5, <2>6, <2>7 DEF Owned, BridgeInv
 <1>2. CASE ClosesControl(g)
   <2>1. /\ session[g].control = "open"
         /\ session' = [session EXCEPT ![g].control = "closed"]
         /\ UNCHANGED <<entries, ready, streams, opened, stream, served>>
     BY Zenon, <1>2 DEF ClosesControl
   <2>2. /\ session' \in [Sessions -> Control] /\ session'[g].step = session[g].step
         /\ session'[g].control = "closed" /\ session'[g].identity = session[g].identity
         /\ \A h \in Sessions \ {g} : session'[h] = session[h]
     BY ZenonT(20), <2>1, ControlChanges DEF BridgeTypes, Controls, BridgeInv
   <2>4. BridgeTypes'
     BY Zenon, <2>1, <2>2 DEF BridgeTypes, BridgeInv
   <2>5. EntryOwners' /\ OwnersEntry'
     BY Zenon, <2>1, <2>2, StaysOwned
   <2>6. \A h \in Sessions : session'[h].step = session[h].step
     BY Zenon, <2>2
   <2>7. \A k \in 1 .. Len(ready') : session'[ready'[k]].step \in Later
     BY Zenon, <2>1, <2>6, Waiting
   <2> QED
     BY Zenon, <2>1, <2>4, <2>5, <2>6, <2>7 DEF Owned, BridgeInv
 <1> QED
   BY Zenon, <1>1, <1>2

\* A session that ends takes its own entry along.
LEMMA EndsOwned == ASSUME BridgeInv, NEW g \in Sessions, SessionEnds(g) PROVE BridgeInv'
 <1>1. /\ session[g].step = "serving" /\ session' = [session EXCEPT ![g].step = "over"]
       /\ streams' = [streams EXCEPT ![g] = <<>>]
       /\ UNCHANGED <<entries, ready, opened, stream, served>>
   BY Zenon DEF SessionEnds
 <1>2. /\ session' \in [Sessions -> Control]
       /\ session'[g].identity = session[g].identity
       /\ session'[g].step = "over" /\ session'[g].control = session[g].control
       /\ \A h \in Sessions \ {g} : session'[h] = session[h]
   BY ZenonT(20), <1>1, StepChanges DEF BridgeTypes, Steps, BridgeInv
 <1>3. <<>> \in Seq(Opening)
   OBVIOUS
 <1>4. BridgeTypes'
   BY Zenon, <1>1, <1>2, <1>3 DEF BridgeTypes, BridgeInv
 <1>5. EntryOwners' /\ OwnersEntry'
   BY Zenon, <1>1, <1>2, StaysOwned DEF Owning
 <1>6. \A h \in Sessions : session[h].step \in Later => session'[h].step \in Later
   BY Zenon, <1>2 DEF Later
 <1>7. \A k \in 1 .. Len(ready') : session'[ready'[k]].step \in Later
   BY Zenon, <1>1, <1>6, Waiting
 <1> QED
   BY Zenon, <1>1, <1>4, <1>5, <1>6, <1>7 DEF Owned, BridgeInv

\* A stream that opens changes no entry but its number.
LEMMA OpensOwned ==
    ASSUME BridgeInv, NEW g \in Sessions, NEW i \in Identities, OpensSession(g, i)
    PROVE  BridgeInv'
 <1>1. /\ session[g].step = "none"
       /\ session' = [session EXCEPT ![g] = [identity |-> i, step |-> "arrived", control |-> "open"]]
       /\ UNCHANGED <<entries, ready, streams, opened, stream, served>>
   BY Zenon DEF OpensSession
 <1>2. [identity |-> i, step |-> "arrived", control |-> "open"] \in Control
   BY Zenon DEF Control, Steps, Controls
 <1>3. /\ session' \in [Sessions -> Control] /\ session'[g].identity = i
       /\ session'[g].step = "arrived" /\ session'[g].control = "open"
       /\ \A h \in Sessions \ {g} : session'[h] = session[h]
   BY Zenon, <1>1, <1>2 DEF BridgeTypes, BridgeInv
 <1>4. BridgeTypes'
   BY Zenon, <1>1, <1>3 DEF BridgeTypes, BridgeInv
 <1>5. stream[g].step = "none" /\ \A k \in 1 .. Len(ready) : ready[k] \in Sessions \ {g}
   BY Zenon, <1>1, Waiting DEF Owned, Later, BridgeInv
 <1>6. \A j \in Identities : entries[j].owner # g
   BY Zenon, <1>1 DEF EntryOwners, Owned, Owning, BridgeInv
 <1>7. EntryOwners'
   BY Zenon, <1>1, <1>3, <1>6 DEF EntryOwners, Owned, BridgeInv
 <1>8. OwnersEntry'
   BY Zenon, <1>1, <1>3 DEF OwnersEntry, Owning, Owned, BridgeInv
 <1>9. \A k \in 1 .. Len(ready') : session'[ready'[k]].step \in Later
   BY Zenon, <1>1, <1>3, <1>5, Waiting
 <1>10. \A h \in Sessions : stream'[h].step # "none" => session'[h].step \in Later
   BY Zenon, <1>1, <1>3, <1>5 DEF Owned, BridgeInv
 <1> QED
   BY Zenon, <1>4, <1>7, <1>8, <1>9, <1>10 DEF Owned, BridgeInv

\* Neither does what becomes of a stream.
LEMMA StreamsOwned ==
    ASSUME BridgeInv, NEW g \in Sessions,
           StreamEnters(g) \/ StreamAcked(g) \/ accept_bi(g) \/ OpensStream(g)
    PROVE  BridgeInv'
 <1>0. UNCHANGED <<session, ready>>
   BY Zenon DEF StreamEnters, StreamAcked, accept_bi, OpensStream
 <1>r. \A k \in 1 .. Len(ready') : session'[ready'[k]].step \in Later
   BY Zenon, <1>0, Waiting
 <1>t. /\ stream \in [Sessions -> [step : {"none", "arrived", "entered", "answered"},
                                   into : Sessions \cup {0}]]
       /\ streams \in [Sessions -> Seq(Opening)] /\ served \in [Sessions -> Seq(Opening)]
       /\ opened \in [Sessions -> Nat] /\ entries \in [Identities -> Entry]
   BY Zenon DEF BridgeInv, BridgeTypes
 <1>1. CASE StreamEnters(g)
   <2> DEFINE i == session[g].identity
              o == entries[i].owner
   <2>1. /\ stream[g].step = "arrived" /\ UNCHANGED <<streams, opened, served>>
     BY Zenon, <1>1 DEF StreamEnters
   <2>2. i \in Identities /\ session[g].step \in Later /\ o \in Sessions \cup {0}
     BY Zenon, <1>t, <2>1 DEF BridgeInv, Owned, OwnersEntry, Later, Entry
   <2>3. /\ \/ entries' = entries
            \/ entries[i] # NoEntry /\ entries' = [entries EXCEPT ![i].next = @ + 1]
         /\ \/ stream' = [stream EXCEPT ![g] = [step |-> "answered", into |-> 0]]
            \/ stream' = [stream EXCEPT ![g] = [step |-> "entered", into |-> o]]
     BY Zenon, <1>1 DEF StreamEnters, Answered
   <2>4. /\ entries' \in [Identities -> Entry]
         /\ \A j \in Identities : entries'[j].owner = entries[j].owner
         /\ \A j \in Identities : entries'[j] = entries[j] \/ entries[j] # NoEntry
     BY ZenonT(20), <1>t, <2>2, <2>3, NumberUsed
   <2>5. /\ stream' \in [Sessions -> [step : {"none", "arrived", "entered", "answered"},
                                      into : Sessions \cup {0}]]
         /\ \A h \in Sessions \ {g} : stream'[h] = stream[h]
     <3>1. PICK st \in {"entered", "answered"}, to \in Sessions \cup {0} :
               stream' = [stream EXCEPT ![g] = [step |-> st, into |-> to]]
       BY Zenon, <2>2, <2>3
     <3> QED
       BY Zenon, <1>t, <3>1
   <2>6. BridgeTypes'
     BY Zenon, <1>0, <2>1, <2>4, <2>5 DEF BridgeTypes, BridgeInv
   <2>7. EntryOwners'
     BY Zenon, <1>0, <2>4 DEF EntryOwners, Owned, BridgeInv
   <2>8. OwnersEntry'
     BY Zenon, <1>0, <2>4 DEF OwnersEntry, Owned, Owning, BridgeInv
   <2>9. \A h \in Sessions : stream'[h].step # "none" => session'[h].step \in Later
     BY Zenon, <1>0, <2>2, <2>5 DEF Owned, BridgeInv
   <2> QED
     BY Zenon, <1>r, <2>6, <2>7, <2>8, <2>9 DEF Owned, BridgeInv
 <1>2. CASE StreamAcked(g)
   <2>1. /\ stream' = [stream EXCEPT ![g] = [step |-> "answered", into |-> 0]]
         /\ stream[g].step = "entered" /\ UNCHANGED <<entries, opened, served>>
     BY Zenon, <1>2 DEF StreamAcked, Answered
   <2> DEFINE n == [from |-> g, number |-> opened[g]]
   <2>2. n \in Opening
     BY Zenon, <1>t DEF Opening
   <2>3. \A x \in Sessions : Append(streams[x], n) \in Seq(Opening)
     BY <1>t, <2>2
   <2>4. streams' \in [Sessions -> Seq(Opening)]
     BY ZenonT(20), <1>2, <1>t, <2>3 DEF StreamAcked
   <2>5. BridgeTypes'
     BY ZenonT(20), <1>0, <1>t, <2>1, <2>4 DEF BridgeTypes, BridgeInv
   <2>6. \A h \in Sessions : stream'[h].step # "none" => session'[h].step \in Later
     BY Zenon, <1>0, <1>t, <2>1 DEF Owned, BridgeInv
   <2> QED
     BY Zenon, <1>0, <1>r, <2>1, <2>5, <2>6 DEF Owned, BridgeInv, EntryOwners, OwnersEntry
 <1>3. CASE accept_bi(g)
   <2>1. /\ streams[g] # <<>> /\ UNCHANGED <<entries, opened, stream>>
         /\ served' = [served EXCEPT ![g] = Append(@, Head(streams[g]))]
         /\ streams' = [streams EXCEPT ![g] = Tail(@)]
     BY Zenon, <1>3 DEF accept_bi
   <2>2. Head(streams[g]) \in Opening /\ Tail(streams[g]) \in Seq(Opening)
     BY Zenon, <1>t, <2>1, TailOf
   <2>3. Append(served[g], Head(streams[g])) \in Seq(Opening)
     BY <1>t, <2>2
   <2>4. streams' \in [Sessions -> Seq(Opening)] /\ served' \in [Sessions -> Seq(Opening)]
     BY Zenon, <1>t, <2>1, <2>2, <2>3
   <2>5. BridgeTypes'
     BY Zenon, <1>0, <2>1, <2>4 DEF BridgeTypes, BridgeInv
   <2> QED
     BY Zenon, <1>0, <1>r, <2>1, <2>5 DEF Owned, BridgeInv, EntryOwners, OwnersEntry
 <1>4. CASE OpensStream(g)
   <2>1. /\ session[g].step \in Later /\ UNCHANGED <<entries, streams, served>>
         /\ opened' = [opened EXCEPT ![g] = @ + 1]
         /\ stream' = [stream EXCEPT ![g] = [step |-> "arrived", into |-> 0]]
     BY Zenon, <1>4 DEF OpensStream, Live, Later
   <2>2. opened' \in [Sessions -> Nat]
     BY <1>t, <2>1
   <2>3. BridgeTypes'
     BY Zenon, <1>0, <1>t, <2>1, <2>2 DEF BridgeTypes, BridgeInv
   <2>4. \A h \in Sessions : stream'[h].step # "none" => session'[h].step \in Later
     BY Zenon, <1>0, <1>t, <2>1 DEF Owned, BridgeInv
   <2> QED
     BY Zenon, <1>0, <1>r, <2>1, <2>3, <2>4 DEF Owned, BridgeInv, EntryOwners, OwnersEntry
 <1> QED
   BY Zenon, <1>1, <1>2, <1>3, <1>4

\* Nobody owns anything at first.
LEMMA BridgeStarts == BridgeInit => BridgeInv
 <1> SUFFICES ASSUME BridgeInit PROVE BridgeInv
   BY Zenon
 <1>1. BridgeTypes
   <2>1. NoEntry \in Entry /\ [identity |-> 0, step |-> "none", control |-> "shut"] \in Control
     BY Zenon DEF NoEntry, Entry, Control, Steps, Controls
   <2>2. <<>> \in Seq(Opening) /\ <<>> \in Seq(Sessions)
     OBVIOUS
   <2>3. NoStream \in [step : {"none", "arrived", "entered", "answered"}, into : Sessions \cup {0}]
     BY Zenon DEF NoStream
   <2> QED
     BY Zenon, <2>1, <2>2, <2>3 DEF BridgeInit, BridgeTypes
 <1>2. EntryOwners
   BY Zenon, BridgeAssumption DEF BridgeInit, EntryOwners, NoEntry
 <1>3. OwnersEntry
   BY Zenon DEF BridgeInit, OwnersEntry, Owning
 <1> QED
   BY <1>1, <1>2, <1>3 DEF BridgeInit, BridgeInv, Owned, NoStream

\* Every step keeps the invariant.
LEMMA BridgeStep == BridgeInv /\ [BridgeNext]_bridgeVars => BridgeInv'
 <1> SUFFICES ASSUME BridgeInv, [BridgeNext]_bridgeVars PROVE BridgeInv'
   BY Zenon
 <1>1. CASE BridgeNext
   BY Zenon, <1>1, AcceptsOwned, EntersOwned, AckedOwned, ControlOwned, EndsOwned, OpensOwned,
      StreamsOwned DEF BridgeNext, BridgeTask
 <1>2. CASE UNCHANGED bridgeVars
   BY Zenon, <1>2 DEF bridgeVars, BridgeInv, BridgeTypes, Owned, EntryOwners, OwnersEntry
 <1> QED
   BY Zenon, <1>1, <1>2

\* An entry of the session table is that of the one session that entered it and
\* has not left it: no session takes, replaces or removes another's (handle's
\* insert and its removals).
THEOREM EntriesHaveOneOwner == BridgeSpec => []EntryIsMine
 <1>1. BridgeInv => EntryIsMine
   BY BridgeAssumption DEF BridgeInv, BridgeTypes, Entry, Owned, EntryOwners, OwnersEntry,
                           EntryIsMine, Entered, Owning
 <1> QED
   BY <1>1, BridgeStarts, BridgeStep, PTL DEF BridgeSpec
-----------------------------------------------------------------------------
\* A stream of g has been numbered and has not been handed on.
Underway(g) == stream[g].step \in {"arrived", "entered"}
Bound(g) == IF Underway(g) THEN opened[g] ELSE opened[g] + 1

\* Streams of g alone, in ascending order, below n.
Mine(q, g, n) == \A k \in 1 .. Len(q) : q[k].from = g /\ q[k].number < n
Ascending(q) == \A k \in 1 .. Len(q) - 1 : q[k].number < q[k + 1].number

\* What has been handed to g, and what g has taken, came from g and in order.
Home ==
    \A g \in Sessions :
        /\ stream[g].step = "entered" => stream[g].into = g
        /\ Mine(served[g] \o streams[g], g, Bound(g)) /\ Ascending(served[g] \o streams[g])

\* One more stream of g, numbered higher.
LEMMA MineAppend ==
    ASSUME NEW q \in Seq(Opening), NEW g \in Sessions, NEW n \in Nat, Mine(q, g, n), Ascending(q)
    PROVE  LET r == Append(q, [from |-> g, number |-> n]) IN Mine(r, g, n + 1) /\ Ascending(r)
 <1> DEFINE x == [from |-> g, number |-> n]
            r == Append(q, x)
 <1>1. x \in Opening /\ x.from = g /\ x.number = n
   BY Zenon DEF Opening
 <1>2. /\ Len(q) \in Nat /\ Len(r) = Len(q) + 1 /\ r[Len(q) + 1] = x
       /\ \A k \in 1 .. Len(q) : r[k] = q[k] /\ q[k] \in Opening
   BY <1>1, LenProperties, AppendProperties, ElementOfSeq
 <1> HIDE DEF x, r
 <1>3. Mine(r, g, n + 1)
   <2> SUFFICES ASSUME NEW k \in 1 .. Len(r) PROVE r[k].from = g /\ r[k].number < n + 1
     BY Zenon DEF Mine
   <2>1. CASE k = Len(q) + 1
     BY <1>1, <1>2, <2>1
   <2>2. CASE k # Len(q) + 1
     <3>1. k \in 1 .. Len(q)
       BY <1>2, <2>2
     <3>2. q[k].number \in Nat
       BY Zenon, <1>2, <3>1 DEF Opening
     <3> QED
       BY <1>2, <3>1, <3>2 DEF Mine
   <2> QED
     BY Zenon, <2>1, <2>2
 <1>4. Ascending(r)
   <2> SUFFICES ASSUME NEW k \in 1 .. Len(r) - 1 PROVE r[k].number < r[k + 1].number
     BY Zenon DEF Ascending
   <2>1. k \in 1 .. Len(q) /\ r[k] = q[k]
     BY <1>2
   <2>2. CASE k = Len(q)
     BY Zenon, <1>1, <1>2, <2>1, <2>2 DEF Mine
   <2>3. CASE k # Len(q)
     BY <1>2, <2>1, <2>3 DEF Ascending
   <2> QED
     BY Zenon, <2>2, <2>3
 <1> QED
   BY Zenon, <1>3, <1>4 DEF r, x

\* The bound may grow.
LEMMA MineMore ==
    ASSUME NEW q \in Seq(Opening), NEW g, NEW n \in Nat, NEW m \in Nat, n <= m, Mine(q, g, n)
    PROVE  Mine(q, g, m)
 <1> SUFFICES ASSUME NEW k \in 1 .. Len(q) PROVE q[k].from = g /\ q[k].number < m
   BY Zenon DEF Mine
 <1>1. q[k] \in Opening
   BY Zenon, ElementOfSeq
 <1>2. q[k].number \in Nat /\ q[k].from = g /\ q[k].number < n
   BY Zenon, <1>1 DEF Opening, Mine
 <1> QED
   BY <1>2

\* A queue whose head has gone.
LEMMA MinePrefix ==
    ASSUME NEW s \in Seq(Opening), NEW q \in Seq(Opening), NEW g, NEW n,
           Mine(s \o q, g, n), Ascending(s \o q)
    PROVE  Mine(s \o <<>>, g, n) /\ Ascending(s \o <<>>)
 <1>1. s \o <<>> = s
   BY Zenon, ConcatEmptySeq
 <1>2. /\ Len(s) \in Nat /\ Len(q) \in Nat /\ Len(s \o q) = Len(s) + Len(q)
       /\ \A k \in 1 .. Len(s) : (s \o q)[k] = s[k]
   BY ConcatProperties, LenProperties
 <1>3. Mine(s, g, n)
   BY <1>2 DEF Mine
 <1>4. Ascending(s)
   BY <1>2 DEF Ascending
 <1> QED
   BY Zenon, <1>1, <1>3, <1>4

\* The head of one queue put at the end of the other.
LEMMA Shifts ==
    ASSUME NEW s \in Seq(Opening), NEW q \in Seq(Opening), q # <<>>
    PROVE  Append(s, Head(q)) \o Tail(q) = s \o q
 <1>1. /\ Head(q) \in Opening /\ Tail(q) \in Seq(Opening) /\ Len(Tail(q)) = Len(q) - 1
       /\ Head(q) = q[1] /\ Len(q) \in Nat /\ Len(q) >= 1
       /\ \A k \in 1 .. Len(Tail(q)) : Tail(q)[k] = q[k + 1]
   BY Zenon, TailOf
 <1> DEFINE a == Append(s, Head(q))
            l == a \o Tail(q)
            r == s \o q
 <1>2. /\ a \in Seq(Opening) /\ Len(a) = Len(s) + 1 /\ a[Len(s) + 1] = Head(q) /\ Len(s) \in Nat
       /\ \A k \in 1 .. Len(s) : a[k] = s[k]
   BY <1>1, AppendProperties, LenProperties
 <1> HIDE DEF a
 <1>3. /\ l \in Seq(Opening) /\ Len(l) = Len(a) + Len(Tail(q))
       /\ \A k \in 1 .. Len(a) + Len(Tail(q)) :
              l[k] = IF k <= Len(a) THEN a[k] ELSE Tail(q)[k - Len(a)]
   BY ZenonT(20), <1>1, <1>2, ConcatProperties
 <1>4. /\ r \in Seq(Opening) /\ Len(r) = Len(s) + Len(q)
       /\ \A k \in 1 .. Len(s) + Len(q) : r[k] = IF k <= Len(s) THEN s[k] ELSE q[k - Len(s)]
   BY Zenon, ConcatProperties
 <1> HIDE DEF l, r
 <1>5. Len(l) = Len(r)
   BY <1>1, <1>2, <1>3, <1>4
 <1>6. ASSUME NEW k \in 1 .. Len(l) PROVE l[k] = r[k]
   <2>0. k \in 1 .. Len(a) + Len(Tail(q)) /\ k \in 1 .. Len(s) + Len(q)
     BY <1>1, <1>2, <1>3
   <2>1. CASE k <= Len(s)
     <3>1. k \in 1 .. Len(s) /\ k <= Len(a)
       BY <1>2, <2>0, <2>1
     <3>2. l[k] = a[k] /\ r[k] = s[k]
       BY Zenon, <1>3, <1>4, <2>0, <2>1, <3>1
     <3> QED
       BY Zenon, <1>2, <3>1, <3>2
   <2>2. CASE k = Len(s) + 1
     BY <1>1, <1>2, <1>3, <1>4, <1>5, <2>2
   <2>3. CASE k > Len(s) + 1
     <3>1. k - Len(a) \in 1 .. Len(Tail(q)) /\ k - Len(a) + 1 = k - Len(s)
       BY <1>1, <1>2, <1>3, <2>3
     <3> QED
       BY <1>1, <1>2, <1>3, <1>4, <1>5, <2>3, <3>1
   <2> QED
     BY <1>2, <2>1, <2>2, <2>3
 <1>7. l = r
   BY Zenon, <1>3, <1>4, <1>5, <1>6, SeqEqual
 <1> QED
   BY Zenon, <1>7 DEF l, r, a

\* Every step keeps that.
LEMMA HomeStep == BridgeInv /\ Home /\ [BridgeNext]_bridgeVars => Home'
 <1> SUFFICES ASSUME BridgeInv, Home, [BridgeNext]_bridgeVars PROVE Home'
   BY Zenon
 <1>t. /\ stream \in [Sessions -> [step : {"none", "arrived", "entered", "answered"},
                                   into : Sessions \cup {0}]]
       /\ streams \in [Sessions -> Seq(Opening)] /\ served \in [Sessions -> Seq(Opening)]
       /\ opened \in [Sessions -> Nat] /\ entries \in [Identities -> Entry]
   BY Zenon DEF BridgeInv, BridgeTypes
 <1>1. CASE UNCHANGED <<streams, served, opened, stream>>
   BY Zenon, <1>1 DEF Home, Bound, Underway
 <1>2. ASSUME NEW g \in Sessions, SessionEnds(g) PROVE Home'
   <2>1. /\ streams' = [streams EXCEPT ![g] = <<>>] /\ UNCHANGED <<served, opened, stream>>
     BY Zenon, <1>2 DEF SessionEnds
   <2> SUFFICES ASSUME NEW h \in Sessions
                PROVE  /\ stream[h].step = "entered" => stream[h].into = h
                       /\ Mine(served[h] \o streams'[h], h, Bound(h))
                       /\ Ascending(served[h] \o streams'[h])
     BY Zenon, <2>1 DEF Home, Bound, Underway
   <2>2. CASE h = g
     BY Zenon, <1>t, <2>1, <2>2, MinePrefix DEF Home
   <2>3. CASE h # g
     BY Zenon, <1>t, <2>1, <2>3 DEF Home
   <2> QED
     BY Zenon, <2>2, <2>3
 <1>3. ASSUME NEW g \in Sessions, accept_bi(g) PROVE Home'
   <2>1. /\ streams[g] # <<>> /\ UNCHANGED <<opened, stream>>
         /\ served' = [served EXCEPT ![g] = Append(@, Head(streams[g]))]
         /\ streams' = [streams EXCEPT ![g] = Tail(@)]
     BY Zenon, <1>3 DEF accept_bi
   <2>2. Append(served[g], Head(streams[g])) \o Tail(streams[g]) = served[g] \o streams[g]
     BY Zenon, <1>t, <2>1, Shifts
   <2>3. ASSUME NEW h \in Sessions PROVE served'[h] \o streams'[h] = served[h] \o streams[h]
     BY ZenonT(20), <1>t, <2>1, <2>2
   <2> QED
     BY ZenonT(20), <2>1, <2>3 DEF Home, Bound, Underway
 <1>4. ASSUME NEW g \in Sessions, OpensStream(g) PROVE Home'
   <2>1. /\ UNCHANGED <<streams, served>> /\ stream[g].step \in {"none", "answered"}
         /\ opened' = [opened EXCEPT ![g] = @ + 1]
         /\ stream' = [stream EXCEPT ![g] = [step |-> "arrived", into |-> 0]]
     BY Zenon, <1>4 DEF OpensStream
   <2>2. ASSUME NEW h \in Sessions
         PROVE  Bound(h)' = Bound(h) /\ (stream'[h].step = "entered" => stream'[h] = stream[h])
     <3>1. CASE h = g
       BY Zenon, <1>t, <2>1, <3>1 DEF Bound, Underway
     <3>2. CASE h # g
       BY Zenon, <1>t, <2>1, <3>2 DEF Bound, Underway
     <3> QED
       BY Zenon, <3>1, <3>2
   <2> QED
     BY Zenon, <2>1, <2>2 DEF Home
 <1>5. ASSUME NEW g \in Sessions, StreamEnters(g) PROVE Home'
   <2> DEFINE i == session[g].identity
              o == entries[i].owner
   <2>1. stream[g].step = "arrived" /\ UNCHANGED <<streams, opened, served>>
     BY Zenon, <1>5 DEF StreamEnters
   <2>2. i \in Identities /\ o \in Sessions \cup {0}
     BY ZenonT(20), <1>t, <2>1 DEF BridgeInv, Owned, OwnersEntry, Later, Entry
   <2>3. \/ stream' = [stream EXCEPT ![g] = [step |-> "answered", into |-> 0]]
         \/ stream' = [stream EXCEPT ![g] = [step |-> "entered", into |-> g]]
     <3>1. \/ stream' = [stream EXCEPT ![g] = [step |-> "answered", into |-> 0]]
           \/ /\ entries[i] # NoEntry /\ PeerOf[o] = PeerOf[g]
              /\ stream' = [stream EXCEPT ![g] = [step |-> "entered", into |-> o]]
       BY Zenon, <1>5 DEF StreamEnters, Answered
     <3>2. entries[i] # NoEntry /\ PeerOf[o] = PeerOf[g] => o = g
       BY ZenonT(20), <2>2, BridgeAssumption DEF BridgeInv, Owned, EntryOwners
     <3> QED
       BY Zenon, <3>1, <3>2
   <2>4. ASSUME NEW h \in Sessions PROVE
            /\ Bound(h)' >= Bound(h) /\ Bound(h) \in Nat /\ Bound(h)' \in Nat
            /\ stream'[h].step = "entered" => stream'[h].into = h
     <3>1. CASE h = g
       BY SMTT(20), <1>t, <2>1, <2>3, <3>1 DEF Bound, Underway
     <3>2. CASE h # g
       BY <1>t, <2>1, <2>3, <3>2 DEF Bound, Underway, Home
     <3> QED
       BY Zenon, <3>1, <3>2
   <2>5. ASSUME NEW h \in Sessions PROVE Mine(served[h] \o streams[h], h, Bound(h)')
     <3>1. served[h] \o streams[h] \in Seq(Opening) /\ Bound(h) <= Bound(h)'
       BY Zenon, <1>t, <2>4, ConcatProperties
     <3> QED
       BY ZenonT(20), <2>4, <3>1, MineMore DEF Home
   <2> QED
     BY Zenon, <2>1, <2>4, <2>5 DEF Home
 <1>6. ASSUME NEW g \in Sessions, StreamAcked(g) PROVE Home'
   <2> DEFINE n == [from |-> g, number |-> opened[g]]
   <2>1. /\ stream' = [stream EXCEPT ![g] = [step |-> "answered", into |-> 0]]
         /\ stream[g].step = "entered" /\ UNCHANGED <<opened, served>>
     BY Zenon, <1>6 DEF StreamAcked, Answered
   <2>2. \/ streams' = streams \/ streams' = [streams EXCEPT ![g] = Append(@, n)]
     BY ZenonT(20), <1>6, <2>1 DEF StreamAcked, Home
   <2>3. ASSUME NEW h \in Sessions, h # g
         PROVE  /\ streams'[h] = streams[h] /\ Bound(h)' = Bound(h) /\ stream'[h] = stream[h]
     <3>1. streams'[h] = streams[h]
       BY Zenon, <1>t, <2>2, <2>3
     <3>2. stream'[h] = stream[h] /\ opened'[h] = opened[h]
       BY Zenon, <1>t, <2>1, <2>3
     <3> QED
       BY Zenon, <3>1, <3>2 DEF Bound, Underway
   <2>4. Bound(g) = opened[g] /\ Bound(g)' = opened[g] + 1 /\ stream'[g].step = "answered"
     BY Zenon, <1>t, <2>1 DEF Bound, Underway
   <2>5. Mine(served'[g] \o streams'[g], g, Bound(g)') /\ Ascending(served'[g] \o streams'[g])
     <3> DEFINE q == served[g] \o streams[g]
     <3>1. q \in Seq(Opening) /\ opened[g] \in Nat /\ n \in Opening
       BY ZenonT(20), <1>t, ConcatProperties DEF Opening
     <3>2. Mine(q, g, opened[g]) /\ Ascending(q)
       BY Zenon, <2>4 DEF Home
     <3>3. CASE streams' = streams
       <4>1. Mine(q, g, opened[g] + 1)
         <5>1. opened[g] + 1 \in Nat /\ opened[g] <= opened[g] + 1
           BY <3>1
         <5> HIDE DEF q
         <5> QED
           BY Zenon, <3>1, <3>2, <5>1, MineMore
       <4> QED
         BY Zenon, <2>1, <2>4, <3>2, <3>3, <4>1
     <3>4. CASE streams' = [streams EXCEPT ![g] = Append(@, n)]
       <4>1. streams'[g] = Append(streams[g], n)
         BY Zenon, <1>t, <3>4
       <4>2. served[g] \o Append(streams[g], n) = Append(q, n)
         <5>1. Append(streams[g], n) = streams[g] \o <<n>> /\ Append(q, n) = q \o <<n>>
           BY Zenon, <1>t, <3>1, AppendIsConcat
         <5>2. <<n>> \in Seq(Opening)
           BY SMTT(20), <3>1
         <5>3. served[g] \o (streams[g] \o <<n>>) = (served[g] \o streams[g]) \o <<n>>
           BY <1>t, <5>2, ConcatAssociative
         <5> QED
           BY ZenonT(20), <5>1, <5>3
       <4>3. Mine(Append(q, n), g, opened[g] + 1) /\ Ascending(Append(q, n))
         BY ZenonT(20), <3>1, <3>2, MineAppend
       <4> QED
         BY ZenonT(20), <2>1, <2>4, <4>1, <4>2, <4>3
     <3> QED
       BY Zenon, <2>2, <3>3, <3>4
   <2>6. ASSUME NEW h \in Sessions
         PROVE  /\ stream'[h].step = "entered" => stream'[h].into = h
                /\ Mine(served'[h] \o streams'[h], h, Bound(h)')
                /\ Ascending(served'[h] \o streams'[h])
     <3>1. CASE h = g
       BY Zenon, <2>4, <2>5, <3>1
     <3>2. CASE h # g
       BY Zenon, <2>1, <2>3, <3>2 DEF Home
     <3> QED
       BY Zenon, <3>1, <3>2
   <2> QED
     BY Zenon, <2>6 DEF Home
 <1>7. CASE UNCHANGED bridgeVars
   BY Zenon, <1>1, <1>7 DEF bridgeVars
 <1>8. \/ AcceptsSession \/ UNCHANGED bridgeVars
       \/ \E g \in Sessions : \/ SessionEnters(g) \/ SessionAcked(g) \/ ControlEnds(g)
                              \/ ClosesControl(g) \/ \E i \in Identities : OpensSession(g, i)
       \/ \E g \in Sessions : \/ StreamEnters(g) \/ StreamAcked(g) \/ accept_bi(g)
                              \/ OpensStream(g) \/ SessionEnds(g)
   BY Zenon DEF BridgeNext, BridgeTask
 <1>9. CASE AcceptsSession
   BY Zenon, <1>1, <1>9 DEF AcceptsSession
 <1>10. CASE \E g \in Sessions : \/ SessionEnters(g) \/ SessionAcked(g) \/ ControlEnds(g)
                                 \/ ClosesControl(g) \/ \E i \in Identities : OpensSession(g, i)
   BY Zenon, <1>1, <1>10 DEF SessionEnters, SessionAcked, ControlEnds, ClosesControl, OpensSession
 <1> QED
   BY Zenon, <1>2, <1>3, <1>4, <1>5, <1>6, <1>7, <1>8, <1>9, <1>10

\* Every stream that a session takes was opened by its own peer, and in the
\* order of opening (the channel of the entry that the stream's identity names).
THEOREM StreamsReachTheirSession == BridgeSpec => []StreamsStayHome
 <1>1. BridgeInit => Home
   <2> SUFFICES ASSUME BridgeInit, NEW g \in Sessions
                PROVE  /\ stream[g].step = "entered" => stream[g].into = g
                       /\ Mine(served[g] \o streams[g], g, Bound(g))
                       /\ Ascending(served[g] \o streams[g])
     BY Zenon DEF Home
   <2>1. served[g] = <<>> /\ streams[g] = <<>> /\ stream[g].step = "none"
     BY Zenon DEF BridgeInit, NoStream
   <2>2. served[g] \o streams[g] = <<>>
     BY <2>1
   <2> QED
     BY <2>1, <2>2 DEF Mine, Ascending
 <1>2. Home => StreamsStayHome
   BY ZenonT(20) DEF Home, Mine, Ascending, StreamsStayHome
 <1> QED
   BY <1>1, <1>2, HomeStep, BridgeStarts, BridgeStep, PTL DEF BridgeSpec
-----------------------------------------------------------------------------
\* The number that the bridge expects next of g.
Expected(g) == IF stream[g].step = "arrived" THEN opened[g] ELSE opened[g] + 1
Counted ==
    /\ \A g \in Sessions : session[g].step \in Owning /\ session[g].control # "shut" =>
           entries[session[g].identity].next = Expected(g)
    /\ \A g \in Sessions : stream[g].step = "none" => opened[g] = 0

\* Every step keeps both counts alike.
LEMMA CountedStep == BridgeInv /\ Counted /\ [BridgeNext]_bridgeVars => Counted'
 <1> SUFFICES ASSUME BridgeInv, Counted, [BridgeNext]_bridgeVars PROVE Counted'
   BY Zenon
 <1>t. /\ stream \in [Sessions -> [step : {"none", "arrived", "entered", "answered"},
                                   into : Sessions \cup {0}]]
       /\ opened \in [Sessions -> Nat] /\ entries \in [Identities -> Entry]
       /\ session \in [Sessions -> Control]
   BY Zenon DEF BridgeInv, BridgeTypes
 <1>o. \A g \in Sessions : session[g].step \in Owning /\ session[g].control # "shut" =>
           entries[session[g].identity].owner = g /\ session[g].identity \in Identities
   BY Zenon DEF BridgeInv, Owned, OwnersEntry, Owning
 <1>1. ASSUME UNCHANGED <<entries, opened, stream>>,
              \A h \in Sessions : session'[h].step \in Owning /\ session'[h].control # "shut" =>
                  /\ session[h].step \in Owning /\ session[h].control # "shut"
                  /\ session'[h].identity = session[h].identity
       PROVE  Counted'
   BY Zenon, <1>1 DEF Counted, Expected
 <1>2. ASSUME NEW g \in Sessions, SessionEnters(g) PROVE Counted'
   <2> DEFINE i == session[g].identity
   <2>1. /\ session[g].step = "arrived" /\ i \in Identities /\ UNCHANGED <<opened, stream>>
         /\ stream[g].step = "none"
     BY Zenon, <1>2 DEF SessionEnters, BridgeInv, Owned, OwnersEntry, Later
   <2>2. CASE entries[i] = NoEntry /\ entries' = [entries EXCEPT ![i] = [owner |-> g, next |-> 1]]
              /\ session' = [session EXCEPT ![g].step = "entered"]
     <3>1. /\ session'[g].identity = i /\ \A h \in Sessions \ {g} : session'[h] = session[h]
       BY ZenonT(20), <1>t, <2>2, StepChanges DEF Steps
     <3>2. entries'[i].next = 1 /\ \A j \in Identities \ {i} : entries'[j] = entries[j]
       BY Zenon, <1>t, <2>1, <2>2
     <3>3. ASSUME NEW h \in Sessions, h # g, session[h].step \in Owning, session[h].control # "shut"
           PROVE  session[h].identity # i
       BY SMTT(20), <1>o, <2>2, <3>3, BridgeAssumption DEF NoEntry
     <3>4. Expected(g) = 1 /\ \A h \in Sessions : Expected(h)' = Expected(h)
       BY <1>t, <2>1 DEF Counted, Expected
     <3>5. ASSUME NEW h \in Sessions, session'[h].step \in Owning, session'[h].control # "shut"
           PROVE  entries'[session'[h].identity].next = Expected(h)'
       <4>1. CASE h = g
         BY Zenon, <3>1, <3>2, <3>4, <4>1
       <4>2. CASE h # g
         <5>1. session'[h] = session[h]
           BY Zenon, <3>1, <4>2
         <5>2. session[h].identity # i /\ session[h].identity \in Identities
               /\ entries[session[h].identity].next = Expected(h)
           BY Zenon, <1>o, <3>3, <3>5, <4>2, <5>1 DEF Counted
         <5> QED
           BY Zenon, <3>2, <3>4, <5>1, <5>2
       <4> QED
         BY Zenon, <4>1, <4>2
     <3> QED
       BY Zenon, <2>1, <3>5 DEF Counted
   <2>3. CASE session' = [session EXCEPT ![g].step = "refused", ![g].control = "shut"]
              /\ UNCHANGED entries
     <3>1. /\ session'[g].control = "shut" /\ \A h \in Sessions \ {g} : session'[h] = session[h]
       BY ZenonT(20), <1>t, <2>3, BothChange DEF Steps, Controls
     <3> QED
       BY ZenonT(20), <1>1, <2>1, <2>3, <3>1
   <2> QED
     BY Zenon, <1>2, <2>2, <2>3 DEF SessionEnters
 <1>3. ASSUME NEW g \in Sessions, UNCHANGED <<opened, stream>>, session[g].step \in Owning,
              session[g].control # "shut",
              entries' = [entries EXCEPT ![session[g].identity] = NoEntry],
              session'[g].control = "shut", \A h \in Sessions \ {g} : session'[h] = session[h]
       PROVE  Counted'
   <2> DEFINE i == session[g].identity
   <2>1. i \in Identities /\ entries[i].owner = g
     BY Zenon, <1>3, <1>o
   <2>2. \A j \in Identities \ {i} : entries'[j] = entries[j]
     BY ZenonT(40), <1>t, <1>3
   <2>3. ASSUME NEW h \in Sessions, session'[h].step \in Owning, session'[h].control # "shut"
         PROVE  entries'[session'[h].identity].next = Expected(h)'
     <3>1. h # g /\ session'[h] = session[h]
       BY Zenon, <1>3, <2>3
     <3>2. session[h].identity \in Identities \ {i}
       BY Zenon, <1>o, <2>1, <2>3, <3>1
     <3> QED
       BY <1>3, <2>2, <2>3, <3>1, <3>2 DEF Counted, Expected
   <2> QED
     BY Zenon, <1>3, <2>3 DEF Counted
 <1>4. ASSUME NEW g \in Sessions, SessionAcked(g) PROVE Counted'
   <2>1. session[g].step = "entered" /\ session[g].control # "shut" /\ UNCHANGED <<opened, stream>>
     BY Zenon, <1>4 DEF SessionAcked, BridgeInv, Owned, OwnersEntry
   <2>2. CASE session' = [session EXCEPT ![g].step = "queued"] /\ UNCHANGED entries
     <3>1. /\ session'[g].identity = session[g].identity /\ session'[g].control = session[g].control
           /\ \A h \in Sessions \ {g} : session'[h] = session[h]
       BY ZenonT(20), <1>t, <2>2, StepChanges DEF Steps
     <3> QED
       BY Zenon, <1>1, <2>1, <2>2, <3>1 DEF Owning
   <2>3. CASE session' = [session EXCEPT ![g].step = "refused", ![g].control = "shut"]
              /\ entries' = [entries EXCEPT ![session[g].identity] = NoEntry]
     <3>1. /\ session'[g].control = "shut" /\ \A h \in Sessions \ {g} : session'[h] = session[h]
       BY ZenonT(20), <1>t, <2>3, BothChange DEF Steps, Controls
     <3> QED
       BY ZenonT(20), <1>3, <2>1, <2>3, <3>1 DEF Owning
   <2> QED
     BY Zenon, <1>4, <2>2, <2>3 DEF SessionAcked
 <1>5. ASSUME NEW g \in Sessions, ControlEnds(g) PROVE Counted'
   <2>1. /\ session[g].step \in Owning /\ session[g].control = "closed"
         /\ entries' = [entries EXCEPT ![session[g].identity] = NoEntry]
         /\ session' = [session EXCEPT ![g].control = "shut"] /\ UNCHANGED <<opened, stream>>
     BY Zenon, <1>5 DEF ControlEnds, Owning
   <2>2. /\ session'[g].control = "shut" /\ \A h \in Sessions \ {g} : session'[h] = session[h]
     BY Zenon, <1>t, <2>1, ControlChanges DEF Controls
   <2> QED
     BY ZenonT(20), <1>3, <2>1, <2>2
 <1>6. ASSUME NEW g \in Sessions, ClosesControl(g) \/ SessionEnds(g) PROVE Counted'
   <2>1. /\ UNCHANGED <<entries, opened, stream>>
         /\ \/ session[g].control = "open" /\ session' = [session EXCEPT ![g].control = "closed"]
            \/ session[g].step = "serving" /\ session' = [session EXCEPT ![g].step = "over"]
     BY Zenon, <1>6 DEF ClosesControl, SessionEnds
   <2>2. CASE session[g].control = "open" /\ session' = [session EXCEPT ![g].control = "closed"]
     <3>1. /\ session'[g].identity = session[g].identity /\ session'[g].step = session[g].step
           /\ \A h \in Sessions \ {g} : session'[h] = session[h]
       BY Zenon, <1>t, <2>2, ControlChanges DEF Controls
     <3> QED
       BY Zenon, <1>1, <2>1, <2>2, <3>1
   <2>3. CASE session[g].step = "serving" /\ session' = [session EXCEPT ![g].step = "over"]
     <3>1. /\ session'[g].identity = session[g].identity /\ session'[g].control = session[g].control
           /\ \A h \in Sessions \ {g} : session'[h] = session[h]
       BY ZenonT(20), <1>t, <2>3, StepChanges DEF Steps
     <3> QED
       BY Zenon, <1>1, <2>1, <2>3, <3>1 DEF Owning
   <2> QED
     BY Zenon, <2>1, <2>2, <2>3
 <1>7. ASSUME NEW g \in Sessions, NEW i \in Identities, OpensSession(g, i) PROVE Counted'
   <2>1. /\ UNCHANGED <<entries, opened, stream>>
         /\ session' = [session EXCEPT ![g] = [identity |-> i, step |-> "arrived", control |-> "open"]]
     BY Zenon, <1>7 DEF OpensSession
   <2>2. session'[g].step = "arrived" /\ \A h \in Sessions \ {g} : session'[h] = session[h]
     BY Zenon, <1>t, <2>1
   <2> QED
     BY Zenon, <1>1, <2>1, <2>2 DEF Owning
 <1>8. CASE AcceptsSession
   <2>1. Head(ready) \in Sessions /\ Head(ready) = ready[1] /\ 1 \in 1 .. Len(ready)
     BY <1>8, TailOf DEF AcceptsSession, BridgeInv, BridgeTypes
   <2>2. PICK g \in Sessions : g = Head(ready)
     BY Zenon, <2>1
   <2>3. session[g].step \in Owning
     BY Zenon, <2>1, <2>2, Waiting DEF Later, Owning
   <2>4. /\ UNCHANGED <<entries, opened, stream>>
         /\ session' = [session EXCEPT ![g].step = "serving"]
     BY Zenon, <1>8, <2>2 DEF AcceptsSession
   <2>5. /\ session'[g].identity = session[g].identity /\ session'[g].control = session[g].control
         /\ \A h \in Sessions \ {g} : session'[h] = session[h]
     BY ZenonT(20), <1>t, <2>4, StepChanges DEF Steps
   <2> QED
     BY Zenon, <1>1, <2>3, <2>4, <2>5
 <1>9. ASSUME NEW g \in Sessions, accept_bi(g) PROVE Counted'
   BY Zenon, <1>9 DEF accept_bi, Counted, Expected
 <1>10. ASSUME NEW g \in Sessions, StreamAcked(g) PROVE Counted'
   <2>1. /\ UNCHANGED <<entries, opened, session>> /\ stream[g].step = "entered"
         /\ stream' = [stream EXCEPT ![g] = [step |-> "answered", into |-> 0]]
     BY Zenon, <1>10 DEF StreamAcked, Answered
   <2>2. stream'[g].step = "answered" /\ \A h \in Sessions \ {g} : stream'[h] = stream[h]
     BY Zenon, <1>t, <2>1
   <2>3. \A h \in Sessions : Expected(h)' = Expected(h)
     BY Zenon, <2>1, <2>2 DEF Expected
   <2> QED
     BY Zenon, <2>1, <2>2, <2>3 DEF Counted
 <1>11. ASSUME NEW g \in Sessions, OpensStream(g) PROVE Counted'
   <2>1. /\ UNCHANGED <<entries, session>> /\ stream[g].step \in {"none", "answered"}
         /\ opened' = [opened EXCEPT ![g] = @ + 1]
         /\ stream' = [stream EXCEPT ![g] = [step |-> "arrived", into |-> 0]]
     BY Zenon, <1>11 DEF OpensStream
   <2>2. /\ stream'[g].step = "arrived" /\ opened'[g] = opened[g] + 1
         /\ \A h \in Sessions \ {g} : stream'[h] = stream[h] /\ opened'[h] = opened[h]
     BY Zenon, <1>t, <2>1
   <2>3. \A h \in Sessions : Expected(h)' = Expected(h)
     BY <2>1, <2>2 DEF Expected
   <2> QED
     BY Zenon, <2>1, <2>2, <2>3 DEF Counted
 <1>12. ASSUME NEW g \in Sessions, StreamEnters(g) PROVE Counted'
   <2> DEFINE i == session[g].identity
              o == entries[i].owner
              refused == entries[i] = NoEntry \/ PeerOf[o] # PeerOf[g] \/ entries[i].next # opened[g]
   <2>1. /\ UNCHANGED <<session, opened>> /\ stream[g].step = "arrived"
     BY Zenon, <1>12 DEF StreamEnters
   <2>2. i \in Identities /\ o \in Sessions \cup {0} /\ session[g].step \in Owning
     BY Zenon, <1>t, <2>1 DEF BridgeInv, Owned, OwnersEntry, Later, Entry, Owning
   <2>3. stream'[g].step # "arrived" /\ stream'[g].step # "none"
         /\ \A h \in Sessions \ {g} : stream'[h] = stream[h]
     <3>1. PICK st \in {"entered", "answered"}, to \in Sessions \cup {0} :
               stream' = [stream EXCEPT ![g] = [step |-> st, into |-> to]]
       BY Zenon, <1>12, <2>2 DEF StreamEnters, Answered
     <3> QED
       BY Zenon, <1>t, <3>1
   <2>4. CASE refused
     <3>1. entries' = entries
       BY Zenon, <1>12, <2>4 DEF StreamEnters
     <3>2. session[g].control = "shut"
       <4> SUFFICES ASSUME session[g].control # "shut" PROVE FALSE
         BY Zenon
       <4>1. o = g /\ entries[i].next = opened[g]
         BY Zenon, <1>o, <2>1, <2>2 DEF Counted, Expected
       <4>2. entries[i] # NoEntry
         BY <4>1, BridgeAssumption DEF NoEntry
       <4> QED
         BY Zenon, <2>4, <4>1, <4>2
     <3>3. \A h \in Sessions \ {g} : Expected(h)' = Expected(h)
       BY Zenon, <2>1, <2>3 DEF Expected
     <3> QED
       BY Zenon, <2>1, <2>3, <3>1, <3>2, <3>3 DEF Counted
   <2>5. CASE ~refused
     <3>1. entries' = [entries EXCEPT ![i].next = @ + 1]
       BY Zenon, <1>12, <2>5 DEF StreamEnters
     <3>2. o = g
       BY ZenonT(40), <2>2, <2>5, BridgeAssumption DEF BridgeInv, Owned, EntryOwners
     <3>3. entries'[i].next = opened[g] + 1 /\ \A j \in Identities \ {i} : entries'[j] = entries[j]
       BY <1>t, <2>2, <2>5, <3>1, NumberUsed
     <3>4. Expected(g)' = opened[g] + 1 /\ \A h \in Sessions \ {g} : Expected(h)' = Expected(h)
       BY Zenon, <2>1, <2>3 DEF Expected
     <3>5. ASSUME NEW h \in Sessions, session[h].step \in Owning, session[h].control # "shut"
           PROVE  entries'[session[h].identity].next = Expected(h)'
       <4>1. CASE h = g
         BY Zenon, <3>3, <3>4, <4>1
       <4>2. CASE h # g
         <5>1. session[h].identity \in Identities \ {i}
           BY Zenon, <1>o, <3>2, <3>5, <4>2
         <5> QED
           BY Zenon, <3>3, <3>4, <3>5, <4>2, <5>1 DEF Counted
       <4> QED
         BY Zenon, <4>1, <4>2
     <3> QED
       BY Zenon, <2>1, <2>3, <3>5 DEF Counted
   <2> QED
     BY Zenon, <2>4, <2>5
 <1>13. CASE UNCHANGED bridgeVars
   BY Zenon, <1>13 DEF bridgeVars, Counted, Expected
 <1> QED
   BY Zenon, <1>2, <1>4, <1>5, <1>6, <1>7, <1>8, <1>9, <1>10, <1>11, <1>12, <1>13
      DEF BridgeNext, BridgeTask

\* Both ends of a session count its streams alike, so that no stream in order is
\* refused for its number (next_stream_id).
THEOREM EndsCountAlike == BridgeSpec => []InStep
 <1>1. BridgeInit => Counted
   BY DEF BridgeInit, Counted, Owning
 <1>2. Counted => InStep
   BY Zenon DEF Counted, InStep, Expected, Owning
 <1> QED
   BY <1>1, <1>2, CountedStep, BridgeStarts, BridgeStep, PTL DEF BridgeSpec

=============================================================================

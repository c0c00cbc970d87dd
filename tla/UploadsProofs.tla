--------------------------- MODULE UploadsProofs ---------------------------
(***************************************************************************)
(* Three facts of uploads, for any number of connections, channels,        *)
(* uploads, chunks and faults: a file under its final name is whole, the   *)
(* permits are exactly those of the uploads and readers that hold one, and *)
(* what stays behind in the directory is accounted for.  FinalIsWhole is   *)
(* not inductive: nothing in it says that the content checked by           *)
(* finish_inner is still the content when the name is linked, nor that a   *)
(* linked directory's writer has stopped writing.  WholeInv says both;     *)
(* PermitsInv and LeftInv do the same for the other two.                   *)
(***************************************************************************)
EXTENDS Uploads, FiniteSetTheorems, TLAPS
-----------------------------------------------------------------------------
(* Facts about sequences.  They are stated here because SequenceTheorems   *)
(* would put all of its facts into the context of every obligation.        *)

\* What Append gives.
LEMMA AppendProperties ==
    ASSUME NEW S, NEW q \in Seq(S), NEW e \in S
    PROVE  /\ Append(q, e) \in Seq(S) /\ Append(q, e) # <<>>
           /\ Len(Append(q, e)) = Len(q) + 1
           /\ \A i \in 1 .. Len(q) : Append(q, e)[i] = q[i]
           /\ Append(q, e)[Len(q) + 1] = e
  OBVIOUS

\* What Head and Tail of a sequence that is not empty are.
LEMMA HeadTailProperties ==
    ASSUME NEW S, NEW q \in Seq(S), q # <<>>
    PROVE  /\ Head(q) \in S /\ Tail(q) \in Seq(S) /\ Len(Tail(q)) = Len(q) - 1
           /\ \A i \in 1 .. Len(Tail(q)) : Tail(q)[i] = q[i + 1]
  OBVIOUS

-----------------------------------------------------------------------------
\* Types of the variables that decide what a file contains.
FileTypes ==
    /\ todo \in [Chans -> Commands]
    /\ binding \in [Chans -> Uploads \cup {NoUpload}]
    /\ queue \in [Uploads -> Seq(Commands)]
    /\ actor \in [Uploads -> Stages]
    /\ job \in [Uploads -> Nat]
    /\ total \in [Uploads -> Nat]
    /\ digest \in [Uploads -> Nat]
    /\ content \in [Uploads -> Seq(Nat)]
    /\ dir \in [Uploads -> Dirs]

\* Checked content stays put until it is committed, and a directory with the
\* final name belongs to an actor past its writes.
Whole ==
    \A u \in Uploads :
        /\ actor[u] \in {"linking", "unlinking"} => content[u] = Source(total[u])
        /\ dir[u] \in {"linked", "final"} =>
               /\ content[u] = Source(total[u])
               /\ actor[u] \in {"unlinking", "telling", "over"}

WholeInv == FileTypes /\ Whole

filevars == <<todo, binding, queue, actor, job, total, digest, content, dir>>

\* A file of n chunks has length n.
LEMMA SourceLength == \A n \in Nat : Source(n) \in Seq(Nat) /\ Len(Source(n)) = n
<1> SUFFICES ASSUME NEW n \in Nat PROVE Source(n) \in Seq(Nat) /\ Len(Source(n)) = n
    BY Zenon
<1>1. Source(n) \in [1..n -> Nat]
    BY DEF Source
<1> QED BY <1>1 DEF Source

\* finish_inner's two comparisons together pin the content down.
LEMMA CompleteIsWhole ==
    ASSUME FileTypes, NEW u \in Uploads, Complete(u)
    PROVE  content[u] = Source(total[u])
<1>1. total[u] \in Nat /\ digest[u] \in Nat
    BY Zenon DEF FileTypes
<1>2. Len(content[u]) = total[u] /\ content[u] = Source(digest[u])
    BY Zenon DEF Complete
<1>3. digest[u] = total[u]
    BY Zenon, <1>1, <1>2, SourceLength
<1> QED BY Zenon, <1>2, <1>3

\* Dropping the bindings whose actor has returned keeps the type.
LEMMA PrunedType ==
    ASSUME FileTypes, NEW c
    PROVE  Pruned(c) \in [Chans -> Uploads \cup {NoUpload}]
BY Zenon DEF FileTypes, Pruned

\* The invariant of the files holds at the start.
LEMMA InitWhole == Init => WholeInv
<1> SUFFICES ASSUME Init PROVE WholeInv
    BY Zenon
<1>1. NoTodo \in Commands
    BY Zenon DEF NoTodo, Commands
<1>2. FileTypes
    BY <1>1 DEF Init, FileTypes, Stages, Dirs
<1>3. Whole
    BY Zenon DEF Init, Whole
<1> QED BY Zenon, <1>2, <1>3 DEF WholeInv

\* Steps that leave the files' variables alone keep the invariant.
LEMMA FrameWhole == WholeInv /\ UNCHANGED filevars => WholeInv'
BY Zenon DEF WholeInv, FileTypes, Whole, filevars

\* Steps of readers that begin an upload: only an unborn one's metadata change.
LEMMA BeginWhole ==
    ASSUME WholeInv, NEW ch \in Chans, NEW n \in Nat, NEW d \in Nat,
           BeginUpload(ch, n, d)
    PROVE  WholeInv'
<1> DEFINE u == CHOOSE v \in Uploads : actor[v] = "unborn"
<1>1. u \in Uploads /\ actor[u] = "unborn"
    BY Zenon DEF BeginUpload
<1>2. /\ todo' = [todo EXCEPT ![ch] = [NoTodo EXCEPT !.op = "begin", !.upload = u]]
      /\ actor' = [actor EXCEPT ![u] = "beginning"]
      /\ total' = [total EXCEPT ![u] = n]
      /\ digest' = [digest EXCEPT ![u] = d]
      /\ binding' = Pruned(ConnOf[ch])
      /\ UNCHANGED <<queue, job, content, dir>>
    BY Zenon DEF BeginUpload, Set
<1> HIDE DEF u
<1>3. [NoTodo EXCEPT !.op = "begin", !.upload = u] \in Commands
    BY ZenonT(20), <1>1 DEF NoTodo, Commands
<1>4. FileTypes'
    BY Zenon, <1>1, <1>2, <1>3, PrunedType DEF WholeInv, FileTypes, Stages
<1>5. Whole'
    BY Zenon, <1>1, <1>2 DEF WholeInv, FileTypes, Whole
<1> QED BY Zenon, <1>4, <1>5 DEF WholeInv

\* A worker that creates the temporary file keeps the invariant.
LEMMA WorkerBeginsWhole ==
    ASSUME WholeInv, NEW u \in Uploads, WorkerBegins(u)
    PROVE  WholeInv'
<1>1. PICK stage \in {"begun", "refused", "over"}, place \in {"partial", dir[u]} :
          /\ actor' = [actor EXCEPT ![u] = stage]
          /\ dir' = [dir EXCEPT ![u] = place]
    BY Zenon DEF WorkerBegins, Set, WholeInv, FileTypes
<1>2. actor[u] = "beginning" /\ UNCHANGED <<todo, binding, queue, job, total, digest, content>>
    BY Zenon DEF WorkerBegins, server, file
<1>3. FileTypes'
    BY ZenonT(20), <1>1, <1>2 DEF WholeInv, FileTypes, Stages, Dirs
<1>4. Whole'
    BY Zenon, <1>1, <1>2 DEF WholeInv, FileTypes, Whole
<1> QED BY Zenon, <1>3, <1>4 DEF WholeInv

\* The answer to begin keeps the invariant.
LEMMA BeginDoneWhole ==
    ASSUME WholeInv, NEW ch \in Chans, BeginDone(ch)
    PROVE  WholeInv'
<1> DEFINE u == todo[ch].upload
<1>1. PICK stage \in {"waiting", "over"} : actor' = [actor EXCEPT ![u] = stage]
    BY Zenon DEF BeginDone, Set
<1>2. /\ actor[u] \in {"begun", "refused"}
      /\ todo' = [todo EXCEPT ![ch] = NoTodo]
      /\ binding' \in {binding, [binding EXCEPT ![ch] = u]}
      /\ UNCHANGED <<queue, job, total, digest, content, dir>>
    BY Zenon DEF BeginDone, Set, file
<1>3. u \in Uploads \cup {NoUpload}
    BY Zenon DEF WholeInv, FileTypes, Commands
<1> HIDE DEF u
<1>4. FileTypes'
    BY ZenonT(20), <1>1, <1>2, <1>3 DEF WholeInv, FileTypes, Stages, NoTodo, Commands
<1>5. Whole'
    BY Zenon, <1>1, <1>2 DEF WholeInv, FileTypes, Whole
<1> QED BY Zenon, <1>4, <1>5 DEF WholeInv

\* Passing a command on touches no file.
LEMMA PassWhole ==
    ASSUME WholeInv, NEW ch \in Chans, NEW op \in {"chunk", "finish", "abort"},
           NEW at \in Nat, PassCommand(ch, op, at)
    PROVE  WholeInv'
<1> DEFINE b == Pruned(ConnOf[ch])
<1>1. b \in [Chans -> Uploads \cup {NoUpload}]
    BY Zenon, PrunedType DEF WholeInv
<1> HIDE DEF b
<1>2. /\ todo' = [todo EXCEPT ![ch] = [op |-> op, upload |-> b[ch], at |-> at]]
      /\ binding' \in {b, [b EXCEPT ![ch] = NoUpload]}
      /\ UNCHANGED <<queue, actor, job, total, digest, content, dir>>
    BY Zenon DEF b, PassCommand, Set, upload, file
<1>3. [op |-> op, upload |-> b[ch], at |-> at] \in Commands
    BY Zenon, <1>1 DEF Commands
<1>4. FileTypes'
    BY ZenonT(20), <1>1, <1>2, <1>3 DEF WholeInv, FileTypes
<1>5. Whole'
    BY Zenon, <1>2 DEF WholeInv, Whole
<1> QED BY Zenon, <1>4, <1>5 DEF WholeInv

\* Steps that only unbind channels or move readers.
LEMMA UnbindWhole ==
    ASSUME WholeInv, NEW ch \in Chans,
           WrongId(ch) \/ StreamEnds(ch) \/ channel_closed(ch) \/ SendFails(ch)
    PROVE  WholeInv'
<1>1. /\ todo' \in {todo, [todo EXCEPT ![ch] = NoTodo]}
      /\ \/ binding' \in {binding, [binding EXCEPT ![ch] = NoUpload]}
         \/ binding' = [Pruned(ConnOf[ch]) EXCEPT ![ch] = NoUpload]
      /\ UNCHANGED <<queue, actor, job, total, digest, content, dir>>
    BY Zenon DEF WrongId, StreamEnds, channel_closed, SendFails, Set, upload, file
<1>2. Pruned(ConnOf[ch]) \in [Chans -> Uploads \cup {NoUpload}]
    BY Zenon, PrunedType DEF WholeInv
<1>3. binding' \in [Chans -> Uploads \cup {NoUpload}]
    BY ZenonT(20), <1>1, <1>2 DEF WholeInv, FileTypes
<1>4. todo' \in [Chans -> Commands]
    <2>1. NoTodo \in Commands
        BY Zenon DEF NoTodo, Commands
    <2> QED BY ZenonT(20), <1>1, <2>1 DEF WholeInv, FileTypes
<1>5. FileTypes'
    BY Zenon, <1>1, <1>3, <1>4 DEF WholeInv, FileTypes
<1>6. Whole'
    BY Zenon, <1>1 DEF WholeInv, Whole
<1> QED BY Zenon, <1>5, <1>6 DEF WholeInv

\* Passing a chunk to the actor keeps the invariant.
LEMMA SendWhole ==
    ASSUME WholeInv, NEW ch \in Chans, Send(ch)
    PROVE  WholeInv'
<1> DEFINE u == todo[ch].upload
<1>1. /\ todo' = [todo EXCEPT ![ch] = NoTodo]
      /\ queue' = [queue EXCEPT ![u] = Append(queue[u], todo[ch])]
      /\ UNCHANGED <<binding, actor, job, total, digest, content, dir>>
    BY Zenon DEF Send, Set, file
<1>2. u \in Uploads => Append(queue[u], todo[ch]) \in Seq(Commands)
    BY Zenon, AppendProperties DEF WholeInv, FileTypes
<1>3. FileTypes'
    BY ZenonT(20), <1>1, <1>2 DEF WholeInv, FileTypes, NoTodo, Commands
<1>4. Whole'
    BY Zenon, <1>1 DEF WholeInv, Whole
<1> QED BY Zenon, <1>3, <1>4 DEF WholeInv

\* Closing: a cancelled begin's directory goes, bindings go.
LEMMA ClosingWhole == ASSUME WholeInv, Closing PROVE WholeInv'
<1>1. ASSUME NEW ch \in Chans, CancelReader(ch) PROVE WholeInv'
    <2> DEFINE u == todo[ch].upload
    <2>1. /\ \/ actor' = [actor EXCEPT ![u] = "over"] /\ dir' = [dir EXCEPT ![u] = "none"]
             \/ actor' = actor /\ dir' = [dir EXCEPT ![u] = "none"]
             \/ UNCHANGED <<actor, dir>>
          /\ todo' = [todo EXCEPT ![ch] = NoTodo]
          /\ UNCHANGED <<binding, queue, job, total, digest, content>>
        BY Zenon, <1>1 DEF CancelReader, Set, file
    <2> HIDE DEF u
    <2>2. FileTypes'
        BY ZenonT(20), <2>1 DEF WholeInv, FileTypes, NoTodo, Commands, Stages, Dirs
    <2>3. Whole'
        BY Zenon, <2>1 DEF WholeInv, FileTypes, Whole
    <2> QED BY Zenon, <2>2, <2>3 DEF WholeInv
<1>2. ASSUME NEW c \in Conns, detach_all(c) PROVE WholeInv'
    <2>1. /\ binding' \in [Chans -> Uploads \cup {NoUpload}]
          /\ UNCHANGED <<todo, queue, actor, job, total, digest, content, dir>>
        BY Zenon, <1>2 DEF detach_all, upload, file, WholeInv, FileTypes
    <2> QED BY Zenon, <2>1 DEF WholeInv, FileTypes, Whole
<1> QED BY Zenon, <1>1, <1>2 DEF Closing

\* The actor.
LEMMA ReturnWhole ==
    ASSUME WholeInv, NEW u \in Uploads, Return(u), actor[u] \in {"waiting", "telling"}
    PROVE  WholeInv'
<1>1. CASE dir[u] = "final"
    <2>1. /\ actor' = [actor EXCEPT ![u] = "over"]
          /\ queue' = [queue EXCEPT ![u] = <<>>]
          /\ UNCHANGED <<todo, binding, job, total, digest, content, dir>>
        BY Zenon, <1>1 DEF Return, Set, server, file
    <2>2. FileTypes'
        BY <2>1 DEF WholeInv, FileTypes, Stages
    <2>3. Whole'
        BY Zenon, <2>1 DEF WholeInv, FileTypes, Whole
    <2> QED BY Zenon, <2>2, <2>3 DEF WholeInv
<1>2. CASE dir[u] # "final"
    <2>1. /\ actor' = [actor EXCEPT ![u] = "over"]
          /\ queue' = [queue EXCEPT ![u] = <<>>]
          /\ dir' = [dir EXCEPT ![u] = "none"]
          /\ total' = [total EXCEPT ![u] = 0]
          /\ digest' = [digest EXCEPT ![u] = 0]
          /\ content' = [content EXCEPT ![u] = <<>>]
          /\ UNCHANGED <<todo, binding, job>>
        BY Zenon, <1>2 DEF Return, Set, server
    <2>2. FileTypes'
        BY <2>1 DEF WholeInv, FileTypes, Stages, Dirs
    <2>3. Whole'
        BY Zenon, <2>1 DEF WholeInv, FileTypes, Whole
    <2> QED BY Zenon, <2>2, <2>3 DEF WholeInv
<1> QED BY Zenon, <1>1, <1>2

\* An actor that has failed keeps its directory or drops it.
LEMMA TellsWhole ==
    ASSUME WholeInv, NEW u \in Uploads, NEW what, Tells(u, what),
           NEW place \in {"none", dir[u]}, dir' = [dir EXCEPT ![u] = place]
    PROVE  WholeInv'
<1>1. /\ actor' = [actor EXCEPT ![u] = "telling"]
      /\ UNCHANGED <<todo, binding, queue, job, total, digest, content>>
    BY Zenon DEF Tells, Set, server, file
<1>2. FileTypes'
    BY ZenonT(20), <1>1 DEF WholeInv, FileTypes, Stages, Dirs
<1>3. Whole'
    BY Zenon, <1>1 DEF WholeInv, FileTypes, Whole
<1> QED BY Zenon, <1>2, <1>3 DEF WholeInv

\* The actor's receipt of a command keeps the invariant.
LEMMA ReceivesWhole ==
    ASSUME WholeInv, NEW u \in Uploads, ActorReceives(u)
    PROVE  WholeInv'
<1>1. queue[u] \in Seq(Commands) /\ queue[u] # <<>>
    BY Zenon DEF ActorReceives, WholeInv, FileTypes
<1>2. Head(queue[u]) \in Commands /\ Tail(queue[u]) \in Seq(Commands)
    BY Zenon, <1>1, HeadTailProperties
<1>0. Head(queue[u]).at \in Nat
    BY Zenon, <1>2 DEF Commands
<1>3. PICK stage \in {"writing", "checking"} : actor' = [actor EXCEPT ![u] = stage]
    BY ZenonT(20) DEF ActorReceives, Goes, Set
<1>4. /\ actor[u] = "waiting"
      /\ job' = [job EXCEPT ![u] = Head(queue[u]).at]
      /\ queue' = [queue EXCEPT ![u] = Tail(queue[u])]
      /\ UNCHANGED <<todo, binding, total, digest, content, dir>>
    BY Zenon DEF ActorReceives, Goes, Set, server, file
<1>5. FileTypes'
    BY Zenon, <1>0, <1>2, <1>3, <1>4 DEF WholeInv, FileTypes, Stages
<1>6. Whole'
    BY Zenon, <1>3, <1>4 DEF WholeInv, FileTypes, Whole
<1> QED BY Zenon, <1>5, <1>6 DEF WholeInv

\* A write, whole or failing, keeps the invariant.
LEMMA WritesWhole ==
    ASSUME WholeInv, NEW u \in Uploads, ActorWrites(u)
    PROVE  WholeInv'
<1>1. CASE Goes(u, "waiting") /\ content' = [content EXCEPT ![u] = Append(content[u], job[u])]
           /\ job' = [job EXCEPT ![u] = 0] /\ UNCHANGED <<queue, total, digest, dir>>
    <2>1. Append(content[u], job[u]) \in Seq(Nat)
        BY Zenon, AppendProperties DEF WholeInv, FileTypes
    <2>2. actor' = [actor EXCEPT ![u] = "waiting"] /\ UNCHANGED <<todo, binding>>
        BY Zenon, <1>1 DEF Goes, Set, server
    <2>3. actor[u] = "writing"
        BY Zenon DEF ActorWrites
    <2>4. FileTypes'
        BY Zenon, <1>1, <2>1, <2>2 DEF WholeInv, FileTypes, Stages
    <2>5. Whole'
        BY Zenon, <1>1, <2>2, <2>3 DEF WholeInv, FileTypes, Whole
    <2> QED BY Zenon, <2>4, <2>5 DEF WholeInv
<1>2. CASE Tells(u, "failed") /\ UNCHANGED dir
    <2>1. dir' = [dir EXCEPT ![u] = dir[u]]
        BY Zenon, <1>2 DEF WholeInv, FileTypes
    <2> QED BY ZenonT(20), <1>2, <2>1, TellsWhole
<1> QED BY Zenon, <1>1, <1>2 DEF ActorWrites, Set

\* A finish that fails removes the file and keeps the invariant.
LEMMA FinishFailsWhole ==
    ASSUME WholeInv, NEW u \in Uploads, FinishFails(u) PROVE WholeInv'
<1>1. dir' = [dir EXCEPT ![u] = "none"]
    BY Zenon DEF FinishFails, Set
<1> QED BY Zenon, <1>1, TellsWhole DEF FinishFails

\* The commit: what was checked is what gets the final name.
LEMMA ChecksWhole ==
    ASSUME WholeInv, NEW u \in Uploads, ActorChecks(u)
    PROVE  WholeInv'
<1>1. CASE Complete(u)
    <2>1. content[u] = Source(total[u])
        BY Zenon, <1>1, CompleteIsWhole DEF WholeInv
    <2>2. /\ actor[u] = "checking" /\ actor' = [actor EXCEPT ![u] = "linking"]
          /\ UNCHANGED <<todo, binding, queue, job, total, digest, content, dir>>
        BY Zenon, <1>1 DEF ActorChecks, Goes, Set, server, file
    <2>3. FileTypes'
        BY Zenon, <2>2 DEF WholeInv, FileTypes, Stages
    <2>4. Whole'
        BY Zenon, <2>1, <2>2 DEF WholeInv, FileTypes, Whole
    <2> QED BY Zenon, <2>3, <2>4 DEF WholeInv
<1>2. CASE ~Complete(u)
    BY Zenon, <1>2, FinishFailsWhole DEF ActorChecks
<1> QED BY Zenon, <1>1, <1>2

\* Giving the file its final name keeps the invariant: its content passed the
\* comparisons.
LEMMA LinksWhole ==
    ASSUME WholeInv, NEW u \in Uploads, ActorLinks(u)
    PROVE  WholeInv'
<1>1. CASE FinishFails(u)
    BY Zenon, <1>1, FinishFailsWhole
<1>2. CASE ~FinishFails(u)
    <2>1. /\ actor[u] = "linking" /\ actor' = [actor EXCEPT ![u] = "unlinking"]
          /\ dir' = [dir EXCEPT ![u] = "linked"]
          /\ UNCHANGED <<todo, binding, queue, job, total, digest, content>>
        BY Zenon, <1>2 DEF ActorLinks, Goes, Set, server, file
    <2>2. FileTypes'
        BY Zenon, <2>1 DEF WholeInv, FileTypes, Stages, Dirs
    <2>3. Whole'
        BY Zenon, <2>1 DEF WholeInv, FileTypes, Whole
    <2> QED BY Zenon, <2>2, <2>3 DEF WholeInv
<1> QED BY Zenon, <1>1, <1>2

\* The commit after the final name was given keeps the invariant.
LEMMA CommitsWhole ==
    ASSUME WholeInv, NEW u \in Uploads, ActorCommits(u)
    PROVE  WholeInv'
<1>1. CASE FinishFails(u)
    BY Zenon, <1>1, FinishFailsWhole
<1>2. CASE ~FinishFails(u)
    <2>1. /\ actor[u] = "unlinking" /\ actor' = [actor EXCEPT ![u] = "telling"]
          /\ dir' = [dir EXCEPT ![u] = "final"]
          /\ UNCHANGED <<todo, binding, queue, job, total, digest, content>>
        BY Zenon, <1>2 DEF ActorCommits, Tells, Set, server, file
    <2>2. FileTypes'
        BY Zenon, <2>1 DEF WholeInv, FileTypes, Stages, Dirs
    <2>3. Whole'
        BY Zenon, <2>1 DEF WholeInv, FileTypes, Whole
    <2> QED BY Zenon, <2>2, <2>3 DEF WholeInv
<1> QED BY Zenon, <1>1, <1>2

\* Retention and a crash keep a file or remove it.
LEMMA FaultsWhole ==
    ASSUME WholeInv, Crash \/ \E u \in Uploads : reap_expired(u) PROVE WholeInv'
<1>1. CASE Crash
    <2>1. /\ todo' = [ch \in Chans |-> NoTodo]
          /\ binding' = [ch \in Chans |-> NoUpload]
          /\ actor' = [u \in Uploads |-> "over"]
          /\ queue' = [u \in Uploads |-> <<>>]
          /\ UNCHANGED <<job, total, digest, content, dir>>
        BY Zenon, <1>1 DEF Crash, file
    <2>2. FileTypes'
        BY <2>1 DEF WholeInv, FileTypes, NoTodo, Commands, Stages
    <2>3. Whole'
        BY Zenon, <2>1 DEF WholeInv, Whole
    <2> QED BY Zenon, <2>2, <2>3 DEF WholeInv
<1>2. ASSUME NEW u \in Uploads, reap_expired(u) PROVE WholeInv'
    <2>1. /\ dir' = [dir EXCEPT ![u] = "none"]
          /\ UNCHANGED <<todo, binding, queue, actor, job, total, digest, content>>
        BY Zenon, <1>2 DEF reap_expired, Set, server, upload, file
    <2> QED BY Zenon, <2>1 DEF WholeInv, FileTypes, Whole, Dirs
<1> QED BY Zenon, <1>1, <1>2

\* Whatever a client sends keeps the invariant.
LEMMA ClientWhole == ASSUME WholeInv, Client PROVE WholeInv'
<1>1. ASSUME NEW ch \in Chans, NEW n \in 0..MaxChunks, NEW d \in 0..n,
             BeginUpload(ch, n, d)
      PROVE  WholeInv'
    <2>1. n \in Nat /\ d \in Nat
        BY ChunksAssumption
    <2> QED BY Zenon, <1>1, <2>1, BeginWhole
<1>2. ASSUME NEW ch \in Chans, NEW at \in 0..MaxChunks, PassCommand(ch, "chunk", at)
      PROVE  WholeInv'
    <2>1. at \in Nat
        BY ChunksAssumption
    <2> QED BY Zenon, <1>2, <2>1, PassWhole
<1>3. ASSUME NEW ch \in Chans, PassCommand(ch, "finish", 0) PROVE WholeInv'
    BY Zenon, <1>3, PassWhole
<1>4. ASSUME NEW ch \in Chans, PassCommand(ch, "abort", 0) PROVE WholeInv'
    BY Zenon, <1>4, PassWhole
<1>5. ASSUME NEW ch \in Chans, WrongId(ch) \/ StreamEnds(ch) PROVE WholeInv'
    BY Zenon, <1>5, UnbindWhole
<1>6. ASSUME NEW c \in Conns, ConnectionLost(c) PROVE WholeInv'
    BY Zenon, <1>6, FrameWhole DEF ConnectionLost, filevars, upload, file
<1> QED BY Zenon, <1>1, <1>2, <1>3, <1>4, <1>5, <1>6 DEF Client

\* Every step of an upload's actor, its time-out included, keeps the
\* invariant.
LEMMA ActorWhole ==
    ASSUME WholeInv, NEW u \in Uploads, Actor(u) \/ ActorTimesOut(u)
    PROVE  WholeInv'
<1>1. ASSUME ActorCancelled(u) \/ ActorReturns(u) PROVE WholeInv'
    BY Zenon, <1>1, ReturnWhole DEF ActorCancelled, ActorReturns
<1>2. ASSUME ActorTimesOut(u) PROVE WholeInv'
    <2>1. dir' = [dir EXCEPT ![u] = dir[u]]
        BY Zenon, <1>2 DEF ActorTimesOut, WholeInv, FileTypes
    <2> QED BY ZenonT(20), <1>2, <2>1, TellsWhole DEF ActorTimesOut
<1> QED BY Zenon, <1>1, <1>2, WorkerBeginsWhole, ReceivesWhole, WritesWhole, ChecksWhole,
           LinksWhole, CommitsWhole DEF Actor

\* Every step keeps the invariant of the files.
LEMMA NextWhole == WholeInv /\ [Next]_vars => WholeInv'
<1> SUFFICES ASSUME WholeInv, [Next]_vars PROVE WholeInv'
    BY Zenon
<1>1. ASSUME NEW ch \in Chans, Reader(ch) PROVE WholeInv'
    BY Zenon, <1>1, BeginDoneWhole, SendWhole, UnbindWhole DEF Reader
<1>2. CASE UNCHANGED vars
    BY Zenon, <1>2, FrameWhole DEF vars, filevars, server, upload, file
<1> QED BY Zenon, <1>1, <1>2, ClientWhole, ClosingWhole, ActorWhole, FaultsWhole DEF Next

\* A file under its final name is the client's file, whole and in order, in
\* every state, also after a crash between any two steps of the commit
\* (finish_inner, UploadWriter's Drop), for all constants.
THEOREM FinalsAreWhole == Spec => []FinalIsWhole
<1>1. WholeInv => FinalIsWhole
    BY Zenon DEF WholeInv, Whole, FinalIsWhole
<1> QED BY <1>1, InitWhole, NextWhole, PTL DEF Spec
-----------------------------------------------------------------------------
(* What an upload leaves on the disk.  A worker that has not begun has no  *)
(* directory, and a final name comes with its answer.                      *)

Left(u) ==
    /\ actor[u] \in {"unborn", "beginning", "refused"} => dir[u] = "none"
    /\ dir[u] = "final" => actor[u] \in {"telling", "over"} /\ answer[u] = "finished"
    /\ actor[u] = "over" /\ dir[u] \in {"partial", "linked"} => crashed
LeftInv == /\ answer \in [Uploads -> {"none", "failed", "finished"}]
           /\ \A u \in Uploads : Left(u)

\* One upload changes, and only in its stage, its directory and its answer.
LEMMA OneLeft ==
    ASSUME WholeInv, LeftInv, NEW u, NEW stage, NEW place,
           NEW what \in {"none", "failed", "finished"},
           actor' = [actor EXCEPT ![u] = stage], dir' = [dir EXCEPT ![u] = place],
           answer' = [answer EXCEPT ![u] = what], crashed' = crashed,
           /\ stage \in {"unborn", "beginning", "refused"} => place = "none"
           /\ place = "final" => stage \in {"telling", "over"} /\ what = "finished"
           /\ stage = "over" => place \in {"none", "final"}
    PROVE  LeftInv'
<1>1. answer' \in [Uploads -> {"none", "failed", "finished"}]
    BY ZenonT(20) DEF LeftInv
<1>2. ASSUME NEW v \in Uploads PROVE Left(v)'
    <2>1. CASE v = u
        <3>1. actor'[v] = stage /\ dir'[v] = place /\ answer'[v] = what
            BY Zenon, <2>1 DEF LeftInv, WholeInv, FileTypes
        <3> QED BY Zenon, <3>1 DEF Left
    <2>2. CASE v # u
        <3>1. actor'[v] = actor[v] /\ dir'[v] = dir[v] /\ answer'[v] = answer[v]
            BY Zenon, <2>2 DEF LeftInv, WholeInv, FileTypes
        <3> QED BY Zenon, <3>1 DEF LeftInv, Left
    <2> QED BY Zenon, <2>1, <2>2
<1> QED BY Zenon, <1>1, <1>2 DEF LeftInv

\* What does not change can be written as a change to itself.
LEMMA SameLeft ==
    ASSUME WholeInv, LeftInv, NEW u \in Uploads
    PROVE  /\ dir = [dir EXCEPT ![u] = dir[u]] /\ answer = [answer EXCEPT ![u] = answer[u]]
           /\ actor = [actor EXCEPT ![u] = actor[u]]
           /\ answer[u] \in {"none", "failed", "finished"}
           /\ dir[u] \in Dirs
BY Zenon DEF WholeInv, FileTypes, LeftInv

\* The answer stays, and the directory stays or goes.
LEMMA StageLeft ==
    ASSUME WholeInv, LeftInv, NEW u \in Uploads, NEW stage,
           actor' = [actor EXCEPT ![u] = stage], answer' = answer, crashed' = crashed,
           \/ dir' = [dir EXCEPT ![u] = "none"]
           \/ dir' = dir /\ dir[u] = "none"
           \/ dir' = dir /\ dir[u] # "final" /\ stage \notin {"unborn", "beginning", "refused", "over"}
           \/ dir' = dir /\ dir[u] = "final" /\ stage = "over"
    PROVE  LeftInv'
<1>0. Left(u)
    BY Zenon DEF LeftInv
<1>1. /\ answer' = [answer EXCEPT ![u] = answer[u]]
      /\ answer[u] \in {"none", "failed", "finished"}
    BY Zenon, SameLeft
<1>2. CASE dir' = [dir EXCEPT ![u] = "none"]
    BY ZenonT(20), <1>1, <1>2, OneLeft
<1>3. CASE dir' = dir
    <2>1. dir' = [dir EXCEPT ![u] = dir[u]]
        BY Zenon, <1>3, SameLeft
    <2>2. CASE dir[u] = "none"
        BY ZenonT(20), <1>1, <2>1, <2>2, OneLeft
    <2>3. CASE dir[u] # "final" /\ stage \notin {"unborn", "beginning", "refused", "over"}
        BY ZenonT(20), <1>1, <2>1, <2>3, OneLeft
    <2>4. CASE dir[u] = "final" /\ stage = "over"
        <3>1. answer[u] = "finished"
            BY Zenon, <1>0, <2>4 DEF Left
        <3> QED BY ZenonT(20), <1>1, <2>1, <2>4, <3>1, OneLeft
    <2>5. CASE dir' = [dir EXCEPT ![u] = "none"]
        BY ZenonT(20), <1>1, <2>5, OneLeft
    <2> QED BY Zenon, <1>3, <2>2, <2>3, <2>4, <2>5
<1> QED BY Zenon, <1>2, <1>3

\* Every step of an actor leaves a final file that was told of, or nothing.
LEMMA ActorLeft ==
    ASSUME WholeInv, LeftInv, NEW u \in Uploads, Actor(u) \/ ActorTimesOut(u)
    PROVE  LeftInv'
<1>0. Left(u)
    BY Zenon DEF LeftInv
<1>1. CASE WorkerBegins(u)
    <2>1. /\ actor[u] = "beginning" /\ crashed' = crashed /\ answer' = answer /\ dir[u] = "none"
          /\ \/ /\ actor' = [actor EXCEPT ![u] = "begun"]
                /\ dir' = [dir EXCEPT ![u] = "partial"]
             \/ actor' = [actor EXCEPT ![u] = "refused"] /\ dir' = dir
             \/ actor' = [actor EXCEPT ![u] = "over"] /\ dir' = dir
        BY Zenon, <1>0, <1>1 DEF WorkerBegins, Set, Left
    <2>2. CASE /\ actor' = [actor EXCEPT ![u] = "begun"] /\ dir' = [dir EXCEPT ![u] = "partial"]
        <3>1. /\ answer' = [answer EXCEPT ![u] = answer[u]]
              /\ answer[u] \in {"none", "failed", "finished"}
            BY Zenon, <2>1, SameLeft
        <3> QED BY ZenonT(20), <2>1, <2>2, <3>1, OneLeft
    <2> QED BY Zenon, <2>1, <2>2, StageLeft
<1>2. ASSUME NEW to \in {"waiting", "writing", "checking", "linking"}, Goes(u, to),
             actor[u] \notin {"telling", "over"}, dir' = dir
      PROVE  LeftInv'
    <2>1. /\ actor' = [actor EXCEPT ![u] = to] /\ answer' = answer /\ crashed' = crashed
          /\ dir[u] # "final"
        BY Zenon, <1>0, <1>2 DEF Goes, Set, Left
    <2> QED BY ZenonT(20), <1>2, <2>1, StageLeft
<1>3. ASSUME Tells(u, "failed"), actor[u] \notin {"telling", "over"},
             dir' = dir \/ dir' = [dir EXCEPT ![u] = "none"]
      PROVE  LeftInv'
    <2>1. /\ actor' = [actor EXCEPT ![u] = "telling"]
          /\ answer' = [answer EXCEPT ![u] = "failed"] /\ crashed' = crashed
          /\ dir[u] # "final"
        BY Zenon, <1>0, <1>3 DEF Tells, Set, Left
    <2>2. CASE dir' = dir
        <3>1. dir' = [dir EXCEPT ![u] = dir[u]]
            BY Zenon, <2>2, SameLeft
        <3> QED BY ZenonT(20), <2>1, <3>1, OneLeft
    <2>3. CASE dir' = [dir EXCEPT ![u] = "none"]
        BY ZenonT(60), <2>1, <2>3, OneLeft
    <2> QED BY Zenon, <1>3, <2>2, <2>3
<1>4. CASE ActorReceives(u)
    BY Zenon, <1>2, <1>4 DEF ActorReceives
<1>5. CASE ActorWrites(u) \/ ActorTimesOut(u)
    BY Zenon, <1>2, <1>3, <1>5 DEF ActorWrites, ActorTimesOut
<1>6. CASE ActorChecks(u)
    BY Zenon, <1>2, <1>3, <1>6 DEF ActorChecks, FinishFails, Set
<1>7. CASE ActorLinks(u)
    <2>1. CASE FinishFails(u)
        BY Zenon, <1>3, <1>7, <2>1 DEF ActorLinks, FinishFails, Set
    <2>2. CASE ~FinishFails(u)
        <3>1. /\ actor' = [actor EXCEPT ![u] = "unlinking"] /\ answer' = answer
              /\ dir' = [dir EXCEPT ![u] = "linked"] /\ crashed' = crashed
            BY Zenon, <1>7, <2>2 DEF ActorLinks, Goes, Set
        <3>2. /\ answer' = [answer EXCEPT ![u] = answer[u]]
              /\ answer[u] \in {"none", "failed", "finished"}
            BY Zenon, <3>1, SameLeft
        <3> QED BY ZenonT(20), <3>1, <3>2, OneLeft
    <2> QED BY Zenon, <2>1, <2>2
<1>8. CASE ActorCommits(u)
    <2>1. CASE FinishFails(u)
        BY Zenon, <1>3, <1>8, <2>1 DEF ActorCommits, FinishFails, Set
    <2>2. CASE ~FinishFails(u)
        <3>1. /\ actor' = [actor EXCEPT ![u] = "telling"]
              /\ answer' = [answer EXCEPT ![u] = "finished"]
              /\ dir' = [dir EXCEPT ![u] = "final"] /\ crashed' = crashed
            BY Zenon, <1>8, <2>2 DEF ActorCommits, Tells, Set
        <3> QED BY ZenonT(20), <3>1, OneLeft
    <2> QED BY Zenon, <2>1, <2>2
<1>9. CASE ActorCancelled(u) \/ ActorReturns(u)
    <2>1. /\ actor' = [actor EXCEPT ![u] = "over"] /\ answer' = answer /\ crashed' = crashed
          /\ IF dir[u] = "final" THEN dir' = dir ELSE dir' = [dir EXCEPT ![u] = "none"]
        BY Zenon, <1>9 DEF ActorCancelled, ActorReturns, Return, Set
    <2> QED BY ZenonT(60), <2>1, StageLeft
<1> QED BY Zenon, <1>1, <1>4, <1>5, <1>6, <1>7, <1>8, <1>9 DEF Actor

\* Every step keeps what an upload that is over leaves behind.
LEMMA LeftStep ==
    ASSUME WholeInv, LeftInv, [Next]_vars
    PROVE  LeftInv'
<1>1. ASSUME UNCHANGED <<actor, dir, answer, crashed>> PROVE LeftInv'
    BY Zenon, <1>1 DEF LeftInv, Left
<1>2. ASSUME NEW ch \in Chans, NEW n, NEW d, BeginUpload(ch, n, d) PROVE LeftInv'
    <2>1. PICK u \in Uploads :
              actor[u] = "unborn" /\ u = CHOOSE v \in Uploads : actor[v] = "unborn"
        BY Zenon, <1>2 DEF BeginUpload
    <2>2. /\ actor' = [actor EXCEPT ![u] = "beginning"] /\ UNCHANGED <<dir, answer, crashed>>
          /\ dir[u] = "none"
        BY Zenon, <1>2, <2>1 DEF BeginUpload, Set, LeftInv, Left
    <2> QED BY ZenonT(60), <2>2, StageLeft
<1>3. CASE Client
    <2>1. ASSUME NEW ch \in Chans, NEW op, NEW at, PassCommand(ch, op, at) PROVE LeftInv'
        BY Zenon, <1>1, <2>1 DEF PassCommand, upload
    <2>2. ASSUME NEW ch \in Chans, WrongId(ch) \/ StreamEnds(ch) PROVE LeftInv'
        BY Zenon, <1>1, <2>2 DEF WrongId, StreamEnds, upload
    <2>3. ASSUME NEW c \in Conns, ConnectionLost(c) PROVE LeftInv'
        BY Zenon, <1>1, <2>3 DEF ConnectionLost, upload
    <2> QED BY Zenon, <1>2, <1>3, <2>1, <2>2, <2>3 DEF Client
<1>4. ASSUME NEW ch \in Chans, BeginDone(ch) PROVE LeftInv'
    <2> DEFINE u == todo[ch].upload
    <2>1. /\ crashed' = crashed /\ dir' = dir
          /\ \/ /\ actor[u] = "begun" /\ actor' = [actor EXCEPT ![u] = "waiting"]
                /\ answer' = answer
             \/ /\ actor[u] = "refused" /\ actor' = [actor EXCEPT ![u] = "over"]
                /\ answer' = [answer EXCEPT ![u] = "failed"]
        BY ZenonT(20), <1>4 DEF BeginDone, Set
    <2>2. CASE u \in Uploads
        <3>1. Left(u)
            BY Zenon, <2>2 DEF LeftInv
        <3>2. actor[u] = "begun" => dir[u] # "final"
            BY Zenon, <3>1 DEF Left
        <3>3. actor[u] = "refused" => dir[u] = "none"
            BY Zenon, <3>1 DEF Left
        <3> HIDE DEF u
        <3>4. CASE actor[u] = "begun"
            <4>1. actor' = [actor EXCEPT ![u] = "waiting"] /\ answer' = answer
                BY Zenon, <2>1, <3>4
            <4> QED BY ZenonT(20), <2>1, <2>2, <3>2, <3>4, <4>1, StageLeft
        <3>5. CASE actor[u] = "refused"
            <4>1. /\ actor' = [actor EXCEPT ![u] = "over"]
                  /\ answer' = [answer EXCEPT ![u] = "failed"]
                BY Zenon, <2>1, <3>5
            <4>2. dir' = [dir EXCEPT ![u] = "none"]
                BY Zenon, <2>1, <2>2, <3>3, <3>5, SameLeft
            <4> QED BY ZenonT(20), <2>1, <4>1, <4>2, OneLeft
        <3> QED BY Zenon, <2>1, <3>4, <3>5
    <2>3. CASE u \notin Uploads
        <3> HIDE DEF u
        <3>1. UNCHANGED <<actor, dir, answer, crashed>>
            BY <2>1, <2>3 DEF WholeInv, FileTypes, LeftInv
        <3> QED BY Zenon, <1>1, <3>1
    <2> QED BY Zenon, <2>2, <2>3
<1>5. ASSUME NEW ch \in Chans, CancelReader(ch) PROVE LeftInv'
    <2> DEFINE u == todo[ch].upload
    <2>1. /\ crashed' = crashed /\ answer' = answer
          /\ \/ /\ actor' = IF actor[u] = "beginning" THEN actor ELSE [actor EXCEPT ![u] = "over"]
                /\ dir' = [dir EXCEPT ![u] = "none"]
             \/ UNCHANGED <<actor, dir>>
        BY Zenon, <1>5 DEF CancelReader, Set
    <2> HIDE DEF u
    <2>2. CASE u \in Uploads
        <3>1. CASE dir' = [dir EXCEPT ![u] = "none"]
            <4>1. \E stage : actor' = [actor EXCEPT ![u] = stage]
                BY Zenon, <2>1, <2>2, SameLeft
            <4> QED BY ZenonT(60), <2>1, <2>2, <3>1, <4>1, StageLeft
        <3> QED BY Zenon, <1>1, <2>1, <3>1
    <2>3. CASE u \notin Uploads
        <3>1. UNCHANGED <<actor, dir, answer, crashed>>
            BY <2>1, <2>3 DEF WholeInv, FileTypes, LeftInv
        <3> QED BY Zenon, <1>1, <3>1
    <2> QED BY Zenon, <2>2, <2>3
<1>6. ASSUME NEW ch \in Chans, Send(ch) \/ SendFails(ch) \/ channel_closed(ch) PROVE LeftInv'
    BY ZenonT(60), <1>1, <1>6 DEF Send, SendFails, channel_closed, upload
<1>7. ASSUME NEW c \in Conns, detach_all(c) PROVE LeftInv'
    BY Zenon, <1>1, <1>7 DEF detach_all, upload
<1>8. ASSUME NEW u \in Uploads, reap_expired(u) PROVE LeftInv'
    <2>1. dir' = [dir EXCEPT ![u] = "none"] /\ UNCHANGED <<actor, answer, crashed>>
        BY Zenon, <1>8 DEF reap_expired, Set, upload
    <2>2. actor' = [actor EXCEPT ![u] = actor[u]]
        BY Zenon, <2>1, SameLeft
    <2> QED BY ZenonT(20), <2>1, <2>2, StageLeft
<1>9. CASE Crash
    <2>1. /\ actor' = [u \in Uploads |-> "over"] /\ UNCHANGED <<dir, answer>> /\ crashed'
        BY Zenon, <1>9 DEF Crash
    <2> QED BY Zenon, <2>1 DEF LeftInv, Left
<1>10. CASE UNCHANGED vars
    BY Zenon, <1>1, <1>10 DEF vars, upload
<1> QED BY Zenon, <1>3, <1>4, <1>5, <1>6, <1>7, <1>8, <1>9, <1>10, ActorLeft DEF Next, Reader, Closing

\* While the daemon lives, an upload that is over left its final file, which
\* the client was told of, or nothing (UploadWriter's Drop), for all constants.
THEOREM NothingStaysBehind == Spec => []NothingLeftBehind
<1>1. Init => LeftInv
    BY Zenon DEF Init, LeftInv, Left
<1>2. WholeInv /\ LeftInv => NothingLeftBehind
    BY Zenon DEF WholeInv, FileTypes, Dirs, LeftInv, Left, NothingLeftBehind
<1>3. WholeInv /\ LeftInv /\ [Next]_vars => LeftInv'
    BY Zenon, LeftStep
<1> QED BY <1>1, <1>2, <1>3, InitWhole, NextWhole, PTL DEF Spec

-----------------------------------------------------------------------------
(* Permits.  A step keeps every permit, takes one for an upload that had   *)
(* none, gives one back, or is the crash, which drops them all.            *)

Running == {"waiting", "writing", "checking", "linking", "unlinking", "telling"}
Holds(u) == \/ actor[u] \in Running
            \/ actor[u] # "unborn" /\ Awaited(u)

\* A reader that waits for a worker waits for an upload of its own channel.
Readers ==
    /\ reader \in [Chans -> {"idle", "begin", "send", "ending", "gone"}]
    /\ owner \in [Uploads -> Chans]
    /\ \A ch \in Chans : reader[ch] = "begin" =>
           /\ todo[ch].upload \in Uploads /\ owner[todo[ch].upload] = ch
           /\ actor[todo[ch].upload] \in {"beginning", "begun", "refused"}

Keeps(v) == (Holds(v)' <=> Holds(v)) /\ (Holds(v) => owner'[v] = owner[v])
AllKeep == permits' = permits /\ \A v \in Uploads : Keeps(v)
Takes(u, x) == /\ permits' = [permits EXCEPT ![x] = @ + 1]
               /\ ~Holds(u) /\ Holds(u)' /\ UserOn(owner'[u]) = x
               /\ \A v \in Uploads \ {u} : Keeps(v)
Gives(u, x) == /\ permits' = [permits EXCEPT ![x] = @ - 1]
               /\ Holds(u) /\ ~Holds(u)' /\ UserOn(owner[u]) = x
               /\ \A v \in Uploads \ {u} : Keeps(v)
DropsAll == permits' = [x \in Users |-> 0] /\ \A v \in Uploads : ~Holds(v)'

\* Readers and permits after one step.
Accounted ==
    /\ Readers'
    /\ \/ AllKeep \/ DropsAll
       \/ \E u \in Uploads, x \in Users : Takes(u, x) \/ Gives(u, x)

\* A channel is one of a connection, and that of a user.
LEMMA UserType == \A ch \in Chans : ConnOf[ch] \in Conns /\ UserOn(ch) \in Users
BY Zenon, UploadsAssumption DEF UserOn

\* A reader that does not wait for a worker moves to another such place.
LEMMA ReaderMoves ==
    ASSUME WholeInv, Readers, NEW ch \in Chans, NEW to \in {"idle", "send", "ending", "gone"},
           NEW t, reader[ch] # "begin", reader' = [reader EXCEPT ![ch] = to],
           \/ todo' = [todo EXCEPT ![ch] = t]
           \/ todo' = todo,
           UNCHANGED <<actor, owner, permits>>
    PROVE  Accounted
<1>1. \A c \in Chans : /\ (reader'[c] = "begin" <=> reader[c] = "begin")
                        /\ (reader[c] = "begin" => todo'[c] = todo[c])
    BY Zenon DEF WholeInv, FileTypes, Readers
<1>2. \A v \in Uploads : owner[v] \in Chans
    BY Zenon DEF Readers
<1>3. Readers'
    <2>1. /\ reader' \in [Chans -> {"idle", "begin", "send", "ending", "gone"}]
          /\ owner' \in [Uploads -> Chans]
        BY Zenon DEF Readers
    <2> QED BY <1>1, <2>1 DEF Readers
<1>4. AllKeep
    BY Zenon, <1>1, <1>2 DEF AllKeep, Keeps, Holds, Awaited
<1> QED BY Zenon, <1>3, <1>4 DEF Accounted

\* An upload's actor moves between stages of the same standing.
LEMMA ActorMoves ==
    ASSUME WholeInv, Readers, NEW u \in Uploads, NEW to, actor' = [actor EXCEPT ![u] = to],
           \/ actor[u] \in Running /\ to \in Running
           \/ actor[u] = "beginning" /\ to \in {"begun", "refused"}
           \/ actor[u] = "beginning" /\ to = "over" /\ ~Awaited(u),
           UNCHANGED <<reader, todo, owner, permits>>
    PROVE  Accounted
<1>0. actor \in [Uploads -> Stages] /\ actor'[u] = to
      /\ \A v \in Uploads \ {u} : actor'[v] = actor[v]
    BY Zenon DEF WholeInv, FileTypes
<1>1. \A v \in Uploads : Awaited(v)' <=> Awaited(v)
    BY Zenon DEF Awaited
<1>2. Readers'
    <2>1. ASSUME NEW ch \in Chans, reader[ch] = "begin"
          PROVE  actor'[todo[ch].upload] \in {"beginning", "begun", "refused"}
        <3>1. CASE todo[ch].upload = u
            <4>1. Awaited(u) /\ actor[u] \notin Running
                BY Zenon, <2>1, <3>1 DEF Readers, Awaited, Running
            <4> QED BY Zenon, <1>0, <3>1, <4>1
        <3>2. CASE todo[ch].upload # u
            BY Zenon, <1>0, <2>1, <3>2 DEF Readers
        <3> QED BY Zenon, <3>1, <3>2
    <2> QED BY Zenon, <2>1 DEF Readers
<1>3. AllKeep
    BY Zenon, <1>0, <1>1 DEF AllKeep, Keeps, Holds, Running
<1> QED BY Zenon, <1>2, <1>3 DEF Accounted

\* An actor that returns gives back the one permit it held.
LEMMA ReturnGives ==
    ASSUME WholeInv, Readers, NEW u \in Uploads, Return(u), actor[u] \in {"waiting", "telling"}
    PROVE  Accounted
<1> DEFINE x == UserOn(owner[u])
<1>1. /\ actor' = [actor EXCEPT ![u] = "over"] /\ UNCHANGED <<reader, todo, owner>>
      /\ permits' = [permits EXCEPT ![x] = @ - 1] /\ x \in Users
    BY Zenon, UserType DEF Return, release, Set, server, Readers
<1>2. /\ actor \in [Uploads -> Stages] /\ actor'[u] = "over"
      /\ \A v \in Uploads \ {u} : actor'[v] = actor[v]
    BY Zenon, <1>1 DEF WholeInv, FileTypes
<1>3. ~Awaited(u)
    BY Zenon DEF Readers, Awaited
<1>4. \A v \in Uploads : Awaited(v)' <=> Awaited(v)
    BY Zenon, <1>1 DEF Awaited
<1>5. Readers'
    BY Zenon, <1>1, <1>2 DEF Readers
<1>6. Gives(u, x)
    <2>1. Holds(u) /\ ~Holds(u)'
        BY Zenon, <1>2, <1>3, <1>4 DEF Holds, Running
    <2>2. \A v \in Uploads \ {u} : Keeps(v)
        BY Zenon, <1>1, <1>2, <1>4 DEF Keeps, Holds
    <2> QED BY Zenon, <1>1, <2>1, <2>2 DEF Gives
<1> QED BY Zenon, <1>1, <1>5, <1>6 DEF Accounted

\* try_acquire, for an upload nobody has seen yet.
LEMMA BeginTakes ==
    ASSUME WholeInv, Readers, NEW ch \in Chans, NEW n, NEW d, BeginUpload(ch, n, d)
    PROVE  Accounted
<1>0. PICK u \in Uploads :
          actor[u] = "unborn" /\ u = CHOOSE v \in Uploads : actor[v] = "unborn"
    BY Zenon DEF BeginUpload
<1> DEFINE t == [NoTodo EXCEPT !.op = "begin", !.upload = u]
           x == UserOn(ch)
<1>1. u \in Uploads /\ actor[u] = "unborn" /\ x \in Users
    BY Zenon, <1>0, UserType
<1>2. /\ reader[ch] = "idle" /\ reader' = [reader EXCEPT ![ch] = "begin"]
      /\ todo' = [todo EXCEPT ![ch] = t]
      /\ actor' = [actor EXCEPT ![u] = "beginning"] /\ owner' = [owner EXCEPT ![u] = ch]
      /\ permits' = [permits EXCEPT ![x] = @ + 1]
    BY Zenon, <1>0 DEF BeginUpload, CanDispatch, try_acquire, Set
<1>3. t.upload = u
    BY Zenon DEF NoTodo
<1> HIDE DEF t, x
<1>4. /\ actor'[u] = "beginning" /\ owner'[u] = ch /\ reader'[ch] = "begin" /\ todo'[ch] = t
      /\ \A v \in Uploads \ {u} : actor'[v] = actor[v] /\ owner'[v] = owner[v]
      /\ \A c \in Chans \ {ch} : reader'[c] = reader[c] /\ todo'[c] = todo[c]
    BY <1>1, <1>2 DEF WholeInv, FileTypes, Readers
<1>5. \A v \in Uploads : owner[v] \in Chans
    BY Zenon DEF Readers
<1>6. Readers'
    <2>1. /\ reader' \in [Chans -> {"idle", "begin", "send", "ending", "gone"}]
          /\ owner' \in [Uploads -> Chans]
        BY Zenon, <1>1, <1>2 DEF Readers
    <2>2. ASSUME NEW c \in Chans, reader'[c] = "begin"
          PROVE  /\ todo'[c].upload \in Uploads /\ owner'[todo'[c].upload] = c
                 /\ actor'[todo'[c].upload] \in {"beginning", "begun", "refused"}
        <3>1. CASE c = ch
            BY Zenon, <1>1, <1>3, <1>4, <3>1
        <3>2. CASE c # ch
            <4>1. /\ todo[c].upload \in Uploads /\ owner[todo[c].upload] = c
                  /\ actor[todo[c].upload] \in {"beginning", "begun", "refused"}
                BY Zenon, <1>4, <2>2, <3>2 DEF Readers
            <4> QED BY <1>1, <1>4, <3>2, <4>1
        <3> QED BY Zenon, <3>1, <3>2
    <2> QED BY Zenon, <2>1, <2>2 DEF Readers
<1>7. ~Holds(u) /\ Holds(u)' /\ UserOn(owner'[u]) = x
    BY Zenon, <1>1, <1>3, <1>4 DEF Holds, Awaited, Running, x
<1>8. \A v \in Uploads \ {u} : Keeps(v)
    <2> TAKE v \in Uploads \ {u}
    <2>1. Awaited(v)' <=> Awaited(v)
        <3>1. CASE owner[v] = ch
            BY Zenon, <1>2, <1>3, <1>4, <3>1 DEF Awaited
        <3>2. CASE owner[v] # ch
            BY <1>4, <1>5, <3>2 DEF Awaited
        <3> QED BY Zenon, <3>1, <3>2
    <2> QED BY Zenon, <1>4, <2>1 DEF Keeps, Holds
<1>9. Takes(u, x)
    BY Zenon, <1>2, <1>7, <1>8 DEF Takes
<1> QED BY Zenon, <1>1, <1>6, <1>9 DEF Accounted

\* A reader stops waiting for its worker: the actor starts and has the permit
\* now, or the permit goes back.
LEMMA StopsWaiting ==
    ASSUME WholeInv, Readers, NEW ch \in Chans, reader[ch] = "begin",
           NEW to \in {"idle", "gone"}, NEW stage,
           reader' = [reader EXCEPT ![ch] = to], todo' = [todo EXCEPT ![ch] = NoTodo],
           actor' = [actor EXCEPT ![todo[ch].upload] = stage], owner' = owner,
           \/ stage = "waiting" /\ permits' = permits
           \/ /\ stage \in {"beginning", "over"}
              /\ permits' = [permits EXCEPT ![UserOn(ch)] = @ - 1]
    PROVE  Accounted
<1>0. PICK u \in Uploads : u = todo[ch].upload
    BY Zenon DEF Readers
<1>1. u \in Uploads /\ owner[u] = ch /\ actor[u] \in {"beginning", "begun", "refused"}
    BY Zenon, <1>0 DEF Readers
<1>2. Holds(u)
    BY Zenon, <1>0, <1>1 DEF Holds, Awaited
<1>3. /\ actor'[u] = stage /\ reader'[ch] = to
      /\ \A v \in Uploads \ {u} : actor'[v] = actor[v]
      /\ \A c \in Chans \ {ch} : reader'[c] = reader[c] /\ todo'[c] = todo[c]
    BY <1>0, <1>1 DEF WholeInv, FileTypes, Readers
<1>4. \A v \in Uploads : owner[v] \in Chans
    BY Zenon DEF Readers
<1>5. Readers'
    <2>1. /\ reader' \in [Chans -> {"idle", "begin", "send", "ending", "gone"}]
          /\ owner' \in [Uploads -> Chans]
        BY Zenon DEF Readers
    <2>2. ASSUME NEW c \in Chans, reader'[c] = "begin"
          PROVE  /\ todo'[c].upload \in Uploads /\ owner'[todo'[c].upload] = c
                 /\ actor'[todo'[c].upload] \in {"beginning", "begun", "refused"}
        <3>1. c # ch
            BY Zenon, <1>3, <2>2
        <3>2. /\ todo[c].upload \in Uploads /\ owner[todo[c].upload] = c
              /\ actor[todo[c].upload] \in {"beginning", "begun", "refused"}
            BY Zenon, <1>3, <2>2, <3>1 DEF Readers
        <3>3. todo[c].upload # u
            BY Zenon, <1>1, <3>1, <3>2
        <3> QED BY <1>3, <3>1, <3>2, <3>3
    <2> QED BY Zenon, <2>1, <2>2 DEF Readers
<1>6. \A v \in Uploads \ {u} : Keeps(v)
    <2> TAKE v \in Uploads \ {u}
    <2>1. Awaited(v)' <=> Awaited(v)
        <3>1. CASE owner[v] = ch
            BY Zenon, <1>0, <1>3, <3>1 DEF Awaited
        <3>2. CASE owner[v] # ch
            BY <1>3, <1>4, <3>2 DEF Awaited
        <3> QED BY Zenon, <3>1, <3>2
    <2> QED BY Zenon, <1>3, <2>1 DEF Keeps, Holds
<1>7. ~Awaited(u)'
    BY Zenon, <1>1, <1>3 DEF Awaited
<1>8. CASE stage = "waiting" /\ permits' = permits
    <2>1. Keeps(u)
        BY Zenon, <1>2, <1>3, <1>8 DEF Keeps, Holds, Running
    <2>2. AllKeep
        BY Zenon, <1>6, <1>8, <2>1 DEF AllKeep
    <2> QED BY Zenon, <1>5, <2>2 DEF Accounted
<1>9. CASE /\ stage \in {"beginning", "over"}
           /\ permits' = [permits EXCEPT ![UserOn(ch)] = @ - 1]
    <2>1. ~Holds(u)'
        BY Zenon, <1>3, <1>7, <1>9 DEF Holds, Running
    <2>2. UserOn(ch) \in Users /\ UserOn(owner[u]) = UserOn(ch)
        BY Zenon, <1>1, UserType
    <2>3. Gives(u, UserOn(ch))
        BY Zenon, <1>2, <1>6, <1>9, <2>1, <2>2 DEF Gives
    <2> QED BY Zenon, <1>1, <1>5, <2>2, <2>3 DEF Accounted
<1> QED BY Zenon, <1>8, <1>9

\* Every step accounts for the permits.
LEMMA ReadersAccount ==
    ASSUME WholeInv, Readers, NEW ch \in Chans, Reader(ch) \/ CancelReader(ch)
    PROVE  Accounted
<1> DEFINE u == todo[ch].upload
<1>0. actor \in [Uploads -> Stages] /\ actor = [actor EXCEPT ![u] = actor[u]]
    BY Zenon DEF WholeInv, FileTypes
<1>1. CASE BeginDone(ch)
    <2>1. /\ reader[ch] = "begin" /\ reader' = [reader EXCEPT ![ch] = "idle"]
          /\ todo' = [todo EXCEPT ![ch] = NoTodo] /\ owner' = owner
          /\ \/ actor' = [actor EXCEPT ![u] = "waiting"] /\ permits' = permits
             \/ /\ actor' = [actor EXCEPT ![u] = "over"]
                /\ permits' = [permits EXCEPT ![UserOn(ch)] = @ - 1]
        BY Zenon, <1>1 DEF BeginDone, release, Set
    <2> QED BY ZenonT(20), <2>1, StopsWaiting
<1>2. CASE Send(ch) \/ SendFails(ch) \/ channel_closed(ch)
    <2>1. /\ reader[ch] # "begin" /\ UNCHANGED <<actor, owner, permits>>
          /\ \E to \in {"idle", "ending", "gone"} : reader' = [reader EXCEPT ![ch] = to]
          /\ todo' = [todo EXCEPT ![ch] = NoTodo] \/ todo' = todo
        BY Zenon, <1>2 DEF Send, SendFails, channel_closed, Set, upload
    <2> QED BY ZenonT(20), <2>1, ReaderMoves
<1>3. CASE CancelReader(ch) /\ reader[ch] = "begin"
    <2>1. actor[u] \in {"beginning", "begun", "refused"}
        BY Zenon, <1>3 DEF Readers
    <2>2. /\ reader' = [reader EXCEPT ![ch] = "gone"] /\ owner' = owner
          /\ todo' = [todo EXCEPT ![ch] = NoTodo]
          /\ permits' = [permits EXCEPT ![UserOn(ch)] = @ - 1]
          /\ actor' = IF actor[u] = "beginning" THEN actor ELSE [actor EXCEPT ![u] = "over"]
        BY Zenon, <1>3 DEF CancelReader, release, Set
    <2>3. actor' \in {[actor EXCEPT ![u] = "beginning"], [actor EXCEPT ![u] = "over"]}
        BY Zenon, <1>0, <2>2
    <2> QED BY ZenonT(20), <1>3, <2>2, <2>3, StopsWaiting
<1>4. CASE CancelReader(ch) /\ reader[ch] # "begin"
    <2>1. /\ UNCHANGED <<actor, owner, permits>> /\ reader' = [reader EXCEPT ![ch] = "gone"]
          /\ todo' = [todo EXCEPT ![ch] = NoTodo]
        BY ZenonT(20), <1>4 DEF CancelReader, Set
    <2> QED BY ZenonT(20), <1>4, <2>1, ReaderMoves
<1> QED BY Zenon, <1>1, <1>2, <1>3, <1>4 DEF Reader

\* Every step of an actor changes counters and holders alike.
LEMMA ActorsAccount ==
    ASSUME WholeInv, Readers, NEW u \in Uploads, Actor(u) \/ ActorTimesOut(u)
    PROVE  Accounted
<1>1. CASE ActorCancelled(u) \/ ActorReturns(u)
    BY Zenon, <1>1, ReturnGives DEF ActorCancelled, ActorReturns
<1>2. CASE WorkerBegins(u)
    <2>1. /\ actor[u] = "beginning" /\ UNCHANGED <<reader, todo, owner, permits>>
          /\ \/ actor' = [actor EXCEPT ![u] = "begun"]
             \/ actor' = [actor EXCEPT ![u] = "refused"]
             \/ actor' = [actor EXCEPT ![u] = "over"] /\ ~Awaited(u)
        BY Zenon, <1>2 DEF WorkerBegins, Set, server
    <2> QED BY Zenon, <2>1, ActorMoves
<1>3. CASE ActorReceives(u) \/ ActorWrites(u) \/ ActorChecks(u) \/ ActorLinks(u)
           \/ ActorCommits(u) \/ ActorTimesOut(u)
    <2>1. /\ actor[u] \in Running /\ UNCHANGED <<reader, todo, owner, permits>>
          /\ \E to \in Running : actor' = [actor EXCEPT ![u] = to]
        BY ZenonT(20), <1>3 DEF ActorReceives, ActorWrites, ActorChecks, ActorLinks, ActorCommits,
                    ActorTimesOut, FinishFails, Goes, Tells, Set, server, Running
    <2> QED BY ZenonT(20), <2>1, ActorMoves
<1> QED BY Zenon, <1>1, <1>2, <1>3 DEF Actor

\* Every step changes the counters and the permits that exist alike.
LEMMA NextAccounts ==
    ASSUME WholeInv, Readers, [Next]_vars
    PROVE  Accounted
<1>1. ASSUME UNCHANGED <<reader, todo, actor, owner, permits>> PROVE Accounted
    <2>1. Readers'
        BY Zenon, <1>1 DEF Readers
    <2>2. AllKeep
        BY Zenon, <1>1 DEF AllKeep, Keeps, Holds, Awaited
    <2> QED BY Zenon, <2>1, <2>2 DEF Accounted
<1>2. CASE Client
    <2>1. ASSUME NEW ch \in Chans, NEW op, NEW at, PassCommand(ch, op, at) PROVE Accounted
        <3>1. /\ reader[ch] # "begin" /\ UNCHANGED <<actor, owner, permits>>
              /\ reader' = [reader EXCEPT ![ch] = "send"]
              /\ \E t : todo' = [todo EXCEPT ![ch] = t]
            BY ZenonT(20), <2>1 DEF PassCommand, CanDispatch, Set, upload
        <3> QED BY ZenonT(20), <3>1, ReaderMoves
    <2>2. ASSUME NEW ch \in Chans, StreamEnds(ch) PROVE Accounted
        <3>1. /\ reader[ch] # "begin" /\ UNCHANGED <<actor, owner, permits, todo>>
              /\ reader' = [reader EXCEPT ![ch] = "ending"]
            BY Zenon, <2>2 DEF StreamEnds, Set, upload
        <3> QED BY ZenonT(20), <3>1, ReaderMoves
    <2>3. ASSUME NEW ch \in Chans, WrongId(ch) PROVE Accounted
        BY Zenon, <1>1, <2>3 DEF WrongId, upload
    <2>4. ASSUME NEW c \in Conns, ConnectionLost(c) PROVE Accounted
        BY Zenon, <1>1, <2>4 DEF ConnectionLost, upload
    <2> QED BY Zenon, <1>2, <2>1, <2>2, <2>3, <2>4, BeginTakes DEF Client
<1>3. CASE Crash
    <2>1. /\ reader' = [ch \in Chans |-> "gone"] /\ permits' = [x \in Users |-> 0]
          /\ actor' = [u \in Uploads |-> "over"] /\ owner' = owner
        BY Zenon, <1>3 DEF Crash
    <2>2. Readers'
        BY Zenon, <2>1 DEF Readers
    <2>3. DropsAll
        BY Zenon, <2>1 DEF DropsAll, Holds, Awaited, Running, Readers
    <2> QED BY Zenon, <2>2, <2>3 DEF Accounted
<1>4. ASSUME NEW c \in Conns, detach_all(c) PROVE Accounted
    BY Zenon, <1>1, <1>4 DEF detach_all, upload
<1>5. ASSUME NEW u \in Uploads, reap_expired(u) PROVE Accounted
    BY Zenon, <1>1, <1>5 DEF reap_expired, upload, server
<1>6. CASE UNCHANGED vars
    BY Zenon, <1>1, <1>6 DEF vars, upload, server
<1> QED BY Zenon, <1>2, <1>3, <1>4, <1>5, <1>6, ReadersAccount, ActorsAccount DEF Next, Closing

PermitsInv ==
    /\ Readers /\ permits \in [Users -> Nat]
    /\ \A x \in Users : IsFiniteSet(Permitted(x)) /\ permits[x] = Cardinality(Permitted(x))

\* Every step keeps the counters equal to the permits that exist.
LEMMA PermitsStep ==
    ASSUME WholeInv, PermitsInv, [Next]_vars
    PROVE  PermitsInv'
<1>0. Accounted /\ permits \in [Users -> Nat]
    BY Zenon, NextAccounts DEF PermitsInv
<1>1. \A x \in Users : Permitted(x) = {u \in Uploads : UserOn(owner[u]) = x /\ Holds(u)}
    BY Zenon DEF Permitted, Holds, Alive, Running
<1>2. \A x \in Users : Permitted(x)' = {u \in Uploads : UserOn(owner'[u]) = x /\ Holds(u)'}
    BY Zenon DEF Permitted, Holds, Alive, Running, UserOn
<1>3. SUFFICES ASSUME NEW x \in Users
               PROVE  /\ IsFiniteSet(Permitted(x)') /\ permits'[x] = Cardinality(Permitted(x)')
                      /\ DOMAIN permits' = Users /\ permits' = [y \in Users |-> permits'[y]]
    <2>1. \A x \in Users : permits'[x] \in Nat
        BY Zenon, <1>3, FS_CardinalityType
    <2>2. permits' \in [Users -> Nat]
        BY Zenon, <1>0, <1>3, <2>1 DEF Accounted, AllKeep, DropsAll, Takes, Gives
    <2> QED BY Zenon, <1>0, <1>3, <2>2 DEF PermitsInv, Accounted
<1>4. IsFiniteSet(Permitted(x)) /\ permits[x] = Cardinality(Permitted(x))
    BY Zenon DEF PermitsInv
<1>5. DOMAIN permits' = Users /\ permits' = [y \in Users |-> permits'[y]]
    BY Zenon, <1>0 DEF Accounted, AllKeep, DropsAll, Takes, Gives
<1>6. CASE AllKeep
    <2>1. Permitted(x)' = Permitted(x)
        BY <1>1, <1>2, <1>6 DEF AllKeep, Keeps
    <2> QED BY Zenon, <1>4, <1>5, <1>6, <2>1 DEF AllKeep
<1>7. CASE DropsAll
    <2>1. Permitted(x)' = {}
        BY Zenon, <1>2, <1>7 DEF DropsAll
    <2>2. permits'[x] = 0
        BY Zenon, <1>7 DEF DropsAll
    <2> QED BY Zenon, <1>5, <2>1, <2>2, FS_EmptySet
<1>8. ASSUME NEW u \in Uploads, NEW y \in Users, Takes(u, y)
      PROVE  IsFiniteSet(Permitted(x)') /\ permits'[x] = Cardinality(Permitted(x)')
    <2>1. permits'[x] = IF x = y THEN permits[x] + 1 ELSE permits[x]
        BY Zenon, <1>0, <1>8 DEF Takes
    <2>2. Permitted(x)' = IF x = y THEN Permitted(x) \cup {u} ELSE Permitted(x)
        BY <1>1, <1>2, <1>8 DEF Takes, Keeps
    <2>3. u \notin Permitted(x)
        BY Zenon, <1>1, <1>8 DEF Takes
    <2> QED BY <1>4, <2>1, <2>2, <2>3, FS_AddElement
<1>9. ASSUME NEW u \in Uploads, NEW y \in Users, Gives(u, y)
      PROVE  IsFiniteSet(Permitted(x)') /\ permits'[x] = Cardinality(Permitted(x)')
    <2>1. permits'[x] = IF x = y THEN permits[x] - 1 ELSE permits[x]
        BY Zenon, <1>0, <1>9 DEF Gives
    <2>2. /\ Permitted(x) = {v \in Uploads : UserOn(owner[v]) = x /\ Holds(v)}
          /\ Permitted(x)' = {v \in Uploads : UserOn(owner'[v]) = x /\ Holds(v)'}
        BY Zenon, <1>1, <1>2
    <2>3. \A v \in Uploads : v \in Permitted(x)' <=> v \in Permitted(x) /\ v # u
        BY Zenon, <1>9, <2>2 DEF Gives, Keeps
    <2>4. Permitted(x)' = Permitted(x) \ {u}
        BY Zenon, <2>2, <2>3
    <2>5. u \in Permitted(x) <=> x = y
        BY Zenon, <1>9, <2>2 DEF Gives
    <2>6. /\ IsFiniteSet(Permitted(x) \ {u})
          /\ Cardinality(Permitted(x) \ {u}) =
                 IF u \in Permitted(x) THEN Cardinality(Permitted(x)) - 1
                 ELSE Cardinality(Permitted(x))
        BY ZenonT(20), <1>4, FS_RemoveElement
    <2> QED BY Zenon, <1>4, <2>1, <2>4, <2>5, <2>6
<1> QED BY Zenon, <1>0, <1>5, <1>6, <1>7, <1>8, <1>9 DEF Accounted

\* The permits counted per user are those of the uploads that run or begin,
\* whatever ends an upload, for all constants (UploadPermit's Drop).
THEOREM PermitsAlwaysExact == Spec => []PermitsExact
<1>1. Init => PermitsInv
    <2> SUFFICES ASSUME Init PROVE PermitsInv
        BY Zenon
    <2>1. Readers
        BY Zenon, UploadsAssumption DEF Init, Readers
    <2>2. \A x \in Users : Permitted(x) = {} /\ permits[x] = 0
        BY Zenon DEF Init, Permitted, Alive
    <2>3. permits \in [Users -> Nat]
        BY Zenon DEF Init
    <2> QED BY Zenon, <2>1, <2>2, <2>3, FS_EmptySet DEF PermitsInv
<1>2. PermitsInv => PermitsExact
    BY Zenon DEF PermitsInv, PermitsExact
<1>3. WholeInv /\ PermitsInv /\ [Next]_vars => PermitsInv'
    BY Zenon, PermitsStep
<1> QED BY <1>1, <1>2, <1>3, InitWhole, NextWhole, PTL DEF Spec

=============================================================================

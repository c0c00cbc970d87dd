------------------------------ MODULE Uploads ------------------------------
(***************************************************************************)
(* File uploads of the daemon: the connections' reader tasks that dispatch *)
(* upload messages under the connection's mutex (crates/daemon/src/conn.rs *)
(* and webtransport.rs), one actor task per upload (run_upload), the       *)
(* permits (uploads.rs) and the private directories on disk (upload-store).*)
(*                                                                         *)
(* A handler is cut at its awaits: beginning an upload waits for a         *)
(* blocking worker, passing a command waits for room in the actor's queue, *)
(* both with the mutex held.  Closing a connection cancels its readers at  *)
(* whatever await they have reached.                                       *)
(***************************************************************************)
EXTENDS Naturals, FiniteSets, Sequences

CONSTANTS
    Conns, Users,        \* connections and their users
    Chans,               \* upload channels (streams) of all connections
    UserOf, ConnOf,      \* whose a connection, a channel is
    Uploads, NoUpload,   \* upload ids; none
    MaxPerConn,          \* MAX_UPLOADS_PER_CONNECTION
    MaxPerUser,          \* MAX_UPLOADS_PER_USER
    MaxGlobal,           \* MAX_UPLOADS_GLOBAL
    QueueCap,            \* UPLOAD_COMMAND_QUEUE_MESSAGES
    MaxChunks,           \* bound on a file's chunks
    MaxFaults            \* bound: I/O errors, timeouts, crashes, expiries

ASSUME ChunksAssumption == MaxChunks \in Nat
ASSUME UploadsAssumption ==
    /\ Chans # {} /\ ConnOf \in [Chans -> Conns]
    /\ \A c \in Conns : UserOf[c] \in Users
    /\ NoUpload \notin Uploads
    /\ QueueCap \in Nat /\ MaxFaults \in Nat

VARIABLES
    link,                \* connection: "open", "closing" or "closed"
    reader,              \* channel's reader: where its dispatch is
    todo,                \* the command a reader is passing on
    binding,             \* Conn::uploads: the upload bound to a channel
    permits,             \* Counts::by_user
    actor,               \* upload: where its worker or actor is
    owner,               \* upload: the channel it began on
    queue,               \* upload: commands not yet received
    job,                 \* upload: the chunk being written
    total, digest,       \* upload: declared length and whose digest it declared
    content,             \* upload: the client's chunks written so far
    dir,                 \* upload: its directory
    answer,              \* upload: what the client was told
    faults, crashed

server == <<link, reader, todo, binding>>
file   == <<total, digest, content>>
upload == <<actor, owner, queue, job, file, answer>>
vars   == <<server, permits, upload, dir, faults, crashed>>

NoTodo    == [op |-> "none", upload |-> NoUpload, at |-> 0]
ChansOf(c) == {ch \in Chans : ConnOf[ch] = c}
UserOn(ch) == UserOf[ConnOf[ch]]
Alive(u)  == actor[u] \in {"waiting", "writing", "checking", "linking",
                           "unlinking", "telling"}
\* Who holds the connection's mutex.
Holders(c) == {ch \in ChansOf(c) : reader[ch] \in {"begin", "send"}}
Free(c)   == Holders(c) = {}
Global(f) == LET sum[S \in SUBSET Users] ==
                     IF S = {} THEN 0
                     ELSE LET x == CHOOSE x \in S : TRUE IN f[x] + sum[S \ {x}]
             IN  sum[Users]
Fault     == faults < MaxFaults /\ faults' = faults + 1
Set(f, x, v) == [f EXCEPT ![x] = v]

Init ==
    /\ link = [c \in Conns |-> "open"]
    /\ reader = [ch \in Chans |-> "idle"] /\ todo = [ch \in Chans |-> NoTodo]
    /\ binding = [ch \in Chans |-> NoUpload]
    /\ permits = [x \in Users |-> 0]
    /\ actor = [u \in Uploads |-> "unborn"]
    /\ owner = [u \in Uploads |-> CHOOSE ch \in Chans : TRUE]
    /\ queue = [u \in Uploads |-> <<>>] /\ job = [u \in Uploads |-> 0]
    /\ total = [u \in Uploads |-> 0] /\ digest = [u \in Uploads |-> 0]
    /\ content = [u \in Uploads |-> <<>>]
    /\ dir = [u \in Uploads |-> "none"]
    /\ answer = [u \in Uploads |-> "none"]
    /\ faults = 0 /\ crashed = FALSE
-----------------------------------------------------------------------------
(* Readers: dispatch of one message under the mutex.                       *)

\* dispatch first drops the bindings whose actor has returned.
Pruned(c) ==
    [ch \in Chans |-> IF /\ ConnOf[ch] = c /\ binding[ch] # NoUpload
                         /\ ~Alive(binding[ch])
                      THEN NoUpload ELSE binding[ch]]
Bound(c, b) == {ch \in ChansOf(c) : b[ch] # NoUpload}

CanDispatch(ch) == reader[ch] = "idle" /\ Free(ConnOf[ch])

try_acquire(x) ==
    /\ Global(permits) < MaxGlobal /\ permits[x] < MaxPerUser
    /\ permits' = Set(permits, x, permits[x] + 1)

release(x) == permits' = Set(permits, x, permits[x] - 1)

\* BeginUpload: limits, permit, then the blocking worker, which will draw a
\* fresh id.  A refusal before that changes nothing but the pruned bindings.
\* The client declares n chunks and the digest of a file of d chunks.
BeginUpload(ch, n, d) ==
    LET c == ConnOf[ch]
        b == Pruned(c)
        u == CHOOSE v \in Uploads : actor[v] = "unborn" IN
    /\ CanDispatch(ch) /\ \E v \in Uploads : actor[v] = "unborn"
    /\ b[ch] = NoUpload /\ Cardinality(Bound(c, b)) < MaxPerConn
    /\ try_acquire(UserOn(ch))
    /\ binding' = b
    /\ reader' = Set(reader, ch, "begin")
    /\ todo' = Set(todo, ch, [NoTodo EXCEPT !.op = "begin", !.upload = u])
    /\ actor' = Set(actor, u, "beginning") /\ owner' = Set(owner, u, ch)
    /\ total' = Set(total, u, n) /\ digest' = Set(digest, u, d)
    /\ UNCHANGED <<link, queue, job, content, answer, dir, faults,
                   crashed>>

\* Is a dispatch still waiting for u's worker?
Awaited(u) == reader[owner[u]] = "begin" /\ todo[owner[u]].upload = u

\* The worker makes the directory and the partial file, or fails and leaves
\* nothing.  If nobody waits for it any more the new writer is dropped.
WorkerBegins(u) ==
    /\ actor[u] = "beginning"
    /\ \/ /\ Awaited(u) /\ UNCHANGED faults
          /\ actor' = Set(actor, u, "begun") /\ dir' = Set(dir, u, "partial")
       \/ /\ Awaited(u) /\ Fault
          /\ actor' = Set(actor, u, "refused") /\ UNCHANGED dir
       \/ /\ ~Awaited(u) /\ UNCHANGED faults
          /\ actor' = Set(actor, u, "over") /\ UNCHANGED dir
    /\ UNCHANGED <<server, permits, owner, queue, job, file, answer, crashed>>

\* The dispatch goes on: bind the channel and spawn the actor, or give the
\* permit back.
BeginDone(ch) ==
    LET u == todo[ch].upload IN
    /\ reader[ch] = "begin" /\ actor[u] \in {"begun", "refused"}
    /\ IF actor[u] = "begun"
       THEN /\ binding' = Set(binding, ch, u)
            /\ actor' = Set(actor, u, "waiting")
            /\ UNCHANGED <<permits, answer>>
       ELSE /\ release(UserOn(ch))
            /\ actor' = Set(actor, u, "over")
            /\ answer' = Set(answer, u, "failed")
            /\ UNCHANGED binding
    /\ reader' = Set(reader, ch, "idle") /\ todo' = Set(todo, ch, NoTodo)
    /\ UNCHANGED <<link, owner, queue, job, file, dir, faults, crashed>>

\* UploadChunk, FinishUpload and AbortUpload of the bound upload: the last two
\* unbind it before they wait for the queue.
PassCommand(ch, op, at) ==
    LET b == Pruned(ConnOf[ch]) IN
    /\ CanDispatch(ch) /\ b[ch] # NoUpload
    /\ binding' = IF op = "chunk" THEN b ELSE Set(b, ch, NoUpload)
    /\ reader' = Set(reader, ch, "send")
    /\ todo' = Set(todo, ch, [op |-> op, upload |-> b[ch], at |-> at])
    /\ UNCHANGED <<link, permits, upload, dir, faults, crashed>>

\* A FinishUpload or AbortUpload with a wrong id unbinds, too.
WrongId(ch) ==
    LET b == Pruned(ConnOf[ch]) IN
    /\ CanDispatch(ch) /\ b[ch] # NoUpload
    /\ binding' = Set(b, ch, NoUpload)
    /\ UNCHANGED <<link, reader, todo, permits, upload, dir, faults,
                   crashed>>

\* The actor's queue takes the command.
Send(ch) ==
    LET u == todo[ch].upload IN
    /\ reader[ch] = "send" /\ Alive(u)
    /\ Len(queue[u]) < QueueCap
    /\ queue' = Set(queue, u, Append(queue[u], todo[ch]))
    /\ reader' = Set(reader, ch, "idle") /\ todo' = Set(todo, ch, NoTodo)
    /\ UNCHANGED <<link, binding, permits, actor, owner, job, file,
                   answer, dir, faults, crashed>>

\* The actor has returned meanwhile: dispatch returns false and the reader
\* closes the connection.
SendFails(ch) ==
    LET c == ConnOf[ch] IN
    /\ reader[ch] = "send" /\ ~Alive(todo[ch].upload)
    /\ link' = IF link[c] = "open" THEN Set(link, c, "closing") ELSE link
    /\ reader' = Set(reader, ch, "ending") /\ todo' = Set(todo, ch, NoTodo)
    /\ UNCHANGED <<binding, permits, upload, dir, faults, crashed>>

\* The client ends the stream.
StreamEnds(ch) ==
    /\ reader[ch] = "idle"
    /\ reader' = Set(reader, ch, "ending")
    /\ UNCHANGED <<link, todo, binding, permits, upload, dir, faults,
                   crashed>>

channel_closed(ch) ==
    /\ reader[ch] = "ending" /\ Free(ConnOf[ch])
    /\ binding' = Set(binding, ch, NoUpload)
    /\ reader' = Set(reader, ch, "gone")
    /\ UNCHANGED <<link, todo, permits, upload, dir, faults, crashed>>
-----------------------------------------------------------------------------
(* Closing a connection.                                                   *)

\* The control stream ends or the transport dies.
ConnectionLost(c) ==
    /\ link[c] = "open"
    /\ link' = Set(link, c, "closing")
    /\ UNCHANGED <<reader, todo, binding, permits, upload, dir, faults, crashed>>

\* Mutant of CancelReader: a cancelled begin keeps its permit.
CancelReader_leaks(ch) ==
    LET u == todo[ch].upload IN
    /\ link[ConnOf[ch]] = "closing" /\ reader[ch] # "gone"
    /\ IF reader[ch] = "begin" /\ actor[u] # "beginning"
       THEN actor' = Set(actor, u, "over") /\ dir' = Set(dir, u, "none")
       ELSE UNCHANGED <<actor, dir>>
    /\ reader' = Set(reader, ch, "gone") /\ todo' = Set(todo, ch, NoTodo)
    /\ UNCHANGED <<link, binding, permits, owner, queue, job, file,
                   answer, faults, crashed>>

\* readers.shutdown() drops a reader's future at its await: a begin under way
\* gives its permit back, and what its worker made is dropped.
CancelReader(ch) ==
    LET u == todo[ch].upload IN
    /\ link[ConnOf[ch]] = "closing" /\ reader[ch] # "gone"
    /\ IF reader[ch] = "begin"
       THEN /\ release(UserOn(ch))
            /\ actor' = IF actor[u] = "beginning" THEN actor ELSE Set(actor, u, "over")
            /\ dir' = Set(dir, u, "none")
       ELSE UNCHANGED <<permits, actor, dir>>
    /\ reader' = Set(reader, ch, "gone") /\ todo' = Set(todo, ch, NoTodo)
    /\ UNCHANGED <<link, binding, owner, queue, job, file, answer,
                   faults, crashed>>

\* Mutant of detach_all: the uploads stay bound.
detach_all_but_uploads(c) ==
    /\ link[c] = "closing" /\ \A ch \in ChansOf(c) : reader[ch] = "gone"
    /\ link' = Set(link, c, "closed")
    /\ UNCHANGED <<reader, todo, binding, permits, upload, dir, faults,
                   crashed>>

detach_all(c) ==
    /\ link[c] = "closing" /\ \A ch \in ChansOf(c) : reader[ch] = "gone"
    /\ binding' = [ch \in Chans |-> IF ConnOf[ch] = c THEN NoUpload ELSE binding[ch]]
    /\ link' = Set(link, c, "closed")
    /\ UNCHANGED <<reader, todo, permits, upload, dir, faults, crashed>>
-----------------------------------------------------------------------------
(* run_upload: the actor.                                                  *)

\* Senders: the binding, or a dispatch about to send.
HasSender(u) == \E ch \in Chans : \/ binding[ch] = u
                                  \/ reader[ch] = "send" /\ todo[ch].upload = u

\* It moves to the next state, with nothing else changed ...
Goes(u, to) ==
    /\ actor' = Set(actor, u, to)
    /\ UNCHANGED <<server, permits, owner, answer, crashed>>

\* ... or queues its answer, its receiver still open, before it returns.
Tells(u, what) ==
    /\ actor' = Set(actor, u, "telling") /\ answer' = Set(answer, u, what)
    /\ UNCHANGED <<server, permits, owner, queue, job, file, crashed>>

\* Mutant of Return: an uncommitted writer is forgotten, not dropped.
Return_leaving(u) ==
    /\ actor' = Set(actor, u, "over") /\ queue' = Set(queue, u, <<>>)
    /\ permits' = Set(permits, UserOn(owner[u]), permits[UserOn(owner[u])] - 1)
    /\ UNCHANGED <<server, owner, job, file, answer, dir, faults, crashed>>

\* run_upload returns: receiver closed, permit back; an uncommitted writer is
\* dropped and removes both names and the directory.
Return(u) ==
    /\ actor' = Set(actor, u, "over") /\ queue' = Set(queue, u, <<>>)
    /\ release(UserOn(owner[u]))
    /\ IF dir[u] = "final" THEN UNCHANGED <<file, dir>>
       ELSE /\ dir' = Set(dir, u, "none")
            /\ total' = Set(total, u, 0) /\ digest' = Set(digest, u, 0)
            /\ content' = Set(content, u, <<>>)
    /\ UNCHANGED <<server, owner, job, answer, faults, crashed>>

ActorReturns(u) == actor[u] = "telling" /\ Return(u)

\* Aborted, or nothing queued and every sender gone: no answer.
ActorCancelled(u) ==
    /\ actor[u] = "waiting"
    /\ IF queue[u] = <<>> THEN ~HasSender(u) ELSE Head(queue[u]).op = "abort"
    /\ Return(u)

ActorReceives(u) ==
    /\ actor[u] = "waiting" /\ queue[u] # <<>> /\ Head(queue[u]).op # "abort"
    /\ Goes(u, IF Head(queue[u]).op = "chunk" THEN "writing" ELSE "checking")
    /\ job' = Set(job, u, Head(queue[u]).at)
    /\ queue' = Set(queue, u, Tail(queue[u]))
    /\ UNCHANGED <<file, dir, faults>>

ActorTimesOut(u) ==
    /\ actor[u] = "waiting" /\ queue[u] = <<>> /\ Fault
    /\ Tells(u, "failed") /\ UNCHANGED dir

\* validate_chunk: in order and within the declared length.
ValidChunk(u) == job[u] = Len(content[u]) /\ Len(content[u]) < total[u]

\* write_chunk on a blocking worker.
ActorWrites(u) ==
    /\ actor[u] = "writing"
    /\ \/ /\ ValidChunk(u) /\ Goes(u, "waiting") /\ job' = Set(job, u, 0)
          /\ content' = Set(content, u, Append(content[u], job[u]))
          /\ UNCHANGED <<queue, total, digest, dir, faults>>
       \/ /\ IF ValidChunk(u) THEN Fault ELSE UNCHANGED faults
          /\ Tells(u, "failed") /\ UNCHANGED dir

\* The client's file of n chunks.
Source(n) == [i \in 1..n |-> i - 1]

\* Mutant of Complete: the length is not compared.
Complete_digest_only(u) == content[u] = Source(digest[u])

\* finish_inner's conditions: the declared length and the declared digest.
Complete(u) == Len(content[u]) = total[u] /\ content[u] = Source(digest[u])

\* A failing finish drops the writer on its worker, before the answer.
FinishFails(u) == Tells(u, "failed") /\ dir' = Set(dir, u, "none")

ActorChecks(u) ==
    /\ actor[u] = "checking" /\ UNCHANGED faults
    /\ IF Complete(u)
       THEN Goes(u, "linking") /\ UNCHANGED <<queue, job, file, dir>>
       ELSE FinishFails(u)

\* The final name is linked; only an existing partial name can be ...
ActorLinks(u) ==
    /\ actor[u] = "linking"
    /\ \/ /\ dir[u] = "partial" /\ Goes(u, "unlinking")
          /\ dir' = Set(dir, u, "linked")
          /\ UNCHANGED <<queue, job, file, faults>>
       \/ /\ IF dir[u] = "partial" THEN Fault ELSE UNCHANGED faults
          /\ FinishFails(u)

\* ... and the partial name removed and the directory synced.
ActorCommits(u) ==
    /\ actor[u] = "unlinking"
    /\ \/ /\ dir[u] = "linked" /\ UNCHANGED faults
          /\ Tells(u, "finished") /\ dir' = Set(dir, u, "final")
       \/ /\ IF dir[u] = "linked" THEN Fault ELSE UNCHANGED faults
          /\ FinishFails(u)
-----------------------------------------------------------------------------
(* Retention and crashes.                                                  *)

\* The hourly task removes a directory older than the retention, in use or not.
reap_expired(u) ==
    /\ dir[u] # "none" /\ Fault
    /\ dir' = Set(dir, u, "none")
    /\ UNCHANGED <<server, permits, upload, crashed>>

\* The daemon dies; the disk keeps what it has.
Crash ==
    /\ ~crashed /\ Fault /\ crashed' = TRUE
    /\ link' = [c \in Conns |-> "closed"]
    /\ reader' = [ch \in Chans |-> "gone"] /\ todo' = [ch \in Chans |-> NoTodo]
    /\ binding' = [ch \in Chans |-> NoUpload]
    /\ permits' = [x \in Users |-> 0]
    /\ actor' = [u \in Uploads |-> "over"]
    /\ queue' = [u \in Uploads |-> <<>>]
    /\ UNCHANGED <<owner, job, file, answer, dir>>
-----------------------------------------------------------------------------
Actor(u) ==
    \/ WorkerBegins(u) \/ ActorReceives(u) \/ ActorCancelled(u) \/ ActorWrites(u)
    \/ ActorChecks(u) \/ ActorLinks(u) \/ ActorCommits(u) \/ ActorReturns(u)

Reader(ch) == BeginDone(ch) \/ Send(ch) \/ SendFails(ch) \/ channel_closed(ch)

Closing == \/ \E ch \in Chans : CancelReader(ch)
           \/ \E c \in Conns : detach_all(c)

Client ==
    \/ \E ch \in Chans, n \in 0..MaxChunks : \E d \in 0..n : BeginUpload(ch, n, d)
    \/ \E ch \in Chans, at \in 0..MaxChunks : PassCommand(ch, "chunk", at)
    \/ \E ch \in Chans : \/ PassCommand(ch, "finish", 0)
                         \/ PassCommand(ch, "abort", 0)
                         \/ WrongId(ch) \/ StreamEnds(ch)
    \/ \E c \in Conns : ConnectionLost(c)

Next ==
    \/ Client \/ Closing \/ Crash
    \/ \E ch \in Chans : Reader(ch)
    \/ \E u \in Uploads : Actor(u) \/ ActorTimesOut(u) \/ reap_expired(u)

Spec == Init /\ [][Next]_vars

\* Tasks and blocking workers run on; clients and faults are free.
FairSpec ==
    /\ Spec /\ WF_vars(Closing)
    /\ \A ch \in Chans : WF_vars(Reader(ch))
    /\ \A u \in Uploads : WF_vars(Actor(u))
-----------------------------------------------------------------------------
(* Properties.                                                             *)

Commands == [op : {"none", "begin", "chunk", "finish", "abort"},
             upload : Uploads \cup {NoUpload}, at : Nat]

Stages   == {"unborn", "beginning", "begun", "refused", "waiting", "writing",
             "checking", "linking", "unlinking", "telling", "over"}
Dirs     == {"none", "partial", "linked", "final"}

\* Uploads that hold a permit: a dispatch waits for their worker, or their
\* actor runs.
Permitted(x) ==
    {u \in Uploads : /\ UserOn(owner[u]) = x
                     /\ \/ Alive(u)
                        \/ actor[u] # "unborn" /\ Awaited(u)}

\* The counters are the permits that exist, on every path an upload can end:
\* refusal, finish, abort, failure, time-out, lost connection, a reader
\* cancelled at any await (UploadPermit's Drop).
PermitsExact == \A x \in Users : permits[x] = Cardinality(Permitted(x))

\* A file under its final name is the client's file, whole and in order, also
\* after a crash between any two steps (finish_inner's hard link).
FinalIsWhole ==
    \A u \in Uploads : dir[u] \in {"linked", "final"} =>
        content[u] = Source(total[u])

\* While the daemon lives, an upload that is over left a final file the client
\* was told of, or nothing (UploadWriter's Drop, UploadFinished).
NothingLeftBehind ==
    ~crashed => \A u \in Uploads : actor[u] = "over" =>
        dir[u] = "none" \/ (dir[u] = "final" /\ answer[u] = "finished")

\* A closed connection's permits all come back (detach_all drops the senders).
PermitsReturn ==
    \A c \in Conns : link[c] = "closed" ~>
        \A u \in Uploads : ConnOf[owner[u]] = c => ~Alive(u) \/ crashed

=============================================================================

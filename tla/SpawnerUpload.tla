--------------------------- MODULE SpawnerUpload ---------------------------
(***************************************************************************)
(* An upload across the privilege boundary: the daemon's RemoteUpload      *)
(* (crates/spawner/src/lib.rs, driven by crates/daemon/src/uploads.rs) and *)
(* the helper's receive_upload (bin/holdfast-spawner.rs) with the store's  *)
(* UploadWriter.  Module Uploads has the same writer inside the daemon.    *)
(*                                                                         *)
(* Chunks are not answered: the daemon sends them and learns of a failure  *)
(* when a later send fails, or from the one reply to Finish.               *)
(***************************************************************************)
EXTENDS Naturals, Sequences

CONSTANTS FileChunks,       \* the declared length, in chunks
          UploadFaults      \* bound: failed file operations and deaths

ASSUME FileChunksAssumption == FileChunks \in Nat

VARIABLES
    remote,                 \* the daemon's RemoteUpload
    nextOffset,             \* its next_offset
    receiver,               \* the helper's receive_upload
    uploadDir,              \* "none", "partial", "linked", "owned" (by the account)
    stored,                 \* the chunks written, each the right one or not
    toReceiver, toRemote,   \* the socket
    remoteEnd, receiverEnd,
    finishSent, receiverKilled, uploadFaults

writerVars == <<receiver, uploadDir, stored>>
endVars == <<remoteEnd, receiverEnd>>
remoteVars == <<remote, nextOffset, writerVars, toReceiver, toRemote, endVars,
                finishSent, receiverKilled, uploadFaults>>

Whole == Len(stored) = FileChunks /\ \A i \in 1..Len(stored) : stored[i]
Chunk(at, right) == [op |-> "chunk", at |-> at, right |-> right]
Command(op) == [op |-> op, at |-> 0, right |-> FALSE]

RemoteUploadInit ==
    /\ remote = "idle" /\ nextOffset = 0
    /\ receiver = "idle" /\ uploadDir = "none" /\ stored = <<>>
    /\ toReceiver = <<>> /\ toRemote = <<>> /\ remoteEnd = FALSE /\ receiverEnd = FALSE
    /\ finishSent = FALSE /\ receiverKilled = FALSE /\ uploadFaults = 0

OneMoreFault == uploadFaults < UploadFaults /\ uploadFaults' = uploadFaults + 1
-----------------------------------------------------------------------------
(* The daemon.                                                             *)

begin_upload ==
    /\ remote = "idle" /\ remote' = "asking" /\ remoteEnd' = TRUE
    /\ receiver' = "started" /\ receiverEnd' = TRUE
    /\ UNCHANGED <<nextOffset, uploadDir, stored, toReceiver, toRemote, finishSent,
                   receiverKilled, uploadFaults>>

\* A reply the daemon waits for, or the end of the connection instead.
\* After the last one the socket is dropped.
RemoteHears ==
    /\ remote \in {"asking", "finishing"}
    /\ toRemote # <<>> \/ ~receiverEnd
    /\ LET reply == IF toRemote = <<>> THEN "closed" ELSE Head(toRemote) IN
       /\ remote' = CASE remote = "asking" /\ reply = "ready" -> "open"
                      [] remote = "finishing" /\ reply = "finished" -> "finished"
                      [] OTHER -> "failed"
       /\ remoteEnd' = (remote' = "open")
       /\ toRemote' = IF toRemote = <<>> THEN <<>> ELSE Tail(toRemote)
    /\ UNCHANGED <<nextOffset, writerVars, toReceiver, receiverEnd, finishSent,
                   receiverKilled, uploadFaults>>

\* Dropping a RemoteUpload sends Abort before the socket closes.
Dropped(r) ==
    /\ remote' = r /\ remoteEnd' = FALSE
    /\ toReceiver' = IF receiverEnd THEN Append(toReceiver, Command("abort"))
                     ELSE toReceiver

\* write_wire_chunk with the client's offset.  A wrong offset and a failed
\* send end the upload.
write_wire_chunk(at, right) ==
    /\ remote = "open"
    /\ IF at = nextOffset /\ receiverEnd
       THEN /\ toReceiver' = Append(toReceiver, Chunk(at, right))
            /\ nextOffset' = nextOffset + 1 /\ UNCHANGED <<remote, remoteEnd>>
       ELSE Dropped("failed") /\ UNCHANGED nextOffset
    /\ UNCHANGED <<writerVars, toRemote, receiverEnd, finishSent, receiverKilled,
                   uploadFaults>>

RemoteFinish ==
    /\ remote = "open"
    /\ IF receiverEnd
       THEN /\ toReceiver' = Append(toReceiver, Command("finish"))
            /\ remote' = "finishing" /\ finishSent' = TRUE /\ UNCHANGED remoteEnd
       ELSE remote' = "failed" /\ remoteEnd' = FALSE /\ UNCHANGED <<toReceiver, finishSent>>
    /\ UNCHANGED <<nextOffset, writerVars, toRemote, receiverEnd, receiverKilled,
                   uploadFaults>>

\* abort and drop: the client gave up, or was too slow.
RemoteAbort ==
    /\ remote = "open" /\ Dropped("closed")
    /\ UNCHANGED <<nextOffset, writerVars, toRemote, receiverEnd, finishSent,
                   receiverKilled, uploadFaults>>

RemoteDies ==
    /\ OneMoreFault /\ remote \in {"asking", "open", "finishing"}
    /\ remote' = "dead" /\ remoteEnd' = FALSE
    /\ UNCHANGED <<nextOffset, writerVars, toReceiver, toRemote, receiverEnd,
                   finishSent, receiverKilled>>
-----------------------------------------------------------------------------
(* receive_upload.                                                         *)

Tell(what) == toRemote' = IF remoteEnd THEN Append(toRemote, what) ELSE toRemote
Leave == receiver' = "gone" /\ receiverEnd' = FALSE

\* UploadWriter::drop: an uncommitted upload leaves nothing behind.
DropWriter == uploadDir' = IF uploadDir = "owned" THEN uploadDir ELSE "none"

\* begin and the Ready reply; a failed send drops the writer.
ReceiverBegins ==
    /\ receiver = "started"
    /\ \/ /\ remoteEnd /\ Tell("ready") /\ uploadDir' = "partial"
          /\ receiver' = "receiving" /\ UNCHANGED <<receiverEnd, uploadFaults>>
       \/ /\ ~remoteEnd /\ Leave /\ UNCHANGED <<toRemote, uploadDir, uploadFaults>>
       \/ /\ OneMoreFault /\ Tell("error") /\ Leave /\ UNCHANGED uploadDir
    /\ UNCHANGED <<remote, nextOffset, stored, toReceiver, remoteEnd, finishSent,
                   receiverKilled>>

\* The end of the connection and Abort drop the writer.
ReceiverStops ==
    /\ receiver = "receiving"
    /\ IF toReceiver = <<>> THEN ~remoteEnd ELSE Head(toReceiver).op = "abort"
    /\ toReceiver' = <<>> /\ DropWriter /\ Leave
    /\ UNCHANGED <<remote, nextOffset, stored, toRemote, remoteEnd, finishSent,
                   receiverKilled, uploadFaults>>

\* write_chunk: checked again here, against the declared length as well.
ReceiverWrites ==
    /\ receiver = "receiving" /\ toReceiver # <<>> /\ Head(toReceiver).op = "chunk"
    /\ toReceiver' = Tail(toReceiver)
    /\ \/ /\ Head(toReceiver).at = Len(stored) /\ Len(stored) < FileChunks
          /\ stored' = Append(stored, Head(toReceiver).right)
          /\ UNCHANGED <<receiver, uploadDir, toRemote, receiverEnd, uploadFaults>>
       \/ /\ IF Head(toReceiver).at = Len(stored) /\ Len(stored) < FileChunks
             THEN OneMoreFault ELSE UNCHANGED uploadFaults
          /\ Tell("error") /\ DropWriter /\ Leave /\ UNCHANGED stored
    /\ UNCHANGED <<remote, nextOffset, remoteEnd, finishSent, receiverKilled>>

\* Mutant of ReceiverLinks: the checksum and the length are not looked at.
ReceiverLinks_unchecked ==
    /\ receiver = "receiving" /\ toReceiver # <<>> /\ Head(toReceiver).op = "finish"
    /\ toReceiver' = Tail(toReceiver) /\ uploadDir' = "linked" /\ receiver' = "linked"
    /\ UNCHANGED <<remote, nextOffset, stored, toRemote, endVars, finishSent,
                   receiverKilled, uploadFaults>>
\* Finish: length and checksum, then the final name beside the partial one.
ReceiverLinks ==
    /\ receiver = "receiving" /\ toReceiver # <<>> /\ Head(toReceiver).op = "finish"
    /\ toReceiver' = Tail(toReceiver)
    /\ \/ /\ Whole /\ uploadDir' = "linked" /\ receiver' = "linked"
          /\ UNCHANGED <<toRemote, receiverEnd, uploadFaults>>
       \/ /\ IF Whole THEN OneMoreFault ELSE UNCHANGED uploadFaults
          /\ Tell("error") /\ DropWriter /\ Leave
    /\ UNCHANGED <<remote, nextOffset, stored, remoteEnd, finishSent, receiverKilled>>

\* The ownership changes, the directory last, and the reply.
ReceiverCommits ==
    /\ receiver = "linked"
    /\ \/ uploadDir' = "owned" /\ Tell("finished") /\ UNCHANGED uploadFaults
       \/ OneMoreFault /\ DropWriter /\ Tell("error")
    /\ Leave
    /\ UNCHANGED <<remote, nextOffset, stored, toReceiver, remoteEnd, finishSent,
                   receiverKilled>>

\* Killed: nothing is cleaned up; the system's tmpfiles rule removes it later.
ReceiverKilled ==
    /\ OneMoreFault /\ receiver \in {"started", "receiving", "linked"}
    /\ Leave /\ receiverKilled' = TRUE
    /\ UNCHANGED <<remote, nextOffset, uploadDir, stored, toReceiver, toRemote,
                   remoteEnd, finishSent>>
-----------------------------------------------------------------------------
ReceiverStep == ReceiverBegins \/ ReceiverStops \/ ReceiverWrites \/ ReceiverLinks
                   \/ ReceiverCommits

RemoteUploadNext ==
    \/ begin_upload \/ RemoteHears \/ RemoteFinish \/ RemoteAbort \/ RemoteDies
    \/ \E at \in 0..FileChunks, right \in BOOLEAN : write_wire_chunk(at, right)
    \/ ReceiverStep \/ ReceiverKilled

RemoteUploadSpec == RemoteUploadInit /\ [][RemoteUploadNext]_remoteVars
-----------------------------------------------------------------------------
\* Types; the store never holds more than was declared.
RemoteUploadTypeOK ==
    /\ remote \in {"idle", "asking", "open", "finishing", "finished", "failed",
                   "closed", "dead"}
    /\ receiver \in {"idle", "started", "receiving", "linked", "gone"}
    /\ nextOffset \in 0..(FileChunks + 1) /\ Len(stored) \in 0..FileChunks
    /\ uploadDir \in {"none", "partial", "linked", "owned"}

\* A file handed to the account is complete and was asked for; one the client
\* is told of is there (RemoteUpload::finish, finish_as).
OwnedIsWhole == /\ uploadDir = "owned" => Whole /\ finishSent
                /\ remote = "finished" => uploadDir = "owned"

\* A helper that ended by itself left a committed upload or nothing, wherever
\* the exchange broke off.
NoDebris == receiver = "gone" /\ ~receiverKilled => uploadDir \in {"none", "owned"}

=============================================================================

--------------------------- MODULE SessionProofs ----------------------------
(***************************************************************************)
(* The shell manager, for every value of its constants: type correctness,  *)
(* safety, and that it implements ShellService; and of the attachments of  *)
(* a shell that snapshot plus stream is the whole output (StreamExact), the*)
(* limits of shells, attachments and queues are kept (CapsHold), and the   *)
(* reaper kills no attachment that was there when it looked                *)
(* (ReapSparesAttached).                                                   *)
(*                                                                         *)
(* Each group of variables is changed by a few actions only.  A frame      *)
(* lemma per group names them, so that the proof that an invariant is      *)
(* preserved has one step for each action that can disturb it.             *)
(***************************************************************************)
EXTENDS SessionRefinement, FiniteSetTheorems, TLAPS
-----------------------------------------------------------------------------
(* Facts about sequences.  They are stated here because SequenceTheorems   *)
(* would put all of its facts into the context of every obligation.        *)

\* What a sequence's length and domain are.
LEMMA LenProperties ==
    ASSUME NEW S, NEW q \in Seq(S)
    PROVE  Len(q) \in Nat /\ q \in [1 .. Len(q) -> S] /\ DOMAIN q = 1 .. Len(q)
  OBVIOUS

\* What Append gives.
LEMMA AppendProperties ==
    ASSUME NEW S, NEW q \in Seq(S), NEW e \in S
    PROVE  /\ Append(q, e) \in Seq(S) /\ Append(q, e) # <<>>
           /\ Len(Append(q, e)) = Len(q) + 1
           /\ \A i \in 1 .. Len(q) : Append(q, e)[i] = q[i]
           /\ Append(q, e)[Len(q) + 1] = e
  OBVIOUS

\* r is q with e at its end.
Extended(r, q, e) == /\ r # <<>> /\ Len(r) = Len(q) + 1
                     /\ r[Len(q) + 1] = e /\ \A i \in 1 .. Len(q) : r[i] = q[i]

\* Append extends a sequence by one element.
LEMMA Appended ==
    ASSUME NEW S, NEW q \in Seq(S), NEW e \in S
    PROVE  Append(q, e) \in Seq(S) /\ Extended(Append(q, e), q, e)
  BY DEF Extended

\* The length of a queue after one more event.
LEMMA AppendLength ==
    ASSUME NEW q \in Seq(Nat), NEW e \in Nat
    PROVE  Len(Append(q, e)) = Len(q) + 1 /\ Len(q) \in Nat
  OBVIOUS

\* What Head and Tail of a sequence that is not empty are.
LEMMA HeadTailProperties ==
    ASSUME NEW S, NEW q \in Seq(S), q # <<>>
    PROVE  /\ Head(q) \in S /\ Tail(q) \in Seq(S) /\ Len(Tail(q)) = Len(q) - 1
           /\ \A i \in 1 .. Len(Tail(q)) : Tail(q)[i] = q[i + 1]
  OBVIOUS

\* Replacing an element of a sequence gives a sequence.
LEMMA ExceptSeq ==
    ASSUME NEW S, NEW q \in Seq(S), NEW i \in 1 .. Len(q), NEW e \in S
    PROVE  /\ [q EXCEPT ![i] = e] \in Seq(S) /\ Len([q EXCEPT ![i] = e]) = Len(q)
           /\ \A j \in 1 .. Len(q) : [q EXCEPT ![i] = e][j] = IF j = i THEN e ELSE q[j]
  OBVIOUS

\* The empty sequence, and the length of one that is not empty.
LEMMA EmptySeq ==
    ASSUME NEW S
    PROVE  /\ <<>> \in Seq(S) /\ Len(<<>>) = 0
           /\ \A q \in Seq(S) : q # <<>> => Len(q) \in Nat \ {0}
  OBVIOUS

-----------------------------------------------------------------------------
USE SessionAssumption
-----------------------------------------------------------------------------
(* Frames.                                                                 *)

\* The registry changes only when a shell is opened or removed.
LEMMA RegistryFrame ==
    ASSUME [Next]_vars
    PROVE  \/ \E u \in Users, k \in Keys, s \in ShellIds, d \in Dims :
                  OpenNew(u, k, s, d)
           \/ \E s \in ShellIds : RemoveExited(s)
           \/ UNCHANGED registry
 <1>1. CASE Client
   BY ZenonT(20), <1>1 DEF Client, OpenReused, Attach, AttachAuthorized, attach_runtime,
               Detach, Resize, DropReceiver, Terminate, BeginTerminate
 <1>2. CASE Consumer
   BY Zenon, <1>2 DEF Consumer, Recv, RecvDisconnect
 <1>3. CASE Reap
   BY Zenon, <1>3 DEF Reap, ReapScan, ReapRecheck, ReapTerminate, ReapGone, ReapNext,
               ReapDone, reaperOnly, BeginTerminate, EndTerminate
 <1>4. CASE Environment
   BY Zenon, <1>4 DEF Environment, ChildExits, TtyCloses, PumpWaitFails, RecordExit, Tick
 <1>5. ASSUME NEW s \in ShellIds, Pump(s) PROVE UNCHANGED registry
   BY Zenon, <1>5 DEF Pump, PumpChunk, PumpEof, PumpReaped, RecordExit
 <1>6. ASSUME NEW c \in Callers, TerminateReturns(c) PROVE UNCHANGED registry
   BY Zenon, <1>6 DEF TerminateReturns, EndTerminate
 <1>7. CASE UNCHANGED vars
   BY Zenon, <1>7 DEF vars
 <1> QED
   BY Zenon, <1>1, <1>2, <1>3, <1>4, <1>5, <1>6, <1>7 DEF Next

\* Tokens change only by rotation, of a registered shell, and at birth.
LEMMA TokenFrame ==
    ASSUME [Next]_vars
    PROVE  \/ \E s \in shells : rotate_token(s) /\ UNCHANGED <<shells, state>>
           \/ \E u \in Users, k \in Keys, s \in ShellIds, d \in Dims :
                  OpenNew(u, k, s, d)
           \/ UNCHANGED tokens
 <1>1. CASE Client
   BY ZenonT(20), <1>1 DEF Client, OpenReused, Attach, AttachAuthorized, attach_runtime,
               Detach, Resize, DropReceiver, Terminate, BeginTerminate,
               RemoveExited, registry
 <1>2. CASE Consumer
   BY Zenon, <1>2 DEF Consumer, Recv, RecvDisconnect
 <1>3. CASE Reap
   BY Zenon, <1>3 DEF Reap, ReapScan, ReapRecheck, ReapTerminate, ReapGone, ReapNext,
               ReapDone, reaperOnly, BeginTerminate, EndTerminate
 <1>4. CASE Environment
   BY Zenon, <1>4 DEF Environment, ChildExits, TtyCloses, PumpWaitFails, RecordExit, Tick
 <1>5. ASSUME NEW s \in ShellIds, Pump(s) PROVE UNCHANGED tokens
   BY Zenon, <1>5 DEF Pump, PumpChunk, PumpEof, PumpReaped, RecordExit
 <1>6. ASSUME NEW c \in Callers, TerminateReturns(c) PROVE UNCHANGED tokens
   BY Zenon, <1>6 DEF TerminateReturns, EndTerminate
 <1>7. CASE UNCHANGED vars
   BY Zenon, <1>7 DEF vars
 <1> QED
   BY Zenon, <1>1, <1>2, <1>3, <1>4, <1>5, <1>6, <1>7 DEF Next

\* state, pty and exit change at birth, in the pump's EOF path and in the two
\* halves of terminate.
LEMMA RuntimeFrame ==
    ASSUME [Next]_vars
    PROVE  \/ \E u \in Users, k \in Keys, s \in ShellIds, d \in Dims :
                  OpenNew(u, k, s, d)
           \/ \E s \in ShellIds : PumpEof(s) \/ RecordExit(s)
           \/ \E c \in Threads, s \in shells : BeginTerminate(c, s)
           \/ \E c \in Threads : EndTerminate(c)
           \/ UNCHANGED <<state, pty, exit>>
 <1>1. CASE Client
   BY ZenonT(60), <1>1 DEF Client, OpenReused, Attach, AttachAuthorized, attach_runtime,
               Detach, Resize, DropReceiver, Terminate, BeginTerminate,
               RemoveExited, Threads
 <1>2. CASE Consumer
   BY <1>2 DEF Consumer, Recv, RecvDisconnect
 <1>3. CASE Reap
   <2>1. CASE ReapTerminate
     BY ZenonT(20), <2>1 DEF ReapTerminate, BeginTerminate, Threads
   <2>2. CASE ReapNext
     BY Zenon, <2>2 DEF ReapNext, Threads
   <2> QED
     BY Zenon, <1>3, <2>1, <2>2 DEF Reap, ReapScan, ReapRecheck, ReapGone, ReapDone, reaperOnly
 <1>4. CASE Environment
   BY Zenon, <1>4 DEF Environment, ChildExits, TtyCloses, PumpWaitFails, Tick
 <1>5. ASSUME NEW s \in ShellIds, Pump(s)
       PROVE  PumpEof(s) \/ RecordExit(s) \/ UNCHANGED <<state, pty, exit>>
   BY Zenon, <1>5 DEF Pump, PumpChunk, PumpReaped
 <1>6. ASSUME NEW c \in Callers, TerminateReturns(c) PROVE EndTerminate(c)
   BY Zenon, <1>6 DEF TerminateReturns
 <1>7. CASE UNCHANGED vars
   BY Zenon, <1>7 DEF vars
 <1> QED
   BY Zenon, <1>1, <1>2, <1>3, <1>4, <1>5, <1>6, <1>7 DEF Next, Threads

\* Streams change when an attachment is made, closed, fed, drained or read.
LEMMA StreamFrame ==
    ASSUME [Next]_vars
    PROVE  \/ \E s \in ShellIds, d \in Dims : s \in shells /\ ~Locked(s) /\ attach_runtime(s, d)
           \/ \E s \in ShellIds, a \in 1..MaxTokens :
                  Detach(s, a) \/ DropReceiver(s, a) \/ Recv(s, a) \/ RecvDisconnect(s, a)
           \/ \E s \in ShellIds : PumpChunk(s) \/ RecordExit(s)
           \/ UNCHANGED <<chan, fed, exit>>
 <1>1. CASE Client
   <2>1. ASSUME NEW u \in Users, NEW s \in ShellIds, NEW t \in 1..MaxTokens,
                NEW d \in Dims, Attach(u, s, t, d)
         PROVE  s \in shells /\ ~Locked(s) /\ attach_runtime(s, d)
     BY Zenon, <2>1 DEF Attach
   <2>2. ASSUME NEW u \in Users, NEW s \in ShellIds,
                NEW d \in Dims, AttachAuthorized(u, s, d)
         PROVE  s \in shells /\ ~Locked(s) /\ attach_runtime(s, d)
     BY Zenon, <2>2 DEF AttachAuthorized
   <2>3. ASSUME NEW u \in Users, NEW k \in Keys, NEW s \in ShellIds, NEW d \in Dims,
                OpenNew(u, k, s, d)
         PROVE  UNCHANGED <<chan, fed, exit>>
     BY Zenon, <2>3 DEF OpenNew
   <2>4. ASSUME NEW s \in ShellIds, NEW d \in Dims, Resize(s, d)
         PROVE  UNCHANGED <<chan, fed, exit>>
     BY Zenon, <2>4 DEF Resize
   <2> QED
     BY ZenonT(20), <1>1, <2>1, <2>2, <2>3, <2>4
     DEF Client, OpenReused, Terminate, BeginTerminate, RemoveExited
 <1>2. CASE Consumer
   BY Zenon, <1>2 DEF Consumer
 <1>3. CASE Reap
   BY Zenon, <1>3 DEF Reap, ReapScan, ReapRecheck, ReapTerminate, ReapGone, ReapNext,
               ReapDone, reaperOnly, BeginTerminate, EndTerminate
 <1>4. CASE Environment
   BY Zenon, <1>4 DEF Environment, ChildExits, TtyCloses, PumpWaitFails, Tick
 <1>5. ASSUME NEW s \in ShellIds, Pump(s)
       PROVE  PumpChunk(s) \/ RecordExit(s) \/ UNCHANGED <<chan, fed, exit>>
   BY Zenon, <1>5 DEF Pump, PumpEof, PumpReaped
 <1>6. ASSUME NEW c \in Callers, TerminateReturns(c) PROVE UNCHANGED <<chan, fed, exit>>
   BY Zenon, <1>6 DEF TerminateReturns, EndTerminate
 <1>7. CASE UNCHANGED vars
   BY Zenon, <1>7 DEF vars
 <1> QED
   BY Zenon, <1>1, <1>2, <1>3, <1>4, <1>5, <1>6, <1>7 DEF Next

\* Sizes change at birth, at attach and at resize.
LEMMA SizeFrame ==
    ASSUME [Next]_vars
    PROVE  \/ \E u \in Users, k \in Keys, s \in ShellIds, d \in Dims :
                  OpenNew(u, k, s, d)
           \/ \E s \in ShellIds, d \in Dims :
                  ~Locked(s) /\ (attach_runtime(s, d) \/ Resize(s, d))
           \/ UNCHANGED sizes
 <1>1. CASE Client
   BY ZenonT(20), <1>1 DEF Client, OpenReused, Attach, AttachAuthorized, Detach, Resize,
               DropReceiver, Terminate, BeginTerminate, RemoveExited
 <1>2. CASE Consumer
   BY ZenonT(40), <1>2 DEF Consumer, Recv, RecvDisconnect
 <1>3. CASE Reap
   BY Zenon, <1>3 DEF Reap, ReapScan, ReapRecheck, ReapTerminate, ReapGone, ReapNext,
               ReapDone, reaperOnly, BeginTerminate, EndTerminate
 <1>4. CASE Environment
   BY Zenon, <1>4 DEF Environment, ChildExits, TtyCloses, PumpWaitFails, RecordExit, Tick
 <1>5. ASSUME NEW s \in ShellIds, Pump(s) PROVE UNCHANGED sizes
   BY Zenon, <1>5 DEF Pump, PumpChunk, PumpEof, PumpReaped, RecordExit
 <1>6. ASSUME NEW c \in Callers, TerminateReturns(c) PROVE UNCHANGED sizes
   BY Zenon, <1>6 DEF TerminateReturns, EndTerminate
 <1>7. CASE UNCHANGED vars
   BY Zenon, <1>7 DEF vars
 <1> QED
   BY Zenon, <1>1, <1>2, <1>3, <1>4, <1>5, <1>6, <1>7 DEF Next
-----------------------------------------------------------------------------
(* Type correctness, part by part.                                         *)

\* Applying a function to every element of a sequence, as pump does to the
\* attachments, gives a sequence.
LEMMA MapSeq ==
    ASSUME NEW S, NEW T, NEW q \in Seq(S), NEW f \in [DOMAIN q -> T]
    PROVE  f \in Seq(T) /\ Len(f) = Len(q)
  OBVIOUS

\* Replacing one element of a sequence, as detach does, gives a sequence.
LEMMA SetSeq ==
    ASSUME NEW T, NEW q \in Seq(T), NEW a \in DOMAIN q, NEW c \in T
    PROVE  [q EXCEPT ![a] = c] \in Seq(T)
  <1>1. a \in 1 .. Len(q)
    BY Zenon, LenProperties
  <1> QED BY Zenon, <1>1, ExceptSeq

\* Replacing one shell's sequence leaves sequences.
LEMMA SetField ==
    ASSUME NEW S, NEW T, NEW f \in [S -> T], NEW s \in S, NEW v \in T
    PROVE  [f EXCEPT ![s] = v] \in [S -> T]
  BY Zenon

\* pump's try_send leaves a well-formed channel.
LEMMA DeliverType ==
    ASSUME NEW c \in Channel, NEW n \in Nat
    PROVE  Deliver(c, n) \in Channel
 <1>1. [c EXCEPT !.q = Append(@, n)] \in Channel
   <2>1. Append(c.q, n) \in Seq(Nat)
     BY DEF Channel
   <2> QED
     BY ZenonT(20), <2>1 DEF Channel
 <1>2. [c EXCEPT !.open = FALSE] \in Channel
   BY ZenonT(20) DEF Channel
 <1> QED
   BY Zenon, <1>1, <1>2 DEF Deliver

\* pump's drain leaves a well-formed channel.
LEMMA DrainType ==
    ASSUME NEW c \in Channel
    PROVE  Drain(c) \in Channel
 <1>1. [c EXCEPT !.q = Append(@, Exited), !.open = FALSE] \in Channel
   <2>1. Append(c.q, Exited) \in Seq(Nat)
     BY DEF Channel, Exited
   <2> QED
     BY ZenonT(20), <2>1 DEF Channel
 <1>2. [c EXCEPT !.open = FALSE] \in Channel
   BY ZenonT(20) DEF Channel
 <1> QED
   BY Zenon, <1>1, <1>2 DEF Drain

\* clamp_dims returns dimensions, and never smaller ones than the floor.
LEMMA ClampType ==
    ASSUME NEW d \in Nat \X Nat
    PROVE  /\ Clamp(d) \in Nat \X Nat
           /\ Clamp(d)[1] >= MinDims[1] /\ Clamp(d)[2] >= MinDims[2]
  BY DEF Clamp

\* open_shell's initial size is a size, at least the floor.
LEMMA InitialSizeType ==
    ASSUME NEW d \in Nat \X Nat
    PROVE  /\ InitialSize(d) \in Nat \X Nat
           /\ InitialSize(d)[1] >= MinDims[1] /\ InitialSize(d)[2] >= MinDims[2]
  BY Zenon, ClampType DEF InitialSize

\* What a client asks for is a pair of numbers.
LEMMA DimsType == \A d \in Dims : d \in Nat \X Nat
  BY ZenonT(20) DEF Dims

\* The manager starts well-typed (ShellManager::with_policy).
LEMMA InitType == Init => TypeOK
  BY DEF Init, TypeOK, RegistryOK, RuntimeOK, TokensOK, StreamsOK, SizesOK,
         ProcessOK, ThreadsOK, ClocksOK, Threads, States

\* Opens and removals keep the registry well-typed.
LEMMA RegistryType == RegistryOK /\ [Next]_vars => RegistryOK'
 <1> SUFFICES ASSUME RegistryOK, [Next]_vars PROVE RegistryOK'
   BY Zenon
 <1> USE DEF RegistryOK, registry
 <1>1. ASSUME NEW u \in Users, NEW k \in Keys, NEW s \in ShellIds, NEW d \in Dims,
              OpenNew(u, k, s, d)
       PROVE  RegistryOK'
   BY Zenon, <1>1 DEF OpenNew
 <1>2. ASSUME NEW s \in ShellIds, RemoveExited(s) PROVE RegistryOK'
   BY Zenon, <1>2 DEF RemoveExited
 <1>3. CASE UNCHANGED registry
   BY Zenon, <1>3
 <1> QED
   BY Zenon, <1>1, <1>2, <1>3, RegistryFrame

\* Opens, the pump and terminate keep state, PTY and exit well-typed.
LEMMA RuntimeType == RuntimeOK /\ RegistryOK /\ ThreadsOK /\ [Next]_vars => RuntimeOK'
 <1> SUFFICES ASSUME RuntimeOK, RegistryOK, ThreadsOK, [Next]_vars PROVE RuntimeOK'
   BY Zenon
 <1> USE DEF RuntimeOK, States
 <1>1. ASSUME NEW u \in Users, NEW k \in Keys, NEW s \in ShellIds, NEW d \in Dims,
              OpenNew(u, k, s, d)
       PROVE  RuntimeOK'
   BY Zenon, <1>1 DEF OpenNew
 <1>2. ASSUME NEW s \in ShellIds, PumpEof(s) \/ RecordExit(s) PROVE RuntimeOK'
   BY ZenonT(20), <1>2 DEF PumpEof, RecordExit
 <1>3. ASSUME NEW c \in Threads, NEW s \in shells, BeginTerminate(c, s) PROVE RuntimeOK'
   BY ZenonT(20), <1>3 DEF BeginTerminate
 <1>4. ASSUME NEW c \in Threads, EndTerminate(c) PROVE RuntimeOK'
   BY ZenonT(20), <1>4 DEF EndTerminate
 <1>5. CASE UNCHANGED <<state, pty, exit>>
   BY Zenon, <1>5
 <1> QED
   BY Zenon, <1>1, <1>2, <1>3, <1>4, <1>5, RuntimeFrame

\* rotate_token keeps the ring within SUPERSEDED_TOKEN_HISTORY.
LEMMA RotateType ==
    ASSUME TokensOK, NEW s \in ShellIds, rotate_token(s)
    PROVE  TokensOK'
 <1> DEFINE kept == IF Len(superseded[s]) = SupersededHistory
                    THEN Tail(superseded[s]) ELSE superseded[s]
 <1>1. superseded[s] \in Seq(Nat) /\ token[s] \in Nat
        /\ Len(superseded[s]) <= SupersededHistory
   BY Zenon DEF TokensOK
 <1>2. kept \in Seq(Nat) /\ Len(kept) < SupersededHistory
   BY <1>1
 <1>3. /\ Append(kept, token[s]) \in Seq(Nat)
       /\ Len(Append(kept, token[s])) <= SupersededHistory
   BY SMTT(20), <1>1, <1>2
 <1>4. superseded' = [superseded EXCEPT ![s] = Append(kept, token[s])]
   BY Zenon DEF rotate_token
 <1>5. token' \in [ShellIds -> Nat]
   BY SMTT(20), <1>1 DEF TokensOK, rotate_token
 <1> DEFINE new == Append(kept, token[s])
 <1>6. superseded \in [ShellIds -> Seq(Nat)]
       /\ \A r \in ShellIds : Len(superseded[r]) <= SupersededHistory
   BY Zenon DEF TokensOK
 <1>7. new \in Seq(Nat) /\ Len(new) <= SupersededHistory
       /\ superseded' = [superseded EXCEPT ![s] = new]
   BY Zenon, <1>3, <1>4
 <1> HIDE DEF new, kept
 <1>8. superseded' \in [ShellIds -> Seq(Nat)]
   BY Zenon, <1>6, <1>7
 <1>9. \A r \in ShellIds : Len(superseded'[r]) <= SupersededHistory
   BY Zenon, <1>6, <1>7
 <1> QED
   BY Zenon, <1>5, <1>8, <1>9 DEF TokensOK

\* Tokens and rings keep their type and bound in every step.
LEMMA TokenType == TokensOK /\ RegistryOK /\ [Next]_vars => TokensOK'
 <1> SUFFICES ASSUME TokensOK, RegistryOK, [Next]_vars PROVE TokensOK'
   BY Zenon
 <1>1. ASSUME NEW s \in shells, rotate_token(s) PROVE TokensOK'
   BY Zenon, <1>1, RotateType DEF RegistryOK
 <1>2. ASSUME NEW u \in Users, NEW k \in Keys, NEW s \in ShellIds, NEW d \in Dims,
              OpenNew(u, k, s, d)
       PROVE  TokensOK'
   BY Zenon, <1>2 DEF OpenNew, TokensOK
 <1>3. CASE UNCHANGED tokens
   BY Zenon, <1>3 DEF tokens, TokensOK
 <1> QED
   BY Zenon, <1>1, <1>2, <1>3, TokenFrame

\* Channels stay sequences of well-formed channels in every step.
LEMMA StreamType == StreamsOK /\ [Next]_vars => StreamsOK'
 <1> SUFFICES ASSUME StreamsOK, [Next]_vars PROVE StreamsOK'
   BY Zenon
 <1> USE DEF StreamsOK
 <1>1. ASSUME NEW s \in ShellIds, NEW d \in Dims, attach_runtime(s, d) PROVE StreamsOK'
   <2>1. NewChannel(s) \in Channel
     BY DEF NewChannel, Channel
   <2>2. chan[s] \in Seq(Channel)
     BY Zenon
   <2>3. Append(chan[s], NewChannel(s)) \in Seq(Channel)
     BY Zenon, <2>1, <2>2, AppendProperties
   <2>4. chan' = [chan EXCEPT ![s] = Append(chan[s], NewChannel(s))] /\ UNCHANGED fed
     BY Zenon, <1>1 DEF attach_runtime
   <2> QED
     BY Zenon, <2>3, <2>4, SetField
 <1>2. ASSUME NEW s \in ShellIds, NEW a \in DOMAIN chan[s], NEW c \in Channel,
              chan' = [chan EXCEPT ![s] = [@ EXCEPT ![a] = c]], UNCHANGED fed
       PROVE  StreamsOK'
   <2>1. chan[s] \in Seq(Channel)
     BY Zenon
   <2> DEFINE r == [chan[s] EXCEPT ![a] = c]
   <2>2. r \in Seq(Channel)
     BY Zenon, <2>1, SetSeq
   <2>3. chan' = [chan EXCEPT ![s] = r]
     BY Zenon, <1>2
   <2> HIDE DEF r
   <2>4. [chan EXCEPT ![s] = r] \in [ShellIds -> Seq(Channel)]
     BY Zenon, <2>2, SetField
   <2>5. fed' \in [ShellIds -> Nat]
     BY Zenon, <1>2
   <2> QED
     BY Zenon, <2>3, <2>4, <2>5
 <1>3. ASSUME NEW s \in ShellIds, NEW a \in 1..MaxTokens,
              Detach(s, a) \/ DropReceiver(s, a) \/ Recv(s, a) \/ RecvDisconnect(s, a)
       PROVE  StreamsOK'
   <2>1. a \in DOMAIN chan[s]
     BY Zenon, <1>3 DEF Detach, DropReceiver, Recv, RecvDisconnect, Attachments
   <2> DEFINE c == chan[s][a]
   <2>2. c \in Channel
     BY SMTT(20), <2>1
   <2>3. CASE Detach(s, a)
     <3>1. [c EXCEPT !.open = FALSE] \in Channel
       BY ZenonT(20), <2>2 DEF Channel
     <3> QED
       BY ZenonT(20), <1>2, <2>1, <2>3, <3>1 DEF Detach
   <2>4. CASE DropReceiver(s, a)
     <3>1. [c EXCEPT !.live = FALSE] \in Channel
       BY ZenonT(20), <2>2 DEF Channel
     <3> QED
       BY ZenonT(20), <1>2, <2>1, <2>4, <3>1 DEF DropReceiver
   <2>5. CASE Recv(s, a)
     <3>1. c.q \in Seq(Nat) /\ c.q # <<>>
       BY Zenon, <2>2, <2>5 DEF Channel, Recv
     <3> HIDE DEF c
     <3>2. Tail(c.q) \in Seq(Nat) /\ Head(c.q) \in Nat
       BY Zenon, <3>1, HeadTailProperties
     <3> USE DEF c
     <3>3. [c EXCEPT !.q = Tail(@), !.live = FALSE, !.saw = "exited"] \in Channel
       BY ZenonT(20), <2>2, <3>2 DEF Channel
     <3>4. [c EXCEPT !.q = Tail(@), !.got = Head(c.q)] \in Channel
       BY ZenonT(20), <2>2, <3>2 DEF Channel
     <3> QED
       BY ZenonT(20), <1>2, <2>1, <2>5, <3>3, <3>4 DEF Recv
   <2>6. CASE RecvDisconnect(s, a)
     <3>1. [c EXCEPT !.live = FALSE, !.saw = "disconnect"] \in Channel
       BY ZenonT(20), <2>2 DEF Channel
     <3> QED
       BY ZenonT(20), <1>2, <2>1, <2>6, <3>1 DEF RecvDisconnect
   <2> QED
     BY Zenon, <1>3, <2>3, <2>4, <2>5, <2>6
 <1>4. ASSUME NEW s \in ShellIds, PumpChunk(s) PROVE StreamsOK'
   <2>1. fed[s] + 1 \in Nat
     OBVIOUS
   <2>2. [a \in DOMAIN chan[s] |-> Deliver(chan[s][a], fed[s] + 1)]
             \in [DOMAIN chan[s] -> Channel]
     BY <2>1, DeliverType
   <2>3. [a \in DOMAIN chan[s] |-> Deliver(chan[s][a], fed[s] + 1)] \in Seq(Channel)
     BY ZenonT(40), <2>2, MapSeq
   <2> QED
     BY ZenonT(20), <1>4, <2>1, <2>3 DEF PumpChunk
 <1>5. ASSUME NEW s \in ShellIds, RecordExit(s) PROVE StreamsOK'
   <2>1. [a \in DOMAIN chan[s] |-> Drain(chan[s][a])] \in [DOMAIN chan[s] -> Channel]
     BY DrainType
   <2>2. [a \in DOMAIN chan[s] |-> Drain(chan[s][a])] \in Seq(Channel)
     BY <2>1, MapSeq
   <2> QED
     BY ZenonT(20), <1>5, <2>2 DEF RecordExit
 <1>6. CASE UNCHANGED <<chan, fed, exit>>
   BY Zenon, <1>6
 <1> QED
   BY Zenon, <1>1, <1>3, <1>4, <1>5, <1>6, StreamFrame

\* Window and model sizes stay pairs of numbers (open, attach, resize).
LEMMA SizeType == SizesOK /\ [Next]_vars => SizesOK'
 <1> SUFFICES ASSUME SizesOK, [Next]_vars PROVE SizesOK'
   BY Zenon
 <1> USE DEF SizesOK, sizes
 <1>1. ASSUME NEW u \in Users, NEW k \in Keys, NEW s \in ShellIds, NEW d \in Dims,
              OpenNew(u, k, s, d)
       PROVE  SizesOK'
   BY Zenon, <1>1, InitialSizeType, DimsType DEF OpenNew
 <1>2. ASSUME NEW s \in ShellIds, NEW d \in Dims, attach_runtime(s, d) PROVE SizesOK'
   <2>1. Clamp(d) \in Nat \X Nat
     BY Zenon, ClampType, DimsType
   <2>2. CASE UNCHANGED sizes
     BY Zenon, <2>2
   <2>3. CASE modelSize' = [modelSize EXCEPT ![s] = Clamp(d)]
              /\ ptySize' = [ptySize EXCEPT ![s] = IF pty[s] THEN Clamp(d) ELSE @]
     BY Zenon, <2>1, <2>3
   <2> QED
     BY ZenonT(20), <1>2, <2>2, <2>3 DEF attach_runtime
 <1>3. ASSUME NEW s \in ShellIds, NEW d \in Dims, Resize(s, d) PROVE SizesOK'
   BY Zenon, <1>3, ClampType, DimsType DEF Resize
 <1>4. CASE UNCHANGED sizes
   BY Zenon, <1>4
 <1> QED
   BY Zenon, <1>1, <1>2, <1>3, <1>4, SizeFrame

\* Processes stay alive or dead, terminals open or closed.
LEMMA ProcessType == ProcessOK /\ [Next]_vars => ProcessOK'
 <1> SUFFICES ASSUME ProcessOK, [Next]_vars PROVE ProcessOK'
   BY Zenon
 <1> USE DEF ProcessOK, process
 <1>1. ASSUME NEW u \in Users, NEW k \in Keys, NEW s \in ShellIds, NEW d \in Dims,
              OpenNew(u, k, s, d)
       PROVE  ProcessOK'
   BY Zenon, <1>1 DEF OpenNew
 <1>2. ASSUME NEW c, NEW s, BeginTerminate(c, s) PROVE ProcessOK'
   BY ZenonT(20), <1>2 DEF BeginTerminate
 <1>3. CASE Client
   BY ZenonT(20), <1>1, <1>2, <1>3 DEF Client, OpenReused, Attach, AttachAuthorized,
      attach_runtime, Detach, Resize, DropReceiver, Terminate, RemoveExited
 <1>4. CASE Consumer
   BY ZenonT(40), <1>4 DEF Consumer, Recv, RecvDisconnect
 <1>5. CASE Reap
   BY Zenon, <1>2, <1>5 DEF Reap, ReapScan, ReapRecheck, ReapTerminate, ReapGone,
      ReapNext, ReapDone, reaperOnly, EndTerminate
 <1>6. CASE Environment
   BY ZenonT(20), <1>6 DEF Environment, ChildExits, TtyCloses, PumpWaitFails, RecordExit, Tick
 <1>7. ASSUME NEW s \in ShellIds, Pump(s) PROVE ProcessOK'
   BY Zenon, <1>7 DEF Pump, PumpChunk, PumpEof, PumpReaped, RecordExit
 <1>8. ASSUME NEW c \in Callers, TerminateReturns(c) PROVE ProcessOK'
   BY Zenon, <1>8 DEF TerminateReturns, EndTerminate
 <1>9. CASE UNCHANGED vars
   BY Zenon, <1>9 DEF vars
 <1> QED
   BY Zenon, <1>3, <1>4, <1>5, <1>6, <1>7, <1>8, <1>9 DEF Next

\* terminate's callers and reap_idle's locals keep their types.
LEMMA ThreadType == ThreadsOK /\ RegistryOK /\ StreamsOK /\ ClocksOK /\ [Next]_vars
                        => ThreadsOK'
 <1> SUFFICES ASSUME ThreadsOK, RegistryOK, StreamsOK, ClocksOK, [Next]_vars
              PROVE  ThreadsOK'
   BY Zenon
 <1> USE DEF ThreadsOK, Threads
 <1>1. ASSUME NEW c \in Threads, NEW s \in ShellIds, BeginTerminate(c, s)
       PROVE  waiting' \in [Threads -> ShellIds \cup {NoShell}]
   BY Zenon, <1>1 DEF BeginTerminate
 <1>2. ASSUME NEW c \in Threads, EndTerminate(c)
       PROVE  waiting' \in [Threads -> ShellIds \cup {NoShell}]
   BY Zenon, <1>2 DEF EndTerminate
 <1>3. CASE Client
   <2>1. ASSUME NEW c \in Callers, NEW s \in ShellIds, Terminate(c, s) PROVE ThreadsOK'
     BY Zenon, <1>1, <2>1 DEF Terminate
   <2>2. \/ \E c \in Callers, s \in ShellIds : Terminate(c, s)
         \/ UNCHANGED <<waiting, reaper>>
     <3>1. ASSUME NEW u, NEW k, NEW s, NEW d, OpenReused(u, k) \/ OpenNew(u, k, s, d)
           PROVE  UNCHANGED <<waiting, reaper>>
       BY Zenon, <3>1 DEF OpenReused, OpenNew
     <3>2. ASSUME NEW u, NEW s, NEW t, NEW d,
                  Attach(u, s, t, d) \/ AttachAuthorized(u, s, d)
           PROVE  UNCHANGED <<waiting, reaper>>
       BY ZenonT(20), <3>2 DEF Attach, AttachAuthorized, attach_runtime
     <3>3. ASSUME NEW s, NEW a, NEW d,
                  Detach(s, a) \/ Resize(s, d) \/ DropReceiver(s, a) \/ RemoveExited(s)
           PROVE  UNCHANGED <<waiting, reaper>>
       BY Zenon, <3>3 DEF Detach, Resize, DropReceiver, RemoveExited
     <3> QED
       BY <1>3, <3>1, <3>2, <3>3, Zenon DEF Client
   <2> QED
     BY Zenon, <2>1, <2>2
 <1>4. CASE Consumer
   BY ZenonT(40), <1>4 DEF Consumer, Recv, RecvDisconnect
 <1>5. CASE Reap
   <2>1. CASE ReapScan
     <3>1. now - IdleTtl \in Int
       BY DEF ClocksOK
     <3>2. {s \in shells : Expired(s, now - IdleTtl)} \in SUBSET ShellIds
       BY Zenon DEF RegistryOK
     <3>3. UNCHANGED waiting
       BY Zenon, <2>1 DEF ReapScan, reaperOnly
     <3> QED
       BY ZenonT(20), <2>1, <3>1, <3>2, <3>3 DEF ReapScan
   <2>2. ASSUME NEW s \in ShellIds, ReapRecheck(s) PROVE ThreadsOK'
     <3>1. Len(chan[s]) \in Nat
       BY DEF StreamsOK
     <3> QED
       BY ZenonT(20), <2>2, <3>1 DEF ReapRecheck, reaperOnly, Condemn, Skip
   <2>3. CASE ReapTerminate
     <3>1. reaper.cur \in ShellIds
       BY Zenon, <2>3 DEF ReapTerminate, BeginTerminate, RegistryOK
     <3> QED
       BY ZenonT(20), <1>1, <2>3, <3>1 DEF ReapTerminate, Skip
   <2>4. CASE ReapGone
     BY ZenonT(20), <2>4 DEF ReapGone, reaperOnly, Skip
   <2>5. CASE ReapNext
     BY ZenonT(20), <1>2, <2>5 DEF ReapNext, Skip
   <2>6. CASE ReapDone
     <3>1. UNCHANGED waiting
       BY Zenon, <2>6 DEF ReapDone, reaperOnly
     <3>2. reaper.todo \in SUBSET ShellIds /\ reaper.cur \in ShellIds \cup {NoShell}
       BY Zenon
     <3>3. reaper' = [pc |-> "idle", cutoff |-> 0, todo |-> reaper.todo,
                      cur |-> reaper.cur, mark |-> 0]
       BY ZenonT(20), <2>6 DEF ReapDone
     <3> QED
       BY <3>1, <3>2, <3>3
   <2> QED
     BY Zenon, <1>5, <2>1, <2>2, <2>3, <2>4, <2>5, <2>6 DEF Reap
 <1>6. CASE Environment
   BY Zenon, <1>6 DEF Environment, ChildExits, TtyCloses, PumpWaitFails, RecordExit, Tick
 <1>7. ASSUME NEW s \in ShellIds, Pump(s) PROVE ThreadsOK'
   BY Zenon, <1>7 DEF Pump, PumpChunk, PumpEof, PumpReaped, RecordExit
 <1>8. ASSUME NEW c \in Callers, TerminateReturns(c) PROVE ThreadsOK'
   BY Zenon, <1>2, <1>8 DEF TerminateReturns
 <1>9. CASE UNCHANGED vars
   BY Zenon, <1>9 DEF vars
 <1> QED
   BY ZenonT(40), <1>3, <1>4, <1>5, <1>6, <1>7, <1>8, <1>9 DEF Next

\* Time stamps stay natural numbers.
LEMMA ClockType == ClocksOK /\ [Next]_vars => ClocksOK'
 <1> SUFFICES ASSUME ClocksOK, [Next]_vars PROVE ClocksOK'
   BY Zenon
 <1> USE DEF ClocksOK, registry
 <1>1. ASSUME NEW u \in Users, NEW k \in Keys, NEW s \in ShellIds, NEW d \in Dims,
              OpenNew(u, k, s, d)
       PROVE  ClocksOK'
   BY Zenon, <1>1 DEF OpenNew
 <1>2. ASSUME NEW s \in ShellIds, NEW d, attach_runtime(s, d) PROVE ClocksOK'
   BY Zenon, <1>2 DEF attach_runtime
 <1>10. ASSUME NEW s \in ShellIds, NEW a, Detach(s, a) PROVE ClocksOK'
   BY Zenon, <1>10 DEF Detach, NoteIdle
 <1>3. CASE Client
   BY ZenonT(20), <1>1, <1>2, <1>3, <1>10 DEF Client, OpenReused, Attach, AttachAuthorized, Resize, DropReceiver, Terminate, BeginTerminate, RemoveExited
 <1>4. CASE Consumer
   BY ZenonT(20), <1>4 DEF Consumer, Recv, RecvDisconnect
 <1>5. CASE Reap
   BY Zenon, <1>5 DEF Reap, ReapScan, ReapRecheck, ReapTerminate, ReapGone, ReapNext,
      ReapDone, reaperOnly, BeginTerminate, EndTerminate
 <1>6. CASE Environment
   BY SMTT(20), <1>6 DEF Environment, ChildExits, TtyCloses, PumpWaitFails, RecordExit, Tick,
      NoteIdle
 <1>7. ASSUME NEW s \in ShellIds, Pump(s) PROVE ClocksOK'
   BY <1>7 DEF Pump, PumpChunk, PumpEof, PumpReaped, RecordExit, NoteIdle
 <1>8. ASSUME NEW c \in Callers, TerminateReturns(c) PROVE ClocksOK'
   BY Zenon, <1>8 DEF TerminateReturns, EndTerminate
 <1>9. CASE UNCHANGED vars
   BY Zenon, <1>9 DEF vars
 <1> QED
   BY Zenon, <1>3, <1>4, <1>5, <1>6, <1>7, <1>8, <1>9 DEF Next

\* Every variable keeps its type, and the ring of superseded tokens its bound,
\* whatever the clients, the pumps and the reaper do.
THEOREM TypeCorrect == Spec => []TypeOK
 <1>1. TypeOK /\ [Next]_vars => TypeOK'
   BY ZenonT(40), RegistryType, RuntimeType, TokenType, StreamType, SizeType, ProcessType,
      ThreadType, ClockType DEF TypeOK
 <1> QED
   BY <1>1, InitType, PTL DEF Spec
-----------------------------------------------------------------------------
(* Safety.                                                                 *)

\* The part of the lifecycle that needs the attachments.
LEMMA ExitStep == TypeOK /\ ExitExact /\ [Next]_vars => ExitExact'
 <1> SUFFICES ASSUME TypeOK, ExitExact, [Next]_vars PROVE ExitExact'
   BY Zenon
 <1> USE DEF TypeOK, RuntimeOK, StreamsOK
 <1> DEFINE Closed(s)  == \A a \in DOMAIN chan[s] : ~chan[s][a].open
            Fine(s) == /\ state[s] = "Exited" <=> exit[s]
                       /\ exit[s] => ~pty[s] /\ Closed(s)
                       /\ state[s] = "unborn" => ~pty[s] /\ chan[s] = <<>>
 <1>1. \A s \in ShellIds : Fine(s)
   BY Zenon DEF ExitExact, Attachments
 <1>2. SUFFICES ASSUME NEW s \in ShellIds PROVE Fine(s)'
   BY Zenon DEF ExitExact, Attachments
 <1>3. ASSUME state'[s] = state[s], pty'[s] = pty[s], exit'[s] = exit[s],
              chan'[s] = chan[s]
       PROVE  Fine(s)'
   BY Zenon, <1>1, <1>3
 <1>4. ASSUME NEW u \in Users, NEW k \in Keys, NEW r \in ShellIds, NEW d \in Dims,
              OpenNew(u, k, r, d)
       PROVE  Fine(s)'
   BY Zenon, <1>1, <1>4 DEF OpenNew
 <1>5. ASSUME NEW r \in ShellIds, PumpEof(r) PROVE Fine(s)'
   BY Zenon, <1>1, <1>5 DEF PumpEof
 <1>6. ASSUME NEW r \in ShellIds, RecordExit(r) PROVE Fine(s)'
   <2>1. ASSUME NEW c \in Channel PROVE ~Drain(c).open
     BY Zenon DEF Drain, Channel, HasRoom
   <2>2. CASE r = s
     <3>1. chan'[s] = [a \in DOMAIN chan[s] |-> Drain(chan[s][a])]
       BY Zenon, <1>6, <2>2 DEF RecordExit
     <3>2. \A a \in DOMAIN chan[s] : chan[s][a] \in Channel
       OBVIOUS
     <3>3. Closed(s)'
       BY <2>1, <3>1, <3>2
     <3>4. state'[s] = "Exited" /\ exit'[s]
       BY Zenon, <1>6, <2>2 DEF RecordExit
     <3>5. ~pty'[s]
       BY Zenon, <1>6, <2>2 DEF RecordExit, Locked
     <3> QED
       BY Zenon, <3>3, <3>4, <3>5
   <2> QED
     BY ZenonT(20), <1>3, <1>6, <2>2 DEF RecordExit
 <1>7. ASSUME NEW c \in Threads, NEW r \in shells, BeginTerminate(c, r) PROVE Fine(s)'
   BY Zenon, <1>1, <1>7 DEF BeginTerminate
 <1>8. ASSUME NEW c \in Threads, EndTerminate(c) PROVE Fine(s)'
   BY ZenonT(40), <1>1, <1>8 DEF EndTerminate
 <1>9. ASSUME UNCHANGED <<state, pty, exit>> PROVE Fine(s)'
   <2>1. ASSUME NEW r \in ShellIds, NEW d \in Dims, attach_runtime(r, d) PROVE Fine(s)'
     <3>1. state[r] = "Running" /\ (r # s => chan'[s] = chan[s])
       BY Zenon, <2>1 DEF attach_runtime
     <3>2. CASE r = s
       BY Zenon, <1>1, <1>9, <3>1, <3>2
     <3> QED
       BY Zenon, <1>3, <1>9, <3>1, <3>2
   <2>2. ASSUME NEW r \in ShellIds, NEW a \in 1..MaxTokens,
                Detach(r, a) \/ DropReceiver(r, a) \/ Recv(r, a) \/ RecvDisconnect(r, a)
         PROVE  Fine(s)'
     <3>1. a \in DOMAIN chan[r]
       BY Zenon, <2>2 DEF Detach, DropReceiver, Recv, RecvDisconnect, Attachments
     <3>2. PICK c \in Channel : /\ chan' = [chan EXCEPT ![r] = [@ EXCEPT ![a] = c]]
                                /\ c.open => chan[r][a].open
       <4> DEFINE b == chan[r][a]
       <4>1. b \in Channel
         BY SMTT(20), <3>1
       <4>2. CASE Detach(r, a)
         <5>1. [b EXCEPT !.open = FALSE] \in Channel
               /\ ~[b EXCEPT !.open = FALSE].open
           BY ZenonT(20), <4>1 DEF Channel
         <5> QED
           BY ZenonT(20), <4>2, <5>1 DEF Detach
       <4>3. CASE DropReceiver(r, a)
         <5>1. [b EXCEPT !.live = FALSE] \in Channel
               /\ [b EXCEPT !.live = FALSE].open = b.open
           BY ZenonT(20), <4>1 DEF Channel
         <5> QED
           BY ZenonT(20), <4>3, <5>1 DEF DropReceiver
       <4>4. CASE Recv(r, a)
         <5>1. Tail(b.q) \in Seq(Nat) /\ Head(b.q) \in Nat
           BY ZenonT(20), <4>1, <4>4, HeadTailProperties DEF Channel, Recv
         <5>2. [b EXCEPT !.q = Tail(@), !.live = FALSE, !.saw = "exited"] \in Channel
               /\ [b EXCEPT !.q = Tail(@), !.live = FALSE, !.saw = "exited"].open = b.open
           BY ZenonT(20), <4>1, <5>1 DEF Channel
         <5>3. [b EXCEPT !.q = Tail(@), !.got = Head(b.q)] \in Channel
               /\ [b EXCEPT !.q = Tail(@), !.got = Head(b.q)].open = b.open
           BY ZenonT(20), <4>1, <5>1 DEF Channel
         <5> QED
           BY ZenonT(20), <4>4, <5>2, <5>3 DEF Recv
       <4>5. CASE RecvDisconnect(r, a)
         <5>1. [b EXCEPT !.live = FALSE, !.saw = "disconnect"] \in Channel
               /\ [b EXCEPT !.live = FALSE, !.saw = "disconnect"].open = b.open
           BY ZenonT(20), <4>1 DEF Channel
         <5> QED
           BY ZenonT(20), <4>5, <5>1 DEF RecvDisconnect
       <4> QED
         BY ZenonT(20), <2>2, <4>2, <4>3, <4>4, <4>5
     <3>3. CASE r = s
       <4>1. chan[s] # <<>>
         BY <3>1, <3>3
       <4>2. \A b \in DOMAIN chan'[s] : b \in DOMAIN chan[s] /\
                (chan'[s][b].open => chan[s][b].open)
         BY Zenon, <3>1, <3>2, <3>3
       <4> QED
         BY ZenonT(20), <1>1, <1>9, <4>1, <4>2
     <3> QED
       BY Zenon, <1>3, <1>9, <3>2, <3>3
   <2>3. ASSUME NEW r \in ShellIds, PumpChunk(r) PROVE Fine(s)'
     <3>1. CASE r = s
       <4>1. pty[s] /\ pty'[s] /\ state'[s] = state[s] /\ exit'[s] = exit[s]
         BY Zenon, <1>9, <2>3, <3>1 DEF PumpChunk
       <4> QED
         BY Zenon, <1>1, <4>1
     <3>2. CASE r # s
       BY ZenonT(20), <1>3, <1>9, <2>3, <3>2 DEF PumpChunk
     <3> QED
       BY ZenonT(20), <3>1, <3>2
   <2> QED
     BY ZenonT(60), <1>3, <1>6, <1>9, <2>1, <2>2, <2>3, StreamFrame
 <1> QED
   BY ZenonT(20), <1>4, <1>5, <1>6, <1>7, <1>8, <1>9, RuntimeFrame

\* A shell is Exited exactly when the pump recorded its exit, and then has
\* neither a PTY nor an attachment.
THEOREM ExitIsExact == Spec => []ExitExact
 <1>1. Init => ExitExact
   BY ZenonT(40) DEF Init, ExitExact, Attachments
 <1> QED
   BY <1>1, ExitStep, TypeCorrect, PTL DEF Spec
-----------------------------------------------------------------------------
Forward(s) ==
    /\ state[s] = "Terminating" => state'[s] \in {"Terminating", "Exited"}
    /\ state[s] = "Exited" => state'[s] = "Exited"
    /\ exit[s] => exit'[s]
    /\ state[s] # "unborn" /\ ~pty[s] => ~pty'[s]

\* No step moves a shell backwards.
LEMMA ForwardStep ==
    ASSUME TypeOK, ExitExact, [Next]_vars, NEW s \in ShellIds
    PROVE  Forward(s)
 <1> USE DEF TypeOK, RuntimeOK, ExitExact, Forward
 <1>1. ASSUME NEW u \in Users, NEW k \in Keys, NEW r \in ShellIds, NEW d \in Dims,
              OpenNew(u, k, r, d)
       PROVE  Forward(s)
   BY ZenonT(20), <1>1 DEF OpenNew
 <1>2. ASSUME NEW r \in ShellIds, PumpEof(r) \/ RecordExit(r) PROVE Forward(s)
   BY Zenon, <1>2 DEF PumpEof, RecordExit
 <1>3. ASSUME NEW c \in Threads, NEW r \in shells, BeginTerminate(c, r) PROVE Forward(s)
   BY Zenon, <1>3 DEF BeginTerminate
 <1>4. ASSUME NEW c \in Threads, EndTerminate(c) PROVE Forward(s)
   BY Zenon, <1>4 DEF EndTerminate
 <1>5. CASE UNCHANGED <<state, pty, exit>>
   BY Zenon, <1>5
 <1> QED
   BY ZenonT(60), <1>1, <1>2, <1>3, <1>4, <1>5, RuntimeFrame

\* Shells only move forward through their lifecycle.
THEOREM LifecycleIsForward == Spec => LifecycleForward
 <1>1. TypeOK /\ ExitExact /\ [Next]_vars => [\A s \in ShellIds : Forward(s)]_vars
   BY Zenon, ForwardStep
 <1>2. [\A s \in ShellIds : Forward(s)]_vars =>
           [\A s \in ShellIds :
               /\ state[s] = "Terminating" => state'[s] \in {"Terminating", "Exited"}
               /\ state[s] = "Exited" => state'[s] = "Exited"
               /\ exit[s] => exit'[s]
               /\ state[s] # "unborn" /\ ~pty[s] => ~pty'[s]]_vars
   BY Zenon DEF Forward
 <1> QED
   BY <1>1, <1>2, TypeCorrect, ExitIsExact, PTL DEF Spec, LifecycleForward
-----------------------------------------------------------------------------
\* Open, attach and resize give PTY and model the same clamped size.
LEMMA SizeStep == TypeOK /\ ExitExact /\ SizesAgree /\ [Next]_vars => SizesAgree'
 <1> SUFFICES ASSUME TypeOK, ExitExact, SizesAgree, [Next]_vars PROVE SizesAgree'
   BY Zenon
 <1> USE DEF TypeOK, SizesOK, SizesAgree, sizes
 <1>1. ASSUME NEW u \in Users, NEW k \in Keys, NEW s \in ShellIds, NEW d \in Dims,
              OpenNew(u, k, s, d)
       PROVE  SizesAgree'
   BY Zenon, <1>1, InitialSizeType, DimsType DEF OpenNew
 <1>2. ASSUME NEW s \in ShellIds, NEW d \in Dims, ~Locked(s), attach_runtime(s, d)
       PROVE  SizesAgree'
   <2>1. pty[s]
     BY Zenon, <1>2 DEF attach_runtime, Locked, ExitExact, RuntimeOK
   <2>2. CASE UNCHANGED sizes
     BY Zenon, <2>2
   <2>3. CASE modelSize' = [modelSize EXCEPT ![s] = Clamp(d)]
              /\ ptySize' = [ptySize EXCEPT ![s] = IF pty[s] THEN Clamp(d) ELSE @]
     BY Zenon, <2>1, <2>3, ClampType, DimsType
   <2> QED
     BY ZenonT(20), <1>2, <2>2, <2>3 DEF attach_runtime
 <1>3. ASSUME NEW s \in ShellIds, NEW d \in Dims, Resize(s, d) PROVE SizesAgree'
   BY Zenon, <1>3, ClampType, DimsType DEF Resize
 <1>4. CASE UNCHANGED sizes
   BY Zenon, <1>4
 <1> QED
   BY Zenon, <1>1, <1>2, <1>3, <1>4, SizeFrame

\* The PTY and the terminal model always have the same size, at least the floor.
THEOREM SizesAlwaysAgree == Spec => []SizesAgree
 <1>1. Init => SizesAgree
   <2>1. MinDims[1] >= MinDims[1] /\ MinDims[2] >= MinDims[2]
     OBVIOUS
   <2> QED
     BY Zenon, <2>1 DEF Init, SizesAgree
 <1> QED
   BY <1>1, SizeStep, TypeCorrect, ExitIsExact, PTL DEF Spec
-----------------------------------------------------------------------------
(* Tokens and idempotency: the strengthening is that a shell is registered *)
(* only once it is born, and has issued a token exactly since then.        *)

Born ==
    \A s \in ShellIds : /\ s \in shells => state[s] # "unborn"
                        /\ state[s] = "unborn" <=> token[s] = 0

\* Registered, token-bearing and born mean the same in every step.
LEMMA BornStep == TypeOK /\ Born /\ ExitExact /\ [Next]_vars => Born'
 <1> SUFFICES ASSUME TypeOK, Born, ExitExact, [Next]_vars, NEW s \in ShellIds
              PROVE  /\ s \in shells' => state'[s] # "unborn"
                     /\ state'[s] = "unborn" <=> token'[s] = 0
   BY ZenonT(20) DEF Born
 <1> DEFINE Fine == /\ s \in shells' => state'[s] # "unborn"
                    /\ state'[s] = "unborn" <=> token'[s] = 0
 <1> USE DEF TypeOK, RuntimeOK, RegistryOK, TokensOK, Born
 <1>1. ASSUME NEW u \in Users, NEW k \in Keys, NEW r \in ShellIds, NEW d \in Dims,
              OpenNew(u, k, r, d)
       PROVE  Fine
   BY <1>1 DEF OpenNew
 <1>2. ASSUME NEW r \in shells, rotate_token(r), UNCHANGED <<shells, state>> PROVE Fine
   BY SMTT(20), <1>2 DEF rotate_token
 <1>3. CASE UNCHANGED tokens
   <2>1. CASE UNCHANGED state
     <3>1. shells' \subseteq shells \/ \E u \in Users, k \in Keys, r \in ShellIds, d \in Dims :
                  OpenNew(u, k, r, d)
       BY Zenon, RegistryFrame DEF RemoveExited, registry
     <3> QED
       BY Zenon, <1>1, <1>3, <2>1, <3>1 DEF tokens
   <2>2. ASSUME NEW r \in ShellIds, RecordExit(r) PROVE Fine
     BY Zenon, <1>3, <2>2 DEF RecordExit, Locked, registry, tokens
   <2>3. ASSUME NEW c \in Threads, NEW r \in shells, BeginTerminate(c, r) PROVE Fine
     BY Zenon, <1>3, <2>3 DEF BeginTerminate, registry, tokens
   <2>4. ASSUME NEW c \in Threads, EndTerminate(c) PROVE Fine
     BY ZenonT(60), <1>3, <2>4 DEF EndTerminate, registry, tokens, ExitExact
   <2>5. ASSUME NEW r \in ShellIds, PumpEof(r) PROVE UNCHANGED state
     BY ZenonT(20), <2>5 DEF PumpEof
   <2> QED
     BY ZenonT(20), <1>1, <2>1, <2>2, <2>3, <2>4, <2>5, RuntimeFrame
 <1> QED
   BY ZenonT(60), <1>1, <1>2, <1>3, TokenFrame

\* A shell has tokens exactly when open_shell created it, and only such shells
\* are registered.
THEOREM BornInvariant == Spec => []Born
 <1>1. Init => Born
   BY DEF Init, Born
 <1> QED
   BY <1>1, BornStep, TypeCorrect, ExitIsExact, PTL DEF Spec

\* q holds the tokens t - Len(q) .. t - 1, as many as were issued up to h.
Window(q, t, h) ==
    /\ Len(q) = IF t - 1 < h THEN t - 1 ELSE h
    /\ \A i \in 1..Len(q) : q[i] = t - 1 - Len(q) + i

\* The arithmetic of a window that moves on by one token.
LEMMA OneFurther ==
    ASSUME NEW t \in Int, NEW m \in Int, NEW i \in Int
    PROVE  t - 1 - (m + 1) + (i + 1) = t - 1 - m + i
  OBVIOUS

\* rotate_token on a ring that holds the last tokens before t gives the ring
\* that holds the last tokens before t + 1.
LEMMA WindowSlides ==
    ASSUME NEW h \in Nat \ {0}, NEW t \in Nat \ {0}, NEW q \in Seq(Nat), Window(q, t, h)
    PROVE  Window(Append(IF Len(q) = h THEN Tail(q) ELSE q, t), t + 1, h)
 <1> DEFINE kept == IF Len(q) = h THEN Tail(q) ELSE q
            new  == Append(kept, t)
            m == Len(kept)
 <1>1. Len(q) \in Nat /\ Len(q) <= h /\ Len(q) <= t - 1
   BY DEF Window
 <1>2. kept \in Seq(Nat) /\ m \in Nat /\ m = (IF t < h THEN t ELSE h) - 1
   BY SMTT(20), <1>1 DEF Window
 <1>3. ASSUME NEW i \in 1..m PROVE kept[i] = t - 1 - m + i
   <2>1. CASE Len(q) = h
     <3>1. kept = Tail(q) /\ Len(q) = h /\ q # <<>>
       BY <1>1, <2>1
     <3>2. m = h - 1 /\ \A j \in 1..m : Tail(q)[j] = q[j + 1]
       BY <3>1, HeadTailProperties
     <3> HIDE DEF kept, m
     <3>3. i \in Int /\ t \in Int /\ m \in Int /\ h = m + 1 /\ i + 1 \in 1..Len(q)
       BY <1>2, <1>3, <3>1, <3>2
     <3>4. kept[i] = q[i + 1]
       BY Zenon, <1>3, <3>1, <3>2
     <3>5. q[i + 1] = t - 1 - Len(q) + (i + 1)
       BY Zenon, <3>3 DEF Window
     <3>6. t - 1 - (m + 1) + (i + 1) = t - 1 - m + i
       <4>1. i \in Int /\ t \in Int /\ m \in Int
         BY Zenon, <3>3
       <4> QED BY ZenonT(40), <4>1, OneFurther
     <3>7. Len(q) = m + 1
       BY Zenon, <3>1, <3>3
     <3> QED
       BY Zenon, <3>4, <3>5, <3>6, <3>7
   <2>2. CASE Len(q) # h
     BY Zenon, <1>3, <2>2 DEF Window
   <2> QED
     BY ZenonT(20), <2>1, <2>2
 <1>4. Len(new) = m + 1 /\ \A i \in 1..(m + 1) : new[i] = IF i <= m THEN kept[i] ELSE t
   <2> HIDE DEF kept
   <2> QED BY <1>2
 <1> HIDE DEF kept, new, m
 <1>5. \A i \in 1..(m + 1) : new[i] = t - (m + 1) + i
   <2> TAKE i \in 1..(m + 1)
   <2>1. CASE i <= m
     <3>1. i \in 1..m /\ kept[i] = t - 1 - m + i
       BY <1>2, <1>3, <2>1
     <3> QED BY <1>2, <1>4, <2>1, <3>1
   <2>2. CASE i > m
     <3>1. i = m + 1 /\ new[i] = t
       BY <1>2, <1>4, <2>2
     <3> QED BY <1>2, <3>1
   <2> QED BY <1>2, <2>1, <2>2
 <1>6. Len(new) = IF (t + 1) - 1 < h THEN (t + 1) - 1 ELSE h
   BY <1>2, <1>4
 <1>7. Window(new, t + 1, h)
   <2>1. \A i \in 1..Len(new) : new[i] = (t + 1) - 1 - Len(new) + i
     BY SMTT(20), <1>2, <1>4, <1>5
   <2> QED BY Zenon, <1>6, <2>1 DEF Window
 <1> QED
   BY Zenon, <1>7 DEF new, kept

\* Exactly the last tokens before t, as many as the ring keeps, are in it.
LEMMA WindowMembers ==
    ASSUME NEW h \in Nat \ {0}, NEW n \in Nat, NEW q \in Seq(Nat), Window(q, n, h),
           NEW t \in 1..n, t # n
    PROVE  (\E i \in DOMAIN q : q[i] = t) <=> t + h >= n
 <1>1. DOMAIN q = 1..Len(q) /\ Len(q) \in Nat
   OBVIOUS
 <1>2. Len(q) = IF n - 1 < h THEN n - 1 ELSE h
   BY Zenon DEF Window
 <1>3. ASSUME t + h >= n PROVE \E i \in DOMAIN q : q[i] = t
   <2> DEFINE i == t - n + 1 + Len(q)
   <2>1. i \in 1..Len(q)
     BY <1>1, <1>2, <1>3
   <2>2. q[i] = n - 1 - Len(q) + i
     BY Zenon, <2>1 DEF Window
   <2>3. q[i] = t
     BY <1>1, <2>2
   <2> QED BY Zenon, <1>1, <2>1, <2>3
 <1>4. ASSUME NEW i \in DOMAIN q, q[i] = t PROVE t + h >= n
   <2>1. i \in 1..Len(q)
     BY Zenon, <1>1
   <2>2. q[i] = n - 1 - Len(q) + i
     BY ZenonT(20), <2>1 DEF Window
   <2> QED BY SMTT(20), <1>1, <1>2, <1>4, <2>1, <2>2
 <1> QED BY Zenon, <1>3, <1>4

\* Every shell's ring is the window of tokens before its newest one.
Ring ==
    \A s \in ShellIds :
        /\ token[s] = 0 => superseded[s] = <<>>
        /\ token[s] > 0 => Window(superseded[s], token[s], SupersededHistory)

\* Every step keeps the ring of every shell the window of its last tokens.
LEMMA RingStep == TypeOK /\ Born /\ Ring /\ [Next]_vars => Ring'
 <1> SUFFICES ASSUME TypeOK, Born, Ring, [Next]_vars PROVE Ring'
   BY Zenon
 <1> USE DEF TypeOK, TokensOK
 <1>1. ASSUME NEW r \in shells, rotate_token(r) PROVE Ring'
   <2>1. r \in ShellIds
     BY Zenon DEF RegistryOK
   <2>2. token[r] \in Nat \ {0} /\ superseded[r] \in Seq(Nat)
     <3>1. r \in shells
       BY Zenon
     <3>2. state[r] # "unborn" /\ (state[r] = "unborn" <=> token[r] = 0)
       BY <2>1, <3>1, Zenon DEF Born
     <3> QED
       BY Zenon, <2>1, <3>2
   <2>3. Window(superseded[r], token[r], SupersededHistory)
     BY <2>1, <2>2 DEF Ring
   <2> DEFINE new == Append(IF Len(superseded[r]) = SupersededHistory
                            THEN Tail(superseded[r]) ELSE superseded[r], token[r])
   <2>4. Window(new, token[r] + 1, SupersededHistory)
     BY Zenon, <2>2, <2>3, WindowSlides
   <2>5. superseded' = [superseded EXCEPT ![r] = new] /\ token' = [token EXCEPT ![r] = @ + 1]
     BY Zenon, <1>1 DEF rotate_token
   <2> HIDE DEF new
   <2> QED
     BY <2>1, <2>2, <2>4, <2>5 DEF Ring
 <1>2. ASSUME NEW u \in Users, NEW k \in Keys, NEW r \in ShellIds, NEW d \in Dims,
              OpenNew(u, k, r, d)
       PROVE  Ring'
   <2>1. token[r] = 0 /\ token' = [token EXCEPT ![r] = 1] /\ superseded' = superseded
     BY ZenonT(20), <1>2 DEF OpenNew, Born
   <2>2. superseded[r] = <<>> /\ Window(<<>>, 1, SupersededHistory)
     BY <2>1 DEF Ring, Window
   <2> QED
     BY Zenon, <2>1, <2>2 DEF Ring
 <1>3. CASE UNCHANGED tokens
   BY Zenon, <1>3 DEF Ring, tokens
 <1> QED
   BY Zenon, <1>1, <1>2, <1>3, TokenFrame

\* attach judges every token a shell ever issued correctly.
THEOREM TokensAreJudged == Spec => []TokenJudgement
 <1>1. Init => Ring
   BY DEF Init, Ring
 <1>2. TypeOK /\ Ring => TokenJudgement
   <2> SUFFICES ASSUME TypeOK, Ring, NEW s \in ShellIds, NEW t \in 1..token[s]
                PROVE  Judge(s, t) = IF t = token[s] THEN "ok"
                                     ELSE IF t + SupersededHistory >= token[s]
                                          THEN "replayed" ELSE "invalid"
     BY Zenon DEF TokenJudgement
   <2>1. superseded[s] \in Seq(Nat) /\ token[s] \in Nat
     BY Zenon DEF TypeOK, TokensOK
   <2>2. Window(superseded[s], token[s], SupersededHistory)
     BY <2>1 DEF Ring
   <2>3. t # token[s] => ((\E i \in DOMAIN superseded[s] : superseded[s][i] = t)
                             <=> t + SupersededHistory >= token[s])
     BY ZenonT(20), <2>1, <2>2, WindowMembers
   <2> QED
     BY Zenon, <2>3 DEF Judge
 <1> QED
   BY <1>1, <1>2, RingStep, BornInvariant, TypeCorrect, PTL DEF Spec
-----------------------------------------------------------------------------
\* open_shell and remove_exited keep the idempotency map exact.
LEMMA IdempotencyStep == TypeOK /\ Born /\ IdempotencyExact /\ [Next]_vars => IdempotencyExact'
 <1> SUFFICES ASSUME TypeOK, Born, IdempotencyExact, [Next]_vars PROVE IdempotencyExact'
   BY Zenon
 <1> USE DEF TypeOK, RegistryOK, IdempotencyExact
 <1>1. ASSUME NEW u \in Users, NEW k \in Keys, NEW r \in ShellIds, NEW d \in Dims,
              OpenNew(u, k, r, d)
       PROVE  IdempotencyExact'
   <2>1. r \notin shells /\ r # NoShell /\ \A uk \in Users \X Keys : idempotency[uk] # r
     BY <1>1 DEF OpenNew, Born
   <2>2. /\ shells' = shells \cup {r} /\ owner' = [owner EXCEPT ![r] = u]
         /\ idempotency' = [idempotency EXCEPT ![<<u, k>>] = r]
         /\ idempotency[<<u, k>>] \notin shells
     BY Zenon, <1>1 DEF OpenNew
   <2>3. <<u, k>> \in Users \X Keys
     BY Zenon
   <2>4. \A uk \in Users \X Keys :
            idempotency'[uk] = IF uk = <<u, k>> THEN r ELSE idempotency[uk]
     BY Zenon, <2>2
   <2>5. ASSUME NEW uk \in Users \X Keys, idempotency'[uk] # NoShell
         PROVE  idempotency'[uk] \in shells' /\ owner'[idempotency'[uk]] = uk[1]
     BY SMTT(20), <2>1, <2>2, <2>4, <2>5
   <2>6. ASSUME NEW uk \in Users \X Keys, NEW vl \in Users \X Keys,
                idempotency'[uk] = idempotency'[vl], uk # vl
         PROVE  idempotency'[uk] = NoShell
     BY <2>1, <2>4, <2>6
   <2>7. ASSUME NEW s \in shells' PROVE \E uk \in Users \X Keys : idempotency'[uk] = s
     <3>1. CASE s = r
       BY Zenon, <2>3, <2>4, <3>1
     <3>2. CASE s # r
       <4>1. PICK uk \in Users \X Keys : idempotency[uk] = s
         BY Zenon, <2>2, <3>2
       <4>2. uk # <<u, k>>
         BY Zenon, <2>2, <3>2, <4>1
       <4> QED
         BY Zenon, <2>4, <4>1, <4>2
     <3> QED
       BY ZenonT(60), <3>1, <3>2
   <2> QED
     BY ZenonT(40), <2>5, <2>6, <2>7
 <1>2. ASSUME NEW r \in ShellIds, RemoveExited(r) PROVE IdempotencyExact'
   BY Zenon, <1>2 DEF RemoveExited
 <1>3. CASE UNCHANGED registry
   BY Zenon, <1>3 DEF registry
 <1> QED
   BY ZenonT(20), <1>1, <1>2, <1>3, RegistryFrame

\* One shell per (owner, key), one (owner, key) per shell, at all times.
THEOREM IdempotencyIsExact == Spec => []IdempotencyExact
 <1>1. Init => IdempotencyExact
   BY DEF Init, IdempotencyExact
 <1> QED
   BY <1>1, IdempotencyStep, BornInvariant, TypeCorrect, PTL DEF Spec
-----------------------------------------------------------------------------
(* The refinement.  Only a few actions touch what ShellService speaks of.  *)

\* State, registration, keys and tokens change only when a client opens,
\* re-opens or attaches, when a shell ends, and when it is removed.
LEMMA ServiceFrame ==
    ASSUME [Next]_vars
    PROVE  \/ \E u \in Users, k \in Keys : OpenReused(u, k)
           \/ \E u \in Users, k \in Keys, s \in ShellIds, d \in Dims :
                  OpenNew(u, k, s, d)
           \/ \E s \in ShellIds, d \in Dims : s \in shells /\ attach_runtime(s, d)
           \/ \E s \in ShellIds : RecordExit(s) \/ RemoveExited(s)
           \/ \E c \in Threads, s \in shells : BeginTerminate(c, s)
           \/ \E c \in Threads : EndTerminate(c)
           \/ UNCHANGED <<shells, idempotency, state, token>>
 <1> USE DEF registry, tokens
 <1>1. CASE Client
   BY ZenonT(20), <1>1 DEF Client, Attach, AttachAuthorized, Detach, Resize, DropReceiver,
               Terminate, BeginTerminate, Threads
 <1>2. CASE Consumer
   BY <1>2 DEF Consumer, Recv, RecvDisconnect
 <1>3. CASE Reap
   <2>1. CASE ReapTerminate
     BY ZenonT(20), <2>1 DEF ReapTerminate, BeginTerminate, Threads
   <2>2. CASE ReapNext
     BY Zenon, <2>2 DEF ReapNext, Threads
   <2> QED
     BY Zenon, <1>3, <2>1, <2>2 DEF Reap, ReapScan, ReapRecheck, ReapGone, ReapDone, reaperOnly
 <1>4. CASE Environment
   BY Zenon, <1>4 DEF Environment, ChildExits, TtyCloses, PumpWaitFails, Tick
 <1>5. ASSUME NEW s \in ShellIds, Pump(s)
       PROVE  RecordExit(s) \/ UNCHANGED <<shells, idempotency, state, token>>
   BY Zenon, <1>5 DEF Pump, PumpChunk, PumpEof, PumpReaped
 <1>6. ASSUME NEW c \in Callers, TerminateReturns(c) PROVE EndTerminate(c)
   BY Zenon, <1>6 DEF TerminateReturns
 <1>7. CASE UNCHANGED vars
   BY Zenon, <1>7 DEF vars
 <1> QED
   BY ZenonT(20), <1>1, <1>2, <1>3, <1>4, <1>5, <1>6, <1>7 DEF Next, Threads

\* The shells a client may find are those in the table.
LEMMA KnownShells == TypeOK /\ Born => Service!Known = shells
  BY Zenon DEF TypeOK, RegistryOK, RuntimeOK, Born, Service!Known, servicePhase, States

\* A manager that has just started has opened no shell.
LEMMA ServiceStarts == Init => Service!ServiceInit
  BY ZenonT(40) DEF Init, Service!ServiceInit, servicePhase

\* Every step of the manager is one of ShellService's, or none that a client
\* could see.
LEMMA ServiceStep ==
    TypeOK /\ Born /\ ExitExact /\ [Next]_vars
        => Service!ServiceNext \/ UNCHANGED Service!service
 <1> SUFFICES ASSUME TypeOK, Born, ExitExact, [Next]_vars
              PROVE  Service!ServiceNext \/ UNCHANGED Service!service
   BY Zenon
 <1> USE DEF registry, tokens
 <1>t. /\ shells \subseteq ShellIds /\ token \in [ShellIds -> Nat]
       /\ idempotency \in [Users \X Keys -> ShellIds \cup {NoShell}]
       /\ state \in [ShellIds -> States]
       /\ waiting \in [Threads -> ShellIds \cup {NoShell}]
   BY Zenon DEF TypeOK, RegistryOK, RuntimeOK, TokensOK, ThreadsOK
 <1>k. Service!Known = shells
   BY Zenon, KnownShells
 <1>f. \A s \in ShellIds : servicePhase[s] = IF state[s] = "unborn" THEN "none"
                        ELSE IF s \notin shells THEN "gone"
                        ELSE IF state[s] = "Running" THEN "running" ELSE "ended"
   BY Zenon DEF servicePhase
 <1>g. \A s \in ShellIds : servicePhase'[s] = IF state'[s] = "unborn" THEN "none"
                        ELSE IF s \notin shells' THEN "gone"
                        ELSE IF state'[s] = "Running" THEN "running" ELSE "ended"
   BY Zenon DEF servicePhase
 <1>d. /\ servicePhase = [s \in ShellIds |-> servicePhase[s]]
       /\ servicePhase' = [s \in ShellIds |-> servicePhase'[s]]
   BY Zenon DEF servicePhase
 <1>1. ASSUME NEW u \in Users, NEW k \in Keys, OpenReused(u, k)
       PROVE  Service!Reopen(<<u, k>>)
   <2>1. UNCHANGED <<shells, idempotency, state>> /\ idempotency[<<u, k>>] \in shells
     BY Zenon, <1>1 DEF OpenReused
   <2>2. token' = [token EXCEPT ![idempotency[<<u, k>>]] = @ + 1]
     BY ZenonT(60), <1>1 DEF OpenReused, rotate_token
   <2>3. UNCHANGED servicePhase
     BY Zenon, <2>1 DEF servicePhase
   <2> QED
     BY Zenon, <1>k, <2>1, <2>2, <2>3 DEF Service!Reopen
 <1>2. ASSUME NEW u \in Users, NEW k \in Keys, NEW s \in ShellIds, NEW d \in Dims,
              OpenNew(u, k, s, d)
       PROVE  Service!Open(<<u, k>>, s)
   <2>1. /\ idempotency[<<u, k>>] \notin shells /\ state[s] = "unborn"
         /\ shells' = shells \cup {s} /\ state' = [state EXCEPT ![s] = "Running"]
         /\ idempotency' = [idempotency EXCEPT ![<<u, k>>] = s]
         /\ token' = [token EXCEPT ![s] = 1]
     BY ZenonT(60), <1>2 DEF OpenNew
   <2>2. servicePhase'[s] = "running" /\ servicePhase[s] = "none"
     BY ZenonT(60), <2>1, <1>t, <1>f, <1>g
   <2>3. \A r \in ShellIds \ {s} : servicePhase'[r] = servicePhase[r]
     BY ZenonT(60), <2>1, <1>t, <1>f, <1>g
   <2>4. servicePhase' = [servicePhase EXCEPT ![s] = "running"]
     BY Zenon, <1>d, <2>2, <2>3
   <2> QED
     BY Zenon, <1>k, <2>1, <2>2, <2>4 DEF Service!Open
 <1>3. ASSUME NEW s \in ShellIds, NEW d \in Dims, s \in shells, attach_runtime(s, d)
       PROVE  Service!Attach(s, token[s])
   <2>1. /\ UNCHANGED <<shells, idempotency, state>> /\ state[s] = "Running"
         /\ token' = [token EXCEPT ![s] = @ + 1]
     BY ZenonT(20), <1>3 DEF attach_runtime, rotate_token
   <2>2. UNCHANGED servicePhase /\ servicePhase[s] = "running"
     BY Zenon, <1>3, <1>f, <2>1 DEF servicePhase
   <2> QED
     BY Zenon, <2>1, <2>2 DEF Service!Attach
 <1>4. ASSUME NEW s \in ShellIds, UNCHANGED <<shells, idempotency, token>>,
              state' = [state EXCEPT ![s] = "Terminating"]
                  \/ state' = [state EXCEPT ![s] = "Exited"],
              state[s] \in {"Running", "Terminating"}
       PROVE  Service!End(s) \/ UNCHANGED Service!service
   <2>1. \A r \in ShellIds \ {s} : servicePhase'[r] = servicePhase[r]
     BY SMTT(20), <1>4, <1>t, <1>f, <1>g
   <2>2. CASE s \in shells /\ state[s] = "Running"
     <3>1. servicePhase[s] = "running" /\ servicePhase'[s] = "ended"
       BY Zenon, <1>4, <1>t, <1>f, <1>g, <2>2
     <3>2. servicePhase' = [servicePhase EXCEPT ![s] = "ended"]
       BY Zenon, <1>d, <2>1, <3>1
     <3> QED
       BY Zenon, <1>4, <3>1, <3>2 DEF Service!End
   <2>3. CASE ~(s \in shells /\ state[s] = "Running")
     <3>1. servicePhase'[s] = servicePhase[s]
       BY Zenon, <1>4, <1>t, <1>f, <1>g, <2>3
     <3>2. UNCHANGED servicePhase
       BY Zenon, <1>d, <2>1, <3>1
     <3> QED
       BY Zenon, <1>4, <3>2 DEF Service!service
   <2> QED
     BY Zenon, <2>2, <2>3
 <1>5. ASSUME NEW s \in ShellIds, RecordExit(s)
       PROVE  Service!End(s) \/ UNCHANGED Service!service
   <2>1. state[s] \in {"Running", "Terminating"}
     BY Zenon, <1>5, <1>t DEF RecordExit, Locked, ExitExact, States
   <2> QED
     BY ZenonT(20), <1>4, <1>5, <2>1 DEF RecordExit
 <1>6. ASSUME NEW s \in ShellIds, RemoveExited(s)
       PROVE  Service!Retire(s)
   <2>1. /\ s \in shells /\ state[s] = "Exited" /\ UNCHANGED <<state, token>>
         /\ shells' = shells \ {s}
         /\ idempotency' = [uk \in DOMAIN idempotency |->
                IF idempotency[uk] = s THEN NoShell ELSE idempotency[uk]]
     BY Zenon, <1>6 DEF RemoveExited
   <2>2. servicePhase[s] = "ended" /\ servicePhase'[s] = "gone"
     BY Zenon, <1>f, <1>g, <2>1
   <2>3. \A r \in ShellIds \ {s} : servicePhase'[r] = servicePhase[r]
     BY <1>f, <1>g, <2>1
   <2>4. servicePhase' = [servicePhase EXCEPT ![s] = "gone"]
     BY Zenon, <1>d, <2>2, <2>3
   <2> QED
     BY Zenon, <1>t, <2>1, <2>2, <2>4 DEF Service!Retire
 <1>7. ASSUME NEW c \in Threads, NEW s \in shells, BeginTerminate(c, s)
       PROVE  Service!End(s) \/ UNCHANGED Service!service
   <2>1. s \in ShellIds /\ state[s] \in {"Running", "Terminating"}
     BY ZenonT(60), <1>7, <1>t DEF BeginTerminate, ExitExact, Born, States
   <2> QED
     BY ZenonT(60), <1>4, <1>7, <2>1 DEF BeginTerminate
 <1>8. ASSUME NEW c \in Threads, EndTerminate(c) PROVE UNCHANGED Service!service
   <2>1. waiting[c] \in ShellIds
     BY ZenonT(60), <1>8, <1>t DEF EndTerminate
   <2>2. state' = state
     BY ZenonT(20), <1>8, <1>t, <2>1 DEF EndTerminate, ExitExact
   <2> QED
     BY ZenonT(60), <1>8, <2>2 DEF EndTerminate, Service!service, servicePhase
 <1>9. CASE UNCHANGED <<shells, idempotency, state, token>>
   BY Zenon, <1>9 DEF Service!service, servicePhase
 <1>10. CASE \E u \in Users, k \in Keys : OpenReused(u, k)
   BY ZenonT(20), <1>1, <1>10 DEF Service!ServiceNext
 <1>11. CASE \E u \in Users, k \in Keys, s \in ShellIds, d \in Dims : OpenNew(u, k, s, d)
   BY ZenonT(20), <1>2, <1>11 DEF Service!ServiceNext
 <1> QED
   BY ZenonT(20), <1>t, <1>3, <1>5, <1>6, <1>7, <1>8, <1>9, <1>10, <1>11, ServiceFrame
      DEF Service!ServiceNext

\* The shell manager implements ShellService: whatever pumps, terminate calls
\* and the reaper do between them, a client sees only opens, re-opens and
\* attaches with the newest token, one end of each shell, and its removal.
THEOREM ManagerImplementsService == Spec => ImplementsService
 <1> QED
   BY ServiceStarts, ServiceStep, TypeCorrect, BornInvariant, ExitIsExact, PTL
      DEF Spec, ImplementsService, Service!ServiceSpec

-----------------------------------------------------------------------------
(* Queues of chunk numbers.                                                *)

\* The number of chunks in a queue is a number, at most its length.
LEMMA ChunkCount ==
    ASSUME NEW q \in Seq(Nat)
    PROVE  /\ Len(q) \in Nat /\ Chunks(q) \in Nat /\ Chunks(q) <= Len(q)
           /\ Final(q) => Chunks(q) = Len(q) - 1 /\ Len(q) > 0 /\ q[Len(q)] = Exited
           /\ ~Final(q) => Chunks(q) = Len(q)
  BY DEF Chunks, Final

\* An empty queue continues any stream.
LEMMA EmptyQueue == ~Final(<<>>) /\ Chunks(<<>>) = 0 /\ \A g : Run(<<>>, g)
  BY DEF Final, Chunks, Run

\* An index that is not the last lies before it.
LEMMA UpToLast ==
    ASSUME NEW n \in Nat, NEW i \in 1..(n + 1), i # n + 1
    PROVE  i \in 1..n
  OBVIOUS

\* Sending the next chunk extends the run of a queue without Exited.
LEMMA AppendChunk ==
    ASSUME NEW q \in Seq(Nat), NEW g \in Nat, NEW n \in Nat,
           ~Final(q), Run(q, g), n = g + Chunks(q) + 1
    PROVE  /\ ~Final(Append(q, n)) /\ Chunks(Append(q, n)) = Chunks(q) + 1
           /\ Run(Append(q, n), g)
 <1> DEFINE r == Append(q, n)
 <1>0. r = Append(q, n)
   BY Zenon
 <1> HIDE DEF r
 <1>1. Len(q) \in Nat /\ Chunks(q) = Len(q)
   BY Zenon, ChunkCount
 <1>2. /\ r \in Seq(Nat) /\ r # <<>> /\ Len(r) = Len(q) + 1
       /\ r[Len(q) + 1] = n /\ \A i \in 1..Len(q) : r[i] = q[i]
   <2>1. r \in Seq(Nat) /\ Extended(r, q, n)
     BY Zenon, <1>0, Appended
   <2> QED
     BY Zenon, <2>1 DEF Extended
 <1>3. ~Final(r)
   BY SMTT(20), <1>1, <1>2 DEF Final, Exited
 <1>4. Chunks(r) = Len(q) + 1
   BY Zenon, <1>2, <1>3 DEF Chunks
 <1>5. ASSUME NEW i \in 1..(Len(q) + 1) PROVE r[i] = g + i
   <2>1. CASE i = Len(q) + 1
     BY <1>1, <1>2, <2>1
   <2>2. CASE i # Len(q) + 1
     <3>1. i \in 1..Len(q)
       BY Zenon, <1>1, <2>2, UpToLast
     <3> QED
       BY Zenon, <1>1, <1>2, <3>1 DEF Run
   <2> QED
     BY Zenon, <2>1, <2>2
 <1> QED
   BY Zenon, <1>1, <1>3, <1>4, <1>5 DEF Run, r

\* Sending Exited ends a queue and leaves its chunks.
LEMMA AppendExited ==
    ASSUME NEW q \in Seq(Nat), NEW g \in Nat, ~Final(q), Run(q, g)
    PROVE  /\ Final(Append(q, Exited)) /\ Chunks(Append(q, Exited)) = Chunks(q)
           /\ Run(Append(q, Exited), g)
 <1> DEFINE r == Append(q, Exited)
 <1>0. r = Append(q, Exited)
   BY Zenon
 <1> HIDE DEF r
 <1>1. Len(q) \in Nat /\ Chunks(q) = Len(q)
   BY Zenon, ChunkCount
 <1>2. /\ r \in Seq(Nat) /\ r # <<>> /\ Len(r) = Len(q) + 1
       /\ r[Len(q) + 1] = Exited /\ \A i \in 1..Len(q) : r[i] = q[i]
   <2>1. Exited \in Nat
     BY DEF Exited
   <2>2. r \in Seq(Nat) /\ Extended(r, q, Exited)
     BY Zenon, <1>0, <2>1, Appended
   <2> QED
     BY Zenon, <2>2 DEF Extended
 <1>3. Final(r)
   BY Zenon, <1>2 DEF Final
 <1>4. Chunks(r) = Len(q)
   BY <1>1, <1>2, <1>3 DEF Chunks
 <1> QED
   BY Zenon, <1>1, <1>2, <1>3, <1>4 DEF Run, r

\* A queue of a run whose head is Exited holds nothing else.
LEMMA TailExited ==
    ASSUME NEW q \in Seq(Nat), NEW g \in Nat, q # <<>>, Run(q, g), Head(q) = Exited
    PROVE  Final(q) /\ Chunks(q) = 0 /\ Tail(q) = <<>>
 <1>1. Len(q) \in Nat /\ Len(q) > 0 /\ Chunks(q) \in Nat /\ q[1] = Exited
   BY ChunkCount
 <1>2. Chunks(q) = 0
   <2>1. ASSUME Chunks(q) > 0 PROVE FALSE
     <3>1. 1 \in 1..Chunks(q)
       BY <1>1, <2>1
     <3>2. q[1] = g + 1
       BY Zenon, <3>1 DEF Run
     <3> QED
       BY SMTT(20), <1>1, <3>2 DEF Exited
   <2> QED
     BY <1>1, <2>1
 <1>3. /\ Final(q) => Chunks(q) = Len(q) - 1
       /\ ~Final(q) => Chunks(q) = Len(q)
   BY Zenon, ChunkCount
 <1>4. Final(q) /\ Len(q) = 1
   BY SMTT(20), <1>1, <1>2, <1>3
 <1>5. Tail(q) \in Seq(Nat) /\ Len(Tail(q)) = 0
   BY <1>4
 <1> QED
   BY ZenonT(20), <1>2, <1>4, <1>5, EmptySeq

\* Taking a chunk off a run leaves the run after that chunk.
LEMMA TailChunk ==
    ASSUME NEW q \in Seq(Nat), NEW g \in Nat, q # <<>>, Run(q, g), Head(q) # Exited
    PROVE  /\ Head(q) = g + 1 /\ Run(Tail(q), g + 1)
           /\ Final(Tail(q)) <=> Final(q)
           /\ Chunks(Tail(q)) = Chunks(q) - 1 /\ Chunks(q) \in Nat
 <1> DEFINE r == Tail(q)
            n == Len(q)
            k == Chunks(q)
 <1>1. n \in Nat /\ n > 0 /\ k \in Nat /\ k <= n /\ Head(q) = q[1]
   BY ChunkCount
 <1>2. /\ Final(q) => k = n - 1 /\ q[n] = Exited
       /\ ~Final(q) => k = n
   BY Zenon, ChunkCount
 <1>3. r \in Seq(Nat) /\ Len(r) = n - 1 /\ \A i \in 1..(n - 1) : r[i] = q[i + 1]
   BY <1>1
 <1>4. q # <<>> /\ (Final(q) <=> q[n] = Exited)
   BY Zenon DEF Final
 <1>5. \A i \in 1..k : q[i] = g + i
   BY Zenon DEF Run
 <1> HIDE DEF r, n, k
 <1>6. k > 0
   <2>1. ASSUME k = 0 PROVE FALSE
     <3>1. n = 1 /\ q[n] = Exited
       BY <1>1, <1>2, <2>1
     <3> QED
       BY Zenon, <1>1, <3>1
   <2> QED
     BY <1>1, <2>1
 <1>7. Head(q) = g + 1
   <2>1. 1 \in 1..k
     BY <1>1, <1>6
   <2> QED
     BY Zenon, <1>1, <1>5, <2>1
 <1>8. (Final(r) <=> Final(q)) /\ Chunks(r) = k - 1
   <2>1. CASE n = 1
     <3>1. ~Final(q) /\ k = 1
       BY Zenon, <1>1, <1>2, <1>6, <2>1
     <3>2. r = <<>>
       BY <1>3, <2>1
     <3> QED
       BY <3>1, <3>2, EmptyQueue
   <2>2. CASE n # 1
     <3>1. n - 1 \in 1..(n - 1) /\ n - 1 + 1 = n
       BY SMTT(20), <1>1, <2>2
     <3>2. r[n - 1] = q[n] /\ r # <<>>
       BY SMTT(20), <1>3, <3>1
     <3>3. Final(r) <=> Final(q)
       BY Zenon, <1>3, <1>4, <3>2 DEF Final
     <3> QED
       BY Zenon, <1>1, <1>2, <1>3, <3>3 DEF Chunks
   <2> QED
     BY Zenon, <2>1, <2>2
 <1>9. ASSUME NEW i \in 1..(k - 1) PROVE r[i] = (g + 1) + i
   <2>1. i \in 1..(n - 1) /\ i + 1 \in 1..k
     BY <1>1
   <2>2. r[i] = q[i + 1] /\ q[i + 1] = g + (i + 1)
     BY Zenon, <1>3, <1>5, <2>1
   <2> QED
     BY <2>2
 <1> QED
   BY ZenonT(20), <1>1, <1>7, <1>8, <1>9 DEF Run, r, k
-----------------------------------------------------------------------------
(* One channel: what try_send, drain and recv do to its stream.            *)

\* Closing an attachment, losing its receiver: the stream it carries is the same.
LEMMA SameStream ==
    ASSUME NEW c \in Channel, NEW d \in Channel, NEW f, NEW e, Continues(c, f, e),
           d.q = c.q, d.got = c.got, d.snap = c.snap, d.open => c.open,
           d.saw = "exited" => c.saw = "exited"
    PROVE  Continues(d, f, e)
  BY Zenon DEF Continues

\* pump's try_send: an attachment with room continues with the new chunk, one
\* without is closed and keeps what it had.
LEMMA DeliverContinues ==
    ASSUME NEW c \in Channel, NEW f \in Nat, Continues(c, f, FALSE)
    PROVE  Continues(Deliver(c, f + 1), f + 1, FALSE)
 <1>1. /\ c.q \in Seq(Nat) /\ c.got \in Nat /\ c.snap \in Nat /\ c.open \in BOOLEAN
       /\ c.snap <= c.got /\ c.got + Chunks(c.q) <= f
       /\ Run(c.q, c.got) /\ ~Final(c.q) /\ c.saw # "exited"
       /\ c.open => c.got + Chunks(c.q) = f
   BY Zenon DEF Continues, Channel
 <1>2. Chunks(c.q) \in Nat
   BY Zenon, <1>1, ChunkCount
 <1>3. CASE c.open /\ HasRoom(c)
   <2> DEFINE d == [c EXCEPT !.q = Append(@, f + 1)]
   <2>1. d.q = Append(c.q, f + 1) /\ d.got = c.got /\ d.snap = c.snap /\ d.saw = c.saw
     BY Zenon DEF Channel
   <2>2. Deliver(c, f + 1) = d
     BY Zenon, <1>3 DEF Deliver
   <2> HIDE DEF d
   <2>3. f + 1 = c.got + Chunks(c.q) + 1 /\ f + 1 \in Nat
     BY <1>1, <1>2, <1>3
   <2>4. ~Final(d.q) /\ Chunks(d.q) = Chunks(c.q) + 1 /\ Run(d.q, c.got)
     <3> HIDE DEF d
     <3>1. ~Final(Append(c.q, f + 1)) /\ Chunks(Append(c.q, f + 1)) = Chunks(c.q) + 1
           /\ Run(Append(c.q, f + 1), c.got)
       BY Zenon, <1>1, <2>3, AppendChunk
     <3> QED
       BY Zenon, <2>1, <3>1
   <2>5. d.got + Chunks(d.q) = f + 1
     <3>1. d.got = c.got /\ Chunks(d.q) = Chunks(c.q) + 1
       BY Zenon, <2>1, <2>4
     <3>2. c.got \in Nat /\ Chunks(c.q) \in Nat
       BY Zenon, <1>1, <1>2
     <3> QED
       BY <2>3, <3>1, <3>2
   <2>6. d.got + Chunks(d.q) <= f + 1
     BY <2>5
   <2> QED
     BY ZenonT(20), <1>1, <2>1, <2>2, <2>4, <2>5, <2>6 DEF Continues
 <1>4. CASE c.open /\ ~HasRoom(c)
   <2> DEFINE d == [c EXCEPT !.open = FALSE]
   <2>1. d.q = c.q /\ d.got = c.got /\ d.snap = c.snap /\ d.saw = c.saw /\ d.open = FALSE
     BY Zenon DEF Channel
   <2>2. Deliver(c, f + 1) = d
     BY Zenon, <1>4 DEF Deliver
   <2> HIDE DEF d
   <2>3. c.got + Chunks(c.q) <= f + 1
     BY SMTT(20), <1>1, <1>2
   <2> QED
     BY Zenon, <1>1, <2>1, <2>2, <2>3 DEF Continues
 <1>5. CASE ~c.open
   <2>1. Deliver(c, f + 1) = c
     BY Zenon, <1>5 DEF Deliver
   <2>2. c.got + Chunks(c.q) <= f + 1
     BY <1>1, <1>2
   <2> QED
     BY Zenon, <1>1, <1>5, <2>1, <2>2 DEF Continues
 <1> QED
   BY ZenonT(20), <1>1, <1>3, <1>4, <1>5

\* pump's drain: Exited follows the last chunk, or the attachment just closes.
LEMMA DrainContinues ==
    ASSUME NEW c \in Channel, NEW f \in Nat, Continues(c, f, FALSE)
    PROVE  Continues(Drain(c), f, TRUE)
 <1>1. /\ c.q \in Seq(Nat) /\ c.got \in Nat /\ c.open \in BOOLEAN
       /\ c.snap <= c.got /\ c.got + Chunks(c.q) <= f
       /\ Run(c.q, c.got) /\ ~Final(c.q) /\ c.saw # "exited"
       /\ c.open => c.got + Chunks(c.q) = f
   BY Zenon DEF Continues, Channel
 <1>2. CASE c.open /\ HasRoom(c)
   <2> DEFINE d == [c EXCEPT !.q = Append(@, Exited), !.open = FALSE]
   <2>1. d.q = Append(c.q, Exited) /\ d.got = c.got /\ d.snap = c.snap /\ d.saw = c.saw
          /\ d.open = FALSE
     BY Zenon DEF Channel
   <2>2. Drain(c) = d
     BY Zenon, <1>2 DEF Drain
   <2> HIDE DEF d
   <2>3. Final(d.q) /\ Chunks(d.q) = Chunks(c.q) /\ Run(d.q, c.got)
     BY Zenon, <1>1, <2>1, AppendExited
   <2> QED
     BY ZenonT(20), <1>1, <1>2, <2>1, <2>2, <2>3 DEF Continues
 <1>3. CASE c.open /\ ~HasRoom(c)
   <2> DEFINE d == [c EXCEPT !.open = FALSE]
   <2>1. d.q = c.q /\ d.got = c.got /\ d.snap = c.snap /\ d.saw = c.saw /\ d.open = FALSE
     BY Zenon DEF Channel
   <2>2. Drain(c) = d
     BY Zenon, <1>3 DEF Drain
   <2> HIDE DEF d
   <2> QED
     BY ZenonT(40), <1>1, <2>1, <2>2 DEF Continues
 <1>4. CASE ~c.open
   BY Zenon, <1>1, <1>4 DEF Drain, Continues
 <1> QED
   BY ZenonT(20), <1>1, <1>2, <1>3, <1>4

\* The forwarder's recv moves the head of the queue to what was received.
LEMMA RecvContinues ==
    ASSUME NEW c \in Channel, NEW f \in Nat, NEW e \in BOOLEAN, Continues(c, f, e),
           c.q # <<>>
    PROVE  IF Head(c.q) = Exited
           THEN Continues([c EXCEPT !.q = Tail(@), !.live = FALSE, !.saw = "exited"], f, e)
           ELSE Continues([c EXCEPT !.q = Tail(@), !.got = Head(c.q)], f, e)
 <1>1. /\ c.q \in Seq(Nat) /\ c.got \in Nat /\ c.snap \in Nat /\ c.open \in BOOLEAN
       /\ c.snap <= c.got /\ c.got + Chunks(c.q) <= f
       /\ Run(c.q, c.got)
       /\ Final(c.q) => e /\ ~c.open
       /\ c.open \/ Final(c.q) => c.got + Chunks(c.q) = f
       /\ c.saw # "exited"
   BY Zenon DEF Continues, Channel
 <1>2. CASE Head(c.q) = Exited
   <2> DEFINE d == [c EXCEPT !.q = Tail(@), !.live = FALSE, !.saw = "exited"]
   <2>1. d.q = Tail(c.q) /\ d.got = c.got /\ d.snap = c.snap /\ d.open = c.open
     BY Zenon DEF Channel
   <2>2. Final(c.q) /\ Chunks(c.q) = 0 /\ Tail(c.q) = <<>>
     BY ZenonT(40), <1>1, <1>2, TailExited
   <2>3. c.got = f /\ e /\ ~c.open
     BY SMTT(20), <1>1, <2>2
   <2> HIDE DEF d
   <2>4. ~Final(d.q) /\ Chunks(d.q) = 0 /\ Run(d.q, d.got) /\ d.q = <<>>
     BY ZenonT(20), <2>1, <2>2, EmptyQueue
   <2>5. d.got + Chunks(d.q) = f /\ f <= f /\ d.snap <= d.got /\ ~d.open
     <3>1. d.got = f /\ Chunks(d.q) = 0 /\ d.snap <= d.got /\ ~d.open
       BY Zenon, <1>1, <2>1, <2>3, <2>4
     <3> QED
       BY <3>1
   <2>6. Continues(d, f, e)
     <3>1. d.got = f
       BY Zenon, <2>1, <2>3
     <3> QED
       BY Zenon, <2>3, <2>4, <2>5, <3>1 DEF Continues
   <2> QED
     BY Zenon, <1>2, <2>6 DEF d
 <1>3. CASE Head(c.q) # Exited
   <2> DEFINE d == [c EXCEPT !.q = Tail(@), !.got = Head(c.q)]
   <2>1. d.q = Tail(c.q) /\ d.got = Head(c.q) /\ d.snap = c.snap /\ d.open = c.open
          /\ d.saw = c.saw
     BY Zenon DEF Channel
   <2>2. /\ Head(c.q) = c.got + 1 /\ Run(Tail(c.q), c.got + 1)
         /\ Final(Tail(c.q)) <=> Final(c.q)
         /\ Chunks(Tail(c.q)) = Chunks(c.q) - 1 /\ Chunks(c.q) \in Nat
     BY Zenon, <1>1, <1>3, TailChunk
   <2> HIDE DEF d
   <2>3. d.got + Chunks(d.q) = c.got + Chunks(c.q) /\ d.snap <= d.got
     <3>1. d.got = c.got + 1 /\ Chunks(d.q) = Chunks(c.q) - 1 /\ d.snap = c.snap
       BY Zenon, <2>1, <2>2
     <3>2. c.got \in Nat /\ c.snap \in Nat /\ Chunks(c.q) \in Nat /\ c.snap <= c.got
       BY Zenon, <1>1, <2>2
     <3> QED
       BY SMTT(20), <3>1, <3>2
   <2>4. Continues(d, f, e)
     BY Zenon, <1>1, <2>1, <2>2, <2>3 DEF Continues
   <2> QED
     BY Zenon, <1>3, <2>4 DEF d
 <1> QED
   BY Zenon, <1>2, <1>3

\* A new attachment starts right behind its snapshot.
LEMMA NewContinues ==
    ASSUME TypeOK, NEW s \in ShellIds
    PROVE  Continues(NewChannel(s), fed[s], exit[s])
 <1>1. fed[s] \in Nat
   BY Zenon DEF TypeOK, StreamsOK
 <1>2. fed[s] + 0 = fed[s] /\ fed[s] <= fed[s]
   BY <1>1
 <1> QED
   BY Zenon, <1>2, EmptyQueue DEF NewChannel, Continues
-----------------------------------------------------------------------------
\* Every step keeps every attachment's stream exact.
LEMMA StreamStep == TypeOK /\ ExitExact /\ StreamExact /\ [Next]_vars => StreamExact'
 <1> SUFFICES ASSUME TypeOK, ExitExact, StreamExact, [Next]_vars,
                     NEW s \in ShellIds, NEW a \in DOMAIN chan'[s]
              PROVE  Continues(chan'[s][a], fed'[s], exit'[s])
   BY Zenon DEF StreamExact
 <1> DEFINE Goal == Continues(chan'[s][a], fed'[s], exit'[s])
 <1> USE DEF TypeOK, StreamsOK
 <1>1. ASSUME chan'[s] = chan[s], fed'[s] = fed[s], exit'[s] = exit[s] PROVE Goal
   BY Zenon, <1>1 DEF StreamExact
 <1>2. ASSUME NEW r \in ShellIds, NEW d \in Dims, attach_runtime(r, d) PROVE Goal
   <2>1. chan' = [chan EXCEPT ![r] = Append(@, NewChannel(r))] /\ fed' = fed /\ exit' = exit
     BY Zenon, <1>2 DEF attach_runtime
   <2>2. CASE r = s
     <3>1. chan'[s] = Append(chan[s], NewChannel(s)) /\ chan[s] \in Seq(Channel)
       BY Zenon, <2>1, <2>2
     <3>2. CASE a = Len(chan[s]) + 1
       <4>1. chan'[s][a] = NewChannel(s)
         BY <3>1, <3>2
       <4> QED
         BY Zenon, <2>1, <4>1, NewContinues
     <3>3. CASE a # Len(chan[s]) + 1
       <4>1. a \in DOMAIN chan[s] /\ chan'[s][a] = chan[s][a]
         BY SMTT(20), <3>1, <3>3
       <4> QED
         BY Zenon, <2>1, <4>1 DEF StreamExact
     <3> QED
       BY Zenon, <3>2, <3>3
   <2> QED
     BY Zenon, <1>1, <2>1, <2>2
 <1>3. ASSUME NEW r \in ShellIds, NEW b \in 1..MaxTokens,
              Detach(r, b) \/ DropReceiver(r, b) \/ Recv(r, b) \/ RecvDisconnect(r, b)
       PROVE  Goal
   <2> DEFINE c == chan[r][b]
   <2>1. b \in DOMAIN chan[r] /\ fed' = fed /\ exit' = exit
     BY Zenon, <1>3 DEF Detach, DropReceiver, Recv, RecvDisconnect, Attachments
   <2>2. c \in Channel /\ fed[r] \in Nat /\ exit[r] \in BOOLEAN
     BY SMTT(20), <2>1 DEF RuntimeOK
   <2>3. Continues(c, fed[r], exit[r])
     BY Zenon, <2>1 DEF StreamExact
   <2>4. PICK d : chan' = [chan EXCEPT ![r] = [@ EXCEPT ![b] = d]]
                  /\ Continues(d, fed[r], exit[r])
     <3>1. CASE Detach(r, b)
       <4> DEFINE d == [c EXCEPT !.open = FALSE]
       <4>1. /\ d \in Channel /\ d.q = c.q /\ d.got = c.got /\ d.snap = c.snap
             /\ ~d.open /\ d.saw = c.saw
         BY ZenonT(20), <2>2 DEF Channel
       <4>2. Continues(d, fed[r], exit[r])
         BY ZenonT(20), <2>2, <2>3, <4>1, SameStream
       <4> QED
         BY ZenonT(20), <3>1, <4>2 DEF Detach
     <3>2. CASE DropReceiver(r, b)
       <4> DEFINE d == [c EXCEPT !.live = FALSE]
       <4>1. /\ d \in Channel /\ d.q = c.q /\ d.got = c.got /\ d.snap = c.snap
             /\ d.open = c.open /\ d.saw = c.saw
         BY ZenonT(20), <2>2 DEF Channel
       <4>2. Continues(d, fed[r], exit[r])
         BY ZenonT(20), <2>2, <2>3, <4>1, SameStream
       <4> QED
         BY ZenonT(20), <3>2, <4>2 DEF DropReceiver
     <3>3. CASE Recv(r, b)
       <4>1. c.q # <<>>
         BY Zenon, <3>3 DEF Recv
       <4> DEFINE d == IF Head(c.q) = Exited
                       THEN [c EXCEPT !.q = Tail(@), !.live = FALSE, !.saw = "exited"]
                       ELSE [c EXCEPT !.q = Tail(@), !.got = Head(c.q)]
       <4>2. Continues(d, fed[r], exit[r])
         BY ZenonT(40), <2>2, <2>3, <4>1, RecvContinues
       <4> QED
         BY ZenonT(20), <3>3, <4>2 DEF Recv
     <3>4. CASE RecvDisconnect(r, b)
       <4> DEFINE d == [c EXCEPT !.live = FALSE, !.saw = "disconnect"]
       <4>1. /\ d \in Channel /\ d.q = c.q /\ d.got = c.got /\ d.snap = c.snap
             /\ d.open = c.open /\ d.saw # "exited"
         BY ZenonT(20), <2>2 DEF Channel
       <4>2. Continues(d, fed[r], exit[r])
         BY ZenonT(20), <2>2, <2>3, <4>1, SameStream
       <4> QED
         BY ZenonT(20), <3>4, <4>2 DEF RecvDisconnect
     <3> QED
       BY ZenonT(20), <1>3, <3>1, <3>2, <3>3, <3>4
   <2>5. CASE r = s /\ a = b
     BY Zenon, <2>1, <2>4, <2>5
   <2>6. CASE r = s /\ a # b
     <3>1. a \in DOMAIN chan[s] /\ chan'[s][a] = chan[s][a]
       BY Zenon, <2>1, <2>4, <2>6
     <3> QED
       BY Zenon, <2>1, <3>1 DEF StreamExact
   <2>7. CASE r # s
     BY ZenonT(40), <1>1, <2>1, <2>4, <2>7
   <2> QED
     BY Zenon, <2>5, <2>6, <2>7
 <1>4. ASSUME NEW r \in ShellIds, PumpChunk(r) PROVE Goal
   <2>1. /\ pty[r] /\ exit' = exit /\ fed' = [fed EXCEPT ![r] = @ + 1]
         /\ chan' = [chan EXCEPT ![r] = [b \in DOMAIN @ |-> Deliver(@[b], fed[r] + 1)]]
     BY Zenon, <1>4 DEF PumpChunk
   <2>2. exit[r] = FALSE
     BY Zenon, <2>1 DEF ExitExact, RuntimeOK
   <2>3. CASE r = s
     <3>0. chan'[s] = [b \in DOMAIN chan[s] |-> Deliver(chan[s][b], fed[s] + 1)]
       BY Zenon, <2>1, <2>3
     <3>1. /\ a \in DOMAIN chan[s] /\ chan'[s][a] = Deliver(chan[s][a], fed[s] + 1)
           /\ fed'[s] = fed[s] + 1 /\ exit'[s] = FALSE
       BY Zenon, <2>1, <2>2, <2>3, <3>0
     <3>2. chan[s][a] \in Channel /\ fed[s] \in Nat
       BY <3>1
     <3>3. Continues(chan[s][a], fed[s], exit[s])
       BY Zenon, <3>1 DEF StreamExact
     <3>4. Continues(chan[s][a], fed[s], FALSE)
       BY <2>2, <2>3, <3>3, Zenon
     <3> QED
       BY ZenonT(40), <3>1, <3>2, <3>4, DeliverContinues
   <2> QED
     BY Zenon, <1>1, <2>1, <2>3
 <1>5. ASSUME NEW r \in ShellIds, RecordExit(r) PROVE Goal
   <2>1. /\ exit' = [exit EXCEPT ![r] = TRUE] /\ fed' = fed
         /\ chan' = [chan EXCEPT ![r] = [b \in DOMAIN @ |-> Drain(@[b])]]
     BY Zenon, <1>5 DEF RecordExit
   <2>2. exit[r] = FALSE
     BY Zenon, <1>5 DEF RecordExit, Locked, RuntimeOK
   <2>3. CASE r = s
     <3>0. chan'[s] = [b \in DOMAIN chan[s] |-> Drain(chan[s][b])]
       BY Zenon, <2>1, <2>3
     <3>1. /\ a \in DOMAIN chan[s] /\ chan'[s][a] = Drain(chan[s][a])
           /\ fed'[s] = fed[s] /\ exit'[s] = TRUE
       BY ZenonT(40), <2>1, <2>3, <3>0 DEF RuntimeOK
     <3>2. chan[s][a] \in Channel /\ fed[s] \in Nat
       BY <3>1
     <3>3. Continues(chan[s][a], fed[s], exit[s])
       BY ZenonT(40), <3>1 DEF StreamExact
     <3>4. Continues(chan[s][a], fed[s], FALSE)
       BY <2>2, <2>3, <3>3, Zenon
     <3> QED
       BY ZenonT(20), <3>1, <3>2, <3>4, DrainContinues
   <2>4. CASE r # s
     <3>1. chan'[s] = chan[s] /\ fed'[s] = fed[s] /\ exit'[s] = exit[s]
       BY ZenonT(20), <2>1, <2>4 DEF RuntimeOK
     <3> QED
       BY Zenon, <1>1, <3>1
   <2> QED
     BY Zenon, <2>3, <2>4
 <1>6. CASE UNCHANGED <<chan, fed, exit>>
   BY ZenonT(40), <1>1, <1>6
 <1> QED
   BY Zenon, <1>2, <1>3, <1>4, <1>5, <1>6, StreamFrame

\* Every attachment sees its snapshot and then every later chunk, once and in
\* order, until it is detached; Exited only after the last chunk.
THEOREM StreamIsExact == Spec => []StreamExact
 <1>1. Init => StreamExact
   BY DEF Init, StreamExact
 <1> QED
   BY <1>1, StreamStep, TypeCorrect, ExitIsExact, PTL DEF Spec
-----------------------------------------------------------------------------
USE SessionAssumption
-----------------------------------------------------------------------------
(* What a step does to the attachments of one shell.                       *)

\* c may follow b as the channel of one attachment: it is not opened again and
\* its queue is within the bound if it was.
Follows(b, c) == /\ c.open => b.open
                 /\ Len(b.q) <= MaxQueued => Len(c.q) <= MaxQueued

\* Delivering, draining and receiving make a channel that follows.
LEMMA DeliverFollows ==
    ASSUME NEW b \in Channel, NEW n \in Nat
    PROVE  Follows(b, Deliver(b, n))
 <1> USE DEF Follows, Deliver, HasRoom, Channel
 <1>1. CASE b.open /\ HasRoom(b)
   <2>1. Len(Append(b.q, n)) = Len(b.q) + 1 /\ Len(b.q) \in Nat
     BY Zenon, AppendLength
   <2>2. Deliver(b, n).open = b.open /\ Deliver(b, n).q = Append(b.q, n)
     BY ZenonT(20), <1>1
   <2>3. Len(b.q) < MaxQueued
     BY Zenon, <1>1
   <2> HIDE DEF Deliver, HasRoom, Channel
   <2> QED BY SMTT(20), <2>1, <2>2, <2>3
 <1>2. CASE b.open /\ ~HasRoom(b)
   BY Zenon, <1>2
 <1>3. CASE ~b.open
   BY Zenon, <1>3
 <1> QED BY Zenon, <1>1, <1>2, <1>3

\* Draining at the exit makes a channel that follows.
LEMMA DrainFollows ==
    ASSUME NEW b \in Channel
    PROVE  Follows(b, Drain(b))
 <1> USE DEF Follows, Drain, HasRoom, Channel
 <1>1. CASE b.open /\ HasRoom(b)
   <2>1. Len(Append(b.q, Exited)) = Len(b.q) + 1 /\ Len(b.q) \in Nat
     <3>1. Exited \in Nat
       BY DEF Exited
     <3> QED BY Zenon, <3>1, AppendLength
   <2>2. ~Drain(b).open /\ Drain(b).q = Append(b.q, Exited)
     BY Zenon, <1>1
   <2>3. Len(b.q) < MaxQueued
     BY Zenon, <1>1
   <2> HIDE DEF Drain, HasRoom, Channel
   <2> QED BY <2>1, <2>2, <2>3
 <1>2. CASE b.open /\ ~HasRoom(b)
   BY Zenon, <1>2
 <1>3. CASE ~b.open
   BY Zenon, <1>3
 <1> QED BY Zenon, <1>1, <1>2, <1>3

\* Either the attachments of a shell only shrink, or attach_runtime adds one,
\* numbered after all others, while there is room.
Shrinks(s) == /\ Len(chan'[s]) = Len(chan[s])
              /\ \A a \in DOMAIN chan'[s] : Follows(chan[s][a], chan'[s][a])
Grows(s) == /\ chan'[s] = Append(chan[s], NewChannel(s))
            /\ Cardinality(Attachments(s)) < MaxAttachments

\* In a step a shell's attachments lose some of their channels or gain the
\* newest.
LEMMA AttachmentSteps ==
    ASSUME TypeOK, [Next]_vars, NEW s \in ShellIds
    PROVE  Shrinks(s) \/ Grows(s)
 <1> USE DEF TypeOK, StreamsOK
 <1>0. /\ chan[s] \in Seq(Channel) /\ DOMAIN chan[s] = 1..Len(chan[s]) /\ Len(chan[s]) \in Nat
       /\ \A a \in DOMAIN chan[s] : chan[s][a] \in Channel
   BY LenProperties
 <1>1. ASSUME chan'[s] = chan[s] PROVE Shrinks(s)
   BY Zenon, <1>1 DEF Shrinks, Follows
 <1>2. ASSUME NEW r \in ShellIds, NEW d \in Dims, attach_runtime(r, d)
       PROVE  Shrinks(s) \/ Grows(s)
   <2>1. CASE r = s
     BY Zenon, <1>2, <2>1 DEF attach_runtime, Grows
   <2>2. CASE r # s
     BY Zenon, <1>1, <1>2, <2>2 DEF attach_runtime
   <2> QED BY Zenon, <2>1, <2>2
 <1>3. ASSUME NEW c, NEW b \in DOMAIN chan[s], Follows(chan[s][b], c),
              chan'[s] = [chan[s] EXCEPT ![b] = c]
       PROVE  Shrinks(s)
   <2>1. DOMAIN chan'[s] = DOMAIN chan[s] /\ Len(chan'[s]) = Len(chan[s])
     <3>1. chan'[s] = [a \in 1..Len(chan[s]) |-> IF a = b THEN c ELSE chan[s][a]]
       BY ZenonT(20), <1>0, <1>3
     <3> QED BY <1>0, <3>1
   <2>2. \A a \in DOMAIN chan'[s] : chan'[s][a] = IF a = b THEN c ELSE chan[s][a]
     BY Zenon, <1>3, <2>1
   <2> QED BY ZenonT(20), <1>3, <2>1, <2>2 DEF Shrinks, Follows
 <1>4. ASSUME NEW r \in ShellIds, NEW b \in 1..MaxTokens,
              Detach(r, b) \/ DropReceiver(r, b) \/ Recv(r, b) \/ RecvDisconnect(r, b)
       PROVE  Shrinks(s)
   <2>1. CASE r # s
     BY ZenonT(20), <1>1, <1>4, <2>1 DEF Detach, DropReceiver, Recv, RecvDisconnect
   <2>2. CASE r = s
     <3> DEFINE k == chan[s][b]
     <3>1. b \in DOMAIN chan[s] /\ k \in Channel
       BY ZenonT(20), <1>0, <1>4, <2>2 DEF Detach, DropReceiver, Recv, RecvDisconnect, Attachments
     <3>2. CASE Detach(r, b)
       <4>1. chan'[s] = [chan[s] EXCEPT ![b] = [k EXCEPT !.open = FALSE]]
         BY Zenon, <2>2, <3>2 DEF Detach
       <4>2. Follows(k, [k EXCEPT !.open = FALSE])
         BY Zenon, <3>1 DEF Follows, Channel
       <4> QED BY ZenonT(20), <1>3, <3>1, <4>1, <4>2
     <3>3. CASE DropReceiver(r, b)
       <4>1. chan'[s] = [chan[s] EXCEPT ![b] = [k EXCEPT !.live = FALSE]]
         BY Zenon, <2>2, <3>3 DEF DropReceiver
       <4>2. Follows(k, [k EXCEPT !.live = FALSE])
         BY Zenon, <3>1 DEF Follows, Channel
       <4> QED BY ZenonT(20), <1>3, <3>1, <4>1, <4>2
     <3>4. CASE Recv(r, b)
       <4>1. k.q \in Seq(Nat) /\ k.q # <<>>
         BY Zenon, <2>2, <3>1, <3>4 DEF Recv, Channel
       <4>2. Len(Tail(k.q)) = Len(k.q) - 1 /\ Len(k.q) \in Nat
         BY Zenon, <4>1, HeadTailProperties, LenProperties
       <4> DEFINE c == [k EXCEPT !.q = Tail(@), !.live = FALSE, !.saw = "exited"]
                  d == [k EXCEPT !.q = Tail(@), !.got = Head(k.q)]
       <4>3. Follows(k, c)
         <5>1. c.open = k.open /\ c.q = Tail(k.q)
           BY Zenon, <3>1 DEF Channel
         <5> HIDE DEF c, k
         <5> QED BY <4>2, <5>1 DEF Follows
       <4>4. Follows(k, d)
         <5>1. d.open = k.open /\ d.q = Tail(k.q)
           BY Zenon, <3>1 DEF Channel
         <5> HIDE DEF d, k
         <5> QED BY <4>2, <5>1 DEF Follows
       <4>5. \/ chan'[s] = [chan[s] EXCEPT ![b] =
                    [k EXCEPT !.q = Tail(@), !.live = FALSE, !.saw = "exited"]]
             \/ chan'[s] = [chan[s] EXCEPT ![b] = [k EXCEPT !.q = Tail(@), !.got = Head(k.q)]]
         BY ZenonT(20), <2>2, <3>4 DEF Recv
       <4> HIDE DEF k
       <4> QED BY ZenonT(20), <1>3, <3>1, <4>3, <4>4, <4>5 DEF k
     <3>5. CASE RecvDisconnect(r, b)
       <4>1. chan'[s] = [chan[s] EXCEPT ![b] = [k EXCEPT !.live = FALSE, !.saw = "disconnect"]]
         BY Zenon, <2>2, <3>5 DEF RecvDisconnect
       <4>2. Follows(k, [k EXCEPT !.live = FALSE, !.saw = "disconnect"])
         BY Zenon, <3>1 DEF Follows, Channel
       <4> QED BY Zenon, <1>3, <3>1, <4>1, <4>2
     <3> QED BY Zenon, <1>4, <3>2, <3>3, <3>4, <3>5
   <2> QED BY Zenon, <2>1, <2>2
 <1>5. ASSUME NEW r \in ShellIds, PumpChunk(r) PROVE Shrinks(s)
   <2>1. CASE r = s
     <3>1. chan'[s] = [a \in 1..Len(chan[s]) |-> Deliver(chan[s][a], fed[s] + 1)]
       BY ZenonT(40), <1>0, <1>5, <2>1 DEF PumpChunk
     <3>2. Len(chan'[s]) = Len(chan[s]) /\ DOMAIN chan'[s] = DOMAIN chan[s]
       BY SMTT(20), <1>0, <3>1
     <3>3. fed[s] + 1 \in Nat
       OBVIOUS
     <3>4. \A a \in DOMAIN chan[s] : Follows(chan[s][a], Deliver(chan[s][a], fed[s] + 1))
       BY Zenon, <1>0, <3>3, DeliverFollows
     <3> QED BY SMTT(20), <1>0, <3>1, <3>2, <3>4 DEF Shrinks
   <2>2. CASE r # s
     BY ZenonT(40), <1>1, <1>5, <2>2 DEF PumpChunk
   <2> QED BY Zenon, <2>1, <2>2
 <1>6. ASSUME NEW r \in ShellIds, RecordExit(r) PROVE Shrinks(s)
   <2>1. CASE r = s
     <3>1. chan'[s] = [a \in 1..Len(chan[s]) |-> Drain(chan[s][a])]
       BY ZenonT(40), <1>0, <1>6, <2>1 DEF RecordExit
     <3>2. Len(chan'[s]) = Len(chan[s]) /\ DOMAIN chan'[s] = DOMAIN chan[s]
       BY <1>0, <3>1
     <3>3. \A a \in DOMAIN chan[s] : Follows(chan[s][a], Drain(chan[s][a]))
       BY Zenon, <1>0, DrainFollows
     <3> QED BY SMTT(20), <1>0, <3>1, <3>2, <3>3 DEF Shrinks
   <2>2. CASE r # s
     BY Zenon, <1>1, <1>6, <2>2 DEF RecordExit
   <2> QED BY Zenon, <2>1, <2>2
 <1> QED BY ZenonT(40), <1>1, <1>2, <1>4, <1>5, <1>6, StreamFrame
-----------------------------------------------------------------------------
(* The reaper.                                                             *)

\* The mark of a condemned shell is a number of attachments it has had.
Marked == reaper.pc = "checked" => /\ reaper.cur \in ShellIds
                                   /\ reaper.mark <= Len(chan[reaper.cur])

\* The reaper's own steps leave the attachments alone, and only the re-check
\* condemns a shell.
LEMMA ReaperFrame ==
    ASSUME TypeOK, [Next]_vars
    PROVE  \/ UNCHANGED reaper
           \/ /\ UNCHANGED chan
              /\ \/ reaper'.pc # "checked"
                 \/ \E s \in ShellIds : Expired(s, reaper.cutoff) /\ reaper' = Condemn(s)
 <1> USE DEF TypeOK, ThreadsOK
 <1>1. CASE Client
   BY ZenonT(60), <1>1 DEF Client, OpenNew, OpenReused, Attach, AttachAuthorized, attach_runtime,
               Detach, Resize, DropReceiver, Terminate, RemoveExited
 <1>2. CASE Consumer
   BY Zenon, <1>2 DEF Consumer, Recv, RecvDisconnect
 <1>3. CASE Reap
   <2>0. \A s : Skip(s).pc = "pick"
     BY Zenon DEF Skip
   <2>1. CASE ReapScan
     BY Zenon, <2>1 DEF ReapScan, reaperOnly
   <2>2. ASSUME NEW s \in ShellIds, ReapRecheck(s)
         PROVE  /\ UNCHANGED chan
                /\ \/ reaper'.pc # "checked"
                   \/ Expired(s, reaper.cutoff) /\ reaper' = Condemn(s)
     BY Zenon, <2>0, <2>2 DEF ReapRecheck, reaperOnly
   <2>3. CASE ReapTerminate
     <3>1. UNCHANGED chan
       BY Zenon, <2>3 DEF ReapTerminate, BeginTerminate
     <3>2. reaper' = [reaper EXCEPT !.pc = "killing"] \/ reaper' = Skip(reaper.cur)
       BY Zenon, <2>3 DEF ReapTerminate
     <3> QED BY Zenon, <2>0, <3>1, <3>2
   <2>4. CASE ReapGone
     BY Zenon, <2>0, <2>4 DEF ReapGone, reaperOnly
   <2>5. CASE ReapNext
     BY Zenon, <2>0, <2>5 DEF ReapNext, EndTerminate
   <2>6. CASE ReapDone
     BY Zenon, <2>6 DEF ReapDone, reaperOnly
   <2> QED BY Zenon, <1>3, <2>1, <2>2, <2>3, <2>4, <2>5, <2>6 DEF Reap
 <1>4. CASE Environment
   BY Zenon, <1>4 DEF Environment, ChildExits, TtyCloses, PumpWaitFails, RecordExit, Tick
 <1>5. ASSUME NEW s \in ShellIds, Pump(s) PROVE UNCHANGED reaper
   BY Zenon, <1>5 DEF Pump, PumpChunk, PumpEof, PumpReaped, RecordExit
 <1>6. ASSUME NEW c \in Callers, TerminateReturns(c) PROVE UNCHANGED reaper
   BY Zenon, <1>6 DEF TerminateReturns
 <1>7. CASE UNCHANGED vars
   BY Zenon, <1>7 DEF vars
 <1> QED BY ZenonT(40), <1>1, <1>2, <1>3, <1>4, <1>5, <1>6, <1>7 DEF Next

\* After a new attachment all the old ones are where they were.
LEMMA AfterAppend ==
    ASSUME NEW q \in Seq(Channel), NEW c \in Channel
    PROVE  Extended(Append(q, c), q, c) /\ DOMAIN Append(q, c) = 1..(Len(q) + 1)
 <1> DEFINE r == Append(q, c)
 <1>1. r \in Seq(Channel) /\ Extended(r, q, c)
   BY Zenon, Appended
 <1> HIDE DEF r
 <1>2. DOMAIN r = 1..Len(r)
   BY Zenon, <1>1, LenProperties
 <1>3. Len(r) = Len(q) + 1
   BY Zenon, <1>1 DEF Extended
 <1> QED BY Zenon, <1>1, <1>2, <1>3 DEF r

\* What attach registers is an open channel with an empty queue.
LEMMA NewChannelType ==
    ASSUME TypeOK, NEW s \in ShellIds
    PROVE  NewChannel(s) \in Channel /\ NewChannel(s).open /\ NewChannel(s).q = <<>>
 BY DEF TypeOK, StreamsOK, NewChannel, Channel

\* Every step keeps what the reaper saw in its re-check true of what was
\* there then.
LEMMA ReapStep ==
    ASSUME TypeOK, Marked, ReapSparesAttached, [Next]_vars
    PROVE  Marked' /\ ReapSparesAttached'
 <1>0. /\ reaper.mark \in Nat /\ \A s \in ShellIds : chan[s] \in Seq(Channel)
   BY Zenon DEF TypeOK, ThreadsOK, StreamsOK
 <1>1. CASE UNCHANGED reaper
   <2> SUFFICES ASSUME reaper.pc = "checked"
                PROVE  /\ reaper.mark <= Len(chan'[reaper.cur])
                       /\ \A a \in DOMAIN chan'[reaper.cur] :
                             chan'[reaper.cur][a].open => a > reaper.mark
     BY Zenon, <1>1 DEF Marked, ReapSparesAttached, Attachments
   <2> DEFINE s == reaper.cur
   <2>1. /\ s \in ShellIds /\ reaper.mark <= Len(chan[s])
         /\ \A a \in DOMAIN chan[s] : chan[s][a].open => a > reaper.mark
     BY Zenon DEF Marked, ReapSparesAttached, Attachments
   <2> HIDE DEF s
   <2>2. DOMAIN chan[s] = 1..Len(chan[s]) /\ Len(chan[s]) \in Nat
     BY Zenon, <1>0, <2>1, LenProperties
   <2>3. CASE Shrinks(s)
     <3>1. chan'[s] \in Seq(Channel)
       BY Zenon, <2>1, StreamType DEF TypeOK, StreamsOK
     <3>2. DOMAIN chan'[s] = 1..Len(chan'[s])
       BY Zenon, <3>1, LenProperties
     <3>3. Len(chan'[s]) = Len(chan[s])
           /\ \A a \in DOMAIN chan'[s] : chan'[s][a].open => chan[s][a].open
       BY Zenon, <2>3 DEF Shrinks, Follows
     <3>4. \A a \in DOMAIN chan'[s] : chan'[s][a].open => a > reaper.mark
       BY Zenon, <2>1, <2>2, <3>2, <3>3
     <3> QED BY Zenon, <2>1, <3>3, <3>4 DEF s
   <2>4. CASE Grows(s)
     <3>1. /\ Len(chan'[s]) = Len(chan[s]) + 1 /\ DOMAIN chan'[s] = 1..(Len(chan[s]) + 1)
           /\ \A a \in 1..Len(chan[s]) : chan'[s][a] = chan[s][a]
       <4>1. chan[s] \in Seq(Channel) /\ NewChannel(s) \in Channel
         BY Zenon, <1>0, <2>1, NewChannelType
       <4>2. chan'[s] = Append(chan[s], NewChannel(s))
         BY Zenon, <2>4 DEF Grows
       <4>3. /\ Extended(Append(chan[s], NewChannel(s)), chan[s], NewChannel(s))
             /\ DOMAIN Append(chan[s], NewChannel(s)) = 1..(Len(chan[s]) + 1)
         BY Zenon, <4>1, AfterAppend
       <4> QED BY Zenon, <4>2, <4>3 DEF Extended
     <3>2. ASSUME NEW a \in DOMAIN chan'[s], chan'[s][a].open PROVE a > reaper.mark
       <4>1. CASE a = Len(chan[s]) + 1
         BY SMTT(20), <1>0, <2>1, <2>2, <4>1
       <4>2. CASE a # Len(chan[s]) + 1
         <5>1. a \in 1..Len(chan[s])
           BY SMTT(20), <2>2, <3>1, <4>2
         <5> QED BY ZenonT(40), <2>1, <2>2, <3>1, <3>2, <5>1
       <4> QED BY Zenon, <4>1, <4>2
     <3>3. reaper.mark <= Len(chan'[s])
       BY SMTT(20), <1>0, <2>1, <2>2, <3>1
     <3> QED BY Zenon, <3>2, <3>3 DEF s
   <2> QED BY Zenon, <2>1, <2>3, <2>4, AttachmentSteps
 <1>2. CASE reaper'.pc # "checked"
   BY Zenon, <1>2 DEF Marked, ReapSparesAttached
 <1>3. ASSUME NEW s \in ShellIds, Expired(s, reaper.cutoff), reaper' = Condemn(s), UNCHANGED chan
       PROVE  Marked' /\ ReapSparesAttached'
   <2>1. /\ reaper'.cur = s /\ reaper'.mark = Len(chan[s])
     BY Zenon, <1>3 DEF Condemn, TypeOK, ThreadsOK
   <2>2. Len(chan[s]) \in Nat /\ Attachments(s) = {}
     BY Zenon, <1>0, <1>3, LenProperties DEF Expired
   <2>3. Attachments(s)' = {}
     BY Zenon, <1>3, <2>2 DEF Attachments
   <2>4. Marked'
     BY SMTT(20), <1>3, <2>1, <2>2 DEF Marked
   <2>5. ReapSparesAttached'
     BY Zenon, <2>1, <2>3 DEF ReapSparesAttached, Attachments
   <2> QED BY Zenon, <2>4, <2>5
 <1> QED BY Zenon, <1>1, <1>2, <1>3, ReaperFrame

\* Whoever was attached when the reaper condemned a shell is not killed by it.
THEOREM ReaperSparesAttached == Spec => []ReapSparesAttached
 <1>1. Init => Marked /\ ReapSparesAttached
   BY DEF Init, Marked, ReapSparesAttached
 <1>2. TypeOK /\ Marked /\ ReapSparesAttached /\ [Next]_vars => Marked' /\ ReapSparesAttached'
   BY Zenon, ReapStep
 <1> QED BY <1>1, <1>2, TypeCorrect, PTL DEF Spec
-----------------------------------------------------------------------------
(* The caps.                                                               *)

\* A finite set that takes in at most one more element stays within a bound
\* that it had not reached.
LEMMA WithinBound ==
    ASSUME NEW S, NEW T, NEW x, NEW n \in Nat, IsFiniteSet(S), T \subseteq S \cup {x},
           \/ T \subseteq S /\ Cardinality(S) <= n
           \/ Cardinality(S) < n
    PROVE  IsFiniteSet(T) /\ Cardinality(T) <= n
 <1>1. /\ IsFiniteSet(S \cup {x}) /\ Cardinality(S \cup {x}) <= Cardinality(S) + 1
       /\ Cardinality(S) \in Nat
   <2>1. Cardinality(S) \in Nat
     BY Zenon, FS_CardinalityType
   <2>2. /\ IsFiniteSet(S \cup {x})
         /\ Cardinality(S \cup {x}) = IF x \in S THEN Cardinality(S) ELSE Cardinality(S) + 1
     BY Zenon, FS_AddElement
   <2> QED BY <2>1, <2>2
 <1>2. /\ IsFiniteSet(T) /\ Cardinality(T) <= Cardinality(S \cup {x}) /\ Cardinality(T) \in Nat
   <2>1. T \in SUBSET (S \cup {x})
     BY Zenon
   <2> QED BY Zenon, <1>1, <2>1, FS_Subset, FS_CardinalityType
 <1>3. T \subseteq S => Cardinality(T) <= Cardinality(S)
   BY Zenon, FS_Subset
 <1>4. Cardinality(S \cup {x}) \in Nat
   BY ZenonT(40), <1>1, FS_CardinalityType
 <1> QED BY SMTT(20), <1>1, <1>2, <1>3, <1>4

LiveOf(u) == {s \in Live : owner[s] = u}

\* The live shells become fewer, or open_shell adds one within the caps.
LEMMA LiveSteps ==
    ASSUME TypeOK, ExitExact, Born, [Next]_vars
    PROVE  \/ Live' \subseteq Live /\ \A u \in Users : LiveOf(u)' \subseteq LiveOf(u)
           \/ \E v \in Users, r \in ShellIds :
                 /\ WithinCaps(v) /\ shells' = shells \cup {r}
                 /\ Live' \subseteq Live \cup {r}
                 /\ LiveOf(v)' \subseteq LiveOf(v) \cup {r}
                 /\ \A u \in Users : u # v => LiveOf(u)' \subseteq LiveOf(u)
 <1>1. \A s \in ShellIds : state[s] = "Exited" => state'[s] = "Exited"
   BY Zenon, ForwardStep DEF Forward
 <1>2. shells \subseteq ShellIds /\ owner \in [ShellIds -> Users \cup {NoShell}]
   BY Zenon DEF TypeOK, RegistryOK
 <1>3. ASSUME NEW v \in Users, NEW k \in Keys, NEW r \in ShellIds, NEW d \in Dims,
              OpenNew(v, k, r, d)
       PROVE  /\ WithinCaps(v) /\ shells' = shells \cup {r}
              /\ Live' \subseteq Live \cup {r}
              /\ LiveOf(v)' \subseteq LiveOf(v) \cup {r}
              /\ \A u \in Users : u # v => LiveOf(u)' \subseteq LiveOf(u)
   <2>1. /\ WithinCaps(v) /\ shells' = shells \cup {r} /\ owner' = [owner EXCEPT ![r] = v]
     BY Zenon, <1>3 DEF OpenNew
   <2> QED BY Zenon, <1>1, <1>2, <2>1 DEF Live, LiveOf
 <1>4. ASSUME shells' \subseteq shells, owner' = owner
       PROVE  Live' \subseteq Live /\ \A u \in Users : LiveOf(u)' \subseteq LiveOf(u)
   BY Zenon, <1>1, <1>2, <1>4 DEF Live, LiveOf
 <1>5. (\E r \in ShellIds : RemoveExited(r)) \/ UNCHANGED registry
           => shells' \subseteq shells /\ owner' = owner
   BY Zenon DEF RemoveExited, registry
 <1> QED BY SMTT(20), <1>3, <1>4, <1>5, RegistryFrame

CapsInv == IsFiniteSet(shells) /\ CapsHold

\* Every step keeps the caps on shells, attachments and queues.
LEMMA CapsStep ==
    ASSUME TypeOK, ExitExact, Born, CapsInv, [Next]_vars
    PROVE  CapsInv'
 <1>1. IsFiniteSet(shells)'
   <2>1. shells' \subseteq shells \/ \E r \in ShellIds : shells' = shells \cup {r}
     BY ZenonT(60), RegistryFrame DEF OpenNew, RemoveExited, registry
   <2> QED BY Zenon, <2>1, FS_Subset, FS_AddElement DEF CapsInv
 <1>2. /\ IsFiniteSet(Live) /\ \A u \in Users : IsFiniteSet(LiveOf(u))
   BY Zenon, FS_Subset DEF CapsInv, Live, LiveOf
 <1>3. /\ Cardinality(Live) <= MaxShells
       /\ MaxShellsPerUser > 0 => \A u \in Users : Cardinality(LiveOf(u)) <= MaxShellsPerUser
   BY Zenon DEF CapsInv, CapsHold, LiveOf
 <1>4. Cardinality(Live') <= MaxShells
   BY ZenonT(20), <1>2, <1>3, LiveSteps, WithinBound DEF WithinCaps
 <1>5. ASSUME MaxShellsPerUser > 0, NEW u \in Users
       PROVE  Cardinality(LiveOf(u)') <= MaxShellsPerUser
   <2>1. IsFiniteSet(LiveOf(u)) /\ Cardinality(LiveOf(u)) <= MaxShellsPerUser
     BY Zenon, <1>2, <1>3, <1>5
   <2>2. CASE LiveOf(u)' \subseteq LiveOf(u)
     BY Zenon, <2>1, <2>2, WithinBound
   <2>3. ASSUME NEW r, WithinCaps(u), LiveOf(u)' \subseteq LiveOf(u) \cup {r}
         PROVE  Cardinality(LiveOf(u)') <= MaxShellsPerUser
     <3>1. Cardinality(LiveOf(u)) < MaxShellsPerUser
       BY <1>5, <2>3 DEF WithinCaps, LiveOf
     <3> QED BY ZenonT(20), <2>1, <2>3, <3>1, WithinBound
   <2> QED BY Zenon, <2>2, <2>3, LiveSteps
 <1>6. ASSUME NEW s \in ShellIds
       PROVE  /\ Cardinality(Attachments(s)') <= MaxAttachments
              /\ \A a \in DOMAIN chan'[s] : Len(chan'[s][a].q) <= MaxQueued
   <2>1. /\ chan[s] \in Seq(Channel) /\ chan'[s] \in Seq(Channel)
     BY Zenon, StreamType DEF TypeOK, StreamsOK
   <2>2. /\ DOMAIN chan[s] = 1..Len(chan[s]) /\ Len(chan[s]) \in Nat
         /\ DOMAIN chan'[s] = 1..Len(chan'[s]) /\ Len(chan'[s]) \in Nat
     BY Zenon, <2>1, LenProperties
   <2>3. /\ Cardinality(Attachments(s)) <= MaxAttachments
         /\ \A a \in DOMAIN chan[s] : Len(chan[s][a].q) <= MaxQueued
     BY Zenon DEF CapsInv, CapsHold
   <2>4. IsFiniteSet(Attachments(s))
     <3>1. IsFiniteSet(1..Len(chan[s])) /\ Attachments(s) \subseteq 1..Len(chan[s])
       <4>1. IsFiniteSet(1..Len(chan[s]))
         <5>1. 1 \in Int /\ Len(chan[s]) \in Int
           BY <2>2
         <5> HIDE DEF TypeOK
         <5> QED BY ZenonT(20), <5>1, FS_Interval
       <4> QED BY Zenon, <2>2, <4>1 DEF Attachments
     <3> QED BY Zenon, <3>1, FS_Subset
   <2>5. CASE Shrinks(s)
     <3>1. Attachments(s)' \subseteq Attachments(s)
       BY Zenon, <2>2, <2>5 DEF Shrinks, Follows, Attachments
     <3>2. \A a \in DOMAIN chan'[s] : Len(chan'[s][a].q) <= MaxQueued
       BY Zenon, <2>2, <2>3, <2>5 DEF Shrinks, Follows
     <3> QED BY ZenonT(20), <2>3, <2>4, <3>1, <3>2, WithinBound
   <2>6. CASE Grows(s)
     <3>1. /\ DOMAIN chan'[s] = 1..(Len(chan[s]) + 1)
           /\ \A a \in 1..Len(chan[s]) : chan'[s][a] = chan[s][a]
           /\ chan'[s][Len(chan[s]) + 1] = NewChannel(s)
       <4>1. chan[s] \in Seq(Channel) /\ NewChannel(s) \in Channel
         BY Zenon, <2>1, NewChannelType
       <4>2. chan'[s] = Append(chan[s], NewChannel(s))
         BY Zenon, <2>6 DEF Grows
       <4>3. /\ Extended(Append(chan[s], NewChannel(s)), chan[s], NewChannel(s))
             /\ DOMAIN Append(chan[s], NewChannel(s)) = 1..(Len(chan[s]) + 1)
         BY ZenonT(40), <4>1, AfterAppend
       <4> QED BY Zenon, <4>2, <4>3 DEF Extended
     <3>2. \A a \in DOMAIN chan'[s] : a \in DOMAIN chan[s] \/ a = Len(chan[s]) + 1
       BY SMTT(20), <2>2, <3>1
     <3>3. Attachments(s)' \subseteq Attachments(s) \cup {Len(chan[s]) + 1}
       BY ZenonT(20), <2>2, <3>1, <3>2 DEF Attachments
     <3>4. Len(NewChannel(s).q) <= MaxQueued
       BY NewChannelType
     <3>5. \A a \in DOMAIN chan'[s] : Len(chan'[s][a].q) <= MaxQueued
       BY ZenonT(20), <2>2, <2>3, <3>1, <3>2, <3>4
     <3>6. Cardinality(Attachments(s)) < MaxAttachments
       BY Zenon, <2>6 DEF Grows
     <3> QED BY ZenonT(60), <2>4, <3>3, <3>5, <3>6, WithinBound
   <2> QED BY Zenon, <2>5, <2>6, AttachmentSteps
 <1>7. CapsHold'
   BY Zenon, <1>4, <1>5, <1>6 DEF CapsHold, LiveOf
 <1> QED BY Zenon, <1>1, <1>7 DEF CapsInv

\* The caps on shells, shells per user, attachments per shell and queued chunks
\* hold at all times, for every value of the limits.
THEOREM CapsAlwaysHold == Spec => []CapsHold
 <1>1. Init => CapsInv
   <2> SUFFICES ASSUME Init PROVE CapsInv
     BY Zenon
   <2>1. shells = {} /\ Live = {} /\ \A u \in Users : {s \in Live : owner[s] = u} = {}
     BY Zenon DEF Init, Live
   <2>2. \A s \in ShellIds : chan[s] = <<>> /\ DOMAIN chan[s] = {} /\ Attachments(s) = {}
     BY DEF Init, Attachments
   <2>3. IsFiniteSet(shells)
     BY Zenon, <2>1, FS_EmptySet
   <2>4. Cardinality({}) = 0
     BY Zenon, FS_EmptySet
   <2>5. /\ Cardinality(Live) <= MaxShells
         /\ \A u \in Users : Cardinality({s \in Live : owner[s] = u}) = 0
     BY <2>1, <2>4
   <2>6. ASSUME NEW s \in ShellIds PROVE Cardinality(Attachments(s)) <= MaxAttachments
     <3>1. Attachments(s) = {}
       BY Zenon, <2>2
     <3>2. Cardinality(Attachments(s)) = 0
       BY Zenon, <2>4, <3>1
     <3> QED BY <3>2
   <2>7. /\ MaxShellsPerUser > 0 => \A u \in Users :
               Cardinality({s \in Live : owner[s] = u}) <= MaxShellsPerUser
     BY <2>5
   <2>8. \A s \in ShellIds : \A a \in DOMAIN chan[s] : Len(chan[s][a].q) <= MaxQueued
     BY Zenon, <2>2
   <2> QED BY Zenon, <2>3, <2>5, <2>6, <2>7, <2>8 DEF CapsInv, CapsHold
 <1>2. TypeOK /\ ExitExact /\ Born /\ CapsInv /\ [Next]_vars => CapsInv'
   BY Zenon, CapsStep
 <1>3. CapsInv => CapsHold
   BY Zenon DEF CapsInv
 <1> QED BY <1>1, <1>2, <1>3, TypeCorrect, ExitIsExact, BornInvariant, PTL DEF Spec

=============================================================================

--------------------------- MODULE ForwardProofs ---------------------------
(***************************************************************************)
(* Both directions of a TCP forward implement a pipe with one item under   *)
(* way, and a relay that ends well has moved everything, for any number of *)
(* chunks, permits and forwards.                                           *)
(*                                                                         *)
(* The step of the pipe that is hard to justify is the relay's read: it    *)
(* looks at its own flag only.  The invariant follows the one item from    *)
(* place to place (the channel, the queue, the writer's hand), then its    *)
(* acknowledgement the same way back, and says that it is in one of them.  *)
(*                                                                         *)
(* Stop-and-wait never aborts itself: without a timeout, an error, a stop  *)
(* or a lost link, neither side meets a frame it refuses (NoSelfAbort).    *)
(* The invariant says of each direction what may be in its channel: the    *)
(* answer to the opening first, one item or one acknowledgement at a time, *)
(* and a Fin last.                                                         *)
(***************************************************************************)
EXTENDS TcpForward, Integers, TLAPS
-----------------------------------------------------------------------------
(* Facts about sequences.  They are stated here because SequenceTheorems   *)
(* would put all of its facts into the context of every obligation.        *)

\* Elements of a sequence are of its type.
LEMMA ElementOfSeq ==
    ASSUME NEW S, NEW q \in Seq(S), NEW n \in 1 .. Len(q)
    PROVE  q[n] \in S
  OBVIOUS

\* What a sequence's length and domain are.
LEMMA LenProperties ==
    ASSUME NEW S, NEW q \in Seq(S)
    PROVE  Len(q) \in Nat /\ q \in [1 .. Len(q) -> S] /\ DOMAIN q = 1 .. Len(q)
  OBVIOUS

\* Sequences with the same elements are equal.
LEMMA SeqEqual ==
    ASSUME NEW S, NEW p \in Seq(S), NEW q \in Seq(S), Len(p) = Len(q),
           \A i \in 1 .. Len(p) : p[i] = q[i]
    PROVE  p = q
  OBVIOUS

\* What Head and Tail of a sequence that is not empty are.
LEMMA HeadTailProperties ==
    ASSUME NEW S, NEW q \in Seq(S), q # <<>>
    PROVE  /\ Head(q) \in S /\ Tail(q) \in Seq(S) /\ Len(Tail(q)) = Len(q) - 1
           /\ \A i \in 1 .. Len(Tail(q)) : Tail(q)[i] = q[i + 1]
  OBVIOUS

\* What Append gives.
LEMMA AppendProperties ==
    ASSUME NEW S, NEW q \in Seq(S), NEW e \in S
    PROVE  /\ Append(q, e) \in Seq(S) /\ Append(q, e) # <<>> /\ Len(Append(q, e)) = Len(q) + 1
           /\ \A i \in 1 .. Len(q) : Append(q, e)[i] = q[i]
           /\ Append(q, e)[Len(q) + 1] = e
  OBVIOUS

\* The empty sequence, and the length of one that is not empty.
LEMMA EmptySeq ==
    ASSUME NEW S
    PROVE  <<>> \in Seq(S) /\ Len(<<>>) = 0 /\ \A q \in Seq(S) : q # <<>> => Len(q) \in Nat \ {0}
  OBVIOUS
-----------------------------------------------------------------------------
(* What is under way.                                                      *)

Kinds == {"Open", "Opened", "Ack", "Data", "Eof", "Fin", "Error", "none"}
Frames == [kind : Kinds, chunk : Nat]

Items == {"Data", "Eof"}
Acks == {"Ack"}

Has(q, K) == \E i \in 1..Len(q) : q[i].kind \in K
Single(q, K) == \A i, j \in 1..Len(q) : q[i].kind \in K /\ q[j].kind \in K => i = j
Carries(q, n) == \A i \in 1..Len(q) : q[i].kind \in Items => Item(q[i]) = n

\* r holds no items, no acknowledgements that q does not.
FewerItems(q, r) ==
    /\ (Has(r, Items) => Has(q, Items)) /\ (Single(q, Items) => Single(r, Items))
    /\ \A n \in Nat : Carries(q, n) => Carries(r, n)
FewerAcks(q, r) ==
    (Has(r, Acks) => Has(q, Acks)) /\ (Single(q, Acks) => Single(r, Acks))
Fewer(q, r) == r \in Seq(Frames) /\ FewerItems(q, r) /\ FewerAcks(q, r)
-----------------------------------------------------------------------------
(* Queues of frames.                                                       *)

\* A channel after a frame was sent.
LEMMA Appended ==
    ASSUME NEW q \in Seq(Frames), NEW f \in Frames
    PROVE  /\ Len(q) \in Nat /\ Append(q, f) \in Seq(Frames)
           /\ Len(Append(q, f)) = Len(q) + 1
           /\ Append(q, f)[Len(q) + 1] = f
           /\ \A i \in 1..Len(q) : Append(q, f)[i] = q[i]
BY LenProperties, AppendProperties

\* A channel after a frame was taken.
LEMMA Tailed ==
    ASSUME NEW q \in Seq(Frames), q # <<>>
    PROVE  /\ Len(q) \in Nat /\ Len(q) >= 1 /\ Head(q) = q[1] /\ Head(q) \in Frames
           /\ Tail(q) \in Seq(Frames) /\ Len(Tail(q)) = Len(q) - 1
           /\ \A i \in 1..(Len(q) - 1) : Tail(q)[i] = q[i + 1]
BY LenProperties, HeadTailProperties

\* A frame of kind K is put in.
LEMMA PutsIn ==
    ASSUME NEW q \in Seq(Frames), NEW f \in Frames, NEW K
    PROVE  /\ Has(Append(q, f), K) => Has(q, K) \/ f.kind \in K
           /\ Single(q, K) /\ (f.kind \in K => ~Has(q, K)) => Single(Append(q, f), K)
<1> DEFINE r == Append(q, f)
<1>1. /\ Len(q) \in Nat /\ Len(r) = Len(q) + 1 /\ r[Len(q) + 1] = f
      /\ \A i \in 1..Len(q) : r[i] = q[i]
    BY Zenon, Appended
<1> HIDE DEF r
<1>2. \A i \in 1..Len(r) : i \in 1..Len(q) \/ i = Len(q) + 1
    BY <1>1
<1>3. Has(r, K) => Has(q, K) \/ f.kind \in K
    BY Zenon, <1>1, <1>2 DEF Has
<1>4. ASSUME Single(q, K), f.kind \in K => ~Has(q, K) PROVE Single(r, K)
    BY Zenon, <1>1, <1>2, <1>4 DEF Has, Single
<1> QED BY Zenon, <1>3, <1>4 DEF r

\* A frame put into a channel that carries item n, if an item, is n.
LEMMA PutsInItem ==
    ASSUME NEW q \in Seq(Frames), NEW f \in Frames, NEW n,
           Carries(q, n), f.kind \in Items => Item(f) = n
    PROVE  Carries(Append(q, f), n)
<1> DEFINE r == Append(q, f)
<1>1. /\ Len(q) \in Nat /\ Len(r) = Len(q) + 1 /\ r[Len(q) + 1] = f
      /\ \A i \in 1..Len(q) : r[i] = q[i]
    BY Zenon, Appended
<1> HIDE DEF r
<1>2. \A i \in 1..Len(r) : i \in 1..Len(q) \/ i = Len(q) + 1
    BY <1>1
<1>3. Carries(r, n)
    BY Zenon, <1>1, <1>2 DEF Carries
<1> QED BY Zenon, <1>3 DEF r

\* A channel without items carries any.
LEMMA NoItemCarries ==
    ASSUME NEW q, NEW n, ~Has(q, Items)
    PROVE  Carries(q, n)
BY Zenon DEF Has, Carries

\* The head is taken.
LEMMA TakesOut ==
    ASSUME NEW q \in Seq(Frames), q # <<>>, NEW K
    PROVE  /\ Has(Tail(q), K) => Has(q, K)
           /\ Single(q, K) => Single(Tail(q), K)
           /\ Head(q).kind \in K => Has(q, K)
           /\ Single(q, K) /\ Head(q).kind \in K => ~Has(Tail(q), K)
<1> DEFINE r == Tail(q)
<1>1. /\ Len(q) \in Nat /\ Len(q) >= 1 /\ Head(q) = q[1] /\ Len(r) = Len(q) - 1
      /\ \A i \in 1..(Len(q) - 1) : r[i] = q[i + 1]
    BY Zenon, Tailed
<1> HIDE DEF r
<1>2. \A i \in 1..Len(r) : i + 1 \in 1..Len(q) /\ r[i] = q[i + 1] /\ i + 1 # 1
    BY <1>1
<1>3. 1 \in 1..Len(q)
    BY <1>1
<1>4. Has(r, K) => Has(q, K)
    BY Zenon, <1>2 DEF Has
<1>5. Single(q, K) => Single(r, K)
    <2> SUFFICES ASSUME Single(q, K), NEW i \in 1..Len(r), NEW j \in 1..Len(r),
                        r[i].kind \in K, r[j].kind \in K
                 PROVE  i = j
        BY Zenon DEF Single
    <2>1. i + 1 = j + 1
        BY Zenon, <1>2 DEF Single
    <2> QED BY <2>1, <1>1
<1>6. Head(q).kind \in K => Has(q, K)
    BY Zenon, <1>1, <1>3 DEF Has
<1>7. Single(q, K) /\ Head(q).kind \in K => ~Has(r, K)
    BY Zenon, <1>1, <1>2, <1>3 DEF Single, Has
<1> QED BY Zenon, <1>4, <1>5, <1>6, <1>7 DEF r

\* An item taken from a channel that carries n is n.
LEMMA TakesOutItem ==
    ASSUME NEW q \in Seq(Frames), q # <<>>, NEW n, Carries(q, n)
    PROVE  /\ Carries(Tail(q), n)
           /\ Head(q).kind \in Items => Item(Head(q)) = n
<1> DEFINE r == Tail(q)
<1>1. /\ Len(q) \in Nat /\ Len(q) >= 1 /\ Head(q) = q[1] /\ Len(r) = Len(q) - 1
      /\ \A i \in 1..(Len(q) - 1) : r[i] = q[i + 1]
    BY Zenon, Tailed
<1> HIDE DEF r
<1>2. \A i \in 1..Len(r) : i + 1 \in 1..Len(q) /\ r[i] = q[i + 1]
    BY <1>1
<1>3. 1 \in 1..Len(q)
    BY <1>1
<1>4. Carries(r, n) /\ (Head(q).kind \in Items => Item(Head(q)) = n)
    BY Zenon, <1>1, <1>2, <1>3 DEF Carries
<1> QED BY Zenon, <1>4 DEF r

\* An unchanged channel has no more items and acknowledgements.
LEMMA FewerSame == ASSUME NEW q \in Seq(Frames) PROVE Fewer(q, q)
BY Zenon DEF Fewer, FewerItems, FewerAcks

\* Neither has an empty one.
LEMMA FewerNone == ASSUME NEW q \in Seq(Frames) PROVE Fewer(q, <<>>)
BY DEF Fewer, FewerItems, FewerAcks, Has, Single, Carries

\* Neither has one from which a frame was taken.
LEMMA FewerTail == ASSUME NEW q \in Seq(Frames), q # <<>> PROVE Fewer(q, Tail(q))
BY Zenon, Tailed, TakesOut, TakesOutItem DEF Fewer, FewerItems, FewerAcks

\* Neither has one with one more frame of another kind.
LEMMA FewerWithout ==
    ASSUME NEW q \in Seq(Frames), NEW f \in Frames
    PROVE  /\ f.kind \notin Items => FewerItems(q, Append(q, f))
           /\ f.kind \notin Acks => FewerAcks(q, Append(q, f))
BY Zenon, PutsIn, PutsInItem DEF FewerItems, FewerAcks

\* Frames that are no part of the flow.
LEMMA FewerOther ==
    ASSUME NEW q \in Seq(Frames), NEW f \in Frames, f.kind \in {"Fin", "Error", "Open", "Opened"}
    PROVE  Fewer(q, Append(q, f))
<1>1. f.kind \notin Items /\ f.kind \notin Acks
    BY Zenon DEF Items, Acks
<1> QED BY Zenon, <1>1, Appended, FewerWithout DEF Fewer
-----------------------------------------------------------------------------
(* The invariant.                                                          *)

ForwardTypes ==
    /\ relay \in {"handshake", "opening", "relay", "writing", "done", "failed"}
    /\ task \in {"none", "connecting", "running", "ended"}
    /\ upstream \in {"none", "recv", "write", "ack", "done"}
    /\ downstream \in {"none", "read", "send", "wait", "done"}
    /\ c2d \in Seq(Frames) /\ d2c \in Seq(Frames)
    /\ inputQ \in Seq(Frames) /\ ackQ \in Seq(Frames)
    /\ upHolds \in Frames /\ downHolds \in Frames /\ relayHolds \in Frames
    /\ upGiven \in Seq(Nat) /\ upGotten \in Seq(Nat)
    /\ downGiven \in Seq(Nat) /\ downGotten \in Seq(Nat)
    /\ active \in Nat /\ others \in Nat

\* A forward is opened once, and the two loops start with the task.
OpenedOnce ==
    /\ Single(c2d, {"Open"})
    /\ relay = "handshake" => task = "none" /\ ~Has(c2d, {"Open"})
    /\ Has(c2d, {"Open"}) => task = "none"
    /\ forwardBinding => task # "none"
    /\ task \in {"none", "connecting"} => upstream = "none" /\ downstream = "none"

\* The item of the upward direction is on its way to the destination ...
UpFlying  == waitingAck /\ Len(upGiven) = Len(upGotten) + 1
\* ... or everything has arrived.
UpSettled == Len(upGiven) = Len(upGotten)

\* Where the item is, and then where its acknowledgement is.
UpFlow ==
    /\ Single(c2d, Items) /\ Single(d2c, Acks)
    /\ Has(c2d, Items) =>
           /\ UpFlying /\ Carries(c2d, upGiven[Len(upGiven)])
           /\ inputQ = <<>> /\ upstream \notin {"write", "ack"}
    /\ inputQ # <<>> =>
           /\ UpFlying /\ Item(Head(inputQ)) = upGiven[Len(upGiven)]
           /\ Tail(inputQ) = <<>> /\ upstream \notin {"write", "ack"}
    /\ upstream = "write" => UpFlying /\ Item(upHolds) = upGiven[Len(upGiven)]
    /\ upstream = "ack" => waitingAck /\ UpSettled
    /\ Has(d2c, Acks) => waitingAck /\ UpSettled /\ upstream # "ack"
    /\ ~waitingAck => UpSettled
    /\ ~localEof => upGiven = <<>> \/ upGiven[Len(upGiven)] # Eof

DownFlying  == Len(downGiven) = Len(downGotten) + 1
DownSettled == Len(downGiven) = Len(downGotten)

\* The same from the destination; the daemon's loop itself waits.
DownFlow ==
    /\ Single(d2c, Items) /\ Single(c2d, Acks)
    /\ downstream = "send" =>
           /\ DownFlying /\ downHolds.kind \in Items
           /\ Item(downHolds) = downGiven[Len(downGiven)]
    /\ Has(d2c, Items) =>
           /\ DownFlying /\ Carries(d2c, downGiven[Len(downGiven)])
           /\ downstream = "wait" /\ relay # "writing"
    /\ relay = "writing" =>
           /\ DownFlying /\ Item(relayHolds) = downGiven[Len(downGiven)]
           /\ downstream = "wait"
    /\ Has(c2d, Acks) => DownSettled /\ downstream = "wait" /\ ackQ = <<>>
    /\ ackQ # <<>> => DownSettled /\ downstream = "wait" /\ Tail(ackQ) = <<>>
    /\ downstream \in {"none", "read"} =>
           DownSettled /\ (downGiven = <<>> \/ downGiven[Len(downGiven)] # Eof)
    /\ downstream \in {"send", "wait"} /\ downHolds.kind # "Eof" =>
           downGiven = <<>> \/ downGiven[Len(downGiven)] # Eof

\* The application is told what the daemon has reached.
Granting ==
    /\ Has(d2c, {"Opened"}) => upstream # "none"
    /\ told = "granted" => upstream # "none" /\ relay \notin {"handshake", "opening"}
    /\ relay \in {"relay", "writing", "done"} => told = "granted"
    /\ upGiven # <<>> => told = "granted"

ForwardInv == /\ ForwardTypes /\ OpenedOnce /\ UpFlow /\ DownFlow /\ Granting
              /\ ForwardPermitsExact
-----------------------------------------------------------------------------
(* Types.                                                                  *)

\* Frames are well typed and items are numbers.
LEMMA FrameTyped ==
    /\ \A k \in Kinds, n \in Nat : Frame(k, n) \in Frames /\ Frame(k, n).kind = k
    /\ \A f \in Frames : Item(f) \in Nat
BY Zenon DEF Frame, Frames, Item, Eof

\* What is read from an end of the connection is the next item or the end.
LEMMA ReadsTyped ==
    ASSUME NEW given \in Seq(Nat), NEW f \in Reads(given)
    PROVE  /\ f \in Frames /\ f.kind \in Items /\ Item(f) \in {Len(given) + 1, Eof}
           /\ Item(f) = Eof <=> f.kind = "Eof"
           /\ Len(given) \in Nat /\ Append(given, Item(f)) \in Seq(Nat)
           /\ Len(Append(given, Item(f))) = Len(given) + 1
           /\ Append(given, Item(f))[Len(given) + 1] = Item(f)
<1>1. Len(given) \in Nat
    BY Zenon, LenProperties
<1>2. f = Frame("Eof", 0) \/ f = Frame("Data", Len(given) + 1)
    BY Zenon DEF Reads
<1>3. /\ f \in Frames /\ f.kind \in Items /\ Item(f) \in {Len(given) + 1, Eof}
      /\ Item(f) = Eof <=> f.kind = "Eof"
      /\ Item(f) \in Nat
    BY <1>1, <1>2 DEF Frame, Frames, Kinds, Items, Item, Eof
<1> QED BY <1>1, <1>3, AppendProperties

\* Sending to the daemon keeps the channel's type.
LEMMA ToDaemonTyped ==
    ASSUME ForwardTypes, NEW f \in Frames, ToDaemon(f)
    PROVE  c2d' \in Seq(Frames)
BY Zenon, Appended DEF ToDaemon, ForwardTypes

\* Sending to the client keeps the channel's type.
LEMMA ToClientTyped ==
    ASSUME ForwardTypes, NEW f \in Frames, ToClient(f)
    PROVE  d2c' \in Seq(Frames)
BY Zenon, Appended DEF ToClient, ForwardTypes

\* One more item delivered keeps the type.
LEMMA GottenTyped ==
    ASSUME NEW s \in Seq(Nat), NEW n \in Nat
    PROVE  Append(s, n) \in Seq(Nat) /\ Len(Append(s, n)) = Len(s) + 1 /\ Len(s) \in Nat
BY Zenon, AppendProperties, LenProperties

\* The relay's steps keep the types.
LEMMA RelayTypes ==
    ASSUME ForwardTypes, RelaySteps \/ relay_gives_up
    PROVE  ForwardTypes'
<1>0. /\ Frame("Fin", 0) \in Frames /\ Frame("Open", 0) \in Frames
      /\ Frame("Ack", 0) \in Frames
    BY Zenon, FrameTyped DEF Kinds
<1> USE DEF ForwardTypes, bindVars, taskVars, permitVars
<1>1. CASE request
    BY Zenon, <1>0, <1>1, ToDaemonTyped DEF request
<1>2. CASE serve
    <2>1. c2d' \in Seq(Frames) /\ d2c' \in Seq(Frames)
        BY Zenon, <1>0, <1>2, ToDaemonTyped, Tailed DEF serve
    <2> QED BY Zenon, <1>2, <2>1 DEF serve
<1>3. CASE relay_reads
    <2>1. PICK f \in Reads(upGiven) : upGiven' = Append(upGiven, Item(f)) /\ ToDaemon(f)
        BY Zenon, <1>3 DEF relay_reads
    <2>2. c2d' \in Seq(Frames) /\ upGiven' \in Seq(Nat)
        BY Zenon, <2>1, ReadsTyped, ToDaemonTyped
    <2> QED BY Zenon, <1>3, <2>2 DEF relay_reads
<1>4. CASE relay_receives
    <2>1. d2c' \in Seq(Frames) /\ Head(d2c) \in Frames
        BY Zenon, <1>4, Tailed DEF relay_receives
    <2>2. c2d' \in Seq(Frames)
        BY Zenon, <1>0, <1>4, ToDaemonTyped DEF relay_receives
    <2>3. relay' \in {relay, "writing", "failed"} /\ relayHolds' \in {relayHolds, Head(d2c)}
        BY Zenon, <1>4 DEF relay_receives
    <2> QED BY Zenon, <1>4, <2>1, <2>2, <2>3 DEF relay_receives
<1>5. CASE relay_writes
    <2>1. c2d' \in Seq(Frames) /\ downGotten' \in Seq(Nat)
        BY Zenon, <1>0, <1>5, ToDaemonTyped, GottenTyped, FrameTyped DEF relay_writes
    <2> QED BY Zenon, <1>5, <2>1 DEF relay_writes
<1>6. CASE relay_ends
    BY Zenon, <1>0, <1>6, ToDaemonTyped DEF relay_ends
<1>7. CASE relay_gives_up
    BY Zenon, <1>0, <1>7, ToDaemonTyped DEF relay_gives_up, RelayFails
<1> QED BY Zenon, <1>1, <1>2, <1>3, <1>4, <1>5, <1>6, <1>7 DEF RelaySteps

\* So do the daemon's.
LEMMA DaemonTypes ==
    ASSUME ForwardTypes, ForwardPermitsExact,
           \/ DispatchSteps \/ connect \/ UpstreamSteps \/ DownstreamSteps
           \/ task_ends \/ task_fails \/ CutLink \/ Others
    PROVE  ForwardTypes'
<1>0. /\ Frame("Error", 0) \in Frames /\ Frame("Opened", 0) \in Frames
      /\ Frame("Ack", 0) \in Frames
    BY Zenon, FrameTyped DEF Kinds
<1>a. ASSUME Release PROVE active' \in Nat
    BY <1>a DEF Release, ForwardPermitsExact, TaskAlive, ForwardTypes
<1> USE DEF ForwardTypes, relayVars, bindVars, taskVars, permitVars
<1>1. CASE open_forward
    <2>1. c2d' \in Seq(Frames) /\ d2c' \in Seq(Frames) /\ active' \in Nat
        BY SMTT(20), <1>0, <1>1, Tailed, ToClientTyped DEF open_forward
    <2> QED BY Zenon, <1>1, <2>1 DEF open_forward
<1>2. CASE message
    <2>1. c2d' \in Seq(Frames) /\ Head(c2d) \in Frames
        BY Zenon, <1>2, Tailed DEF message
    <2>2. inputQ' \in {inputQ, Append(inputQ, Head(c2d))}
          /\ ackQ' \in {ackQ, Append(ackQ, Head(c2d))} /\ task' \in {task, "ended"}
        BY Zenon, <1>2 DEF message
    <2>3. inputQ' \in Seq(Frames) /\ ackQ' \in Seq(Frames)
        <3>1. Append(inputQ, Head(c2d)) \in Seq(Frames) /\ Append(ackQ, Head(c2d)) \in Seq(Frames)
            BY Zenon, <2>1, Appended
        <3> QED BY ZenonT(20), <2>2, <3>1
    <2>4. (active' = active \/ Release) /\ (d2c' = d2c \/ ToClient(Frame("Error", 0)))
        BY Zenon, <1>2 DEF message
    <2>5. active' \in Nat /\ d2c' \in Seq(Frames)
        BY Zenon, <1>0, <1>a, <2>4, ToClientTyped
    <2> QED BY <1>2, <2>1, <2>2, <2>3, <2>5 DEF message
<1>3. CASE unbind
    <2>1. c2d' \in Seq(Frames) /\ active' \in Nat
        BY ZenonT(20), <1>a, <1>3, Tailed DEF unbind
    <2> QED BY Zenon, <1>3, <2>1 DEF unbind
<1>4. CASE connect
    BY Zenon, <1>0, <1>4, ToClientTyped DEF connect
<1>5. CASE up_recv
    <2>1. inputQ' \in Seq(Frames) /\ upHolds' \in Frames
        BY Zenon, <1>5, Tailed DEF up_recv
    <2> QED BY Zenon, <1>5, <2>1 DEF up_recv
<1>6. CASE up_write
    <2>1. upGotten' \in Seq(Nat)
        BY Zenon, <1>6, GottenTyped, FrameTyped DEF up_write
    <2> QED BY Zenon, <1>6, <2>1 DEF up_write
<1>7. CASE up_ack
    BY Zenon, <1>0, <1>7, ToClientTyped DEF up_ack
<1>8. CASE down_read
    <2>1. PICK f \in Reads(downGiven) : downGiven' = Append(downGiven, Item(f)) /\ downHolds' = f
        BY Zenon, <1>8 DEF down_read
    <2>2. downHolds' \in Frames /\ downGiven' \in Seq(Nat)
        BY Zenon, <2>1, ReadsTyped
    <2> QED BY Zenon, <1>8, <2>2 DEF down_read
<1>9. CASE down_send
    BY Zenon, <1>9, ToClientTyped DEF down_send
<1>10. CASE down_acked
    <2>1. ackQ' \in Seq(Frames)
        BY Zenon, <1>10, Tailed DEF down_acked
    <2> QED BY Zenon, <1>10, <2>1 DEF down_acked
<1>11. CASE task_ends
    BY Zenon, <1>a, <1>11 DEF task_ends
<1>12. CASE task_fails
    BY Zenon, <1>0, <1>a, <1>12, ToClientTyped DEF task_fails
<1>13. CASE CutLink
    BY <1>13 DEF CutLink
<1>14. CASE Others
    BY SMTT(20), <1>14 DEF Others, ForwardPermitsExact
<1> QED BY Zenon, <1>1, <1>2, <1>3, <1>4, <1>5, <1>6, <1>7, <1>8, <1>9, <1>10, <1>11, <1>12,
           <1>13, <1>14 DEF DispatchSteps, UpstreamSteps, DownstreamSteps
-----------------------------------------------------------------------------
(* What a send does to a channel.                                          *)

\* Sending to the daemon adds the frame's kind only, and keeps a single one
\* single.
LEMMA DaemonHears ==
    ASSUME ForwardTypes, NEW f \in Frames, ToDaemon(f), NEW K
    PROVE  /\ Has(c2d', K) => Has(c2d, K) \/ f.kind \in K
           /\ Single(c2d, K) /\ (f.kind \in K => ~Has(c2d, K)) => Single(c2d', K)
BY Zenon, PutsIn DEF ToDaemon, ForwardTypes

\* Sending to the client adds the frame's kind only, and keeps a single one
\* single.
LEMMA ClientHears ==
    ASSUME ForwardTypes, NEW f \in Frames, ToClient(f), NEW K
    PROVE  /\ Has(d2c', K) => Has(d2c, K) \/ f.kind \in K
           /\ Single(d2c, K) /\ (f.kind \in K => ~Has(d2c, K)) => Single(d2c', K)
BY Zenon, PutsIn DEF ToClient, ForwardTypes

\* Fin and Open are neither items nor acknowledgements.
LEMMA FewerToDaemon ==
    ASSUME ForwardTypes, NEW k \in {"Fin", "Open"}, ToDaemon(Frame(k, 0))
    PROVE  Fewer(c2d, c2d')
<1>0. k \in Kinds
    BY Zenon DEF Kinds
<1>1. Frame(k, 0) \in Frames /\ Frame(k, 0).kind = k
    BY Zenon, <1>0, FrameTyped
<1> QED BY Zenon, <1>1, FewerOther, FewerSame DEF ToDaemon, ForwardTypes

\* Error and Opened are neither items nor acknowledgements.
LEMMA FewerToClient ==
    ASSUME ForwardTypes, NEW k \in {"Error", "Opened"}, ToClient(Frame(k, 0))
    PROVE  Fewer(d2c, d2c')
<1>0. k \in Kinds
    BY Zenon DEF Kinds
<1>1. Frame(k, 0) \in Frames /\ Frame(k, 0).kind = k
    BY Zenon, <1>0, FrameTyped
<1> QED BY Zenon, <1>1, FewerOther, FewerSame DEF ToClient, ForwardTypes

\* Opens are on the channel only once.
LEMMA OpensTailed ==
    ASSUME ForwardTypes, c2d # <<>>, c2d' = Tail(c2d)
    PROVE  /\ Has(c2d', {"Open"}) => Has(c2d, {"Open"})
           /\ Single(c2d, {"Open"}) => Single(c2d', {"Open"})
BY Zenon, TakesOut DEF ForwardTypes
-----------------------------------------------------------------------------
(* One opening.                                                            *)

\* A step that puts no Open in and at most ends the task.
LEMMA OpenKeeps ==
    ASSUME ForwardInv,
           Has(c2d', {"Open"}) => Has(c2d, {"Open"}), Single(c2d', {"Open"}),
           relay' = "handshake" => relay = "handshake",
           forwardBinding' => forwardBinding,
           task' = task \/ (task # "none" /\ task' = "ended"),
           task' \in {"none", "connecting"} => UNCHANGED <<upstream, downstream>>
    PROVE  OpenedOnce'
BY Zenon DEF ForwardInv, OpenedOnce

\* The relay opens a forward once.
LEMMA RelayOpens ==
    ASSUME ForwardInv, RelaySteps \/ relay_gives_up
    PROVE  OpenedOnce'
<1>0. /\ ForwardTypes /\ Single(c2d, {"Open"})
      /\ \A k \in Kinds : Frame(k, 0) \in Frames /\ Frame(k, 0).kind = k
    BY Zenon, FrameTyped DEF ForwardInv, OpenedOnce
<1> USE DEF bindVars, taskVars
<1>1. CASE request
    <2>1. CASE ToDaemon(Frame("Open", 0)) /\ relay' = "opening"
        <3>1. Single(c2d', {"Open"})
            <4>1. ~Has(c2d, {"Open"})
                BY Zenon, <1>1 DEF request, ForwardInv, OpenedOnce
            <4>2. Frame("Open", 0) \in Frames
                BY Zenon, <1>0 DEF Kinds
            <4> QED BY Zenon, <1>0, <2>1, <4>1, <4>2, DaemonHears
        <3>2. UNCHANGED <<task, forwardBinding, upstream, downstream>> /\ task = "none"
            BY Zenon, <1>1 DEF request, ForwardInv, OpenedOnce
        <3> QED BY Zenon, <2>1, <3>1, <3>2 DEF ForwardInv, OpenedOnce
    <2>2. CASE relay' = "failed" /\ UNCHANGED c2d
        BY Zenon, <1>0, <1>1, <2>2, OpenKeeps DEF request
    <2> QED BY Zenon, <1>1, <2>1, <2>2 DEF request
<1>2. ASSUME NEW f \in Frames, c2d' = c2d \/ ToDaemon(f), f.kind # "Open",
             relay' # "handshake", UNCHANGED <<forwardBinding, task, upstream, downstream>>
      PROVE  OpenedOnce'
    BY Zenon, <1>0, <1>2, DaemonHears, OpenKeeps
<1>3. CASE serve \/ relay_receives \/ relay_ends \/ relay_gives_up
    <2>1. /\ c2d' = c2d \/ ToDaemon(Frame("Fin", 0))
          /\ relay' # "handshake" /\ UNCHANGED <<forwardBinding, task, upstream, downstream>>
        BY Zenon, <1>3 DEF serve, relay_receives, relay_ends, relay_gives_up, RelayFails
    <2>2. Frame("Fin", 0) \in Frames /\ Frame("Fin", 0).kind # "Open"
        BY Zenon, <1>0 DEF Kinds
    <2> QED BY Zenon, <1>2, <2>1, <2>2
<1>4. CASE relay_writes
    <2>1. ToDaemon(Frame("Ack", 0)) /\ relay' # "handshake"
          /\ UNCHANGED <<forwardBinding, task, upstream, downstream>>
        BY Zenon, <1>4 DEF relay_writes
    <2>2. Frame("Ack", 0) \in Frames /\ Frame("Ack", 0).kind # "Open"
        BY Zenon, <1>0 DEF Kinds
    <2> QED BY Zenon, <1>2, <2>1, <2>2
<1>5. CASE relay_reads
    <2>1. PICK f \in Reads(upGiven) : ToDaemon(f)
        BY Zenon, <1>5 DEF relay_reads
    <2>2. relay' # "handshake" /\ UNCHANGED <<forwardBinding, task, upstream, downstream>>
        BY Zenon, <1>5 DEF relay_reads
    <2>3. f \in Frames /\ f.kind # "Open"
        BY ZenonT(20), <2>1, ReadsTyped DEF Items, ForwardInv, ForwardTypes
    <2> QED BY Zenon, <1>2, <2>1, <2>2, <2>3
<1> QED BY Zenon, <1>1, <1>3, <1>4, <1>5 DEF RelaySteps

\* The daemon's steps keep the opening single.
LEMMA DaemonOpens ==
    ASSUME ForwardInv,
           \/ DispatchSteps \/ connect \/ UpstreamSteps \/ DownstreamSteps
           \/ task_ends \/ task_fails \/ CutLink \/ Others
    PROVE  OpenedOnce'
<1>0. ForwardTypes /\ OpenedOnce
    BY Zenon DEF ForwardInv
<1> USE DEF relayVars, bindVars, taskVars
<1>1. CASE open_forward
    <2>1. /\ c2d # <<>> /\ c2d' = Tail(c2d) /\ Head(c2d).kind = "Open"
          /\ UNCHANGED <<relay, upstream, downstream>>
        BY Zenon, <1>1 DEF open_forward
    <2>2. /\ Has(c2d, {"Open"}) /\ ~Has(c2d', {"Open"}) /\ Single(c2d', {"Open"})
        BY Zenon, <1>0, <2>1, TakesOut DEF ForwardTypes, OpenedOnce
    <2>3. \/ task' = "connecting"
          \/ UNCHANGED <<task, forwardBinding>>
        BY Zenon, <1>1 DEF open_forward
    <2> QED BY <1>0, <2>1, <2>2, <2>3 DEF OpenedOnce
<1>2. CASE message
    <2>1. /\ c2d # <<>> /\ c2d' = Tail(c2d)
          /\ UNCHANGED <<relay, forwardBinding, upstream, downstream>>
          /\ task' = task \/ (forwardBinding /\ task' = "ended")
        BY Zenon, <1>2 DEF message
    <2>2. (Has(c2d', {"Open"}) => Has(c2d, {"Open"})) /\ Single(c2d', {"Open"})
        BY Zenon, <1>0, <2>1, OpensTailed DEF OpenedOnce
    <2> QED BY Zenon, <1>0, <2>1, <2>2, OpenKeeps DEF OpenedOnce
<1>3. CASE unbind
    <2>1. /\ c2d' = c2d \/ (c2d # <<>> /\ c2d' = Tail(c2d))
          /\ UNCHANGED <<relay, upstream, downstream>> /\ forwardBinding' = FALSE
          /\ task' = IF task = "none" THEN "none" ELSE "ended"
        BY Zenon, <1>3 DEF unbind
    <2>2. (Has(c2d', {"Open"}) => Has(c2d, {"Open"})) /\ Single(c2d', {"Open"})
        BY Zenon, <1>0, <2>1, OpensTailed DEF OpenedOnce
    <2> QED BY Zenon, <1>0, <2>1, <2>2, OpenKeeps DEF OpenedOnce
<1>4. CASE connect
    BY Zenon, <1>0, <1>4, OpenKeeps DEF connect, OpenedOnce
<1>5. CASE UpstreamSteps \/ DownstreamSteps
    <2>1. task = "running" /\ UNCHANGED <<relay, c2d, forwardBinding, task>>
        BY ZenonT(20), <1>5 DEF UpstreamSteps, DownstreamSteps, up_recv, up_write, up_ack, down_read,
                    down_send, down_acked
    <2> QED BY Zenon, <1>0, <2>1, OpenKeeps DEF OpenedOnce
<1>6. CASE task_ends \/ task_fails
    <2>1. /\ task # "none" /\ task' = "ended"
          /\ UNCHANGED <<relay, c2d, forwardBinding, upstream, downstream>>
        BY Zenon, <1>6 DEF task_ends, task_fails, TaskAlive
    <2> QED BY Zenon, <1>0, <2>1, OpenKeeps DEF OpenedOnce
<1>7. CASE CutLink
    <2>1. ~Has(c2d', {"Open"}) /\ Single(c2d', {"Open"})
        BY <1>7 DEF CutLink, Has, Single
    <2>2. UNCHANGED <<relay, forwardBinding, task, upstream, downstream>>
        BY Zenon, <1>7 DEF CutLink
    <2> QED BY Zenon, <2>1, <2>2, OpenKeeps
<1>8. CASE Others
    BY Zenon, <1>0, <1>8, OpenKeeps DEF Others, OpenedOnce
<1> QED BY Zenon, <1>1, <1>2, <1>3, <1>4, <1>5, <1>6, <1>7, <1>8 DEF DispatchSteps
-----------------------------------------------------------------------------
(* Grants and permits.                                                     *)

\* A step that puts no Opened in and does not open the relay.
LEMMA GrantKeeps ==
    ASSUME ForwardInv, Has(d2c', {"Opened"}) => Has(d2c, {"Opened"}),
           upstream # "none" => upstream' # "none", told' = told,
           upGiven' = upGiven \/ relay = "relay",
           relay' \in {"handshake", "opening"} => relay' = relay,
           relay' \in {"relay", "writing", "done"} => relay \in {"relay", "writing", "done"}
    PROVE  Granting'
BY Zenon DEF ForwardInv, Granting

\* The relay's steps keep the grant true.
LEMMA RelayGrants ==
    ASSUME ForwardInv, RelaySteps \/ relay_gives_up
    PROVE  Granting'
<1>0. ForwardTypes /\ Granting
    BY Zenon DEF ForwardInv
<1> USE DEF bindVars, taskVars
<1>1. CASE request
    BY Zenon, <1>0, <1>1 DEF request, Granting
<1>2. CASE serve
    <2>1. /\ relay = "opening" /\ d2c # <<>> /\ d2c' = Tail(d2c) /\ UNCHANGED <<upGiven, upstream>>
          /\ \/ Head(d2c).kind = "Opened" /\ relay' = "relay" /\ told' = "granted"
             \/ relay' = "failed" /\ told' = "rejected"
        BY Zenon, <1>2 DEF serve
    <2>2. /\ Has(d2c', {"Opened"}) => Has(d2c, {"Opened"})
          /\ Head(d2c).kind = "Opened" => Has(d2c, {"Opened"})
        BY Zenon, <1>0, <2>1, TakesOut DEF ForwardTypes
    <2> QED BY Zenon, <1>0, <2>1, <2>2 DEF Granting
<1>3. CASE relay_receives
    <2>1. /\ relay = "relay" /\ d2c # <<>> /\ d2c' = Tail(d2c)
          /\ relay' \in {"relay", "writing", "failed"}
          /\ UNCHANGED <<told, upGiven, upstream>>
        BY Zenon, <1>3 DEF relay_receives
    <2>2. Has(d2c', {"Opened"}) => Has(d2c, {"Opened"})
        BY Zenon, <1>0, <2>1, TakesOut DEF ForwardTypes
    <2> QED BY Zenon, <2>1, <2>2, GrantKeeps
<1>4. CASE relay_reads \/ relay_writes \/ relay_ends
    <2>1. /\ UNCHANGED <<d2c, told, upstream>> /\ relay \in {"relay", "writing"}
          /\ upGiven' = upGiven \/ relay = "relay"
        BY Zenon, <1>4 DEF relay_reads, relay_writes, relay_ends
    <2>2. relay' \in {"relay", "done"}
        BY Zenon, <1>4 DEF relay_reads, relay_writes, relay_ends
    <2> QED BY Zenon, <2>1, <2>2, GrantKeeps
<1>5. CASE relay_gives_up
    BY Zenon, <1>0, <1>5 DEF relay_gives_up, RelayFails, Granting
<1> QED BY Zenon, <1>1, <1>2, <1>3, <1>4, <1>5 DEF RelaySteps

\* The daemon's steps keep the grant true.
LEMMA DaemonGrants ==
    ASSUME ForwardInv,
           \/ DispatchSteps \/ connect \/ UpstreamSteps \/ DownstreamSteps
           \/ task_ends \/ task_fails \/ CutLink \/ Others
    PROVE  Granting'
<1>0. ForwardTypes /\ Granting
    BY Zenon DEF ForwardInv
<1> USE DEF relayVars, bindVars, taskVars
<1>1. ASSUME NEW f \in Frames, f.kind # "Opened", d2c' = d2c \/ ToClient(f),
             upstream # "none" => upstream' # "none", UNCHANGED <<told, upGiven, relay>>
      PROVE  Granting'
    <2>1. Has(d2c', {"Opened"}) => Has(d2c, {"Opened"})
        BY Zenon, <1>0, <1>1, ClientHears
    <2> QED BY Zenon, <1>1, <2>1, GrantKeeps
<1>2. /\ Frame("Error", 0) \in Frames /\ Frame("Error", 0).kind = "Error"
      /\ Frame("Ack", 0) \in Frames /\ Frame("Ack", 0).kind = "Ack"
    BY Zenon, FrameTyped DEF Kinds
<1>3. CASE DispatchSteps \/ task_ends \/ task_fails \/ Others
    <2>1. /\ d2c' = d2c \/ ToClient(Frame("Error", 0))
          /\ UNCHANGED <<told, upGiven, relay, upstream>>
        BY ZenonT(20), <1>3 DEF DispatchSteps, open_forward, message, unbind, task_ends, task_fails, Others
    <2> QED BY Zenon, <1>1, <1>2, <2>1
<1>4. CASE connect
    BY Zenon, <1>0, <1>4 DEF connect, Granting
<1>5. CASE UpstreamSteps
    <2>1. /\ d2c' = d2c \/ ToClient(Frame("Ack", 0))
          /\ UNCHANGED <<told, upGiven, relay>>
        BY Zenon, <1>5 DEF UpstreamSteps, up_recv, up_write, up_ack
    <2>2. upstream' # "none"
        BY Zenon, <1>5 DEF UpstreamSteps, up_recv, up_write, up_ack
    <2> QED BY Zenon, <1>1, <1>2, <2>1, <2>2
<1>6. CASE down_read \/ down_acked
    BY Zenon, <1>0, <1>6, GrantKeeps DEF down_read, down_acked
<1>7. CASE down_send
    <2>1. /\ ToClient(downHolds) /\ downHolds \in Frames /\ downHolds.kind # "Opened"
          /\ UNCHANGED <<told, upGiven, relay, upstream>>
        BY Zenon, <1>7 DEF down_send, ForwardInv, ForwardTypes, DownFlow, Items
    <2> QED BY Zenon, <1>1, <2>1
<1>8. CASE CutLink
    <2>1. ~Has(d2c', {"Opened"}) /\ UNCHANGED <<told, upGiven, relay, upstream>>
        BY <1>8 DEF CutLink, Has
    <2> QED BY Zenon, <2>1, GrantKeeps
<1> QED BY Zenon, <1>3, <1>4, <1>5, <1>6, <1>7, <1>8 DEF DownstreamSteps

\* Permits are those of live tasks.
LEMMA PermitsKeep ==
    ASSUME ForwardInv, ForwardNext
    PROVE  ForwardPermitsExact'
<1>0. /\ active \in Nat /\ others \in Nat /\ ForwardPermitsExact
      /\ forwardBinding => task # "none"
      /\ Has(c2d, {"Open"}) => task = "none"
    BY Zenon DEF ForwardInv, ForwardTypes, OpenedOnce
<1> USE PermitsAssumption DEF ForwardPermitsExact, TaskAlive, taskVars, permitVars
<1>1. CASE RelaySteps \/ relay_gives_up
    BY Zenon, <1>0, <1>1 DEF RelaySteps, request, serve, relay_reads, relay_receives, relay_writes,
                      relay_ends, relay_gives_up, RelayFails
<1>2. CASE open_forward
    <2>1. task = "none"
        <3>1. c2d \in Seq(Frames) /\ c2d # <<>> /\ Head(c2d).kind = "Open"
            BY Zenon, <1>2 DEF open_forward, ForwardInv, ForwardTypes
        <3>2. Has(c2d, {"Open"})
            BY Zenon, <3>1, TakesOut
        <3> QED BY Zenon, <3>2 DEF ForwardInv, OpenedOnce
    <2> QED BY <1>0, <1>2, <2>1 DEF open_forward, acquire
<1>3. CASE message \/ unbind
    BY <1>0, <1>3 DEF message, unbind, Release
<1>4. CASE connect \/ UpstreamSteps \/ DownstreamSteps
    BY Zenon, <1>0, <1>4 DEF connect, UpstreamSteps, DownstreamSteps, up_recv, up_write, up_ack,
                      down_read, down_send, down_acked
<1>5. CASE task_ends \/ task_fails
    BY <1>0, <1>5 DEF task_ends, task_fails, Release
<1>6. CASE CutLink \/ Others
    BY <1>0, <1>6 DEF CutLink, Others, acquire
<1> QED BY Zenon, <1>1, <1>2, <1>3, <1>4, <1>5, <1>6 DEF ForwardNext, DispatchSteps
-----------------------------------------------------------------------------
(* The flow of items and acknowledgements.                                 *)

\* The last item given, once there is one.
LEMMA LastGiven ==
    ASSUME ForwardTypes
    PROVE  /\ Len(upGiven) \in Nat /\ Len(upGotten) \in Nat
           /\ Len(downGiven) \in Nat /\ Len(downGotten) \in Nat
           /\ UpFlying => upGiven[Len(upGiven)] \in Nat
           /\ DownFlying => downGiven[Len(downGiven)] \in Nat
<1>1. ASSUME NEW s \in Seq(Nat) PROVE Len(s) \in Nat /\ \A i \in 1..Len(s) : s[i] \in Nat
    BY Zenon, LenProperties, ElementOfSeq
<1>2. /\ Len(upGiven) \in Nat /\ Len(upGotten) \in Nat
      /\ Len(downGiven) \in Nat /\ Len(downGotten) \in Nat
    BY Zenon, <1>1 DEF ForwardTypes
<1>3. UpFlying => Len(upGiven) \in 1..Len(upGiven)
    BY <1>2 DEF UpFlying
<1>4. DownFlying => Len(downGiven) \in 1..Len(downGiven)
    BY <1>2 DEF DownFlying
<1> QED BY Zenon, <1>1, <1>2, <1>3, <1>4 DEF ForwardTypes

upFlowVars == <<waitingAck, localEof, upGiven, inputQ, upstream, upHolds, upGotten>>
downFlowVars == <<relayHolds, downGotten, ackQ, downstream, downHolds, downGiven>>

\* Steps that put no item in upwards and no acknowledgement of one.
LEMMA UpQuiet ==
    ASSUME ForwardInv, FewerItems(c2d, c2d'), FewerAcks(d2c, d2c'), UNCHANGED upFlowVars
    PROVE  UpFlow'
<1>1. UpFlying => upGiven[Len(upGiven)] \in Nat
    BY Zenon, LastGiven DEF ForwardInv
<1> QED BY Zenon, <1>1 DEF ForwardInv, FewerItems, FewerAcks, UpFlow, UpFlying, UpSettled, upFlowVars

\* A step that touches no item and no acknowledgement keeps the downward
\* flow.
LEMMA DownQuiet ==
    ASSUME ForwardInv, FewerItems(d2c, d2c'), FewerAcks(c2d, c2d'), UNCHANGED downFlowVars,
           relay' = relay \/ relay' # "writing"
    PROVE  DownFlow'
<1>1. DownFlying => downGiven[Len(downGiven)] \in Nat
    BY Zenon, LastGiven DEF ForwardInv
<1> QED BY Zenon, <1>1 DEF ForwardInv, FewerItems, FewerAcks, DownFlow, DownFlying, DownSettled,
                    downFlowVars

\* Opening, ending and failing keep both flows.
LEMMA QuietSteps ==
    ASSUME ForwardInv,
           \/ request \/ serve \/ relay_ends \/ relay_gives_up \/ open_forward \/ unbind
           \/ task_ends \/ task_fails \/ CutLink \/ Others
    PROVE  UpFlow' /\ DownFlow'
<1>0. ForwardTypes /\ c2d \in Seq(Frames) /\ d2c \in Seq(Frames)
    BY Zenon DEF ForwardInv, ForwardTypes
<1> USE DEF upFlowVars, downFlowVars, relayVars, bindVars, taskVars
<1>1. CASE request \/ relay_ends \/ relay_gives_up
    <2>1. /\ c2d' = c2d \/ ToDaemon(Frame("Fin", 0)) \/ ToDaemon(Frame("Open", 0))
          /\ UNCHANGED <<d2c, upFlowVars, downFlowVars>> /\ relay' # "writing"
        BY ZenonT(20), <1>1 DEF request, relay_ends, relay_gives_up, RelayFails
    <2>2. Fewer(c2d, c2d') /\ Fewer(d2c, d2c')
        BY Zenon, <1>0, <2>1, FewerSame, FewerToDaemon
    <2> QED BY Zenon, <2>1, <2>2, UpQuiet, DownQuiet DEF Fewer
<1>2. CASE serve
    <2>1. /\ c2d' = c2d \/ ToDaemon(Frame("Fin", 0))
          /\ d2c # <<>> /\ d2c' = Tail(d2c) /\ UNCHANGED <<upFlowVars, downFlowVars>> /\ relay' # "writing"
        BY Zenon, <1>2 DEF serve
    <2>2. Fewer(c2d, c2d') /\ Fewer(d2c, d2c')
        BY Zenon, <1>0, <2>1, FewerSame, FewerTail, FewerToDaemon
    <2> QED BY Zenon, <2>1, <2>2, UpQuiet, DownQuiet DEF Fewer
<1>3. CASE open_forward \/ unbind \/ task_ends \/ task_fails \/ Others
    <2>1. /\ c2d' = c2d \/ (c2d # <<>> /\ c2d' = Tail(c2d))
          /\ d2c' = d2c \/ ToClient(Frame("Error", 0))
          /\ UNCHANGED <<upFlowVars, downFlowVars>> /\ relay' = relay
        BY ZenonT(20), <1>3 DEF open_forward, unbind, task_ends, task_fails, Others
    <2>2. Fewer(c2d, c2d') /\ Fewer(d2c, d2c')
        BY ZenonT(20), <1>0, <2>1, FewerSame, FewerTail, FewerToClient
    <2> QED BY Zenon, <2>1, <2>2, UpQuiet, DownQuiet DEF Fewer
<1>4. CASE CutLink
    <2>1. c2d' = <<>> /\ d2c' = <<>> /\ UNCHANGED <<upFlowVars, downFlowVars>> /\ relay' = relay
        BY Zenon, <1>4 DEF CutLink
    <2>2. Fewer(c2d, c2d') /\ Fewer(d2c, d2c')
        BY Zenon, <1>0, <2>1, FewerNone
    <2> QED BY Zenon, <2>1, <2>2, UpQuiet, DownQuiet DEF Fewer
<1> QED BY Zenon, <1>1, <1>2, <1>3, <1>4

\* The relay reads: its flag is down, so nothing is on its way.
LEMMA ReadFlow ==
    ASSUME ForwardInv, relay_reads
    PROVE  UpFlow' /\ DownFlow'
<1>0. ForwardTypes /\ c2d \in Seq(Frames) /\ d2c \in Seq(Frames) /\ upGiven \in Seq(Nat)
    BY Zenon DEF ForwardInv, ForwardTypes
<1>1. PICK f \in Reads(upGiven) :
          /\ upGiven' = Append(upGiven, Item(f)) /\ localEof' = (f.kind = "Eof")
          /\ ToDaemon(f)
    BY Zenon DEF relay_reads
<1>2. /\ waitingAck' = TRUE /\ ~waitingAck /\ relay' = relay
      /\ UNCHANGED <<d2c, inputQ, upstream, upHolds, upGotten, downFlowVars>>
    BY Zenon DEF relay_reads, downFlowVars, bindVars, taskVars
<1>3. /\ f \in Frames /\ f.kind \in Items /\ Len(upGiven) \in Nat
      /\ Item(f) = Eof <=> f.kind = "Eof"
      /\ Len(upGiven') = Len(upGiven) + 1 /\ upGiven'[Len(upGiven')] = Item(f)
    BY Zenon, <1>0, <1>1, ReadsTyped
<1>4. /\ UpSettled /\ ~Has(c2d, Items) /\ inputQ = <<>> /\ upstream \notin {"write", "ack"}
      /\ ~Has(d2c, Acks) /\ Single(c2d, Items) /\ Single(d2c, Acks)
    BY Zenon, <1>2 DEF ForwardInv, UpFlow, UpFlying
<1>5. Single(c2d', Items) /\ Carries(c2d', Item(f))
    <2>1. CASE c2d' = Append(c2d, f)
        BY Zenon, <1>0, <1>3, <1>4, <2>1, PutsIn, PutsInItem, NoItemCarries
    <2>2. CASE c2d' = c2d
        BY Zenon, <1>4, <2>2, NoItemCarries
    <2> QED BY Zenon, <1>1, <2>1, <2>2 DEF ToDaemon
<1>6. UpFlow'
    <2>1. UpFlying'
        BY Zenon, <1>2, <1>3, <1>4 DEF UpFlying, UpSettled
    <2>2. ~localEof' => upGiven'[Len(upGiven')] # Eof
        BY ZenonT(20), <1>1, <1>3
    <2> QED BY Zenon, <1>2, <1>3, <1>4, <1>5, <2>1, <2>2 DEF UpFlow
<1>7. DownFlow'
    <2>1. f.kind \notin Acks
        BY Zenon, <1>3 DEF Items, Acks
    <2>2. FewerAcks(c2d, c2d')
        BY Zenon, <1>0, <1>1, <1>3, <2>1, FewerWithout, FewerSame DEF ToDaemon, Fewer
    <2>3. FewerItems(d2c, d2c')
        BY Zenon, <1>0, <1>2, FewerSame DEF Fewer
    <2> QED BY Zenon, <1>2, <2>2, <2>3, DownQuiet
<1> QED BY Zenon, <1>6, <1>7

\* The relay takes a frame.
LEMMA ReceiveFlow ==
    ASSUME ForwardInv, relay_receives
    PROVE  UpFlow' /\ DownFlow'
<1>0. ForwardTypes /\ c2d \in Seq(Frames) /\ d2c \in Seq(Frames)
    BY Zenon DEF ForwardInv, ForwardTypes
<1>1. /\ relay = "relay" /\ d2c # <<>> /\ d2c' = Tail(d2c)
      /\ UNCHANGED <<localEof, upGiven, downGotten, inputQ, ackQ, upstream, upHolds,
                     downstream, downHolds, upGotten, downGiven>>
    BY Zenon DEF relay_receives, bindVars, taskVars
<1>2. Fewer(d2c, d2c')
    BY Zenon, <1>0, <1>1, FewerTail
<1>3. CASE /\ Head(d2c).kind = "Ack" /\ waitingAck /\ waitingAck' = FALSE
           /\ UNCHANGED <<relay, relayHolds, remoteEof, c2d>>
    <2>1. Has(d2c, Acks) /\ ~Has(d2c', Acks) /\ Single(d2c', Acks)
        BY Zenon, <1>0, <1>1, <1>3, TakesOut DEF ForwardInv, UpFlow, Acks
    <2>2. /\ Len(upGiven) \in Nat /\ Len(upGotten) \in Nat
        BY Zenon, <1>0, LastGiven
    <2>3. /\ UpSettled /\ ~UpFlying /\ upstream # "ack"
        BY <2>1, <2>2 DEF ForwardInv, UpFlow, UpFlying, UpSettled
    <2>4. UpFlow'
        BY Zenon, <1>1, <1>3, <2>1, <2>3 DEF ForwardInv, UpFlow, UpFlying, UpSettled
    <2>5. DownFlow'
        BY Zenon, <1>0, <1>1, <1>2, <1>3, FewerSame, DownQuiet DEF Fewer, downFlowVars
    <2> QED BY Zenon, <2>4, <2>5
<1>4. CASE /\ Head(d2c).kind \in {"Data", "Eof"} /\ relay' = "writing" /\ relayHolds' = Head(d2c)
           /\ UNCHANGED <<waitingAck, c2d>>
    <2>1. Has(d2c, Items) /\ ~Has(d2c', Items) /\ Single(d2c', Items)
        BY Zenon, <1>0, <1>1, <1>4, TakesOut DEF ForwardInv, DownFlow, Items
    <2>2. /\ DownFlying /\ downstream = "wait"
          /\ Item(Head(d2c)) = downGiven[Len(downGiven)]
        BY ZenonT(60), <1>0, <1>1, <1>4, <2>1, TakesOutItem DEF ForwardInv, DownFlow, Items
    <2>3. DownFlow'
        BY ZenonT(20), <1>1, <1>4, <2>1, <2>2 DEF ForwardInv, DownFlow, DownFlying, DownSettled
    <2>4. UpFlow'
        BY Zenon, <1>0, <1>1, <1>2, <1>4, FewerSame, UpQuiet DEF Fewer, upFlowVars
    <2> QED BY Zenon, <2>3, <2>4
<1>5. CASE /\ relay' = "failed" /\ ToDaemon(Frame("Fin", 0)) /\ UNCHANGED <<waitingAck, relayHolds>>
    <2>1. Fewer(c2d, c2d')
        BY Zenon, <1>0, <1>5, FewerToDaemon
    <2>2. UpFlow'
        BY Zenon, <1>1, <1>2, <1>5, <2>1, UpQuiet DEF Fewer, upFlowVars
    <2>3. DownFlow'
        BY Zenon, <1>1, <1>2, <1>5, <2>1, DownQuiet DEF Fewer, downFlowVars
    <2> QED BY Zenon, <2>2, <2>3
<1> QED BY ZenonT(20), <1>3, <1>4, <1>5 DEF relay_receives

\* The relay has written: the item has arrived, the acknowledgement leaves.
LEMMA WriteFlow ==
    ASSUME ForwardInv, relay_writes
    PROVE  UpFlow' /\ DownFlow'
<1>0. /\ ForwardTypes /\ c2d \in Seq(Frames) /\ d2c \in Seq(Frames)
      /\ downGotten \in Seq(Nat) /\ relayHolds \in Frames
    BY Zenon DEF ForwardInv, ForwardTypes
<1>1. /\ relay = "writing" /\ relay' = "relay"
      /\ downGotten' = Append(downGotten, Item(relayHolds)) /\ ToDaemon(Frame("Ack", 0))
      /\ UNCHANGED <<d2c, upFlowVars, relayHolds, ackQ, downstream, downHolds, downGiven>>
    BY Zenon DEF relay_writes, upFlowVars, bindVars, taskVars
<1>2. Frame("Ack", 0) \in Frames /\ Frame("Ack", 0).kind \notin Items
    BY ZenonT(20), FrameTyped DEF Kinds, Items
<1>3. /\ Len(downGiven) \in Nat /\ Len(downGotten) \in Nat
      /\ Len(downGotten') = Len(downGotten) + 1
    BY Zenon, <1>0, <1>1, LastGiven, GottenTyped, FrameTyped
<1>4. DownFlying /\ ~DownSettled /\ downstream = "wait"
    <2>1. DownFlying /\ downstream = "wait"
        BY Zenon, <1>1 DEF ForwardInv, DownFlow
    <2> QED BY <1>3, <2>1 DEF DownFlying, DownSettled
<1>5. ~Has(c2d, Acks) /\ ackQ = <<>> /\ ~Has(d2c, Items)
    BY Zenon, <1>1, <1>4 DEF ForwardInv, DownFlow
<1>6. DownSettled'
    BY Zenon, <1>1, <1>3, <1>4 DEF DownFlying, DownSettled
<1>7. Single(c2d', Acks)
    BY Zenon, <1>0, <1>1, <1>2, <1>5, DaemonHears DEF ForwardInv, DownFlow
<1>8. DownFlow'
    BY ZenonT(20), <1>1, <1>4, <1>5, <1>6, <1>7 DEF ForwardInv, DownFlow
<1>9. UpFlow'
    <2>1. FewerItems(c2d, c2d')
        BY Zenon, <1>0, <1>1, <1>2, FewerWithout, FewerSame DEF ToDaemon, Fewer
    <2>2. FewerAcks(d2c, d2c')
        BY Zenon, <1>0, <1>1, FewerSame DEF Fewer
    <2> QED BY Zenon, <1>1, <2>1, <2>2, UpQuiet
<1> QED BY Zenon, <1>8, <1>9

\* The reader hands a frame to the task, or aborts it.
LEMMA MessageFlow ==
    ASSUME ForwardInv, message
    PROVE  UpFlow' /\ DownFlow'
<1> DEFINE f == Head(c2d)
<1>0. ForwardTypes /\ c2d \in Seq(Frames) /\ d2c \in Seq(Frames)
    BY Zenon DEF ForwardInv, ForwardTypes
<1>1. /\ c2d # <<>> /\ c2d' = Tail(c2d) /\ relay' = relay
      /\ UNCHANGED <<waitingAck, localEof, upGiven, upstream, upHolds, upGotten, relayHolds,
                     downGotten, downstream, downHolds, downGiven>>
    BY Zenon DEF message, relayVars
<1>2. Fewer(c2d, c2d') /\ f \in Frames
    BY Zenon, <1>0, <1>1, FewerTail, Tailed
<1>3. CASE /\ f.kind \in {"Data", "Eof"} /\ inputQ = <<>> /\ inputQ' = Append(inputQ, f)
           /\ UNCHANGED <<ackQ, d2c>>
    <2>1. Has(c2d, Items) /\ ~Has(c2d', Items) /\ Single(c2d', Items)
        BY Zenon, <1>0, <1>1, <1>3, TakesOut DEF ForwardInv, UpFlow, Items
    <2>2. /\ UpFlying /\ upstream \notin {"write", "ack"}
          /\ Item(f) = upGiven[Len(upGiven)]
        BY ZenonT(20), <1>0, <1>1, <1>3, <2>1, TakesOutItem DEF ForwardInv, UpFlow, Items
    <2>3. inputQ' = <<f>> /\ Head(inputQ') = f /\ Tail(inputQ') = <<>>
        BY <1>3
    <2>4. UpFlow'
        BY Zenon, <1>1, <1>3, <2>1, <2>2, <2>3 DEF ForwardInv, UpFlow, UpFlying, UpSettled
    <2>5. DownFlow'
        BY Zenon, <1>0, <1>1, <1>2, <1>3, FewerSame, DownQuiet DEF Fewer, downFlowVars
    <2> QED BY Zenon, <2>4, <2>5
<1>4. CASE /\ f.kind = "Ack" /\ ackQ = <<>> /\ ackQ' = Append(ackQ, f)
           /\ UNCHANGED <<inputQ, d2c>>
    <2>1. Has(c2d, Acks) /\ ~Has(c2d', Acks) /\ Single(c2d', Acks)
        BY Zenon, <1>0, <1>1, <1>4, TakesOut DEF ForwardInv, DownFlow, Acks
    <2>2. DownSettled /\ downstream = "wait"
        BY ZenonT(20), <2>1 DEF ForwardInv, DownFlow
    <2>3. ackQ' = <<f>> /\ Tail(ackQ') = <<>>
        BY <1>4
    <2>4. DownFlow'
        BY ZenonT(60), <1>1, <1>4, <2>1, <2>2, <2>3 DEF ForwardInv, DownFlow, DownFlying, DownSettled
    <2>5. UpFlow'
        BY Zenon, <1>0, <1>1, <1>2, <1>4, FewerSame, UpQuiet DEF Fewer, upFlowVars
    <2> QED BY Zenon, <2>4, <2>5
<1>5. CASE ToClient(Frame("Error", 0)) /\ UNCHANGED <<inputQ, ackQ>>
    <2>1. Fewer(d2c, d2c')
        BY Zenon, <1>0, <1>5, FewerToClient
    <2>2. UpFlow'
        BY Zenon, <1>1, <1>2, <1>5, <2>1, UpQuiet DEF Fewer, upFlowVars
    <2>3. DownFlow'
        BY Zenon, <1>1, <1>2, <1>5, <2>1, DownQuiet DEF Fewer, downFlowVars
    <2> QED BY Zenon, <2>2, <2>3
<1> QED BY Zenon, <1>3, <1>4, <1>5 DEF message

\* The daemon's connect keeps both flows.
LEMMA ConnectFlow ==
    ASSUME ForwardInv, connect
    PROVE  UpFlow' /\ DownFlow'
<1>0. ForwardTypes /\ c2d \in Seq(Frames) /\ d2c \in Seq(Frames)
    BY Zenon DEF ForwardInv, ForwardTypes
<1>1. /\ task = "connecting" /\ upstream' = "recv" /\ downstream' = "read"
      /\ ToClient(Frame("Opened", 0))
      /\ UNCHANGED <<relay, waitingAck, localEof, relayHolds, upGiven, downGotten, c2d, inputQ,
                     ackQ, upHolds, downHolds, upGotten, downGiven>>
    BY Zenon DEF connect, relayVars
<1>2. Fewer(d2c, d2c')
    BY Zenon, <1>0, <1>1, FewerToClient
<1>3. upstream = "none" /\ downstream = "none"
    BY Zenon, <1>1 DEF ForwardInv, OpenedOnce
<1>4. /\ ~Has(d2c, Items) /\ ~Has(c2d, Acks) /\ ackQ = <<>> /\ relay # "writing"
      /\ DownSettled /\ (downGiven = <<>> \/ downGiven[Len(downGiven)] # Eof)
    BY Zenon, <1>3 DEF ForwardInv, DownFlow
<1>5. DownFlow'
    BY ZenonT(60), <1>1, <1>2, <1>4 DEF ForwardInv, DownFlow, DownFlying, DownSettled, Fewer, FewerItems
<1>6. UpFlow'
    BY Zenon, <1>1, <1>2, <1>3 DEF ForwardInv, UpFlow, UpFlying, UpSettled, Fewer, FewerAcks
<1> QED BY Zenon, <1>5, <1>6

\* The daemon's upstream half keeps both flows.
LEMMA UpstreamFlow ==
    ASSUME ForwardInv, UpstreamSteps
    PROVE  UpFlow' /\ DownFlow'
<1>0. /\ ForwardTypes /\ c2d \in Seq(Frames) /\ d2c \in Seq(Frames) /\ inputQ \in Seq(Frames)
      /\ upHolds \in Frames /\ upGotten \in Seq(Nat)
      /\ Len(upGiven) \in Nat /\ Len(upGotten) \in Nat
    BY Zenon, LastGiven DEF ForwardInv, ForwardTypes
<1>1. UNCHANGED <<relay, waitingAck, localEof, upGiven, c2d, downFlowVars>>
    BY Zenon DEF UpstreamSteps, up_recv, up_write, up_ack, relayVars, bindVars, downFlowVars
<1>2. CASE up_recv
    <2>1. /\ upstream = "recv" /\ inputQ # <<>> /\ upHolds' = Head(inputQ)
          /\ inputQ' = Tail(inputQ) /\ upstream' = "write" /\ UNCHANGED <<d2c, upGotten>>
        BY Zenon, <1>2 DEF up_recv
    <2>2. /\ UpFlying /\ Item(Head(inputQ)) = upGiven[Len(upGiven)] /\ inputQ' = <<>>
          /\ ~Has(c2d, Items)
        BY Zenon, <2>1 DEF ForwardInv, UpFlow
    <2>3. UpFlow'
        BY Zenon, <1>0, <1>1, <2>1, <2>2 DEF ForwardInv, UpFlow, UpFlying, UpSettled
    <2>4. DownFlow'
        BY Zenon, <1>0, <1>1, <2>1, FewerSame, DownQuiet DEF Fewer
    <2> QED BY Zenon, <2>3, <2>4
<1>3. CASE up_write
    <2>1. /\ upstream = "write" /\ upGotten' = Append(upGotten, Item(upHolds))
          /\ upstream' = "ack" /\ UNCHANGED <<d2c, inputQ, upHolds>>
        BY Zenon, <1>3 DEF up_write
    <2>2. Len(upGotten') = Len(upGotten) + 1
        BY Zenon, <1>0, <2>1, GottenTyped, FrameTyped
    <2>3. /\ UpFlying /\ ~UpSettled /\ ~Has(c2d, Items) /\ inputQ = <<>>
        BY <1>0, <2>1 DEF ForwardInv, UpFlow, UpFlying, UpSettled
    <2>4. ~Has(d2c, Acks)
        BY Zenon, <2>3 DEF ForwardInv, UpFlow
    <2>5. waitingAck' /\ UpSettled'
        BY Zenon, <1>1, <2>2, <2>3 DEF UpFlying, UpSettled
    <2>6. UpFlow'
        BY Zenon, <1>1, <2>1, <2>3, <2>4, <2>5 DEF ForwardInv, UpFlow
    <2>7. DownFlow'
        BY Zenon, <1>0, <1>1, <2>1, FewerSame, DownQuiet DEF Fewer
    <2> QED BY Zenon, <2>6, <2>7
<1>4. CASE up_ack
    <2>1. /\ upstream = "ack" /\ ToClient(Frame("Ack", 0)) /\ upstream' \in {"done", "recv"}
          /\ UNCHANGED <<inputQ, upHolds, upGotten>>
        BY Zenon, <1>4 DEF up_ack, bindVars
    <2>2. Frame("Ack", 0) \in Frames /\ Frame("Ack", 0).kind \notin Items
        BY ZenonT(20), FrameTyped DEF Kinds, Items
    <2>3. /\ waitingAck /\ UpSettled /\ ~UpFlying /\ ~Has(d2c, Acks)
        BY <1>0, <2>1 DEF ForwardInv, UpFlow, UpFlying, UpSettled
    <2>4. Single(d2c', Acks)
        BY ZenonT(20), <1>0, <2>1, <2>2, <2>3, ClientHears DEF ForwardInv, UpFlow
    <2>5. ~Has(c2d, Items) /\ inputQ = <<>>
        BY Zenon, <2>3 DEF ForwardInv, UpFlow
    <2>6. UpFlow'
        BY Zenon, <1>1, <2>1, <2>3, <2>4, <2>5 DEF ForwardInv, UpFlow, UpSettled
    <2>7. FewerItems(d2c, d2c')
        BY Zenon, <1>0, <2>1, <2>2, FewerWithout, FewerSame DEF ToClient, Fewer
    <2>8. DownFlow'
        BY Zenon, <1>0, <1>1, <2>7, FewerSame, DownQuiet DEF Fewer
    <2> QED BY Zenon, <2>6, <2>8
<1> QED BY Zenon, <1>2, <1>3, <1>4 DEF UpstreamSteps

\* The daemon's downstream half keeps both flows.
LEMMA DownstreamFlow ==
    ASSUME ForwardInv, DownstreamSteps
    PROVE  UpFlow' /\ DownFlow'
<1>0. /\ ForwardTypes /\ c2d \in Seq(Frames) /\ d2c \in Seq(Frames) /\ ackQ \in Seq(Frames)
      /\ downHolds \in Frames /\ downGiven \in Seq(Nat)
      /\ Len(downGiven) \in Nat /\ Len(downGotten) \in Nat
    BY Zenon, LastGiven DEF ForwardInv, ForwardTypes
<1>1. UNCHANGED <<relay, relayHolds, downGotten, c2d, upFlowVars>>
    BY Zenon DEF DownstreamSteps, down_read, down_send, down_acked, relayVars, bindVars, upFlowVars
<1>2. CASE down_read
    <2>1. PICK f \in Reads(downGiven) : downGiven' = Append(downGiven, Item(f)) /\ downHolds' = f
        BY Zenon, <1>2 DEF down_read
    <2>2. downstream = "read" /\ downstream' = "send" /\ UNCHANGED <<d2c, ackQ>>
        BY Zenon, <1>2 DEF down_read
    <2>3. /\ f.kind \in Items /\ Len(downGiven') = Len(downGiven) + 1
          /\ downGiven'[Len(downGiven')] = Item(f)
          /\ Item(f) = Eof <=> f.kind = "Eof"
        BY Zenon, <1>0, <2>1, ReadsTyped
    <2>4. /\ DownSettled /\ ~Has(d2c, Items) /\ relay # "writing" /\ ~Has(c2d, Acks)
          /\ ackQ = <<>>
        BY ZenonT(20), <2>2 DEF ForwardInv, DownFlow
    <2>5. DownFlying'
        BY Zenon, <1>1, <2>3, <2>4 DEF DownFlying, DownSettled
    <2>6. DownFlow'
        <3>1. /\ downstream' = "send" /\ downHolds' = f /\ relay' # "writing" /\ ackQ' = <<>>
              /\ ~Has(d2c', Items) /\ ~Has(c2d', Acks)
            BY Zenon, <1>1, <2>1, <2>2, <2>4
        <3>2. Single(d2c', Items) /\ Single(c2d', Acks)
            BY ZenonT(20), <1>1, <2>2 DEF ForwardInv, DownFlow
        <3> QED BY Zenon, <2>3, <2>5, <3>1, <3>2 DEF DownFlow
    <2>7. UpFlow'
        BY Zenon, <1>0, <1>1, <2>2, FewerSame, UpQuiet DEF Fewer
    <2> QED BY Zenon, <2>6, <2>7
<1>3. CASE down_send
    <2>1. /\ downstream = "send" /\ downstream' = "wait" /\ ToClient(downHolds)
          /\ UNCHANGED <<ackQ, downHolds, downGiven>>
        BY Zenon, <1>3 DEF down_send, bindVars
    <2>2. /\ DownFlying /\ downHolds.kind \in Items /\ ~Has(d2c, Items)
          /\ Item(downHolds) = downGiven[Len(downGiven)]
          /\ relay # "writing" /\ ~Has(c2d, Acks) /\ ackQ = <<>>
        BY ZenonT(20), <2>1 DEF ForwardInv, DownFlow
    <2>3. Single(d2c', Items) /\ Carries(d2c', downGiven[Len(downGiven)])
        <3>1. CASE d2c' = Append(d2c, downHolds)
            BY ZenonT(60), <1>0, <2>2, <3>1, PutsIn, PutsInItem, NoItemCarries DEF ForwardInv, DownFlow
        <3>2. CASE d2c' = d2c
            BY ZenonT(60), <2>2, <3>2, NoItemCarries DEF ForwardInv, DownFlow
        <3> QED BY Zenon, <2>1, <3>1, <3>2 DEF ToClient
    <2>4. DownFlow'
        BY ZenonT(20), <1>1, <2>1, <2>2, <2>3 DEF ForwardInv, DownFlow, DownFlying
    <2>5. downHolds.kind \notin Acks
        BY Zenon, <2>2 DEF Items, Acks
    <2>6. FewerAcks(d2c, d2c')
        BY Zenon, <1>0, <2>1, <2>5, FewerWithout, FewerSame DEF ToClient, Fewer
    <2>7. UpFlow'
        BY Zenon, <1>0, <1>1, <2>6, FewerSame, UpQuiet DEF Fewer
    <2> QED BY Zenon, <2>4, <2>7
<1>4. CASE down_acked
    <2>1. /\ downstream = "wait" /\ ackQ # <<>> /\ ackQ' = Tail(ackQ)
          /\ downstream' = (IF downHolds.kind = "Eof" THEN "done" ELSE "read")
          /\ UNCHANGED <<d2c, downHolds, downGiven>>
        BY Zenon, <1>4 DEF down_acked
    <2>2. /\ DownSettled /\ ~DownFlying /\ ackQ' = <<>> /\ ~Has(c2d, Acks)
        BY <1>0, <2>1, SMTT(40) DEF ForwardInv, DownFlow, DownFlying, DownSettled
    <2>3. ~Has(d2c, Items) /\ relay # "writing"
        BY Zenon, <2>2 DEF ForwardInv, DownFlow
    <2>4. DownFlow'
        BY ZenonT(20), <1>1, <2>1, <2>2, <2>3 DEF ForwardInv, DownFlow, DownSettled
    <2>5. UpFlow'
        BY Zenon, <1>0, <1>1, <2>1, FewerSame, UpQuiet DEF Fewer
    <2> QED BY Zenon, <2>4, <2>5
<1> QED BY Zenon, <1>2, <1>3, <1>4 DEF DownstreamSteps
-----------------------------------------------------------------------------
(* The invariant holds.                                                    *)

\* The invariant of a forward holds at the start.
LEMMA ForwardInitInv == ForwardInit => ForwardInv
<1> SUFFICES ASSUME ForwardInit PROVE ForwardInv
    BY Zenon
<1>1. Frame("none", 0) \in Frames
    BY Zenon, FrameTyped DEF Kinds
<1>2. ForwardTypes
    BY <1>1 DEF ForwardInit, ForwardTypes
<1>3. \A K : ~Has(<<>>, K) /\ Single(<<>>, K)
    BY DEF Has, Single
<1>4. OpenedOnce
    BY Zenon, <1>3 DEF ForwardInit, OpenedOnce
<1>5. UpFlow
    BY Zenon, <1>3 DEF ForwardInit, UpFlow, UpSettled
<1>6. DownFlow
    BY Zenon, <1>3 DEF ForwardInit, DownFlow, DownSettled
<1>7. Granting
    BY Zenon, <1>3 DEF ForwardInit, Granting
<1>8. ForwardPermitsExact
    BY PermitsAssumption DEF ForwardInit, ForwardPermitsExact, TaskAlive
<1> QED BY Zenon, <1>2, <1>4, <1>5, <1>6, <1>7, <1>8 DEF ForwardInv

\* Every step keeps the invariant of a forward.
LEMMA ForwardNextInv == ForwardInv /\ [ForwardNext]_forwardVars => ForwardInv'
<1> SUFFICES ASSUME ForwardInv, [ForwardNext]_forwardVars PROVE ForwardInv'
    BY Zenon
<1>1. CASE ForwardNext
    <2>1. ForwardTypes /\ ForwardPermitsExact
        BY Zenon DEF ForwardInv
    <2>2. ForwardTypes'
        BY Zenon, <1>1, <2>1, RelayTypes, DaemonTypes DEF ForwardNext
    <2>3. OpenedOnce'
        BY Zenon, <1>1, RelayOpens, DaemonOpens DEF ForwardNext
    <2>4. Granting'
        BY Zenon, <1>1, RelayGrants, DaemonGrants DEF ForwardNext
    <2>5. UpFlow' /\ DownFlow'
        BY Zenon, <1>1, QuietSteps, ReadFlow, ReceiveFlow, WriteFlow, MessageFlow, ConnectFlow,
           UpstreamFlow, DownstreamFlow DEF ForwardNext, RelaySteps, DispatchSteps
    <2>6. ForwardPermitsExact'
        BY Zenon, <1>1, PermitsKeep
    <2> QED BY Zenon, <2>2, <2>3, <2>4, <2>5, <2>6 DEF ForwardInv
<1>2. CASE UNCHANGED forwardVars
    <2>1. UNCHANGED <<relay, told, forwardBinding, task, active, others, c2d, d2c, upFlowVars,
                      downFlowVars>>
        BY Zenon, <1>2 DEF forwardVars, relayVars, bindVars, taskVars, permitVars, upFlowVars,
                    downFlowVars
    <2>2. ForwardTypes' /\ OpenedOnce' /\ Granting'
        BY <2>1 DEF ForwardInv, ForwardTypes, OpenedOnce, Granting, upFlowVars, downFlowVars
    <2>3. ForwardPermitsExact'
        BY Zenon, <2>1 DEF ForwardInv, ForwardPermitsExact, TaskAlive
    <2>4. UpFlow' /\ DownFlow'
        BY Zenon, <2>1, FewerSame, UpQuiet, DownQuiet DEF ForwardInv, ForwardTypes, Fewer
    <2> QED BY Zenon, <2>2, <2>3, <2>4 DEF ForwardInv
<1> QED BY Zenon, <1>1, <1>2

\* The invariant of a forward always holds.
LEMMA ForwardInvariant == ForwardSpec => []ForwardInv
BY ForwardInitInv, ForwardNextInv, PTL DEF ForwardSpec

\* No permit leaks or is returned twice, for any limit (Permit's drop, acquire).
THEOREM PermitsAreExact == ForwardSpec => []ForwardPermitsExact
<1>1. ForwardInv => ForwardPermitsExact
    BY Zenon DEF ForwardInv
<1> QED BY ForwardInvariant, <1>1, PTL

\* "granted" is said of a destination that was reached, and nothing is read
\* from the application before (serve).
THEOREM GrantsAreTrue == ForwardSpec => []GrantedMeansConnected
<1>1. ForwardInv => GrantedMeansConnected
    BY Zenon DEF ForwardInv, Granting, GrantedMeansConnected
<1> QED BY ForwardInvariant, <1>1, PTL
-----------------------------------------------------------------------------
(* Both directions are pipes.                                              *)

\* Every step gives, gets or leaves the upward pipe as it is.
LEMMA UpSteps ==
    ASSUME ForwardInv, [ForwardNext]_forwardVars
    PROVE  [Up!PipeNext]_<<upGiven, upGotten>>
<1>1. CASE relay_reads
    <2>1. PICK f \in Reads(upGiven) : upGiven' = Append(upGiven, Item(f))
        BY Zenon, <1>1 DEF relay_reads
    <2>2. Item(f) \in {Len(upGiven) + 1, Eof}
        BY Zenon, <2>1, ReadsTyped DEF ForwardInv, ForwardTypes
    <2>3. /\ UpSettled /\ (upGiven = <<>> \/ upGiven[Len(upGiven)] # Eof)
          /\ UNCHANGED upGotten
        BY Zenon, <1>1 DEF relay_reads, taskVars, ForwardInv, UpFlow
    <2>4. Len(upGiven) - Len(upGotten) < 1
        BY <2>3, LastGiven DEF UpSettled, ForwardInv
    <2>5. Up!Give
        BY Zenon, <2>1, <2>2, <2>3, <2>4 DEF Up!Give, Up!Ended, Up!Eof, Eof
    <2> QED BY Zenon, <2>5 DEF Up!PipeNext
<1>2. CASE up_write
    <2>1. /\ UpFlying /\ Item(upHolds) = upGiven[Len(upGiven)]
          /\ upGotten' = Append(upGotten, Item(upHolds)) /\ UNCHANGED upGiven
        BY Zenon, <1>2 DEF up_write, relayVars, ForwardInv, UpFlow
    <2>2. Len(upGotten) < Len(upGiven) /\ Len(upGiven) = Len(upGotten) + 1
        BY <2>1, LastGiven DEF UpFlying, ForwardInv
    <2>3. Up!Get
        BY Zenon, <2>1, <2>2 DEF Up!Get
    <2> QED BY Zenon, <2>3 DEF Up!PipeNext
<1>3. CASE ~relay_reads /\ ~up_write
    BY ZenonT(20), <1>3 DEF ForwardNext, RelaySteps, DispatchSteps, UpstreamSteps, DownstreamSteps,
                request, serve, relay_receives, relay_writes, relay_ends, relay_gives_up,
                RelayFails, open_forward, message, unbind, connect, up_recv, up_ack, down_read,
                down_send, down_acked, task_ends, task_fails, CutLink, Others, forwardVars,
                relayVars, taskVars
<1> QED BY Zenon, <1>1, <1>2, <1>3

\* Every step is a step of the downward pipe or leaves it alone.
LEMMA DownSteps ==
    ASSUME ForwardInv, [ForwardNext]_forwardVars
    PROVE  [Down!PipeNext]_<<downGiven, downGotten>>
<1>1. CASE down_read
    <2>1. PICK f \in Reads(downGiven) : downGiven' = Append(downGiven, Item(f))
        BY Zenon, <1>1 DEF down_read
    <2>2. Item(f) \in {Len(downGiven) + 1, Eof}
        BY Zenon, <2>1, ReadsTyped DEF ForwardInv, ForwardTypes
    <2>3. /\ DownSettled /\ (downGiven = <<>> \/ downGiven[Len(downGiven)] # Eof)
          /\ UNCHANGED downGotten
        BY Zenon, <1>1 DEF down_read, relayVars, ForwardInv, DownFlow
    <2>4. Len(downGiven) - Len(downGotten) < 1
        BY <2>3, LastGiven DEF DownSettled, ForwardInv
    <2>5. Down!Give
        BY Zenon, <2>1, <2>2, <2>3, <2>4 DEF Down!Give, Down!Ended, Down!Eof, Eof
    <2> QED BY Zenon, <2>5 DEF Down!PipeNext
<1>2. CASE relay_writes
    <2>1. /\ DownFlying /\ Item(relayHolds) = downGiven[Len(downGiven)]
          /\ downGotten' = Append(downGotten, Item(relayHolds)) /\ UNCHANGED downGiven
        BY Zenon, <1>2 DEF relay_writes, taskVars, ForwardInv, DownFlow
    <2>2. Len(downGotten) < Len(downGiven) /\ Len(downGiven) = Len(downGotten) + 1
        BY <2>1, LastGiven DEF DownFlying, ForwardInv
    <2>3. Down!Get
        BY Zenon, <2>1, <2>2 DEF Down!Get
    <2> QED BY Zenon, <2>3 DEF Down!PipeNext
<1>3. CASE ~down_read /\ ~relay_writes
    BY ZenonT(20), <1>3 DEF ForwardNext, RelaySteps, DispatchSteps, UpstreamSteps, DownstreamSteps,
                request, serve, relay_receives, relay_reads, relay_ends, relay_gives_up,
                RelayFails, open_forward, message, unbind, connect, up_recv, up_write, up_ack,
                down_send, down_acked, task_ends, task_fails, CutLink, Others, forwardVars,
                relayVars, taskVars
<1> QED BY Zenon, <1>1, <1>2, <1>3

\* The forward implements a pipe in each direction: what one socket gives the
\* other gets, in order, the end last, one item under way (relay, spawn).
THEOREM ForwardsUpwards == ForwardSpec => UpIsAPipe
<1>1. ForwardInit => Up!PipeInit
    BY Zenon DEF ForwardInit, Up!PipeInit
<1> QED BY <1>1, ForwardInvariant, UpSteps, PTL DEF ForwardSpec, UpIsAPipe, Up!PipeSpec

\* The same from the destination to the application.
THEOREM ForwardsDownwards == ForwardSpec => DownIsAPipe
<1>1. ForwardInit => Down!PipeInit
    BY Zenon DEF ForwardInit, Down!PipeInit
<1> QED BY <1>1, ForwardInvariant, DownSteps, PTL DEF ForwardSpec, DownIsAPipe, Down!PipeSpec
-----------------------------------------------------------------------------
(* A relay that ends well has moved everything.                            *)

EndGiven(s) == s # <<>> /\ s[Len(s)] = Eof

\* What was gotten is what was given, the flags tell of an end that was
\* given, and after the remote end nothing is under way downwards.
Endings ==
    /\ \A i \in 1..Len(upGotten) : upGotten[i] = upGiven[i]
    /\ \A i \in 1..Len(downGotten) : downGotten[i] = downGiven[i]
    /\ localEof => EndGiven(upGiven)
    /\ remoteEof => EndGiven(downGiven) /\ relay \notin {"handshake", "opening"}
    /\ remoteEof /\ relay \in {"relay", "done"} => DownSettled
    /\ relay = "done" => localEof /\ remoteEof /\ ~waitingAck

\* One more element at the end of a sequence.
LEMMA OneMore ==
    ASSUME NEW s \in Seq(Nat), NEW n \in Nat
    PROVE  /\ Append(s, n) # <<>> /\ Append(s, n)[Len(s) + 1] = n
           /\ Len(Append(s, n)) = Len(s) + 1 /\ Len(s) \in Nat
           /\ \A i \in 1..Len(s) : Append(s, n)[i] = s[i]
BY AppendProperties, LenProperties

\* What the flags say of the ends holds at the start.
LEMMA EndingsInit == ForwardInit => Endings
BY Zenon DEF ForwardInit, Endings

\* Every step keeps what the flags say of the ends.
LEMMA EndingsNext ==
    ASSUME ForwardInv, Endings, [ForwardNext]_forwardVars
    PROVE  Endings'
<1>0. /\ ForwardTypes /\ Len(upGiven) \in Nat /\ Len(upGotten) \in Nat
      /\ Len(downGiven) \in Nat /\ Len(downGotten) \in Nat
      /\ upGiven \in Seq(Nat) /\ upGotten \in Seq(Nat)
      /\ downGiven \in Seq(Nat) /\ downGotten \in Seq(Nat)
      /\ relayHolds \in Frames /\ upHolds \in Frames /\ d2c \in Seq(Frames)
    BY ZenonT(60), LastGiven DEF ForwardInv, ForwardTypes
<1>1. CASE relay_reads
    <2>1. PICK f \in Reads(upGiven) :
              upGiven' = Append(upGiven, Item(f)) /\ localEof' = (f.kind = "Eof")
        BY Zenon, <1>1 DEF relay_reads
    <2>2. /\ Item(f) \in Nat /\ (f.kind = "Eof" => Item(f) = Eof)
        BY Zenon, <1>0, <2>1, ReadsTyped, FrameTyped
    <2>3. /\ upGiven' # <<>> /\ Len(upGiven') = Len(upGiven) + 1
          /\ upGiven'[Len(upGiven) + 1] = Item(f)
          /\ \A i \in 1..Len(upGiven) : upGiven'[i] = upGiven[i]
        BY ZenonT(60), <1>0, <2>1, <2>2, OneMore
    <2>4. localEof' => EndGiven(upGiven')
        BY ZenonT(20), <2>1, <2>2, <2>3 DEF EndGiven
    <2>5. /\ relay = "relay" /\ relay' = relay
          /\ UNCHANGED <<remoteEof, upGotten, downGotten, downGiven>>
        BY Zenon, <1>1 DEF relay_reads, taskVars
    <2>6. UpSettled
        BY Zenon, <1>1 DEF relay_reads, ForwardInv, UpFlow
    <2>7. \A i \in 1..Len(upGotten') : upGotten'[i] = upGiven'[i]
        BY Zenon, <2>3, <2>5, <2>6 DEF Endings, UpSettled
    <2> QED BY ZenonT(20), <2>4, <2>5, <2>7 DEF Endings, DownSettled
<1>2. CASE up_write
    <2>1. /\ UpFlying /\ Item(upHolds) = upGiven[Len(upGiven)]
          /\ upGotten' = Append(upGotten, Item(upHolds))
          /\ UNCHANGED <<relay, localEof, remoteEof, waitingAck, upGiven, downGotten, downGiven>>
        BY Zenon, <1>2 DEF up_write, relayVars, ForwardInv, UpFlow
    <2>2. /\ Len(upGotten') = Len(upGotten) + 1 /\ upGotten'[Len(upGotten) + 1] = Item(upHolds)
          /\ \A i \in 1..Len(upGotten) : upGotten'[i] = upGotten[i]
        <3>1. Item(upHolds) \in Nat
            BY Zenon, <1>0, FrameTyped
        <3> QED BY Zenon, <1>0, <2>1, <3>1, OneMore
    <2>3. Len(upGiven) = Len(upGotten) + 1
        BY Zenon, <2>1 DEF UpFlying
    <2>4. \A i \in 1..Len(upGotten') : upGotten'[i] = upGiven'[i]
        BY <1>0, <2>1, <2>2, <2>3, SMTT(40) DEF Endings
    <2> QED BY Zenon, <2>1, <2>4 DEF Endings, DownSettled
<1>3. CASE down_read
    <2>1. PICK f \in Reads(downGiven) : downGiven' = Append(downGiven, Item(f))
        BY Zenon, <1>3 DEF down_read
    <2>2. Item(f) \in Nat
        BY Zenon, <1>0, <2>1, ReadsTyped, FrameTyped
    <2>3. /\ \A i \in 1..Len(downGiven) : downGiven'[i] = downGiven[i]
        BY Zenon, <1>0, <2>1, <2>2, OneMore
    <2>4. DownSettled /\ ~EndGiven(downGiven)
        BY ZenonT(20), <1>3 DEF down_read, ForwardInv, DownFlow, EndGiven
    <2>5. UNCHANGED <<relay, localEof, remoteEof, waitingAck, upGiven, upGotten, downGotten>>
        BY Zenon, <1>3 DEF down_read, relayVars
    <2>6. ~remoteEof
        BY Zenon, <2>4 DEF Endings
    <2>7. \A i \in 1..Len(downGotten') : downGotten'[i] = downGiven'[i]
        BY Zenon, <2>3, <2>4, <2>5 DEF Endings, DownSettled
    <2> QED BY Zenon, <2>5, <2>6, <2>7 DEF Endings
<1>4. CASE relay_writes
    <2>1. /\ DownFlying /\ Item(relayHolds) = downGiven[Len(downGiven)]
          /\ downGotten' = Append(downGotten, Item(relayHolds)) /\ relay' = "relay"
          /\ relay = "writing"
          /\ UNCHANGED <<localEof, remoteEof, waitingAck, upGiven, upGotten, downGiven>>
        BY ZenonT(60), <1>4 DEF relay_writes, taskVars, ForwardInv, DownFlow
    <2>2. /\ Len(downGotten') = Len(downGotten) + 1
          /\ downGotten'[Len(downGotten) + 1] = Item(relayHolds)
          /\ \A i \in 1..Len(downGotten) : downGotten'[i] = downGotten[i]
        <3>1. Item(relayHolds) \in Nat
            BY Zenon, <1>0, FrameTyped
        <3> QED BY ZenonT(20), <1>0, <2>1, <3>1, OneMore
    <2>3. Len(downGiven) = Len(downGotten) + 1
        BY Zenon, <2>1 DEF DownFlying
    <2>4. \A i \in 1..Len(downGotten') : downGotten'[i] = downGiven'[i]
        BY <1>0, <2>1, <2>2, <2>3, SMTT(40) DEF Endings
    <2>5. DownSettled'
        BY Zenon, <2>1, <2>2, <2>3 DEF DownSettled
    <2> QED BY ZenonT(60), <2>1, <2>4, <2>5 DEF Endings
<1>5. CASE relay_receives
    <2>1. /\ relay = "relay" /\ d2c # <<>>
          /\ UNCHANGED <<localEof, upGiven, upGotten, downGotten, downGiven>>
          /\ \/ relay' = relay /\ remoteEof' = remoteEof
             \/ /\ relay' = "writing" /\ (remoteEof' => Head(d2c).kind = "Eof")
                /\ Head(d2c).kind \in Items
             \/ relay' = "failed" /\ remoteEof' = remoteEof
        BY ZenonT(60), <1>5 DEF relay_receives, taskVars, Items
    <2>2. ASSUME Head(d2c).kind \in Items, Head(d2c).kind = "Eof" PROVE EndGiven(downGiven)
        <3>1. Has(d2c, Items)
            BY ZenonT(20), <1>0, <2>1, <2>2, TakesOut
        <3>2. DownFlying /\ Item(Head(d2c)) = downGiven[Len(downGiven)]
            BY ZenonT(20), <1>0, <2>1, <2>2, <3>1, TakesOutItem DEF ForwardInv, DownFlow
        <3>3. Len(downGiven) # 0
            BY <1>0, <3>2 DEF DownFlying
        <3> QED BY <1>0, <2>2, <3>2, <3>3 DEF EndGiven, Item
    <2>3. /\ remoteEof' => EndGiven(downGiven)
          /\ remoteEof' /\ relay' = "relay" => DownSettled
          /\ relay' \in {"relay", "writing", "failed"}
        <3>1. CASE relay' # "writing"
            <4>1. relay' \in {"relay", "failed"} /\ remoteEof' = remoteEof /\ downGiven' = downGiven
                BY Zenon, <2>1, <3>1
            <4>2. remoteEof => EndGiven(downGiven) /\ (relay = "relay" => DownSettled)
                BY Zenon, <1>0 DEF Endings
            <4> QED BY Zenon, <2>1, <4>1, <4>2
        <3>2. CASE relay' = "writing"
            BY Zenon, <2>1, <2>2, <3>2
        <3> QED BY Zenon, <3>1, <3>2
    <2>4. /\ downGiven' = downGiven /\ downGotten' = downGotten /\ upGiven' = upGiven
          /\ upGotten' = upGotten /\ localEof' = localEof
        BY Zenon, <2>1
    <2> QED BY Zenon, <2>3, <2>4 DEF Endings, DownSettled, EndGiven
<1>6. CASE relay_ends
    BY ZenonT(60), <1>6 DEF relay_ends, taskVars, Endings, DownSettled
<1>7. CASE request \/ serve \/ relay_gives_up
    <2>1. /\ UNCHANGED <<localEof, remoteEof, upGiven, upGotten, downGotten, downGiven>>
          /\ relay' \in {"opening", "relay", "failed"}
          /\ relay' # "failed" => relay \in {"handshake", "opening"}
        BY Zenon, <1>7 DEF request, serve, relay_gives_up, RelayFails, taskVars
    <2> QED BY ZenonT(60), <2>1 DEF Endings
<1>8. CASE /\ ~relay_reads /\ ~up_write /\ ~down_read /\ ~RelaySteps /\ ~relay_gives_up
    <2>1. UNCHANGED <<relay, localEof, remoteEof, waitingAck, upGiven, upGotten, downGotten,
                      downGiven>>
        BY ZenonT(20), <1>8 DEF ForwardNext, DispatchSteps, UpstreamSteps, DownstreamSteps, open_forward,
                    message, unbind, connect, up_recv, up_ack, down_send, down_acked, task_ends,
                    task_fails, CutLink, Others, forwardVars, relayVars, taskVars
    <2> QED BY ZenonT(60), <2>1 DEF Endings, DownSettled
<1> QED BY Zenon, <1>1, <1>2, <1>3, <1>4, <1>5, <1>6, <1>7, <1>8 DEF RelaySteps

\* A relay that ends well has moved everything, both ends included (relay's
\* only Ok).
THEOREM CleanEndsAreComplete == ForwardSpec => []CleanEndIsComplete
<1>1. ForwardInv /\ Endings => CleanEndIsComplete
    <2> SUFFICES ASSUME ForwardInv, Endings, relay = "done"
                 PROVE  /\ upGotten = upGiven /\ Up!Ended(upGotten)
                        /\ downGotten = downGiven /\ Down!Ended(downGotten)
        BY Zenon DEF CleanEndIsComplete
    <2>1. UpSettled /\ DownSettled /\ EndGiven(upGiven) /\ EndGiven(downGiven)
        BY Zenon DEF ForwardInv, UpFlow, Endings
    <2>2. upGotten = upGiven /\ downGotten = downGiven
        BY Zenon, <2>1, SeqEqual DEF ForwardInv, ForwardTypes, Endings, UpSettled, DownSettled
    <2> QED BY Zenon, <2>1, <2>2 DEF EndGiven, Up!Ended, Down!Ended, Up!Eof, Down!Eof, Eof
<1>2. ForwardInit => Endings
    BY Zenon, EndingsInit
<1>3. ForwardInv /\ Endings /\ [ForwardNext]_forwardVars => Endings'
    BY Zenon, EndingsNext
<1> QED BY <1>1, <1>2, <1>3, ForwardInvariant, PTL DEF ForwardSpec

-----------------------------------------------------------------------------
(* Stop-and-wait never aborts itself.                                      *)

\* Frames that the daemon sends only when something went wrong, or never.
Unwelcome == {"Error", "Fin", "Open", "none"}

\* The answer to the opening comes first, and nothing unwelcome comes.
Smooth ==
    /\ forwardLink = "up" /\ relay # "failed"
    /\ ~Has(d2c, Unwelcome) /\ Single(d2c, {"Opened"})
    /\ task \in {"none", "connecting"} => d2c = <<>>
    /\ relay = "opening" /\ task \notin {"none", "connecting"} =>
           d2c # <<>> /\ Head(d2c).kind = "Opened"
    /\ relay \notin {"handshake", "opening"} => ~Has(d2c, {"Opened"})
    /\ relay \in {"handshake", "opening"} => ~waitingAck /\ ~localEof

\* The daemon's reader may hand over the next item.
Ready == inputReady /\ task = "running" /\ upstream = "recv"

\* The items of q are ends exactly when e.
Marks(q, e) == \A i \in 1..Len(q) : q[i].kind \in Items => (q[i].kind = "Eof" <=> e)

\* The upward queue is ready when an item is on its way, and when the relay
\* may read one; after the end the upward loop is over.
UpReady ==
    /\ Marks(c2d, localEof) /\ Marks(inputQ, localEof)
    /\ inputQ # <<>> => Head(inputQ).kind \in Items
    /\ upstream \in {"write", "ack"} =>
           upHolds.kind \in Items /\ (upHolds.kind = "Eof" <=> localEof)
    /\ Has(c2d, Items) => Ready
    /\ task \notin {"none", "connecting"} /\ ~localEof /\ ~waitingAck => Ready
    /\ upstream = "ack" /\ ~localEof => inputReady
    /\ Has(d2c, Acks) /\ ~localEof => Ready
    /\ localEof /\ (Has(d2c, Acks) \/ ~waitingAck) => upstream = "done"

\* An acknowledgement is expected until it has come.
DownReady == downstream \in {"send", "wait"} /\ ackQ = <<>> => ackExpected

\* Fin is the last frame, and ends a task whose relay is done.
FinLast(q) == \A i \in 1..Len(q) : q[i].kind = "Fin" => i = Len(q)
Closing ==
    /\ FinLast(c2d) /\ (Has(c2d, {"Fin"}) => relay = "done")
    /\ task = "ended" => upstream = "done" /\ \/ downstream = "done"
                                              \/ relay = "done" /\ c2d = <<>>

Calm == ForwardInv /\ Endings /\ Smooth /\ UpReady /\ DownReady /\ Closing

\* Queues again: what is first, what is marked, what is last.
LEMMA FirstStays ==
    ASSUME NEW q \in Seq(Frames), NEW f \in Frames
    PROVE  /\ Append(q, f) # <<>>
           /\ Head(Append(q, f)) = IF q = <<>> THEN f ELSE Head(q)
<1> DEFINE r == Append(q, f)
<1>1. /\ Len(q) \in Nat /\ r \in Seq(Frames) /\ Len(r) = Len(q) + 1
      /\ r[Len(q) + 1] = f /\ \A i \in 1..Len(q) : r[i] = q[i]
    BY Zenon, Appended
<1> HIDE DEF r
<1>2. r # <<>>
    BY <1>1
<1>3. Head(r) = r[1]
    BY Zenon, <1>1, <1>2, Tailed
<1>4. CASE q = <<>>
    BY <1>1, <1>2, <1>3, <1>4 DEF r
<1>5. CASE q # <<>>
    <2>1. Head(q) = q[1] /\ 1 \in 1..Len(q)
        BY <1>5, Tailed
    <2> QED BY Zenon, <1>1, <1>2, <1>3, <1>5, <2>1 DEF r
<1> QED BY Zenon, <1>4, <1>5

\* An item put into a channel keeps what its end mark says.
LEMMA MarksPut ==
    ASSUME NEW q \in Seq(Frames), NEW f \in Frames, NEW e,
           Marks(q, e) \/ ~Has(q, Items), f.kind \in Items => (f.kind = "Eof" <=> e)
    PROVE  Marks(Append(q, f), e)
<1> DEFINE r == Append(q, f)
<1>1. /\ Len(q) \in Nat /\ Len(r) = Len(q) + 1 /\ r[Len(q) + 1] = f
      /\ \A i \in 1..Len(q) : r[i] = q[i]
    BY Zenon, Appended
<1> HIDE DEF r
<1>2. \A i \in 1..Len(r) : i \in 1..Len(q) \/ i = Len(q) + 1
    BY <1>1
<1>3. Marks(r, e)
    BY Zenon, <1>1, <1>2 DEF Marks, Has
<1> QED BY Zenon, <1>3 DEF r

\* An item taken from a channel keeps what its end mark says.
LEMMA MarksTaken ==
    ASSUME NEW q \in Seq(Frames), q # <<>>, NEW e, Marks(q, e)
    PROVE  /\ Marks(Tail(q), e)
           /\ Head(q).kind \in Items => (Head(q).kind = "Eof" <=> e)
<1> DEFINE r == Tail(q)
<1>1. /\ Len(q) \in Nat /\ Len(q) >= 1 /\ Head(q) = q[1] /\ Len(r) = Len(q) - 1
      /\ \A i \in 1..(Len(q) - 1) : r[i] = q[i + 1]
    BY Zenon, Tailed
<1> HIDE DEF r
<1>2. \A i \in 1..Len(r) : i + 1 \in 1..Len(q) /\ r[i] = q[i + 1]
    BY <1>1
<1>3. 1 \in 1..Len(q)
    BY <1>1
<1>4. Marks(r, e) /\ (Head(q).kind \in Items => (Head(q).kind = "Eof" <=> e))
    BY Zenon, <1>1, <1>2, <1>3 DEF Marks
<1> QED BY Zenon, <1>4 DEF r

\* A frame put into a channel without Fin leaves Fin last.
LEMMA FinPut ==
    ASSUME NEW q \in Seq(Frames), NEW f \in Frames, ~Has(q, {"Fin"})
    PROVE  FinLast(Append(q, f))
<1> DEFINE r == Append(q, f)
<1>1. /\ Len(q) \in Nat /\ Len(r) = Len(q) + 1
      /\ \A i \in 1..Len(q) : r[i] = q[i]
    BY Zenon, Appended
<1> HIDE DEF r
<1>2. \A i \in 1..Len(r) : i \in 1..Len(q) \/ i = Len(q) + 1
    BY <1>1
<1>3. FinLast(r)
    BY Zenon, <1>1, <1>2 DEF FinLast, Has
<1> QED BY Zenon, <1>3 DEF r

\* A frame taken from a channel leaves Fin last, and after Fin there is
\* nothing.
LEMMA FinTaken ==
    ASSUME NEW q \in Seq(Frames), q # <<>>, FinLast(q)
    PROVE  /\ FinLast(Tail(q))
           /\ Head(q).kind = "Fin" => Tail(q) = <<>>
<1> DEFINE r == Tail(q)
<1>1. /\ Len(q) \in Nat /\ Len(q) >= 1 /\ Head(q) = q[1] /\ Len(r) = Len(q) - 1
      /\ r \in Seq(Frames) /\ \A i \in 1..(Len(q) - 1) : r[i] = q[i + 1]
    BY Zenon, Tailed
<1> HIDE DEF r
<1>2. \A i \in 1..Len(r) : i \in Int /\ i + 1 \in 1..Len(q) /\ r[i] = q[i + 1]
    BY <1>1
<1>3. 1 \in 1..Len(q)
    BY <1>1
<1>4. FinLast(r)
    BY SMTT(20), <1>1, <1>2 DEF FinLast
<1>5. ASSUME Head(q).kind = "Fin" PROVE r = <<>>
    <2>1. Len(r) = 0
        BY <1>1, <1>3, <1>5 DEF FinLast
    <2> QED BY Zenon, <1>1, <2>1, EmptySeq
<1> QED BY Zenon, <1>4, <1>5 DEF r

\* What a calm state says about the frames at the two heads.
LEMMA CalmHeads ==
    ASSUME Calm
    PROVE  /\ d2c # <<>> =>
                 /\ Head(d2c) \in Frames /\ Head(d2c).kind \in {"Opened", "Ack", "Data", "Eof"}
                 /\ relay = "opening" => Head(d2c).kind = "Opened"
                 /\ relay \notin {"handshake", "opening"} => Head(d2c).kind # "Opened"
                 /\ Head(d2c).kind = "Ack" => waitingAck
                 /\ relay = "relay" /\ Head(d2c).kind \in Items => ~remoteEof
           /\ c2d # <<>> =>
                 /\ Head(c2d) \in Frames
                 /\ Head(c2d).kind \in Items =>
                        Ready /\ inputQ = <<>>
                 /\ Head(c2d).kind = "Ack" =>
                        ackExpected /\ ackQ = <<>> /\ task = "running" /\ downstream = "wait"
                 /\ Head(c2d).kind = "Fin" => relay = "done" /\ Tail(c2d) = <<>>
<1>0. /\ c2d \in Seq(Frames) /\ d2c \in Seq(Frames) /\ Len(downGiven) \in Nat
      /\ Len(downGotten) \in Nat
    BY Zenon, LenProperties DEF Calm, ForwardInv, ForwardTypes
<1>1. ASSUME d2c # <<>>
      PROVE  /\ Head(d2c) \in Frames /\ Head(d2c).kind \in {"Opened", "Ack", "Data", "Eof"}
             /\ relay = "opening" => Head(d2c).kind = "Opened"
             /\ relay \notin {"handshake", "opening"} => Head(d2c).kind # "Opened"
             /\ Head(d2c).kind = "Ack" => waitingAck
             /\ relay = "relay" /\ Head(d2c).kind \in Items => ~remoteEof
    <2>1. Head(d2c) \in Frames
        BY Zenon, <1>0, <1>1, Tailed
    <2>2. Head(d2c).kind \notin Unwelcome
        BY Zenon, <1>0, <1>1, TakesOut DEF Calm, Smooth
    <2>3. Head(d2c).kind \in {"Opened", "Ack", "Data", "Eof"}
        BY Zenon, <2>1, <2>2 DEF Frames, Kinds, Unwelcome
    <2>4. relay = "opening" => Head(d2c).kind = "Opened"
        BY Zenon, <1>1 DEF Calm, Smooth
    <2>5. relay \notin {"handshake", "opening"} => Head(d2c).kind # "Opened"
        <3>1. Head(d2c).kind \in {"Opened"} => Has(d2c, {"Opened"})
            BY Zenon, <1>0, <1>1, TakesOut
        <3> QED BY Zenon, <3>1 DEF Calm, Smooth
    <2>6. Head(d2c).kind = "Ack" => waitingAck
        <3>1. Head(d2c).kind \in Acks => Has(d2c, Acks)
            BY Zenon, <1>0, <1>1, TakesOut
        <3> QED BY Zenon, <3>1 DEF Acks, Calm, ForwardInv, UpFlow
    <2>7. relay = "relay" /\ Head(d2c).kind \in Items => ~remoteEof
        <3>1. Head(d2c).kind \in Items => Has(d2c, Items)
            BY Zenon, <1>0, <1>1, TakesOut
        <3> QED BY <1>0, <3>1, SMTT(40) DEF Calm, ForwardInv, DownFlow, DownFlying, Endings, DownSettled
    <2> QED BY Zenon, <2>1, <2>3, <2>4, <2>5, <2>6, <2>7
<1>2. ASSUME c2d # <<>>
      PROVE  /\ Head(c2d) \in Frames
             /\ Head(c2d).kind \in Items => Ready /\ inputQ = <<>>
             /\ Head(c2d).kind = "Ack" =>
                    ackExpected /\ ackQ = <<>> /\ task = "running" /\ downstream = "wait"
             /\ Head(c2d).kind = "Fin" => relay = "done" /\ Tail(c2d) = <<>>
    <2>1. Head(c2d) \in Frames
        BY Zenon, <1>0, <1>2, Tailed
    <2>2. Head(c2d).kind \in Items => Ready /\ inputQ = <<>>
        <3>1. Head(c2d).kind \in Items => Has(c2d, Items)
            BY Zenon, <1>0, <1>2, TakesOut
        <3> QED BY Zenon, <3>1 DEF Calm, ForwardInv, UpFlow, UpReady
    <2>3. ASSUME Head(c2d).kind = "Ack"
          PROVE  ackExpected /\ ackQ = <<>> /\ task = "running" /\ downstream = "wait"
        <3>1. Head(c2d).kind \in Acks => Has(c2d, Acks)
            BY Zenon, <1>0, <1>2, TakesOut
        <3>2. downstream = "wait" /\ ackQ = <<>>
            BY Zenon, <2>3, <3>1 DEF Acks, Calm, ForwardInv, DownFlow
        <3>3. task \notin {"none", "connecting"} /\ task # "ended"
            BY Zenon, <1>2, <3>2 DEF Calm, ForwardInv, OpenedOnce, Closing
        <3> QED BY Zenon, <3>2, <3>3 DEF Calm, DownReady, ForwardInv, ForwardTypes
    <2>4. ASSUME Head(c2d).kind = "Fin" PROVE relay = "done" /\ Tail(c2d) = <<>>
        <3>1. Has(c2d, {"Fin"})
            <4>1. Head(c2d).kind \in {"Fin"} => Has(c2d, {"Fin"})
                BY Zenon, <1>0, <1>2, TakesOut
            <4> QED BY Zenon, <2>4, <4>1
        <3> QED BY Zenon, <1>0, <1>2, <2>4, <3>1, FinTaken DEF Calm, Closing
    <2> QED BY Zenon, <2>1, <2>2, <2>3, <2>4
<1> QED BY Zenon, <1>1, <1>2

\* The three places that could refuse a frame do not.
LEMMA NothingRefused ==
    ASSUME Calm
    PROVE  /\ serve => /\ relay' = "relay" /\ d2c' = Tail(d2c) /\ Head(d2c).kind = "Opened"
                       /\ UNCHANGED c2d
           /\ relay_receives =>
                 /\ d2c' = Tail(d2c) /\ UNCHANGED c2d
                 /\ \/ /\ Head(d2c).kind = "Ack" /\ waitingAck' = FALSE
                       /\ relay' = relay
                    \/ /\ Head(d2c).kind \in Items /\ relay' = "writing"
                       /\ UNCHANGED waitingAck
           /\ message =>
                 /\ UNCHANGED <<d2c, task>>
                 /\ \/ /\ Head(c2d).kind \in Items /\ inputQ' = Append(inputQ, Head(c2d))
                       /\ inputReady' = FALSE /\ UNCHANGED <<ackQ, ackExpected>>
                    \/ /\ Head(c2d).kind = "Ack" /\ ackQ' = Append(ackQ, Head(c2d))
                       /\ UNCHANGED <<inputQ, inputReady>>
<1>1. ASSUME serve
      PROVE  /\ relay' = "relay" /\ d2c' = Tail(d2c) /\ Head(d2c).kind = "Opened"
             /\ UNCHANGED c2d
    BY Zenon, <1>1, CalmHeads DEF serve
<1>2. ASSUME relay_receives
      PROVE  /\ d2c' = Tail(d2c) /\ UNCHANGED c2d
             /\ \/ /\ Head(d2c).kind = "Ack" /\ waitingAck' = FALSE
                   /\ relay' = relay
                \/ /\ Head(d2c).kind \in Items /\ relay' = "writing"
                   /\ UNCHANGED waitingAck
    <2>1. /\ Head(d2c).kind \in {"Ack", "Data", "Eof"}
          /\ Head(d2c).kind = "Ack" => waitingAck
          /\ Head(d2c).kind \in {"Data", "Eof"} => ~remoteEof
        BY Zenon, <1>2, CalmHeads DEF relay_receives, Items
    <2> QED BY Zenon, <1>2, <2>1 DEF relay_receives, Items
<1>3. ASSUME message
      PROVE  /\ UNCHANGED <<d2c, task>>
             /\ \/ /\ Head(c2d).kind \in Items /\ inputQ' = Append(inputQ, Head(c2d))
                   /\ inputReady' = FALSE /\ UNCHANGED <<ackQ, ackExpected>>
                \/ /\ Head(c2d).kind = "Ack" /\ ackQ' = Append(ackQ, Head(c2d))
                   /\ UNCHANGED <<inputQ, inputReady>>
    <2>1. CASE Head(c2d).kind \in {"Data", "Eof"}
        <3>1. inputReady /\ task = "running" /\ upstream = "recv" /\ inputQ = <<>>
            BY Zenon, <1>3, <2>1, CalmHeads DEF message, Items, Ready
        <3> QED BY ZenonT(20), <1>3, <2>1, <3>1 DEF message, Items, TaskAlive
    <2>2. CASE Head(c2d).kind = "Ack"
        <3>1. ackExpected /\ ackQ = <<>> /\ task = "running" /\ downstream = "wait"
            BY Zenon, <1>3, <2>2, CalmHeads DEF message
        <3> QED BY ZenonT(20), <1>3, <2>2, <3>1 DEF message, TaskAlive
    <2> QED BY ZenonT(20), <1>3, <2>1, <2>2 DEF message
<1> QED BY ZenonT(20), <1>1, <1>2, <1>3

\* A step that brings no trouble.
CalmStep ==
    \/ request /\ relay' = "opening" /\ c2d' = Append(c2d, Frame("Open", 0))
    \/ serve \/ relay_reads \/ relay_receives \/ relay_writes \/ relay_ends
    \/ open_forward /\ task' = "connecting" /\ UNCHANGED d2c
    \/ message \/ unbind \/ connect \/ UpstreamSteps \/ DownstreamSteps \/ task_ends \/ Others

\* While nothing goes wrong only the calm steps are taken.
LEMMA CalmSteps ==
    ASSUME Calm, ForwardNext, ~trouble'
    PROVE  CalmStep
<1>0. forwardLink = "up"
    BY Zenon DEF Calm, Smooth
<1>1. ~relay_gives_up /\ ~task_fails /\ ~CutLink
    BY Zenon DEF relay_gives_up, task_fails, CutLink
<1>2. request => relay' = "opening" /\ c2d' = Append(c2d, Frame("Open", 0))
    BY Zenon, <1>0 DEF request, ToDaemon
<1>3. open_forward => task' = "connecting" /\ UNCHANGED d2c
    BY Zenon DEF open_forward
<1> QED BY Zenon, <1>1, <1>2, <1>3 DEF ForwardNext, RelaySteps, DispatchSteps, CalmStep

\* A calm step keeps the order of the opening.
LEMMA SmoothNext ==
    ASSUME Calm, ForwardTypes', CalmStep
    PROVE  Smooth'
<1>0. /\ c2d \in Seq(Frames) /\ d2c \in Seq(Frames) /\ forwardLink = "up" /\ Smooth
      /\ ForwardTypes /\ OpenedOnce /\ Granting
    BY Zenon DEF Calm, Smooth, ForwardInv, ForwardTypes
\* Frames from the daemon of the kinds the relay awaits.
<1>a. ASSUME NEW f \in Frames, f.kind \in {"Opened", "Ack", "Data", "Eof"}, ToClient(f),
             f.kind = "Opened" => d2c = <<>>
      PROVE  /\ ~Has(d2c', Unwelcome) /\ Single(d2c', {"Opened"}) /\ d2c' # <<>>
             /\ Has(d2c', {"Opened"}) => Has(d2c, {"Opened"}) \/ f.kind = "Opened"
             /\ Head(d2c') = IF d2c = <<>> THEN f ELSE Head(d2c)
    <2>1. d2c' = Append(d2c, f)
        BY Zenon, <1>0, <1>a DEF ToClient
    <2>2. f.kind \notin Unwelcome
        BY Zenon, <1>a DEF Unwelcome
    <2>3. f.kind \in {"Opened"} => ~Has(d2c, {"Opened"})
        BY <1>a DEF Has
    <2>4. ~Has(d2c', Unwelcome)
        BY Zenon, <1>0, <2>1, <2>2, PutsIn DEF Smooth
    <2>5. Single(d2c', {"Opened"})
        BY Zenon, <1>0, <2>1, <2>3, PutsIn DEF Smooth
    <2>6. Has(d2c', {"Opened"}) => Has(d2c, {"Opened"}) \/ f.kind \in {"Opened"}
        BY Zenon, <1>0, <2>1, PutsIn
    <2>7. d2c' # <<>> /\ Head(d2c') = IF d2c = <<>> THEN f ELSE Head(d2c)
        BY Zenon, <1>0, <2>1, FirstStays
    <2> QED BY Zenon, <2>4, <2>5, <2>6, <2>7
<1>b. ASSUME d2c # <<>>, d2c' = Tail(d2c)
      PROVE  /\ ~Has(d2c', Unwelcome) /\ Single(d2c', {"Opened"})
             /\ Has(d2c', {"Opened"}) => Has(d2c, {"Opened"})
             /\ Head(d2c).kind = "Opened" => ~Has(d2c', {"Opened"})
    <2>1. ~Has(d2c', Unwelcome)
        BY Zenon, <1>0, <1>b, TakesOut DEF Smooth
    <2>2. /\ Single(d2c', {"Opened"})
          /\ Has(d2c', {"Opened"}) => Has(d2c, {"Opened"})
          /\ Head(d2c).kind \in {"Opened"} => ~Has(d2c', {"Opened"})
        BY Zenon, <1>0, <1>b, TakesOut DEF Smooth
    <2> QED BY Zenon, <2>1, <2>2
\* A task that is none or connecting has sent nothing, and its relay waits.
<1>c. relay \notin {"handshake", "opening"} => task \notin {"none", "connecting"}
    BY Zenon, <1>0 DEF Smooth, OpenedOnce, Granting, ForwardTypes
<1>1. CASE request /\ relay' = "opening"
    <2>1. task = "none" /\ UNCHANGED <<task, d2c, waitingAck, localEof, forwardLink>>
          /\ relay = "handshake"
        BY Zenon, <1>0, <1>1 DEF request, OpenedOnce, taskVars
    <2> QED BY Zenon, <1>0, <1>1, <2>1 DEF Smooth
<1>2. CASE serve
    <2>1. /\ relay' = "relay" /\ d2c' = Tail(d2c) /\ Head(d2c).kind = "Opened" /\ d2c # <<>>
          /\ relay = "opening" /\ UNCHANGED <<task, waitingAck, localEof, forwardLink>>
        BY Zenon, <1>2, NothingRefused DEF serve, taskVars
    <2>2. task \notin {"none", "connecting"}
        BY Zenon, <1>0, <2>1 DEF Smooth
    <2> QED BY Zenon, <1>0, <1>b, <2>1, <2>2 DEF Smooth
<1>3. CASE relay_reads
    <2>1. relay = "relay" /\ UNCHANGED <<relay, task, d2c, forwardLink>>
        BY Zenon, <1>3 DEF relay_reads, taskVars
    <2> QED BY Zenon, <1>0, <2>1 DEF Smooth
<1>4. CASE relay_receives
    <2>1. /\ relay = "relay" /\ relay' \in {"relay", "writing"} /\ d2c # <<>> /\ d2c' = Tail(d2c)
          /\ UNCHANGED <<task, forwardLink>>
        BY ZenonT(20), <1>4, NothingRefused DEF relay_receives, taskVars
    <2>2. task \notin {"none", "connecting"}
        BY Zenon, <1>c, <2>1
    <2> QED BY Zenon, <1>0, <1>b, <2>1, <2>2 DEF Smooth
<1>5. CASE relay_writes \/ relay_ends
    <2>1. /\ relay \in {"relay", "writing"} /\ relay' \in {"relay", "done"}
          /\ UNCHANGED <<task, d2c, forwardLink>>
        BY Zenon, <1>5 DEF relay_writes, relay_ends, taskVars
    <2> QED BY Zenon, <1>0, <2>1 DEF Smooth
<1>6. CASE open_forward /\ task' = "connecting" /\ UNCHANGED d2c
    <2>1. /\ UNCHANGED <<relay, d2c, waitingAck, localEof, forwardLink>> /\ Has(c2d, {"Open"})
        <3>1. c2d # <<>> /\ Head(c2d).kind \in {"Open"}
            BY Zenon, <1>6 DEF open_forward
        <3> QED BY Zenon, <1>0, <1>6, <3>1, TakesOut DEF open_forward, relayVars
    <2>2. task = "none"
        BY Zenon, <1>0, <2>1 DEF OpenedOnce
    <2> QED BY Zenon, <1>0, <1>6, <2>1, <2>2 DEF Smooth
<1>7. CASE message
    <2>1. UNCHANGED <<relay, d2c, task, waitingAck, localEof, forwardLink>>
        BY ZenonT(20), <1>7, NothingRefused DEF message, relayVars
    <2> QED BY Zenon, <1>0, <2>1 DEF Smooth
<1>8. CASE unbind
    <2>1. /\ c2d # <<>> /\ Head(c2d).kind = "Fin"
          /\ UNCHANGED <<relay, d2c, waitingAck, localEof, forwardLink>>
          /\ task' \in {"none", "ended"}
        BY Zenon, <1>0, <1>8 DEF unbind, relayVars
    <2>2. relay = "done"
        BY Zenon, <2>1, CalmHeads
    <2>3. task' = "ended"
        BY Zenon, <1>8, <1>c, <2>2 DEF unbind
    <2> QED BY Zenon, <1>0, <2>1, <2>2, <2>3 DEF Smooth
<1>9. CASE connect
    <2>1. /\ task = "connecting" /\ task' = "running" /\ ToClient(Frame("Opened", 0))
          /\ UNCHANGED <<relay, waitingAck, localEof, forwardLink>>
        BY Zenon, <1>9 DEF connect, relayVars
    <2>2. d2c = <<>> /\ relay \in {"handshake", "opening"}
        BY Zenon, <1>0, <1>c, <2>1 DEF Smooth
    <2>3. Frame("Opened", 0) \in Frames /\ Frame("Opened", 0).kind = "Opened"
        BY Zenon, FrameTyped DEF Kinds
    <2> QED BY Zenon, <1>0, <1>a, <2>1, <2>2, <2>3 DEF Smooth
<1>10. ASSUME NEW f \in Frames, f.kind \in {"Ack", "Data", "Eof"}, ToClient(f),
              task = "running", UNCHANGED <<relay, task, waitingAck, localEof, forwardLink>>
       PROVE  Smooth'
    <2>1. /\ ~Has(d2c', Unwelcome) /\ Single(d2c', {"Opened"}) /\ d2c' # <<>>
          /\ Has(d2c', {"Opened"}) => Has(d2c, {"Opened"})
          /\ Head(d2c') = IF d2c = <<>> THEN f ELSE Head(d2c)
        BY Zenon, <1>10, <1>a
    <2> QED BY Zenon, <1>0, <1>10, <2>1 DEF Smooth
<1>11. CASE up_ack
    <2>1. Frame("Ack", 0) \in Frames /\ Frame("Ack", 0).kind = "Ack"
        BY Zenon, FrameTyped DEF Kinds
    <2>2. /\ task = "running" /\ UNCHANGED <<relay, task, waitingAck, localEof, forwardLink>>
          /\ ToClient(Frame("Ack", 0))
        BY Zenon, <1>11 DEF up_ack, relayVars
    <2> QED BY Zenon, <1>10, <2>1, <2>2
<1>12. CASE down_send
    <2>1. /\ task = "running" /\ UNCHANGED <<relay, task, waitingAck, localEof, forwardLink>>
          /\ ToClient(downHolds) /\ downHolds.kind \in {"Data", "Eof"} /\ downHolds \in Frames
        BY Zenon, <1>0, <1>12 DEF down_send, relayVars, Calm, ForwardInv, DownFlow, Items, ForwardTypes
    <2> QED BY Zenon, <1>10, <2>1
<1>13. CASE task_ends
    <2>1. /\ task = "running" /\ task' = "ended"
          /\ UNCHANGED <<relay, d2c, waitingAck, localEof, forwardLink>>
        BY Zenon, <1>13 DEF task_ends, relayVars
    <2> QED BY Zenon, <1>0, <2>1 DEF Smooth
<1>14. CASE up_recv \/ up_write \/ down_read \/ down_acked \/ Others
    <2>1. UNCHANGED <<relay, d2c, task, waitingAck, localEof, forwardLink>>
        BY Zenon, <1>14 DEF up_recv, up_write, down_read, down_acked, Others, relayVars, taskVars
    <2> QED BY Zenon, <1>0, <2>1 DEF Smooth
<1> QED BY Zenon, <1>1, <1>2, <1>3, <1>4, <1>5, <1>6, <1>7, <1>8, <1>9, <1>11, <1>12, <1>13, <1>14
        DEF CalmStep, UpstreamSteps, DownstreamSteps

\* A step that brings no item, no acknowledgement, and leaves the upward loop
\* and the relay's flags alone.
LEMMA UpStaysReady ==
    ASSUME Calm, Marks(c2d', localEof), Has(c2d', Items) => Has(c2d, Items),
           Has(d2c', Acks) => Has(d2c, Acks),
           UNCHANGED <<inputQ, upHolds, upstream, inputReady, localEof, waitingAck>>,
           \/ task' = task
           \/ task = "none" /\ task' = "connecting"
           \/ task = "running" /\ upstream = "done"
    PROVE  UpReady'
<1>1. UpReady
    BY Zenon DEF Calm
<1> QED BY Zenon, <1>1 DEF UpReady, Ready

\* In a calm state an item or an acknowledgement is in one place only.
LEMMA OnePlace ==
    ASSUME Calm
    PROVE  /\ Has(c2d, Items) \/ inputQ # <<>> \/ upstream = "write" =>
                 waitingAck /\ ~Has(d2c, Acks)
           /\ Has(c2d, Items) => inputQ = <<>> /\ upstream \notin {"write", "ack"}
           /\ inputQ # <<>> => Tail(inputQ) = <<>> /\ upstream \notin {"write", "ack"}
           /\ upstream = "ack" => waitingAck /\ ~Has(c2d, Items) /\ ~Has(d2c, Acks)
           /\ Has(d2c, Acks) => waitingAck
           /\ relay \notin {"handshake", "opening"} => task \notin {"none", "connecting"}
<1>1. UpFlow /\ Len(upGiven) \in Nat /\ Len(upGotten) \in Nat /\ Smooth /\ UpReady
      /\ OpenedOnce /\ Granting /\ ForwardTypes /\ Closing
    BY Zenon, LenProperties DEF Calm, ForwardInv, ForwardTypes
<1>2. UpFlying => ~UpSettled
    BY <1>1 DEF UpFlying, UpSettled
<1>3. /\ Has(c2d, Items) \/ inputQ # <<>> \/ upstream = "write" =>
             waitingAck /\ ~Has(d2c, Acks)
      /\ Has(c2d, Items) => inputQ = <<>> /\ upstream \notin {"write", "ack"}
      /\ inputQ # <<>> => Tail(inputQ) = <<>> /\ upstream \notin {"write", "ack"}
      /\ upstream = "ack" => waitingAck /\ ~Has(c2d, Items) /\ ~Has(d2c, Acks)
      /\ Has(d2c, Acks) => waitingAck
    BY Zenon, <1>1, <1>2 DEF UpFlow, UpFlying
<1>4. relay \notin {"handshake", "opening"} => task \notin {"none", "connecting"}
    BY Zenon, <1>1 DEF Smooth, OpenedOnce, Granting, ForwardTypes
<1> QED BY Zenon, <1>3, <1>4

\* A calm step keeps the upward flags up when something is on its way.
LEMMA UpReadyNext ==
    ASSUME Calm, CalmStep
    PROVE  UpReady'
<1>0. /\ c2d \in Seq(Frames) /\ d2c \in Seq(Frames) /\ inputQ \in Seq(Frames)
      /\ forwardLink = "up" /\ UpReady /\ Smooth /\ ForwardTypes /\ UpFlow
    BY Zenon DEF Calm, Smooth, ForwardInv, ForwardTypes
<1>a. ASSUME NEW f \in Frames, f.kind \notin Items, ToDaemon(f)
      PROVE  Marks(c2d', localEof) /\ (Has(c2d', Items) => Has(c2d, Items))
    BY Zenon, <1>0, <1>a, MarksPut, PutsIn DEF ToDaemon, UpReady
<1>b. ASSUME c2d # <<>>, c2d' = Tail(c2d)
      PROVE  Marks(c2d', localEof) /\ (Has(c2d', Items) => Has(c2d, Items))
    BY Zenon, <1>0, <1>b, MarksTaken, TakesOut DEF UpReady
<1>c. ASSUME UNCHANGED c2d
      PROVE  Marks(c2d', localEof) /\ (Has(c2d', Items) => Has(c2d, Items))
    BY Zenon, <1>0, <1>c DEF UpReady
<1>d. ASSUME NEW f \in Frames, f.kind \notin Acks, ToClient(f)
      PROVE  Has(d2c', Acks) => Has(d2c, Acks)
    BY Zenon, <1>0, <1>d, PutsIn DEF ToClient
<1>e. ASSUME d2c # <<>>, d2c' = Tail(d2c)
      PROVE  Has(d2c', Acks) => Has(d2c, Acks)
    BY Zenon, <1>0, <1>e, TakesOut
<1>1. CASE request /\ relay' = "opening" /\ c2d' = Append(c2d, Frame("Open", 0))
    <2>1. Frame("Open", 0) \in Frames /\ Frame("Open", 0).kind \notin Items
        BY ZenonT(20), FrameTyped DEF Kinds, Items
    <2>2. /\ ToDaemon(Frame("Open", 0))
          /\ UNCHANGED <<inputQ, upHolds, upstream, inputReady, localEof, waitingAck, task, d2c>>
        BY Zenon, <1>0, <1>1 DEF request, ToDaemon, bindVars, taskVars
    <2> QED BY Zenon, <1>a, <2>1, <2>2, UpStaysReady
<1>2. CASE serve
    <2>1. /\ d2c # <<>> /\ d2c' = Tail(d2c)
          /\ UNCHANGED <<inputQ, upHolds, upstream, inputReady, localEof, waitingAck, task, c2d>>
        BY Zenon, <1>2, NothingRefused DEF serve, bindVars, taskVars
    <2> QED BY Zenon, <1>c, <1>e, <2>1, UpStaysReady
<1>3. CASE relay_reads
    <2>1. PICK f \in Reads(upGiven) : localEof' = (f.kind = "Eof") /\ ToDaemon(f)
        BY Zenon, <1>3 DEF relay_reads
    <2>2. /\ relay = "relay" /\ ~localEof /\ ~waitingAck /\ waitingAck' = TRUE
          /\ UNCHANGED <<inputQ, upHolds, upstream, inputReady, task, d2c>>
        BY Zenon, <1>3 DEF relay_reads, bindVars, taskVars
    <2>3. Ready /\ ~Has(c2d, Items) /\ ~Has(d2c, Acks) /\ inputQ = <<>>
        <3>1. task \notin {"none", "connecting"}
            BY Zenon, <2>2, OnePlace
        <3> QED BY Zenon, <1>0, <2>2, <3>1, OnePlace DEF UpReady
    <2>4. f \in Frames /\ f.kind \in Items
        BY Zenon, <1>0, <2>1, ReadsTyped DEF ForwardTypes
    <2>5. Marks(c2d', f.kind = "Eof")
        BY ZenonT(20), <1>0, <2>1, <2>3, <2>4, MarksPut DEF ToDaemon
    <2>6. Marks(inputQ', f.kind = "Eof")
        BY <2>2, <2>3 DEF Marks
    <2>7. Ready' /\ ~Has(d2c', Acks) /\ inputQ' = <<>> /\ upstream' = "recv" /\ waitingAck'
        BY Zenon, <2>2, <2>3 DEF Ready
    <2> QED BY Zenon, <2>1, <2>5, <2>6, <2>7 DEF UpReady
<1>4. CASE relay_receives
    <2>1. /\ d2c # <<>> /\ d2c' = Tail(d2c)
          /\ UNCHANGED <<inputQ, upHolds, upstream, inputReady, localEof, task, c2d>>
          /\ \/ Head(d2c).kind = "Ack" /\ waitingAck' = FALSE
             \/ UNCHANGED waitingAck
        BY ZenonT(20), <1>4, NothingRefused DEF relay_receives, bindVars, taskVars
    <2>2. CASE UNCHANGED waitingAck
        BY Zenon, <1>c, <1>e, <2>1, <2>2, UpStaysReady
    <2>3. CASE Head(d2c).kind = "Ack" /\ waitingAck' = FALSE
        <3>1. Has(d2c, Acks) /\ ~Has(d2c', Acks)
            BY Zenon, <1>0, <2>1, <2>3, TakesOut DEF Acks, UpFlow
        <3> QED BY Zenon, <1>0, <2>1, <2>3, <3>1 DEF UpReady, Ready
    <2> QED BY ZenonT(20), <2>1, <2>2, <2>3
<1>5. CASE relay_writes \/ relay_ends
    <2>1. PICK k \in {"Ack", "Fin"} : ToDaemon(Frame(k, 0))
        BY Zenon, <1>5 DEF relay_writes, relay_ends
    <2>2. UNCHANGED <<inputQ, upHolds, upstream, inputReady, localEof, waitingAck, task, d2c>>
        BY Zenon, <1>5 DEF relay_writes, relay_ends, bindVars, taskVars
    <2>3. Frame(k, 0) \in Frames /\ Frame(k, 0).kind \notin Items
        BY ZenonT(20), FrameTyped DEF Kinds, Items
    <2> QED BY Zenon, <1>a, <2>1, <2>2, <2>3, UpStaysReady
<1>6. CASE open_forward /\ task' = "connecting" /\ UNCHANGED d2c
    <2>1. /\ c2d # <<>> /\ c2d' = Tail(c2d) /\ Has(c2d, {"Open"})
          /\ UNCHANGED <<inputQ, upHolds, upstream, inputReady, localEof, waitingAck>>
        <3>1. c2d # <<>> /\ Head(c2d).kind \in {"Open"}
            BY Zenon, <1>6 DEF open_forward
        <3> QED BY Zenon, <1>0, <1>6, <3>1, TakesOut DEF open_forward, relayVars
    <2>2. task = "none"
        BY Zenon, <2>1 DEF Calm, ForwardInv, OpenedOnce
    <2> QED BY Zenon, <1>b, <1>6, <2>1, <2>2, UpStaysReady
<1>7. CASE message
    <2>1. /\ c2d # <<>> /\ c2d' = Tail(c2d) /\ Head(c2d) \in Frames
          /\ UNCHANGED <<upHolds, upstream, localEof, waitingAck, task, d2c>>
        BY ZenonT(20), <1>7, NothingRefused, CalmHeads DEF message, relayVars
    <2>2. CASE UNCHANGED <<inputQ, inputReady>>
        BY Zenon, <1>b, <2>1, <2>2, UpStaysReady
    <2>3. CASE Head(c2d).kind \in Items /\ inputQ' = Append(inputQ, Head(c2d))
        <3>1. /\ Ready /\ inputQ = <<>> /\ Has(c2d, Items) /\ ~Has(c2d', Items)
              /\ ~Has(d2c, Acks) /\ waitingAck
            <4>1. Has(c2d, Items) /\ ~Has(c2d', Items)
                BY Zenon, <1>0, <2>1, <2>3, TakesOut DEF UpFlow
            <4> QED BY Zenon, <2>1, <2>3, <4>1, OnePlace, CalmHeads
        <3>2. /\ Marks(c2d', localEof)
              /\ Head(c2d).kind \in Items => (Head(c2d).kind = "Eof" <=> localEof)
            BY <1>0, <2>1, MarksTaken DEF UpReady
        <3>3. Marks(inputQ', localEof) /\ Head(inputQ').kind \in Items
            BY ZenonT(20), <1>0, <2>1, <2>3, <3>1, <3>2, MarksPut, FirstStays DEF UpReady
        <3> QED BY Zenon, <2>1, <3>1, <3>2, <3>3 DEF UpReady, Ready
    <2> QED BY ZenonT(20), <1>7, <2>2, <2>3, NothingRefused
<1>8. CASE unbind
    <2>1. /\ c2d # <<>> /\ c2d' = Tail(c2d) /\ Head(c2d).kind = "Fin"
          /\ UNCHANGED <<inputQ, upHolds, upstream, inputReady, localEof, waitingAck, d2c>>
          /\ task' = IF task = "none" THEN "none" ELSE "ended"
        BY Zenon, <1>0, <1>8 DEF unbind, relayVars
    <2>2. relay = "done" /\ localEof /\ ~waitingAck
        BY Zenon, <2>1, CalmHeads DEF Calm, Endings
    <2>3. upstream = "done" /\ task \notin {"none", "connecting"}
        BY Zenon, <1>0, <2>2, OnePlace DEF UpReady
    <2> QED BY Zenon, <1>0, <1>b, <2>1, <2>3, UpStaysReady DEF ForwardTypes
<1>9. CASE connect
    <2>1. /\ task = "connecting" /\ task' = "running" /\ upstream' = "recv" /\ inputReady' = TRUE
          /\ ToClient(Frame("Opened", 0)) /\ UNCHANGED <<inputQ, localEof, waitingAck, c2d, relay>>
        BY Zenon, <1>9 DEF connect, relayVars
    <2>2. Frame("Opened", 0) \in Frames /\ Frame("Opened", 0).kind \notin Acks
        BY ZenonT(20), FrameTyped DEF Kinds, Acks
    <2>3. relay \in {"handshake", "opening"} /\ ~localEof /\ ~waitingAck
        BY Zenon, <1>0, <2>1, OnePlace DEF Smooth
    <2>4. Ready'
        BY Zenon, <2>1 DEF Ready
    <2> QED BY Zenon, <1>0, <2>1, <2>3, <2>4 DEF UpReady
<1>10. CASE up_recv
    <2>1. /\ upstream = "recv" /\ inputQ # <<>> /\ upHolds' = Head(inputQ)
          /\ inputQ' = Tail(inputQ) /\ upstream' = "write"
          /\ UNCHANGED <<localEof, waitingAck, c2d, d2c, task, inputReady>>
        BY Zenon, <1>10 DEF up_recv, relayVars
    <2>2. waitingAck /\ ~Has(d2c, Acks) /\ ~Has(c2d, Items) /\ inputQ' = <<>>
        BY Zenon, <2>1, OnePlace
    <2>3. Head(inputQ).kind \in Items /\ (Head(inputQ).kind = "Eof" <=> localEof)
        BY <1>0, <2>1, MarksTaken DEF UpReady
    <2>4. Marks(inputQ', localEof')
        BY <2>2 DEF Marks
    <2> QED BY Zenon, <1>0, <2>1, <2>2, <2>3, <2>4 DEF UpReady
<1>11. CASE up_write
    <2>1. /\ upstream = "write" /\ upstream' = "ack" /\ inputReady' = (upHolds.kind = "Data")
          /\ UNCHANGED <<localEof, waitingAck, c2d, d2c, task, upHolds, inputQ>>
        BY Zenon, <1>11 DEF up_write, relayVars
    <2>2. waitingAck /\ ~Has(d2c, Acks) /\ ~Has(c2d, Items) /\ inputQ = <<>>
        BY Zenon, <2>1, OnePlace
    <2>3. upHolds.kind \in Items /\ (upHolds.kind = "Eof" <=> localEof)
        BY Zenon, <1>0, <2>1 DEF UpReady
    <2>4. ~localEof => inputReady'
        BY ZenonT(20), <2>1, <2>3 DEF Items
    <2> QED BY Zenon, <1>0, <2>1, <2>2, <2>3, <2>4 DEF UpReady
<1>12. CASE up_ack
    <2>1. /\ upstream = "ack" /\ upstream' = IF upHolds.kind = "Eof" THEN "done" ELSE "recv"
          /\ task = "running"
          /\ UNCHANGED <<localEof, waitingAck, c2d, task, upHolds, inputQ, inputReady>>
        BY Zenon, <1>12 DEF up_ack, relayVars, bindVars
    <2>2. waitingAck /\ ~Has(c2d, Items)
        BY Zenon, <2>1, OnePlace
    <2>3. (upHolds.kind = "Eof" <=> localEof) /\ (~localEof => inputReady)
        BY Zenon, <1>0, <2>1 DEF UpReady
    <2>4. (localEof => upstream' = "done") /\ (~localEof => Ready') /\ upstream' \notin {"write", "ack"}
        BY Zenon, <2>1, <2>3 DEF Ready
    <2> QED BY Zenon, <1>0, <2>1, <2>2, <2>4 DEF UpReady
<1>13. CASE DownstreamSteps
    <2>1. /\ UNCHANGED <<inputQ, upHolds, upstream, inputReady, localEof, waitingAck, task, c2d>>
          /\ d2c' = d2c \/ (ToClient(downHolds) /\ downstream = "send")
        BY Zenon, <1>13 DEF DownstreamSteps, down_read, down_send, down_acked, relayVars, bindVars
    <2>2. downstream = "send" => downHolds.kind \notin Acks /\ downHolds \in Frames
        BY Zenon DEF Calm, ForwardInv, DownFlow, Items, Acks, ForwardTypes
    <2>3. Has(d2c', Acks) => Has(d2c, Acks)
        BY Zenon, <1>d, <2>1, <2>2
    <2> QED BY Zenon, <1>c, <2>1, <2>3, UpStaysReady
<1>14. CASE task_ends \/ Others
    <2>1. /\ UNCHANGED <<inputQ, upHolds, upstream, inputReady, localEof, waitingAck, d2c, c2d>>
          /\ task' = task \/ (task = "running" /\ upstream = "done")
        BY Zenon, <1>14 DEF task_ends, Others, relayVars, bindVars, taskVars
    <2> QED BY Zenon, <1>c, <2>1, UpStaysReady
<1> QED BY Zenon, <1>1, <1>2, <1>3, <1>4, <1>5, <1>6, <1>7, <1>8, <1>9, <1>10, <1>11, <1>12, <1>13, <1>14
        DEF CalmStep, UpstreamSteps

\* A calm step keeps the downward flags up when something is on its way.
LEMMA DownReadyNext ==
    ASSUME Calm, CalmStep
    PROVE  DownReady'
<1>0. /\ DownReady /\ ackQ \in Seq(Frames) /\ DownFlow /\ forwardLink = "up"
    BY Zenon DEF Calm, ForwardInv, ForwardTypes, Smooth
<1>1. CASE message
    <2>1. c2d # <<>> /\ Head(c2d) \in Frames /\ UNCHANGED downstream
        BY Zenon, <1>1, CalmHeads DEF message
    <2>2. \/ UNCHANGED <<ackQ, ackExpected>>
          \/ ackQ' = Append(ackQ, Head(c2d))
        BY ZenonT(20), <1>1, NothingRefused
    <2>3. Append(ackQ, Head(c2d)) # <<>>
        BY Zenon, <1>0, <2>1, FirstStays
    <2> QED BY Zenon, <1>0, <2>1, <2>2, <2>3 DEF DownReady
<1>2. CASE connect \/ down_acked
    <2>1. downstream' \in {"read", "done"}
        BY Zenon, <1>2 DEF connect, down_acked
    <2> QED BY Zenon, <2>1 DEF DownReady
<1>3. CASE down_read
    BY Zenon, <1>3 DEF down_read, DownReady
<1>4. CASE down_send
    BY Zenon, <1>0, <1>4 DEF down_send, bindVars, DownReady
<1>5. CASE UNCHANGED <<downstream, ackQ, ackExpected>>
    BY Zenon, <1>0, <1>5 DEF DownReady
<1>6. request \/ serve \/ relay_reads \/ relay_receives \/ relay_writes \/ relay_ends =>
          UNCHANGED <<downstream, ackQ, ackExpected>>
    BY Zenon DEF request, serve, relay_reads, relay_receives, relay_writes, relay_ends, bindVars,
           taskVars
<1>7. open_forward \/ unbind \/ UpstreamSteps \/ task_ends \/ Others =>
          UNCHANGED <<downstream, ackQ, ackExpected>>
    BY Zenon DEF open_forward, unbind, UpstreamSteps, up_recv, up_write, up_ack, task_ends, Others,
           bindVars, taskVars
<1> QED BY Zenon, <1>1, <1>2, <1>3, <1>4, <1>5, <1>6, <1>7 DEF CalmStep, DownstreamSteps

\* A calm step keeps Fin last.
LEMMA ClosingNext ==
    ASSUME Calm, CalmStep
    PROVE  Closing'
<1>0. /\ c2d \in Seq(Frames) /\ forwardLink = "up" /\ Closing /\ ForwardTypes
    BY Zenon DEF Calm, Smooth, ForwardInv, ForwardTypes
\* A live relay has sent no Fin, and its task, once started, runs on or ended
\* with both loops done.
<1>a. ASSUME relay # "done", NEW f \in Frames, c2d' = Append(c2d, f),
             f.kind = "Fin" => relay' = "done", UNCHANGED <<task, upstream, downstream>>
      PROVE  Closing'
    <2>1. ~Has(c2d, {"Fin"}) /\ (task = "ended" => upstream = "done" /\ downstream = "done")
        BY Zenon, <1>0, <1>a DEF Closing
    <2>2. FinLast(c2d')
        BY Zenon, <1>0, <1>a, <2>1, FinPut
    <2>3. Has(c2d', {"Fin"}) => f.kind \in {"Fin"}
        BY Zenon, <1>0, <1>a, <2>1, PutsIn
    <2> QED BY Zenon, <1>a, <2>1, <2>2, <2>3 DEF Closing
<1>b. ASSUME c2d # <<>>, c2d' = Tail(c2d), UNCHANGED <<relay, upstream, downstream>>,
             task' = "ended" => \/ task = "ended"
                                \/ upstream = "done" /\ relay = "done" /\ c2d' = <<>>
      PROVE  Closing'
    <2>1. FinLast(c2d') /\ (Has(c2d', {"Fin"}) => Has(c2d, {"Fin"}))
        BY Zenon, <1>0, <1>b, FinTaken, TakesOut DEF Closing
    <2> QED BY Zenon, <1>0, <1>b, <2>1 DEF Closing
<1>c. ASSUME UNCHANGED <<c2d, task>>, task = "ended" => UNCHANGED <<upstream, downstream>>,
             relay = "done" => relay' = "done"
      PROVE  Closing'
    BY Zenon, <1>0, <1>c DEF Closing
<1>1. CASE request /\ relay' = "opening" /\ c2d' = Append(c2d, Frame("Open", 0))
    <2>1. Frame("Open", 0) \in Frames /\ Frame("Open", 0).kind # "Fin" /\ relay # "done"
          /\ UNCHANGED <<task, upstream, downstream>>
        BY ZenonT(20), <1>1, FrameTyped DEF Kinds, request, taskVars
    <2> QED BY Zenon, <1>a, <1>1, <2>1
<1>2. CASE serve \/ relay_receives
    <2>1. UNCHANGED c2d
        BY ZenonT(20), <1>2, NothingRefused
    <2>2. UNCHANGED <<task, upstream, downstream>> /\ relay # "done"
        BY Zenon, <1>2 DEF serve, relay_receives, taskVars
    <2> QED BY Zenon, <1>c, <2>1, <2>2
<1>3. CASE relay_reads
    <2>1. PICK f \in Reads(upGiven) : ToDaemon(f)
        BY Zenon, <1>3 DEF relay_reads
    <2>2. f \in Frames /\ f.kind # "Fin"
        BY ZenonT(20), <1>0, <2>1, ReadsTyped DEF ForwardTypes, Items
    <2>3. c2d' = Append(c2d, f) /\ relay # "done" /\ UNCHANGED <<task, upstream, downstream>>
        BY Zenon, <1>0, <1>3, <2>1 DEF relay_reads, ToDaemon, taskVars
    <2> QED BY Zenon, <1>a, <2>2, <2>3
<1>4. CASE relay_writes
    <2>1. Frame("Ack", 0) \in Frames /\ Frame("Ack", 0).kind # "Fin"
        BY ZenonT(20), FrameTyped DEF Kinds
    <2>2. /\ c2d' = Append(c2d, Frame("Ack", 0)) /\ relay # "done"
          /\ UNCHANGED <<task, upstream, downstream>>
        BY Zenon, <1>0, <1>4 DEF relay_writes, ToDaemon, taskVars
    <2> QED BY Zenon, <1>a, <2>1, <2>2
<1>5. CASE relay_ends
    <2>1. Frame("Fin", 0) \in Frames
        BY Zenon, FrameTyped DEF Kinds
    <2>2. /\ c2d' = Append(c2d, Frame("Fin", 0)) /\ relay # "done" /\ relay' = "done"
          /\ UNCHANGED <<task, upstream, downstream>>
        BY Zenon, <1>0, <1>5 DEF relay_ends, ToDaemon, taskVars
    <2> QED BY Zenon, <1>a, <2>1, <2>2
<1>6. CASE open_forward /\ task' = "connecting"
    <2>1. c2d # <<>> /\ c2d' = Tail(c2d) /\ UNCHANGED <<relay, upstream, downstream>>
        BY Zenon, <1>6 DEF open_forward, relayVars
    <2> QED BY Zenon, <1>b, <1>6, <2>1
<1>7. CASE message
    <2>1. /\ c2d # <<>> /\ c2d' = Tail(c2d) /\ UNCHANGED <<relay, upstream, downstream, task>>
        BY ZenonT(20), <1>7, NothingRefused DEF message, relayVars
    <2> QED BY Zenon, <1>b, <2>1
<1>8. CASE unbind
    <2>1. /\ c2d # <<>> /\ c2d' = Tail(c2d) /\ Head(c2d).kind = "Fin"
          /\ UNCHANGED <<relay, upstream, downstream>>
        BY Zenon, <1>0, <1>8 DEF unbind, relayVars
    <2>2. relay = "done" /\ c2d' = <<>>
        BY Zenon, <2>1, CalmHeads
    <2>3. upstream = "done"
        BY Zenon, <2>2 DEF Calm, Endings, UpReady
    <2> QED BY Zenon, <1>b, <2>1, <2>2, <2>3
<1>9. CASE connect
    <2>1. task' = "running" /\ UNCHANGED <<c2d, relay>>
        BY Zenon, <1>9 DEF connect, relayVars
    <2> QED BY Zenon, <1>0, <2>1 DEF Closing
<1>10. CASE UpstreamSteps \/ DownstreamSteps
    <2>1. task = "running" /\ UNCHANGED <<c2d, relay, task>>
        BY Zenon, <1>10 DEF UpstreamSteps, DownstreamSteps, up_recv, up_write, up_ack, down_read,
                     down_send, down_acked, relayVars
    <2> QED BY Zenon, <1>c, <2>1
<1>11. CASE task_ends
    <2>1. upstream = "done" /\ downstream = "done" /\ UNCHANGED <<c2d, relay, upstream, downstream>>
        BY Zenon, <1>11 DEF task_ends, relayVars
    <2> QED BY Zenon, <1>0, <2>1 DEF Closing
<1>12. CASE Others
    <2>1. UNCHANGED <<c2d, relay, task, upstream, downstream>>
        BY Zenon, <1>12 DEF Others, relayVars, taskVars
    <2> QED BY Zenon, <1>c, <2>1
<1> QED BY Zenon, <1>1, <1>2, <1>3, <1>4, <1>5, <1>6, <1>7, <1>8, <1>9, <1>10, <1>11, <1>12
        DEF CalmStep

\* Trouble, once noted, stays noted.
LEMMA TroubleStays ==
    ASSUME [ForwardNext]_forwardVars
    PROVE  trouble => trouble'
<1>1. RelaySteps \/ DispatchSteps => trouble' = trouble \/ trouble' = TRUE
    BY ZenonT(20) DEF RelaySteps, DispatchSteps, request, serve, relay_reads, relay_receives, relay_writes,
           relay_ends, open_forward, message, unbind
<1>2. connect \/ UpstreamSteps \/ DownstreamSteps \/ task_ends \/ relay_gives_up \/ task_fails
          \/ CutLink \/ Others => trouble' = trouble \/ trouble' = TRUE
    BY ZenonT(20) DEF connect, UpstreamSteps, DownstreamSteps, task_ends, relay_gives_up, task_fails, CutLink,
           Others, up_recv, up_write, up_ack, down_read, down_send, down_acked
<1> QED BY ZenonT(60), <1>1, <1>2 DEF ForwardNext, forwardVars

\* While nothing went wrong, the state is calm.
Untroubled == ~trouble => Smooth /\ UpReady /\ DownReady /\ Closing

\* The state is calm at the start.
LEMMA UntroubledInit == ForwardInit => Untroubled
<1> SUFFICES ASSUME ForwardInit PROVE Smooth /\ UpReady /\ DownReady /\ Closing
    BY Zenon DEF Untroubled
<1>1. /\ c2d = <<>> /\ d2c = <<>> /\ inputQ = <<>> /\ relay = "handshake" /\ ~waitingAck
      /\ ~localEof /\ forwardLink = "up" /\ task = "none" /\ upstream = "none"
      /\ downstream = "none"
    BY Zenon DEF ForwardInit
<1>2. /\ \A K : ~Has(<<>>, K) /\ Single(<<>>, K)
      /\ \A e : Marks(<<>>, e)
      /\ FinLast(<<>>)
    BY DEF Has, Single, Marks, FinLast
<1>3. Smooth
    BY Zenon, <1>1, <1>2 DEF Smooth
<1>4. UpReady
    BY Zenon, <1>1, <1>2 DEF UpReady
<1>5. DownReady /\ Closing
    BY Zenon, <1>1, <1>2 DEF DownReady, Closing
<1> QED BY Zenon, <1>3, <1>4, <1>5

\* Every step keeps the state calm while nothing went wrong.
LEMMA UntroubledNext ==
    ASSUME ForwardInv, ForwardInv', Endings, Untroubled, [ForwardNext]_forwardVars
    PROVE  Untroubled'
<1> SUFFICES ASSUME ~trouble' PROVE (Smooth /\ UpReady /\ DownReady /\ Closing)'
    BY Zenon DEF Untroubled
<1>1. Calm
    BY Zenon, TroubleStays DEF Untroubled, Calm
<1>2. CASE ForwardNext
    <2>1. CalmStep /\ ForwardTypes'
        BY Zenon, <1>1, <1>2, CalmSteps DEF ForwardInv
    <2> QED BY Zenon, <1>1, <2>1, SmoothNext, UpReadyNext, DownReadyNext, ClosingNext
<1>3. CASE UNCHANGED forwardVars
    BY <1>1, <1>3 DEF forwardVars, relayVars, bindVars, taskVars, Calm, Smooth, UpReady, Ready,
                      DownReady, Closing
<1> QED BY Zenon, <1>2, <1>3

\* Stop-and-wait never aborts itself: without a timeout, an error, a stop or a
\* refusal neither side fails, and a task that has ended had forwarded the end
\* upwards and was told of its own, or the relay was done
\* (ForwardBinding::message, relay).
THEOREM NothingAbortsItself == ForwardSpec => []NoSpuriousAbort
<1>1. ForwardInit => Untroubled /\ Endings
    BY Zenon, UntroubledInit, EndingsInit
<1>2. ForwardInv /\ ForwardInv' /\ Endings /\ Untroubled /\ [ForwardNext]_forwardVars =>
          Untroubled' /\ Endings'
    BY Zenon, UntroubledNext, EndingsNext
<1>3. Untroubled => NoSpuriousAbort
    BY Zenon DEF Untroubled, NoSpuriousAbort, Smooth, Closing
<1> QED BY <1>1, <1>2, <1>3, ForwardInvariant, PTL DEF ForwardSpec

=============================================================================

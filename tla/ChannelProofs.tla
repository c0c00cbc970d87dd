--------------------------- MODULE ChannelProofs ----------------------------
(***************************************************************************)
(* What is carried over a connection, for any channels, shells, callers and*)
(* failures: by the writers of a WebTransport session to a client, and by  *)
(* the control stream between the gateway and an agent.                    *)
(*                                                                         *)
(* Gapless is about what a client has read; what carries it is that what   *)
(* was said on a channel is, in order, what was read, what the channel's   *)
(* queue holds, and what the router's two queues carry of it (Intact).     *)
(*                                                                         *)
(* AnswerIsMine is about a caller; what carries it is about the frames     *)
(* between gateway and agent (ControlInv).                                 *)
(***************************************************************************)
EXTENDS ChannelWriters, AgentControl, Integers, TLAPS
-----------------------------------------------------------------------------
(* The channels of a WebTransport session.                                 *)

Words == {"none", "reply", "ShellAttached", "ShellExited", "ErrTooSlow", "ShellOutput",
          "Overload"}
Envelopes == [kind : Words, chunk : Nat]
Framings == [kind : {"Frame"}, channel : Channels, frame : Envelopes]
Registers == [kind : {"Register"}, channel : Channels]

WritersTypes ==
    /\ nextChannel \in Nat
    /\ mutex \in [channel : Nat, reply : Envelopes]
    /\ events \in [Channels -> Seq(Envelopes)]
    /\ printed \in [Channels -> Nat]
    /\ forwarder \in [Channels -> {"none", "running", "exited", "done"}]
    /\ out \in Seq(Framings) /\ routed \in Seq(Framings \cup Registers)
    /\ writerOf \in [Channels -> {"none", "running", "failed", "done"}]
    /\ frames \in [Channels -> Seq(Envelopes)] /\ hand \in [Channels -> Seq(Envelopes)]
    /\ received \in [Channels -> Seq(Envelopes)] /\ entered \in [Channels -> Seq(Envelopes)]
    /\ closing \in [Channels -> BOOLEAN] /\ fin \in [Channels -> BOOLEAN]

\* x carries a frame of channel c.
For(x, c) == x.kind = "Frame" /\ x.channel = c

\* Who may still speak on a channel, and when: only on one that was opened,
\* and only before the session has closed.
Speakers ==
    /\ mutex # Idle => /\ mutex.channel \in Channels /\ mutex.channel < nextChannel
                       /\ sessionState = "open"
    /\ \A c \in Channels : forwarder[c] # "none" => c < nextChannel

\* A channel's registration is ahead of all its frames in the router's queue,
\* and its writer runs once it is through.
Ordered(c, oq, rq, n, w) ==
    /\ \A i \in 1 .. Len(oq) : For(oq[i], c) => c < n
    /\ \A i \in 1 .. Len(rq) : For(rq[i], c) => c < n
    /\ \A i, j \in 1 .. Len(rq) :
           rq[i] = Register(c) /\ j < i => ~For(rq[j], c) /\ rq[j] # Register(c)
    /\ \A i \in 1 .. Len(rq) : rq[i] = Register(c) => c < n /\ w = "none"
    /\ c < n /\ w = "none" => \E i \in 1 .. Len(rq) : rq[i] = Register(c)
    /\ w # "none" => c < n

\* What has left the router's queue for channel c and was not dropped.
Passed(c) == received[c] \o hand[c] \o frames[c]

Told(s, t) == Begins(Cut(s), t)

\* s is what the queue q carries of channel c, in order.
Carries(q, c, s) ==
    \E f \in [1 .. Len(s) -> 1 .. Len(q)] :
        /\ \A i, j \in 1 .. Len(s) : i < j => f[i] < f[j]
        /\ \A i \in 1 .. Len(s) : For(q[f[i]], c) /\ q[f[i]].frame = s[i]
        /\ \A k \in 1 .. Len(q) : For(q[k], c) => \E i \in 1 .. Len(s) : f[i] = k

\* s, what the queues rq and oq carry of channel c, and what was lost in them
\* when the session closed, make up t.
Intact(s, rq, oq, c, t, open) ==
    \E r, o, lost \in Seq(Envelopes) :
        /\ Carries(rq, c, r) /\ Carries(oq, c, o)
        /\ t = ((s \o r) \o o) \o lost
        /\ open => lost = <<>>

FlowInv(c) ==
    /\ writerOf[c] \in {"none", "running"} =>
           IF closing[c]
           THEN /\ Told(Passed(c), entered[c])
                /\ sessionState # "closed" => Overloaded(Passed(c))
           ELSE Intact(Passed(c), routed, out, c, entered[c], sessionState # "closed")
    /\ Told(received[c], entered[c])
    /\ fin[c] => /\ writerOf[c] = "done"
                 /\ sessionState = "closed" \/ Overloaded(received[c])

ChannelInv(c) ==
    /\ Ordered(c, out, routed, nextChannel, writerOf[c])
    /\ writerOf[c] = "running" => c \in known
    /\ FlowInv(c)

WritersInv == WritersTypes /\ Speakers /\ \A c \in Channels : ChannelInv(c)

\* Envelopes and framed envelopes are well typed, and a frame is for its
\* channel only.
LEMMA EnvelopeFacts ==
    /\ \A w \in Words : Envelope(w) \in Envelopes
    /\ \A n \in Nat : Output(n) \in Envelopes
    /\ Overload \in Envelopes /\ Idle.reply \in Envelopes /\ Idle.channel = 0
    /\ \A c \in Channels, f \in Envelopes :
           /\ Framed(c, f) \in Framings /\ For(Framed(c, f), c)
           /\ Framed(c, f).frame = f /\ \A d : For(Framed(c, f), d) => d = c
    /\ \A c \in Channels : Register(c) \in Registers /\ \A d : ~For(Register(c), d)
    /\ \A x \in Framings : x.channel \in Channels /\ x.frame \in Envelopes
                           /\ x.kind = "Frame" /\ For(x, x.channel)
    /\ \A x \in Registers : x.channel \in Channels /\ x = Register(x.channel)
                            /\ x.kind = "Register" /\ \A d : ~For(x, d)
    /\ \A x \in Framings, c \in Channels : x # Register(c)
    /\ \A c, d \in Channels : Register(c) = Register(d) => c = d
  <1>1. /\ \A w \in Words : Envelope(w) \in Envelopes
        /\ \A n \in Nat : Output(n) \in Envelopes
        /\ Overload \in Envelopes /\ Idle.reply \in Envelopes /\ Idle.channel = 0
    BY ZenonT(30) DEF Words, Envelopes, Envelope, Output, Overload, Idle
  <1>2. \A c \in Channels, f \in Envelopes :
           /\ Framed(c, f) \in Framings /\ For(Framed(c, f), c)
           /\ Framed(c, f).frame = f /\ \A d : For(Framed(c, f), d) => d = c
    BY ZenonT(30) DEF Framings, Framed, For
  <1>3. \A c \in Channels : Register(c) \in Registers /\ \A d : ~For(Register(c), d)
    BY ZenonT(30) DEF Registers, Register, For
  <1>4. \A x \in Framings : x.channel \in Channels /\ x.frame \in Envelopes
                           /\ x.kind = "Frame" /\ For(x, x.channel)
    BY Zenon DEF Framings, For
  <1>5. \A x \in Registers : x.channel \in Channels /\ x = Register(x.channel)
                             /\ x.kind = "Register" /\ \A d : ~For(x, d)
    BY DEF Registers, Register, For
  <1>6. \A x \in Framings, c \in Channels : x # Register(c)
    <2>1. \A c \in Channels : Register(c).kind = "Register"
      BY Zenon DEF Register
    <2> QED
      BY ZenonT(20), <1>4, <2>1
  <1>7. \A c, d \in Channels : Register(c) = Register(d) => c = d
    <2>1. \A c \in Channels : Register(c).channel = c
      BY Zenon DEF Register
    <2> QED
      BY Zenon, <2>1
  <1> QED
    BY <1>1, <1>2, <1>3, <1>4, <1>5, <1>6, <1>7, ZenonT(30)

\* What concatenation and Append give.
LEMMA SeqFacts ==
    ASSUME NEW S, NEW p \in Seq(S), NEW q \in Seq(S), NEW x \in S
    PROVE  /\ p \o q \in Seq(S) /\ Len(p \o q) = Len(p) + Len(q)
           /\ Len(p) \in Nat /\ Len(q) \in Nat
           /\ \A i \in 1 .. Len(p) : (p \o q)[i] = p[i]
           /\ \A i \in 1 .. Len(q) : (p \o q)[Len(p) + i] = q[i]
           /\ Append(p, x) \in Seq(S) /\ Len(Append(p, x)) = Len(p) + 1
           /\ Append(p, x)[Len(p) + 1] = x
           /\ \A i \in 1 .. Len(p) : Append(p, x)[i] = p[i] /\ p[i] \in S
           /\ p \o <<>> = p /\ <<>> \o p = p
           /\ p \o <<x>> = Append(p, x)
  OBVIOUS

\* What Head and Tail of a queue that is not empty are.
LEMMA TakeFacts ==
    ASSUME NEW S, NEW q \in Seq(S), q # <<>>
    PROVE  /\ Tail(q) \in Seq(S) /\ Len(Tail(q)) = Len(q) - 1 /\ Len(q) \in Nat
           /\ Len(q) >= 1 /\ Head(q) = q[1] /\ Head(q) \in S
           /\ \A i \in 1 .. Len(q) - 1 : Tail(q)[i] = q[i + 1]
  OBVIOUS

\* Sequences with the same elements are equal.
LEMMA SameSeq ==
    ASSUME NEW S, NEW p \in Seq(S), NEW q \in Seq(S), Len(p) = Len(q),
           \A i \in 1 .. Len(p) : p[i] = q[i]
    PROVE  p = q
  OBVIOUS

\* The head of one sequence moves to the end of another.
LEMMA JoinMove ==
    ASSUME NEW S, NEW p \in Seq(S), NEW q \in Seq(S), q # <<>>
    PROVE  /\ Append(p, Head(q)) \o Tail(q) = p \o q
           /\ (p \o <<Head(q)>>) \o Tail(q) = p \o q
  <1>1. Head(q) \in S /\ Tail(q) \in Seq(S) /\ p \o <<Head(q)>> = Append(p, Head(q))
    BY SeqFacts, TakeFacts
  <1> DEFINE l == Append(p, Head(q)) \o Tail(q)  r == p \o q
  <1>2. /\ l \in Seq(S) /\ r \in Seq(S) /\ Len(p) \in Nat /\ Len(q) \in Nat /\ Len(q) >= 1
        /\ Len(l) = Len(p) + Len(q) /\ Len(r) = Len(p) + Len(q)
    BY <1>1
  <1>3. \A i \in 1 .. Len(l) : l[i] = r[i]
    <2> SUFFICES ASSUME NEW i \in 1 .. Len(l) PROVE l[i] = r[i]
      BY Zenon
    <2>1. CASE i <= Len(p)
      BY <1>1, <1>2, <2>1
    <2>2. CASE i = Len(p) + 1
      BY <1>1, <1>2, <2>2
    <2>3. CASE Len(p) + 1 < i
      BY <1>1, <1>2, <2>3
    <2> QED
      BY <1>2, <2>1, <2>2, <2>3
  <1> HIDE DEF l, r
  <1>4. l = r
    BY Zenon, <1>2, <1>3, SameSeq
  <1> QED
    BY ZenonT(20), <1>1, <1>4 DEF l, r

\* Appending to the second of two joined sequences appends to the whole.
LEMMA JoinAppend ==
    ASSUME NEW S, NEW p \in Seq(S), NEW q \in Seq(S), NEW x \in S
    PROVE  p \o Append(q, x) = Append(p \o q, x)
  <1> DEFINE l == p \o Append(q, x)  r == Append(p \o q, x)
  <1>1. /\ Append(q, x) \in Seq(S) /\ p \o q \in Seq(S) /\ l \in Seq(S) /\ r \in Seq(S)
        /\ Len(p) \in Nat /\ Len(q) \in Nat
        /\ Len(l) = Len(p) + Len(q) + 1 /\ Len(r) = Len(p) + Len(q) + 1
    OBVIOUS
  <1>2. \A i \in 1 .. Len(l) : l[i] = r[i]
    <2> SUFFICES ASSUME NEW i \in 1 .. Len(l) PROVE l[i] = r[i]
      BY Zenon
    <2>1. CASE i <= Len(p)
      BY <1>1, <2>1
    <2>2. CASE Len(p) < i
      BY <1>1, <2>2
    <2> QED
      BY <1>1, <2>1, <2>2
  <1> HIDE DEF l, r
  <1>3. l = r
    BY Zenon, <1>1, <1>2, SameSeq
  <1> QED
    BY Zenon, <1>3 DEF l, r

\* JoinAppend for envelopes.
LEMMA JoinEnvelope ==
    ASSUME NEW p \in Seq(Envelopes), NEW q \in Seq(Envelopes), NEW x \in Envelopes
    PROVE  p \o Append(q, x) = Append(p \o q, x)
  BY JoinAppend

\* Indices keep their order when both move on by one.
LEMMA NextInOrder ==
    ASSUME NEW m, NEW i \in 1 .. m, NEW j \in 1 .. m, i < j
    PROVE  i + 1 < j + 1
  OBVIOUS

Items == Framings \cup Registers

\* An empty queue carries nothing of a channel.
LEMMA CarriesNothing ==
    ASSUME NEW c
    PROVE  Carries(<<>>, c, <<>>)
  <1> DEFINE f == [i \in 1 .. Len(<<>>) |-> i]
  <1>1. f \in [1 .. Len(<<>>) -> 1 .. Len(<<>>)]
    BY Zenon
  <1>2. \A i \in 1 .. Len(<<>>) : FALSE
    OBVIOUS
  <1> HIDE DEF f
  <1> QED
    BY ZenonT(20), <1>1, <1>2 DEF Carries

\* Another frame of the channel is queued.
LEMMA CarriesMore ==
    ASSUME NEW q \in Seq(Items), NEW c, NEW s \in Seq(Envelopes), NEW x \in Items,
           Carries(q, c, s), For(x, c), x.frame \in Envelopes
    PROVE  Carries(Append(q, x), c, Append(s, x.frame))
  <1>1. PICK f \in [1 .. Len(s) -> 1 .. Len(q)] :
            /\ \A i, j \in 1 .. Len(s) : i < j => f[i] < f[j]
            /\ \A i \in 1 .. Len(s) : For(q[f[i]], c) /\ q[f[i]].frame = s[i]
            /\ \A k \in 1 .. Len(q) : For(q[k], c) => \E i \in 1 .. Len(s) : f[i] = k
    BY Zenon DEF Carries
  <1> DEFINE r == Append(q, x)  u == Append(s, x.frame)
             g == [i \in 1 .. Len(u) |-> IF i = Len(s) + 1 THEN Len(q) + 1 ELSE f[i]]
  <1>2. /\ Len(r) = Len(q) + 1 /\ r[Len(q) + 1] = x /\ Len(q) \in Nat
        /\ \A k \in 1 .. Len(q) : r[k] = q[k]
        /\ Len(u) = Len(s) + 1 /\ u[Len(s) + 1] = x.frame /\ Len(s) \in Nat
        /\ \A k \in 1 .. Len(s) : u[k] = s[k]
    BY SeqFacts
  <1> HIDE DEF r, u
  <1>3. \A i \in 1 .. Len(u) : i = Len(s) + 1 \/ i \in 1 .. Len(s)
    BY <1>2
  <1>4. /\ g[Len(s) + 1] = Len(q) + 1
        /\ \A i \in 1 .. Len(s) : g[i] = f[i] /\ f[i] \in 1 .. Len(q)
    BY <1>2
  <1>5. g \in [1 .. Len(u) -> 1 .. Len(r)]
    BY <1>2, <1>3
  <1> HIDE DEF g
  <1>6. \A i, j \in 1 .. Len(u) : i < j => g[i] < g[j]
    <2> SUFFICES ASSUME NEW i \in 1 .. Len(u), NEW j \in 1 .. Len(u), i < j
                 PROVE  g[i] < g[j]
      BY Zenon
    <2>1. i \in 1 .. Len(s)
      BY <1>2
    <2>2. CASE j = Len(s) + 1
      BY <1>2, <1>4, <2>1, <2>2
    <2>3. CASE j \in 1 .. Len(s)
      BY Zenon, <1>1, <1>4, <2>1, <2>3
    <2> QED
      BY Zenon, <1>3, <2>2, <2>3
  <1>7. \A i \in 1 .. Len(u) : For(r[g[i]], c) /\ r[g[i]].frame = u[i]
    <2> SUFFICES ASSUME NEW i \in 1 .. Len(u)
                 PROVE  For(r[g[i]], c) /\ r[g[i]].frame = u[i]
      BY Zenon
    <2>1. CASE i = Len(s) + 1
      BY Zenon, <1>2, <1>4, <2>1
    <2>2. CASE i \in 1 .. Len(s)
      <3>1. g[i] = f[i] /\ f[i] \in 1 .. Len(q) /\ r[f[i]] = q[f[i]] /\ u[i] = s[i]
        BY Zenon, <1>2, <1>4, <2>2
      <3> QED
        BY Zenon, <1>1, <2>2, <3>1
    <2> QED
      BY Zenon, <1>3, <2>1, <2>2
  <1>8. \A k \in 1 .. Len(r) : For(r[k], c) => \E i \in 1 .. Len(u) : g[i] = k
    <2> SUFFICES ASSUME NEW k \in 1 .. Len(r), For(r[k], c)
                 PROVE  \E i \in 1 .. Len(u) : g[i] = k
      BY Zenon
    <2>1. CASE k = Len(q) + 1
      BY <1>2, <1>4, <2>1
    <2>2. CASE k \in 1 .. Len(q)
      <3>1. For(q[k], c)
        BY Zenon, <1>2, <2>2
      <3>2. PICK i \in 1 .. Len(s) : f[i] = k
        BY Zenon, <1>1, <2>2, <3>1
      <3>3. i \in 1 .. Len(u)
        BY <1>2
      <3>4. g[i] = k
        BY Zenon, <1>4, <3>2
      <3> QED
        BY Zenon, <3>3, <3>4
    <2> QED
      BY <1>2, <2>1, <2>2
  <1>9. Carries(r, c, u)
    BY ZenonT(20), <1>5, <1>6, <1>7, <1>8 DEF Carries
  <1> QED
    BY Zenon, <1>9 DEF r, u

\* Something that is not a frame of the channel is queued.
LEMMA CarriesOther ==
    ASSUME NEW q \in Seq(Items), NEW c, NEW s \in Seq(Envelopes), NEW x \in Items,
           Carries(q, c, s), ~For(x, c)
    PROVE  Carries(Append(q, x), c, s)
  <1>1. PICK f \in [1 .. Len(s) -> 1 .. Len(q)] :
            /\ \A i, j \in 1 .. Len(s) : i < j => f[i] < f[j]
            /\ \A i \in 1 .. Len(s) : For(q[f[i]], c) /\ q[f[i]].frame = s[i]
            /\ \A k \in 1 .. Len(q) : For(q[k], c) => \E i \in 1 .. Len(s) : f[i] = k
    BY Zenon DEF Carries
  <1> DEFINE r == Append(q, x)
  <1>2. /\ Len(r) = Len(q) + 1 /\ r[Len(q) + 1] = x /\ Len(q) \in Nat
        /\ \A k \in 1 .. Len(q) : r[k] = q[k]
    BY SeqFacts
  <1> HIDE DEF r
  <1>3. f \in [1 .. Len(s) -> 1 .. Len(r)] /\ \A i \in 1 .. Len(s) : r[f[i]] = q[f[i]]
    BY SMTT(20), <1>2
  <1>4. \A k \in 1 .. Len(r) : For(r[k], c) => k \in 1 .. Len(q) /\ r[k] = q[k]
    BY <1>2
  <1>5. \A i \in 1 .. Len(s) : For(r[f[i]], c) /\ r[f[i]].frame = s[i]
    BY Zenon, <1>1, <1>3
  <1>6. \A k \in 1 .. Len(r) : For(r[k], c) => \E i \in 1 .. Len(s) : f[i] = k
    BY Zenon, <1>1, <1>4
  <1>7. \A i, j \in 1 .. Len(s) : i < j => f[i] < f[j]
    BY Zenon, <1>1
  <1>8. Carries(r, c, s)
    BY ZenonT(20), <1>3, <1>5, <1>6, <1>7 DEF Carries
  <1> QED
    BY Zenon, <1>8 DEF r

\* A frame of the channel leaves the queue.
LEMMA CarriesLess ==
    ASSUME NEW q \in Seq(Items), NEW c, NEW s \in Seq(Envelopes), q # <<>>,
           Carries(q, c, s), For(Head(q), c)
    PROVE  s # <<>> /\ Head(s) = Head(q).frame /\ Carries(Tail(q), c, Tail(s))
  <1>1. PICK f \in [1 .. Len(s) -> 1 .. Len(q)] :
            /\ \A i, j \in 1 .. Len(s) : i < j => f[i] < f[j]
            /\ \A i \in 1 .. Len(s) : For(q[f[i]], c) /\ q[f[i]].frame = s[i]
            /\ \A k \in 1 .. Len(q) : For(q[k], c) => \E i \in 1 .. Len(s) : f[i] = k
    BY ZenonT(20) DEF Carries
  <1> DEFINE r == Tail(q)  u == Tail(s)
  <1>2. /\ Len(r) = Len(q) - 1 /\ Len(q) \in Nat /\ Len(q) >= 1 /\ Head(q) = q[1]
        /\ \A k \in 1 .. Len(q) - 1 : r[k] = q[k + 1]
    BY Zenon, TakeFacts
  <1>3. PICK m \in 1 .. Len(s) : f[m] = 1
    BY <1>1, <1>2
  <1>4. s # <<>> /\ Len(s) \in Nat /\ 1 \in 1 .. Len(s)
    BY <1>3
  <1>5. m = 1
    <2>1. 1 < m => f[1] < f[m]
      BY Zenon, <1>1, <1>4
    <2>2. f[1] \in 1 .. Len(q)
      BY Zenon, <1>4
    <2> QED
      BY <1>3, <2>1, <2>2
  <1>6. Head(s) = Head(q).frame
    <2>1. q[1].frame = s[1]
      BY Zenon, <1>1, <1>3, <1>5
    <2>2. Head(s) = s[1]
      BY Zenon, <1>4, TakeFacts
    <2> QED
      BY Zenon, <1>2, <2>1, <2>2
  <1>7. /\ Len(u) = Len(s) - 1 /\ \A k \in 1 .. Len(s) - 1 : u[k] = s[k + 1]
    BY Zenon, <1>4, TakeFacts
  <1> HIDE DEF r, u
  <1> DEFINE g == [i \in 1 .. Len(u) |-> f[i + 1] - 1]
  <1>8. \A i \in 1 .. Len(u) :
            /\ i + 1 \in 1 .. Len(s) /\ u[i] = s[i + 1] /\ f[i + 1] \in 1 .. Len(q)
            /\ f[i + 1] > 1
    <2> SUFFICES ASSUME NEW i \in 1 .. Len(u)
                 PROVE  /\ i + 1 \in 1 .. Len(s) /\ u[i] = s[i + 1]
                        /\ f[i + 1] \in 1 .. Len(q) /\ f[i + 1] > 1
      BY Zenon
    <2>1. i + 1 \in 1 .. Len(s) /\ u[i] = s[i + 1] /\ 1 < i + 1
      BY <1>4, <1>7
    <2>2. f[i + 1] \in 1 .. Len(q) /\ f[1] < f[i + 1]
      BY ZenonT(20), <1>1, <1>4, <2>1
    <2> QED
      BY Zenon, <1>3, <1>5, <2>1, <2>2
  <1>9. g \in [1 .. Len(u) -> 1 .. Len(r)] /\ \A i \in 1 .. Len(u) : g[i] = f[i + 1] - 1
    BY SMTT(20), <1>2, <1>8
  <1> HIDE DEF g
  <1>10. \A i, j \in 1 .. Len(u) : i < j => g[i] < g[j]
    <2> SUFFICES ASSUME NEW i \in 1 .. Len(u), NEW j \in 1 .. Len(u), i < j
                 PROVE  g[i] < g[j]
      BY Zenon
    <2>1. f[i + 1] < f[j + 1] /\ f[i + 1] \in 1 .. Len(q) /\ f[j + 1] \in 1 .. Len(q)
      <3>1. i + 1 \in 1 .. Len(s) /\ j + 1 \in 1 .. Len(s) /\ i + 1 < j + 1
        BY Zenon, <1>8, NextInOrder
      <3> QED
        BY ZenonT(20), <1>1, <3>1
    <2> QED
      BY SMTT(20), <1>9, <2>1
  <1>11. \A i \in 1 .. Len(u) : For(r[g[i]], c) /\ r[g[i]].frame = u[i]
    <2> SUFFICES ASSUME NEW i \in 1 .. Len(u)
                 PROVE  For(r[g[i]], c) /\ r[g[i]].frame = u[i]
      BY Zenon
    <2>1. r[g[i]] = q[f[i + 1]]
      <3>1. f[i + 1] - 1 \in 1 .. Len(q) - 1 /\ (f[i + 1] - 1) + 1 = f[i + 1]
        BY SMTT(20), <1>2, <1>8
      <3>2. g[i] = f[i + 1] - 1
        BY Zenon, <1>9
      <3> QED
        BY Zenon, <1>2, <3>1, <3>2
    <2>2. i + 1 \in 1 .. Len(s) /\ u[i] = s[i + 1]
      BY Zenon, <1>8
    <2> QED
      BY Zenon, <1>1, <2>1, <2>2
  <1>12. \A k \in 1 .. Len(r) : For(r[k], c) => \E i \in 1 .. Len(u) : g[i] = k
    <2> SUFFICES ASSUME NEW k \in 1 .. Len(r), For(r[k], c)
                 PROVE  \E i \in 1 .. Len(u) : g[i] = k
      BY Zenon
    <2>1. k + 1 \in 1 .. Len(q) /\ For(q[k + 1], c)
      BY <1>2
    <2>2. PICK i \in 1 .. Len(s) : f[i] = k + 1
      BY Zenon, <1>1, <2>1
    <2>3. i # 1
      BY <1>3, <1>5, <2>2
    <2>4. i - 1 \in 1 .. Len(u) /\ (i - 1) + 1 = i
      BY <1>4, <1>7, <2>3
    <2>5. g[i - 1] = f[i] - 1
      BY Zenon, <1>9, <2>4
    <2> QED
      BY <2>2, <2>4, <2>5
  <1>13. Carries(r, c, u)
    BY ZenonT(20), <1>9, <1>10, <1>11, <1>12 DEF Carries
  <1> QED
    BY Zenon, <1>4, <1>6, <1>13 DEF r, u

\* Something that is not a frame of the channel leaves the queue.
LEMMA CarriesPast ==
    ASSUME NEW q \in Seq(Items), NEW c, NEW s \in Seq(Envelopes), q # <<>>,
           Carries(q, c, s), ~For(Head(q), c)
    PROVE  Carries(Tail(q), c, s)
  <1>1. PICK f \in [1 .. Len(s) -> 1 .. Len(q)] :
            /\ \A i, j \in 1 .. Len(s) : i < j => f[i] < f[j]
            /\ \A i \in 1 .. Len(s) : For(q[f[i]], c) /\ q[f[i]].frame = s[i]
            /\ \A k \in 1 .. Len(q) : For(q[k], c) => \E i \in 1 .. Len(s) : f[i] = k
    BY ZenonT(20) DEF Carries
  <1> DEFINE r == Tail(q)
  <1>2. /\ Len(r) = Len(q) - 1 /\ Len(q) \in Nat /\ Len(q) >= 1 /\ Head(q) = q[1]
        /\ \A k \in 1 .. Len(q) - 1 : r[k] = q[k + 1]
    BY Zenon, TakeFacts
  <1> HIDE DEF r
  <1> DEFINE g == [i \in 1 .. Len(s) |-> f[i] - 1]
  <1>3. \A i \in 1 .. Len(s) : f[i] \in 1 .. Len(q) /\ f[i] > 1
    <2> SUFFICES ASSUME NEW i \in 1 .. Len(s)
                 PROVE  f[i] \in 1 .. Len(q) /\ f[i] > 1
      BY Zenon
    <2>1. f[i] \in 1 .. Len(q) /\ For(q[f[i]], c)
      BY Zenon, <1>1
    <2>2. f[i] # 1
      BY Zenon, <1>2, <2>1
    <2> QED
      BY <2>1, <2>2
  <1>4. g \in [1 .. Len(s) -> 1 .. Len(r)] /\ \A i \in 1 .. Len(s) : g[i] = f[i] - 1
    BY <1>2, <1>3
  <1> HIDE DEF g
  <1>5. \A i, j \in 1 .. Len(s) : i < j => g[i] < g[j]
    <2> SUFFICES ASSUME NEW i \in 1 .. Len(s), NEW j \in 1 .. Len(s), i < j
                 PROVE  g[i] < g[j]
      BY Zenon
    <2>1. f[i] < f[j] /\ f[i] \in 1 .. Len(q) /\ f[j] \in 1 .. Len(q)
      BY Zenon, <1>1, <1>3
    <2> QED
      BY <1>4, <2>1
  <1>6. \A i \in 1 .. Len(s) : r[g[i]] = q[f[i]]
    <2> SUFFICES ASSUME NEW i \in 1 .. Len(s)
                 PROVE  r[g[i]] = q[f[i]]
      BY Zenon
    <2>1. f[i] - 1 \in 1 .. Len(q) - 1 /\ (f[i] - 1) + 1 = f[i]
      BY <1>2, <1>3
    <2>2. g[i] = f[i] - 1
      BY Zenon, <1>4
    <2> QED
      BY Zenon, <1>2, <2>1, <2>2
  <1>7. \A k \in 1 .. Len(r) : For(r[k], c) => \E i \in 1 .. Len(s) : g[i] = k
    <2> SUFFICES ASSUME NEW k \in 1 .. Len(r), For(r[k], c)
                 PROVE  \E i \in 1 .. Len(s) : g[i] = k
      BY Zenon
    <2>1. k + 1 \in 1 .. Len(q) /\ For(q[k + 1], c)
      BY <1>2
    <2>2. PICK i \in 1 .. Len(s) : f[i] = k + 1
      BY Zenon, <1>1, <2>1
    <2>3. g[i] = f[i] - 1
      BY Zenon, <1>4
    <2> QED
      BY <2>2, <2>3
  <1>8. \A i \in 1 .. Len(s) : For(r[g[i]], c) /\ r[g[i]].frame = s[i]
    BY Zenon, <1>1, <1>6
  <1>9. Carries(r, c, s)
    BY ZenonT(20), <1>4, <1>5, <1>7, <1>8 DEF Carries
  <1> QED
    BY Zenon, <1>9 DEF r

\* A new channel is intact.
LEMMA IntactStart ==
    ASSUME NEW c
    PROVE  Intact(<<>>, <<>>, <<>>, c, <<>>, TRUE)
  <1>1. <<>> \in Seq(Envelopes) /\ <<>> = ((<<>> \o <<>>) \o <<>>) \o <<>>
    OBVIOUS
  <1> QED
    BY ZenonT(20), <1>1, CarriesNothing DEF Intact

\* A frame of the channel enters `out`.
LEMMA IntactEnters ==
    ASSUME NEW s \in Seq(Envelopes), NEW rq, NEW oq \in Seq(Items), NEW c, NEW t,
           Intact(s, rq, oq, c, t, TRUE), NEW x \in Items, For(x, c), x.frame \in Envelopes
    PROVE  Intact(s, rq, Append(oq, x), c, Append(t, x.frame), TRUE)
  <1>1. PICK r, o, lost \in Seq(Envelopes) :
            /\ Carries(rq, c, r) /\ Carries(oq, c, o)
            /\ t = ((s \o r) \o o) \o lost /\ lost = <<>>
    BY ZenonT(20) DEF Intact
  <1> DEFINE p == s \o r  u == Append(o, x.frame)
  <1>2. p \in Seq(Envelopes) /\ u \in Seq(Envelopes)
    BY Zenon, SeqFacts
  <1> HIDE DEF p, u
  <1>3. Carries(Append(oq, x), c, u)
    BY Zenon, <1>1, CarriesMore DEF u
  <1>4. t = p \o o
    <2>1. p \o o \in Seq(Envelopes) /\ (p \o o) \o <<>> = p \o o
      BY Zenon, <1>2, SeqFacts
    <2> QED
      BY Zenon, <1>1, <2>1 DEF p
  <1>5. p \o u = Append(t, x.frame)
    BY SMTT(20), <1>2, <1>4, JoinAppend DEF u
  <1>6. <<>> \in Seq(Envelopes) /\ p \o u \in Seq(Envelopes)
    BY <1>2, SeqFacts
  <1>7. Append(t, x.frame) = (p \o u) \o <<>>
    BY Zenon, <1>5, <1>6, SeqFacts
  <1> QED
    BY ZenonT(20), <1>1, <1>2, <1>3, <1>6, <1>7 DEF Intact, p

\* A frame of another channel enters `out`.
LEMMA IntactEntersOther ==
    ASSUME NEW s, NEW rq, NEW oq \in Seq(Items), NEW c, NEW t, NEW open,
           Intact(s, rq, oq, c, t, open), NEW x \in Items, ~For(x, c)
    PROVE  Intact(s, rq, Append(oq, x), c, t, open)
  <1>1. PICK r, o, lost \in Seq(Envelopes) :
            /\ Carries(rq, c, r) /\ Carries(oq, c, o)
            /\ t = ((s \o r) \o o) \o lost
            /\ open => lost = <<>>
    BY ZenonT(20) DEF Intact
  <1>2. Carries(Append(oq, x), c, o)
    BY Zenon, <1>1, CarriesOther
  <1> QED
    BY ZenonT(20), <1>1, <1>2 DEF Intact

\* Something other than a frame of the channel enters the router's queue.
LEMMA IntactRegisters ==
    ASSUME NEW s, NEW rq \in Seq(Items), NEW oq, NEW c, NEW t, NEW open,
           Intact(s, rq, oq, c, t, open), NEW x \in Items, ~For(x, c)
    PROVE  Intact(s, Append(rq, x), oq, c, t, open)
  <1>1. PICK r, o, lost \in Seq(Envelopes) :
            /\ Carries(rq, c, r) /\ Carries(oq, c, o)
            /\ t = ((s \o r) \o o) \o lost
            /\ open => lost = <<>>
    BY ZenonT(20) DEF Intact
  <1>2. Carries(Append(rq, x), c, r)
    BY Zenon, <1>1, CarriesOther
  <1> QED
    BY ZenonT(20), <1>1, <1>2 DEF Intact

\* The adapter moves a frame on.
LEMMA IntactAdapts ==
    ASSUME NEW s \in Seq(Envelopes), NEW rq \in Seq(Items), NEW oq \in Seq(Items), NEW c,
           NEW t, NEW open, Intact(s, rq, oq, c, t, open), oq # <<>>,
           Head(oq).frame \in Envelopes
    PROVE  Intact(s, Append(rq, Head(oq)), Tail(oq), c, t, open)
  <1>1. PICK r, o, lost \in Seq(Envelopes) :
            /\ Carries(rq, c, r) /\ Carries(oq, c, o)
            /\ t = ((s \o r) \o o) \o lost
            /\ open => lost = <<>>
    BY ZenonT(20) DEF Intact
  <1>2. Head(oq) \in Items /\ Tail(oq) \in Seq(Items)
    BY Zenon, TakeFacts
  <1>3. CASE ~For(Head(oq), c)
    <2>1. Carries(Append(rq, Head(oq)), c, r) /\ Carries(Tail(oq), c, o)
      BY Zenon, <1>1, <1>2, <1>3, CarriesOther, CarriesPast
    <2> QED
      BY ZenonT(20), <1>1, <2>1 DEF Intact
  <1>4. CASE For(Head(oq), c)
    <2>1. o # <<>> /\ Head(o) = Head(oq).frame /\ Carries(Tail(oq), c, Tail(o))
      BY Zenon, <1>1, <1>4, CarriesLess
    <2>2. Carries(Append(rq, Head(oq)), c, Append(r, Head(o)))
      BY Zenon, <1>1, <1>2, <1>4, <2>1, CarriesMore
    <2>3. Head(o) \in Envelopes /\ Tail(o) \in Seq(Envelopes)
      BY Zenon, <2>1, TakeFacts
    <2>4. s \o r \in Seq(Envelopes) /\ Append(r, Head(o)) \in Seq(Envelopes)
      BY Zenon, <2>3, SeqFacts
    <2>5. s \o Append(r, Head(o)) = Append(s \o r, Head(o))
      <3> DEFINE h == Head(o)
      <3>1. h \in Envelopes
        BY Zenon, <2>3
      <3> HIDE DEF h
      <3>2. s \o Append(r, h) = Append(s \o r, h)
        BY Zenon, <3>1, JoinEnvelope
      <3> QED
        BY Zenon, <3>2 DEF h
    <2>6. Append(s \o r, Head(o)) \o Tail(o) = (s \o r) \o o
      BY ZenonT(20), <2>1, <2>4, JoinMove
    <2>7. t = ((s \o Append(r, Head(o))) \o Tail(o)) \o lost
      BY ZenonT(20), <1>1, <2>5, <2>6
    <2> QED
      BY ZenonT(20), <1>1, <2>1, <2>2, <2>3, <2>4, <2>7 DEF Intact
  <1> QED
    BY Zenon, <1>3, <1>4

\* The router passes a frame of the channel on.
LEMMA IntactRoutes ==
    ASSUME NEW s \in Seq(Envelopes), NEW rq \in Seq(Items), NEW oq, NEW c,
           NEW t, NEW open, Intact(s, rq, oq, c, t, open), rq # <<>>, For(Head(rq), c)
    PROVE  Intact(Append(s, Head(rq).frame), Tail(rq), oq, c, t, open)
  <1>1. PICK r, o, lost \in Seq(Envelopes) :
            /\ Carries(rq, c, r) /\ Carries(oq, c, o)
            /\ t = ((s \o r) \o o) \o lost
            /\ open => lost = <<>>
    BY ZenonT(20) DEF Intact
  <1>2. r # <<>> /\ Head(r) = Head(rq).frame /\ Carries(Tail(rq), c, Tail(r))
    BY Zenon, <1>1, CarriesLess
  <1>3. Tail(r) \in Seq(Envelopes)
    BY Zenon, <1>2, TakeFacts
  <1>4. Append(s, Head(r)) \o Tail(r) = s \o r
    BY Zenon, <1>2, JoinMove
  <1>5. t = ((Append(s, Head(r)) \o Tail(r)) \o o) \o lost
    BY ZenonT(20), <1>1, <1>4
  <1> QED
    BY ZenonT(20), <1>1, <1>2, <1>3, <1>5 DEF Intact

\* Something else leaves the router's queue.
LEMMA IntactRoutesOther ==
    ASSUME NEW s, NEW rq \in Seq(Items), NEW oq, NEW c,
           NEW t, NEW open, Intact(s, rq, oq, c, t, open), rq # <<>>, ~For(Head(rq), c)
    PROVE  Intact(s, Tail(rq), oq, c, t, open)
  <1>1. PICK r, o, lost \in Seq(Envelopes) :
            /\ Carries(rq, c, r) /\ Carries(oq, c, o)
            /\ t = ((s \o r) \o o) \o lost
            /\ open => lost = <<>>
    BY ZenonT(20) DEF Intact
  <1>2. Carries(Tail(rq), c, r)
    BY Zenon, <1>1, CarriesPast
  <1> QED
    BY ZenonT(20), <1>1, <1>2 DEF Intact

\* `out` is lost when the session closes.
LEMMA IntactCloses ==
    ASSUME NEW s \in Seq(Envelopes), NEW rq, NEW oq, NEW c, NEW t,
           Intact(s, rq, oq, c, t, TRUE)
    PROVE  Intact(s, rq, <<>>, c, t, FALSE)
  <1>1. PICK r, o, lost \in Seq(Envelopes) :
            /\ Carries(rq, c, r) /\ Carries(oq, c, o)
            /\ t = ((s \o r) \o o) \o lost /\ lost = <<>>
    BY ZenonT(20) DEF Intact
  <1>2. s \o r \in Seq(Envelopes)
    BY SeqFacts
  <1>3. (s \o r) \o <<>> = s \o r /\ (s \o r) \o o \in Seq(Envelopes)
    BY <1>2, SeqFacts
  <1>4. t = (s \o r) \o o
    BY <1>1, <1>3, SeqFacts
  <1>5. t = ((s \o r) \o <<>>) \o o
    BY Zenon, <1>3, <1>4
  <1>6. <<>> \in Seq(Envelopes)
    OBVIOUS
  <1> QED
    BY ZenonT(20), <1>1, <1>5, <1>6, CarriesNothing DEF Intact

\* A sequence begins with each of its first parts.
LEMMA BeginsJoin ==
    ASSUME NEW p \in Seq(Envelopes), NEW q \in Seq(Envelopes)
    PROVE  Begins(p, p \o q)
  BY SeqFacts DEF Begins

\* To begin with is transitive.
LEMMA BeginsTrans ==
    ASSUME NEW p \in Seq(Envelopes), NEW q \in Seq(Envelopes), NEW t \in Seq(Envelopes),
           Begins(p, q), Begins(q, t)
    PROVE  Begins(p, t)
  BY DEF Begins

\* What was read of an intact channel is where what was said on it begins.
LEMMA IntactBegins ==
    ASSUME NEW s \in Seq(Envelopes), NEW rq, NEW oq, NEW c, NEW t \in Seq(Envelopes),
           NEW open, Intact(s, rq, oq, c, t, open)
    PROVE  Begins(s, t)
  <1>1. PICK r, o, lost \in Seq(Envelopes) : t = ((s \o r) \o o) \o lost
    BY ZenonT(20) DEF Intact
  <1>2. s \o r \in Seq(Envelopes) /\ Begins(s, s \o r)
    BY SeqFacts, BeginsJoin
  <1>3. (s \o r) \o o \in Seq(Envelopes) /\ Begins(s \o r, (s \o r) \o o)
    <2> DEFINE p == s \o r
    <2>1. p \in Seq(Envelopes)
      BY Zenon, <1>2
    <2> HIDE DEF p
    <2>2. p \o o \in Seq(Envelopes)
      BY <2>1
    <2>3. Begins(p, p \o o)
      BY Zenon, <2>1, BeginsJoin
    <2> QED
      BY Zenon, <2>2, <2>3 DEF p
  <1>4. Begins((s \o r) \o o, t)
    BY ZenonT(20), <1>1, <1>3, BeginsJoin
  <1>5. Begins(s, (s \o r) \o o)
    BY ZenonT(20), <1>2, <1>3, BeginsTrans
  <1> QED
    BY ZenonT(20), <1>3, <1>4, <1>5, BeginsTrans

\* Without an overload frame at its end a sequence is a beginning of itself.
LEMMA CutFacts ==
    ASSUME NEW s \in Seq(Envelopes)
    PROVE  /\ Cut(s) \in Seq(Envelopes) /\ Begins(Cut(s), s) /\ Len(s) \in Nat
           /\ Overloaded(s) => Len(Cut(s)) = Len(s) - 1 /\ Len(s) >= 1
           /\ ~Overloaded(s) => Cut(s) = s
  <1>1. CASE Overloaded(s)
    <2>1. Len(s) \in Nat /\ Len(s) >= 1
      BY <1>1 DEF Overloaded
    <2> DEFINE n == Len(s) - 1  u == SubSeq(s, 1, n)
    <2>a. n \in Nat /\ n <= Len(s) /\ \A i \in 1 .. n : i \in 1 .. Len(s)
      BY <2>1
    <2> HIDE DEF n
    <2>2. /\ u \in Seq(Envelopes) /\ Len(u) = n
          /\ \A i \in 1 .. Len(u) : u[i] = s[i]
      BY <2>1, <2>a
    <2> HIDE DEF u
    <2>3. Cut(s) = u
      BY Zenon, <1>1 DEF Cut, u, n
    <2>4. Begins(u, s)
      BY Zenon, <2>a, <2>2 DEF Begins
    <2> QED
      BY Zenon, <1>1, <2>1, <2>2, <2>3, <2>4 DEF n
  <1>2. CASE ~Overloaded(s)
    <2>1. Cut(s) = s
      BY Zenon, <1>2 DEF Cut
    <2>2. Begins(s, s) /\ Len(s) \in Nat
      BY DEF Begins
    <2> QED
      BY Zenon, <1>2, <2>1, <2>2
  <1> QED
    BY Zenon, <1>1, <1>2

\* What was told up to some point is told.
LEMMA ToldShorter ==
    ASSUME NEW p \in Seq(Envelopes), NEW s \in Seq(Envelopes), NEW t \in Seq(Envelopes),
           Begins(p, s), Told(s, t)
    PROVE  Told(p, t)
  <1>1. /\ Cut(p) \in Seq(Envelopes) /\ Begins(Cut(p), p) /\ Len(p) \in Nat
        /\ Overloaded(p) => Len(Cut(p)) = Len(p) - 1
        /\ ~Overloaded(p) => Cut(p) = p
    BY Zenon, CutFacts
  <1>2. /\ Cut(s) \in Seq(Envelopes) /\ Begins(Cut(s), s) /\ Len(s) \in Nat
        /\ Overloaded(s) => Len(Cut(s)) = Len(s) - 1
        /\ ~Overloaded(s) => Cut(s) = s
    BY Zenon, CutFacts
  <1>3. Begins(Cut(p), Cut(s))
    <2>1. Begins(Cut(p), s)
      BY Zenon, <1>1, BeginsTrans
    <2>2. Len(Cut(p)) <= Len(Cut(s))
      <3>1. CASE ~Overloaded(s)
        BY Zenon, <1>2, <2>1, <3>1 DEF Begins
      <3>2. CASE Overloaded(s) /\ Overloaded(p)
        BY <1>1, <1>2, <3>2 DEF Begins
      <3>3. CASE Overloaded(s) /\ ~Overloaded(p)
        <4>1. Len(p) <= Len(s)
          BY Zenon DEF Begins
        <4>2. Len(p) # Len(s)
          <5> SUFFICES ASSUME Len(p) = Len(s) PROVE FALSE
            BY Zenon
          <5>1. s # <<>> /\ s[Len(s)] = Overload
            BY Zenon, <3>3 DEF Overloaded
          <5>2. p # <<>> /\ Len(p) \in 1 .. Len(p)
            BY <1>1, <5>1
          <5>3. p[Len(p)] = s[Len(s)]
            BY Zenon, <5>2 DEF Begins
          <5> QED
            BY Zenon, <3>3, <5>1, <5>2, <5>3 DEF Overloaded
        <4> QED
          BY <1>1, <1>2, <3>3, <4>1, <4>2
      <3> QED
        BY Zenon, <3>1, <3>2, <3>3
    <2>3. \A i \in 1 .. Len(Cut(p)) : Cut(p)[i] = Cut(s)[i]
      <3> SUFFICES ASSUME NEW i \in 1 .. Len(Cut(p)) PROVE Cut(p)[i] = Cut(s)[i]
        BY Zenon
      <3>1. Len(Cut(p)) \in Nat /\ Len(Cut(s)) \in Nat
        BY <1>1, <1>2
      <3>2. i \in 1 .. Len(Cut(s))
        BY <2>2, <3>1
      <3> QED
        BY Zenon, <1>2, <2>1, <3>2 DEF Begins
    <2> QED
      BY Zenon, <2>2, <2>3 DEF Begins
  <1>4. Begins(Cut(s), t)
    BY Zenon DEF Told
  <1>5. Begins(Cut(p), t)
    BY Zenon, <1>1, <1>2, <1>3, <1>4, BeginsTrans
  <1> QED
    BY Zenon, <1>5 DEF Told

\* More is said.
LEMMA ToldLater ==
    ASSUME NEW s \in Seq(Envelopes), NEW t \in Seq(Envelopes), NEW x \in Envelopes,
           Told(s, t)
    PROVE  Told(s, Append(t, x))
  <1>1. Append(t, x) \in Seq(Envelopes) /\ Begins(t, Append(t, x))
    BY SeqFacts DEF Begins
  <1>2. Cut(s) \in Seq(Envelopes) /\ Begins(Cut(s), t)
    BY Zenon, CutFacts DEF Told
  <1>3. Begins(Cut(s), Append(t, x))
    BY ZenonT(20), <1>1, <1>2, BeginsTrans
  <1> QED
    BY Zenon, <1>3 DEF Told

\* A beginning of what was said is told of it without an overload frame.
LEMMA BeginsTold ==
    ASSUME NEW s \in Seq(Envelopes), NEW t \in Seq(Envelopes), Begins(s, t)
    PROVE  Told(s, t)
  <1>1. Cut(s) \in Seq(Envelopes) /\ Begins(Cut(s), s)
    BY Zenon, CutFacts
  <1>2. Begins(Cut(s), t)
    BY Zenon, <1>1, BeginsTrans
  <1> QED
    BY Zenon, <1>2 DEF Told

\* The overload frame takes the place of what follows.
LEMMA OverloadTold ==
    ASSUME NEW p \in Seq(Envelopes), NEW q \in Seq(Envelopes), NEW t \in Seq(Envelopes),
           Begins(p \o q, t)
    PROVE  Told(p \o <<Overload>>, t) /\ Overloaded(p \o <<Overload>>)
  <1> DEFINE s == p \o <<Overload>>
  <1>1. Overload \in Envelopes
    BY Zenon, EnvelopeFacts
  <1>2. /\ s \in Seq(Envelopes) /\ Len(s) = Len(p) + 1 /\ Len(p) \in Nat
        /\ s[Len(p) + 1] = Overload
        /\ \A i \in 1 .. Len(p) : s[i] = p[i]
    BY <1>1, SeqFacts
  <1> HIDE DEF s
  <1>3. Overloaded(s)
    <2>1. s # <<>>
      BY <1>2
    <2> QED
      BY Zenon, <1>2, <2>1 DEF Overloaded
  <1>4. Cut(s) \in Seq(Envelopes) /\ Len(Cut(s)) = Len(p) /\ Begins(Cut(s), s)
    BY <1>2, <1>3, CutFacts
  <1>5. Begins(Cut(s), p)
    BY <1>2, <1>4 DEF Begins
  <1>6. Begins(p, p \o q) /\ p \o q \in Seq(Envelopes)
    BY BeginsJoin, SeqFacts
  <1>7. Begins(p, t)
    BY ZenonT(20), <1>6, BeginsTrans
  <1>8. Begins(Cut(s), t)
    BY Zenon, <1>4, <1>5, <1>7, BeginsTrans
  <1> QED
    BY Zenon, <1>3, <1>8 DEF Told, s

\* The router's queue holds framed envelopes and registrations, told apart.
LEMMA ItemFacts ==
    /\ Framings \subseteq Items /\ Registers \subseteq Items
    /\ \A x \in Items : x \in Framings \/ x \in Registers
    /\ \A x \in Registers : \A d : ~For(x, d)
    /\ \A x \in Framings, c \in Channels : x # Register(c)
    /\ Channels \subseteq Nat
  BY ZenonT(20), EnvelopeFacts, ChannelsAssumption DEF Items

\* A frame of a registered channel enters the adapter's queue in order.
LEMMA OrderedEnters ==
    ASSUME NEW c, NEW oq \in Seq(Items), NEW rq, NEW n, NEW w,
           Ordered(c, oq, rq, n, w), NEW x \in Items, For(x, c) => c < n
    PROVE  Ordered(c, Append(oq, x), rq, n, w)
  <1> DEFINE u == Append(oq, x)
  <1>1. /\ Len(u) = Len(oq) + 1 /\ u[Len(oq) + 1] = x /\ Len(oq) \in Nat
        /\ \A i \in 1 .. Len(oq) : u[i] = oq[i]
    BY SeqFacts
  <1> HIDE DEF u
  <1>2. \A i \in 1 .. Len(u) : i \in 1 .. Len(oq) \/ i = Len(oq) + 1
    BY <1>1
  <1>3. \A i \in 1 .. Len(u) : For(u[i], c) => c < n
    BY Zenon, <1>1, <1>2 DEF Ordered
  <1>4. Ordered(c, u, rq, n, w)
    BY Zenon, <1>3 DEF Ordered
  <1> QED
    BY Zenon, <1>4 DEF u

\* The adapter passes a frame on to the router's queue in order.
LEMMA OrderedAdapts ==
    ASSUME NEW c \in Channels, NEW oq \in Seq(Framings), NEW rq \in Seq(Items), NEW n, NEW w,
           Ordered(c, oq, rq, n, w), oq # <<>>
    PROVE  Ordered(c, Tail(oq), Append(rq, Head(oq)), n, w)
  <1> DEFINE x == Head(oq)  u == Tail(oq)  v == Append(rq, x)
  <1>1. /\ x \in Framings /\ x = oq[1] /\ Len(oq) \in Nat /\ Len(oq) >= 1
        /\ Len(u) = Len(oq) - 1 /\ \A i \in 1 .. Len(oq) - 1 : u[i] = oq[i + 1]
    BY Zenon, TakeFacts
  <1>2. x \in Items /\ x # Register(c)
    BY Zenon, <1>1, ItemFacts
  <1> HIDE DEF x, u
  <1>3. /\ Len(v) = Len(rq) + 1 /\ v[Len(rq) + 1] = x /\ Len(rq) \in Nat
        /\ \A i \in 1 .. Len(rq) : v[i] = rq[i]
    BY <1>2, SeqFacts
  <1> HIDE DEF v
  <1>4. \A i \in 1 .. Len(v) : i \in 1 .. Len(rq) \/ i = Len(rq) + 1
    BY <1>3
  <1>5. For(x, c) => c < n
    BY <1>1 DEF Ordered
  <1>6. \A i \in 1 .. Len(u) : For(u[i], c) => c < n
    BY SMTT(20), <1>1 DEF Ordered
  <1>7. \A i \in 1 .. Len(v) : For(v[i], c) => c < n
    BY Zenon, <1>3, <1>4, <1>5 DEF Ordered
  <1>8. \A i, j \in 1 .. Len(v) :
            v[i] = Register(c) /\ j < i => ~For(v[j], c) /\ v[j] # Register(c)
    <2> SUFFICES ASSUME NEW i \in 1 .. Len(v), NEW j \in 1 .. Len(v), v[i] = Register(c), j < i
                 PROVE  ~For(v[j], c) /\ v[j] # Register(c)
      BY Zenon
    <2>1. i \in 1 .. Len(rq)
      BY Zenon, <1>2, <1>3, <1>4
    <2>2. j \in 1 .. Len(rq)
      BY <1>3, <2>1
    <2> QED
      BY Zenon, <1>3, <2>1, <2>2 DEF Ordered
  <1>9. \A i \in 1 .. Len(v) : v[i] = Register(c) => c < n /\ w = "none"
    BY Zenon, <1>2, <1>3, <1>4 DEF Ordered
  <1>10. c < n /\ w = "none" => \E i \in 1 .. Len(v) : v[i] = Register(c)
    <2> SUFFICES ASSUME c < n, w = "none"
                 PROVE  \E i \in 1 .. Len(v) : v[i] = Register(c)
      BY Zenon
    <2>1. PICK i \in 1 .. Len(rq) : rq[i] = Register(c)
      BY Zenon DEF Ordered
    <2>2. i \in 1 .. Len(v) /\ v[i] = rq[i]
      BY <1>3
    <2> QED
      BY Zenon, <2>1, <2>2
  <1>11. Ordered(c, u, v, n, w)
    BY Zenon, <1>6, <1>7, <1>8, <1>9, <1>10 DEF Ordered
  <1> QED
    BY Zenon, <1>11 DEF u, v, x

\* A registration enters the router's queue ahead of its channel's frames.
LEMMA OrderedRegisters ==
    ASSUME NEW c \in Channels, NEW oq \in Seq(Items), NEW rq \in Seq(Items),
           NEW n \in Channels, NEW w, Ordered(c, oq, rq, n, w)
    PROVE  Ordered(c, oq, Append(rq, Register(n)), n + 1, w)
  <1> DEFINE x == Register(n)  v == Append(rq, x)
  <1>1. /\ x \in Items /\ ~For(x, c) /\ c \in Nat /\ n \in Nat /\ (x = Register(c) => n = c)
    BY Zenon, EnvelopeFacts, ItemFacts
  <1>2. x = Register(n)
    BY Zenon
  <1> HIDE DEF x
  <1>3. /\ Len(v) = Len(rq) + 1 /\ v[Len(rq) + 1] = x /\ Len(rq) \in Nat
        /\ \A i \in 1 .. Len(rq) : v[i] = rq[i]
    BY <1>1, SeqFacts
  <1> HIDE DEF v
  <1>4. \A i \in 1 .. Len(v) : i \in 1 .. Len(rq) \/ i = Len(rq) + 1
    BY <1>3
  <1>5. c < n => c < n + 1
    BY <1>1
  <1>6. \A i \in 1 .. Len(oq) : For(oq[i], c) => c < n + 1
    BY Zenon, <1>5 DEF Ordered
  <1>7. \A i \in 1 .. Len(v) : For(v[i], c) => c < n + 1
    BY Zenon, <1>1, <1>3, <1>4, <1>5 DEF Ordered
  <1>8. \A i, j \in 1 .. Len(v) :
            v[i] = Register(c) /\ j < i => ~For(v[j], c) /\ v[j] # Register(c)
    <2> SUFFICES ASSUME NEW i \in 1 .. Len(v), NEW j \in 1 .. Len(v), v[i] = Register(c), j < i
                 PROVE  ~For(v[j], c) /\ v[j] # Register(c)
      BY Zenon
    <2>1. j \in 1 .. Len(rq) /\ v[j] = rq[j]
      BY <1>3, <1>4
    <2>2. CASE i \in 1 .. Len(rq)
      BY Zenon, <1>3, <2>1, <2>2 DEF Ordered
    <2>3. CASE i = Len(rq) + 1
      <3>1. ~(c < n)
        BY <1>1, <1>3, <2>3
      <3> QED
        BY Zenon, <2>1, <3>1 DEF Ordered
    <2> QED
      BY Zenon, <1>4, <2>2, <2>3
  <1>9. \A i \in 1 .. Len(v) : v[i] = Register(c) => c < n + 1 /\ w = "none"
    <2> SUFFICES ASSUME NEW i \in 1 .. Len(v), v[i] = Register(c)
                 PROVE  c < n + 1 /\ w = "none"
      BY Zenon
    <2>1. CASE i \in 1 .. Len(rq)
      BY Zenon, <1>3, <1>5, <2>1 DEF Ordered
    <2>2. CASE i = Len(rq) + 1
      <3>1. n = c
        BY Zenon, <1>1, <1>3, <2>2
      <3>2. ~(c < n) /\ c < n + 1
        BY <1>1, <3>1
      <3> QED
        BY Zenon, <3>2 DEF Ordered
    <2> QED
      BY Zenon, <1>4, <2>1, <2>2
  <1>10. c < n + 1 /\ w = "none" => \E i \in 1 .. Len(v) : v[i] = Register(c)
    <2> SUFFICES ASSUME c < n + 1, w = "none"
                 PROVE  \E i \in 1 .. Len(v) : v[i] = Register(c)
      BY Zenon
    <2>1. CASE c = n
      <3>1. Len(rq) + 1 \in 1 .. Len(v) /\ v[Len(rq) + 1] = Register(c)
        BY <1>2, <1>3, <2>1
      <3> QED
        BY Zenon, <3>1
    <2>2. CASE c < n
      <3>1. PICK i \in 1 .. Len(rq) : rq[i] = Register(c)
        BY Zenon, <2>2 DEF Ordered
      <3>2. i \in 1 .. Len(v) /\ v[i] = rq[i]
        BY <1>3
      <3> QED
        BY Zenon, <3>1, <3>2
    <2> QED
      BY <1>1, <2>1, <2>2
  <1>11. w # "none" => c < n + 1
    BY Zenon, <1>5 DEF Ordered
  <1>12. Ordered(c, oq, v, n + 1, w)
    BY Zenon, <1>6, <1>7, <1>8, <1>9, <1>10, <1>11 DEF Ordered
  <1> QED
    BY Zenon, <1>2, <1>12 DEF v

\* The head leaves the router's queue: a registration of this channel starts
\* its writer.
LEMMA OrderedRoutes ==
    ASSUME NEW c \in Channels, NEW oq, NEW rq \in Seq(Items), NEW n, NEW w, rq # <<>>,
           Ordered(c, oq, rq, n, w)
    PROVE  /\ Head(rq) # Register(c) => Ordered(c, oq, Tail(rq), n, w)
           /\ Head(rq) = Register(c) => Ordered(c, oq, Tail(rq), n, "running")
           /\ For(Head(rq), c) => w # "none"
  <1> DEFINE x == Head(rq)  v == Tail(rq)
  <1>1. /\ x \in Items /\ x = rq[1] /\ Len(rq) \in Nat /\ Len(rq) >= 1
        /\ Len(v) = Len(rq) - 1 /\ \A i \in 1 .. Len(rq) - 1 : v[i] = rq[i + 1]
    BY Zenon, TakeFacts
  <1> HIDE DEF x, v
  <1>2. \A i \in 1 .. Len(v) : i + 1 \in 1 .. Len(rq) /\ v[i] = rq[i + 1] /\ 1 < i + 1
    BY <1>1
  <1>3. \A i \in 1 .. Len(v) : For(v[i], c) => c < n
    BY Zenon, <1>2 DEF Ordered
  <1>4. \A i, j \in 1 .. Len(v) :
            v[i] = Register(c) /\ j < i => ~For(v[j], c) /\ v[j] # Register(c)
    <2> SUFFICES ASSUME NEW i \in 1 .. Len(v), NEW j \in 1 .. Len(v), v[i] = Register(c), j < i
                 PROVE  ~For(v[j], c) /\ v[j] # Register(c)
      BY Zenon
    <2>1. /\ i + 1 \in 1 .. Len(rq) /\ j + 1 \in 1 .. Len(rq) /\ j + 1 < i + 1
          /\ v[i] = rq[i + 1] /\ v[j] = rq[j + 1]
      BY <1>2
    <2> QED
      BY Zenon, <2>1 DEF Ordered
  <1>5. 1 \in 1 .. Len(rq)
    BY <1>1
  <1>6. x = Register(c) => c < n /\ \A i \in 1 .. Len(v) : v[i] # Register(c)
    <2> SUFFICES ASSUME x = Register(c)
                 PROVE  c < n /\ \A i \in 1 .. Len(v) : v[i] # Register(c)
      BY Zenon
    <2>1. c < n
      BY Zenon, <1>1, <1>5 DEF Ordered
    <2>2. \A i \in 1 .. Len(v) : v[i] # Register(c)
      BY Zenon, <1>1, <1>2, <1>5 DEF Ordered
    <2> QED
      BY Zenon, <2>1, <2>2
  <1>7. \A i \in 1 .. Len(v) : v[i] = Register(c) => c < n /\ w = "none"
    BY Zenon, <1>2 DEF Ordered
  <1>8. x # Register(c) => Ordered(c, oq, v, n, w)
    <2> SUFFICES ASSUME x # Register(c) PROVE Ordered(c, oq, v, n, w)
      BY Zenon
    <2>1. c < n /\ w = "none" => \E i \in 1 .. Len(v) : v[i] = Register(c)
      <3> SUFFICES ASSUME c < n, w = "none"
                   PROVE  \E i \in 1 .. Len(v) : v[i] = Register(c)
        BY Zenon
      <3>1. PICK i \in 1 .. Len(rq) : rq[i] = Register(c)
        BY Zenon DEF Ordered
      <3>2. i # 1
        BY Zenon, <1>1, <3>1
      <3>3. i - 1 \in 1 .. Len(v) /\ v[i - 1] = rq[i]
        BY <1>1, <3>2
      <3> QED
        BY Zenon, <3>1, <3>3
    <2> QED
      BY Zenon, <1>3, <1>4, <1>7, <2>1 DEF Ordered
  <1>9. x = Register(c) => Ordered(c, oq, v, n, "running")
    <2> SUFFICES ASSUME x = Register(c) PROVE Ordered(c, oq, v, n, "running")
      BY Zenon
    <2>1. "running" # "none"
      BY Zenon
    <2> QED
      BY Zenon, <1>3, <1>4, <1>6, <2>1 DEF Ordered
  <1>10. For(x, c) => w # "none"
    <2> SUFFICES ASSUME For(x, c), w = "none" PROVE FALSE
      BY Zenon
    <2>1. c < n
      BY Zenon, <1>1, <1>5 DEF Ordered
    <2>2. PICK i \in 1 .. Len(rq) : rq[i] = Register(c)
      BY Zenon, <2>1 DEF Ordered
    <2>3. i # 1
      <3>1. \A d : ~For(Register(c), d)
        BY Zenon, EnvelopeFacts
      <3> QED
        BY Zenon, <1>1, <2>2, <3>1
    <2>4. 1 < i
      BY <2>3
    <2> QED
      BY Zenon, <1>1, <1>5, <2>2, <2>4 DEF Ordered
  <1> QED
    BY Zenon, <1>8, <1>9, <1>10 DEF x, v

\* A writer that goes on or ends keeps the order.
LEMMA OrderedWriter ==
    ASSUME NEW c, NEW oq, NEW rq, NEW n, NEW w, NEW u, Ordered(c, oq, rq, n, w),
           w # "none", u # "none"
    PROVE  Ordered(c, oq, rq, n, u)
  BY Zenon DEF Ordered

\* Dropping the adapter's queue keeps the order.
LEMMA OrderedCloses ==
    ASSUME NEW c, NEW oq, NEW rq, NEW n, NEW w, Ordered(c, oq, rq, n, w)
    PROVE  Ordered(c, <<>>, rq, n, w)
  BY DEF Ordered

\* The types of the queues, in the forms used below.
LEMMA QueueTypes ==
    ASSUME WritersTypes
    PROVE  /\ out \in Seq(Items) /\ routed \in Seq(Items) /\ out \in Seq(Framings)
           /\ \A c \in Channels :
                  /\ received[c] \in Seq(Envelopes) /\ hand[c] \in Seq(Envelopes)
                  /\ frames[c] \in Seq(Envelopes) /\ entered[c] \in Seq(Envelopes)
                  /\ received[c] \o hand[c] \in Seq(Envelopes)
                  /\ Passed(c) \in Seq(Envelopes)
  <1>1. \A q \in Seq(Framings) : q \in Seq(Items)
    BY ItemFacts
  <1>2. out \in Seq(Framings) /\ routed \in Seq(Items)
    BY Zenon DEF WritersTypes, Items
  <1>3. ASSUME NEW c \in Channels
        PROVE  /\ received[c] \in Seq(Envelopes) /\ hand[c] \in Seq(Envelopes)
               /\ frames[c] \in Seq(Envelopes) /\ entered[c] \in Seq(Envelopes)
               /\ received[c] \o hand[c] \in Seq(Envelopes)
               /\ Passed(c) \in Seq(Envelopes)
    <2>1. /\ received[c] \in Seq(Envelopes) /\ hand[c] \in Seq(Envelopes)
          /\ frames[c] \in Seq(Envelopes) /\ entered[c] \in Seq(Envelopes)
      BY Zenon DEF WritersTypes
    <2>2. received[c] \o hand[c] \in Seq(Envelopes)
      BY <2>1
    <2>3. Passed(c) \in Seq(Envelopes)
      BY <2>1, <2>2 DEF Passed
    <2> QED
      BY Zenon, <2>1, <2>2, <2>3
  <1> QED
    BY Zenon, <1>1, <1>2, <1>3

\* A step that leaves the queues and writers alone, and does not close the
\* session.
LEMMA QuietKeeps ==
    ASSUME WritersInv, UNCHANGED <<nextChannel, out, routed, writerOf, known, frames, hand,
                                   received, entered, closing, fin>>,
           sessionState' = "closed" <=> sessionState = "closed"
    PROVE  \A c \in Channels : ChannelInv(c)'
  <1> SUFFICES ASSUME NEW c \in Channels PROVE ChannelInv(c)'
    BY Zenon
  <1>1. ChannelInv(c)
    BY Zenon DEF WritersInv
  <1>2. Passed(c)' = Passed(c)
    BY Zenon DEF Passed
  <1>3. (sessionState' # "closed") = (sessionState # "closed")
    BY Zenon
  <1> QED
    BY ZenonT(20), <1>1, <1>2, <1>3 DEF ChannelInv, FlowInv

\* The invariant of the writers holds at the start.
LEMMA WritersInitInv == WritersInit => WritersInv
  <1> SUFFICES ASSUME WritersInit PROVE WritersInv
    BY Zenon
  <1>1. WritersTypes
    <2>1. <<>> \in Seq(Envelopes) /\ <<>> \in Seq(Framings) /\ <<>> \in Seq(Items)
      OBVIOUS
    <2>2. /\ events \in [Channels -> Seq(Envelopes)]
          /\ frames \in [Channels -> Seq(Envelopes)] /\ hand \in [Channels -> Seq(Envelopes)]
          /\ received \in [Channels -> Seq(Envelopes)]
          /\ entered \in [Channels -> Seq(Envelopes)]
      BY Zenon, <2>1 DEF WritersInit
    <2>3. /\ out \in Seq(Framings) /\ routed \in Seq(Framings \cup Registers)
      BY Zenon, <2>1 DEF WritersInit, Items
    <2>4. mutex \in [channel : Nat, reply : Envelopes]
      <3>1. Idle.channel = 0 /\ Idle.reply \in Envelopes
            /\ Idle = [channel |-> Idle.channel, reply |-> Idle.reply]
        BY Zenon, EnvelopeFacts DEF Idle
      <3> QED
        BY <3>1 DEF WritersInit
    <2>5. /\ forwarder \in [Channels -> {"none", "running", "exited", "done"}]
          /\ writerOf \in [Channels -> {"none", "running", "failed", "done"}]
          /\ closing \in [Channels -> BOOLEAN] /\ fin \in [Channels -> BOOLEAN]
      BY Zenon DEF WritersInit
    <2>6. nextChannel \in Nat /\ printed \in [Channels -> Nat]
      BY Zenon DEF WritersInit
    <2> QED
      BY Zenon, <2>2, <2>3, <2>4, <2>5, <2>6 DEF WritersTypes
  <1>2. Speakers
    BY Zenon DEF WritersInit, Speakers
  <1>3. ASSUME NEW c \in Channels PROVE ChannelInv(c)
    <2>1. /\ out = <<>> /\ routed = <<>> /\ writerOf[c] = "none" /\ nextChannel = 0
          /\ frames[c] = <<>> /\ hand[c] = <<>> /\ received[c] = <<>> /\ entered[c] = <<>>
          /\ closing[c] = FALSE /\ fin[c] = FALSE /\ sessionState = "open"
      BY Zenon DEF WritersInit
    <2>2. c \in Nat
      BY Zenon, ItemFacts
    <2>3. Ordered(c, <<>>, <<>>, 0, "none")
      <3>1. ~(c < 0) /\ \A i \in 1 .. Len(<<>>) : FALSE
        BY <2>2
      <3> QED
        BY Zenon, <3>1 DEF Ordered
    <2>4. Passed(c) = <<>>
      BY <2>1 DEF Passed
    <2>5. Intact(<<>>, <<>>, <<>>, c, <<>>, TRUE)
      BY ZenonT(20), IntactStart
    <2>6. Told(<<>>, <<>>)
      <3>1. <<>> \in Seq(Envelopes) /\ Begins(<<>>, <<>>)
        BY DEF Begins
      <3> QED
        BY ZenonT(20), <3>1, BeginsTold
    <2>7. (sessionState # "closed") = TRUE
      BY Zenon, <2>1
    <2>8. FlowInv(c)
      BY ZenonT(20), <2>1, <2>4, <2>5, <2>6, <2>7 DEF FlowInv
    <2> QED
      BY Zenon, <2>1, <2>3, <2>8 DEF ChannelInv
  <1> QED
    BY Zenon, <1>1, <1>2, <1>3 DEF WritersInv

\* A frame is put into `out`.
LEMMA EnqueueKeeps ==
    ASSUME WritersInv, NEW c \in Channels, NEW f \in Envelopes, Enqueue(c, f),
           c < nextChannel, sessionState # "closed",
           UNCHANGED <<sessionState, nextChannel, routed, writerOf, known, frames, hand,
                       received, closing, fin>>
    PROVE  /\ out' \in Seq(Framings) /\ entered' \in [Channels -> Seq(Envelopes)]
           /\ \A d \in Channels : ChannelInv(d)'
  <1> DEFINE x == Framed(c, f)
  <1>1. /\ x \in Framings /\ x \in Items /\ For(x, c) /\ x.frame = f
        /\ \A d : For(x, d) => d = c
    BY Zenon, EnvelopeFacts, ItemFacts
  <1>2. /\ out' = Append(out, x) /\ entered' = [entered EXCEPT ![c] = Append(@, f)]
    BY Zenon DEF Enqueue
  <1> HIDE DEF x
  <1>3. WritersTypes /\ out \in Seq(Items) /\ out \in Seq(Framings)
    BY Zenon, QueueTypes DEF WritersInv
  <1>4. out' \in Seq(Framings)
    BY <1>1, <1>2, <1>3
  <1>5. entered' \in [Channels -> Seq(Envelopes)]
    <2>1. entered \in [Channels -> Seq(Envelopes)]
      BY Zenon, <1>3 DEF WritersTypes
    <2>2. Append(entered[c], f) \in Seq(Envelopes)
      BY <2>1
    <2> QED
      BY Zenon, <1>2, <2>1, <2>2
  <1>6. ASSUME NEW d \in Channels PROVE ChannelInv(d)'
    <2>1. ChannelInv(d)
      BY Zenon DEF WritersInv
    <2>2. Passed(d)' = Passed(d) /\ Passed(d) \in Seq(Envelopes)
          /\ entered[d] \in Seq(Envelopes) /\ received[d] \in Seq(Envelopes)
      BY Zenon, <1>3, QueueTypes DEF Passed
    <2>3. Ordered(d, out', routed', nextChannel', writerOf'[d])
      <3>1. For(x, d) => d < nextChannel
        BY Zenon, <1>1
      <3> QED
        BY Zenon, <1>1, <1>2, <1>3, <2>1, <3>1, OrderedEnters DEF ChannelInv
    <2>4. CASE d # c
      <3>1. entered'[d] = entered[d] /\ ~For(x, d)
        BY Zenon, <1>1, <1>2, <1>3, <2>4 DEF WritersTypes
      <3>2. Intact(Passed(d), routed, out, d, entered[d], sessionState # "closed")
            => Intact(Passed(d), routed, out', d, entered[d], sessionState # "closed")
        BY Zenon, <1>1, <1>2, <1>3, <3>1, IntactEntersOther
      <3>3. FlowInv(d)'
        BY ZenonT(20), <2>1, <2>2, <3>1, <3>2 DEF ChannelInv, FlowInv
      <3> QED
        BY Zenon, <2>1, <2>3, <3>3 DEF ChannelInv
    <2>5. CASE d = c
      <3>1. entered'[d] = Append(entered[d], f)
        BY Zenon, <1>2, <1>3, <2>5 DEF WritersTypes
      <3>2. (sessionState # "closed") = TRUE
        BY Zenon
      <3>3. Intact(Passed(d), routed, out, d, entered[d], TRUE)
            => Intact(Passed(d), routed, out', d, entered'[d], TRUE)
        BY ZenonT(60), <1>1, <1>2, <1>3, <2>2, <2>5, <3>1, IntactEnters
      <3>4. /\ Told(Passed(d), entered[d]) => Told(Passed(d), entered'[d])
            /\ Told(received[d], entered[d]) => Told(received[d], entered'[d])
        BY ZenonT(20), <2>2, <3>1, ToldLater
      <3>5. FlowInv(d)'
        BY ZenonT(20), <2>1, <2>2, <3>2, <3>3, <3>4 DEF ChannelInv, FlowInv
      <3> QED
        BY Zenon, <2>1, <2>3, <3>5 DEF ChannelInv
    <2> QED
      BY Zenon, <2>4, <2>5
  <1> QED
    BY Zenon, <1>4, <1>5, <1>6

\* Registering a channel keeps the invariant.
LEMMA RegisterKeeps == WritersInv /\ register => WritersInv'
  <1> SUFFICES ASSUME WritersInv, register PROVE WritersInv'
    BY Zenon
  <1> DEFINE n == nextChannel  x == Register(n)
  <1>1. /\ n \in Channels /\ nextChannel' = n + 1 /\ routed' = Append(routed, x)
        /\ UNCHANGED <<sessionState, mutex, events, printed, forwarder, out, writerOf, known,
                       frames, hand, received, entered, closing, fin>>
    BY Zenon DEF register, attachVars, queueVars, clientVars
  <1>2. n \in Nat /\ x \in Items /\ \A d : ~For(x, d)
    BY ZenonT(20), <1>1, EnvelopeFacts, ItemFacts
  <1>3. WritersTypes /\ Speakers /\ out \in Seq(Items) /\ routed \in Seq(Items)
    BY Zenon, QueueTypes DEF WritersInv
  <1>4. WritersTypes'
    <2>1. routed' \in Seq(Items)
      <3> HIDE DEF x
      <3> QED
        BY <1>1, <1>2, <1>3
    <2>2. nextChannel' \in Nat
      BY <1>1, <1>2
    <2> QED
      BY ZenonT(20), <1>1, <1>3, <2>1, <2>2 DEF WritersTypes, Items
  <1>5. Speakers'
    <2>1. \A c \in Channels : c < nextChannel => c < nextChannel'
      BY <1>1, <1>2, ItemFacts
    <2> QED
      BY Zenon, <1>1, <1>3, <2>1 DEF Speakers
  <1>6. ASSUME NEW c \in Channels PROVE ChannelInv(c)'
    <2>1. ChannelInv(c)
      BY Zenon DEF WritersInv
    <2>2. Passed(c)' = Passed(c)
      BY Zenon, <1>1 DEF Passed
    <2>3. Ordered(c, out', routed', nextChannel', writerOf'[c])
      BY Zenon, <1>1, <1>3, <2>1, OrderedRegisters DEF ChannelInv
    <2>4. Intact(Passed(c), routed, out, c, entered[c], sessionState # "closed")
          => Intact(Passed(c), routed', out, c, entered[c], sessionState # "closed")
      <3> HIDE DEF x
      <3> QED
        BY Zenon, <1>1, <1>2, <1>3, IntactRegisters
    <2>5. FlowInv(c)'
      BY Zenon, <1>1, <2>1, <2>2, <2>4 DEF ChannelInv, FlowInv
    <2> QED
      BY Zenon, <1>1, <2>1, <2>3, <2>5 DEF ChannelInv
  <1> QED
    BY Zenon, <1>4, <1>5, <1>6 DEF WritersInv

\* Dispatching a request or an attach keeps the invariant.
LEMMA DispatchKeeps ==
    ASSUME WritersInv, NEW c \in Channels, DispatchRequest(c) \/ DispatchAttach(c)
    PROVE  WritersInv'
  <1>1. /\ sessionState = "open" /\ c < nextChannel
        /\ UNCHANGED <<sessionState, nextChannel, events, printed, forwarder, out, routed,
                       writerOf, known, frames, hand, received, entered, closing, fin>>
    BY Zenon DEF DispatchRequest, DispatchAttach, ReaderDispatches, Opened, attachVars, queueVars,
           clientVars
  <1>2. PICK k \in {"reply", "ShellAttached"} :
            mutex' = [channel |-> c, reply |-> Envelope(k)]
    BY Zenon DEF DispatchRequest, DispatchAttach
  <1>3. Envelope(k) \in Envelopes /\ c \in Nat
    BY Zenon, EnvelopeFacts, ItemFacts DEF Words
  <1>4. mutex' \in [channel : Nat, reply : Envelopes] /\ mutex'.channel = c
    BY Zenon, <1>2, <1>3
  <1>5. WritersTypes'
    BY Zenon, <1>1, <1>4 DEF WritersInv, WritersTypes
  <1>6. Speakers'
    BY Zenon, <1>1, <1>4 DEF WritersInv, Speakers
  <1>7. \A d \in Channels : ChannelInv(d)'
    BY Zenon, <1>1, QuietKeeps
  <1> QED
    BY Zenon, <1>5, <1>6, <1>7 DEF WritersInv

\* Sending a reply keeps the invariant.
LEMMA ReplyKeeps == WritersInv /\ Reply => WritersInv'
  <1> SUFFICES ASSUME WritersInv, Reply PROVE WritersInv'
    BY Zenon
  <1> DEFINE c == mutex.channel  f == mutex.reply
  <1>1. /\ mutex # Idle /\ Enqueue(c, f) /\ mutex' = Idle
        /\ UNCHANGED <<sessionState, nextChannel, events, printed, routed, writerOf, known,
                       frames, hand, received, closing, fin>>
        /\ forwarder' = [forwarder EXCEPT ![c] = "running"] \/ forwarder' = forwarder
    BY ZenonT(20) DEF Reply, queueVars, clientVars
  <1>2. c \in Channels /\ c < nextChannel /\ sessionState = "open"
    BY Zenon, <1>1 DEF WritersInv, Speakers
  <1>3. f \in Envelopes
    BY Zenon DEF WritersInv, WritersTypes
  <1> HIDE DEF c, f
  <1>4. /\ out' \in Seq(Framings) /\ entered' \in [Channels -> Seq(Envelopes)]
        /\ \A d \in Channels : ChannelInv(d)'
    BY Zenon, <1>1, <1>2, <1>3, EnqueueKeeps
  <1>5. mutex' \in [channel : Nat, reply : Envelopes]
    <2>1. Idle.channel = 0 /\ Idle.reply \in Envelopes
          /\ Idle = [channel |-> Idle.channel, reply |-> Idle.reply]
      BY Zenon, EnvelopeFacts DEF Idle
    <2> QED
      BY <1>1, <2>1
  <1>6. forwarder' \in [Channels -> {"none", "running", "exited", "done"}]
    BY ZenonT(20), <1>1 DEF WritersInv, WritersTypes
  <1>7. WritersTypes'
    BY Zenon, <1>1, <1>4, <1>5, <1>6 DEF WritersInv, WritersTypes
  <1>8. Speakers'
    <2>1. \A d \in Channels : forwarder'[d] # "none" => d < nextChannel
      BY ZenonT(20), <1>1, <1>2 DEF WritersInv, WritersTypes, Speakers
    <2> QED
      BY Zenon, <1>1, <2>1 DEF Speakers
  <1> QED
    BY Zenon, <1>4, <1>7, <1>8 DEF WritersInv

\* Detaching, and the shell's side of an attachment.
LEMMA ShellKeeps ==
    ASSUME WritersInv, NEW c \in Channels,
           DispatchDetach(c) \/ ShellPrints(c) \/ ShellExits(c)
    PROVE  WritersInv'
  <1>1. UNCHANGED <<sessionState, nextChannel, mutex, forwarder, out, routed,
                    writerOf, known, frames, hand, received, entered, closing, fin>>
    BY Zenon DEF DispatchDetach, ShellPrints, ShellExits, queueVars, clientVars
  <1>2. /\ events \in [Channels -> Seq(Envelopes)] /\ printed \in [Channels -> Nat]
        /\ events[c] \in Seq(Envelopes) /\ printed[c] \in Nat
    BY Zenon DEF WritersInv, WritersTypes
  <1>3. printed[c] + 1 \in Nat
    BY <1>2
  <1>4. /\ Output(printed[c] + 1) \in Envelopes /\ Envelope("ShellExited") \in Envelopes
    BY ZenonT(20), <1>3, EnvelopeFacts DEF Words
  <1>5. /\ Append(events[c], Output(printed[c] + 1)) \in Seq(Envelopes)
        /\ Append(events[c], Envelope("ShellExited")) \in Seq(Envelopes)
    BY <1>2, <1>4
  <1>6. printed' \in [Channels -> Nat]
    BY Zenon, <1>2, <1>3 DEF DispatchDetach, ShellPrints, ShellExits
  <1>7. events' \in [Channels -> Seq(Envelopes)]
    <2>1. \/ events' = events
          \/ events' = [events EXCEPT ![c] = Append(events[c], Output(printed[c] + 1))]
          \/ events' = [events EXCEPT ![c] = Append(events[c], Envelope("ShellExited"))]
      BY Zenon, <1>2 DEF DispatchDetach, ShellPrints, ShellExits
    <2> QED
      BY ZenonT(20), <1>2, <1>5, <2>1
  <1>8. WritersTypes'
    BY ZenonT(20), <1>1, <1>6, <1>7 DEF WritersInv, WritersTypes
  <1>9. Speakers'
    BY Zenon, <1>1 DEF WritersInv, Speakers
  <1>10. \A d \in Channels : ChannelInv(d)'
    BY Zenon, <1>1, QuietKeeps
  <1> QED
    BY Zenon, <1>8, <1>9, <1>10 DEF WritersInv

\* The forwarder of an attachment passes events on, and ends.
LEMMA ForwardKeeps ==
    ASSUME WritersInv, NEW c \in Channels, Forward(c) \/ ForwardEnds(c)
    PROVE  WritersInv'
  <1>1. /\ sessionState # "closed" /\ forwarder[c] \in {"running", "exited"}
        /\ UNCHANGED <<sessionState, nextChannel, mutex, printed, routed, writerOf, known,
                       frames, hand, received, closing, fin>>
    BY ZenonT(20) DEF Forward, ForwardEnds, queueVars, clientVars
  <1>2. c < nextChannel
    BY Zenon, <1>1 DEF WritersInv, Speakers
  <1>3. /\ events \in [Channels -> Seq(Envelopes)] /\ events[c] \in Seq(Envelopes)
    BY Zenon DEF WritersInv, WritersTypes
  <1>4. /\ out' \in Seq(Framings) /\ entered' \in [Channels -> Seq(Envelopes)]
        /\ \A d \in Channels : ChannelInv(d)'
    <2>1. CASE UNCHANGED <<out, entered>>
      <3>1. \A d \in Channels : ChannelInv(d)'
        BY Zenon, <1>1, <2>1, QuietKeeps
      <3> QED
        BY Zenon, <2>1, <3>1 DEF WritersInv, WritersTypes
    <2>2. CASE Enqueue(c, Envelope("ErrTooSlow"))
      <3>1. Envelope("ErrTooSlow") \in Envelopes
        BY Zenon, EnvelopeFacts DEF Words
      <3> QED
        BY Zenon, <1>1, <1>2, <2>2, <3>1, EnqueueKeeps
    <2>3. CASE events[c] # <<>> /\ Enqueue(c, Head(events[c]))
      <3>1. Head(events[c]) \in Envelopes
        BY Zenon, <1>3, <2>3, TakeFacts
      <3> QED
        BY ZenonT(20), <1>1, <1>2, <2>3, <3>1, EnqueueKeeps
    <2> QED
      BY ZenonT(20), <2>1, <2>2, <2>3 DEF Forward, ForwardEnds
  <1>5. events' \in [Channels -> Seq(Envelopes)]
    <2>1. events' = events \/ (events[c] # <<>> /\ events' = [events EXCEPT ![c] = Tail(@)])
      BY Zenon DEF Forward, ForwardEnds
    <2>2. events[c] # <<>> => Tail(events[c]) \in Seq(Envelopes)
      BY Zenon, <1>3, TakeFacts
    <2> QED
      BY Zenon, <1>3, <2>1, <2>2
  <1>6. PICK w \in {"running", "exited", "done"} : forwarder' = [forwarder EXCEPT ![c] = w]
    BY Zenon, <1>1 DEF Forward, ForwardEnds
  <1>7. forwarder' \in [Channels -> {"none", "running", "exited", "done"}]
    BY Zenon, <1>6 DEF WritersInv, WritersTypes
  <1>8. WritersTypes'
    BY Zenon, <1>1, <1>4, <1>5, <1>7 DEF WritersInv, WritersTypes
  <1>9. Speakers'
    <2>1. \A d \in Channels : forwarder'[d] # "none" => d < nextChannel
      BY Zenon, <1>2, <1>6 DEF WritersInv, WritersTypes, Speakers
    <2> QED
      BY Zenon, <1>1, <2>1 DEF WritersInv, Speakers
  <1> QED
    BY Zenon, <1>4, <1>8, <1>9 DEF WritersInv

\* The adapter's step keeps the invariant.
LEMMA AdaptKeeps == WritersInv /\ Adapt => WritersInv'
  <1> SUFFICES ASSUME WritersInv, Adapt PROVE WritersInv'
    BY Zenon
  <1>1. /\ out # <<>> /\ routed' = Append(routed, Head(out)) /\ out' = Tail(out)
        /\ UNCHANGED <<sessionState, nextChannel, mutex, events, printed, forwarder, writerOf,
                       known, frames, hand, received, entered, closing, fin>>
    BY Zenon DEF Adapt, attachVars, queueVars, clientVars
  <1>2. WritersTypes /\ out \in Seq(Framings) /\ out \in Seq(Items) /\ routed \in Seq(Items)
    BY Zenon, QueueTypes DEF WritersInv
  <1>3. /\ Head(out) \in Framings /\ Head(out) \in Items /\ Tail(out) \in Seq(Framings)
        /\ Head(out).frame \in Envelopes
    <2>1. Head(out) \in Framings /\ Tail(out) \in Seq(Framings)
      BY Zenon, <1>1, <1>2, TakeFacts
    <2> QED
      BY Zenon, <2>1, EnvelopeFacts, ItemFacts
  <1>4. WritersTypes'
    <2>1. routed' \in Seq(Items)
      BY <1>1, <1>2, <1>3
    <2> QED
      BY Zenon, <1>1, <1>2, <1>3, <2>1 DEF WritersTypes, Items
  <1>5. Speakers'
    BY Zenon, <1>1 DEF WritersInv, Speakers
  <1>6. ASSUME NEW c \in Channels PROVE ChannelInv(c)'
    <2>1. ChannelInv(c)
      BY Zenon DEF WritersInv
    <2>2. Passed(c)' = Passed(c) /\ Passed(c) \in Seq(Envelopes)
      BY Zenon, <1>1, <1>2, QueueTypes DEF Passed
    <2>3. Ordered(c, out', routed', nextChannel', writerOf'[c])
      BY Zenon, <1>1, <1>2, <2>1, OrderedAdapts DEF ChannelInv
    <2>4. Intact(Passed(c), routed, out, c, entered[c], sessionState # "closed")
          => Intact(Passed(c), routed', out', c, entered[c], sessionState # "closed")
      BY Zenon, <1>1, <1>2, <1>3, <2>2, IntactAdapts
    <2>5. FlowInv(c)'
      BY ZenonT(20), <1>1, <2>1, <2>2, <2>4 DEF ChannelInv, FlowInv
    <2> QED
      BY Zenon, <1>1, <2>1, <2>3, <2>5 DEF ChannelInv
  <1> QED
    BY Zenon, <1>4, <1>5, <1>6 DEF WritersInv

\* The router's taking of a registration keeps the invariant.
LEMMA RouteRegisterKeeps == WritersInv /\ RouteRegister => WritersInv'
  <1> SUFFICES ASSUME WritersInv, RouteRegister PROVE WritersInv'
    BY Zenon
  <1> DEFINE x == Head(routed)  c == x.channel
  <1>1. /\ routed # <<>> /\ x.kind = "Register" /\ routed' = Tail(routed)
        /\ known' = Retained \cup {c}
        /\ writerOf' = [writerOf EXCEPT ![c] = "running"]
        /\ UNCHANGED <<sessionState, nextChannel, mutex, events, printed, forwarder, out,
                       frames, hand, received, entered, closing, fin>>
    BY ZenonT(20) DEF RouteRegister, attachVars, queueVars, clientVars
  <1>2. WritersTypes /\ out \in Seq(Items) /\ routed \in Seq(Items)
    BY Zenon, QueueTypes DEF WritersInv
  <1>3. x \in Items /\ Tail(routed) \in Seq(Items)
    BY Zenon, <1>1, <1>2, TakeFacts
  <1>4. c \in Channels /\ x = Register(c) /\ \A d : ~For(x, d)
    <2>1. x \in Registers
      BY ZenonT(20), <1>1, <1>3, EnvelopeFacts, ItemFacts
    <2> QED
      BY ZenonT(20), <2>1, EnvelopeFacts
  <1> HIDE DEF x, c
  <1>5. WritersTypes'
    <2>1. writerOf' \in [Channels -> {"none", "running", "failed", "done"}]
      BY ZenonT(20), <1>1, <1>2 DEF WritersTypes
    <2> QED
      BY Zenon, <1>1, <1>2, <1>3, <2>1 DEF WritersTypes, Items
  <1>6. Speakers'
    BY Zenon, <1>1 DEF WritersInv, Speakers
  <1>7. ASSUME NEW d \in Channels PROVE ChannelInv(d)'
    <2>1. ChannelInv(d)
      BY Zenon DEF WritersInv
    <2>2. Passed(d)' = Passed(d)
      BY Zenon, <1>1 DEF Passed
    <2>3. Intact(Passed(d), routed, out, d, entered[d], sessionState # "closed")
          => Intact(Passed(d), routed', out, d, entered[d], sessionState # "closed")
      BY Zenon, <1>1, <1>2, <1>4, IntactRoutesOther DEF x
    <2>4. /\ x # Register(d) => Ordered(d, out, routed', nextChannel, writerOf[d])
          /\ x = Register(d) => /\ Ordered(d, out, routed', nextChannel, "running")
      BY Zenon, <1>1, <1>2, <2>1, OrderedRoutes DEF x, ChannelInv
    <2>5. CASE d = c
      <3>1. writerOf'[d] = "running" /\ d \in known'
        BY Zenon, <1>1, <1>2, <2>5 DEF WritersTypes
      <3>2. writerOf[d] = "none"
        <4>1. 1 \in 1 .. Len(routed) /\ routed[1] = x
          BY <1>1, <1>2, TakeFacts DEF x
        <4> QED
          BY Zenon, <1>4, <2>1, <2>5, <4>1 DEF ChannelInv, Ordered
      <3>3. FlowInv(d)'
        BY ZenonT(20), <1>1, <2>1, <2>2, <2>3, <3>1, <3>2 DEF ChannelInv, FlowInv
      <3> QED
        BY Zenon, <1>1, <1>4, <2>4, <2>5, <3>1, <3>3 DEF ChannelInv
    <2>6. CASE d # c
      <3>1. writerOf'[d] = writerOf[d]
        BY Zenon, <1>1, <1>2, <2>6 DEF WritersTypes
      <3>2. x # Register(d)
        BY Zenon, <1>4, <2>6, EnvelopeFacts
      <3>3. writerOf'[d] = "running" => d \in known'
        BY Zenon, <1>1, <2>1, <3>1 DEF ChannelInv, Retained
      <3>4. FlowInv(d)'
        BY ZenonT(20), <1>1, <2>1, <2>2, <2>3, <3>1 DEF ChannelInv, FlowInv
      <3> QED
        BY Zenon, <1>1, <2>4, <3>1, <3>2, <3>3, <3>4 DEF ChannelInv
    <2> QED
      BY Zenon, <2>5, <2>6
  <1> QED
    BY Zenon, <1>5, <1>6, <1>7 DEF WritersInv

\* WtChannelQueue::push keeps what holds of a channel whose writer runs.
LEMMA PushKeeps ==
    ASSUME WritersTypes, NEW c \in Channels, NEW f \in Envelopes, push(c, f)
    PROVE  /\ frames' \in [Channels -> Seq(Envelopes)] /\ closing' \in [Channels -> BOOLEAN]
           /\ \A d \in Channels \ {c} : frames'[d] = frames[d] /\ closing'[d] = closing[d]
           /\ \/ closing[c] /\ frames'[c] = frames[c] /\ closing'[c] = closing[c]
              \/ ~closing[c] /\ ~closing'[c] /\ frames'[c] = Append(frames[c], f)
              \/ ~closing[c] /\ closing'[c] /\ frames'[c] = <<Overload>>
  <1>1. /\ frames \in [Channels -> Seq(Envelopes)] /\ closing \in [Channels -> BOOLEAN]
        /\ frames[c] \in Seq(Envelopes)
    BY Zenon DEF WritersTypes
  <1>2. Append(frames[c], f) \in Seq(Envelopes) /\ <<Overload>> \in Seq(Envelopes)
    <2>1. Overload \in Envelopes
      BY Zenon, EnvelopeFacts
    <2> QED
      BY <1>1, <2>1
  <1>3. CASE closing[c] /\ UNCHANGED queueVars
    BY Zenon, <1>1, <1>3 DEF queueVars
  <1>4. CASE /\ ~closing[c] /\ frames' = [frames EXCEPT ![c] = Append(@, f)]
             /\ UNCHANGED closing
    BY Zenon, <1>1, <1>2, <1>4
  <1>5. CASE /\ ~closing[c] /\ frames' = [frames EXCEPT ![c] = <<Overload>>]
             /\ closing' = [closing EXCEPT ![c] = TRUE]
    BY ZenonT(20), <1>1, <1>2, <1>5
  <1> QED
    BY Zenon, <1>3, <1>4, <1>5 DEF push

\* The router's taking of a frame, whatever the state of the channel's queue,
\* keeps the invariant.
LEMMA RouteFrameKeeps == WritersInv /\ RouteFrame => WritersInv'
  <1> SUFFICES ASSUME WritersInv, RouteFrame PROVE WritersInv'
    BY Zenon
  <1> DEFINE x == Head(routed)  c == x.channel  f == x.frame
  <1>1. /\ routed # <<>> /\ x.kind = "Frame" /\ routed' = Tail(routed)
        /\ IF c \in known THEN push(c, f) ELSE UNCHANGED queueVars
        /\ UNCHANGED <<sessionState, nextChannel, mutex, events, printed, forwarder, out,
                       writerOf, known, hand, received, entered, fin>>
    BY Zenon DEF RouteFrame, attachVars, clientVars
  <1>2. WritersTypes /\ out \in Seq(Items) /\ routed \in Seq(Items)
    BY Zenon, QueueTypes DEF WritersInv
  <1>3. x \in Items /\ Tail(routed) \in Seq(Items)
    BY Zenon, <1>1, <1>2, TakeFacts
  <1>4. /\ x \in Framings /\ c \in Channels /\ f \in Envelopes
        /\ For(x, c) /\ \A d : For(x, d) => d = c
    <2>1. x \in Framings
      BY ZenonT(20), <1>1, <1>3, EnvelopeFacts, ItemFacts
    <2> QED
      BY Zenon, <2>1, EnvelopeFacts DEF For
  <1>5. \A d \in Channels : x # Register(d)
    BY ZenonT(20), <1>4, ItemFacts
  <1> HIDE DEF x, c, f
  <1>6. /\ frames' \in [Channels -> Seq(Envelopes)] /\ closing' \in [Channels -> BOOLEAN]
        /\ \A d \in Channels \ {c} : frames'[d] = frames[d] /\ closing'[d] = closing[d]
    <2>1. CASE c \in known
      BY Zenon, <1>1, <1>2, <1>4, <2>1, PushKeeps
    <2>2. CASE c \notin known
      BY Zenon, <1>1, <1>2, <2>2 DEF queueVars, WritersTypes
    <2> QED
      BY Zenon, <2>1, <2>2
  <1>7. WritersTypes'
    BY Zenon, <1>1, <1>2, <1>3, <1>6 DEF WritersTypes, Items
  <1>8. Speakers'
    BY Zenon, <1>1 DEF WritersInv, Speakers
  <1>9. ASSUME NEW d \in Channels PROVE ChannelInv(d)'
    <2>1. ChannelInv(d)
      BY Zenon DEF WritersInv
    <2>2. /\ Ordered(d, out', routed', nextChannel', writerOf'[d])
          /\ For(x, d) => writerOf[d] # "none"
      BY Zenon, <1>1, <1>2, <1>5, <2>1, OrderedRoutes DEF x, ChannelInv
    <2>3. CASE d # c
      <3>1. Passed(d)' = Passed(d) /\ closing'[d] = closing[d] /\ ~For(x, d)
        BY ZenonT(60), <1>1, <1>4, <1>6, <2>3 DEF Passed
      <3>2. Intact(Passed(d), routed, out, d, entered[d], sessionState # "closed")
            => Intact(Passed(d), routed', out, d, entered[d], sessionState # "closed")
        BY ZenonT(20), <1>1, <1>2, <3>1, IntactRoutesOther DEF x
      <3>3. FlowInv(d)'
        BY ZenonT(60), <1>1, <2>1, <3>1, <3>2 DEF ChannelInv, FlowInv
      <3> QED
        BY Zenon, <1>1, <2>1, <2>2, <3>3 DEF ChannelInv
    <2>4. CASE d = c
      <3>1. /\ Told(received[d], entered[d])
            /\ fin[d] => /\ writerOf[d] = "done"
                         /\ sessionState = "closed" \/ Overloaded(received[d])
        BY ZenonT(60), <2>1 DEF ChannelInv, FlowInv
      <3>2. ASSUME writerOf[d] \in {"none", "running"}
            PROVE  IF closing'[d]
                   THEN /\ Told(Passed(d)', entered[d])
                        /\ sessionState # "closed" => Overloaded(Passed(d)')
                   ELSE Intact(Passed(d)', routed', out, d, entered[d],
                              sessionState # "closed")
        <4>1. writerOf[d] = "running" /\ d \in known
          BY Zenon, <1>4, <2>1, <2>2, <2>4, <3>2 DEF ChannelInv
        <4>2. \/ closing[d] /\ frames'[d] = frames[d] /\ closing'[d] = closing[d]
              \/ ~closing[d] /\ ~closing'[d] /\ frames'[d] = Append(frames[d], f)
              \/ ~closing[d] /\ closing'[d] /\ frames'[d] = <<Overload>>
          BY ZenonT(20), <1>1, <1>2, <1>4, <2>4, <4>1, PushKeeps
        <4> DEFINE p == received[d] \o hand[d]
        <4>3. /\ p \in Seq(Envelopes) /\ frames[d] \in Seq(Envelopes)
              /\ Passed(d) \in Seq(Envelopes) /\ entered[d] \in Seq(Envelopes)
          BY Zenon, <1>2, QueueTypes
        <4>4. Passed(d) = p \o frames[d] /\ Passed(d)' = p \o frames'[d]
          BY Zenon, <1>1 DEF Passed
        <4> HIDE DEF p
        <4>5. /\ closing[d] => /\ Told(Passed(d), entered[d])
                               /\ sessionState # "closed" => Overloaded(Passed(d))
              /\ ~closing[d] => Intact(Passed(d), routed, out, d, entered[d],
                                      sessionState # "closed")
          BY ZenonT(60), <2>1, <3>2 DEF ChannelInv, FlowInv
        <4>6. CASE closing[d] /\ frames'[d] = frames[d] /\ closing'[d] = closing[d]
          BY ZenonT(60), <4>4, <4>5, <4>6
        <4>7. CASE ~closing[d] /\ ~closing'[d] /\ frames'[d] = Append(frames[d], f)
          <5>1. p \o Append(frames[d], f) = Append(Passed(d), f)
            BY SMTT(20), <1>4, <4>3, <4>4, JoinAppend
          <5>2. Intact(Append(Passed(d), f), routed', out, d, entered[d],
                      sessionState # "closed")
            BY ZenonT(60), <1>1, <1>2, <1>4, <2>4, <4>3, <4>5, <4>7, IntactRoutes DEF x, f
          <5> QED
            BY Zenon, <4>4, <4>7, <5>1, <5>2
        <4>8. CASE ~closing[d] /\ closing'[d] /\ frames'[d] = <<Overload>>
          <5>1. Begins(Passed(d), entered[d])
            BY Zenon, <4>3, <4>5, <4>8, IntactBegins
          <5>2. Told(p \o <<Overload>>, entered[d]) /\ Overloaded(p \o <<Overload>>)
            BY ZenonT(60), <4>3, <4>4, <5>1, OverloadTold
          <5> QED
            BY ZenonT(60), <4>4, <4>8, <5>2
        <4> QED
          BY ZenonT(20), <4>2, <4>6, <4>7, <4>8
      <3>3. FlowInv(d)'
        BY ZenonT(20), <1>1, <3>1, <3>2 DEF FlowInv
      <3> QED
        BY Zenon, <1>1, <2>1, <2>2, <3>3 DEF ChannelInv
    <2> QED
      BY Zenon, <2>3, <2>4
  <1> QED
    BY Zenon, <1>7, <1>8, <1>9 DEF WritersInv

\* A writer's step: it concerns one channel's frames, hand, received, fin and
\* the writer itself.
LEMMA WriterKeeps ==
    ASSUME WritersInv, NEW c \in Channels,
           UNCHANGED <<sessionState, nextChannel, mutex, events, printed, forwarder, out,
                       routed, known, entered, closing>>,
           frames' \in [Channels -> Seq(Envelopes)], hand' \in [Channels -> Seq(Envelopes)],
           received' \in [Channels -> Seq(Envelopes)], fin' \in [Channels -> BOOLEAN],
           writerOf' \in [Channels -> {"none", "running", "failed", "done"}],
           \A d \in Channels \ {c} :
               /\ frames'[d] = frames[d] /\ hand'[d] = hand[d] /\ received'[d] = received[d]
               /\ fin'[d] = fin[d] /\ writerOf'[d] = writerOf[d],
           writerOf[c] = "running", writerOf'[c] # "none", FlowInv(c)'
    PROVE  WritersInv'
  <1>1. WritersTypes'
    BY Zenon DEF WritersInv, WritersTypes
  <1>2. Speakers'
    BY Zenon DEF WritersInv, Speakers
  <1>3. ASSUME NEW d \in Channels PROVE ChannelInv(d)'
    <2>1. ChannelInv(d)
      BY ZenonT(60) DEF WritersInv
    <2>2. CASE d = c
      <3>1. Ordered(d, out, routed, nextChannel, writerOf'[d])
        BY ZenonT(60), <2>1, <2>2, OrderedWriter DEF ChannelInv
      <3>2. d \in known
        BY ZenonT(60), <2>1, <2>2 DEF ChannelInv
      <3> QED
        BY ZenonT(60), <2>2, <3>1, <3>2 DEF ChannelInv
    <2>3. CASE d # c
      <3>1. Passed(d)' = Passed(d) /\ writerOf'[d] = writerOf[d] /\ fin'[d] = fin[d]
            /\ received'[d] = received[d]
        BY ZenonT(60), <2>3 DEF Passed
      <3>2. FlowInv(d)'
        BY ZenonT(20), <2>1, <3>1 DEF ChannelInv, FlowInv
      <3> QED
        BY ZenonT(60), <2>1, <3>1, <3>2 DEF ChannelInv
    <2> QED
      BY ZenonT(60), <2>2, <2>3
  <1> QED
    BY ZenonT(20), <1>1, <1>2, <1>3 DEF WritersInv

\* A writer's taking of a frame keeps the invariant.
LEMMA WriterTakesKeeps ==
    ASSUME WritersInv, NEW c \in Channels, WriterTakes(c)
    PROVE  WritersInv'
  <1>1. /\ writerOf[c] = "running" /\ hand[c] = <<>> /\ frames[c] # <<>>
        /\ hand' = [hand EXCEPT ![c] = <<Head(frames[c])>>]
        /\ frames' = [frames EXCEPT ![c] = Tail(@)]
        /\ UNCHANGED <<sessionState, nextChannel, mutex, events, printed, forwarder, out,
                       routed, known, entered, closing, writerOf, received, fin>>
    BY ZenonT(20) DEF WriterTakes, attachVars, clientVars
  <1>2. WritersTypes /\ frames[c] \in Seq(Envelopes) /\ received[c] \in Seq(Envelopes)
    BY ZenonT(20), QueueTypes DEF WritersInv
  <1>3. Head(frames[c]) \in Envelopes /\ Tail(frames[c]) \in Seq(Envelopes)
    BY ZenonT(20), <1>1, <1>2, TakeFacts
  <1>4. <<Head(frames[c])>> \in Seq(Envelopes)
    BY <1>3
  <1>5. /\ frames' \in [Channels -> Seq(Envelopes)] /\ hand' \in [Channels -> Seq(Envelopes)]
        /\ received' \in [Channels -> Seq(Envelopes)] /\ fin' \in [Channels -> BOOLEAN]
        /\ writerOf' \in [Channels -> {"none", "running", "failed", "done"}]
    BY Zenon, <1>1, <1>2, <1>3, <1>4 DEF WritersTypes
  <1>6. \A d \in Channels \ {c} :
            /\ frames'[d] = frames[d] /\ hand'[d] = hand[d] /\ received'[d] = received[d]
            /\ fin'[d] = fin[d] /\ writerOf'[d] = writerOf[d]
    BY Zenon, <1>1, <1>2 DEF WritersTypes
  <1>7. Passed(c)' = Passed(c)
    <2>1. hand'[c] = <<Head(frames[c])>> /\ frames'[c] = Tail(frames[c])
      BY Zenon, <1>1, <1>2 DEF WritersTypes
    <2> DEFINE r == received[c]  q == frames[c]
    <2>2. Passed(c) = (r \o <<>>) \o q /\ Passed(c)' = (r \o <<Head(q)>>) \o Tail(q)
      BY ZenonT(20), <1>1, <2>1 DEF Passed
    <2>3. r \in Seq(Envelopes) /\ q \in Seq(Envelopes) /\ q # <<>>
      BY Zenon, <1>1, <1>2
    <2> HIDE DEF r, q
    <2>4. r \o <<>> = r
      BY <2>3
    <2>5. (r \o <<Head(q)>>) \o Tail(q) = r \o q
      BY Zenon, <2>3, JoinMove
    <2> QED
      BY ZenonT(20), <2>2, <2>4, <2>5
  <1>8. FlowInv(c)'
    BY ZenonT(20), <1>1, <1>7 DEF WritersInv, ChannelInv, FlowInv
  <1> QED
    BY ZenonT(60), <1>1, <1>5, <1>6, <1>8, WriterKeeps

\* A write that succeeds keeps the invariant.
LEMMA WriterWritesKeeps ==
    ASSUME WritersInv, NEW c \in Channels, WriterWrites(c)
    PROVE  WritersInv'
  <1>1. /\ writerOf[c] = "running"
        /\ received' = [received EXCEPT ![c] = @ \o hand[c]]
        /\ hand' = [hand EXCEPT ![c] = <<>>]
        /\ UNCHANGED <<sessionState, nextChannel, mutex, events, printed, forwarder, out,
                       routed, known, entered, closing, writerOf, frames, fin>>
    BY Zenon DEF WriterWrites, attachVars, queueVars
  <1> DEFINE p == received[c] \o hand[c]
  <1>2. /\ WritersTypes /\ frames[c] \in Seq(Envelopes) /\ p \in Seq(Envelopes)
        /\ Passed(c) \in Seq(Envelopes) /\ entered[c] \in Seq(Envelopes)
    BY Zenon, QueueTypes DEF WritersInv
  <1>3. received'[c] = p /\ hand'[c] = <<>> /\ Passed(c) = p \o frames[c]
    BY Zenon, <1>1, <1>2 DEF WritersTypes, Passed
  <1>4. /\ frames' \in [Channels -> Seq(Envelopes)] /\ hand' \in [Channels -> Seq(Envelopes)]
        /\ received' \in [Channels -> Seq(Envelopes)] /\ fin' \in [Channels -> BOOLEAN]
        /\ writerOf' \in [Channels -> {"none", "running", "failed", "done"}]
    <2>1. <<>> \in Seq(Envelopes)
      OBVIOUS
    <2>2. received' \in [Channels -> Seq(Envelopes)]
      BY Zenon, <1>1, <1>2 DEF WritersTypes
    <2> QED
      BY Zenon, <1>1, <1>2, <2>1, <2>2 DEF WritersTypes
  <1>5. \A d \in Channels \ {c} :
            /\ frames'[d] = frames[d] /\ hand'[d] = hand[d] /\ received'[d] = received[d]
            /\ fin'[d] = fin[d] /\ writerOf'[d] = writerOf[d]
    BY Zenon, <1>1, <1>2 DEF WritersTypes
  <1>6. Passed(c)' = (p \o <<>>) \o frames[c]
    BY ZenonT(20), <1>1, <1>3 DEF Passed
  <1> HIDE DEF p
  <1>7. p \o <<>> = p
    BY <1>2
  <1>8. Passed(c)' = Passed(c)
    BY Zenon, <1>3, <1>6, <1>7
  <1>9. Told(p, entered[c])
    <2>1. Begins(p, Passed(c))
      BY ZenonT(20), <1>2, <1>3, BeginsJoin
    <2>2. Told(Passed(c), entered[c])
      <3>1. CASE closing[c]
        BY ZenonT(20), <1>1, <3>1 DEF WritersInv, ChannelInv, FlowInv
      <3>2. CASE ~closing[c]
        <4>1. Intact(Passed(c), routed, out, c, entered[c], sessionState # "closed")
          BY ZenonT(60), <1>1, <3>2 DEF WritersInv, ChannelInv, FlowInv
        <4>2. Begins(Passed(c), entered[c])
          BY ZenonT(60), <1>2, <4>1, IntactBegins
        <4> QED
          BY Zenon, <1>2, <4>2, BeginsTold
      <3> QED
        BY Zenon, <3>1, <3>2
    <2> QED
      BY Zenon, <1>2, <2>1, <2>2, ToldShorter
  <1>10. ~fin[c]
    BY ZenonT(60), <1>1 DEF WritersInv, ChannelInv, FlowInv
  <1>11. FlowInv(c)'
    BY ZenonT(20), <1>1, <1>3, <1>8, <1>9, <1>10 DEF WritersInv, ChannelInv, FlowInv
  <1> QED
    BY ZenonT(20), <1>1, <1>4, <1>5, <1>11, WriterKeeps

\* A write that fails keeps the invariant.
LEMMA WriterFailsKeeps ==
    ASSUME WritersInv, NEW c \in Channels, WriterFails(c)
    PROVE  WritersInv'
  <1>1. /\ writerOf[c] = "running" /\ writerOf' = [writerOf EXCEPT ![c] = "failed"]
        /\ hand' = [hand EXCEPT ![c] = <<>>]
        /\ UNCHANGED <<sessionState, nextChannel, mutex, events, printed, forwarder, out,
                       routed, known, entered, closing, received, frames, fin>>
    BY Zenon DEF WriterFails, attachVars, queueVars, clientVars
  <1>2. WritersTypes /\ <<>> \in Seq(Envelopes)
    BY DEF WritersInv
  <1>3. /\ frames' \in [Channels -> Seq(Envelopes)] /\ hand' \in [Channels -> Seq(Envelopes)]
        /\ received' \in [Channels -> Seq(Envelopes)] /\ fin' \in [Channels -> BOOLEAN]
        /\ writerOf' \in [Channels -> {"none", "running", "failed", "done"}]
    BY Zenon, <1>1, <1>2 DEF WritersTypes
  <1>4. \A d \in Channels \ {c} :
            /\ frames'[d] = frames[d] /\ hand'[d] = hand[d] /\ received'[d] = received[d]
            /\ fin'[d] = fin[d] /\ writerOf'[d] = writerOf[d]
    BY Zenon, <1>1, <1>2 DEF WritersTypes
  <1>5. writerOf'[c] = "failed"
    BY Zenon, <1>1, <1>2 DEF WritersTypes
  <1>6. FlowInv(c)'
    BY ZenonT(20), <1>1, <1>5 DEF WritersInv, ChannelInv, FlowInv
  <1> QED
    BY ZenonT(20), <1>1, <1>3, <1>4, <1>5, <1>6, WriterKeeps

\* The end of a writer keeps the invariant.
LEMMA WriterEndsKeeps ==
    ASSUME WritersInv, NEW c \in Channels, WriterEnds(c)
    PROVE  WritersInv'
  <1>1. /\ writerOf[c] = "running" /\ writerOf' = [writerOf EXCEPT ![c] = "done"]
        /\ hand[c] = <<>> /\ frames[c] = <<>> /\ closing[c]
        /\ fin' = [fin EXCEPT ![c] = TRUE]
        /\ UNCHANGED <<sessionState, nextChannel, mutex, events, printed, forwarder, out,
                       routed, known, entered, closing, received, frames, hand>>
    BY ZenonT(20) DEF WriterEnds, attachVars, queueVars
  <1>2. WritersTypes /\ received[c] \in Seq(Envelopes)
    BY Zenon, QueueTypes DEF WritersInv
  <1>3. /\ frames' \in [Channels -> Seq(Envelopes)] /\ hand' \in [Channels -> Seq(Envelopes)]
        /\ received' \in [Channels -> Seq(Envelopes)] /\ fin' \in [Channels -> BOOLEAN]
        /\ writerOf' \in [Channels -> {"none", "running", "failed", "done"}]
    BY Zenon, <1>1, <1>2 DEF WritersTypes
  <1>4. \A d \in Channels \ {c} :
            /\ frames'[d] = frames[d] /\ hand'[d] = hand[d] /\ received'[d] = received[d]
            /\ fin'[d] = fin[d] /\ writerOf'[d] = writerOf[d]
    BY Zenon, <1>1, <1>2 DEF WritersTypes
  <1>5. writerOf'[c] = "done"
    BY Zenon, <1>1, <1>2 DEF WritersTypes
  <1>6. Passed(c) = received[c]
    <2> DEFINE r == received[c]
    <2>1. Passed(c) = (r \o <<>>) \o <<>> /\ r \in Seq(Envelopes)
      BY Zenon, <1>1, <1>2 DEF Passed
    <2> HIDE DEF r
    <2>2. (r \o <<>>) \o <<>> = r
      BY <2>1
    <2> QED
      BY Zenon, <2>1, <2>2 DEF r
  <1>7. sessionState = "closed" \/ Overloaded(received[c])
    BY ZenonT(60), <1>1, <1>6 DEF WritersInv, ChannelInv, FlowInv
  <1>8. FlowInv(c)'
    BY ZenonT(20), <1>1, <1>5, <1>7 DEF WritersInv, ChannelInv, FlowInv
  <1> QED
    BY ZenonT(20), <1>1, <1>3, <1>4, <1>5, <1>8, WriterKeeps

\* The end of a session.
LEMMA FinishReadersKeeps == WritersInv /\ FinishReaders => WritersInv'
  <1> SUFFICES ASSUME WritersInv, FinishReaders PROVE WritersInv'
    BY Zenon
  <1>1. /\ sessionState = "open" /\ sessionState' = "closing" /\ mutex' = Idle
        /\ UNCHANGED <<nextChannel, events, printed, forwarder, out, routed, writerOf, known,
                       frames, hand, received, entered, closing, fin>>
    BY Zenon DEF FinishReaders, queueVars, clientVars
  <1>2. mutex' \in [channel : Nat, reply : Envelopes]
    <2>1. Idle.channel = 0 /\ Idle.reply \in Envelopes
          /\ Idle = [channel |-> Idle.channel, reply |-> Idle.reply]
      BY Zenon, EnvelopeFacts DEF Idle
    <2> QED
      BY <1>1, <2>1
  <1>3. WritersTypes'
    BY Zenon, <1>1, <1>2 DEF WritersInv, WritersTypes
  <1>4. Speakers'
    BY Zenon, <1>1 DEF WritersInv, Speakers
  <1>5. \A d \in Channels : ChannelInv(d)'
    <2>1. sessionState' = "closed" <=> sessionState = "closed"
      BY Zenon, <1>1
    <2> QED
      BY Zenon, <1>1, <2>1, QuietKeeps
  <1> QED
    BY Zenon, <1>3, <1>4, <1>5 DEF WritersInv

\* The end of the adapter keeps the invariant.
LEMMA FinishAdapterKeeps == WritersInv /\ FinishAdapter => WritersInv'
  <1> SUFFICES ASSUME WritersInv, FinishAdapter PROVE WritersInv'
    BY Zenon
  <1>1. /\ sessionState = "closing" /\ sessionState' = "closed" /\ out' = <<>>
        /\ forwarder' = [c \in Channels |-> IF forwarder[c] = "none" THEN "none" ELSE "done"]
        /\ UNCHANGED <<nextChannel, mutex, events, printed, routed, writerOf, known,
                       frames, hand, received, entered, closing, fin>>
    BY Zenon DEF FinishAdapter, queueVars, clientVars
  <1>2. WritersTypes
    BY Zenon DEF WritersInv
  <1>3. WritersTypes'
    <2>1. out' \in Seq(Framings)
      BY <1>1
    <2>2. forwarder' \in [Channels -> {"none", "running", "exited", "done"}]
      BY Zenon, <1>1
    <2> QED
      BY Zenon, <1>1, <1>2, <2>1, <2>2 DEF WritersTypes
  <1>4. Speakers'
    BY Zenon, <1>1 DEF WritersInv, Speakers
  <1>5. ASSUME NEW d \in Channels PROVE ChannelInv(d)'
    <2>1. ChannelInv(d)
      BY Zenon DEF WritersInv
    <2>2. Passed(d)' = Passed(d) /\ Passed(d) \in Seq(Envelopes)
      BY ZenonT(60), <1>1, <1>2, QueueTypes DEF Passed
    <2>3. Ordered(d, out', routed', nextChannel', writerOf'[d])
      BY ZenonT(20), <1>1, <2>1, OrderedCloses DEF ChannelInv
    <2>4. (sessionState # "closed") = TRUE /\ (sessionState' # "closed") = FALSE
      BY Zenon, <1>1
    <2>5. Intact(Passed(d), routed, out, d, entered[d], TRUE)
          => Intact(Passed(d), routed, <<>>, d, entered[d], FALSE)
      BY ZenonT(20), <2>2, IntactCloses
    <2>6. FlowInv(d)'
      BY ZenonT(20), <1>1, <2>1, <2>2, <2>4, <2>5 DEF ChannelInv, FlowInv
    <2> QED
      BY ZenonT(60), <1>1, <2>1, <2>3, <2>6 DEF ChannelInv
  <1> QED
    BY Zenon, <1>3, <1>4, <1>5 DEF WritersInv

\* The end of the router keeps the invariant.
LEMMA RouterEndsKeeps == WritersInv /\ RouterEnds => WritersInv'
  <1> SUFFICES ASSUME WritersInv, RouterEnds PROVE WritersInv'
    BY Zenon
  <1>1. /\ sessionState = "closed"
        /\ closing' = [c \in Channels |-> closing[c] \/ c \in known]
        /\ UNCHANGED <<sessionState, nextChannel, mutex, events, printed, forwarder, out,
                       routed, writerOf, known, frames, hand, received, entered, fin>>
    BY Zenon DEF RouterEnds, attachVars, clientVars
  <1>2. WritersTypes
    BY Zenon DEF WritersInv
  <1>3. WritersTypes'
    <2>1. closing' \in [Channels -> BOOLEAN]
      BY <1>1, <1>2, ZenonT(20) DEF WritersTypes
    <2> QED
      BY Zenon, <1>1, <1>2, <2>1 DEF WritersTypes
  <1>4. Speakers'
    BY Zenon, <1>1 DEF WritersInv, Speakers
  <1>5. ASSUME NEW d \in Channels PROVE ChannelInv(d)'
    <2>1. ChannelInv(d)
      BY Zenon DEF WritersInv
    <2>2. /\ Passed(d)' = Passed(d) /\ Passed(d) \in Seq(Envelopes)
          /\ entered[d] \in Seq(Envelopes)
      BY ZenonT(20), <1>1, <1>2, QueueTypes DEF Passed
    <2>3. closing[d] => closing'[d]
      BY ZenonT(20), <1>1
    <2>4. Intact(Passed(d), routed, out, d, entered[d], sessionState # "closed")
          => Told(Passed(d), entered[d])
      BY Zenon, <2>2, IntactBegins, BeginsTold
    <2>5. FlowInv(d)'
      BY ZenonT(20), <1>1, <2>1, <2>2, <2>3, <2>4 DEF ChannelInv, FlowInv
    <2> QED
      BY ZenonT(60), <1>1, <2>1, <2>5 DEF ChannelInv
  <1> QED
    BY Zenon, <1>3, <1>4, <1>5 DEF WritersInv

\* Every step keeps the invariant of the writers.
LEMMA WritersNextInv == WritersInv /\ [WritersNext]_writersVars => WritersInv'
  <1> SUFFICES ASSUME WritersInv, [WritersNext]_writersVars PROVE WritersInv'
    BY Zenon
  <1>1. CASE UNCHANGED writersVars
    <2>1. UNCHANGED <<sessionState, nextChannel, mutex, events, printed, forwarder, out,
                      routed, writerOf, known, frames, hand, received, entered, closing, fin>>
      BY Zenon, <1>1 DEF writersVars, attachVars, queueVars, clientVars
    <2>2. WritersTypes' /\ Speakers'
      BY Zenon, <2>1 DEF WritersInv, WritersTypes, Speakers
    <2>3. \A c \in Channels : ChannelInv(c)'
      BY Zenon, <2>1, QuietKeeps
    <2> QED
      BY Zenon, <2>2, <2>3 DEF WritersInv
  <1>2. CASE ClientActs \/ ShellActs
    BY Zenon, <1>2, RegisterKeeps, DispatchKeeps, ShellKeeps DEF ClientActs, ShellActs
  <1>3. CASE Tasks
    BY Zenon, <1>3, ReplyKeeps, AdaptKeeps, RouteRegisterKeeps, RouteFrameKeeps, ForwardKeeps,
       WriterTakesKeeps, WriterEndsKeeps DEF Tasks
  <1>4. ASSUME NEW c \in Channels, WriterWrites(c) \/ WriterFails(c)
        PROVE  WritersInv'
    BY Zenon, <1>4, WriterWritesKeeps, WriterFailsKeeps
  <1>5. CASE FinishReaders \/ FinishAdapter \/ RouterEnds
    BY Zenon, <1>5, FinishReadersKeeps, FinishAdapterKeeps, RouterEndsKeeps
  <1> QED
    BY Zenon, <1>1, <1>2, <1>3, <1>4, <1>5 DEF WritersNext

\* What a client reads on a channel of a WebTransport session is what was said
\* on it, in order and without a gap, for every channel the client does not
\* see cut (webtransport.rs: the forwarders, the router and the writers).
THEOREM ChannelsAreGapless == WritersSpec => []Gapless
  <1>1. WritersSpec => []WritersInv
    BY WritersInitInv, WritersNextInv, PTL DEF WritersSpec
  <1>2. WritersInv => Gapless
    BY ZenonT(20) DEF WritersInv, ChannelInv, FlowInv, Told, Gapless
  <1> QED
    BY <1>1, <1>2, PTL

-----------------------------------------------------------------------------
(* The control stream of an agent.                                         *)

Lengths  == [half : {"length"}]
Payloads == [half : {"payload"}, id : Nat, user : OpenUsers, key : AgentKeys, grant : OpenGrants]
Responses == [id : Nat, shell : Nat]
CallRecords == [id : Nat, user : OpenUsers \cup {""}, key : AgentKeys \cup {""}]
ShellRecords == [id : Nat, owner : OpenUsers, key : AgentKeys, sub : OpenUsers, running : BOOLEAN]

\* Types of the control stream's variables.
ControlTypes ==
    /\ linked \in BOOLEAN /\ headRead \in BOOLEAN
    /\ call \in CallRecords
    /\ nextId \in Nat /\ made \in Nat
    /\ toAgent \in Seq(Lengths \cup Payloads)
    /\ toGateway \in Seq(Responses)
    /\ shells \subseteq ShellRecords
    /\ answers \subseteq [call : CallRecords, shell : Nat]

\* A frame's halves travel together; a stream without a link is empty.
Paired ==
    /\ headRead => toAgent # <<>> /\ toAgent[1].half = "payload"
    /\ \A i \in 1 .. Len(toAgent) : toAgent[i].half = "length" =>
           i < Len(toAgent) /\ toAgent[i + 1].half = "payload"
    /\ ~linked => toAgent = <<>> /\ toGateway = <<>> /\ ~headRead

\* Request ids of this link, in whatever state their request is, were given
\* out by its counter.
Numbered ==
    /\ call.id < nextId
    /\ \A i \in 1 .. Len(toAgent) : toAgent[i].half = "payload" => toAgent[i].id < nextId
    /\ \A i \in 1 .. Len(toGateway) : toGateway[i].id < nextId

\* Shells are numbered apart.
OneShell ==
    /\ \A s \in shells : s.id \in 1 .. made
    /\ \A s, t \in shells : s.id = t.id => s.owner = t.owner /\ s.key = t.key
    /\ \A a \in answers : a.shell \in 1 .. made

\* What is under way with the id of the call is the call's own.
CallMatched ==
    call # NoCall =>
        /\ \A i \in 1 .. Len(toAgent) :
               toAgent[i].half = "payload" /\ toAgent[i].id = call.id
                   => toAgent[i].user = call.user /\ toAgent[i].key = call.key
        /\ \A i \in 1 .. Len(toGateway) :
               toGateway[i].id = call.id /\ toGateway[i].shell # 0
                   => \E s \in shells : /\ s.id = toGateway[i].shell
                                        /\ s.owner = call.user /\ s.key = call.key

ControlInv == ControlTypes /\ Paired /\ Numbered /\ OneShell /\ CallMatched /\ AnswerIsMine

\* What Head and Tail of a sequence that is not empty are.
LEMMA RestOfQueue ==
    ASSUME NEW S, NEW q \in Seq(S), q # <<>>
    PROVE  /\ Tail(q) \in Seq(S) /\ Len(Tail(q)) = Len(q) - 1 /\ Len(q) > 0
           /\ Head(q) = q[1] /\ q[1] \in S
           /\ \A i \in 1 .. Len(Tail(q)) : Tail(q)[i] = q[i + 1]
  OBVIOUS

\* Payloads have numbers as ids.
LEMMA PayloadIds ==
    ASSUME NEW q \in Seq(Lengths \cup Payloads)
    PROVE  \A i \in 1 .. Len(q) : q[i].half = "payload" => q[i].id \in Nat
<1>1. \A i \in 1 .. Len(q) : q[i] \in Lengths \cup Payloads
    OBVIOUS
<1>2. "length" # "payload"
    OBVIOUS
<1> QED BY Zenon, <1>1, <1>2 DEF Lengths, Payloads

\* One is an index of a stream that is not empty.
LEMMA FirstIndex ==
    ASSUME NEW q \in Seq(Lengths \cup Payloads), q # <<>>
    PROVE  1 \in 1 .. Len(q)
  OBVIOUS

\* What is below a counter stays below it, and the counter's own number was
\* not used.
LEMMA Below == \A a, b \in Nat : b < b + 1 /\ (a < b => a < b + 1 /\ a # b)
  OBVIOUS

\* Numbers given out stay within the count, and the next one is none of them.
LEMMA Between == \A m \in Nat : \A a \in 1 .. m : a \in 1 .. (m + 1) /\ a # m + 1
  OBVIOUS

\* The index after one that is not the last.
LEMMA InnerIndex ==
    ASSUME NEW n \in Nat, NEW i \in 1 .. n, i < n
    PROVE  i + 1 \in 1 .. n
  OBVIOUS

\* Responses have numbers as ids and shells.
LEMMA ResponseIds ==
    ASSUME NEW q \in Seq(Responses)
    PROVE  \A i \in 1 .. Len(q) : q[i].id \in Nat /\ q[i].shell \in Nat
<1>1. \A i \in 1 .. Len(q) : q[i] \in Responses
    OBVIOUS
<1> QED BY Zenon, <1>1 DEF Responses

\* The invariant of the control stream holds at the start.
LEMMA ControlInitInv == ControlInit => ControlInv
<1> SUFFICES ASSUME ControlInit PROVE ControlInv
    BY Zenon
<1>1. /\ linked = TRUE /\ headRead = FALSE /\ call = NoCall /\ nextId = 1 /\ made = 0
      /\ toAgent = <<>> /\ toGateway = <<>> /\ shells = {} /\ answers = {}
    BY Zenon DEF ControlInit
<1>2. NoCall \in CallRecords /\ NoCall.id = 0
    BY Zenon DEF NoCall, CallRecords
<1>3. ControlTypes
  <2>1. <<>> \in Seq(Lengths \cup Payloads) /\ <<>> \in Seq(Responses)
    OBVIOUS
  <2> QED BY ZenonT(20), <1>1, <1>2, <2>1 DEF ControlTypes
<1>4. Paired
    BY <1>1 DEF Paired
<1>5. Numbered
    BY <1>1, <1>2 DEF Numbered
<1>6. OneShell /\ CallMatched /\ AnswerIsMine
    BY Zenon, <1>1 DEF OneShell, CallMatched, AnswerIsMine
<1> QED BY Zenon, <1>3, <1>4, <1>5, <1>6 DEF ControlInv

\* A call goes out under a number no request of this link has.
LEMMA OpensKeeps ==
    ASSUME ControlInv, NEW u \in OpenUsers, NEW k \in AgentKeys, NEW g \in OpenGrants,
           AgentOpens(u, k, g)
    PROVE  ControlInv'
<1> DEFINE head == [half |-> "length"]
           body == [half |-> "payload", id |-> nextId, user |-> u, key |-> k, grant |-> g]
           n == Len(toAgent)
<1>0. ControlTypes /\ Paired /\ Numbered /\ OneShell /\ CallMatched /\ AnswerIsMine
    BY Zenon DEF ControlInv
<1>1. /\ linked /\ call' = [id |-> nextId, user |-> u, key |-> k] /\ nextId' = nextId + 1
      /\ toAgent' = toAgent \o <<head, body>>
      /\ UNCHANGED <<linked, toGateway, headRead, shells, made, answers>>
    BY Zenon DEF AgentOpens
<1>2. head \in Lengths \cup Payloads /\ body \in Lengths \cup Payloads
    BY Zenon, <1>0 DEF Lengths, Payloads, ControlTypes
<1>3. toAgent \in Seq(Lengths \cup Payloads) /\ nextId \in Nat
    BY Zenon, <1>0 DEF ControlTypes
<1>4. body.half = "payload" /\ body.id = nextId /\ body.user = u /\ body.key = k /\ head.half = "length"
    BY Zenon
<1> HIDE DEF head, body
<1>5. /\ toAgent' \in Seq(Lengths \cup Payloads) /\ Len(toAgent') = n + 2
      /\ \A i \in 1 .. n : toAgent'[i] = toAgent[i]
      /\ toAgent'[n + 1] = head /\ toAgent'[n + 2] = body /\ toAgent' # <<>> /\ n \in Nat
    BY <1>1, <1>2, <1>3
<1> HIDE DEF n
<1>6. \A i \in 1 .. Len(toAgent') : i \in 1 .. n \/ i = n + 1 \/ i = n + 2
    BY <1>5
<1>7. call'.id = nextId /\ call'.user = u /\ call'.key = k /\ call' \in CallRecords
    BY ZenonT(20), <1>1, <1>3 DEF CallRecords
<1>8. ControlTypes'
    BY <1>0, <1>1, <1>5, <1>7 DEF ControlTypes
<1>9. Paired'
  <2>1. \A i \in 1 .. Len(toAgent)' : toAgent'[i].half = "length" =>
            i < Len(toAgent)' /\ toAgent'[i + 1].half = "payload"
    <3> SUFFICES ASSUME NEW i \in 1 .. Len(toAgent'), toAgent'[i].half = "length"
                 PROVE  i < Len(toAgent') /\ toAgent'[i + 1].half = "payload"
        BY Zenon
    <3>1. CASE i \in 1 .. n
      <4>1. i < Len(toAgent) /\ toAgent[i + 1].half = "payload"
          BY Zenon, <1>0, <1>5, <3>1 DEF Paired, n
      <4>2. i + 1 \in 1 .. n
          BY Zenon, <3>1, <4>1, <1>5, InnerIndex DEF n
      <4> QED BY <1>5, <3>1, <4>1, <4>2
    <3>2. CASE i = n + 1
        BY <1>4, <1>5, <3>2
    <3>3. CASE i = n + 2
        BY Zenon, <1>4, <1>5, <3>3
    <3> QED BY Zenon, <1>6, <3>1, <3>2, <3>3
  <2>2. headRead' => toAgent' # <<>> /\ toAgent'[1].half = "payload"
    <3>1. headRead => 1 \in 1 .. n /\ toAgent[1].half = "payload"
        BY Zenon, <1>0, <1>3, FirstIndex DEF Paired, n
    <3> QED BY Zenon, <1>1, <1>5, <3>1
  <2> QED BY Zenon, <1>1, <2>1, <2>2 DEF Paired
<1>10. Numbered'
  <2>1. \A i \in 1 .. Len(toAgent') : toAgent'[i].half = "payload" => toAgent'[i].id < nextId'
    <3>1. \A i \in 1 .. n : toAgent[i].half = "payload" => toAgent[i].id < nextId
        BY Zenon, <1>0 DEF Numbered, n
    <3>2. \A i \in 1 .. n : toAgent[i].half = "payload" => toAgent[i].id \in Nat
        BY Zenon, <1>3, PayloadIds DEF n
    <3>3. \A i \in 1 .. n : toAgent[i].half = "payload" => toAgent[i].id < nextId + 1
        BY Zenon, <1>3, <3>1, <3>2, Below
    <3>4. body.id < nextId + 1 /\ head.half # "payload"
        BY <1>3, <1>4
    <3> QED BY Zenon, <1>1, <1>5, <1>6, <3>3, <3>4
  <2>2. \A i \in 1 .. Len(toGateway') : toGateway'[i].id < nextId'
    <3>1. \A i \in 1 .. Len(toGateway) : toGateway[i].id < nextId
        BY Zenon, <1>0 DEF Numbered
    <3>2. \A i \in 1 .. Len(toGateway) : toGateway[i].id \in Nat
        BY Zenon, <1>0, ResponseIds DEF ControlTypes
    <3> QED BY Zenon, <1>1, <1>3, <3>1, <3>2, Below
  <2>3. call'.id < nextId'
    BY Zenon, <1>1, <1>3, <1>7, Below
  <2> QED BY Zenon, <2>1, <2>2, <2>3 DEF Numbered
<1>11. OneShell' /\ AnswerIsMine'
    BY Zenon, <1>0, <1>1 DEF OneShell, AnswerIsMine
<1>12. CallMatched'
  <2>1. \A i \in 1 .. n : toAgent[i].half = "payload" => toAgent[i].id # nextId
    <3>1. \A i \in 1 .. n : toAgent[i].half = "payload" => toAgent[i].id < nextId
        BY Zenon, <1>0 DEF Numbered, n
    <3>2. \A i \in 1 .. n : toAgent[i].half = "payload" => toAgent[i].id \in Nat
        BY Zenon, <1>3, PayloadIds DEF n
    <3> QED BY Zenon, <1>3, <3>1, <3>2, Below
  <2>2. \A i \in 1 .. Len(toGateway) : toGateway[i].id # nextId
    <3>1. \A i \in 1 .. Len(toGateway) : toGateway[i].id < nextId
        BY Zenon, <1>0 DEF Numbered
    <3>2. \A i \in 1 .. Len(toGateway) : toGateway[i].id \in Nat
        BY Zenon, <1>0, ResponseIds DEF ControlTypes
    <3> QED BY Zenon, <1>3, <3>1, <3>2, Below
  <2>3. \A i \in 1 .. Len(toAgent') :
            toAgent'[i].half = "payload" /\ toAgent'[i].id = call'.id
                => toAgent'[i].user = call'.user /\ toAgent'[i].key = call'.key
    BY Zenon, <1>4, <1>5, <1>6, <1>7, <2>1
  <2> QED BY Zenon, <1>1, <1>7, <2>2, <2>3 DEF CallMatched
<1> QED BY Zenon, <1>8, <1>9, <1>10, <1>11, <1>12 DEF ControlInv

\* The answer at the head is this call's own or is not taken for it.
LEMMA AnswerKeeps == ASSUME ControlInv, Answer PROVE ControlInv'
<1> DEFINE r == Head(toGateway)
<1>0. ControlTypes /\ Paired /\ Numbered /\ OneShell /\ CallMatched /\ AnswerIsMine
    BY Zenon DEF ControlInv
<1>1. /\ call # NoCall /\ toGateway # <<>>
      /\ toGateway' = Tail(toGateway) /\ call' = NoCall
      /\ UNCHANGED <<linked, nextId, toAgent, headRead, shells, made>>
      /\ answers' = IF r.id = call.id /\ r.shell # 0
                    THEN answers \cup {[call |-> ThisCall, shell |-> r.shell]} ELSE answers
    BY Zenon DEF Answer
<1>2. toGateway \in Seq(Responses) /\ call \in CallRecords /\ nextId \in Nat
    BY Zenon, <1>0 DEF ControlTypes
<1>3. /\ toGateway' \in Seq(Responses) /\ Len(toGateway') = Len(toGateway) - 1
      /\ r = toGateway[1] /\ r \in Responses /\ Len(toGateway) > 0
      /\ \A i \in 1 .. Len(toGateway') : toGateway'[i] = toGateway[i + 1]
    BY Zenon, <1>1, <1>2, RestOfQueue
<1>4. 1 \in 1 .. Len(toGateway) /\ \A i \in 1 .. Len(toGateway') : i + 1 \in 1 .. Len(toGateway)
    BY <1>2, <1>3
<1>5. r.id \in Nat /\ r.shell \in Nat
    BY Zenon, <1>3 DEF Responses
<1> HIDE DEF r
<1>6. ThisCall \in CallRecords /\ ThisCall.user = call.user /\ ThisCall.key = call.key
    BY ZenonT(20), <1>2 DEF ThisCall, CallRecords
<1>7. NoCall \in CallRecords /\ NoCall.id = 0
    BY ZenonT(40) DEF NoCall, CallRecords
<1>8. ControlTypes'
    BY SMTT(20), <1>0, <1>1, <1>3, <1>5, <1>6, <1>7 DEF ControlTypes
<1>9. Paired'
    BY Zenon, <1>0, <1>1 DEF Paired
<1>10. Numbered'
  <2>1. 0 < nextId
    <3>1. call.id \in Nat /\ call.id < nextId
        BY ZenonT(20), <1>0, <1>2 DEF Numbered, CallRecords
    <3> QED BY <1>2, <3>1
  <2>2. \A i \in 1 .. Len(toGateway') : toGateway'[i].id < nextId
    BY Zenon, <1>0, <1>3, <1>4 DEF Numbered
  <2> QED BY Zenon, <1>0, <1>1, <1>7, <2>1, <2>2 DEF Numbered
<1>11. CallMatched'
    BY Zenon, <1>1 DEF CallMatched
<1>12. CASE r.id = call.id /\ r.shell # 0
  <2>1. PICK s \in shells : s.id = r.shell /\ s.owner = call.user /\ s.key = call.key
    BY Zenon, <1>0, <1>1, <1>3, <1>4, <1>12 DEF CallMatched
  <2>2. answers' = answers \cup {[call |-> ThisCall, shell |-> r.shell]}
    BY Zenon, <1>1, <1>12
  <2>3. OneShell'
    <3>1. shells' = shells /\ made' = made
      BY Zenon, <1>1
    <3>2. r.shell \in 1 .. made
      BY Zenon, <1>0, <2>1 DEF OneShell
    <3>3. \A a \in answers' : a \in answers \/ a.shell = r.shell
      BY <2>2
    <3>4. \A a \in answers' : a.shell \in 1 .. made
      BY Zenon, <1>0, <3>2, <3>3 DEF OneShell
    <3> QED BY Zenon, <1>0, <3>1, <3>4 DEF OneShell
  <2>4. AnswerIsMine'
    BY SMTT(20), <1>0, <1>1, <1>6, <2>1, <2>2 DEF OneShell, AnswerIsMine
  <2> QED BY Zenon, <1>8, <1>9, <1>10, <1>11, <2>3, <2>4 DEF ControlInv
<1>13. CASE ~(r.id = call.id /\ r.shell # 0)
  <2>1. answers' = answers
    BY Zenon, <1>1, <1>13
  <2>2. OneShell' /\ AnswerIsMine'
    BY Zenon, <1>0, <1>1, <2>1 DEF OneShell, AnswerIsMine
  <2> QED BY Zenon, <1>8, <1>9, <1>10, <1>11, <2>2 DEF ControlInv
<1> QED BY Zenon, <1>12, <1>13

\* A call that is over leaves the streams as they are.
LEMMA CallOverKeeps ==
    ASSUME ControlInv, call' = NoCall,
           UNCHANGED <<linked, nextId, toAgent, toGateway, headRead, shells, made, answers>>
    PROVE  ControlInv'
<1>0. ControlTypes /\ Paired /\ Numbered /\ OneShell /\ CallMatched /\ AnswerIsMine
    BY Zenon DEF ControlInv
<1>1. NoCall \in CallRecords /\ NoCall.id = 0
    BY ZenonT(20) DEF NoCall, CallRecords
<1>2. call.id \in Nat /\ nextId \in Nat /\ call.id < nextId
    BY ZenonT(20), <1>0 DEF ControlTypes, Numbered, CallRecords
<1>3. ControlTypes'
    BY Zenon, <1>0, <1>1 DEF ControlTypes
<1>4. Numbered'
  <2>1. call'.id < nextId'
    BY <1>1, <1>2
  <2> QED BY Zenon, <1>0, <2>1 DEF Numbered
<1>5. Paired' /\ OneShell' /\ CallMatched' /\ AnswerIsMine'
    BY Zenon, <1>0 DEF Paired, OneShell, CallMatched, AnswerIsMine
<1> QED BY Zenon, <1>3, <1>4, <1>5 DEF ControlInv

\* What a stream gives up leaves the rest of it as it was.
LEMMA ConsumeKeeps ==
    ASSUME ControlInv, toAgent # <<>>, toAgent' = Tail(toAgent), linked, linked' = linked,
           UNCHANGED <<call, nextId>>
    PROVE  /\ toAgent' \in Seq(Lengths \cup Payloads)
           /\ \A i \in 1 .. Len(toAgent') : toAgent'[i].half = "length" =>
                  i < Len(toAgent') /\ toAgent'[i + 1].half = "payload"
           /\ \A i \in 1 .. Len(toAgent') : toAgent'[i].half = "payload" => toAgent'[i].id < nextId'
           /\ call' # NoCall => \A i \in 1 .. Len(toAgent') :
                  toAgent'[i].half = "payload" /\ toAgent'[i].id = call'.id
                      => toAgent'[i].user = call'.user /\ toAgent'[i].key = call'.key
<1>0. ControlTypes /\ Paired /\ Numbered /\ CallMatched
    BY Zenon DEF ControlInv
<1>1. /\ toAgent' \in Seq(Lengths \cup Payloads) /\ Len(toAgent') = Len(toAgent) - 1
      /\ \A i \in 1 .. Len(toAgent') : toAgent'[i] = toAgent[i + 1]
      /\ Len(toAgent) \in Nat
    BY <1>0, RestOfQueue DEF ControlTypes
<1>2. \A i \in 1 .. Len(toAgent') : i + 1 \in 1 .. Len(toAgent)
    BY <1>1
<1>3. \A i \in 1 .. Len(toAgent') : toAgent'[i].half = "length" =>
          i < Len(toAgent') /\ toAgent'[i + 1].half = "payload"
  <2> SUFFICES ASSUME NEW i \in 1 .. Len(toAgent'), toAgent'[i].half = "length"
               PROVE  i < Len(toAgent') /\ toAgent'[i + 1].half = "payload"
      BY Zenon
  <2>1. i + 1 < Len(toAgent) /\ toAgent[i + 1 + 1].half = "payload"
      BY Zenon, <1>0, <1>1, <1>2 DEF Paired
  <2>2. i + 1 \in 1 .. Len(toAgent')
      BY <1>1, <2>1
  <2> QED BY <1>1, <2>1, <2>2
<1>4. \A i \in 1 .. Len(toAgent') : toAgent'[i].half = "payload" => toAgent'[i].id < nextId'
    BY Zenon, <1>0, <1>1, <1>2 DEF Numbered
<1>5. ASSUME call' # NoCall, NEW i \in 1 .. Len(toAgent'),
             toAgent'[i].half = "payload", toAgent'[i].id = call'.id
      PROVE  toAgent'[i].user = call'.user /\ toAgent'[i].key = call'.key
    BY Zenon, <1>0, <1>1, <1>2, <1>5 DEF CallMatched
<1> QED BY ZenonT(20), <1>1, <1>3, <1>4, <1>5

\* A length is followed by its payload.
LEMMA ReadLengthKeeps == ASSUME ControlInv, ReadLength PROVE ControlInv'
<1>0. ControlTypes /\ Paired /\ Numbered /\ OneShell /\ CallMatched /\ AnswerIsMine
    BY Zenon DEF ControlInv
<1>1. /\ linked /\ ~headRead /\ toAgent # <<>> /\ Head(toAgent).half = "length"
      /\ toAgent' = Tail(toAgent) /\ headRead' = TRUE
      /\ UNCHANGED <<linked, call, nextId, toGateway, shells, made, answers>>
    BY Zenon DEF ReadLength
<1>2. toAgent' # <<>> /\ toAgent'[1].half = "payload"
  <2>1. /\ Len(toAgent') = Len(toAgent) - 1 /\ Head(toAgent) = toAgent[1] /\ Len(toAgent) > 0
        /\ Len(toAgent) \in Nat /\ \A i \in 1 .. Len(toAgent') : toAgent'[i] = toAgent[i + 1]
      BY SMTT(20), <1>0, <1>1, RestOfQueue DEF ControlTypes
  <2>2. 1 < Len(toAgent) /\ toAgent[2].half = "payload"
      BY <1>0, <1>1, <2>1 DEF Paired
  <2> QED BY <2>1, <2>2
<1>3. /\ toAgent' \in Seq(Lengths \cup Payloads)
      /\ \A i \in 1 .. Len(toAgent') : toAgent'[i].half = "length" =>
             i < Len(toAgent') /\ toAgent'[i + 1].half = "payload"
      /\ \A i \in 1 .. Len(toAgent') : toAgent'[i].half = "payload" => toAgent'[i].id < nextId'
      /\ call' # NoCall => \A i \in 1 .. Len(toAgent') :
             toAgent'[i].half = "payload" /\ toAgent'[i].id = call'.id
                 => toAgent'[i].user = call'.user /\ toAgent'[i].key = call'.key
    BY ZenonT(20), <1>1, ConsumeKeeps
<1>4. ControlTypes'
    BY Zenon, <1>0, <1>1, <1>3 DEF ControlTypes
<1>5. Paired'
    BY Zenon, <1>1, <1>2, <1>3 DEF Paired
<1>6. Numbered'
    BY Zenon, <1>0, <1>1, <1>3 DEF Numbered
<1>7. CallMatched'
    BY Zenon, <1>0, <1>1, <1>3 DEF CallMatched
<1>8. OneShell' /\ AnswerIsMine'
    BY Zenon, <1>0, <1>1 DEF OneShell, AnswerIsMine
<1> QED BY Zenon, <1>4, <1>5, <1>6, <1>7, <1>8 DEF ControlInv

\* A dropped read leaves the payload at the head of the stream.
LEMMA SelectsOtherKeeps == ASSUME ControlInv, SelectsOther PROVE ControlInv'
<1>0. ControlTypes /\ Paired /\ Numbered /\ OneShell /\ CallMatched /\ AnswerIsMine
    BY Zenon DEF ControlInv
<1>1. /\ linked /\ headRead' = FALSE
      /\ UNCHANGED <<linked, call, nextId, toAgent, toGateway, shells, made, answers>>
    BY Zenon DEF SelectsOther
<1>2. ControlTypes'
    BY ZenonT(20), <1>0, <1>1 DEF ControlTypes
<1>3. Paired'
    BY Zenon, <1>0, <1>1 DEF Paired
<1>4. Numbered' /\ CallMatched'
    BY Zenon, <1>0, <1>1 DEF Numbered, CallMatched
<1>5. OneShell' /\ AnswerIsMine'
    BY Zenon, <1>0, <1>1 DEF OneShell, AnswerIsMine
<1> QED BY Zenon, <1>2, <1>3, <1>4, <1>5 DEF ControlInv

\* A lost link takes both streams with it.
LEMMA UnlinkKeeps ==
    ASSUME ControlInv, Unlink, UNCHANGED <<call, nextId, shells, made, answers>>
    PROVE  ControlInv'
<1>0. ControlTypes /\ Paired /\ Numbered /\ OneShell /\ CallMatched /\ AnswerIsMine
    BY Zenon DEF ControlInv
<1>1. /\ linked' = FALSE /\ headRead' = FALSE /\ toAgent' = <<>> /\ toGateway' = <<>>
      /\ UNCHANGED <<call, nextId, shells, made, answers>>
    BY Zenon DEF Unlink
<1>2. <<>> \in Seq(Lengths \cup Payloads) /\ <<>> \in Seq(Responses)
    OBVIOUS
<1>3. ControlTypes'
    BY ZenonT(20), <1>0, <1>1, <1>2 DEF ControlTypes
<1>4. Paired'
    BY SMTT(20), <1>1 DEF Paired
<1>5. Numbered' /\ CallMatched'
    BY <1>0, <1>1 DEF Numbered, CallMatched
<1>6. OneShell' /\ AnswerIsMine'
    BY Zenon, <1>0, <1>1 DEF OneShell, AnswerIsMine
<1> QED BY Zenon, <1>3, <1>4, <1>5, <1>6 DEF ControlInv

\* A new link starts its numbers again over empty streams.
LEMMA RelinkKeeps == ASSUME ControlInv, Relink PROVE ControlInv'
<1>0. ControlTypes /\ Paired /\ Numbered /\ OneShell /\ CallMatched /\ AnswerIsMine
    BY Zenon DEF ControlInv
<1>1. /\ ~linked /\ call = NoCall /\ linked' = TRUE /\ nextId' = 1
      /\ UNCHANGED <<call, toAgent, toGateway, headRead, shells, made, answers>>
    BY Zenon DEF Relink
<1>2. toAgent = <<>> /\ toGateway = <<>> /\ ~headRead
    BY Zenon, <1>0, <1>1 DEF Paired
<1>3. ControlTypes'
    BY Zenon, <1>0, <1>1 DEF ControlTypes
<1>4. Paired'
    BY <1>1, <1>2 DEF Paired
<1>5. Numbered'
  <2>1. NoCall.id = 0
    BY Zenon DEF NoCall
  <2>2. call'.id < nextId'
    BY <1>1, <2>1
  <2> QED BY SMTT(20), <1>1, <1>2, <2>2 DEF Numbered
<1>7. CallMatched'
    BY Zenon, <1>1 DEF CallMatched
<1>6. OneShell' /\ AnswerIsMine'
    BY Zenon, <1>0, <1>1 DEF OneShell, AnswerIsMine
<1> QED BY Zenon, <1>3, <1>4, <1>5, <1>6, <1>7 DEF ControlInv

\* A shell that ends keeps its id, owner and key.
LEMMA AgentShellEndsKeeps ==
    ASSUME ControlInv, NEW s \in AgentRuns, AgentShellEnds(s)
    PROVE  ControlInv'
<1> DEFINE t == [s EXCEPT !.running = FALSE]
<1>0. ControlTypes /\ Paired /\ Numbered /\ OneShell /\ CallMatched /\ AnswerIsMine
    BY Zenon DEF ControlInv
<1>1. /\ shells' = (shells \ {s}) \cup {t} /\ s \in shells
      /\ UNCHANGED <<linked, call, nextId, toAgent, toGateway, headRead, made, answers>>
    BY Zenon DEF AgentShellEnds, AgentRuns
<1>2. s \in ShellRecords
    BY Zenon, <1>0, <1>1 DEF ControlTypes
<1>3. t \in ShellRecords /\ t.id = s.id /\ t.owner = s.owner /\ t.key = s.key
    BY ZenonT(20), <1>2 DEF ShellRecords
<1> HIDE DEF t
<1>4. \A u \in shells' : \E v \in shells : u.id = v.id /\ u.owner = v.owner /\ u.key = v.key
    BY Zenon, <1>1, <1>3
<1>5. \A v \in shells : \E u \in shells' : u.id = v.id /\ u.owner = v.owner /\ u.key = v.key
    BY Zenon, <1>1, <1>3
<1>6. ControlTypes'
    BY Zenon, <1>0, <1>1, <1>3 DEF ControlTypes
<1>7. Paired' /\ Numbered'
    BY Zenon, <1>0, <1>1 DEF Paired, Numbered
<1>8. OneShell'
  <2>1. \A u \in shells' : u.id \in 1 .. made
    BY Zenon, <1>0, <1>4 DEF OneShell
  <2>2. \A u, v \in shells' : u.id = v.id => u.owner = v.owner /\ u.key = v.key
    BY <1>0, <1>4 DEF OneShell
  <2> QED BY Zenon, <1>0, <1>1, <2>1, <2>2 DEF OneShell
<1>9. CallMatched'
  <2>1. ASSUME call' # NoCall, NEW i \in 1 .. Len(toGateway'),
               toGateway'[i].id = call'.id, toGateway'[i].shell # 0
        PROVE  \E u \in shells' : /\ u.id = toGateway'[i].shell
                                  /\ u.owner = call'.user /\ u.key = call'.key
    <3>1. PICK v \in shells : v.id = toGateway[i].shell /\ v.owner = call.user /\ v.key = call.key
        BY Zenon, <1>0, <1>1, <2>1 DEF CallMatched
    <3> QED BY <1>1, <1>5, <3>1
  <2>2. ASSUME call' # NoCall
        PROVE  \A i \in 1 .. Len(toAgent') :
                   toAgent'[i].half = "payload" /\ toAgent'[i].id = call'.id
                       => toAgent'[i].user = call'.user /\ toAgent'[i].key = call'.key
    BY ZenonT(40), <1>0, <1>1, <2>2 DEF CallMatched
  <2> QED BY Zenon, <2>1, <2>2 DEF CallMatched
<1>10. AnswerIsMine'
    BY <1>0, <1>1, <1>4 DEF AnswerIsMine
<1> QED BY Zenon, <1>6, <1>7, <1>8, <1>9, <1>10 DEF ControlInv

\* The answer to the payload just read names no shell, or one of the
\* payload's user and key, found or made.
LEMMA ServesKeeps ==
    ASSUME ControlInv, linked, headRead, linked' = linked, headRead' = FALSE,
           UNCHANGED <<call, nextId, answers>>, toAgent' = Tail(toAgent),
           NEW n \in Nat,
           toGateway' = Append(toGateway, [id |-> Head(toAgent).id, shell |-> n]),
           ControlTypes', OneShell', AnswerIsMine', shells \subseteq shells',
           n # 0 => \E s \in shells' : /\ s.id = n
                                       /\ s.owner = Head(toAgent).user /\ s.key = Head(toAgent).key
    PROVE  ControlInv'
<1> DEFINE r == Head(toAgent)
           m == Len(toGateway)
           new == [id |-> r.id, shell |-> n]
<1>0. ControlTypes /\ Paired /\ Numbered /\ OneShell /\ CallMatched /\ AnswerIsMine
    BY Zenon DEF ControlInv
<1>1. toAgent # <<>> /\ toAgent[1].half = "payload"
    BY Zenon, <1>0 DEF Paired
<1>2. r = toAgent[1] /\ 1 \in 1 .. Len(toAgent)
    BY <1>0, <1>1, RestOfQueue DEF ControlTypes
<1>3. r.half = "payload" /\ r.id < nextId
    BY Zenon, <1>0, <1>1, <1>2 DEF Numbered
<1>4. call # NoCall /\ r.id = call.id => r.user = call.user /\ r.key = call.key
    BY Zenon, <1>0, <1>2, <1>3 DEF CallMatched
<1>5. /\ toAgent' \in Seq(Lengths \cup Payloads)
      /\ \A i \in 1 .. Len(toAgent') : toAgent'[i].half = "length" =>
             i < Len(toAgent') /\ toAgent'[i + 1].half = "payload"
      /\ \A i \in 1 .. Len(toAgent') : toAgent'[i].half = "payload" => toAgent'[i].id < nextId'
      /\ call' # NoCall => \A i \in 1 .. Len(toAgent') :
             toAgent'[i].half = "payload" /\ toAgent'[i].id = call'.id
                 => toAgent'[i].user = call'.user /\ toAgent'[i].key = call'.key
    BY ZenonT(20), <1>1, ConsumeKeeps
<1>6. new.id = r.id /\ new.shell = n
    BY Zenon
<1>7. toGateway' = Append(toGateway, new)
    BY Zenon
<1> HIDE DEF new
<1>8. toGateway \in Seq(Responses)
    BY Zenon, <1>0 DEF ControlTypes
<1>9. /\ m \in Nat /\ Len(toGateway') = m + 1 /\ toGateway'[m + 1] = new
      /\ \A i \in 1 .. m : toGateway'[i] = toGateway[i]
      /\ \A i \in 1 .. Len(toGateway') : i \in 1 .. m \/ i = m + 1
    BY <1>7, <1>8
<1>10. Paired'
    BY ZenonT(20), <1>5 DEF Paired
<1>11. Numbered'
  <2>1. \A i \in 1 .. Len(toGateway') : toGateway'[i].id < nextId
    BY <1>0, <1>3, <1>6, <1>9 DEF Numbered
  <2> QED BY ZenonT(40), <1>0, <1>5, <2>1 DEF Numbered
<1>12. CallMatched'
  <2>1. ASSUME call' # NoCall, NEW i \in 1 .. Len(toGateway'),
               toGateway'[i].id = call'.id, toGateway'[i].shell # 0
        PROVE  \E s \in shells' : /\ s.id = toGateway'[i].shell
                                  /\ s.owner = call'.user /\ s.key = call'.key
    <3>1. CASE i \in 1 .. m
        BY <1>0, <1>9, <2>1, <3>1 DEF CallMatched
    <3>2. CASE i = m + 1
        BY ZenonT(40), <1>4, <1>6, <1>9, <2>1, <3>2
    <3> QED BY ZenonT(40), <1>9, <3>1, <3>2
  <2> QED BY Zenon, <1>5, <2>1 DEF CallMatched
<1> QED BY Zenon, <1>10, <1>11, <1>12 DEF ControlInv

\* serve_next answers with the payload's own shell, in each of its branches.
LEMMA ServeNextKeeps == ASSUME ControlInv, ServeNext PROVE ControlInv'
<1> DEFINE r == Head(toAgent)
<1>0. ControlTypes /\ Paired /\ Numbered /\ OneShell /\ CallMatched /\ AnswerIsMine
    BY Zenon DEF ControlInv
<1>1. /\ linked /\ headRead /\ linked' = linked /\ headRead' = FALSE
      /\ UNCHANGED <<call, nextId, answers>> /\ toAgent' = Tail(toAgent)
    BY Zenon DEF ServeNext
<1>2. toAgent # <<>> /\ r \in Payloads
  <2>1. toAgent # <<>> /\ toAgent[1].half = "payload"
    BY Zenon, <1>0, <1>1 DEF Paired
  <2>2. r = toAgent[1] /\ r \in Lengths \cup Payloads
    BY <1>0, <2>1, RestOfQueue DEF ControlTypes
  <2> QED BY Zenon, <2>1, <2>2 DEF Lengths
<1>3. r.id \in Nat /\ r.user \in OpenUsers /\ r.key \in AgentKeys
    BY Zenon, <1>2 DEF Payloads
<1>4. toAgent' \in Seq(Lengths \cup Payloads)
    BY Zenon, <1>0, <1>1, <1>2, RestOfQueue DEF ControlTypes
<1>5. ASSUME NEW n \in Nat, Reply_(r.id, n), shells' = shells, made' = made,
             n # 0 => \E s \in shells : s.id = n /\ s.owner = r.user /\ s.key = r.key
      PROVE  ControlInv'
  <2>1. toGateway' = Append(toGateway, [id |-> r.id, shell |-> n])
    BY Zenon, <1>5 DEF Reply_
  <2>2. [id |-> r.id, shell |-> n] \in Responses
    BY Zenon, <1>3 DEF Responses
  <2>3. toGateway' \in Seq(Responses)
    BY <1>0, <2>1, <2>2 DEF ControlTypes
  <2>4. ControlTypes'
    BY ZenonT(20), <1>0, <1>1, <1>4, <1>5, <2>3 DEF ControlTypes
  <2>5. OneShell' /\ AnswerIsMine'
    BY Zenon, <1>0, <1>1, <1>5 DEF OneShell, AnswerIsMine
  <2> QED BY ZenonT(20), <1>1, <1>5, <2>1, <2>4, <2>5, ServesKeeps
<1>6. CASE ~validate_open_request(r)
  <2>1. Reply_(r.id, 0) /\ shells' = shells /\ made' = made
    BY Zenon, <1>6 DEF ServeNext
  <2> QED BY Zenon, <1>5, <2>1
<1>7. CASE validate_open_request(r) /\ Existing(r) # {}
  <2> DEFINE e == CHOOSE s \in Existing(r) : TRUE
  <2>1. Reply_(r.id, e.id) /\ shells' = shells /\ made' = made
    BY Zenon, <1>7 DEF ServeNext
  <2>2. e \in Existing(r)
    BY Zenon, <1>7
  <2> HIDE DEF e
  <2>3. e \in shells /\ e.owner = r.user /\ e.key = r.key
    BY Zenon, <2>2 DEF Existing
  <2>4. e.id \in Nat
    BY Zenon, <1>0, <2>3 DEF ControlTypes, ShellRecords
  <2> QED BY Zenon, <1>5, <2>1, <2>3, <2>4
<1>8. CASE validate_open_request(r) /\ Existing(r) = {} /\ Cardinality(AgentRuns) >= MaxShells
  <2>1. Reply_(r.id, 0) /\ shells' = shells /\ made' = made
    BY Zenon, <1>8 DEF ServeNext
  <2> QED BY Zenon, <1>5, <2>1
<1>9. CASE validate_open_request(r) /\ Existing(r) = {} /\ ~(Cardinality(AgentRuns) >= MaxShells)
  <2> DEFINE new == [id |-> made', owner |-> r.user, key |-> r.key,
                     sub |-> r.grant.sub, running |-> TRUE]
  <2>1. made' = made + 1 /\ shells' = shells \cup {new} /\ Reply_(r.id, made')
    BY ZenonT(40), <1>9 DEF ServeNext
  <2>2. made \in Nat /\ made' \in Nat /\ made' # 0 /\ r.grant.sub = r.user
    BY <1>0, <1>9, <2>1 DEF ControlTypes, validate_open_request
  <2>3. /\ new \in ShellRecords /\ new.id = made' /\ new.owner = r.user /\ new.key = r.key
    BY Zenon, <1>3, <2>2 DEF ShellRecords
  <2> HIDE DEF new
  <2>4. toGateway' = Append(toGateway, [id |-> r.id, shell |-> made'])
    BY Zenon, <2>1 DEF Reply_
  <2>5. [id |-> r.id, shell |-> made'] \in Responses
    BY Zenon, <1>3, <2>2 DEF Responses
  <2>6. toGateway' \in Seq(Responses)
    BY SMTT(20), <1>0, <2>4, <2>5 DEF ControlTypes
  <2>7. ControlTypes'
    BY ZenonT(20), <1>0, <1>1, <1>4, <2>1, <2>2, <2>3, <2>6 DEF ControlTypes
  <2>8. \A s \in shells : s.id \in 1 .. made
    BY Zenon, <1>0 DEF OneShell
  <2>9. \A a \in answers : a.shell \in 1 .. made
    BY Zenon, <1>0 DEF OneShell
  <2>10. OneShell'
    <3>0. made' \in 1 .. made'
      BY <2>2
    <3>1. \A s \in shells' : s.id \in 1 .. made'
      BY Zenon, <2>1, <2>2, <2>3, <2>8, <3>0, Between
    <3>2. \A a \in answers' : a.shell \in 1 .. made'
      BY Zenon, <1>1, <2>1, <2>2, <2>9, Between
    <3>3. \A s, t \in shells' : s.id = t.id => s.owner = t.owner /\ s.key = t.key
      <4>1. \A s \in shells : s.id # new.id
        BY Zenon, <2>1, <2>2, <2>3, <2>8, Between
      <4> QED BY ZenonT(40), <1>0, <2>1, <4>1 DEF OneShell
    <3> QED BY Zenon, <3>1, <3>2, <3>3 DEF OneShell
  <2>11. AnswerIsMine'
    <3>1. \A a \in answers : a.shell # new.id
      BY Zenon, <2>1, <2>2, <2>3, <2>9, Between
    <3> QED BY Zenon, <1>0, <1>1, <2>1, <3>1 DEF AnswerIsMine
  <2> QED BY ZenonT(20), <1>1, <2>1, <2>2, <2>3, <2>4, <2>7, <2>10, <2>11, ServesKeeps
<1> QED BY Zenon, <1>6, <1>7, <1>8, <1>9

\* Every step keeps the invariant.
LEMMA ControlNextInv == ControlInv /\ [ControlNext]_controlVars => ControlInv'
<1> SUFFICES ASSUME ControlInv, [ControlNext]_controlVars PROVE ControlInv'
    BY Zenon
<1>1. CASE Answer
    BY Zenon, <1>1, AnswerKeeps
<1>2. CASE CallFails \/ CallDropped
    BY Zenon, <1>2, CallOverKeeps DEF CallFails, CallDropped
<1>3. CASE ReadLength
    BY Zenon, <1>3, ReadLengthKeeps
<1>4. CASE Misreads \/ LoseLink
    BY Zenon, <1>4, UnlinkKeeps DEF Misreads, LoseLink
<1>5. CASE ServeNext
    BY Zenon, <1>5, ServeNextKeeps
<1>6. CASE Relink
    BY Zenon, <1>6, RelinkKeeps
<1>7. ASSUME NEW u \in OpenUsers, NEW k \in AgentKeys, NEW g \in OpenGrants, AgentOpens(u, k, g)
      PROVE  ControlInv'
    BY Zenon, <1>7, OpensKeeps
<1>8. CASE SelectsOther
    BY Zenon, <1>8, SelectsOtherKeeps
<1>9. ASSUME NEW s \in AgentRuns, AgentShellEnds(s) PROVE ControlInv'
    BY Zenon, <1>9, AgentShellEndsKeeps
<1>10. CASE UNCHANGED controlVars
    BY Zenon, <1>10 DEF controlVars, ControlInv, ControlTypes, Paired, Numbered, OneShell, CallMatched,
                 AnswerIsMine
<1> QED BY ZenonT(40), <1>1, <1>2, <1>3, <1>4, <1>5, <1>6, <1>7, <1>8, <1>9, <1>10 DEF ControlNext, ControlStep

\* RegisteredAgent::open_shell gives a caller only a shell made or found for
\* the user and key of its own request, whatever calls were dropped, links
\* lost and numbers begun again before it (crates/gateway/src/lib.rs).
THEOREM AnswersAreMine == ControlSpec => []AnswerIsMine
<1>1. ControlInv => AnswerIsMine
    BY Zenon DEF ControlInv
<1> QED BY <1>1, ControlInitInv, ControlNextInv, PTL DEF ControlSpec

=============================================================================

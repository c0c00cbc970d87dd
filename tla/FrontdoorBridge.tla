-------------------------- MODULE FrontdoorBridge --------------------------
(***************************************************************************)
(* The backend of the shared HTTP/3 front door:                            *)
(* crates/daemon/src/frontdoor_bridge.rs and handle_bridge_session of      *)
(* crates/daemon/src/webtransport.rs.                                      *)
(*                                                                         *)
(* A session is one control connection of the front door, a stream one     *)
(* connection that names the session in its header.  Each connection is    *)
(* handled by its own task; between the lock on the table of entries and   *)
(* the hand-over to the session lies the write of the acknowledgement, and *)
(* meanwhile the session may close and its identity be used again.         *)
(*                                                                         *)
(* The front door is external: it numbers the streams of a session from 1, *)
(* opens one when the one before it has been answered, and closes its      *)
(* control connection once the daemon has let go of it.                    *)
(***************************************************************************)
EXTENDS Naturals, Sequences, FiniteSets

CONSTANTS
    Identities,        \* session_id values
    Sessions,          \* control connections, in the order they are made
    PeerOf,            \* remote_address and channel_binding of a session
    MaximumSessions, MaximumStreams,   \* FrontdoorBridgeConfig
    MaxStreams         \* bound: streams the front door opens in a session

\* Sessions are numbered from 1, and their channel bindings differ.
ASSUME BridgeAssumption ==
    /\ Sessions \subseteq Nat \ {0} /\ MaxStreams \in Nat
    /\ \A g, h \in Sessions : PeerOf[g] = PeerOf[h] => g = h

VARIABLES
    entries,           \* the table: identity -> entry
    session,           \* control connections
    ready,             \* the channel of BridgeSessions
    streams,           \* per session, the channel of its streams
    opened,            \* front door: the number of its last stream
    stream,            \* per session, the handshake of that stream
    served             \* history: streams the session's handler was given

bridgeVars == <<entries, session, ready, streams, opened, stream, served>>

NoEntry == [owner |-> 0, next |-> 0]
Entered == {i \in Identities : entries[i] # NoEntry}
NoStream == [step |-> "none", into |-> 0]

BridgeInit ==
    /\ entries = [i \in Identities |-> NoEntry]
    /\ session = [g \in Sessions |-> [identity |-> 0, step |-> "none", control |-> "shut"]]
    /\ ready = <<>> /\ streams = [g \in Sessions |-> <<>>]
    /\ opened = [g \in Sessions |-> 0] /\ stream = [g \in Sessions |-> NoStream]
    /\ served = [g \in Sessions |-> <<>>]
-----------------------------------------------------------------------------
(* The front door.                                                         *)

OpensSession(g, i) ==
    /\ session[g].step = "none" /\ \A h \in Sessions : h < g => session[h].step # "none"
    /\ session' = [session EXCEPT ![g] = [identity |-> i, step |-> "arrived", control |-> "open"]]
    /\ UNCHANGED <<entries, ready, streams, opened, stream, served>>

Live(g) == session[g].step \in {"queued", "serving", "over"} /\ session[g].control = "open"

OpensStream(g) ==
    /\ Live(g) /\ session[g].step # "over"
    /\ stream[g].step \in {"none", "answered"} /\ opened[g] < MaxStreams
    /\ opened' = [opened EXCEPT ![g] = @ + 1]
    /\ stream' = [stream EXCEPT ![g] = [step |-> "arrived", into |-> 0]]
    /\ UNCHANGED <<entries, session, ready, streams, served>>

\* It closes a session, or ends with the daemon's half.
ClosesControl(g) ==
    /\ session[g].control = "open"
    /\ session' = [session EXCEPT ![g].control = "closed"]
    /\ UNCHANGED <<entries, ready, streams, opened, stream, served>>
-----------------------------------------------------------------------------
(* accept_connection for a session.                                        *)

\* Slots of the channel that are taken: sessions in it, and permits held.
Reserved == Cardinality({g \in Sessions : session[g].step \in {"entered", "queued"}})

\* A slot is reserved, and the entry made.
SessionEnters(g) ==
    /\ session[g].step = "arrived"
    /\ LET i == session[g].identity IN
       IF /\ Reserved < MaximumSessions
          /\ Cardinality(Entered) < MaximumSessions /\ entries[i] = NoEntry
       THEN /\ entries' = [entries EXCEPT ![i] = [owner |-> g, next |-> 1]]
            /\ session' = [session EXCEPT ![g].step = "entered"]
       ELSE /\ session' = [session EXCEPT ![g].step = "refused", ![g].control = "shut"]
            /\ UNCHANGED entries
    /\ UNCHANGED <<ready, streams, opened, stream, served>>

\* The acknowledgement is written and the session handed over; or the write
\* fails, and the entry is removed.
SessionAcked(g) ==
    /\ session[g].step = "entered"
    /\ IF session[g].control = "open"
       THEN /\ session' = [session EXCEPT ![g].step = "queued"]
            /\ ready' = Append(ready, g) /\ UNCHANGED entries
       ELSE /\ session' = [session EXCEPT ![g].step = "refused", ![g].control = "shut"]
            /\ entries' = [entries EXCEPT ![session[g].identity] = NoEntry]
            /\ UNCHANGED ready
    /\ UNCHANGED <<streams, opened, stream, served>>

ControlEnds_keeps(g) ==
    /\ session[g].step \in {"queued", "serving", "over"} /\ session[g].control = "closed"
    /\ session' = [session EXCEPT ![g].control = "shut"]
    /\ UNCHANGED <<entries, ready, streams, opened, stream, served>>
\* The task that reads the control connection: the entry goes, and the
\* session hears that it is closed.
ControlEnds(g) ==
    /\ session[g].step \in {"queued", "serving", "over"} /\ session[g].control = "closed"
    /\ entries' = [entries EXCEPT ![session[g].identity] = NoEntry]
    /\ session' = [session EXCEPT ![g].control = "shut"]
    /\ UNCHANGED <<ready, streams, opened, stream, served>>
-----------------------------------------------------------------------------
(* accept_connection for a stream.                                         *)

Answered(g) == stream' = [stream EXCEPT ![g] = [step |-> "answered", into |-> 0]]
StreamRoom(o) == session[o].step # "over" /\ Len(streams[o]) < MaximumStreams

\* The header must match its session's and carry the next number, which is
\* then used; there must be room, or the stream is refused.
StreamEnters(g) ==
    /\ stream[g].step = "arrived"
    /\ LET i == session[g].identity
           o == entries[i].owner IN
       IF entries[i] = NoEntry \/ PeerOf[o] # PeerOf[g] \/ entries[i].next # opened[g]
       THEN Answered(g) /\ UNCHANGED entries
       ELSE /\ entries' = [entries EXCEPT ![i].next = @ + 1]
            /\ IF StreamRoom(o)
               THEN stream' = [stream EXCEPT ![g] = [step |-> "entered", into |-> o]]
               ELSE Answered(g)
    /\ UNCHANGED <<session, ready, streams, opened, served>>

\* The acknowledgement is written, and the stream sent into the channel it
\* has a permit for.
StreamAcked(g) ==
    /\ stream[g].step = "entered" /\ Answered(g)
    /\ LET o == stream[g].into IN
       streams' = IF session[o].step = "over" THEN streams
                  ELSE [streams EXCEPT ![o] = Append(@, [from |-> g, number |-> opened[g]])]
    /\ UNCHANGED <<entries, session, ready, opened, served>>
-----------------------------------------------------------------------------
(* spawn_accept_loop and handle_bridge_session.                            *)

AcceptsSession ==
    /\ ready # <<>> /\ ready' = Tail(ready)
    /\ session' = [session EXCEPT ![Head(ready)].step = "serving"]
    /\ UNCHANGED <<entries, streams, opened, stream, served>>

accept_bi(g) ==
    /\ session[g].step = "serving" /\ streams[g] # <<>>
    /\ served' = [served EXCEPT ![g] = Append(@, Head(streams[g]))]
    /\ streams' = [streams EXCEPT ![g] = Tail(@)]
    /\ UNCHANGED <<entries, session, ready, opened, stream>>

\* The control connection is closed, or the protocol session is: the
\* BridgeSession is dropped, with what is queued.
SessionEnds(g) ==
    /\ session[g].step = "serving" /\ session' = [session EXCEPT ![g].step = "over"]
    /\ streams' = [streams EXCEPT ![g] = <<>>]
    /\ UNCHANGED <<entries, ready, opened, stream, served>>
-----------------------------------------------------------------------------
BridgeTask(g) == \/ SessionEnters(g) \/ SessionAcked(g) \/ ControlEnds(g)
                 \/ StreamEnters(g) \/ StreamAcked(g)

BridgeNext ==
    \/ AcceptsSession
    \/ \E g \in Sessions :
         \/ BridgeTask(g) \/ accept_bi(g) \/ SessionEnds(g)
         \/ OpensStream(g) \/ ClosesControl(g) \/ \E i \in Identities : OpensSession(g, i)

BridgeSpec == BridgeInit /\ [][BridgeNext]_bridgeVars
-----------------------------------------------------------------------------

\* An entry is that of the one session with its identity whose control task
\* still runs: no task ever removes, or answers for, another session's entry,
\* although all of them find it by identity.
EntryIsMine ==
    /\ \A i \in Entered : /\ session[entries[i].owner].identity = i
                          /\ session[entries[i].owner].control # "shut"
    /\ \A g \in Sessions : session[g].step \in {"queued", "serving"}
            /\ session[g].control # "shut" => entries[session[g].identity].owner = g

\* The bytes of a stream reach the session that it was opened in, each stream
\* once and in order, also when its session closed and its identity was used
\* again while the acknowledgement was written.
StreamsStayHome ==
    \A g \in Sessions :
        LET all == served[g] \o streams[g] IN
        /\ \A k \in 1 .. Len(all) : all[k].from = g
        /\ \A k \in 1 .. Len(all) - 1 : all[k].number < all[k + 1].number

\* The two ends count alike: while the front door waits for no answer the next
\* number it will use is the one the daemon expects, so that a refused stream
\* does not cost the session all later ones.
InStep ==
    \A g \in Sessions :
        session[g].step \in {"queued", "serving"} /\ session[g].control = "open"
            /\ stream[g].step \in {"none", "answered"} =>
                entries[session[g].identity].next = opened[g] + 1

=============================================================================

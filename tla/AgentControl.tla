---------------------------- MODULE AgentControl ----------------------------
(***************************************************************************)
(* The control stream between the gateway and one agent:                   *)
(* RegisteredAgent::open_shell (crates/gateway/src/lib.rs) and             *)
(* RegisteredLink::serve, serve_next (crates/agent/src/lib.rs).            *)
(*                                                                         *)
(* A frame is a length and a payload, read in two steps by read_envelope.  *)
(* serve polls that read in a select! beside the arrival and the end of    *)
(* attachment streams; when another branch wins, the future is dropped and *)
(* what it had read is lost, so that the payload is next taken for a       *)
(* length.  Payloads begin with a request id and are never a length within *)
(* the limit, so that the misread ends the link.                           *)
(***************************************************************************)
EXTENDS Naturals, Sequences, FiniteSets

CONSTANTS
    OpenUsers, AgentKeys,  \* user_id, idempotency_key
    OpenGrants,           \* connection grants, of any issuer
    ThisServer, Audience, \* the agent's server_id and grant_audience
    MaxShells,            \* limit of the local ShellManager
    MaxCalls,             \* bound: open_shell calls
    MaxUpsets             \* bound: losses, streams, dropped calls, exits

VARIABLES
    linked,        \* a registered connection exists
    call,          \* the gateway's open_shell under way
    nextId,        \* RegisteredAgent::next_request_id
    toAgent,       \* the control stream, half-frames
    toGateway,     \* the control stream, responses
    headRead,      \* read_envelope holds a length
    shells,        \* the ShellManager's table, exited shells included
    made,          \* shells made so far
    answers,       \* history: what open_shell returned, for which call
    calls, upsets

controlVars == <<linked, call, nextId, toAgent, toGateway, headRead, shells,
                 made, answers, calls, upsets>>

NoCall == [id |-> 0, user |-> "", key |-> ""]
Request == [id : 1 .. MaxCalls, user : OpenUsers, key : AgentKeys]
ThisCall == [id |-> call.id, user |-> call.user, key |-> call.key]

ControlInit ==
    /\ linked = TRUE /\ call = NoCall /\ nextId = 1
    /\ toAgent = <<>> /\ toGateway = <<>> /\ headRead = FALSE
    /\ shells = {} /\ made = 0 /\ answers = {} /\ calls = 0 /\ upsets = 0
-----------------------------------------------------------------------------
(* The gateway.                                                            *)

AgentOpens(u, k, g) ==
    /\ call = NoCall /\ linked /\ calls < MaxCalls
    /\ call' = [id |-> nextId, user |-> u, key |-> k]
    /\ nextId' = nextId + 1 /\ calls' = calls + 1
    /\ toAgent' = toAgent \o <<[half |-> "length"],
                   [half |-> "payload", id |-> nextId, user |-> u, key |-> k, grant |-> g]>>
    /\ UNCHANGED <<linked, toGateway, headRead, shells, made, answers, upsets>>

\* Mutant of Answer: the response is taken for this request's.
Answer_unmatched ==
    /\ call # NoCall /\ toGateway # <<>>
    /\ toGateway' = Tail(toGateway) /\ call' = NoCall
    /\ answers' = IF Head(toGateway).shell # 0
                  THEN answers \cup {[call |-> ThisCall, shell |-> Head(toGateway).shell]}
                  ELSE answers
    /\ UNCHANGED <<linked, nextId, toAgent, headRead, shells, made, calls, upsets>>
\* The response: a different request's is ServerIdentityMismatch, an
\* AgentError is Remote.
Answer ==
    /\ call # NoCall /\ toGateway # <<>>
    /\ toGateway' = Tail(toGateway) /\ call' = NoCall
    /\ answers' = IF Head(toGateway).id = call.id /\ Head(toGateway).shell # 0
                  THEN answers \cup {[call |-> ThisCall, shell |-> Head(toGateway).shell]}
                  ELSE answers
    /\ UNCHANGED <<linked, nextId, toAgent, headRead, shells, made, calls, upsets>>

CallFails ==
    /\ call # NoCall /\ ~linked /\ call' = NoCall
    /\ UNCHANGED <<linked, nextId, toAgent, toGateway, headRead, shells, made,
                   answers, calls, upsets>>

\* The caller drops the call; its answer stays in the stream.
CallDropped ==
    /\ call # NoCall /\ upsets < MaxUpsets /\ upsets' = upsets + 1
    /\ call' = NoCall
    /\ UNCHANGED <<linked, nextId, toAgent, toGateway, headRead, shells, made,
                   answers, calls>>
-----------------------------------------------------------------------------
(* The agent.                                                              *)

ReadLength ==
    /\ linked /\ ~headRead /\ toAgent # <<>> /\ Head(toAgent).half = "length"
    /\ toAgent' = Tail(toAgent) /\ headRead' = TRUE
    /\ UNCHANGED <<linked, call, nextId, toGateway, shells, made, answers, calls,
                   upsets>>

\* An attachment stream arrives or ends while a frame is half read.
SelectsOther ==
    /\ linked /\ headRead /\ upsets < MaxUpsets /\ upsets' = upsets + 1
    /\ headRead' = FALSE
    /\ UNCHANGED <<linked, call, nextId, toAgent, toGateway, shells, made, answers,
                   calls>>

\* The link is gone, with all it carried.
Unlink ==
    /\ linked' = FALSE /\ headRead' = FALSE
    /\ toAgent' = <<>> /\ toGateway' = <<>>

\* A payload taken for a length is over the limit: serve returns the
\* FrameError, and the link is dropped.
Misreads ==
    /\ linked /\ ~headRead /\ toAgent # <<>> /\ Head(toAgent).half = "payload"
    /\ Unlink
    /\ UNCHANGED <<call, nextId, shells, made, answers, calls, upsets>>

\* The grant is genuine, for this audience, and names the user, the
\* operation and this server.
validate_open_request(r) ==
    /\ r.grant.signed /\ r.grant.aud = Audience
    /\ r.grant.sub = r.user
    /\ "open" \in r.grant.ops /\ ThisServer \in r.grant.servers

AgentRuns == {s \in shells : s.running}
Existing(r) == {s \in shells : s.owner = r.user /\ s.key = r.key}
Reply_(id, shell) == toGateway' = Append(toGateway, [id |-> id, shell |-> shell])

\* serve_next once the payload is there: the request is validated and goes
\* to the manager, which finds the shell of its owner and key or makes one.
ServeNext ==
    /\ linked /\ headRead
    /\ LET r == Head(toAgent) IN
       IF ~validate_open_request(r)
       THEN Reply_(r.id, 0) /\ UNCHANGED <<shells, made>>
       ELSE IF Existing(r) # {}
       THEN /\ Reply_(r.id, (CHOOSE s \in Existing(r) : TRUE).id)
            /\ UNCHANGED <<shells, made>>
       ELSE IF Cardinality(AgentRuns) >= MaxShells
       THEN Reply_(r.id, 0) /\ UNCHANGED <<shells, made>>
       ELSE /\ made' = made + 1
            /\ shells' = shells \cup {[id |-> made', owner |-> r.user, key |-> r.key,
                                       sub |-> r.grant.sub, running |-> TRUE]}
            /\ Reply_(r.id, made')
    /\ toAgent' = Tail(toAgent) /\ headRead' = FALSE
    /\ UNCHANGED <<linked, call, nextId, answers, calls, upsets>>

\* An exited shell keeps its place: a retry of its key finds it.
AgentShellEnds(s) ==
    /\ upsets < MaxUpsets /\ upsets' = upsets + 1
    /\ shells' = (shells \ {s}) \cup {[s EXCEPT !.running = FALSE]}
    /\ UNCHANGED <<linked, call, nextId, toAgent, toGateway, headRead, made, answers,
                   calls>>

LoseLink ==
    /\ linked /\ upsets < MaxUpsets /\ upsets' = upsets + 1
    /\ Unlink
    /\ UNCHANGED <<call, nextId, shells, made, answers, calls>>

\* The supervisor registers again, and the gateway has a new RegisteredAgent.
Relink ==
    /\ ~linked /\ call = NoCall
    /\ linked' = TRUE /\ nextId' = 1
    /\ UNCHANGED <<call, toAgent, toGateway, headRead, shells, made, answers, calls,
                   upsets>>
-----------------------------------------------------------------------------
ControlStep == Answer \/ CallFails \/ ReadLength \/ Misreads \/ ServeNext \/ Relink

ControlNext ==
    \/ ControlStep
    \/ \E u \in OpenUsers, k \in AgentKeys, g \in OpenGrants : AgentOpens(u, k, g)
    \/ CallDropped \/ SelectsOther \/ LoseLink
    \/ \E s \in AgentRuns : AgentShellEnds(s)

ControlSpec == ControlInit /\ [][ControlNext]_controlVars
-----------------------------------------------------------------------------

\* open_shell returns the shell of its own request, never that of an earlier
\* request whose answer was left in the stream: a shell that a call was
\* given has the call's user and key.
AnswerIsMine ==
    \A a \in answers, s \in shells :
        a.shell = s.id => a.call.user = s.owner /\ a.call.key = s.key

=============================================================================

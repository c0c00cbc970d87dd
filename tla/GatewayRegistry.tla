-------------------------- MODULE GatewayRegistry --------------------------
(***************************************************************************)
(* Registration of agents with the gateway: CertificateRegistry and        *)
(* AgentGateway::accept_registration (crates/gateway/src/lib.rs) on one    *)
(* side, AgentConnector::connect and AgentSupervisor::run                  *)
(* (crates/agent/src/lib.rs) on the other.                                 *)
(*                                                                         *)
(* A link is one QUIC connection.  The gateway resolves its certificate    *)
(* when the handshake ends, waits for the registration message, and only   *)
(* then claims the server; the operator may authorise and revoke           *)
(* certificates at any time in between.  The two ends learn that a link is *)
(* gone at different times, so an agent may come back while the gateway    *)
(* still holds its lease.  Slots of links are reused once both ends are done. *)
(***************************************************************************)
EXTENDS Naturals, FiniteSets

CONSTANTS
    Agents,               \* agent processes
    CertOf, NameOf,       \* an agent's leaf certificate, and its server_id
    Links,                \* slots for connections
    MaxIdentities,        \* CertificateRegistry::max_identities
    MaxActive,            \* CertificateRegistry::max_active_agents
    InitialDelay, MaximumDelay,   \* ReconnectPolicy
    MaxLinkFaults,            \* bound: losses and time-outs
    MaxOperations         \* bound: operations of the operator

ASSUME ReconnectPolicyValid ==
    /\ InitialDelay \in Nat \ {0} /\ MaximumDelay \in Nat
    /\ InitialDelay <= MaximumDelay
ASSUME RegistryLimits == MaxIdentities \in Nat \ {0} /\ MaxActive \in Nat \ {0}

VARIABLES
    identities,      \* certificate -> server, or NoServer
    active,          \* servers with a lease
    link,            \* the connections
    agentPhase, delay,    \* AgentSupervisor: where it is, its next pause
    linkFaults, operations

registryVars == <<identities, active>>
gatewayVars == <<identities, active, link, agentPhase, delay, linkFaults, operations>>

NoServer == "no server"
NoAgent == "no agent"
Certs == {CertOf[a] : a \in Agents}
Servers == {NameOf[a] : a \in Agents}

\* The two placeholders, None in the code, are nobody's name.
ASSUME NamesValid == NoServer \notin Servers /\ NoAgent \notin Agents

\* A slot: whose connection it is; up, whether it still carries data;
\* gateway, how far accept_registration is; expected, what resolve returned;
\* answer, the response under way to the agent.  revoked is a history flag:
\* the certificate was revoked since it was resolved.
Unused == [agent |-> NoAgent, up |-> FALSE, gateway |-> "gone",
           expected |-> NoServer, answer |-> "none", revoked |-> FALSE]
Leased == {"claimed", "registered"}
Holds(l) == link[l].gateway \in Leased

GatewayInit ==
    /\ identities = [c \in Certs |-> NoServer] /\ active = {}
    /\ link = [l \in Links |-> Unused]
    /\ agentPhase = [a \in Agents |-> "asleep"]
    /\ delay = [a \in Agents |-> InitialDelay]
    /\ linkFaults = 0 /\ operations = 0
-----------------------------------------------------------------------------
(* CertificateRegistry.                                                    *)

Bound == {c \in Certs : identities[c] # NoServer}

\* authorize_leaf, when it changes the registry; FingerprintRebind and
\* IdentityLimit leave it alone.
authorize_leaf(c, s) ==
    /\ operations < MaxOperations /\ operations' = operations + 1
    /\ identities[c] = NoServer /\ Cardinality(Bound) < MaxIdentities
    /\ identities' = [identities EXCEPT ![c] = s]
    /\ UNCHANGED <<active, link, agentPhase, delay, linkFaults>>

\* revoke: connections that use the certificate are left alone.
revoke(c) ==
    /\ operations < MaxOperations /\ operations' = operations + 1
    /\ identities[c] # NoServer
    /\ identities' = [identities EXCEPT ![c] = NoServer]
    /\ link' = [l \in Links |->
                  IF link[l].agent # NoAgent /\ CertOf[link[l].agent] = c
                  THEN [link[l] EXCEPT !.revoked = TRUE] ELSE link[l]]
    /\ UNCHANGED <<active, agentPhase, delay, linkFaults>>

Claimable_again(s) == Cardinality(active \cup {s}) <= MaxActive
\* claim succeeds: neither AlreadyActive nor ActiveLimit.
Claimable(s) == s \notin active /\ Cardinality(active) < MaxActive
-----------------------------------------------------------------------------
(* AgentConnector::connect and AgentSupervisor::run.                       *)

Min2(a, b) == IF a <= b THEN a ELSE b

\* The pause before the next attempt is over.
Connect(a, l) ==
    /\ agentPhase[a] = "asleep" /\ link[l] = Unused
    /\ \A k \in Links : link[k] = Unused => l <= k
    /\ link' = [link EXCEPT ![l] = [Unused EXCEPT !.agent = a, !.up = TRUE,
                                    !.gateway = "handshake"]]
    /\ agentPhase' = [agentPhase EXCEPT ![a] = "registering"]
    /\ UNCHANGED <<registryVars, delay, linkFaults, operations>>

\* The agent is done with its link; it sleeps, and its next pause doubles.
Sleeps(a, base) ==
    /\ agentPhase' = [agentPhase EXCEPT ![a] = "asleep"]
    /\ delay' = [delay EXCEPT ![a] = Min2(2 * base, MaximumDelay)]

\* A connection its agent has left carries nothing any more; a slot is free
\* again once the gateway has let go of it too.
LeftBy(r) == IF r.gateway = "gone" THEN Unused
             ELSE [r EXCEPT !.agent = NoAgent, !.up = FALSE]

\* connect returns Ok, and the link is served; the pause is reset.
Registered(a, l) ==
    /\ agentPhase[a] = "registering" /\ link[l].agent = a /\ link[l].up
    /\ link[l].answer = "accepted"
    /\ agentPhase' = [agentPhase EXCEPT ![a] = "serving"]
    /\ delay' = [delay EXCEPT ![a] = InitialDelay]
    /\ link' = [link EXCEPT ![l].answer = "none"]
    /\ UNCHANGED <<registryVars, linkFaults, operations>>

\* connect returns Err: rejected, or the connection is gone.
Refused(a, l) ==
    /\ agentPhase[a] = "registering" /\ link[l].agent = a
    /\ link[l].answer = "rejected" \/ ~link[l].up
    /\ link' = [link EXCEPT ![l] = LeftBy(@)]
    /\ Sleeps(a, delay[a])
    /\ UNCHANGED <<registryVars, linkFaults, operations>>

\* serve returns: the connection is gone.
LinkEnds(a, l) ==
    /\ agentPhase[a] = "serving" /\ link[l].agent = a /\ ~link[l].up
    /\ link' = [link EXCEPT ![l] = LeftBy(@)]
    /\ Sleeps(a, delay[a])
    /\ UNCHANGED <<registryVars, linkFaults, operations>>
-----------------------------------------------------------------------------
(* AgentGateway::accept_registration.                                      *)

\* The gateway lets go of its side: a lease that it holds is dropped, and the
\* connection is closed.
GatewayLeaves(l, r) ==
    /\ link' = [link EXCEPT ![l] = IF r.agent = NoAgent THEN Unused ELSE
                   [r EXCEPT !.gateway = "gone", !.up = FALSE]]
    /\ active' = IF Holds(l) THEN active \ {r.expected} ELSE active

\* The handshake is over and resolve has been asked.
Resolve(l) ==
    /\ link[l].gateway = "handshake" /\ link[l].agent # NoAgent
    /\ link' = [link EXCEPT ![l].gateway = "resolved",
                            ![l].expected = identities[CertOf[link[l].agent]],
                            ![l].revoked = FALSE]
    /\ UNCHANGED <<registryVars, agentPhase, delay, linkFaults, operations>>

\* The registration message has come: the certificate must be the claimed
\* server's, and the server is claimed.  A server that is connected already is
\* rejected with an answer; at the limit the connection is dropped without.
Judge(l) ==
    /\ link[l].gateway = "resolved" /\ link[l].up
    /\ LET s == NameOf[link[l].agent] IN
       \/ /\ link[l].expected = s /\ Claimable(s)
          /\ active' = active \cup {s}
          /\ link' = [link EXCEPT ![l].gateway = "claimed"]
       \/ /\ link[l].expected # s \/ s \in active
          /\ link' = [link EXCEPT ![l].gateway = "gone", ![l].answer = "rejected"]
          /\ UNCHANGED active
       \/ /\ link[l].expected = s /\ s \notin active /\ ~Claimable(s)
          /\ GatewayLeaves(l, link[l])
    /\ UNCHANGED <<identities, agentPhase, delay, linkFaults, operations>>

\* The response is written, and the RegisteredAgent owns the lease; a write
\* that fails drops it.
Respond(l) ==
    /\ link[l].gateway = "claimed"
    /\ IF link[l].up
       THEN /\ link' = [link EXCEPT ![l].gateway = "registered",
                                    ![l].answer = "accepted"]
            /\ UNCHANGED active
       ELSE GatewayLeaves(l, link[l])
    /\ UNCHANGED <<identities, agentPhase, delay, linkFaults, operations>>

\* Mutant of Notices: only a registration that is not complete is dropped.
Notices_early(l) ==
    /\ link[l].gateway \in {"handshake", "resolved"} /\ ~link[l].up
    /\ GatewayLeaves(l, link[l])
    /\ UNCHANGED <<identities, agentPhase, delay, linkFaults, operations>>
\* The gateway finds the connection gone: a read fails, or the transport's
\* idle time-out passes, and the RegisteredAgent is dropped.
Notices(l) ==
    /\ link[l].gateway \in {"handshake", "resolved", "registered"} /\ ~link[l].up
    /\ GatewayLeaves(l, link[l])
    /\ UNCHANGED <<identities, agentPhase, delay, linkFaults, operations>>

\* RegistrationTimeout, or the owner of the RegisteredAgent closes it.
Abandons(l) ==
    /\ linkFaults < MaxLinkFaults /\ linkFaults' = linkFaults + 1
    /\ link[l].gateway \in {"handshake", "resolved", "registered"} /\ link[l].up
    /\ GatewayLeaves(l, link[l])
    /\ UNCHANGED <<identities, agentPhase, delay, operations>>

\* The network loses the connection; each end finds out by itself.
Lose(l) ==
    /\ linkFaults < MaxLinkFaults /\ linkFaults' = linkFaults + 1
    /\ link[l].up
    /\ link' = [link EXCEPT ![l].up = FALSE]
    /\ UNCHANGED <<registryVars, agentPhase, delay, operations>>
-----------------------------------------------------------------------------
AgentStep(a) == \E l \in Links : Connect(a, l) \/ Registered(a, l) \/ Refused(a, l)
                                    \/ LinkEnds(a, l)
GatewayStep(l) == Resolve(l) \/ Judge(l) \/ Respond(l) \/ Notices(l)

GatewayNext ==
    \/ \E c \in Certs : revoke(c) \/ \E s \in Servers : authorize_leaf(c, s)
    \/ \E a \in Agents : AgentStep(a)
    \/ \E l \in Links : GatewayStep(l) \/ Abandons(l) \/ Lose(l)

GatewaySpec == GatewayInit /\ [][GatewayNext]_gatewayVars
-----------------------------------------------------------------------------
\* Types, and the limits: identities and leases stay within the registry's
\* bounds (authorize_leaf, claim), pauses within the policy's (run).
GatewayTypeOK ==
    /\ identities \in [Certs -> Servers \cup {NoServer}]
    /\ Cardinality(Bound) <= MaxIdentities
    /\ active \subseteq Servers /\ Cardinality(active) <= MaxActive
    /\ \A l \in Links :
         /\ link[l].agent \in Agents \cup {NoAgent}
         /\ link[l].up \in BOOLEAN /\ link[l].revoked \in BOOLEAN
         /\ link[l].gateway \in {"gone", "handshake", "resolved"} \cup Leased
         /\ link[l].expected \in Servers \cup {NoServer}
         /\ link[l].answer \in {"none", "accepted", "rejected"}
    /\ agentPhase \in [Agents -> {"asleep", "registering", "serving"}]
    /\ delay \in [Agents -> InitialDelay .. MaximumDelay]

\* The active set of the registry is exactly the servers of the connections
\* that hold an ActiveAgentLease, and no server has two: dropping a lease
\* never frees, and never hides, another agent's registration.
LeaseExact ==
    /\ active = {link[l].expected : l \in {k \in Links : Holds(k)}}
    /\ \A l, k \in Links :
         Holds(l) /\ Holds(k) /\ link[l].expected = link[k].expected => l = k

\* A registered connection of an agent serves the server its certificate is
\* bound to, and the only way for the registry to have changed its mind since
\* is a revocation: accept_registration resolves before it waits and claims
\* after, and revoke does not end what runs.
BoundUnlessRevoked ==
    \A l \in Links : Holds(l) /\ link[l].agent # NoAgent =>
        \/ identities[CertOf[link[l].agent]] = link[l].expected
        \/ link[l].revoked

\* What a serving agent believes is what the gateway holds, or the connection
\* between them is gone: an agent is never left serving a link the gateway
\* has let go of while the connection lives.
ServingIsRegistered ==
    \A a \in Agents, l \in Links :
        agentPhase[a] = "serving" /\ link[l].agent = a /\ link[l].up =>
            link[l].gateway = "registered" /\ link[l].expected = NameOf[a]

\* AgentSupervisor::run reconnects for ever: an agent that is the only one of
\* its server, with a certificate bound to it for good, ends up serving, even
\* if a stale lease or lost connections turn it away at first; the only thing
\* that may keep it out is the limit of active agents, reached by others.
AgentReturns ==
    \A a \in {x \in Agents : \A b \in Agents : NameOf[b] = NameOf[x] => b = x} :
        <>[](identities[CertOf[a]] = NameOf[a]) =>
            []<>(agentPhase[a] = "serving" \/ Cardinality(active \ {NameOf[a]}) >= MaxActive)
=============================================================================

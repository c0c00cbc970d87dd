---------------------------- MODULE FleetProofs -----------------------------
(***************************************************************************)
(* The gateway, for any agents, servers, certificates, connections, users, *)
(* sources and streams: its registry, its logins, and a stream attached to *)
(* an agent's shell.                                                       *)
(*                                                                         *)
(* LeaseExact is inductive with the types.  BoundUnlessRevoked has to hold *)
(* from the moment a certificate is resolved, not only from the claim      *)
(* (Resolved), and ServingIsRegistered needs that an agent has one         *)
(* connection and that an acceptance under way comes from a registered one *)
(* (Agreed).                                                               *)
(*                                                                         *)
(* FailuresBounded needs to know how many failures can still be counted    *)
(* after a lockout (AuthInv).  OutputUnbroken follows the chunks through   *)
(* three queues (AttachInv).                                               *)
(***************************************************************************)
EXTENDS GatewayRegistry, Authentication, AgentAttachment, Integers,
        FiniteSetTheorems, TLAPS
-----------------------------------------------------------------------------
(* The gateway's registry.                                                 *)

LinkRecords ==
    [agent : Agents \cup {NoAgent}, up : BOOLEAN,
     gateway : {"gone", "handshake", "resolved", "claimed", "registered"},
     expected : Servers \cup {NoServer},
     answer : {"none", "accepted", "rejected"}, revoked : BOOLEAN]

Typed ==
    /\ identities \in [Certs -> Servers \cup {NoServer}]
    /\ active \in SUBSET Servers
    /\ link \in [Links -> LinkRecords]
    /\ agentPhase \in [Agents -> {"asleep", "registering", "serving"}]
    /\ delay \in [Agents -> InitialDelay .. MaximumDelay]

Limits ==
    /\ IsFiniteSet(Bound) /\ Cardinality(Bound) <= MaxIdentities
    /\ IsFiniteSet(active) /\ Cardinality(active) <= MaxActive

\* A holder's server is its agent's, and what resolve returned still stands
\* unless the certificate was revoked since.
Resolved ==
    \A l \in Links :
        /\ Holds(l) => link[l].expected # NoServer
        /\ Holds(l) /\ link[l].agent # NoAgent => link[l].expected = NameOf[link[l].agent]
        /\ link[l].gateway \in {"resolved", "claimed", "registered"}
             /\ link[l].agent # NoAgent /\ link[l].expected # NoServer =>
               \/ identities[CertOf[link[l].agent]] = link[l].expected
               \/ link[l].revoked

\* An agent has one connection, and none when it sleeps; an acceptance that
\* is under way comes from a registered connection.
Agreed ==
    \A l \in Links :
        /\ link[l].up => link[l].agent # NoAgent
        /\ link[l].agent # NoAgent => agentPhase[link[l].agent] # "asleep"
        /\ \A k \in Links : link[l].agent # NoAgent /\ link[k].agent = link[l].agent => k = l
        /\ link[l].up /\ link[l].answer = "accepted" => link[l].gateway = "registered"

GatewayInv == Typed /\ LeaseExact /\ Resolved /\ Agreed /\ ServingIsRegistered

\* An unused connection is well typed.
LEMMA UnusedTyped == Unused \in LinkRecords
BY Zenon DEF Unused, LinkRecords

\* The state begins without leases, connections or identities.
LEMMA GatewayInitInv == GatewayInit => GatewayInv
<1> SUFFICES ASSUME GatewayInit PROVE GatewayInv
    BY Zenon
<1>1. \A l \in Links : link[l] = Unused /\ ~Holds(l)
    BY Zenon DEF GatewayInit, Unused, Holds, Leased
<1>2. Typed
    BY UnusedTyped, ReconnectPolicyValid DEF GatewayInit, Typed
<1>3. LeaseExact
    BY Zenon, <1>1 DEF GatewayInit, LeaseExact
<1>4. Resolved /\ Agreed /\ ServingIsRegistered
    BY ZenonT(20), <1>1 DEF GatewayInit, Resolved, Agreed, ServingIsRegistered, Unused
<1> QED BY Zenon, <1>2, <1>3, <1>4 DEF GatewayInv

\* Only connection l changes.
OnlyLink(l) == link' \in [Links -> LinkRecords] /\ \A k \in Links \ {l} : link'[k] = link[k]

\* The gateway's letting go keeps the invariant: the one lease that is
\* dropped is the connection's own.
LEMMA LeavingKeeps ==
    ASSUME GatewayInv, NEW l \in Links, GatewayLeaves(l, link[l]),
           UNCHANGED <<identities, agentPhase, delay>>
    PROVE  GatewayInv'
<1> USE NamesValid DEF GatewayInv, Holds, Leased
<1>1. link[l] \in LinkRecords
    BY Zenon DEF Typed
<1>2. [link[l] EXCEPT !.gateway = "gone", !.up = FALSE] \in LinkRecords
    BY ZenonT(60), <1>1 DEF LinkRecords
<1>3. OnlyLink(l)
    BY Zenon, <1>2, UnusedTyped DEF OnlyLink, GatewayLeaves, Typed
<1>4. link'[l].gateway = "gone" /\ link'[l].up = FALSE /\ link'[l].agent = link[l].agent
    BY Zenon, <1>1 DEF GatewayLeaves, Unused, Typed, LinkRecords
<1>5. active' = IF Holds(l) THEN active \ {link[l].expected} ELSE active
    BY Zenon DEF GatewayLeaves
<1>6. Typed'
    BY Zenon, <1>3, <1>5 DEF Typed, OnlyLink
<1>7. LeaseExact'
    BY <1>3, <1>4, <1>5, SMTT(40) DEF LeaseExact, OnlyLink
<1>8. Resolved'
    BY ZenonT(60), <1>3, <1>4 DEF Resolved, OnlyLink
<1>9. Agreed' /\ ServingIsRegistered'
    BY <1>3, <1>4 DEF Agreed, ServingIsRegistered, OnlyLink
<1> QED BY Zenon, <1>6, <1>7, <1>8, <1>9

\* An agent's letting go keeps it too: a lease the gateway holds is left.
LEMMA AgentLeavingKeeps ==
    ASSUME GatewayInv, NEW a \in Agents, NEW l \in Links, link[l].agent = a,
           link' = [link EXCEPT ![l] = LeftBy(@)], Sleeps(a, delay[a]),
           UNCHANGED registryVars
    PROVE  GatewayInv'
<1> USE NamesValid DEF GatewayInv, Holds, Leased, registryVars
<1>1. link[l] \in LinkRecords
    BY Zenon DEF Typed
<1>2. LeftBy(link[l]) \in LinkRecords
    BY ZenonT(60), <1>1, UnusedTyped DEF LeftBy, LinkRecords
<1>3. OnlyLink(l)
    BY Zenon, <1>2 DEF OnlyLink, Typed
<1>4. /\ link'[l].gateway = link[l].gateway /\ link'[l].up = FALSE /\ link'[l].agent = NoAgent
      /\ Holds(l) => link'[l].expected = link[l].expected
    BY Zenon, <1>1 DEF LeftBy, Unused, Typed, LinkRecords
<1>5. delay' \in [Agents -> InitialDelay .. MaximumDelay]
    BY ReconnectPolicyValid DEF Sleeps, Min2, Typed
<1>6. Typed'
    BY Zenon, <1>3, <1>5 DEF Typed, OnlyLink, Sleeps
<1>7. LeaseExact'
    BY <1>3, <1>4, SMTT(40) DEF LeaseExact, OnlyLink
<1>8. Resolved'
    BY ZenonT(60), <1>3, <1>4 DEF Resolved, OnlyLink
<1>9. Agreed'
    BY <1>1, <1>3, <1>4, SMTT(40) DEF Agreed, OnlyLink, Sleeps, Typed, LinkRecords
<1>10. ServingIsRegistered'
    BY <1>1, <1>3, <1>4, SMTT(40) DEF ServingIsRegistered, OnlyLink, Sleeps, Typed, LinkRecords
<1> QED BY Zenon, <1>6, <1>7, <1>8, <1>9, <1>10

\* Every step of operator, agents, gateway and network keeps the invariant.
LEMMA GatewayNextInv == GatewayInv /\ [GatewayNext]_gatewayVars => GatewayInv'
<1> SUFFICES ASSUME GatewayInv, [GatewayNext]_gatewayVars PROVE GatewayInv'
    BY Zenon
<1> USE NamesValid DEF GatewayInv, Holds, Leased, registryVars
<1>1. ASSUME NEW c \in Certs, NEW s \in Servers, authorize_leaf(c, s) PROVE GatewayInv'
  <2>1. Typed'
    BY Zenon, <1>1 DEF authorize_leaf, Typed
  <2>2. LeaseExact' /\ Agreed' /\ ServingIsRegistered'
    BY <1>1 DEF authorize_leaf, LeaseExact, Agreed, ServingIsRegistered
  <2>3. Resolved'
    BY <1>1 DEF authorize_leaf, Resolved, Typed, LinkRecords
  <2> QED BY Zenon, <2>1, <2>2, <2>3
<1>2. ASSUME NEW c \in Certs, revoke(c) PROVE GatewayInv'
  <2>0. \A k \in Links : link[k] \in LinkRecords /\ [link[k] EXCEPT !.revoked = TRUE] \in LinkRecords
    BY ZenonT(60) DEF Typed, LinkRecords
  <2>1. Typed'
    BY Zenon, <1>2, <2>0 DEF revoke, Typed
  <2>2. LeaseExact'
    BY <1>2 DEF revoke, LeaseExact, Typed, LinkRecords
  <2>3. Resolved'
    BY <1>2 DEF revoke, Resolved, Typed, LinkRecords
  <2>4. Agreed' /\ ServingIsRegistered'
    BY <1>2 DEF revoke, Agreed, ServingIsRegistered, Typed, LinkRecords
  <2> QED BY Zenon, <2>1, <2>2, <2>3, <2>4
<1>3. ASSUME NEW a \in Agents, NEW l \in Links, Connect(a, l) PROVE GatewayInv'
  <2>1. Typed'
    BY ZenonT(20), <1>3, UnusedTyped DEF Connect, Typed, LinkRecords
  <2>2. LeaseExact'
    BY <1>3 DEF Connect, Unused, LeaseExact, Typed, LinkRecords
  <2>3. Resolved'
    BY <1>3 DEF Connect, Unused, Resolved, Typed, LinkRecords
  <2>4. Agreed'
    BY <1>3 DEF Connect, Unused, Agreed, Typed, LinkRecords
  <2>5. ServingIsRegistered'
    BY SMTT(20), <1>3 DEF Connect, Unused, ServingIsRegistered, Typed, LinkRecords
  <2> QED BY Zenon, <2>1, <2>2, <2>3, <2>4, <2>5
<1>4. ASSUME NEW a \in Agents, NEW l \in Links, Registered(a, l) PROVE GatewayInv'
  <2>1. Typed'
    BY <1>4, ReconnectPolicyValid DEF Registered, Typed, LinkRecords
  <2>2. LeaseExact'
    BY <1>4 DEF Registered, LeaseExact, Typed, LinkRecords
  <2>3. Resolved'
    BY <1>4 DEF Registered, Resolved, Typed, LinkRecords
  <2>4. Agreed'
    BY <1>4 DEF Registered, Agreed, Typed, LinkRecords
  <2>5. ServingIsRegistered'
    BY <1>4 DEF Registered, ServingIsRegistered, Agreed, Resolved, Typed, LinkRecords
  <2> QED BY Zenon, <2>1, <2>2, <2>3, <2>4, <2>5
<1>5. ASSUME NEW a \in Agents, NEW l \in Links, Refused(a, l) \/ LinkEnds(a, l) PROVE GatewayInv'
    BY Zenon, <1>5, AgentLeavingKeeps DEF Refused, LinkEnds
<1>6. ASSUME NEW l \in Links, Resolve(l) PROVE GatewayInv'
  <2>1. link[l] \in LinkRecords /\ identities[CertOf[link[l].agent]] \in Servers \cup {NoServer}
    BY ZenonT(20), <1>6 DEF Resolve, Typed, LinkRecords, Certs
  <2>2. OnlyLink(l) /\ link'[l] = [link[l] EXCEPT !.gateway = "resolved",
                                     !.expected = identities[CertOf[link[l].agent]],
                                     !.revoked = FALSE]
    BY ZenonT(60), <1>6, <2>1 DEF Resolve, OnlyLink, Typed, LinkRecords
  <2>3. /\ link'[l].gateway = "resolved" /\ link'[l].agent = link[l].agent
        /\ link'[l].up = link[l].up /\ link'[l].answer = link[l].answer
        /\ link'[l].expected = identities[CertOf[link[l].agent]]
    BY Zenon, <2>1, <2>2 DEF LinkRecords
  <2>4. link[l].gateway = "handshake" /\ UNCHANGED <<identities, active, agentPhase, delay>>
    BY Zenon, <1>6 DEF Resolve
  <2>a. OnlyLink(l)
    BY Zenon, <2>2
  <2>5. Typed'
    BY Zenon, <2>a, <2>4 DEF Typed, OnlyLink
  <2>6. LeaseExact'
    BY <2>a, <2>3, <2>4 DEF LeaseExact, OnlyLink
  <2>7. Resolved'
    BY ZenonT(60), <2>a, <2>3, <2>4 DEF Resolved, OnlyLink
  <2>8. Agreed'
    BY <2>a, <2>3, <2>4, SMTT(40) DEF Agreed, OnlyLink
  <2>9. ServingIsRegistered'
    BY <2>a, <2>3, <2>4 DEF ServingIsRegistered, OnlyLink
  <2> QED BY Zenon, <2>5, <2>6, <2>7, <2>8, <2>9
<1>7. ASSUME NEW l \in Links, Judge(l) PROVE GatewayInv'
  <2> DEFINE s == NameOf[link[l].agent]
  <2>0. /\ link[l] \in LinkRecords /\ link[l].agent \in Agents /\ s \in Servers
        /\ link[l].gateway = "resolved" /\ link[l].up /\ UNCHANGED <<identities, agentPhase, delay>>
    BY Zenon, <1>7 DEF Judge, Typed, LinkRecords, Agreed, Servers
  <2>1. CASE /\ link[l].expected = s /\ Claimable(s)
             /\ active' = active \cup {s}
             /\ link' = [link EXCEPT ![l].gateway = "claimed"]
    <3>1. OnlyLink(l) /\ link'[l] = [link[l] EXCEPT !.gateway = "claimed"]
      BY Zenon, <2>0, <2>1 DEF OnlyLink, Typed, LinkRecords
    <3>2. /\ link'[l].gateway = "claimed" /\ link'[l].agent = link[l].agent
          /\ link'[l].up = link[l].up /\ link'[l].answer = link[l].answer
          /\ link'[l].expected = link[l].expected /\ link'[l].revoked = link[l].revoked
      BY ZenonT(60), <2>0, <3>1 DEF LinkRecords
    <3>a. OnlyLink(l)
      BY Zenon, <3>1
    <3>3. Typed'
      BY Zenon, <2>0, <2>1, <3>a DEF Typed, OnlyLink
    <3>4. LeaseExact'
      BY <2>0, <2>1, <3>a, <3>2 DEF LeaseExact, OnlyLink, Claimable
    <3>5. Resolved'
      BY SMTT(20), <2>0, <2>1, <3>a, <3>2 DEF Resolved, OnlyLink
    <3>6. Agreed'
      BY SMTT(20), <2>0, <3>a, <3>2 DEF Agreed, OnlyLink
    <3>7. ServingIsRegistered'
      BY <2>0, <3>a, <3>2 DEF ServingIsRegistered, OnlyLink
    <3> QED BY Zenon, <3>3, <3>4, <3>5, <3>6, <3>7
  <2>2. CASE /\ link[l].expected # s \/ s \in active
             /\ link' = [link EXCEPT ![l].gateway = "gone", ![l].answer = "rejected"]
             /\ UNCHANGED active
    <3>1. OnlyLink(l) /\ link'[l] = [link[l] EXCEPT !.gateway = "gone", !.answer = "rejected"]
      BY ZenonT(20), <2>0, <2>2 DEF OnlyLink, Typed, LinkRecords
    <3>2. /\ link'[l].gateway = "gone" /\ link'[l].agent = link[l].agent
          /\ link'[l].up = link[l].up /\ link'[l].answer = "rejected"
      BY ZenonT(60), <2>0, <3>1 DEF LinkRecords
    <3>a. OnlyLink(l)
      BY Zenon, <3>1
    <3>3. Typed'
      BY Zenon, <2>0, <2>2, <3>a DEF Typed, OnlyLink
    <3>4. LeaseExact' /\ Resolved'
      BY SMTT(20), <2>0, <2>2, <3>a, <3>2 DEF LeaseExact, Resolved, OnlyLink
    <3>5. Agreed'
      BY SMTT(20), <2>0, <3>a, <3>2 DEF Agreed, OnlyLink
    <3>6. ServingIsRegistered'
      BY <2>0, <3>a, <3>2 DEF ServingIsRegistered, OnlyLink
    <3> QED BY Zenon, <3>3, <3>4, <3>5, <3>6
  <2>3. CASE GatewayLeaves(l, link[l])
    BY Zenon, <1>7, <2>3, LeavingKeeps DEF Judge
  <2> QED BY Zenon, <1>7, <2>1, <2>2, <2>3 DEF Judge
<1>8. ASSUME NEW l \in Links, Respond(l) PROVE GatewayInv'
  <2>1. CASE link[l].up
    <3>0. /\ link[l] \in LinkRecords /\ link[l].gateway = "claimed" /\ link[l].agent \in Agents
          /\ link' = [link EXCEPT ![l].gateway = "registered", ![l].answer = "accepted"]
          /\ UNCHANGED <<identities, active, agentPhase, delay>>
      BY Zenon, <1>8, <2>1 DEF Respond, Typed, Agreed, LinkRecords
    <3>1. OnlyLink(l) /\ link'[l] = [link[l] EXCEPT !.gateway = "registered", !.answer = "accepted"]
      BY ZenonT(20), <3>0 DEF OnlyLink, Typed, LinkRecords
    <3>2. /\ link'[l].gateway = "registered" /\ link'[l].agent = link[l].agent
          /\ link'[l].up = link[l].up /\ link'[l].expected = link[l].expected
          /\ link'[l].revoked = link[l].revoked
      BY Zenon, <3>0, <3>1 DEF OnlyLink, LinkRecords
    <3>a. OnlyLink(l)
      BY Zenon, <3>1
    <3>3. Typed'
      BY Zenon, <3>0, <3>a DEF Typed, OnlyLink
    <3>4. LeaseExact'
      BY SMTT(20), <3>0, <3>a, <3>2 DEF LeaseExact, OnlyLink
    <3>5. Resolved'
      BY SMTT(20), <3>0, <3>a, <3>2 DEF Resolved, OnlyLink
    <3>6. Agreed'
      BY SMTT(20), <3>0, <3>a, <3>2 DEF Agreed, OnlyLink
    <3>7. ServingIsRegistered'
      BY <3>0, <3>a, <3>2 DEF Resolved, ServingIsRegistered, OnlyLink
    <3> QED BY Zenon, <3>3, <3>4, <3>5, <3>6, <3>7
  <2>2. CASE ~link[l].up
    BY Zenon, <1>8, <2>2, LeavingKeeps DEF Respond
  <2> QED BY Zenon, <2>1, <2>2
<1>9. ASSUME NEW l \in Links, Notices(l) \/ Abandons(l) PROVE GatewayInv'
    BY Zenon, <1>9, LeavingKeeps DEF Notices, Abandons
<1>10. ASSUME NEW l \in Links, Lose(l) PROVE GatewayInv'
  <2>0. link[l] \in LinkRecords /\ [link[l] EXCEPT !.up = FALSE] \in LinkRecords
    BY ZenonT(60) DEF Typed, LinkRecords
  <2>1. Typed'
    BY Zenon, <1>10, <2>0 DEF Lose, Typed
  <2>2. LeaseExact' /\ Resolved'
    BY <1>10 DEF Lose, LeaseExact, Resolved, Typed, LinkRecords
  <2>3. Agreed' /\ ServingIsRegistered'
    BY <1>10 DEF Lose, Agreed, ServingIsRegistered, Typed, LinkRecords
  <2> QED BY Zenon, <2>1, <2>2, <2>3
<1>11. CASE UNCHANGED gatewayVars
  <2>1. Typed' /\ LeaseExact'
    BY ZenonT(60), <1>11 DEF gatewayVars, Typed, LeaseExact
  <2>2. Resolved'
    BY ZenonT(20), <1>11 DEF gatewayVars, Resolved
  <2>3. Agreed' /\ ServingIsRegistered'
    BY Zenon, <1>11 DEF gatewayVars, Agreed, ServingIsRegistered
  <2> QED BY Zenon, <2>1, <2>2, <2>3
<1> QED BY ZenonT(20), <1>1, <1>2, <1>3, <1>4, <1>5, <1>6, <1>7, <1>8, <1>9, <1>10, <1>11
        DEF GatewayNext, AgentStep, GatewayStep

\* The limits of the registry: authorize_leaf and claim compare before they
\* insert, and everything else only removes.
LEMMA LimitsNext ==
    ASSUME GatewayInv, Limits, [GatewayNext]_gatewayVars
    PROVE  Limits'
<1> USE DEF Limits, registryVars
<1>1. MaxIdentities \in Nat /\ MaxActive \in Nat
    BY Zenon, RegistryLimits
<1>2. Cardinality(Bound) \in Nat /\ Cardinality(active) \in Nat
    BY Zenon, FS_CardinalityType
<1>3. ASSUME NEW c \in Certs, NEW s \in Servers, authorize_leaf(c, s) PROVE Limits'
  <2>1. Bound' = Bound \cup {c} /\ c \notin Bound
    BY Zenon, <1>3, NamesValid DEF authorize_leaf, Bound, GatewayInv, Typed
  <2>2. IsFiniteSet(Bound') /\ Cardinality(Bound') = Cardinality(Bound) + 1
    BY Zenon, <2>1, FS_AddElement
  <2>3. Cardinality(Bound) < MaxIdentities /\ UNCHANGED active
    BY Zenon, <1>3 DEF authorize_leaf
  <2> QED BY <1>1, <1>2, <2>2, <2>3
<1>4. ASSUME NEW s, Claimable(s), UNCHANGED identities, active' = active \cup {s} PROVE Limits'
  <2>1. IsFiniteSet(active') /\ Cardinality(active') = Cardinality(active) + 1
    BY Zenon, <1>4, FS_AddElement DEF Claimable
  <2> QED BY <1>1, <1>2, <1>4, <2>1 DEF Claimable, Bound
<1>5. ASSUME Bound' \subseteq Bound, active' \subseteq active PROVE Limits'
  <2>1. /\ IsFiniteSet(Bound') /\ Cardinality(Bound') <= Cardinality(Bound)
        /\ IsFiniteSet(active') /\ Cardinality(active') <= Cardinality(active)
    BY Zenon, <1>5, FS_Subset
  <2>2. Cardinality(Bound') \in Nat /\ Cardinality(active') \in Nat
    BY Zenon, <2>1, FS_CardinalityType
  <2> QED BY <1>1, <1>2, <2>1, <2>2
<1>6. ASSUME NEW c \in Certs, revoke(c) PROVE Bound' \subseteq Bound /\ active' \subseteq active
    BY Zenon, <1>6 DEF revoke, Bound, GatewayInv, Typed
<1>7. ASSUME NEW a \in Agents, AgentStep(a) PROVE UNCHANGED registryVars
    BY Zenon, <1>7 DEF AgentStep, Connect, Registered, Refused, LinkEnds
<1>8. ASSUME NEW l \in Links, GatewayStep(l) \/ Abandons(l) \/ Lose(l)
      PROVE  /\ UNCHANGED identities
             /\ \/ active' \subseteq active
                \/ \E s : Claimable(s) /\ active' = active \cup {s}
  <2>1. ASSUME GatewayLeaves(l, link[l]) PROVE active' \subseteq active
    BY Zenon, <2>1 DEF GatewayLeaves
  <2>2. CASE Judge(l)
    BY Zenon, <2>1, <2>2 DEF Judge
  <2>3. CASE Respond(l)
    BY Zenon, <2>1, <2>3 DEF Respond
  <2>4. CASE Notices(l) \/ Abandons(l)
    BY ZenonT(20), <2>1, <2>4 DEF Notices, Abandons
  <2>5. CASE Resolve(l) \/ Lose(l)
    BY Zenon, <2>5 DEF Resolve, Lose
  <2> QED BY Zenon, <1>8, <2>2, <2>3, <2>4, <2>5 DEF GatewayStep
<1>9. UNCHANGED identities => Bound' = Bound
    BY Zenon DEF Bound
<1>10. CASE UNCHANGED gatewayVars
    BY Zenon, <1>5, <1>9, <1>10 DEF gatewayVars
<1> QED BY Zenon, <1>3, <1>4, <1>5, <1>6, <1>7, <1>8, <1>9, <1>10 DEF GatewayNext

\* The registry's limits hold at the start.
LEMMA LimitsInit == GatewayInit => Limits
<1> SUFFICES ASSUME GatewayInit PROVE Limits
    BY Zenon
<1>1. Bound = {} /\ active = {}
    BY Zenon DEF GatewayInit, Bound
<1> QED BY <1>1, FS_EmptySet, RegistryLimits DEF Limits

\* The invariant of the registry and its limits always hold.
LEMMA GatewayInvariant == GatewaySpec => [](GatewayInv /\ Limits)
<1>1. GatewayInit => GatewayInv /\ Limits
    BY Zenon, GatewayInitInv, LimitsInit
<1>2. (GatewayInv /\ Limits) /\ [GatewayNext]_gatewayVars => (GatewayInv /\ Limits)'
    BY Zenon, GatewayNextInv, LimitsNext
<1> QED BY <1>1, <1>2, PTL DEF GatewaySpec

\* The registry, the connections and the supervisors keep their types, and
\* neither the identities nor the leases exceed their limits
\* (CertificateRegistry::authorize_leaf, claim, AgentSupervisor::run).
THEOREM GatewayTypeCorrect == GatewaySpec => []GatewayTypeOK
<1>1. GatewayInv /\ Limits => GatewayTypeOK
    BY Zenon DEF GatewayInv, Limits, Typed, LinkRecords, GatewayTypeOK, Leased
<1> QED BY <1>1, GatewayInvariant, PTL

\* The active servers are exactly those of the connections that hold a lease,
\* and no server has two (CertificateRegistry::claim, ActiveAgentLease).
THEOREM LeasesAreExact == GatewaySpec => []LeaseExact
<1>1. GatewayInv => LeaseExact
    BY Zenon DEF GatewayInv
<1> QED BY <1>1, GatewayInvariant, PTL

\* A registered connection serves the server its certificate was resolved to,
\* and only a revocation since makes the registry say otherwise
\* (AgentGateway::accept_registration, CertificateRegistry::revoke).
THEOREM RegistrationsAreBound == GatewaySpec => []BoundUnlessRevoked
<1>1. GatewayInv => BoundUnlessRevoked
    BY Zenon DEF GatewayInv, Resolved, BoundUnlessRevoked, Holds, Leased
<1> QED BY <1>1, GatewayInvariant, PTL

\* An agent that serves over a live connection is registered with it under its
\* own name (AgentSupervisor::run, AgentGateway::accept_registration).
THEOREM ServingMeansRegistered == GatewaySpec => []ServingIsRegistered
<1>1. GatewayInv => ServingIsRegistered
    BY Zenon DEF GatewayInv
<1> QED BY <1>1, GatewayInvariant, PTL

-----------------------------------------------------------------------------
(* Logins.                                                                 *)

\* Attempts of a source under way.
InFlight(s) == {c \in AuthConns : SourceOf[c] = s /\ attempt[c]}

AuthTypes ==
    /\ clock \in Nat \ {0} /\ tracked \subseteq Sources
    /\ failures \in [Sources -> Seq(Nat)] /\ lockedUntil \in [Sources -> Nat]
    /\ attempt \in [AuthConns -> BOOLEAN]

\* A bucket without a lockout is under the limit.  One with a lockout has
\* been told of some of the attempts that were under way when it was set;
\* each that is still under way may add one.
BucketsBounded ==
    \A s \in Sources :
        /\ lockedUntil[s] = 0 => Len(failures[s]) <= MaxFailures - 1
        /\ lockedUntil[s] # 0 =>
               Len(failures[s]) + Cardinality(InFlight(s)) <= MaxFailures - 1 + PeersOf(s)

LimiterInv == AuthTypes /\ BucketsBounded

\* The attempts under way from a source are at most its connections.
LEMMA InFlightFinite ==
    ASSUME AuthTypes, NEW s \in Sources
    PROVE  /\ IsFiniteSet(InFlight(s)) /\ Cardinality(InFlight(s)) \in Nat
           /\ PeersOf(s) \in Nat /\ Cardinality(InFlight(s)) <= PeersOf(s)
<1> DEFINE P == {c \in AuthConns : SourceOf[c] = s}
<1>1. IsFiniteSet(P)
    BY Zenon, AuthAssumption, FS_Subset
<1>2. InFlight(s) \subseteq P
    BY Zenon DEF InFlight
<1>3. IsFiniteSet(InFlight(s)) /\ Cardinality(InFlight(s)) <= Cardinality(P)
    BY Zenon, <1>1, <1>2, FS_Subset
<1>4. Cardinality(P) \in Nat /\ Cardinality(InFlight(s)) \in Nat
    BY Zenon, <1>1, <1>3, FS_CardinalityType
<1> QED BY Zenon, <1>3, <1>4 DEF PeersOf

\* Pruning never lengthens a bucket.
LEMMA RecentShorter ==
    ASSUME NEW fs \in Seq(Nat), clock \in Nat
    PROVE  Recent(fs) \in Seq(Nat) /\ Len(Recent(fs)) <= Len(fs)
<1>1. IsFiniteSet(1 .. Len(fs))
    BY FS_Interval
<1>2. Expired(fs) \subseteq 1 .. Len(fs)
    BY Zenon DEF Expired
<1>3. Cardinality(Expired(fs)) \in Nat
    BY Zenon, <1>1, <1>2, FS_Subset, FS_CardinalityType
<1> DEFINE n == Cardinality(Expired(fs))
<1> HIDE DEF n
<1>4. n \in Nat
    BY Zenon, <1>3 DEF n
<1>5. SubSeq(fs, n + 1, Len(fs)) \in Seq(Nat)
    BY <1>4
<1>6. Len(SubSeq(fs, n + 1, Len(fs))) <= Len(fs)
    BY <1>4
<1> QED BY Zenon, <1>5, <1>6 DEF n, Recent

\* An attempt that ends is one less under way.
LEMMA EndsCounts ==
    ASSUME AuthTypes, NEW c \in AuthConns, Ends(c)
    PROVE  /\ attempt' \in [AuthConns -> BOOLEAN]
           /\ \A s \in Sources : s # SourceOf[c] => InFlight(s)' = InFlight(s)
           /\ Cardinality(InFlight(SourceOf[c])') = Cardinality(InFlight(SourceOf[c])) - 1
<1>1. attempt[c] /\ attempt' = [attempt EXCEPT ![c] = FALSE]
    BY Zenon DEF Ends
<1>2. SourceOf[c] \in Sources
    BY Zenon, AuthAssumption
<1>3. InFlight(SourceOf[c])' = InFlight(SourceOf[c]) \ {c} /\ c \in InFlight(SourceOf[c])
    BY Zenon, <1>1 DEF InFlight, AuthTypes
<1>4. IsFiniteSet(InFlight(SourceOf[c]))
    BY Zenon, <1>2, InFlightFinite
<1>5. Cardinality(InFlight(SourceOf[c])') = Cardinality(InFlight(SourceOf[c])) - 1
    BY ZenonT(20), <1>3, <1>4, FS_RemoveElement
<1>6. \A s \in Sources : s # SourceOf[c] => InFlight(s)' = InFlight(s)
    BY Zenon, <1>1 DEF InFlight, AuthTypes
<1>7. attempt' \in [AuthConns -> BOOLEAN]
    BY Zenon, <1>1 DEF AuthTypes
<1> QED BY Zenon, <1>5, <1>6, <1>7

\* A failure is counted for the attempt that it ends.
LEMMA FailureKeeps ==
    ASSUME LimiterInv, NEW c \in AuthConns, Ends(c), fail_auth(c), UNCHANGED clock
    PROVE  LimiterInv'
<1> DEFINE s == SourceOf[c]
           fs == [failures EXCEPT ![s] = Append(Recent(@), clock)]
           until == [lockedUntil EXCEPT ![s] =
                       IF Len(fs[s]) >= MaxFailures THEN clock + Lockout ELSE @]
<1>0. AuthTypes /\ BucketsBounded
    BY Zenon DEF LimiterInv
<1>1. s \in Sources /\ MaxFailures \in Nat \ {0} /\ Lockout \in Nat
    BY Zenon, AuthAssumption
<1>2. /\ tracked' \subseteq tracked \cup {s}
      /\ failures' = [x \in Sources |-> IF x \in tracked' THEN fs[x] ELSE <<>>]
      /\ lockedUntil' = [x \in Sources |-> IF x \in tracked' THEN until[x] ELSE 0]
  <2> DEFINE all == tracked \cup {s}
             sweep == \/ lastSweep = 0 \/ clock >= lastSweep + Window
                      \/ Cardinality(all) > MaxTracked
             live == IF sweep THEN {x \in all : ~is_dead(x, fs[x], until[x])} ELSE all
  <2>1. PICK E \in Evicted(live, fs, until) :
          /\ tracked' = live \ E
          /\ failures' = [x \in Sources |-> IF x \in tracked' THEN fs[x] ELSE <<>>]
          /\ lockedUntil' = [x \in Sources |-> IF x \in tracked' THEN until[x] ELSE 0]
    BY ZenonT(20) DEF fail_auth, record_failure
  <2>2. live \subseteq all
    BY Zenon
  <2> QED BY Zenon, <2>1, <2>2
<1>3. /\ failures \in [Sources -> Seq(Nat)] /\ lockedUntil \in [Sources -> Nat]
      /\ clock \in Nat \ {0} /\ tracked \subseteq Sources
    BY Zenon, <1>0 DEF AuthTypes
<1>4. Recent(failures[s]) \in Seq(Nat) /\ Len(Recent(failures[s])) <= Len(failures[s])
    BY Zenon, <1>1, <1>3, RecentShorter
<1> DEFINE b == Append(Recent(failures[s]), clock)
<1>5. b \in Seq(Nat) /\ Len(b) <= Len(failures[s]) + 1 /\ Len(b) \in Nat /\ Len(failures[s]) \in Nat
    BY <1>1, <1>3, <1>4
<1>6. fs = [failures EXCEPT ![s] = b]
    BY Zenon
<1> HIDE DEF b, fs
<1>7. fs \in [Sources -> Seq(Nat)] /\ fs[s] = b /\ \A x \in Sources : x # s => fs[x] = failures[x]
    BY Zenon, <1>1, <1>3, <1>5, <1>6
<1>8. /\ until \in [Sources -> Nat] /\ \A x \in Sources : x # s => until[x] = lockedUntil[x]
      /\ until[s] = IF Len(b) >= MaxFailures THEN clock + Lockout ELSE lockedUntil[s]
    BY <1>1, <1>3, <1>7
<1> HIDE DEF until
<1>9. attempt' \in [AuthConns -> BOOLEAN]
    BY Zenon, <1>0, EndsCounts
<1>10. AuthTypes'
  <2>1. failures' \in [Sources -> Seq(Nat)]
    <3>1. <<>> \in Seq(Nat)
      OBVIOUS
    <3> QED BY Zenon, <1>2, <1>7, <3>1
  <2>2. lockedUntil' \in [Sources -> Nat]
    BY Zenon, <1>2, <1>8
  <2> QED BY Zenon, <1>1, <1>2, <1>3, <1>9, <2>1, <2>2 DEF AuthTypes
<1>11. PeersOf(s)' = PeersOf(s) /\ \A x \in Sources : PeersOf(x)' = PeersOf(x)
    BY Zenon DEF PeersOf
<1>12. BucketsBounded'
  <2> SUFFICES ASSUME NEW x \in Sources
               PROVE  /\ lockedUntil'[x] = 0 => Len(failures'[x]) <= MaxFailures - 1
                      /\ lockedUntil'[x] # 0 =>
                             Len(failures'[x]) + Cardinality(InFlight(x)') <= MaxFailures - 1 + PeersOf(x)
      BY Zenon, <1>11 DEF BucketsBounded
  <2>1. CASE x \notin tracked'
    <3>1. failures'[x] = <<>> /\ lockedUntil'[x] = 0
      BY Zenon, <1>2, <2>1
    <3>2. Len(<<>>) = 0
      BY Zenon
    <3> QED BY <1>1, <3>1, <3>2
  <2>2. CASE x \in tracked' /\ x # s
    <3>1. failures'[x] = failures[x] /\ lockedUntil'[x] = lockedUntil[x]
      BY Zenon, <1>2, <1>7, <1>8, <2>2
    <3>2. InFlight(x)' = InFlight(x)
      BY Zenon, <1>0, <2>2, EndsCounts
    <3> QED BY Zenon, <1>0, <3>1, <3>2 DEF BucketsBounded
  <2>3. CASE x \in tracked' /\ x = s
    <3> DEFINE k == Cardinality(InFlight(s))
               k2 == Cardinality(InFlight(s)')
               p == PeersOf(s)
               n == Len(failures[s])
    <3>1. failures'[s] = b /\ lockedUntil'[s] = until[s]
      BY Zenon, <1>1, <1>2, <1>7, <2>3
    <3>2. k2 = k - 1 /\ k \in Nat /\ p \in Nat /\ k <= p
      BY Zenon, <1>0, <1>1, EndsCounts, InFlightFinite
    <3>3. /\ lockedUntil[s] = 0 => n <= MaxFailures - 1
          /\ lockedUntil[s] # 0 => n + k <= MaxFailures - 1 + p
      BY Zenon, <1>0, <1>1 DEF BucketsBounded
    <3> HIDE DEF k, k2, p, n
    <3>4. n \in Nat /\ Len(b) <= n + 1
      BY Zenon, <1>5 DEF n
    <3>5. CASE Len(b) >= MaxFailures
      <4>1. lockedUntil'[s] # 0
        BY <1>1, <1>3, <1>8, <3>1, <3>5
      <4>2. Len(b) + k2 <= MaxFailures - 1 + p
        <5>1. CASE lockedUntil[s] = 0
          BY SMTT(20), <1>1, <1>5, <3>2, <3>3, <3>4, <5>1
        <5>2. CASE lockedUntil[s] # 0
          BY <1>1, <1>5, <3>2, <3>3, <3>4, <5>2
        <5> QED BY Zenon, <5>1, <5>2
      <4> QED BY Zenon, <2>3, <3>1, <4>1, <4>2 DEF k2, p
    <3>6. CASE ~(Len(b) >= MaxFailures)
      <4>1. lockedUntil'[s] = lockedUntil[s]
        BY Zenon, <1>8, <3>1, <3>6
      <4>2. Len(b) <= MaxFailures - 1
        BY SMTT(20), <1>1, <1>5, <3>6
      <4>3. lockedUntil[s] # 0 => Len(b) + k2 <= MaxFailures - 1 + p
        BY <1>1, <1>5, <3>2, <3>3, <3>4
      <4> QED BY Zenon, <2>3, <3>1, <4>1, <4>2, <4>3 DEF k2, p
    <3> QED BY Zenon, <3>5, <3>6
  <2> QED BY Zenon, <2>1, <2>2, <2>3
<1> QED BY Zenon, <1>10, <1>12 DEF LimiterInv

\* A success clears the bucket of the attempt's source.
LEMMA SuccessKeeps ==
    ASSUME LimiterInv, NEW c \in AuthConns, Ends(c), record_success(SourceOf[c]), UNCHANGED clock
    PROVE  LimiterInv'
<1> DEFINE s == SourceOf[c]
<1>0. AuthTypes /\ BucketsBounded
    BY Zenon DEF LimiterInv
<1>1. s \in Sources /\ MaxFailures \in Nat \ {0}
    BY Zenon, AuthAssumption
<1>2. /\ tracked' = tracked \ {s} /\ failures' = [failures EXCEPT ![s] = <<>>]
      /\ lockedUntil' = [lockedUntil EXCEPT ![s] = 0]
    BY Zenon DEF record_success
<1>3. AuthTypes'
  <2>1. <<>> \in Seq(Nat)
    OBVIOUS
  <2>2. attempt' \in [AuthConns -> BOOLEAN]
    BY Zenon, <1>0, EndsCounts
  <2> QED BY Zenon, <1>0, <1>1, <1>2, <2>1, <2>2 DEF AuthTypes
<1>4. ASSUME NEW x \in Sources
      PROVE  /\ lockedUntil'[x] = 0 => Len(failures'[x]) <= MaxFailures - 1
             /\ lockedUntil'[x] # 0 =>
                    Len(failures'[x]) + Cardinality(InFlight(x)') <= MaxFailures - 1 + PeersOf(x)
  <2>1. CASE x = s
    <3>1. failures'[x] = <<>> /\ lockedUntil'[x] = 0
      BY Zenon, <1>0, <1>1, <1>2, <2>1 DEF AuthTypes
    <3>2. Len(<<>>) = 0
      BY Zenon
    <3> QED BY <1>1, <3>1, <3>2
  <2>2. CASE x # s
    <3>1. failures'[x] = failures[x] /\ lockedUntil'[x] = lockedUntil[x]
      BY Zenon, <1>0, <1>2, <2>2 DEF AuthTypes
    <3>2. InFlight(x)' = InFlight(x)
      BY Zenon, <1>0, <2>2, EndsCounts
    <3> QED BY Zenon, <1>0, <3>1, <3>2 DEF BucketsBounded
  <2> QED BY Zenon, <2>1, <2>2
<1>5. \A x \in Sources : PeersOf(x)' = PeersOf(x)
    BY Zenon DEF PeersOf
<1>6. BucketsBounded'
    BY Zenon, <1>4, <1>5 DEF BucketsBounded
<1> QED BY Zenon, <1>3, <1>6 DEF LimiterInv

\* An attempt that ends with neither, a key offered and challenged.
LEMMA NeitherKeeps ==
    ASSUME LimiterInv, NEW c \in AuthConns, Ends(c), UNCHANGED <<clock, limiterVars>>
    PROVE  LimiterInv'
<1>0. AuthTypes /\ BucketsBounded
    BY Zenon DEF LimiterInv
<1>1. UNCHANGED <<clock, tracked, failures, lockedUntil>>
    BY Zenon DEF limiterVars
<1>2. MaxFailures \in Nat \ {0} /\ SourceOf[c] \in Sources
    BY Zenon, AuthAssumption
<1>3. AuthTypes'
    BY Zenon, <1>0, <1>1, EndsCounts DEF AuthTypes
<1>4. \A x \in Sources : Cardinality(InFlight(x)') \in Nat /\ Cardinality(InFlight(x)') <= Cardinality(InFlight(x))
  <2> TAKE x \in Sources
  <2>1. Cardinality(InFlight(x)) \in Nat
    BY Zenon, <1>0, InFlightFinite
  <2>2. CASE x # SourceOf[c]
    <3>1. InFlight(x)' = InFlight(x)
      BY Zenon, <1>0, <2>2, EndsCounts
    <3> QED BY <2>1, <3>1
  <2>3. CASE x = SourceOf[c]
    <3>1. InFlight(x)' \subseteq InFlight(x)
      BY Zenon, <1>0 DEF InFlight, Ends, AuthTypes
    <3>2. IsFiniteSet(InFlight(x))
      BY Zenon, <1>0, InFlightFinite
    <3>3. IsFiniteSet(InFlight(x)') /\ Cardinality(InFlight(x)') <= Cardinality(InFlight(x))
      BY Zenon, <3>1, <3>2, FS_Subset
    <3> QED BY Zenon, <3>3, FS_CardinalityType
  <2> QED BY Zenon, <2>2, <2>3
<1>5. ASSUME NEW x \in Sources
      PROVE  /\ lockedUntil'[x] = 0 => Len(failures'[x]) <= MaxFailures - 1
             /\ lockedUntil'[x] # 0 =>
                    Len(failures'[x]) + Cardinality(InFlight(x)') <= MaxFailures - 1 + PeersOf(x)
  <2> DEFINE k == Cardinality(InFlight(x))
             k2 == Cardinality(InFlight(x)')
             p == PeersOf(x)
             n == Len(failures[x])
  <2>1. k \in Nat /\ p \in Nat /\ k2 \in Nat /\ k2 <= k
    BY Zenon, <1>0, <1>4, InFlightFinite
  <2>2. n \in Nat
    BY <1>0 DEF AuthTypes
  <2>3. /\ lockedUntil[x] = 0 => n <= MaxFailures - 1
        /\ lockedUntil[x] # 0 => n + k <= MaxFailures - 1 + p
    BY Zenon, <1>0 DEF BucketsBounded
  <2> HIDE DEF k, k2, p, n
  <2>4. lockedUntil[x] # 0 => n + k2 <= MaxFailures - 1 + p
    BY <1>2, <2>1, <2>2, <2>3
  <2> QED BY Zenon, <1>1, <2>3, <2>4 DEF n, k2, p
<1>6. \A x \in Sources : PeersOf(x)' = PeersOf(x)
    BY Zenon DEF PeersOf
<1>7. BucketsBounded'
    BY Zenon, <1>5, <1>6 DEF BucketsBounded
<1> QED BY Zenon, <1>3, <1>7 DEF LimiterInv

\* check admits an attempt only to a bucket that is not locked, or no longer.
LEMMA AdmitKeeps ==
    ASSUME LimiterInv, NEW c \in AuthConns, Admit(c)
    PROVE  LimiterInv'
<1> DEFINE s == SourceOf[c]
<1>0. AuthTypes /\ BucketsBounded
    BY Zenon DEF LimiterInv
<1>1. s \in Sources /\ MaxFailures \in Nat \ {0}
    BY Zenon, AuthAssumption
<1>2. /\ attempt' = [attempt EXCEPT ![c] = TRUE] /\ clock' = clock /\ tracked' = tracked
      /\ failures' = [failures EXCEPT ![s] = IF lockedUntil[s] # 0 THEN <<>> ELSE @]
      /\ lockedUntil' = [lockedUntil EXCEPT ![s] = 0]
    BY Zenon DEF Admit, check
<1>3. AuthTypes'
  <2>1. <<>> \in Seq(Nat)
    OBVIOUS
  <2> QED BY Zenon, <1>0, <1>1, <1>2, <2>1 DEF AuthTypes
<1>4. ASSUME NEW x \in Sources
      PROVE  /\ lockedUntil'[x] = 0 => Len(failures'[x]) <= MaxFailures - 1
             /\ lockedUntil'[x] # 0 =>
                    Len(failures'[x]) + Cardinality(InFlight(x)') <= MaxFailures - 1 + PeersOf(x)
  <2>1. CASE x = s
    <3>1. lockedUntil'[x] = 0 /\ failures'[x] = IF lockedUntil[s] # 0 THEN <<>> ELSE failures[s]
      BY Zenon, <1>0, <1>1, <1>2, <2>1 DEF AuthTypes
    <3>2. Len(<<>>) = 0
      BY Zenon
    <3>3. lockedUntil[s] = 0 => Len(failures[s]) <= MaxFailures - 1
      BY Zenon, <1>0, <1>1 DEF BucketsBounded
    <3>4. 0 <= MaxFailures - 1
      BY <1>1
    <3> QED BY Zenon, <3>1, <3>2, <3>3, <3>4
  <2>2. CASE x # s
    <3>1. failures'[x] = failures[x] /\ lockedUntil'[x] = lockedUntil[x]
      BY Zenon, <1>0, <1>2, <2>2 DEF AuthTypes
    <3>2. InFlight(x)' = InFlight(x)
      BY Zenon, <1>0, <1>2, <2>2 DEF InFlight, AuthTypes
    <3> QED BY Zenon, <1>0, <3>1, <3>2 DEF BucketsBounded
  <2> QED BY Zenon, <2>1, <2>2
<1>5. \A x \in Sources : PeersOf(x)' = PeersOf(x)
    BY Zenon DEF PeersOf
<1>6. BucketsBounded'
    BY Zenon, <1>4, <1>5 DEF BucketsBounded
<1> QED BY Zenon, <1>3, <1>6 DEF LimiterInv

\* Steps that leave the limiter and the attempts alone.
LEMMA ElsewhereKeeps ==
    ASSUME LimiterInv, UNCHANGED <<tracked, failures, lockedUntil, attempt>>, clock' \in Nat \ {0}
    PROVE  LimiterInv'
<1>1. \A s \in Sources : InFlight(s)' = InFlight(s) /\ PeersOf(s)' = PeersOf(s)
    BY Zenon DEF InFlight, PeersOf
<1>2. BucketsBounded'
    BY Zenon, <1>1 DEF LimiterInv, BucketsBounded
<1>3. AuthTypes'
    BY Zenon DEF LimiterInv, AuthTypes
<1> QED BY Zenon, <1>2, <1>3 DEF LimiterInv

\* The invariant of the limiter holds at the start.
LEMMA LimiterInitInv == AuthInit => LimiterInv
<1> SUFFICES ASSUME AuthInit PROVE LimiterInv
    BY Zenon
<1>1. /\ clock = 1 /\ tracked = {} /\ failures = [s \in Sources |-> <<>>]
      /\ lockedUntil = [s \in Sources |-> 0] /\ attempt = [c \in AuthConns |-> FALSE]
    BY Zenon DEF AuthInit
<1>2. <<>> \in Seq(Nat) /\ Len(<<>>) = 0
    OBVIOUS
<1>3. AuthTypes
    BY <1>1, <1>2 DEF AuthTypes
<1>4. BucketsBounded
    BY <1>1, <1>2, AuthAssumption DEF BucketsBounded
<1> QED BY Zenon, <1>3, <1>4 DEF LimiterInv

\* Every step keeps the invariant of the limiter.
LEMMA LimiterNextInv == LimiterInv /\ [AuthNext]_authVars => LimiterInv'
<1> SUFFICES ASSUME LimiterInv, [AuthNext]_authVars PROVE LimiterInv'
    BY Zenon
<1>0. clock \in Nat \ {0}
    BY Zenon DEF LimiterInv, AuthTypes
<1>1. CASE AuthTick
    BY <1>0, <1>1, ElsewhereKeeps DEF AuthTick, limiterVars
<1>2. ASSUME NEW c \in AuthConns, ClientHello(c) \/ RateLimited(c) PROVE LimiterInv'
    BY Zenon, <1>0, <1>2, ElsewhereKeeps DEF ClientHello, RateLimited, limiterVars
<1>3. ASSUME NEW c \in AuthConns, Admit(c) PROVE LimiterInv'
    BY Zenon, <1>3, AdmitKeeps
<1>4. ASSUME NEW c \in AuthConns, NEW g, PresentGrant(c, g) PROVE LimiterInv'
    BY Zenon, <1>4, SuccessKeeps, FailureKeeps DEF PresentGrant, succeed
<1>5. ASSUME NEW c \in AuthConns, NEW u, NEW k, OfferKey(c, u, k) PROVE LimiterInv'
    BY Zenon, <1>5, NeitherKeeps, FailureKeeps DEF OfferKey
<1>6. ASSUME NEW c \in AuthConns, NEW sig, ProveKey(c, sig) PROVE LimiterInv'
    BY Zenon, <1>6, SuccessKeeps, FailureKeeps DEF ProveKey, succeed_issuing_grant, succeed
<1>7. ASSUME NEW c \in AuthConns, NEW u, CheckPassword(c, u) PROVE LimiterInv'
    BY Zenon, <1>7, SuccessKeeps, FailureKeeps DEF CheckPassword, succeed_issuing_grant, succeed
<1>8. ASSUME NEW c \in AuthConns, NoMethod(c) PROVE LimiterInv'
    BY Zenon, <1>8, FailureKeeps DEF NoMethod
<1>9. CASE UNCHANGED authVars
    BY Zenon, <1>0, <1>9, ElsewhereKeeps DEF authVars, limiterVars
<1> QED BY Zenon, <1>1, <1>2, <1>3, <1>4, <1>5, <1>6, <1>7, <1>8, <1>9 DEF AuthNext

\* However the connections of a source interleave their attempts with each
\* other's and with the lockout, its bucket holds at most one failure over
\* the limit for every other connection (RateLimiter::check and
\* record_failure, crates/daemon/src/auth.rs).
THEOREM FailuresStayBounded == AuthSpec => []FailuresBounded
<1>1. LimiterInv => FailuresBounded
  <2> SUFFICES ASSUME LimiterInv, NEW s \in Sources
               PROVE  Len(failures[s]) <= MaxFailures - 1 + PeersOf(s)
      BY Zenon DEF FailuresBounded
  <2> DEFINE k == Cardinality(InFlight(s))
             p == PeersOf(s)
             n == Len(failures[s])
  <2>1. AuthTypes /\ BucketsBounded
    BY Zenon DEF LimiterInv
  <2>2. k \in Nat /\ p \in Nat
    BY Zenon, <2>1, InFlightFinite
  <2>3. n \in Nat /\ lockedUntil[s] \in Nat
    BY <2>1 DEF AuthTypes
  <2>4. n <= MaxFailures - 1 \/ n + k <= MaxFailures - 1 + p
    BY Zenon, <2>1 DEF BucketsBounded
  <2> HIDE DEF k, p, n
  <2>5. n <= MaxFailures - 1 + p
    BY <2>2, <2>3, <2>4, AuthAssumption
  <2> QED BY Zenon, <2>5 DEF n, p
<1> QED BY <1>1, LimiterInitInv, LimiterNextInv, PTL DEF AuthSpec
-----------------------------------------------------------------------------
(* Whom a connection speaks for.                                           *)

\* The tables have an entry for every connection, and a scope comes from a
\* grant whether or not its connection is authenticated.
GrantInv ==
    /\ authenticated \in [AuthConns -> BOOLEAN]
    /\ DOMAIN userId = AuthConns /\ userId = [c \in AuthConns |-> userId[c]]
    /\ DOMAIN opScope = AuthConns /\ opScope = [c \in AuthConns |-> opScope[c]]
    /\ \A c \in AuthConns : authenticated[c] => \E g \in grants : g.sub = userId[c]
    /\ \A c \in AuthConns : opScope[c] # {} => \E g \in grants : g.ops = opScope[c]

\* A step that speaks for nobody new.
LEMMA NobodyNewKeeps ==
    ASSUME GrantInv, UNCHANGED <<authenticated, userId, opScope, grants>>
    PROVE  GrantInv'
  BY Zenon DEF GrantInv

\* succeed, for a user some grant names.
LEMMA SucceedGrant ==
    ASSUME GrantInv, NEW c \in AuthConns, NEW u, succeed(c, u), grants \subseteq grants',
           \E g \in grants' : g.sub = u,
           \/ opScope' = opScope
           \/ \E g \in grants' : opScope' = [opScope EXCEPT ![c] = g.ops]
    PROVE  GrantInv'
<1>1. /\ authenticated' = [authenticated EXCEPT ![c] = TRUE]
      /\ userId' = [userId EXCEPT ![c] = u]
    BY Zenon DEF succeed
<1>2. /\ authenticated' \in [AuthConns -> BOOLEAN]
      /\ DOMAIN userId' = AuthConns /\ userId' = [x \in AuthConns |-> userId'[x]]
      /\ userId'[c] = u /\ \A x \in AuthConns : x # c => userId'[x] = userId[x]
      /\ \A x \in AuthConns : x # c => authenticated'[x] = authenticated[x]
    BY Zenon, <1>1 DEF GrantInv
<1>3. \A x \in AuthConns : authenticated'[x] => \E g \in grants' : g.sub = userId'[x]
    BY <1>2 DEF GrantInv
<1>4. /\ DOMAIN opScope' = AuthConns /\ opScope' = [x \in AuthConns |-> opScope'[x]]
      /\ \A x \in AuthConns : opScope'[x] # {} => \E g \in grants' : g.ops = opScope'[x]
  <2>1. CASE opScope' = opScope
    BY Zenon, <2>1 DEF GrantInv
  <2>2. ASSUME NEW h \in grants', opScope' = [opScope EXCEPT ![c] = h.ops]
        PROVE  /\ DOMAIN opScope' = AuthConns /\ opScope' = [x \in AuthConns |-> opScope'[x]]
               /\ \A x \in AuthConns : opScope'[x] # {} => \E g \in grants' : g.ops = opScope'[x]
    BY Zenon, <2>2 DEF GrantInv
  <2> QED BY Zenon, <2>1, <2>2
<1> QED BY Zenon, <1>2, <1>3, <1>4 DEF GrantInv

\* Every step keeps what a connection speaks for within what was proved.
LEMMA GrantNextInv == GrantInv /\ [AuthNext]_authVars => GrantInv'
<1> SUFFICES ASSUME GrantInv, [AuthNext]_authVars PROVE GrantInv'
    BY Zenon
<1>1. CASE AuthTick
    BY Zenon, <1>1, NobodyNewKeeps DEF AuthTick, connVars
<1>2. ASSUME NEW c \in AuthConns, ClientHello(c) \/ RateLimited(c) \/ Admit(c) \/ NoMethod(c)
      PROVE  GrantInv'
    BY Zenon, <1>2, NobodyNewKeeps DEF ClientHello, RateLimited, Admit, NoMethod, connVars
<1>3. ASSUME NEW c \in AuthConns, NEW g, PresentGrant(c, g) PROVE GrantInv'
  <2>1. CASE verify(g) /\ succeed(c, g.sub) /\ opScope' = [opScope EXCEPT ![c] = g.ops]
    <3>1. g \in grants /\ grants' = grants
      BY Zenon, <1>3, <2>1 DEF PresentGrant, verify
    <3> QED BY ZenonT(20), <2>1, <3>1, SucceedGrant
  <2>2. CASE UNCHANGED <<authenticated, userId, opScope>>
    BY Zenon, <1>3, <2>2, NobodyNewKeeps DEF PresentGrant
  <2> QED BY Zenon, <1>3, <2>1, <2>2 DEF PresentGrant
<1>4. ASSUME NEW c \in AuthConns, NEW u, NEW k, OfferKey(c, u, k) PROVE GrantInv'
    BY Zenon, <1>4, NobodyNewKeeps DEF OfferKey
<1>5. ASSUME NEW c \in AuthConns, NEW u, succeed_issuing_grant(c, u), opScope' = opScope
      PROVE  GrantInv'
  <2> DEFINE new == [sub |-> u, iat |-> clock, exp |-> clock + GrantLife, ops |-> {}]
  <2>1. succeed(c, u) /\ grants' = grants \cup {new}
    BY Zenon, <1>5 DEF succeed_issuing_grant
  <2>2. new.sub = u
    BY Zenon
  <2> HIDE DEF new
  <2> QED BY Zenon, <1>5, <2>1, <2>2, SucceedGrant
<1>6. ASSUME NEW c \in AuthConns, NEW sig, ProveKey(c, sig) PROVE GrantInv'
    BY Zenon, <1>5, <1>6, NobodyNewKeeps DEF ProveKey
<1>7. ASSUME NEW c \in AuthConns, NEW u, CheckPassword(c, u) PROVE GrantInv'
    BY Zenon, <1>5, <1>7, NobodyNewKeeps DEF CheckPassword
<1>8. CASE UNCHANGED authVars
    BY Zenon, <1>8, NobodyNewKeeps DEF authVars, connVars
<1> QED BY Zenon, <1>1, <1>2, <1>3, <1>4, <1>6, <1>7, <1>8 DEF AuthNext

\* Whoever a connection speaks for, a grant of this daemon names: the user
\* was proved by a key or a password here or when the grant was earned, and
\* a scope is some grant's (handle_authenticate, crates/daemon/src/conn.rs).
THEOREM GrantedUsersAreProved == AuthSpec => []GrantedUsersProved
<1>1. AuthInit => GrantInv
    BY Zenon DEF AuthInit, GrantInv
<1>2. GrantInv => GrantedUsersProved
    BY Zenon DEF GrantInv, GrantedUsersProved
<1> QED BY <1>1, <1>2, GrantNextInv, PTL DEF AuthSpec

-----------------------------------------------------------------------------
(* A stream attached to an agent's shell.                                  *)

Kinds == {"exit", "chunk", "attached", "refused", "reset", "history chunk", "history end",
          "not running", "exited", "too slow", "expired"}
Events == [kind : Kinds, n : Nat]
Stages == {"closed", "opened", "serving", "ended"}

AttachTypes ==
    /\ stage \in [Streams -> Stages] /\ told \in [Streams -> Kinds \cup {"", "left"}]
    /\ lease \in [Streams -> BOOLEAN]
    /\ base \in [Streams -> Nat] /\ got \in [Streams -> Nat] /\ printed \in Nat
    /\ outbox \in [Streams -> Seq(Events)] /\ bridge \in [Streams -> Seq(Events)]
    /\ chunks \in [Streams -> Seq(Events)]

\* The three queues carry the chunks a + 1 to x, x + 1 to y and y + 1 to z; an
\* attachment that has its place has been given everything printed.
Flows(out, br, ch, a, leased, p) ==
    \E x, y, z \in 0 .. p :
        /\ a <= x /\ x <= y /\ y <= z /\ z <= p
        /\ InTurn(out, a, x) /\ InTurn(br, x, y) /\ InTurn(ch, y, z)
        /\ leased => z = p

\* A stream that is not served yet has nothing queued.
Fresh(s) ==
    stage[s] \in {"closed", "opened"} =>
        /\ outbox[s] = <<>> /\ bridge[s] = <<>> /\ chunks[s] = <<>>
        /\ ~lease[s] /\ told[s] = ""

\* The answer to attach_shell is the first thing the gateway hears, once.
Greeted(s) ==
    stage[s] = "serving" =>
        /\ told[s] = "" => outbox[s] # <<>> /\ outbox[s][1].kind = "attached"
        /\ \A i \in 1 .. Len(outbox[s]) :
               outbox[s][i].kind = "attached" => i = 1 /\ told[s] = ""

StreamInv(s) ==
    /\ Fresh(s) /\ Greeted(s)
    /\ lease[s] => stage[s] = "serving"
    /\ stage[s] = "serving" =>
           Flows(outbox[s], bridge[s], chunks[s], Received(s), lease[s], printed)

AttachInv == AttachTypes /\ \A s \in Streams : StreamInv(s)
\* What Append, Head and Tail of a queue of events are.
LEMMA QueueFacts ==
    ASSUME NEW q \in Seq(Events), NEW e \in Events
    PROVE  /\ Append(q, e) \in Seq(Events) /\ Len(Append(q, e)) = Len(q) + 1
           /\ Append(q, e)[Len(q) + 1] = e
           /\ \A i \in 1 .. Len(q) : Append(q, e)[i] = q[i]
           /\ \A i \in 1 .. Len(q) : q[i] \in Events
           /\ Len(q) \in Nat
           /\ q # <<>> => /\ Tail(q) \in Seq(Events) /\ Len(Tail(q)) = Len(q) - 1
                          /\ Head(q) = q[1] /\ Len(q) >= 1
                          /\ \A i \in 1 .. Len(q) - 1 : Tail(q)[i] = q[i + 1]
  OBVIOUS

\* One is an index of a sequence that is not empty.
LEMMA FirstOf == \A m \in Nat : m >= 1 => 1 \in 1 .. m
  OBVIOUS

\* The element with the least number is the first.
LEMMA NoneBefore ==
    ASSUME NEW a \in Nat, NEW b \in Nat, NEW m \in Nat, NEW k \in 1 .. m,
           NEW x \in (a + 1) .. b, 1 < k => x < a + 1
    PROVE  k = 1
  OBVIOUS

\* A number above the first of an interval lies in its rest.
LEMMA OneOn ==
    ASSUME NEW a \in Nat, NEW b \in Nat, NEW x \in (a + 1) .. b, a + 1 < x
    PROVE  x \in (a + 2) .. b
  OBVIOUS

\* Numbers of an interval lie below those of the next one.
LEMMA InParts ==
    ASSUME NEW a \in Nat, NEW x \in Nat, NEW b \in Nat
    PROVE  \A k \in (a + 1) .. x, l \in (x + 1) .. b : k < l
  OBVIOUS

\* Indices of two sequences are indices of their concatenation.
LEMMA IndexOfPart ==
    ASSUME NEW m \in Nat, NEW n \in Nat
    PROVE  /\ \A i \in 1 .. m : i \in 1 .. (m + n)
           /\ \A i \in 1 .. n : m + i \in 1 .. (m + n)
  OBVIOUS

\* An empty queue carries no chunk.
LEMMA EmptyInTurn ==
    ASSUME NEW a \in Nat
    PROVE  InTurn(<<>>, a, a)
  BY DEF InTurn

\* The next chunk joins the end of a queue.
LEMMA ChunkJoins ==
    ASSUME NEW q \in Seq(Events), NEW a \in Nat, NEW b \in Nat, a <= b, InTurn(q, a, b)
    PROVE  InTurn(Append(q, Chunk(b + 1)), a, b + 1)
  <1> DEFINE e == Chunk(b + 1)
  <1>0. b + 1 \in Nat
    OBVIOUS
  <1>1. e \in Events /\ e.kind = "chunk" /\ e.n = b + 1
    BY <1>0, ZenonT(20) DEF Chunk, Events, Kinds
  <1> DEFINE r == Append(q, e)
  <1>2. /\ Len(r) = Len(q) + 1 /\ r[Len(q) + 1] = e /\ Len(q) \in Nat
        /\ \A i \in 1 .. Len(q) : r[i] = q[i]
    BY Zenon, <1>1, QueueFacts
  <1> HIDE DEF r
  <1>3. \A i \in 1 .. Len(r) : r[i].kind = "chunk" => r[i].n \in (a + 1) .. (b + 1)
    <2> SUFFICES ASSUME NEW i \in 1 .. Len(r), r[i].kind = "chunk"
                 PROVE  r[i].n \in (a + 1) .. (b + 1)
      BY Zenon
    <2> HIDE DEF e
    <2>1. CASE i = Len(q) + 1
      BY SMTT(20), <2>1, <1>1, <1>2
    <2>2. CASE i \in 1 .. Len(q)
      <3>1. r[i] = q[i] /\ q[i].n \in (a + 1) .. b
        BY Zenon, <2>2, <1>2 DEF InTurn
      <3> QED
        BY SMTT(20), <3>1
    <2> QED
      BY <2>1, <2>2, <1>2
  <1>4. \A i, j \in 1 .. Len(r) :
            i < j /\ r[i].kind = "chunk" /\ r[j].kind = "chunk" => r[i].n < r[j].n
    <2> SUFFICES ASSUME NEW i \in 1 .. Len(r), NEW j \in 1 .. Len(r), i < j,
                        r[i].kind = "chunk", r[j].kind = "chunk"
                 PROVE  r[i].n < r[j].n
      BY Zenon
    <2>1. i \in 1 .. Len(q) /\ r[i] = q[i]
      BY <1>2
    <2>2. q[i].n \in (a + 1) .. b
      BY Zenon, <2>1 DEF InTurn
    <2>3. CASE j = Len(q) + 1
      BY SMTT(20), <2>1, <2>2, <2>3, <1>1, <1>2
    <2>4. CASE j \in 1 .. Len(q)
      BY Zenon, <2>1, <2>4, <1>2 DEF InTurn
    <2> QED
      BY <2>3, <2>4, <1>2
  <1>5. \A m \in (a + 1) .. (b + 1) : \E i \in 1 .. Len(r) : r[i] = Chunk(m)
    <2> SUFFICES ASSUME NEW m \in (a + 1) .. (b + 1)
                 PROVE  \E i \in 1 .. Len(r) : r[i] = Chunk(m)
      BY Zenon
    <2>1. CASE m = b + 1
      BY <2>1, <1>2
    <2>2. CASE m \in (a + 1) .. b
      <3>1. PICK i \in 1 .. Len(q) : q[i] = Chunk(m)
        BY Zenon, <2>2 DEF InTurn
      <3> QED
        BY <3>1, <1>2
    <2> QED
      BY <2>1, <2>2
  <1> QED
    BY ZenonT(20), <1>3, <1>4, <1>5 DEF InTurn, r

\* What is not a chunk joins the end of a queue.
LEMMA OtherJoins ==
    ASSUME NEW q \in Seq(Events), NEW a \in Nat, NEW b \in Nat, InTurn(q, a, b),
           NEW e \in Events, e.kind # "chunk"
    PROVE  InTurn(Append(q, e), a, b)
  <1> DEFINE r == Append(q, e)
  <1>2. /\ Len(r) = Len(q) + 1 /\ r[Len(q) + 1] = e /\ Len(q) \in Nat
        /\ \A i \in 1 .. Len(q) : r[i] = q[i]
    BY Zenon, QueueFacts
  <1> HIDE DEF r
  <1>1. \A i \in 1 .. Len(r) : r[i].kind = "chunk" => i \in 1 .. Len(q) /\ r[i] = q[i]
    BY <1>2
  <1>3. \A m \in (a + 1) .. b : \E i \in 1 .. Len(r) : r[i] = Chunk(m)
    <2> SUFFICES ASSUME NEW m \in (a + 1) .. b
                 PROVE  \E i \in 1 .. Len(r) : r[i] = Chunk(m)
      BY Zenon
    <2>1. PICK i \in 1 .. Len(q) : q[i] = Chunk(m)
      BY Zenon DEF InTurn
    <2> QED
      BY <2>1, <1>2
  <1> QED
    BY ZenonT(20), <1>1, <1>3 DEF InTurn, r

\* A chunk at the head of a queue is the next one.
LEMMA ChunkLeaves ==
    ASSUME NEW q \in Seq(Events), NEW a \in Nat, NEW b \in Nat, a <= b, InTurn(q, a, b),
           q # <<>>, Head(q).kind = "chunk"
    PROVE  a < b /\ Head(q) = Chunk(a + 1) /\ InTurn(Tail(q), a + 1, b)
  <1> DEFINE r == Tail(q)
  <1>1. /\ Len(r) = Len(q) - 1 /\ Len(q) \in Nat /\ Len(q) >= 1 /\ Head(q) = q[1]
        /\ \A i \in 1 .. Len(q) - 1 : r[i] = q[i + 1]
        /\ \A i \in 1 .. Len(q) : q[i] \in Events
    <2>1. ExitEvent \in Events
      BY ZenonT(20) DEF ExitEvent, Events, Kinds
    <2> QED
      BY Zenon, <2>1, QueueFacts
  <1> HIDE DEF r
  <1>2. q[1].kind = "chunk" /\ q[1].n \in (a + 1) .. b
    BY <1>1 DEF InTurn
  <1>3. a < b
    BY <1>2
  <1>4. PICK k \in 1 .. Len(q) : q[k] = Chunk(a + 1)
    BY <1>3 DEF InTurn
  <1>5. q[k].kind = "chunk" /\ q[k].n = a + 1
    BY <1>4 DEF Chunk
  <1>6. k = 1
    <2>1. 1 \in 1 .. Len(q)
      BY Zenon, <1>1, FirstOf
    <2>2. 1 < k => q[1].n < a + 1
      BY Zenon, <1>2, <1>5, <2>1 DEF InTurn
    <2> QED
      BY Zenon, <2>2, <1>1, <1>2, NoneBefore
  <1>7. \A i \in 1 .. Len(r) : r[i].kind = "chunk" => r[i].n \in (a + 2) .. b
    <2> SUFFICES ASSUME NEW i \in 1 .. Len(r), r[i].kind = "chunk"
                 PROVE  r[i].n \in (a + 2) .. b
      BY Zenon
    <2>1. i + 1 \in 1 .. Len(q) /\ 1 \in 1 .. Len(q) /\ 1 < i + 1 /\ r[i] = q[i + 1]
      BY SMTT(20), <1>1
    <2>2. q[1].n < q[i + 1].n /\ q[i + 1].n \in (a + 1) .. b
      BY Zenon, <2>1, <1>2 DEF InTurn
    <2>3. a + 1 < q[i + 1].n
      BY Zenon, <2>2, <1>5, <1>6
    <2> QED
      BY Zenon, <2>1, <2>2, <2>3, OneOn
  <1>8. \A i, j \in 1 .. Len(r) :
            i < j /\ r[i].kind = "chunk" /\ r[j].kind = "chunk" => r[i].n < r[j].n
    <2> SUFFICES ASSUME NEW i \in 1 .. Len(r), NEW j \in 1 .. Len(r), i < j,
                        r[i].kind = "chunk", r[j].kind = "chunk"
                 PROVE  r[i].n < r[j].n
      BY Zenon
    <2>1. /\ i + 1 \in 1 .. Len(q) /\ j + 1 \in 1 .. Len(q) /\ i + 1 < j + 1
          /\ r[i] = q[i + 1] /\ r[j] = q[j + 1]
      BY <1>1
    <2> QED
      BY Zenon, <2>1 DEF InTurn
  <1>9. \A m \in (a + 2) .. b : \E i \in 1 .. Len(r) : r[i] = Chunk(m)
    <2> SUFFICES ASSUME NEW m \in (a + 2) .. b
                 PROVE  \E i \in 1 .. Len(r) : r[i] = Chunk(m)
      BY Zenon
    <2>1. PICK i \in 1 .. Len(q) : q[i] = Chunk(m)
      BY DEF InTurn
    <2>2. q[i].n = m
      BY SMTT(20), <2>1 DEF Chunk
    <2>3. i # 1
      BY SMTT(20), <2>2, <1>5, <1>6
    <2>4. i - 1 \in 1 .. Len(r) /\ r[i - 1] = q[i]
      BY <2>3, <1>1
    <2> QED
      BY Zenon, <2>1, <2>4
  <1>10. InTurn(r, a + 1, b)
    <2>1. (a + 1) + 1 = a + 2
      OBVIOUS
    <2> QED
      BY Zenon, <2>1, <1>7, <1>8, <1>9 DEF InTurn
  <1> QED
    BY Zenon, <1>1, <1>3, <1>4, <1>6, <1>10 DEF r

\* Taking what is not a chunk from the head of a queue loses nothing.
LEMMA OtherLeaves ==
    ASSUME NEW q \in Seq(Events), NEW a \in Nat, NEW b \in Nat, InTurn(q, a, b),
           q # <<>>, Head(q).kind # "chunk"
    PROVE  InTurn(Tail(q), a, b)
  <1> DEFINE r == Tail(q)
  <1>1. /\ Len(r) = Len(q) - 1 /\ Len(q) \in Nat /\ Len(q) >= 1 /\ Head(q) = q[1]
        /\ \A i \in 1 .. Len(q) - 1 : r[i] = q[i + 1]
    <2>1. ExitEvent \in Events
      BY ZenonT(20) DEF ExitEvent, Events, Kinds
    <2> QED
      BY Zenon, <2>1, QueueFacts
  <1> HIDE DEF r
  <1>2. \A i \in 1 .. Len(r) : i + 1 \in 1 .. Len(q) /\ r[i] = q[i + 1]
    BY <1>1
  <1>3. \A i \in 1 .. Len(r) : r[i].kind = "chunk" => r[i].n \in (a + 1) .. b
    BY Zenon, <1>2 DEF InTurn
  <1>4. \A i, j \in 1 .. Len(r) :
            i < j /\ r[i].kind = "chunk" /\ r[j].kind = "chunk" => r[i].n < r[j].n
    <2> SUFFICES ASSUME NEW i \in 1 .. Len(r), NEW j \in 1 .. Len(r), i < j,
                        r[i].kind = "chunk", r[j].kind = "chunk"
                 PROVE  r[i].n < r[j].n
      BY Zenon
    <2>1. /\ i + 1 \in 1 .. Len(q) /\ j + 1 \in 1 .. Len(q) /\ i + 1 < j + 1
          /\ r[i] = q[i + 1] /\ r[j] = q[j + 1]
      BY <1>1
    <2> QED
      BY Zenon, <2>1 DEF InTurn
  <1>5. \A m \in (a + 1) .. b : \E i \in 1 .. Len(r) : r[i] = Chunk(m)
    <2> SUFFICES ASSUME NEW m \in (a + 1) .. b
                 PROVE  \E i \in 1 .. Len(r) : r[i] = Chunk(m)
      BY Zenon
    <2>1. PICK i \in 1 .. Len(q) : q[i] = Chunk(m)
      BY Zenon DEF InTurn
    <2>2. q[i].kind = "chunk"
      BY <2>1 DEF Chunk
    <2>3. i # 1
      BY Zenon, <2>2, <1>1
    <2>4. i - 1 \in 1 .. Len(r) /\ r[i - 1] = q[i]
      BY <2>3, <1>1
    <2> QED
      BY Zenon, <2>1, <2>4
  <1> QED
    BY Zenon, <1>3, <1>4, <1>5 DEF InTurn, r

\* Two queues one after the other.
LEMMA QueuesJoin ==
    ASSUME NEW p \in Seq(Events), NEW q \in Seq(Events), NEW a \in Nat, NEW x \in Nat,
           NEW b \in Nat, a <= x, x <= b, InTurn(p, a, x), InTurn(q, x, b)
    PROVE  p \o q \in Seq(Events) /\ InTurn(p \o q, a, b)
  <1> DEFINE r == p \o q
  <1>1. /\ r \in Seq(Events) /\ Len(r) = Len(p) + Len(q) /\ Len(p) \in Nat /\ Len(q) \in Nat
        /\ \A i \in 1 .. Len(p) : r[i] = p[i]
        /\ \A i \in 1 .. Len(q) : r[Len(p) + i] = q[i]
    OBVIOUS
  <1> HIDE DEF r
  <1>2. \A i \in 1 .. Len(r) : \/ i \in 1 .. Len(p) /\ r[i] = p[i]
                               \/ /\ i - Len(p) \in 1 .. Len(q) /\ Len(p) < i
                                  /\ r[i] = q[i - Len(p)]
    <2> SUFFICES ASSUME NEW i \in 1 .. Len(r), ~(i \in 1 .. Len(p))
                 PROVE  /\ i - Len(p) \in 1 .. Len(q) /\ Len(p) < i
                        /\ r[i] = q[i - Len(p)]
      BY Zenon, <1>1
    <2>1. i - Len(p) \in 1 .. Len(q) /\ Len(p) < i /\ Len(p) + (i - Len(p)) = i
      BY SMTT(20), <1>1
    <2> QED
      BY ZenonT(20), <2>1, <1>1
  <1>3. \A i \in 1 .. Len(r) : r[i].kind = "chunk" => r[i].n \in (a + 1) .. b
    <2> SUFFICES ASSUME NEW i \in 1 .. Len(r), r[i].kind = "chunk"
                 PROVE  r[i].n \in (a + 1) .. b
      BY Zenon
    <2>1. r[i].n \in (a + 1) .. x \/ r[i].n \in (x + 1) .. b
      BY Zenon, <1>2 DEF InTurn
    <2> QED
      BY <2>1
  <1>4. \A i, j \in 1 .. Len(r) :
            i < j /\ r[i].kind = "chunk" /\ r[j].kind = "chunk" => r[i].n < r[j].n
    <2> SUFFICES ASSUME NEW i \in 1 .. Len(r), NEW j \in 1 .. Len(r), i < j,
                        r[i].kind = "chunk", r[j].kind = "chunk"
                 PROVE  r[i].n < r[j].n
      BY Zenon
    <2>1. CASE i \in 1 .. Len(p) /\ j \in 1 .. Len(p)
      BY ZenonT(20), <2>1, <1>1 DEF InTurn
    <2>2. CASE i \in 1 .. Len(p) /\ ~(j \in 1 .. Len(p))
      <3>1. r[i] = p[i] /\ j - Len(p) \in 1 .. Len(q) /\ r[j] = q[j - Len(p)]
        BY Zenon, <2>2, <1>1, <1>2
      <3>2. p[i].n \in (a + 1) .. x
        BY Zenon, <3>1, <2>2 DEF InTurn
      <3>3. q[j - Len(p)].n \in (x + 1) .. b
        BY Zenon, <3>1 DEF InTurn
      <3>4. p[i].n < q[j - Len(p)].n
        BY Zenon, <3>2, <3>3, InParts
      <3> QED
        BY Zenon, <3>1, <3>4
    <2>3. CASE ~(i \in 1 .. Len(p))
      <3>1. /\ i - Len(p) \in 1 .. Len(q) /\ j - Len(p) \in 1 .. Len(q)
            /\ i - Len(p) < j - Len(p)
            /\ r[i] = q[i - Len(p)] /\ r[j] = q[j - Len(p)]
        BY SMTT(20), <2>3, <1>1, <1>2
      <3> QED
        BY Zenon, <3>1 DEF InTurn
    <2> QED
      BY Zenon, <2>1, <2>2, <2>3
  <1>5. \A m \in (a + 1) .. b : \E i \in 1 .. Len(r) : r[i] = Chunk(m)
    <2> SUFFICES ASSUME NEW m \in (a + 1) .. b
                 PROVE  \E i \in 1 .. Len(r) : r[i] = Chunk(m)
      BY Zenon
    <2>1. CASE m <= x
      <3>1. PICK i \in 1 .. Len(p) : p[i] = Chunk(m)
        BY <2>1 DEF InTurn
      <3> QED
        BY ZenonT(40), <3>1, <1>1, IndexOfPart
    <2>2. CASE x < m
      <3>1. PICK i \in 1 .. Len(q) : q[i] = Chunk(m)
        BY <2>2 DEF InTurn
      <3>2. Len(p) + i \in 1 .. Len(r) /\ r[Len(p) + i] = q[i]
        BY Zenon, <1>1, IndexOfPart
      <3> QED
        BY ZenonT(40), <3>1, <3>2
    <2> QED
      BY <2>1, <2>2
  <1> QED
    BY ZenonT(20), <1>1, <1>3, <1>4, <1>5 DEF InTurn, r

\* The client's reading of an event keeps the flow.
LEMMA FlowsRead ==
    ASSUME NEW out \in Seq(Events), NEW br \in Seq(Events), NEW ch \in Seq(Events),
           NEW a \in Nat, NEW leased \in BOOLEAN, NEW p \in Nat,
           Flows(out, br, ch, a, leased, p), out # <<>>
    PROVE  IF Head(out).kind = "chunk"
           THEN Head(out).n = a + 1 /\ Flows(Tail(out), br, ch, a + 1, leased, p)
           ELSE Flows(Tail(out), br, ch, a, leased, p)
  <1>1. PICK x, y, z \in 0 .. p :
            /\ a <= x /\ x <= y /\ y <= z /\ z <= p
            /\ InTurn(out, a, x) /\ InTurn(br, x, y) /\ InTurn(ch, y, z)
            /\ leased => z = p
    BY Zenon DEF Flows
  <1>2. x \in Nat /\ y \in Nat /\ z \in Nat
    OBVIOUS
  <1>3. CASE Head(out).kind = "chunk"
    <2>1. a < x /\ Head(out) = Chunk(a + 1) /\ InTurn(Tail(out), a + 1, x)
      BY Zenon, <1>1, <1>2, <1>3, ChunkLeaves
    <2>2. Head(out).n = a + 1
      BY <2>1 DEF Chunk
    <2>3. a + 1 <= x
      BY <1>2, <2>1
    <2>4. Flows(Tail(out), br, ch, a + 1, leased, p)
      BY Zenon, <1>1, <2>1, <2>3 DEF Flows
    <2> QED
      BY Zenon, <1>3, <2>2, <2>4
  <1>4. CASE Head(out).kind # "chunk"
    <2>1. InTurn(Tail(out), a, x)
      BY Zenon, <1>1, <1>2, <1>4, OtherLeaves
    <2>2. Flows(Tail(out), br, ch, a, leased, p)
      BY Zenon, <1>1, <2>1 DEF Flows
    <2> QED
      BY Zenon, <1>4, <2>2
  <1> QED
    BY Zenon, <1>3, <1>4

\* An event without output keeps the flow.
LEMMA FlowsNotice ==
    ASSUME NEW out \in Seq(Events), NEW br \in Seq(Events), NEW ch \in Seq(Events),
           NEW a \in Nat, NEW leased \in BOOLEAN, NEW p \in Nat,
           Flows(out, br, ch, a, leased, p), NEW e \in Events, e.kind # "chunk"
    PROVE  Flows(Append(out, e), br, ch, a, leased, p)
  <1>1. PICK x, y, z \in 0 .. p :
            /\ a <= x /\ x <= y /\ y <= z /\ z <= p
            /\ InTurn(out, a, x) /\ InTurn(br, x, y) /\ InTurn(ch, y, z)
            /\ leased => z = p
    BY Zenon DEF Flows
  <1>2. InTurn(Append(out, e), a, x)
    BY <1>1, OtherJoins
  <1> QED
    BY Zenon, <1>1, <1>2 DEF Flows

\* Passing a chunk from the bridge's queue on to the client keeps the flow.
LEMMA FlowsWrite ==
    ASSUME NEW out \in Seq(Events), NEW br \in Seq(Events), NEW ch \in Seq(Events),
           NEW a \in Nat, NEW leased \in BOOLEAN, NEW p \in Nat,
           Flows(out, br, ch, a, leased, p), br # <<>>, Head(br).kind = "chunk"
    PROVE  Flows(Append(out, Head(br)), Tail(br), ch, a, leased, p)
  <1>1. PICK x, y, z \in 0 .. p :
            /\ a <= x /\ x <= y /\ y <= z /\ z <= p
            /\ InTurn(out, a, x) /\ InTurn(br, x, y) /\ InTurn(ch, y, z)
            /\ leased => z = p
    BY Zenon DEF Flows
  <1>2. x \in Nat /\ y \in Nat /\ z \in Nat
    OBVIOUS
  <1>3. x < y /\ Head(br) = Chunk(x + 1) /\ InTurn(Tail(br), x + 1, y)
    BY Zenon, <1>1, <1>2, ChunkLeaves
  <1>4. InTurn(Append(out, Head(br)), a, x + 1)
    BY Zenon, <1>1, <1>2, <1>3, ChunkJoins
  <1>5. x + 1 \in 0 .. p /\ a <= x + 1 /\ x + 1 <= y
    BY <1>1, <1>2, <1>3
  <1> QED
    BY Zenon, <1>1, <1>3, <1>4, <1>5 DEF Flows

\* Passing an event from the shell's queue on to the bridge keeps the flow.
LEMMA FlowsForward ==
    ASSUME NEW out \in Seq(Events), NEW br \in Seq(Events), NEW ch \in Seq(Events),
           NEW a \in Nat, NEW leased \in BOOLEAN, NEW p \in Nat,
           Flows(out, br, ch, a, leased, p), ch # <<>>
    PROVE  Flows(out, Append(br, Head(ch)), Tail(ch), a, leased, p)
  <1>1. PICK x, y, z \in 0 .. p :
            /\ a <= x /\ x <= y /\ y <= z /\ z <= p
            /\ InTurn(out, a, x) /\ InTurn(br, x, y) /\ InTurn(ch, y, z)
            /\ leased => z = p
    BY Zenon DEF Flows
  <1>2. x \in Nat /\ y \in Nat /\ z \in Nat
    OBVIOUS
  <1>3. CASE Head(ch).kind = "chunk"
    <2>1. y < z /\ Head(ch) = Chunk(y + 1) /\ InTurn(Tail(ch), y + 1, z)
      BY Zenon, <1>1, <1>2, <1>3, ChunkLeaves
    <2>2. InTurn(Append(br, Head(ch)), x, y + 1)
      BY Zenon, <1>1, <1>2, <2>1, ChunkJoins
    <2>3. y + 1 \in 0 .. p /\ x <= y + 1 /\ y + 1 <= z
      BY <1>1, <1>2, <2>1
    <2> QED
      BY Zenon, <1>1, <2>1, <2>2, <2>3 DEF Flows
  <1>4. CASE Head(ch).kind # "chunk"
    <2>1. Head(ch) \in Events
      OBVIOUS
    <2>2. InTurn(Append(br, Head(ch)), x, y)
      BY Zenon, <1>1, <1>2, <1>4, <2>1, OtherJoins
    <2>3. InTurn(Tail(ch), y, z)
      BY Zenon, <1>1, <1>2, <1>4, OtherLeaves
    <2> QED
      BY Zenon, <1>1, <2>2, <2>3 DEF Flows
  <1> QED
    BY Zenon, <1>3, <1>4

\* A printed chunk joins the flow of a stream with a lease.
LEMMA FlowsEmit ==
    ASSUME NEW out \in Seq(Events), NEW br \in Seq(Events), NEW ch \in Seq(Events),
           NEW a \in Nat, NEW p \in Nat, Flows(out, br, ch, a, TRUE, p)
    PROVE  Flows(out, br, Append(ch, Chunk(p + 1)), a, TRUE, p + 1)
  <1>1. PICK x, y, z \in 0 .. p :
            /\ a <= x /\ x <= y /\ y <= z /\ z <= p
            /\ InTurn(out, a, x) /\ InTurn(br, x, y) /\ InTurn(ch, y, z)
            /\ z = p
    BY Zenon DEF Flows
  <1>2. x \in Nat /\ y \in Nat /\ z \in Nat
    OBVIOUS
  <1>3. InTurn(Append(ch, Chunk(p + 1)), y, p + 1)
    BY Zenon, <1>1, <1>2, ChunkJoins
  <1>4. /\ x \in 0 .. p + 1 /\ y \in 0 .. p + 1 /\ p + 1 \in 0 .. p + 1
        /\ y <= p + 1 /\ p + 1 <= p + 1
    BY <1>1
  <1> QED
    BY Zenon, <1>1, <1>3, <1>4 DEF Flows

\* A stream without a lease owes nothing printed later.
LEMMA FlowsUnleased ==
    ASSUME NEW out, NEW br, NEW ch, NEW a \in Nat, NEW leased \in BOOLEAN, NEW p \in Nat,
           Flows(out, br, ch, a, leased, p)
    PROVE  Flows(out, br, ch, a, FALSE, p) /\ Flows(out, br, ch, a, FALSE, p + 1)
  <1>1. PICK x, y, z \in 0 .. p :
            /\ a <= x /\ x <= y /\ y <= z /\ z <= p
            /\ InTurn(out, a, x) /\ InTurn(br, x, y) /\ InTurn(ch, y, z)
            /\ leased => z = p
    BY Zenon DEF Flows
  <1>2. x \in 0 .. p + 1 /\ y \in 0 .. p + 1 /\ z \in 0 .. p + 1 /\ z <= p + 1
    BY <1>1
  <1> QED
    BY Zenon, <1>1, <1>2 DEF Flows

\* The exit keeps the flow and ends the lease.
LEMMA FlowsExit ==
    ASSUME NEW out \in Seq(Events), NEW br \in Seq(Events), NEW ch \in Seq(Events),
           NEW a \in Nat, NEW leased \in BOOLEAN, NEW p \in Nat,
           Flows(out, br, ch, a, leased, p), NEW e \in Events, e.kind # "chunk"
    PROVE  Flows(out, br, Append(ch, e), a, FALSE, p)
  <1>1. PICK x, y, z \in 0 .. p :
            /\ a <= x /\ x <= y /\ y <= z /\ z <= p
            /\ InTurn(out, a, x) /\ InTurn(br, x, y) /\ InTurn(ch, y, z)
            /\ leased => z = p
    BY Zenon DEF Flows
  <1>2. InTurn(Append(ch, e), y, z)
    BY <1>1, OtherJoins
  <1> QED
    BY Zenon, <1>1, <1>2 DEF Flows

\* A stream starts with the answer to its attach and all output before it.
LEMMA FlowsStart ==
    ASSUME NEW p \in Nat
    PROVE  Flows(<<Notice("attached")>>, <<>>, <<>>, p, TRUE, p)
  <1>1. InTurn(<<>>, p, p)
    BY Zenon, EmptyInTurn
  <1>2. InTurn(<<Notice("attached")>>, p, p)
    BY DEF InTurn, Notice
  <1> QED
    BY <1>1, <1>2 DEF Flows

\* Notices, the exit and chunks are events, told apart by their kinds.
LEMMA NoticeFacts ==
    /\ \A k \in Kinds : Notice(k) \in Events /\ Notice(k).kind = k
    /\ ExitEvent \in Events /\ ExitEvent.kind = "exit"
    /\ \A m \in Nat : Chunk(m) \in Events /\ Chunk(m).kind = "chunk" /\ Chunk(m).n = m
  BY ZenonT(20) DEF Notice, ExitEvent, Chunk, Events, Kinds

\* The words used are stages and kinds.
LEMMA WordFacts ==
    /\ "closed" \in Stages /\ "opened" \in Stages /\ "serving" \in Stages
    /\ "ended" \in Stages /\ "attached" \in Kinds /\ "refused" \in Kinds
    /\ "reset" \in Kinds /\ "history chunk" \in Kinds /\ "history end" \in Kinds
    /\ "not running" \in Kinds /\ "exited" \in Kinds /\ "too slow" \in Kinds
    /\ "expired" \in Kinds /\ "" \notin Kinds
    /\ \A k \in Kinds : <<Notice(k)>> \in Seq(Events)
  <1>1. \A e \in Events : <<e>> \in Seq(Events)
    OBVIOUS
  <1>2. \A k \in Kinds : <<Notice(k)>> \in Seq(Events)
    BY Zenon, <1>1, NoticeFacts
  <1> QED
    BY ZenonT(20), <1>2 DEF Stages, Kinds

\* A step that touches nothing of a stream keeps what holds of it.
LEMMA StreamKept ==
    ASSUME NEW t \in Streams, StreamInv(t), stage'[t] = stage[t], told'[t] = told[t],
           lease'[t] = lease[t], base'[t] = base[t], got'[t] = got[t],
           outbox'[t] = outbox[t], bridge'[t] = bridge[t], chunks'[t] = chunks[t],
           printed' = printed
    PROVE  StreamInv(t)'
  BY ZenonT(20) DEF StreamInv, Fresh, Greeted, Received

\* The invariant of the attached streams holds at the start.
LEMMA AttachInitInv == AttachInit => AttachInv
  <1> SUFFICES ASSUME AttachInit PROVE AttachInv
    BY Zenon
  <1>1. AttachTypes
    <2>1. <<>> \in Seq(Events)
      OBVIOUS
    <2>2. /\ outbox \in [Streams -> Seq(Events)] /\ bridge \in [Streams -> Seq(Events)]
          /\ chunks \in [Streams -> Seq(Events)]
      BY ZenonT(20), <2>1 DEF AttachInit
    <2>3. /\ stage \in [Streams -> Stages] /\ told \in [Streams -> Kinds \cup {"", "left"}]
          /\ lease \in [Streams -> BOOLEAN]
      BY WordFacts, ZenonT(20) DEF AttachInit
    <2>4. base \in [Streams -> Nat] /\ got \in [Streams -> Nat] /\ printed \in Nat
      BY ZenonT(20) DEF AttachInit
    <2> QED
      BY ZenonT(20), <2>2, <2>3, <2>4 DEF AttachTypes
  <1>2. \A s \in Streams : StreamInv(s)
    BY ZenonT(20) DEF AttachInit, StreamInv, Fresh, Greeted
  <1> QED
    BY Zenon, <1>1, <1>2 DEF AttachInv

\* serve_attachment returns: the stream is no longer served.
LEMMA ReturnsKeeps ==
    ASSUME AttachInv, NEW s \in Streams, NEW reason, NEW e \in Seq(Events),
           Returns(s, reason, e), UNCHANGED <<chunks, base, got, told, printed>>
    PROVE  AttachInv'
  <1> USE DEF AttachInv
  <1>1. AttachTypes'
    <2>1. outbox' \in [Streams -> Seq(Events)]
      <3>1. outbox[s] \in Seq(Events)
        BY ZenonT(20) DEF AttachTypes
      <3>2. outbox[s] \o e \in Seq(Events)
        BY <3>1
      <3> QED
        BY ZenonT(20), <3>2 DEF AttachTypes, Returns
    <2>2. <<>> \in Seq(Events)
      OBVIOUS
    <2>3. stage' \in [Streams -> Stages]
      BY ZenonT(20), WordFacts DEF AttachTypes, Returns
    <2>4. lease' \in [Streams -> BOOLEAN] /\ bridge' \in [Streams -> Seq(Events)]
      BY ZenonT(20), <2>2 DEF AttachTypes, Returns
    <2> QED
      BY ZenonT(20), <2>1, <2>3, <2>4 DEF AttachTypes
  <1>2. ASSUME NEW t \in Streams PROVE StreamInv(t)'
    <2>1. CASE t = s
      <3>1. stage'[s] = "ended" /\ lease'[s] = FALSE
        BY ZenonT(20) DEF AttachTypes, Returns
      <3> QED
        BY ZenonT(20), <2>1, <3>1 DEF StreamInv, Fresh, Greeted
    <2>2. CASE t # s
      <3>1. /\ stage'[t] = stage[t] /\ lease'[t] = lease[t] /\ outbox'[t] = outbox[t]
            /\ bridge'[t] = bridge[t]
        BY ZenonT(20), <2>2 DEF AttachTypes, Returns
      <3> QED
        BY Zenon, <3>1, StreamKept
    <2> QED
      BY Zenon, <2>1, <2>2
  <1> QED
    BY Zenon, <1>1, <1>2

\* The client's attach keeps the invariant.
LEMMA AttachesKeeps ==
    ASSUME AttachInv, NEW s \in Streams, Attaches(s)
    PROVE  AttachInv'
  <1>1. CASE Returns(s, "refused", <<Notice("refused")>>) /\ UNCHANGED base
    <2>1. <<Notice("refused")>> \in Seq(Events)
      BY ZenonT(20), WordFacts, NoticeFacts
    <2> QED
      BY ZenonT(20), <1>1, <2>1, ReturnsKeeps DEF Attaches, shellVars
  <1>2. CASE /\ stage' = [stage EXCEPT ![s] = "serving"]
             /\ lease' = [lease EXCEPT ![s] = TRUE]
             /\ base' = [base EXCEPT ![s] = printed]
             /\ outbox' = [outbox EXCEPT ![s] = <<Notice("attached")>>]
             /\ UNCHANGED bridge
    <2> USE DEF AttachInv
    <2>1. /\ stage[s] = "opened"
          /\ UNCHANGED <<chunks, got, told, printed>>
      BY Zenon DEF Attaches, shellVars
    <2>2. AttachTypes'
      <3>1. <<Notice("attached")>> \in Seq(Events)
        BY ZenonT(20), WordFacts, NoticeFacts
      <3> QED
        BY ZenonT(20), <1>2, <2>1, <3>1, WordFacts DEF AttachTypes
    <2>3. ASSUME NEW t \in Streams PROVE StreamInv(t)'
      <3>1. CASE t = s
        <4>1. /\ stage'[s] = "serving" /\ lease'[s] = TRUE /\ base'[s] = printed
              /\ outbox'[s] = <<Notice("attached")>> /\ bridge'[s] = bridge[s]
          BY ZenonT(20), <1>2 DEF AttachTypes
        <4>2. /\ bridge[s] = <<>> /\ chunks[s] = <<>> /\ told[s] = ""
          BY ZenonT(20), <2>1 DEF StreamInv, Fresh
        <4>3. Greeted(s)'
          <5>1. Notice("attached").kind = "attached"
            BY ZenonT(20), WordFacts, NoticeFacts
          <5> DEFINE q == outbox'[s]
          <5>2. q # <<>> /\ Len(q) = 1 /\ q[1] = Notice("attached")
            BY <4>1
          <5>3. told'[s] = ""
            BY ZenonT(20), <4>2, <2>1
          <5>4. q[1].kind = "attached"
            BY ZenonT(40), <5>1, <5>2
          <5>5. \A i \in 1 .. Len(q) : i = 1
            BY <5>2
          <5> QED
            BY ZenonT(20), <5>2, <5>3, <5>4, <5>5 DEF Greeted
        <4>4. Flows(outbox[s], bridge[s], chunks[s], Received(s), lease[s], printed)'
          <5>1. Received(s)' = printed
            BY ZenonT(20), <4>1, <4>2, <2>1 DEF Received
          <5>2. printed \in Nat
            BY ZenonT(20) DEF AttachTypes
          <5> QED
            BY ZenonT(20), <5>1, <5>2, <4>1, <4>2, <2>1, FlowsStart
        <4> QED
          BY ZenonT(20), <3>1, <4>1, <4>3, <4>4 DEF StreamInv, Fresh
      <3>2. CASE t # s
        <4>1. /\ stage'[t] = stage[t] /\ lease'[t] = lease[t] /\ base'[t] = base[t]
              /\ outbox'[t] = outbox[t]
          BY ZenonT(20), <1>2, <3>2 DEF AttachTypes
        <4> QED
          BY ZenonT(20), <1>2, <2>1, <4>1, StreamKept
      <3> QED
        BY Zenon, <3>1, <3>2
    <2> QED
      BY Zenon, <2>2, <2>3
  <1> QED
    BY Zenon, <1>1, <1>2 DEF Attaches

\* The agent's attach_shell, whatever it answers, keeps the invariant.
LEMMA AttachShellKeeps ==
    ASSUME AttachInv, NEW s \in Streams, attach_shell(s)
    PROVE  AttachInv'
  <1> USE DEF AttachInv
  <1>1. /\ stage[s] = "closed" /\ stage' = [stage EXCEPT ![s] = "opened"]
        /\ UNCHANGED <<lease, chunks, bridge, outbox, base, got, told, printed>>
    BY Zenon DEF attach_shell, queueVars, shellVars
  <1>2. AttachTypes'
    BY ZenonT(20), <1>1, WordFacts DEF AttachTypes
  <1>3. ASSUME NEW t \in Streams PROVE StreamInv(t)'
    <2>1. CASE t = s
      <3>1. stage'[s] = "opened"
        BY ZenonT(20), <1>1 DEF AttachTypes
      <3> QED
        BY ZenonT(20), <1>1, <2>1, <3>1 DEF StreamInv, Fresh, Greeted
    <2>2. CASE t # s
      <3>1. stage'[t] = stage[t]
        BY ZenonT(20), <1>1, <2>2 DEF AttachTypes
      <3> QED
        BY Zenon, <1>1, <3>1, StreamKept
    <2> QED
      BY Zenon, <2>1, <2>2
  <1> QED
    BY Zenon, <1>2, <1>3

\* Sending, reading a length and the clock leave the queues of output alone.
LEMMA OthersKeep ==
    ASSUME AttachInv,
           UNCHANGED <<stage, lease, chunks, bridge, outbox, base, got, told, printed>>
    PROVE  AttachInv'
  <1>1. AttachTypes'
    BY ZenonT(20) DEF AttachInv, AttachTypes
  <1>2. ASSUME NEW t \in Streams PROVE StreamInv(t)'
    BY Zenon, StreamKept DEF AttachInv
  <1> QED
    BY Zenon, <1>1, <1>2 DEF AttachInv

\* A detach keeps the invariant.
LEMMA DetachKeeps ==
    ASSUME AttachInv, NEW s \in Streams, detach_(s)
    PROVE  AttachInv'
  <1> USE DEF AttachInv
  <1>1. /\ told[s] = "attached" /\ told' = [told EXCEPT ![s] = "left"]
        /\ UNCHANGED <<stage, lease, chunks, bridge, outbox, base, got, printed>>
    BY Zenon DEF detach_, queueVars, shellVars
  <1>2. AttachTypes'
    BY ZenonT(20), <1>1, WordFacts DEF AttachTypes
  <1>3. ASSUME NEW t \in Streams PROVE StreamInv(t)'
    <2>1. CASE t = s
      <3>1. told'[s] = "left" /\ Received(s)' = Received(s)
        BY ZenonT(20), <1>1 DEF AttachTypes, Received
      <3> QED
        BY ZenonT(20), <1>1, <2>1, <3>1 DEF StreamInv, Fresh, Greeted
    <2>2. CASE t # s
      <3>1. told'[t] = told[t]
        BY ZenonT(20), <1>1, <2>2 DEF AttachTypes
      <3> QED
        BY Zenon, <1>1, <3>1, StreamKept
    <2> QED
      BY Zenon, <2>1, <2>2
  <1> QED
    BY Zenon, <1>2, <1>3

\* Events move along the queues of one stream.
LEMMA QueuesKeep ==
    ASSUME AttachInv, NEW s \in Streams,
           NEW o \in Seq(Events), NEW b \in Seq(Events), NEW c \in Seq(Events),
           outbox' = [outbox EXCEPT ![s] = o], bridge' = [bridge EXCEPT ![s] = b],
           chunks' = [chunks EXCEPT ![s] = c],
           UNCHANGED <<stage, lease, base, got, told, printed>>,
           stage[s] \notin {"closed", "opened"},
           stage[s] = "serving" => /\ Greeted(s)'
                                   /\ Flows(o, b, c, Received(s), lease[s], printed)
    PROVE  AttachInv'
  <1> USE DEF AttachInv
  <1>1. AttachTypes'
    BY ZenonT(20) DEF AttachTypes
  <1>2. ASSUME NEW t \in Streams PROVE StreamInv(t)'
    <2>1. CASE t = s
      <3>1. outbox'[s] = o /\ bridge'[s] = b /\ chunks'[s] = c /\ Received(s)' = Received(s)
        BY ZenonT(20) DEF AttachTypes, Received
      <3>2. Fresh(s)'
        BY ZenonT(20) DEF Fresh
      <3>3. Greeted(s)'
        BY ZenonT(20) DEF Greeted
      <3>4. stage'[s] = "serving" =>
                Flows(outbox'[s], bridge'[s], chunks'[s], Received(s)', lease'[s], printed')
        BY Zenon, <3>1
      <3>5. lease'[s] => stage'[s] = "serving"
        BY Zenon DEF StreamInv
      <3> QED
        BY Zenon, <2>1, <3>2, <3>3, <3>4, <3>5 DEF StreamInv
    <2>2. CASE t # s
      <3>1. outbox'[t] = outbox[t] /\ bridge'[t] = bridge[t] /\ chunks'[t] = chunks[t]
        BY ZenonT(20), <2>2 DEF AttachTypes
      <3> QED
        BY Zenon, <3>1, StreamKept
    <2> QED
      BY Zenon, <2>1, <2>2
  <1> QED
    BY Zenon, <1>1, <1>2

\* What follows the greeting in the outbox is not another one.
LEMMA GreetingFirst ==
    ASSUME AttachInv, NEW s \in Streams, stage[s] = "serving", NEW e \in Events,
           e.kind # "attached", outbox' = [outbox EXCEPT ![s] = Append(@, e)],
           UNCHANGED <<stage, told>>
    PROVE  Greeted(s)'
  <1> DEFINE q == outbox[s]  r == outbox'[s]
  <1>1. q \in Seq(Events) /\ r = Append(q, e)
    BY ZenonT(20) DEF AttachInv, AttachTypes
  <1>2. /\ Len(r) = Len(q) + 1 /\ r[Len(q) + 1] = e /\ Len(q) \in Nat
        /\ \A i \in 1 .. Len(q) : r[i] = q[i]
    BY SMTT(20), <1>1, QueueFacts
  <1>3. r # <<>> /\ (q # <<>> => 1 \in 1 .. Len(q))
    BY SMTT(20), <1>1
  <1>4. \A i \in 1 .. Len(r) : i \in 1 .. Len(q) \/ i = Len(q) + 1
    BY <1>2
  <1>5. Greeted(s)
    BY Zenon DEF AttachInv, StreamInv
  <1> HIDE DEF q, r
  <1>6. /\ told[s] = "" => q # <<>> /\ q[1].kind = "attached"
        /\ \A i \in 1 .. Len(q) : q[i].kind = "attached" => i = 1 /\ told[s] = ""
    BY ZenonT(20), <1>5 DEF Greeted, q
  <1>7. told[s] = "" => r[1].kind = "attached"
    BY ZenonT(20), <1>2, <1>3, <1>6
  <1>8. \A i \in 1 .. Len(r) : r[i].kind = "attached" => i = 1 /\ told[s] = ""
    BY ZenonT(20), <1>2, <1>4, <1>6
  <1> QED
    BY ZenonT(20), <1>3, <1>7, <1>8 DEF Greeted, r

\* The client's next event keeps the invariant.
LEMMA NextEventKeeps ==
    ASSUME AttachInv, NEW s \in Streams, next_event(s)
    PROVE  AttachInv'
  <1> USE DEF AttachInv
  <1> DEFINE q == outbox[s]  e == Head(q)
  <1>1. /\ q # <<>> /\ outbox' = [outbox EXCEPT ![s] = Tail(@)]
        /\ UNCHANGED <<stage, lease, base, printed, chunks, bridge>>
    BY ZenonT(20) DEF next_event, queueVars, shellVars
  <1>2. /\ q \in Seq(Events) /\ bridge[s] \in Seq(Events) /\ chunks[s] \in Seq(Events)
        /\ lease[s] \in BOOLEAN /\ printed \in Nat /\ base[s] \in Nat /\ got[s] \in Nat
        /\ stage[s] \in Stages /\ told[s] \in Kinds \cup {"", "left"}
    BY ZenonT(20) DEF AttachTypes
  <1>3. /\ Tail(q) \in Seq(Events) /\ e \in Events /\ Len(Tail(q)) = Len(q) - 1
        /\ Len(q) \in Nat /\ Len(q) >= 1 /\ e = q[1]
        /\ \A i \in 1 .. Len(q) - 1 : Tail(q)[i] = q[i + 1]
    <2>1. q # <<>> /\ q \in Seq(Events) /\ ExitEvent \in Events
      BY ZenonT(20), <1>1, <1>2, NoticeFacts
    <2> HIDE DEF q
    <2>2. e \in Events
      BY <2>1
    <2> QED
      BY Zenon, <2>1, <2>2, QueueFacts
  <1>4. e.kind \in Kinds /\ e.n \in Nat
    BY Zenon, <1>3 DEF Events
  <1>5. stage[s] \notin {"closed", "opened"}
    BY ZenonT(20), <1>1 DEF StreamInv, Fresh
  <1>6. outbox'[s] = Tail(q)
    BY ZenonT(20), <1>1 DEF AttachTypes
  <1>7. /\ got' = IF e.kind = "chunk" THEN [got EXCEPT ![s] = e.n]
                  ELSE IF e.kind = "attached" THEN [got EXCEPT ![s] = base[s]] ELSE got
        /\ told' = IF e.kind \in {"chunk", "history chunk", "history end"} THEN told
                   ELSE [told EXCEPT ![s] = IF @ = "left" THEN @ ELSE e.kind]
    BY ZenonT(20) DEF next_event
  <1> HIDE DEF e
  <1>8. AttachTypes'
    <2>1. got' \in [Streams -> Nat]
      BY ZenonT(20), <1>2, <1>4, <1>7 DEF AttachTypes
    <2>2. told' \in [Streams -> Kinds \cup {"", "left"}]
      BY ZenonT(20), <1>2, <1>4, <1>7 DEF AttachTypes
    <2>3. outbox' \in [Streams -> Seq(Events)]
      BY ZenonT(20), <1>1, <1>3 DEF AttachTypes
    <2> QED
      BY ZenonT(20), <1>1, <2>1, <2>2, <2>3 DEF AttachTypes
  <1>9. ASSUME NEW t \in Streams, t # s PROVE StreamInv(t)'
    <2>1. outbox'[t] = outbox[t] /\ got'[t] = got[t] /\ told'[t] = told[t]
      BY ZenonT(20), <1>1, <1>7, <1>9 DEF AttachTypes
    <2> QED
      BY Zenon, <1>1, <2>1, StreamKept
  <1>10. ASSUME stage[s] = "serving"
         PROVE  /\ Greeted(s)'
                /\ Flows(Tail(q), bridge[s], chunks[s], Received(s)', lease[s], printed)
    <2>1. /\ Greeted(s)
          /\ Flows(q, bridge[s], chunks[s], Received(s), lease[s], printed)
      BY Zenon, <1>10 DEF StreamInv
    <2>2. Received(s) \in Nat
      BY ZenonT(20), <1>2 DEF Received
    <2>3. IF e.kind = "chunk"
          THEN e.n = Received(s) + 1
               /\ Flows(Tail(q), bridge[s], chunks[s], Received(s) + 1, lease[s], printed)
          ELSE Flows(Tail(q), bridge[s], chunks[s], Received(s), lease[s], printed)
      BY ZenonT(60), <1>1, <1>2, <2>1, <2>2, FlowsRead DEF e
    <2>4. /\ told[s] = "" => e.kind = "attached"
          /\ e.kind = "attached" => told[s] = ""
          /\ \A i \in 1 .. Len(q) : q[i].kind = "attached" => i = 1
      <3>1. 1 \in 1 .. Len(q)
        BY <1>3
      <3> QED
        BY ZenonT(20), <3>1, <1>3, <1>10, <2>1 DEF Greeted
    <2>5. told'[s] # ""
      <3>1. CASE e.kind = "attached"
        <4>1. told'[s] = "attached"
          BY ZenonT(20), <3>1, <1>7, <2>4 DEF AttachTypes
        <4> QED
          BY Zenon, <4>1
      <3>2. CASE e.kind # "attached" /\ e.kind \in {"chunk", "history chunk", "history end"}
        BY ZenonT(20), <3>2, <1>7, <2>4
      <3>3. CASE e.kind # "attached" /\ e.kind \notin {"chunk", "history chunk", "history end"}
        <4>1. told'[s] = IF told[s] = "left" THEN "left" ELSE e.kind
          BY ZenonT(20), <3>3, <1>7 DEF AttachTypes
        <4>2. e.kind # ""
          BY ZenonT(20), <1>4, WordFacts
        <4> QED
          BY ZenonT(20), <4>1, <4>2
      <3> QED
        BY ZenonT(20), <3>1, <3>2, <3>3
    <2>6. Greeted(s)'
      <3>1. \A i \in 1 .. Len(Tail(q)) : Tail(q)[i].kind # "attached"
        <4> SUFFICES ASSUME NEW i \in 1 .. Len(Tail(q)), Tail(q)[i].kind = "attached"
                     PROVE  FALSE
          BY Zenon
        <4>1. i + 1 \in 1 .. Len(q) /\ i + 1 # 1 /\ Tail(q)[i] = q[i + 1]
          BY <1>3
        <4> QED
          BY ZenonT(20), <4>1, <2>4
      <3> QED
        BY ZenonT(20), <3>1, <1>6, <2>5 DEF Greeted
    <2>7. Received(s)' = IF e.kind = "chunk" THEN e.n ELSE Received(s)
      <3>1. Received(s)' = got'[s]
        BY ZenonT(20), <2>5 DEF Received
      <3>2. CASE e.kind = "chunk"
        BY ZenonT(20), <3>1, <3>2, <1>7 DEF AttachTypes
      <3>3. CASE e.kind = "attached"
        <4>1. got'[s] = base[s] /\ told[s] = ""
          BY ZenonT(20), <3>3, <1>7, <2>4 DEF AttachTypes
        <4> QED
          BY ZenonT(20), <3>1, <3>3, <4>1 DEF Received
      <3>4. CASE e.kind # "chunk" /\ e.kind # "attached"
        <4>1. got' = got /\ told[s] # ""
          BY ZenonT(60), <3>4, <1>7, <2>4
        <4> QED
          BY ZenonT(20), <3>1, <3>4, <4>1 DEF Received
      <3> QED
        BY Zenon, <3>2, <3>3, <3>4
    <2> QED
      BY Zenon, <2>3, <2>6, <2>7
  <1>11. StreamInv(s)'
    <2>1. lease'[s] => stage'[s] = "serving"
      BY Zenon, <1>1 DEF StreamInv
    <2>2. Fresh(s)'
      BY ZenonT(60), <1>1, <1>5 DEF Fresh
    <2>3. Greeted(s)'
      BY ZenonT(20), <1>1, <1>10 DEF Greeted
    <2>4. stage'[s] = "serving" =>
              Flows(outbox'[s], bridge'[s], chunks'[s], Received(s)', lease'[s], printed')
      BY Zenon, <1>1, <1>6, <1>10
    <2> QED
      BY Zenon, <2>1, <2>2, <2>3, <2>4 DEF StreamInv
  <1> QED
    BY Zenon, <1>8, <1>9, <1>11

\* The two events that answer a history request.
\* r is q with c and d at its end.
Longer(r, q, c, d) ==
    /\ Len(r) = Len(q) + 2 /\ Len(q) \in Nat
    /\ \A i \in 1 .. Len(q) : r[i] = q[i]
    /\ r[Len(q) + 1] = c /\ r[Len(q) + 2] = d

\* What appending two events gives.
LEMMA TwoMore ==
    ASSUME NEW q \in Seq(Events), NEW c \in Events, NEW d \in Events
    PROVE  /\ q \o <<c, d>> = Append(Append(q, c), d)
           /\ Append(q, c) \in Seq(Events) /\ Append(Append(q, c), d) \in Seq(Events)
           /\ Longer(Append(Append(q, c), d), q, c, d)
  <1> DEFINE p == Append(q, c)  r == Append(p, d)
  <1>1. /\ p \in Seq(Events) /\ Len(p) = Len(q) + 1 /\ p[Len(q) + 1] = c
        /\ Len(q) \in Nat /\ \A i \in 1 .. Len(q) : p[i] = q[i]
    BY Zenon, QueueFacts
  <1> HIDE DEF p
  <1>2. /\ r \in Seq(Events) /\ Len(r) = Len(p) + 1 /\ r[Len(p) + 1] = d
        /\ \A i \in 1 .. Len(p) : r[i] = p[i]
    BY ZenonT(40), <1>1, QueueFacts
  <1> HIDE DEF r
  <1>3. /\ Len(r) = Len(q) + 2 /\ r[Len(q) + 1] = c /\ r[Len(q) + 2] = d
        /\ \A i \in 1 .. Len(q) : r[i] = q[i]
    BY <1>1, <1>2
  <1>4. q \o <<c, d>> = r
    <2> DEFINE u == q \o <<c, d>>
    <2>1. <<c, d>> \in Seq(Events) /\ Len(<<c, d>>) = 2
      BY SMTT(20)
    <2>2. /\ u \in Seq(Events) /\ Len(u) = Len(q) + 2
          /\ \A i \in 1 .. Len(q) : u[i] = q[i]
          /\ u[Len(q) + 1] = c /\ u[Len(q) + 2] = d
      BY SMTT(20), <2>1
    <2> HIDE DEF u
    <2>3. \A i \in 1 .. Len(r) : i \in 1 .. Len(q) \/ i = Len(q) + 1 \/ i = Len(q) + 2
      BY <1>1, <1>3
    <2>4. \A i \in 1 .. Len(r) : u[i] = r[i]
      BY ZenonT(40), <1>3, <2>2, <2>3
    <2>5. u = r
      BY SMTT(20), <1>2, <1>3, <2>2, <2>4
    <2> QED
      BY Zenon, <2>5 DEF u
  <1>5. Longer(r, q, c, d)
    BY Zenon, <1>1, <1>3 DEF Longer
  <1> QED
    BY Zenon, <1>1, <1>2, <1>4, <1>5 DEF p, r

\* Every frame a serving stream handles keeps the invariant.
LEMMA HandlesFrameKeeps ==
    ASSUME AttachInv, NEW s \in Streams, HandlesFrame(s)
    PROVE  AttachInv'
  <1>1. stage[s] = "serving" /\ UNCHANGED <<chunks, base, got, told, printed>>
    BY ZenonT(20) DEF HandlesFrame, Polling, shellVars
  <1>2. CASE Returns(s, "detached", <<>>)
    <2>1. <<>> \in Seq(Events)
      OBVIOUS
    <2> QED
      BY ZenonT(20), <1>1, <1>2, <2>1, ReturnsKeeps
  <1>3. CASE Returns(s, "not running", <<Notice("not running")>>)
    <2>1. <<Notice("not running")>> \in Seq(Events)
      BY ZenonT(20), WordFacts
    <2> QED
      BY ZenonT(20), <1>1, <1>3, <2>1, ReturnsKeeps
  <1>4. CASE UNCHANGED <<stage, lease, bridge, outbox>>
    BY Zenon, <1>1, <1>4, OthersKeep
  <1>5. CASE /\ outbox' = [outbox EXCEPT ![s] =
                              @ \o <<Notice("history chunk"), Notice("history end")>>]
             /\ UNCHANGED <<stage, lease, bridge>>
    <2> DEFINE c == Notice("history chunk")  d == Notice("history end")
               q == outbox[s]  r == Append(Append(q, c), d)
    <2>1. /\ c \in Events /\ d \in Events /\ c.kind = "history chunk"
          /\ d.kind = "history end"
      BY ZenonT(20), WordFacts, NoticeFacts
    <2>2. /\ q \in Seq(Events) /\ bridge[s] \in Seq(Events) /\ chunks[s] \in Seq(Events)
          /\ lease[s] \in BOOLEAN /\ printed \in Nat /\ Received(s) \in Nat
      BY ZenonT(20) DEF AttachInv, AttachTypes, Received
    <2>3. /\ outbox' = [outbox EXCEPT ![s] = q \o <<c, d>>]
          /\ bridge' = [bridge EXCEPT ![s] = bridge[s]]
          /\ chunks' = [chunks EXCEPT ![s] = chunks[s]]
      BY ZenonT(20), <1>1, <1>5 DEF AttachInv, AttachTypes
    <2> HIDE DEF q, c, d
    <2>a. q \in Seq(Events) /\ c \in Events /\ d \in Events
      BY ZenonT(20), <2>1, <2>2
    <2>4. q \o <<c, d>> = r /\ Append(q, c) \in Seq(Events) /\ r \in Seq(Events)
      BY Zenon, <2>a, TwoMore
    <2>5. Flows(q, bridge[s], chunks[s], Received(s), lease[s], printed) /\ Greeted(s)
      BY Zenon, <1>1 DEF AttachInv, StreamInv, q
    <2>6. Flows(Append(q, c), bridge[s], chunks[s], Received(s), lease[s], printed)
      BY ZenonT(20), <2>1, <2>2, <2>5, FlowsNotice
    <2>7. Flows(r, bridge[s], chunks[s], Received(s), lease[s], printed)
      BY ZenonT(20), <2>1, <2>2, <2>4, <2>6, FlowsNotice
    <2>8. Greeted(s)'
      <3>1. outbox'[s] = r
        BY ZenonT(20), <2>3, <2>4 DEF AttachInv, AttachTypes
      <3>0. Longer(r, q, c, d)
        BY Zenon, <2>a, TwoMore
      <3>2. /\ Len(r) = Len(q) + 2 /\ Len(q) \in Nat
            /\ \A i \in 1 .. Len(q) : r[i] = q[i]
            /\ r[Len(q) + 1] = c /\ r[Len(q) + 2] = d
        BY Zenon, <3>0 DEF Longer
      <3>3. r # <<>> /\ (q # <<>> => 1 \in 1 .. Len(q))
        BY <2>2, <2>4
      <3> HIDE DEF r
      <3>4. /\ told[s] = "" => q # <<>> /\ q[1].kind = "attached"
            /\ \A i \in 1 .. Len(q) : q[i].kind = "attached" => i = 1 /\ told[s] = ""
        BY ZenonT(20), <1>1, <2>5 DEF Greeted, q
      <3>5. told[s] = "" => r[1].kind = "attached"
        BY ZenonT(20), <3>2, <3>3, <3>4
      <3>6. \A i \in 1 .. Len(r) : i \in 1 .. Len(q) \/ i = Len(q) + 1 \/ i = Len(q) + 2
        BY <3>2
      <3>7. r[Len(q) + 1].kind # "attached" /\ r[Len(q) + 2].kind # "attached"
        BY ZenonT(20), <2>1, <3>2
      <3>8. \A i \in 1 .. Len(r) : r[i].kind = "attached" => i = 1 /\ told[s] = ""
        <4> SUFFICES ASSUME NEW i \in 1 .. Len(r), r[i].kind = "attached"
                     PROVE  i = 1 /\ told[s] = ""
          BY ZenonT(20)
        <4>1. i \in 1 .. Len(q)
          BY Zenon, <3>6, <3>7
        <4> QED
          BY ZenonT(20), <4>1, <3>2, <3>4
      <3> QED
        BY ZenonT(20), <1>1, <3>1, <3>3, <3>5, <3>8 DEF Greeted
    <2> HIDE DEF r
    <2>9. outbox' = [outbox EXCEPT ![s] = r]
      BY ZenonT(20), <2>3, <2>4
    <2> QED
      BY ZenonT(20), <1>1, <1>5, <2>2, <2>3, <2>4, <2>7, <2>8, <2>9, QueuesKeep
  <1>6. [outbox EXCEPT ![s] = @] = outbox
    BY ZenonT(20) DEF AttachInv, AttachTypes
  <1> QED
    BY ZenonT(20), <1>2, <1>3, <1>4, <1>5, <1>6 DEF HandlesFrame

\* Every event a serving stream handles keeps the invariant.
LEMMA HandlesEventKeeps ==
    ASSUME AttachInv, NEW s \in Streams, HandlesEvent(s)
    PROVE  AttachInv'
  <1>1. stage[s] = "serving" /\ UNCHANGED <<chunks, base, got, told, printed>>
    BY ZenonT(20) DEF HandlesEvent, Polling, shellVars
  <1>2. CASE Returns(s, "exited", <<Notice("exited")>>)
    <2>1. <<Notice("exited")>> \in Seq(Events)
      BY ZenonT(20), WordFacts
    <2> QED
      BY ZenonT(20), <1>1, <1>2, <2>1, ReturnsKeeps
  <1>3. CASE Returns(s, "too slow", <<Notice("too slow")>>)
    <2>1. <<Notice("too slow")>> \in Seq(Events)
      BY ZenonT(20), WordFacts
    <2> QED
      BY ZenonT(20), <1>1, <1>3, <2>1, ReturnsKeeps
  <1>4. CASE /\ bridge[s] # <<>> /\ Head(bridge[s]).kind = "chunk"
             /\ bridge' = [bridge EXCEPT ![s] = Tail(@)]
             /\ outbox' = [outbox EXCEPT ![s] = Append(@, Head(bridge[s]))]
             /\ UNCHANGED <<stage, lease>>
    <2> DEFINE q == outbox[s]  b == bridge[s]
    <2>1. /\ q \in Seq(Events) /\ b \in Seq(Events) /\ chunks[s] \in Seq(Events)
          /\ lease[s] \in BOOLEAN /\ printed \in Nat /\ Received(s) \in Nat
      BY ZenonT(20) DEF AttachInv, AttachTypes, Received
    <2>2. b # <<>> /\ Head(b).kind = "chunk"
      BY Zenon, <1>4
    <2>3. Flows(q, b, chunks[s], Received(s), lease[s], printed)
      BY Zenon, <1>1 DEF AttachInv, StreamInv
    <2>4. /\ outbox' = [outbox EXCEPT ![s] = Append(q, Head(b))]
          /\ bridge' = [bridge EXCEPT ![s] = Tail(b)]
          /\ chunks' = [chunks EXCEPT ![s] = chunks[s]]
      BY ZenonT(60), <1>1, <1>4 DEF AttachInv, AttachTypes
    <2> HIDE DEF q, b
    <2>5. Head(b) \in Events /\ Tail(b) \in Seq(Events) /\ Append(q, Head(b)) \in Seq(Events)
      BY <2>1, <2>2
    <2>6. Flows(Append(q, Head(b)), Tail(b), chunks[s], Received(s), lease[s], printed)
      BY Zenon, <2>1, <2>2, <2>3, FlowsWrite
    <2>7. Greeted(s)'
      BY ZenonT(20), <1>1, <1>4, <2>2, <2>5, GreetingFirst DEF b
    <2>8. stage[s] \notin {"closed", "opened"} /\ UNCHANGED <<stage, lease, base, got, told, printed>>
      BY Zenon, <1>1, <1>4
    <2> QED
      BY ZenonT(20), <2>1, <2>4, <2>5, <2>6, <2>7, <2>8, QueuesKeep
  <1> QED
    BY ZenonT(20), <1>2, <1>3, <1>4 DEF HandlesEvent

\* The task that forwards a shell's events keeps the invariant.
LEMMA ForwardsKeeps ==
    ASSUME AttachInv, NEW s \in Streams, Forwards(s)
    PROVE  AttachInv'
  <1>1. UNCHANGED <<stage, lease, outbox, base, got, told, printed>>
    BY Zenon DEF Forwards, shellVars
  <1>2. CASE UNCHANGED <<bridge, chunks>>
    BY Zenon, <1>1, <1>2, OthersKeep
  <1>3. CASE /\ chunks[s] # <<>>
             /\ bridge' = [bridge EXCEPT ![s] = Append(@, Head(chunks[s]))]
             /\ chunks' = [chunks EXCEPT ![s] = Tail(@)]
    <2> DEFINE c == chunks[s]  b == bridge[s]
    <2>1. /\ outbox[s] \in Seq(Events) /\ b \in Seq(Events) /\ c \in Seq(Events)
          /\ lease[s] \in BOOLEAN /\ printed \in Nat /\ Received(s) \in Nat
      BY ZenonT(20) DEF AttachInv, AttachTypes, Received
    <2>2. c # <<>> /\ stage[s] \notin {"closed", "opened"}
      BY ZenonT(20), <1>3 DEF AttachInv, StreamInv, Fresh
    <2>3. stage[s] = "serving" => Flows(outbox[s], b, c, Received(s), lease[s], printed)
      BY Zenon DEF AttachInv, StreamInv
    <2>4. /\ outbox' = [outbox EXCEPT ![s] = outbox[s]]
          /\ bridge' = [bridge EXCEPT ![s] = Append(b, Head(c))]
          /\ chunks' = [chunks EXCEPT ![s] = Tail(c)]
      BY ZenonT(20), <1>1, <1>3 DEF AttachInv, AttachTypes
    <2> HIDE DEF c, b
    <2>5. Head(c) \in Events /\ Tail(c) \in Seq(Events) /\ Append(b, Head(c)) \in Seq(Events)
      BY <2>1, <2>2
    <2>6. stage[s] = "serving" =>
              Flows(outbox[s], Append(b, Head(c)), Tail(c), Received(s), lease[s], printed)
      BY Zenon, <2>1, <2>2, <2>3, FlowsForward
    <2>7. stage[s] = "serving" => Greeted(s)'
      BY ZenonT(20), <1>1 DEF AttachInv, StreamInv, Greeted
    <2> QED
      BY ZenonT(20), <1>1, <2>1, <2>2, <2>4, <2>5, <2>6, <2>7, QueuesKeep
  <1> QED
    BY Zenon, <1>2, <1>3 DEF Forwards

\* A printed chunk, also one a slow stream loses its lease by, keeps the
\* invariant.
LEMMA EmitsKeeps ==
    ASSUME AttachInv, Emits
    PROVE  AttachInv'
  <1> USE DEF AttachInv
  <1>1. /\ printed' = printed + 1 /\ printed \in Nat /\ printed' \in Nat
        /\ UNCHANGED <<stage, bridge, outbox, base, got, told>>
    <2>1. printed \in Nat
      BY ZenonT(20) DEF AttachTypes
    <2>2. printed' = printed + 1 /\ UNCHANGED <<stage, bridge, outbox, base, got, told>>
      BY Zenon DEF Emits
    <2>3. printed + 1 \in Nat
      BY <2>1
    <2> QED
      BY Zenon, <2>1, <2>2, <2>3
  <1>2. ASSUME NEW s \in Streams
        PROVE  /\ chunks'[s] = IF lease[s] /\ Room(s)
                               THEN Append(chunks[s], Chunk(printed + 1)) ELSE chunks[s]
               /\ lease'[s] = (lease[s] /\ Room(s)) /\ lease'[s] \in BOOLEAN
               /\ chunks'[s] \in Seq(Events)
    <2>1. Chunk(printed + 1) \in Events
      BY Zenon, <1>1, NoticeFacts
    <2>2. chunks[s] \in Seq(Events)
      BY ZenonT(20) DEF AttachTypes
    <2>3. Append(chunks[s], Chunk(printed + 1)) \in Seq(Events)
      BY <2>1, <2>2
    <2> QED
      BY Zenon, <2>2, <2>3 DEF Emits
  <1>3. AttachTypes'
    <2>1. chunks' \in [Streams -> Seq(Events)]
      <3>1. chunks' = [s \in Streams |-> chunks'[s]]
        BY Zenon DEF Emits
      <3> QED
        BY Zenon, <1>2, <3>1
    <2>2. lease' \in [Streams -> BOOLEAN]
      <3>1. lease' = [s \in Streams |-> lease'[s]]
        BY Zenon DEF Emits
      <3> QED
        BY Zenon, <1>2, <3>1
    <2> QED
      BY ZenonT(20), <1>1, <2>1, <2>2 DEF AttachTypes
  <1>4. ASSUME NEW s \in Streams PROVE StreamInv(s)'
    <2>1. /\ outbox[s] \in Seq(Events) /\ bridge[s] \in Seq(Events)
          /\ chunks[s] \in Seq(Events) /\ lease[s] \in BOOLEAN /\ Received(s) \in Nat
      BY ZenonT(60) DEF AttachTypes, Received
    <2>2. Greeted(s)' /\ Received(s)' = Received(s)
      BY ZenonT(20), <1>1 DEF StreamInv, Greeted, Received
    <2>3. lease'[s] => lease[s]
      BY Zenon, <1>2
    <2>4. Fresh(s)'
      BY ZenonT(60), <1>1, <1>2, <2>3 DEF StreamInv, Fresh
    <2>5. stage[s] = "serving" =>
              Flows(outbox[s], bridge[s], chunks'[s], Received(s), lease'[s], printed + 1)
      <3> SUFFICES ASSUME stage[s] = "serving"
                   PROVE  Flows(outbox[s], bridge[s], chunks'[s], Received(s), lease'[s],
                                printed + 1)
        BY Zenon
      <3>1. Flows(outbox[s], bridge[s], chunks[s], Received(s), lease[s], printed)
        BY Zenon DEF StreamInv
      <3>2. CASE lease[s] /\ Room(s)
        <4>1. lease[s] = TRUE /\ lease'[s] = TRUE
          BY Zenon, <1>2, <2>1, <3>2
        <4>2. Flows(outbox[s], bridge[s], chunks[s], Received(s), TRUE, printed)
          BY ZenonT(20), <3>1, <4>1
        <4>3. Flows(outbox[s], bridge[s], Append(chunks[s], Chunk(printed + 1)),
                    Received(s), TRUE, printed + 1)
          BY ZenonT(20), <1>1, <2>1, <4>2, FlowsEmit
        <4> QED
          BY ZenonT(20), <1>2, <3>2, <4>1, <4>3
      <3>3. CASE ~(lease[s] /\ Room(s))
        <4>1. lease'[s] = FALSE /\ chunks'[s] = chunks[s]
          BY Zenon, <1>2, <3>3
        <4>2. Flows(outbox[s], bridge[s], chunks[s], Received(s), FALSE, printed + 1)
          BY ZenonT(20), <1>1, <2>1, <3>1, FlowsUnleased
        <4> QED
          BY ZenonT(20), <4>1, <4>2
      <3> QED
        BY Zenon, <3>2, <3>3
    <2>6. stage'[s] = "serving" =>
              Flows(outbox'[s], bridge'[s], chunks'[s], Received(s)', lease'[s], printed')
      BY Zenon, <1>1, <2>2, <2>5
    <2>7. lease'[s] => stage'[s] = "serving"
      BY Zenon, <1>1, <2>3 DEF StreamInv
    <2> QED
      BY Zenon, <2>2, <2>4, <2>6, <2>7 DEF StreamInv
  <1> QED
    BY Zenon, <1>3, <1>4

\* The shell's exit keeps the invariant.
LEMMA ExitsKeeps ==
    ASSUME AttachInv, Exits
    PROVE  AttachInv'
  <1> USE DEF AttachInv
  <1>1. printed \in Nat /\ UNCHANGED <<printed, stage, bridge, outbox, base, got, told>>
    BY ZenonT(20) DEF Exits, AttachTypes
  <1>2. ASSUME NEW s \in Streams
        PROVE  /\ chunks'[s] = IF lease[s] /\ Room(s)
                               THEN Append(chunks[s], ExitEvent) ELSE chunks[s]
               /\ lease'[s] = FALSE /\ chunks'[s] \in Seq(Events)
    <2>1. ExitEvent \in Events
      BY Zenon, NoticeFacts
    <2>2. chunks[s] \in Seq(Events)
      BY ZenonT(20) DEF AttachTypes
    <2>3. Append(chunks[s], ExitEvent) \in Seq(Events)
      BY <2>1, <2>2
    <2> QED
      BY Zenon, <2>2, <2>3 DEF Exits
  <1>3. AttachTypes'
    <2>1. chunks' \in [Streams -> Seq(Events)]
      <3>1. chunks' = [s \in Streams |-> chunks'[s]]
        BY Zenon DEF Exits
      <3> QED
        BY ZenonT(20), <1>2, <3>1
    <2>2. lease' \in [Streams -> BOOLEAN]
      BY Zenon DEF Exits
    <2> QED
      BY ZenonT(20), <1>1, <2>1, <2>2 DEF AttachTypes
  <1>4. ASSUME NEW s \in Streams PROVE StreamInv(s)'
    <2>1. /\ outbox[s] \in Seq(Events) /\ bridge[s] \in Seq(Events)
          /\ chunks[s] \in Seq(Events) /\ lease[s] \in BOOLEAN /\ Received(s) \in Nat
      BY ZenonT(20) DEF AttachTypes, Received
    <2>2. Greeted(s)' /\ Received(s)' = Received(s)
      BY ZenonT(60), <1>1 DEF StreamInv, Greeted, Received
    <2>3. Fresh(s)'
      BY ZenonT(60), <1>1, <1>2 DEF StreamInv, Fresh
    <2>4. ASSUME stage[s] = "serving"
          PROVE  Flows(outbox[s], bridge[s], chunks'[s], Received(s), FALSE, printed)
      <3>1. Flows(outbox[s], bridge[s], chunks[s], Received(s), lease[s], printed)
        BY Zenon, <2>4 DEF StreamInv
      <3>2. Flows(outbox[s], bridge[s], chunks[s], Received(s), FALSE, printed)
        BY ZenonT(20), <1>1, <2>1, <3>1, FlowsUnleased
      <3>3. Flows(outbox[s], bridge[s], Append(chunks[s], ExitEvent), Received(s), FALSE,
                  printed)
        <4>1. ExitEvent \in Events /\ ExitEvent.kind # "chunk"
          BY Zenon, NoticeFacts
        <4> QED
          BY ZenonT(20), <1>1, <2>1, <3>1, <4>1, FlowsExit
      <3> QED
        BY ZenonT(20), <1>2, <3>2, <3>3
    <2>5. stage'[s] = "serving" =>
              Flows(outbox'[s], bridge'[s], chunks'[s], Received(s)', lease'[s], printed')
      BY ZenonT(20), <1>1, <1>2, <2>2, <2>4
    <2> QED
      BY ZenonT(20), <1>2, <2>2, <2>3, <2>5 DEF StreamInv
  <1> QED
    BY Zenon, <1>3, <1>4

\* Every step keeps the invariant of the attached streams.
LEMMA AttachNextInv == AttachInv /\ [AttachNext]_attachVars => AttachInv'
  <1> SUFFICES ASSUME AttachInv, [AttachNext]_attachVars PROVE AttachInv'
    BY Zenon
  <1>1. CASE UNCHANGED attachVars
    BY Zenon, <1>1, OthersKeep DEF attachVars
  <1>2. CASE Emits \/ Exits
    BY Zenon, <1>2, EmitsKeeps, ExitsKeeps
  <1>3. ASSUME NEW s \in Streams,
               attach_shell(s) \/ detach_(s) \/ next_event(s) \/ Forwards(s)
        PROVE  AttachInv'
    BY ZenonT(40), <1>3, AttachShellKeeps, DetachKeeps, NextEventKeeps, ForwardsKeeps
  <1>4. ASSUME NEW s \in Streams,
               \/ TimePasses(s) \/ ReadsLength(s)
               \/ \E k \in {"pty", "history"} : send_request(s, k)
        PROVE  AttachInv'
    <2>1. UNCHANGED <<stage, lease, chunks, bridge, outbox, base, got, told, printed>>
      BY Zenon, <1>4 DEF TimePasses, ReadsLength, send_request, queueVars, shellVars
    <2> QED
      BY Zenon, <2>1, OthersKeep
  <1>5. ASSUME NEW s \in Streams, Attaches(s) \/ HandlesFrame(s) \/ HandlesEvent(s)
        PROVE  AttachInv'
    BY Zenon, <1>5, AttachesKeeps, HandlesFrameKeeps, HandlesEventKeeps
  <1>6. ASSUME NEW s \in Streams, MisreadsFrame(s)
        PROVE  AttachInv'
    <2>1. <<Notice("reset")>> \in Seq(Events)
      BY ZenonT(20), WordFacts
    <2> QED
      BY ZenonT(20), <1>6, <2>1, ReturnsKeeps DEF MisreadsFrame, shellVars
  <1>7. ASSUME NEW s \in Streams, Expires(s)
        PROVE  AttachInv'
    <2>1. <<Notice("expired")>> \in Seq(Events)
      BY ZenonT(20), WordFacts
    <2> QED
      BY ZenonT(20), <1>7, <2>1, ReturnsKeeps DEF Expires, shellVars
  <1> QED
    BY ZenonT(40), <1>1, <1>2, <1>3, <1>4, <1>5, <1>6, <1>7 DEF AttachNext, AgentLoop

\* The invariant of the attached streams implies OutputUnbroken.
LEMMA AttachInvUnbroken == AttachInv => OutputUnbroken
  <1> SUFFICES ASSUME AttachInv, NEW s \in Streams, stage[s] = "serving"
               PROVE  \E last \in Received(s) .. printed :
                          /\ InTurn(outbox[s] \o bridge[s] \o chunks[s], Received(s), last)
                          /\ lease[s] => last = printed
    BY Zenon DEF OutputUnbroken
  <1> DEFINE a == Received(s)
  <1>1. /\ outbox[s] \in Seq(Events) /\ bridge[s] \in Seq(Events)
        /\ chunks[s] \in Seq(Events) /\ a \in Nat /\ printed \in Nat
    BY ZenonT(20) DEF AttachInv, AttachTypes, Received
  <1>2. PICK x, y, z \in 0 .. printed :
            /\ a <= x /\ x <= y /\ y <= z /\ z <= printed
            /\ InTurn(outbox[s], a, x) /\ InTurn(bridge[s], x, y) /\ InTurn(chunks[s], y, z)
            /\ lease[s] => z = printed
    BY Zenon DEF AttachInv, StreamInv, Flows
  <1> HIDE DEF a
  <1>3. x \in Nat /\ y \in Nat /\ z \in Nat /\ a <= y /\ z \in a .. printed
    BY <1>1, <1>2
  <1>4. /\ outbox[s] \o bridge[s] \in Seq(Events)
        /\ InTurn(outbox[s] \o bridge[s], a, y)
    BY Zenon, <1>1, <1>2, <1>3, QueuesJoin
  <1>5. InTurn(outbox[s] \o bridge[s] \o chunks[s], a, z)
    BY ZenonT(20), <1>1, <1>2, <1>3, <1>4, QueuesJoin
  <1> QED
    BY Zenon, <1>2, <1>3, <1>5 DEF a

\* What a client of an attached stream has received, and what is still on its
\* way to it, is the shell's output from where it attached on, with nothing
\* missing, repeated or out of order (attachment.rs: the outbox, the bridge
\* and the stream each forward in turn).
THEOREM OutputIsUnbroken == AttachSpec => []OutputUnbroken
  <1>1. AttachSpec => []AttachInv
    BY AttachInitInv, AttachNextInv, PTL DEF AttachSpec
  <1> QED
    BY <1>1, AttachInvUnbroken, PTL

=============================================================================

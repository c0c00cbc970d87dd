------------------------------ MODULE MCFleet ------------------------------
(***************************************************************************)
(* The edges a shell is reached through without a browser, side by side:   *)
(* the gateway's registry and the agents that register, the control        *)
(* stream the gateway opens shells over, and the loopback SSH adapter.     *)
(* They share no state here, so one of them (focus) moves and the others   *)
(* stay where they begin.                                                  *)
(***************************************************************************)
EXTENDS GatewayRegistry, AgentControl, SshAdapter

VARIABLE focus

MCCertOf == [a1 |-> "c1", a2 |-> "c2"]
MCNameOf == [a1 |-> "s1", a2 |-> "s2"]

MCGrants ==
    {[signed |-> TRUE,  aud |-> "hub", sub |-> "ann", ops |-> {"open"},   servers |-> {"s1"}],
     [signed |-> TRUE,  aud |-> "hub", sub |-> "bob", ops |-> {"attach"}, servers |-> {"s1"}],
     [signed |-> FALSE, aud |-> "hub", sub |-> "bob", ops |-> {"open"},   servers |-> {"s1"}]}
-----------------------------------------------------------------------------
Parts == {"registry", "control", "ssh"}

On(part) == focus = part /\ UNCHANGED focus

FleetInit == focus \in Parts /\ GatewayInit /\ ControlInit /\ SshInit

FleetNext ==
    \/ On("registry") /\ GatewayNext /\ UNCHANGED <<controlVars, sshVars>>
    \/ On("control") /\ ControlNext /\ UNCHANGED <<gatewayVars, sshVars>>
    \/ On("ssh") /\ SshNext /\ UNCHANGED <<gatewayVars, controlVars>>

fleetVars == <<focus, gatewayVars, controlVars, sshVars>>

\* GatewayRegistry: every agent's run loop and every link's task at the
\* gateway are polled.
RegistryFair ==
    /\ \A a \in Agents : WF_gatewayVars(focus = "registry" /\ AgentStep(a))
    /\ \A l \in Links : WF_gatewayVars(focus = "registry" /\ GatewayStep(l))

\* SshAdapter: the bridge task of a shell is polled, and russh drops the
\* handler of a connection that ended.
SshFair ==
    \A c \in SshConns : /\ WF_sshVars(focus = "ssh" /\ BridgeStep(c))
                        /\ WF_sshVars(focus = "ssh" /\ SessionEnds(c))

FleetSpec == FleetInit /\ [][FleetNext]_fleetVars /\ RegistryFair /\ SshFair
=============================================================================

------------------------------- MODULE MCHost -------------------------------
(***************************************************************************)
(* The parts of a host around the session core, side by side: the          *)
(* WebTransport channel writers, TCP forwards, the front-door bridge and   *)
(* the privileged spawner with its upload writer.  They share no state, so *)
(* one of them (focus) moves and the others stay where they begin: the     *)
(* reachable states are the union of the parts', not their product.        *)
(* Fairness is stated for the parts a liveness property is about.          *)
(***************************************************************************)
EXTENDS ChannelWriters, TcpForward, FrontdoorBridge, Spawner, SpawnerUpload

VARIABLE focus

MCPeerOf == [g \in Sessions |-> g]
MCUidOf  == [ann |-> 1000, root |-> 0]
-----------------------------------------------------------------------------
Parts == {"writers", "forward", "bridge", "spawner", "store"}

On(part) == focus = part /\ UNCHANGED focus

HostInit ==
    /\ focus \in Parts
    /\ WritersInit /\ ForwardInit /\ BridgeInit
    /\ SpawnInit /\ RemoteUploadInit

HostNext ==
    \/ /\ On("writers") /\ WritersNext
       /\ UNCHANGED <<forwardVars, bridgeVars, spawnVars, remoteVars>>
    \/ /\ On("forward") /\ ForwardNext
       /\ UNCHANGED <<writersVars, bridgeVars, spawnVars, remoteVars>>
    \/ /\ On("bridge") /\ BridgeNext
       /\ UNCHANGED <<writersVars, forwardVars, spawnVars, remoteVars>>
    \/ /\ On("spawner") /\ SpawnNext
       /\ UNCHANGED <<writersVars, forwardVars, bridgeVars, remoteVars>>
    \/ /\ On("store") /\ RemoteUploadNext
       /\ UNCHANGED <<writersVars, forwardVars, bridgeVars, spawnVars>>

hostVars == <<focus, writersVars, forwardVars, bridgeVars, spawnVars,
              remoteVars>>

\* ChannelWriters: tasks and threads run on; a write ends on the streams in
\* Reading, whose client keeps reading.
WritersFair ==
    /\ WF_writersVars(focus = "writers" /\ Reply)
    /\ WF_writersVars(focus = "writers" /\ Adapt)
    /\ WF_writersVars(focus = "writers" /\ (RouteRegister \/ RouteFrame))
    /\ WF_writersVars(focus = "writers" /\ FinishAdapter)
    /\ WF_writersVars(focus = "writers" /\ RouterEnds)
    /\ \A c \in Channels :
          /\ WF_writersVars(focus = "writers" /\ (Forward(c) \/ ForwardEnds(c)))
          /\ WF_writersVars(focus = "writers" /\ (WriterTakes(c) \/ WriterEnds(c)))
    /\ \A c \in Reading : WF_writersVars(focus = "writers" /\ WriterWrites(c))

\* Spawner: each thread of daemon and helper makes progress; the shell need
\* not.
SpawnFair ==
    /\ WF_spawnVars(focus = "spawner" /\ ReplyCame)
    /\ WF_spawnVars(focus = "spawner" /\ SendKill)
    /\ WF_spawnVars(focus = "spawner" /\ PumpSeesEof)
    /\ WF_spawnVars(focus = "spawner" /\ PumpWaits)
    /\ WF_spawnVars(focus = "spawner"
                        /\ (Launches \/ HandsOver \/ Reaps \/ Reports \/ HelperEnds))
    /\ WF_spawnVars(focus = "spawner" /\ (WatchForKill \/ SignalChild))

HostSpec == /\ HostInit /\ [][HostNext]_hostVars
            /\ WritersFair /\ SpawnFair
=============================================================================

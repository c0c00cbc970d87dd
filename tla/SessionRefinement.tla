------------------------- MODULE SessionRefinement -------------------------
(* The shell manager with its threads and locks implements ShellService.   *)
EXTENDS SessionCore

\* A Terminating shell has ended for its clients: attach answers NotRunning.
servicePhase ==
    [s \in ShellIds |-> IF state[s] = "unborn" THEN "none"
                        ELSE IF s \notin shells THEN "gone"
                        ELSE IF state[s] = "Running" THEN "running" ELSE "ended"]

Service == INSTANCE ShellService WITH
               Shells <- ShellIds, OpenKeys <- Users \X Keys,
               phase <- servicePhase, byKey <- idempotency

\* Whatever pumps, terminate callers and the reaper do, clients see only the
\* opens, re-opens, attaches, ends and removals of ShellService.
ImplementsService == Service!ServiceSpec
=============================================================================

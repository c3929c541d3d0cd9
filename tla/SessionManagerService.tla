----------------------- MODULE SessionManagerService -----------------------
(***************************************************************************)
(* The session layer as an implementation of ConnectionService: the state  *)
(* of an ID is read off the container that holds its session object.       *)
(***************************************************************************)
EXTENDS SessionManager

ConnState(s) ==
    CASE s \in clientMap                -> "outgoing"
      [] s \in serverMap /\ alive[s]    -> "open"
      [] s \in serverMap /\ ~alive[s]   -> "closed"
      [] s \in releaseMap               -> "ended"
      [] OTHER                          -> "spare"

Service == INSTANCE ConnectionService
               WITH conn  <- [s \in ID |-> ConnState(s)],
                    inbox <- taskQueue

\* Nothing in the code guards the reuse of an ID against messages that still
\* wait: that closeInvalidWorkSession, updateReleaseSessionMap, accept and
\* taskProcess run in mainLoop's order is what implements the service.
ImplementsService == Service!LiveSpec

Pool == INSTANCE ClientPool
            WITH spare   <- createClientDeque,
                 open    <- {s \in clientMap : alive[s]},
                 closing <- {s \in clientMap : ~alive[s]}

\* NDServerManager may think of outgoing connections as ClientPool says.
ImplementsPool == Pool!PoolSpec
=============================================================================

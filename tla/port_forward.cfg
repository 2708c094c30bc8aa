\* Two processes on one machine deploy at the same time, each once; either
\* may be cancelled, killed or lose a connection.
SPECIFICATION Spec
CONSTANTS
  Procs = {p1, p2}
  Nobody = nobody
INVARIANTS TypeOK OtherServerOnlyAfterLoss
PROPERTIES PortForwardReturns LeavesNothing
CHECK_DEADLOCK FALSE

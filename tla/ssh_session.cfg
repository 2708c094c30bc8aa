\* One client that runs two commands over a connection; three attempts to
\* connect fit into the time limit.  A client is used once and then stops.
SPECIFICATION Spec
CONSTANTS
  Clients = {c1}
  MaxTries = 3
  MaxRuns = 2
INVARIANTS TypeOK NothingLeftOpen RejectedOnce
PROPERTIES KeepsPromise ReturnsAtLast GoroutinesEnd
CHECK_DEADLOCK FALSE

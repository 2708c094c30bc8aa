\* One command, repeated and followed by upgrades, while the pods come up,
\* crash, or never get ready.  Everything stops when nothing is left to do.
SPECIFICATION Spec
CONSTANTS
  agent = agent
  relay = relay
  server = server
  DaemonSets = {agent}
  Deployments = {relay}
  SinglePods = {server}
  Plan <- Order
  Chart <- Charts
  Breakable = {relay}
  MaxRevision = 2
  MaxCrashes = 1
  MaxFaults = 1
INVARIANT TypeOK
PROPERTIES SuccessIsEarned FailsForCause InstallConverges
CHECK_DEADLOCK FALSE

\* Two machines repeat the deployment in turn until it succeeds on both, each
\* with the token file of a former cluster or none; calls fail, helm is
\* killed, both servers restart and the unseal token expires.  Then
\* everything stops.
SPECIFICATION RetrySpec
CONSTANTS
  NoToken = none
  OldToken = old
  EmptyFile = empty
  ReadyUninitialised = TRUE
  Operators = {o1, o2}
  Clusters = {c1}
  MaxGeneration = 2
  MaxRootStops = 1
  MaxRestarts = 1
  MaxFaults = 2
  MaxSaveFaults = 1
PROPERTY DeployConverges
CHECK_DEADLOCK FALSE

\* Two machines deploy to one cluster at the same time; both servers restart
\* and any call may fail.
SPECIFICATION Spec
CONSTANTS
  NoToken = none
  OldToken = old
  EmptyFile = empty
  ReadyUninitialised = TRUE
  Operators = {o1, o2}
  Clusters = {c1}
  MaxGeneration = 2
  MaxRootStops = 1
  MaxRestarts = 1
  MaxFaults = 1
  MaxSaveFaults = 1
SYMMETRY Symmetry
INVARIANTS TypeOK CredentialsKept UnsealedWhenUp
PROPERTY TokenSpec

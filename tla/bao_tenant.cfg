\* Two callers that take turns; a name that is provisioned again after it was
\* removed.
SPECIFICATION Spec
CONSTANTS
  Operators = {o1, o2}
  Names = {acme}
  TakeTurns = TRUE
  MaxLives = 2
  MaxFaults = 2
INVARIANTS RoleHasPolicy RemovedHasNoAccess

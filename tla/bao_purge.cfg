\* One caller, no failing call: a tenant writes a secret and is removed.
SPECIFICATION Spec
CONSTANTS
  Operators = {o1}
  Names = {acme}
  TakeTurns = TRUE
  MaxLives = 1
  MaxFaults = 0
INVARIANT RemovalPurges

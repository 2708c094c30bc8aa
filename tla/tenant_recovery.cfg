\* One operator, who stops when the tenant is there.
SPECIFICATION RecoverSpec
CONSTANTS
  Operators = {o1}
  Names = {acme}
  Tiers = {"small", "xl"}
  TakeTurns = TRUE
  MaxFaults = 4
PROPERTY TenantConverges
CHECK_DEADLOCK FALSE

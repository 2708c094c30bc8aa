\* Add and remove of one name take turns; two adds of it may race, and a
\* namespace of that name may be made by hand.  "xl" is a tier that the code
\* does not know.
SPECIFICATION Spec
CONSTANTS
  Operators = {o1, o2}
  Names = {acme}
  Tiers = {"small", "large", "xl"}
  TakeTurns = TRUE
  MaxFaults = 3
INVARIANTS TypeOK SoleBuilder ListedTierEnforced
PROPERTIES NoAdoption AddReturnsComplete LifecycleSpec

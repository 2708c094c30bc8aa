\* One operator, no fault: the control plane is removed (its own Node object
\* cannot be deleted any more) and created again while the workers keep the
\* credentials of the first cluster.
SPECIFICATION Spec
CONSTANTS
  Operators = {o1}
  ControlPlane = cp
  Workers = {w1, w2}
  Exclusive = TRUE
  HalfInit = FALSE
  HalfJoin = FALSE
  MaxEpoch = 2
  MaxFaults = 0
PROPERTY InitJoinsAll

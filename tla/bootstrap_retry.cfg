\* Two operators, at the same time, repeat init; then two others, at the same
\* time, remove one node with its pods.  Calls fail, kubeadm init and joins
\* stop half way.  The system stops when all is done.
SPECIFICATION RetrySpec
CONSTANTS
  Operators = {o1, o2, o3, o4}
  Builders = {o1, o2}
  ControlPlane = cp
  Workers = {w1, w2}
  Leaving = w1
  Exclusive = FALSE
  HalfInit = TRUE
  HalfJoin = TRUE
  MaxEpoch = 2
  MaxFaults = 2
  Pods = {s1, d1}
  Stateful = {s1}
  Resident = {}
  Tolerant = {d1}
  Pending = pending
  Gone = gone
  MaxEnds = 0
PROPERTIES InitTakesNothing InitConverges RemoveConverges DrainEnds
CHECK_DEADLOCK FALSE

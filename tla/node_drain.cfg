\* Operators take turns while pods come, go and are evicted.
SPECIFICATION DrainSpec
CONSTANTS
  Operators = {o1, o2}
  ControlPlane = cp
  Workers = {w1, w2}
  Exclusive = TRUE
  HalfInit = TRUE
  HalfJoin = FALSE
  MaxEpoch = 2
  MaxFaults = 1
  Pods = {s1, d1, a1}
  Stateful = {s1, a1}
  Resident = {a1}
  Tolerant = {d1}
  Pending = pending
  Gone = gone
  MaxEnds = 1
SYMMETRY Symmetry
INVARIANTS NoOrphan KubeconfigCurrent
PROPERTIES MembershipSpec ClusterSpec ResetSparesPods EvictsFromCordoned

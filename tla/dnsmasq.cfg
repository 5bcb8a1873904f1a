SPECIFICATION Spec
CONSTANTS
  Requests = {q, r}
  Ranges = {v, w}
  Lists = {l}
  Names = {n}
  MACs = {m1, m2}
  IPs = {i, j}
  Environments <- All
SYMMETRY Symmetry
INVARIANTS TypeOK NoDuplicates LoadedWhenIdle
PROPERTY ImplementsSettings

SPECIFICATION Spec
CONSTANTS
  Applies = {a1, a2}
  MACs = {1, 2}
  Mbps = {5, 10}
  classIDStart = 10
  classIDMax = 245
  defaultClass = 11
  Preload = {2}
  Environments = {{}, {"overlap", "orphan"}, {"fault", "orphan"}}
SYMMETRY Symmetry
INVARIANTS TypeOK InSyncWhenIdle
PROPERTY LoneApplyRepairs

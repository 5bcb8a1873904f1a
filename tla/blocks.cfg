SPECIFICATION Spec
CONSTANTS
  Requests = {r1, r2, r3}
  MACs = {m1, m2, m3}
  MaxRules = 2
  Environments = {{"reload"}, {"overlap"}, {"stale", "fault", "midway"}}
SYMMETRY Symmetry
INVARIANTS InSyncWhenIdle RulesFollowRows
PROPERTY ScriptHeals

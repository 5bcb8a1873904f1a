SPECIFICATION RulesSpec
CONSTANTS
  Windows = {w1, w2}
  Slots = {s1, s2}
  RulesEnvironments <- Both
  MaxAdded <- Rules2or3
SYMMETRY Symmetry
PROPERTIES DeletesRuleAsCounted SparesOlderRules

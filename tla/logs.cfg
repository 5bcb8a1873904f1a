SPECIFICATION FairSpec
CONSTANTS
  Clients = {c1, c2}
  Stuck = {c1}
  Categories = {dhcp, system}
  HistoryPerCategory = 1
  Slots = 2
  Slack = 0
  MaxLines = 3
  Faults = {"missing", "rotated"}
INVARIANT PageIsComplete
INVARIANT NeverBlocksWithLock
INVARIANT NoLineTwice
PROPERTY LineReachesReader

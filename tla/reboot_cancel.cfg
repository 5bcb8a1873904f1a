SPECIFICATION Spec
CONSTANTS
  Requests = {r1}
  Times = {t1, t2}
  NoTime = NoTime
  ReadError = ReadError
  RebootFails = FALSE
  ReadFails = FALSE
INVARIANT InSyncWhenQuiet

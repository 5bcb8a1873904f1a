SPECIFICATION FairSpec
CONSTANTS
  Requests = {r1, r2}
  Times = {t1, t2}
  NoTime = NoTime
  ReadError = ReadError
  RebootFails = TRUE
  ReadFails = TRUE
INVARIANT NoLostSave
PROPERTIES SavedIsArmed ScheduledRebootHappens

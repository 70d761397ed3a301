\* Every request is answered, and what nobody uses is swept.
SPECIFICATION FairSpec
CONSTANTS
  t1 = t1  t2 = t2  t3 = t3  s1 = s1  s2 = s2
  lower = lower  upper = upper  d1 = d1  d2 = d2
  Thread = {t1, t2, t3}
  Cleaner = Cleaner
  Sid = {s1}
  NoSid = NoSid
  Base = {lower}
  Fold <- FoldToLower
  NoName = NoName
  Data = {d1}
  Hole = Hole  Absent = Absent  Foreign = Foreign
  MaxChunks = 1
  MaxForeign = 1
  MaxSessions = 1
  MaxCompleted = 1
  MaxStreams = 2
  NBlocks = 1
  Requests = {"chunk", "cancel"}
  Faults = {}
PROPERTIES
  Answered
  AbandonedSwept

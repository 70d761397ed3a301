\* Two streams against the requests that end the session, on one chunk.
SPECIFICATION Spec
CONSTANTS
  t1 = t1  t2 = t2  t3 = t3  s1 = s1  s2 = s2
  lower = lower  upper = upper  d1 = d1  d2 = d2
  Thread = {t1, t2, t3}
  Cleaner = Cleaner
  Sid = {s1}
  NoSid = NoSid
  Base = {lower}
  Fold <- FoldToLower
  NoName = NoName
  Data = {d1, d2}
  Hole = Hole  Absent = Absent  Foreign = Foreign
  MaxChunks = 1
  MaxForeign = 1
  MaxSessions = 1
  MaxCompleted = 1
  MaxStreams = 2
  NBlocks = 1
  Requests = {"chunk", "status", "complete", "cancel", "delete"}
  Faults = {}
SYMMETRY SymmetryOfAll
INVARIANTS
  NoWriteAfterClose
  AcknowledgedWhole
  AnswersTrue
  TempAccounted
PROPERTIES
  AckStable
  PublishOnce

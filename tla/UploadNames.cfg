\* Empty uploads, so that only names matter: two names with one key, files of
\* others appearing and vanishing, the sweeper between the requests.
SPECIFICATION Spec
CONSTANTS
  t1 = t1  t2 = t2  t3 = t3  s1 = s1  s2 = s2
  lower = lower  upper = upper  d1 = d1  d2 = d2
  Thread = {t1}
  Cleaner = Cleaner
  Sid = {s1, s2}
  NoSid = NoSid
  Base = {lower, upper}
  Fold <- FoldToLower
  NoName = NoName
  Data = {d1}
  Hole = Hole  Absent = Absent  Foreign = Foreign
  MaxChunks = 0
  MaxForeign = 1
  MaxSessions = 2
  MaxCompleted = 1
  MaxStreams = 2
  NBlocks = 1
  Requests = {"chunk", "status", "complete", "cancel", "delete"}
  Faults = {"external"}
SYMMETRY SymmetryOfAll
INVARIANTS
  NamesExact
  AnswersTrue
PROPERTIES
  NoClobber

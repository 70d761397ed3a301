\* Two chunks on one block lock, disk errors, restarts and files of others, which
\* may take the name and make its exchange fail half-way; the refinement.
SPECIFICATION Spec
CONSTANTS
  t1 = t1  t2 = t2  t3 = t3  s1 = s1  s2 = s2
  lower = lower  upper = upper  d1 = d1  d2 = d2
  Thread = {t1, t2}
  Cleaner = Cleaner
  Sid = {s1}
  NoSid = NoSid
  Base = {lower}
  Fold <- FoldToLower
  NoName = NoName
  Data = {d1, d2}
  Hole = Hole  Absent = Absent  Foreign = Foreign
  MaxChunks = 2
  MaxForeign = 1
  MaxSessions = 1
  MaxCompleted = 1
  MaxStreams = 2
  NBlocks = 1
  Requests = {"chunk", "status", "complete", "cancel", "delete"}
  Faults = {"io", "crash", "external"}
SYMMETRY SymmetryOfAll
INVARIANTS
  RegistrySound
  PublishedWhole
  ProgressHonest
PROPERTIES
  PromiseKept

\* One file in two chunks by two workers, every fault.
SPECIFICATION Spec
CONSTANTS
  i1 = i1  i2 = i2  w1 = w1  w2 = w2  l1 = l1  l2 = l2  s1 = s1  s2 = s2  s3 = s3
  Item = {i1}
  NoItem = NoItem
  Slot = {w1}
  Lane = {l1, l2}
  Sid = {s1, s2}
  NoSid = NoSid
  Hole = Hole
  MaxChunks = 2
  Retries = 1
  MaxCommands = 4
  Faults = {"transient", "fatal", "late", "config", "restart", "sweep", "lock"}
SYMMETRY SymmetryOfAll
INVARIANTS
  ServerAgrees
  OnePublication
  NoForgottenSession
  NoLostWakeup
PROPERTIES
  Obeyed
CHECK_DEADLOCK FALSE

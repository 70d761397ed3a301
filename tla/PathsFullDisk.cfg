\* One upload, and a disk on which creating a directory may fail.
SPECIFICATION Spec
CONSTANTS
  s1 = s1  s2 = s2
  a = a  A = A  b = b  x = x  y = y
  i1 = i1  i2 = i2  i3 = i3
  Sid = {s1, s2}
  NoSid = NoSid
  Part = {a, A, b, x}
  Fold <- LowerCase
  Target <- Deep
  Inode = {i1, i2, i3}
  NoInode = NoInode
  Reuse = FALSE
  Faults = {"mkdir"}
INVARIANTS
  FailedInitLeavesNothing
CHECK_DEADLOCK FALSE

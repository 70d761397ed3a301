\* Two uploads into nested directories, with outsiders and a full disk.
SPECIFICATION Spec
CONSTANTS
  s1 = s1  s2 = s2
  a = a  A = A  b = b  x = x  y = y
  i1 = i1  i2 = i2  i3 = i3
  Sid = {s1, s2}
  NoSid = NoSid
  Part = {a, A, b, x, y}
  Fold <- LowerCase
  Target <- Nested
  Inode = {i1, i2, i3}
  NoInode = NoInode
  Reuse = FALSE
  Faults = {"mkdir", "outside", "restart"}
SYMMETRY Symmetry
INVARIANTS
  TreeSound
  EmptyParentsRemoved
PROPERTIES
  OnlyOwnRemoved

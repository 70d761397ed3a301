\* Three requests on one file and what edits make of it, with another program
\* at work, every disk operation failing and the process dying anywhere.
SPECIFICATION Spec
CONSTANTS
  t1 = t1  t2 = t2  t3 = t3
  n1 = n1  n2 = n2
  x1 = x1  x2 = x2
  a = a  b = b
  Thread = {t1, t2, t3}
  Name = {n1}
  Temp = {x1, x2}
  NoFile = NoFile
  Content = {a, b}
  Absent = Absent
  MaxChanges = 2
  Requests = {"list", "delete", "publish", "save"}
  Faults = {"scan", "write", "remove", "outside", "crash"}
SYMMETRY SymmetryOfAll
INVARIANTS
  TypeOK
  ListCurrent
  TempHidden
PROPERTIES
  NoLostEdit

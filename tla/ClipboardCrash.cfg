\* Two clients, three entries, at most two kept, any write or rename failing
\* and the process dying anywhere.
SPECIFICATION Spec
CONSTANTS
  c1 = c1  c2 = c2  c3 = c3
  e1 = e1  e2 = e2  e3 = e3
  Client = {c1, c2}
  Id = {e1, e2, e3}
  NoId = NoId
  Size = {1, 2}
  MaxEntries = 2
  MaxTotal = 3
  Requests = {"text", "image", "delete", "clear", "list", "open", "thumb"}
  Faults = {"write", "crash"}
SYMMETRY SymmetryOfAll
INVARIANTS
  StoreSound
  ToldDurable
  ImagesTrue
PROPERTIES
  PromiseKept

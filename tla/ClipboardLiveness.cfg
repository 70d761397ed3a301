\* Three clients, one image: who waits for whom, restarts included (only they
\* leave a thumbnail to be rendered).
SPECIFICATION FairSpec
CONSTANTS
  c1 = c1  c2 = c2  c3 = c3
  e1 = e1  e2 = e2  e3 = e3
  Client = {c1, c2, c3}
  Id = {e1}
  NoId = NoId
  Size = {1}
  MaxEntries = 1
  MaxTotal = 1
  Requests = {"image", "delete", "thumb"}
  Faults = {"crash", "remove"}
PROPERTIES
  Answered

\* Two files by two workers, the clipboard, and the editor, each left to its fairness.
SPECIFICATION FairInterface
CONSTANTS
  Route = {"upload", "clipboard", "files", "editor", "browser"}
  i1 = i1  i2 = i2  w1 = w1  w2 = w2  l1 = l1  l2 = l2  s1 = s1  s2 = s2
  Item = {i1, i2}  NoItem = NoItem  Slot = {w1, w2}  Lane = {l1}  Sid = {s1}  NoSid = NoSid
  Hole = Hole  MaxChunks = 1  Retries = 1  MaxCommands = 5
  Faults = {"transient", "lock"}
  e1 = e1  e2 = e2  e3 = e3  Id = {e1, e2, e3}  MaxEntries = 2  ClipboardCommands = 3
  n1 = n1  n2 = n2  v1 = v1  v2 = v2  Name = {n1, n2}  Version = {v1, v2}  FilesCommands = 3
  t1 = t1  t2 = t2  t3 = t3  Text = {t1, t2, t3}  EditorCommands = 10
  Path <- Tree  PageSize = 2  Window = 2
  None = None  NotModified = NotModified  Failed = Failed
INVARIANTS
  NothingStuck
  ListsTrue
  SpinnersTrue
  UnsavedKept
  BrowserTrue
PROPERTIES
  Settles
  GivenUpKnowingly
  ReplacesWhatWasSeen
CHECK_DEADLOCK FALSE

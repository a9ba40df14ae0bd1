SPECIFICATION StorageSpec
CONSTANTS
  Parts = {"mock", "lists", "graphs", "twins"}
  Callers = {a, b}
  Keys = {k}
  Streams = {s}
  Texts = {x}
  NoText = NoText
  AnyVersion = AnyVersion
  NoDraft = NoDraft
  MaxCalls = 3
  MaxSteps = 3
  MaxUnit = 3
  i = i
  j = j
  m = m
  n = n
  p = p
  q = q
  foreign = foreign
  Foreign = foreign
  good = good
  bad = bad
  Ids = {i, j, m, n, p, q}
  Contents = {good, bad, foreign}
  NoRecord = NoRecord
  Contenders = {"list", "tail", "overlap", "divergent", "graph", "half", "other", "again", "twin", "sibling"}
  Procedure <- CallsRun
  Desired <- CallsDesire
  MaxRestarts = 1
INVARIANTS
  TypeOK
  EnsureTypeOK
  OpenDraftIsIsolated
PROPERTIES
  LiveOnlyExtends
  UnitsAreAtomic
  CallsActAlone
  EveryCallEnds
CHECK_DEADLOCK FALSE

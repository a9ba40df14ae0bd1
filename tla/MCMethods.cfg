SPECIFICATION MethodsSpec
CONSTANTS
  Parts = {"calls", "sealing", "migration"}
  Selectors = {"foo", "bar"}
  Definitions <- SmallDefinitions
  Founding <- SmallFounding
  Requests <- SmallRequests
  c1 = c1
  c2 = c2
  m1 = m1
  m2 = m2
  x1 = x1
  Callers = {c1, c2}
  Migrators = {m1, m2}
  Senders = {x1}
  Evolvers = {}
  MaxEvolutions = 0
  MaxCalls = 3
  MaxRebases = 1
  MaxCrashes = 1
INVARIANTS
  TypeOK
  AnswerWasBound
  TargetMatchesSealed
PROPERTIES
  KeepsMethodPositions
  MigrationConverges
CHECK_DEADLOCK FALSE

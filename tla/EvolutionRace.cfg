SPECIFICATION EvolutionSpec
CONSTANTS
  Parts = {"evolution"}
  Selectors = {"foo", "bar"}
  Definitions <- OneDefinition
  Founding <- SmallFounding
  Requests <- DefineBar
  c1 = c1
  c2 = c2
  m1 = m1
  m2 = m2
  x1 = x1
  Callers = {c1}
  Migrators = {m1}
  Senders = {}
  Evolvers = {x1}
  MaxEvolutions = 1
  MaxCalls = 1
  MaxRebases = 1
  MaxCrashes = 0
PROPERTY NoMethodIsLost
CHECK_DEADLOCK FALSE

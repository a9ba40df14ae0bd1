SPECIFICATION ExecutionSpec
CONSTANTS
  Parts = {"code", "dictionary", "lisp", "smalltalk"}
  Cells = {"x"}
  Programs <- Bodies
  v = v
  w = w
  DictionaryClients = {1, 2}
  DictionaryKeys <- CollidingKeys
  DictionaryValues = {v, w}
  Beginnings <- StoredAlready
  HashOfForm <- FormHash
  Tombstone = Tombstone
  Unanswered = Unanswered
  Missing = Missing
  MinimumCapacity = 2
  MaxDictionaryCalls = 2
  LispPrograms <- NestedPrograms
  Proclaimed = {"s"}
  MethodPrograms <- ClassPrograms
INVARIANTS
  ExecutionTypeOK
  CompiledProgramsMeanTheSame
  DictionaryIsSound
PROPERTIES
  DictionariesChangeByOneCall
CHECK_DEADLOCK FALSE

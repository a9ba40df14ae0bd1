SPECIFICATION SessionsSpec
CONSTANTS
  Parts = {"wasm", "guests", "lab", "promotion", "conditions"}
  Activations = {1, 2}
  Modules = {m}
  MaxIdle = 1
  MaxResumptions = 2
  MaxFaults = 2
  MaxClears = 2
  Calls = {1, 2}
  MaxStarts = 2
  MaxStops = 1
  Workers = {1, 2}
  WorkerSlots <- SlotsPerWorker
  Faster <- FasterThan
  LabJobs = {1, 2}
  MayEnd <- JobsMayEnd
  MaxDrops = 1
  obj1 = obj1
  obj2 = obj2
  clo = clo
  Objs = {obj1, obj2, clo}
  Closures = {clo}
  Graphs <- Cycles
  Tasks = {1, 2}
  MaxFailures = 1
  MaxMutations = 1
  Caller = Caller
  c1 = c1
  c2 = c2
  Signals = {c1, c2}
  Classes = {"Exception", "Error"}
  KindsOf <- TwoKinds
  Authorities = {1, 2}
  MaxDepth = 6
  MaxMinted = 4
INVARIANTS
  SessionsTypeOK
  PoolIsSound
  GuestsAreAccountedFor
  VerdictsAreHonest
  HandlersAreSound
  PromotionsAreWhole
PROPERTIES
  EverythingEnds
CHECK_DEADLOCK FALSE

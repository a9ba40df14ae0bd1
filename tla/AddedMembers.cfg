SPECIFICATION WorkspaceSpec
CONSTANTS
  Parts = {"project"}
  Slots = {"x", "y"}
  Linkage = "project"
  Images = {"home", "fork"}
  Names = {"main"}
  Ids = {1, 2}
  Records <- TwoRecords
  Beginnings <- OneBeginning
  Clients = {1, 2}
  Mergers = {1}
  MaxOps = 2
  MaxEdits = 1
  MaxCrashes = 1
  Candidates <- RecordsToMerge
  MemberKeys = {"m"}
  Descriptors <- SomeDescriptors
  Manifests <- SomeManifests
  TargetImage = "home"
  NoRef = NoRef
  Project = "p"
  Members = {"m"}
  Targets = {"t", "u"}
  HomeOf <- Homes
  ProjectNames = {"one"}
  Roles = {"code", "text"}
  Selected = {"code"}
  ProjectClients = {1, 2}
  MaxProjectOps = 3
  MaxTargetEdits = 1
  MaxProjectCrashes = 1
  Installers = {1, 2}
  Releases = {"r1", "r2"}
  RootsOf <- ReleaseRoots
  RecordsOf <- ReleaseRecords
  MaxInstalls = 3
  MaxInstallCrashes = 1
  Keys = {"k"}
  ToolKeys = {"t"}
  Outputs = {1, 2}
  fixedId = fixedId
  ChosenIds = {fixedId}
  Wanted <- SomeWanted
  Builders = {1, 2}
  MaxBuilds = 3
  MaxRestarts = 1
  MaxListFailures = 1
  MaxSweeps = 1
  thing = thing
  holder = holder
  ObjectIds = {thing, holder}
  Leaves = {"v"}
  Batches <- SomeBatches
  ClassId = "Object"
  Toggled <- SomeGrants
  Callers = {1, 2}
  Observers = {1}
  MaxIdentityAttempts = 2
  MaxCalls = 4
  MaxGrantChanges = 1
  Movables = {1, 2}
  Shapes <- TwoShapes
  FirstShape = "s"
  MigrationRequests <- SomeMigrations
  Values = {0, 1}
  NoDefault = NoDefault
  Runners = {1, 2}
  MaxRuns = 2
  MaxSlotUpdates = 1
INVARIANT AddedMembersAreLinked
CHECK_DEADLOCK FALSE

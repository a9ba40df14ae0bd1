SPECIFICATION ImagesSpec
CONSTANTS
  Parts = {"image"}
  Clients = {a, b}
  Ids <- MCIds
  shape = shape
  object = object
  artifact = artifact
  dependent = dependent
  env = env
  plain = plain
  other = other
  Layouts = {plain, other}
  NoId = NoId
  Unconditional = Unconditional
  Candidates <- MCCandidates
  Batches <- MCBatches
  SystemRoots = {dependent}
  Sweeps = {}
  Pins = {3}
  MaxHistory = 5
  MaxVersion = 2
  p = p
  q = q
  r = r
  NodeOrder <- Order
  ImageNodes = {p}
  Movers = {a, b}
  Users = {u}
  NoNode = NoNode
  AnyCopy = AnyCopy
  MoversCrash = TRUE
  MaxMoves = 3
  MaxWrites = 2
  MaxLookups = 2
  MaxCalls = 4
  Sessions = {a, b}
  Keys = {k}
  Streams = {s}
  Texts = {t1, t2}
  NoText = NoText
  Unwritten = Unwritten
  AnyVersion = AnyVersion
  MaxOps = 2
  MaxCommits = 2
  MaxUnit = 2
SYMMETRY ActorSymmetry
INVARIANT DependenciesExist
CHECK_DEADLOCK FALSE

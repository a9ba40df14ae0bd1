SPECIFICATION ImagesSpec
CONSTANTS
  Parts = {"relocation"}
  Clients = {a, b}
  Ids <- MCIds
  shape = shape
  object = object
  artifact = artifact
  dependent = dependent
  env = env
  plain = plain
  other = other
  Layouts = {plain, other}
  NoId = NoId
  Unconditional = Unconditional
  Candidates <- MCCandidates
  Batches <- MCBatches
  SystemRoots = {dependent}
  Sweeps <- MCSweeps
  Pins = {3}
  MaxHistory = 5
  MaxVersion = 2
  p = p
  q = q
  r = r
  NodeOrder <- Order
  ImageNodes = {p}
  Movers = {a, b}
  Users = {u}
  NoNode = NoNode
  AnyCopy = AnyCopy
  MoversCrash = FALSE
  MaxMoves = 3
  MaxWrites = 1
  MaxLookups = 0
  MaxCalls = 4
  Sessions = {a, b}
  Keys = {k}
  Streams = {s}
  Texts = {t1, t2}
  NoText = NoText
  Unwritten = Unwritten
  AnyVersion = AnyVersion
  MaxOps = 2
  MaxCommits = 2
  MaxUnit = 2
SYMMETRY ActorSymmetry
INVARIANT AtMostOneLive
CHECK_DEADLOCK FALSE

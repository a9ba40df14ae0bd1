SPECIFICATION ImagesSpec
CONSTANTS
  Parts = {"image", "pinned", "relocation", "lagrange"}
  Clients = {a, b}
  Ids <- MCIds
  shape = shape
  object = object
  artifact = artifact
  dependent = dependent
  env = env
  plain = plain
  other = other
  Layouts = {plain, other}
  NoId = NoId
  Unconditional = Unconditional
  Candidates <- MCCandidates
  Batches <- MCBatches
  SystemRoots = {dependent}
  Sweeps <- MCSweeps
  Pins = {3}
  MaxHistory = 6
  MaxVersion = 2
  p = p
  q = q
  r = r
  NodeOrder <- Order
  ImageNodes = {p}
  Movers = {a, b}
  Users = {u}
  NoNode = NoNode
  AnyCopy = AnyCopy
  MoversCrash = TRUE
  MaxMoves = 3
  MaxWrites = 2
  MaxLookups = 2
  MaxCalls = 4
  Sessions = {a, b}
  Keys = {k}
  Streams = {s}
  Texts = {t1, t2}
  NoText = NoText
  Unwritten = Unwritten
  AnyVersion = AnyVersion
  MaxOps = 2
  MaxCommits = 2
  MaxUnit = 2
SYMMETRY ActorSymmetry
INVARIANTS
  ImagesTypeOK
  HistoryIsTheImage
  LastUpdateSurvives
  CalmLookupFindsTheRecord
  StreamsHaveNoGaps
PROPERTIES
  LayoutsStayValid
  CollectionsAreExact
  RowUnitsAreAtomic
CHECK_DEADLOCK FALSE

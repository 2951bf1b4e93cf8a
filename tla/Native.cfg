CONSTANTS
  CnThreads = {m, w}
  CnMain = m
  CnTasks = {k1, k2}
  CnTexts <- Items
  CnPrints = 3
  TxThreads = {t1, t2}
  TxVariables = {g}
  TxTexts = {x, y}
  TxCells = 4
  NfThreads = {t1, t2}
  NfChannels = {1, 2}
  NfFiles = 3
  NfItems = 1
  NfNesting = 1
  ExThreads = {m, w}
  ExMain = m
  ExTasks = {k1}
  ExValues = {x}
  ExDepth = 2
  ExThrows = 2
  SlThreads = {t1, t2}
  SlSlots = {0, 256}
  SlTypes = {1, 3}
  SlCallbacks = {c1}
  SlData = {p, q}
  SlNesting = 1
  CoKeys = {k1, k2, k3}
  CoTagged <- Tagged
  CoTables = 2
  CoLength = 3
  CoBounds <- Bounds
  GrVertices = 4
  GrEdges = 3
  MxSizes <- MatrixSizes
  MxValues <- MatrixValues
  MxStores = 4
  TrShapes <- TensorShapes
  TrLargest = 12
  UcItems <- ListItems
  UcKeys = {k1, k2, k3}
  UcValues = {k1}
  UcNumbers = {7}
  UcShown <- NumberTexts
  UcLong = {k2}
  UcCut = k1
  UcLength = 4
  UcTickets = 5
  ClzThreads = {t1, t2}
  ClzMethodIds = {m1}
  ClzTypeCount = 3
  ClzPayloads = {a, b}
  ClzSlots = 2
  ClzMaxGen = 2
  ClzMaxRefs = 20
  ClzHolds = 2
  ClzRegistered = 2
  ClzNesting = 1
  BfTypes = {"u8", "f64"}
  BfReal = {"f64"}
  BfUnsigned = {"u8"}
  BfValues <- BufferNumbers
  BfLength = 2
  BfBuffers = 2
  BfCalls = 3
  FzNumbers <- FuzzyNumbers
  NnSizes = {1, 2}
  NnActivations = {"linear", "relu"}
  NnPatterns = {1}
  NnBiases = {1}
  NnBiased = {2}
  NnSamples <- Samples
  NnDepth = 3
  NnCapacity = 1
  NnTrainings = 1
  DsFiles <- CsvFiles
  DsDims <- RowShapes
  DsQuarters = {2, 3, 5}
  DsSeeds = {0, 1}
  DsBatches = {2, 3}
  DsChanges = 2
SPECIFICATION Spec
INVARIANT ConsoleFaithful
INVARIANT TextsKept
INVARIANT FilesExact
INVARIANT ExceptionFlagOwn
INVARIANT SlotTasksConsistent
INVARIANT ComputationsExact
INVARIANT CollectionsExact
INVARIANT ClzObjectsExact
CHECK_DEADLOCK FALSE

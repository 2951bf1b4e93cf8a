CONSTANTS
  JsThreads = {t1, t2}
  JsRtSlots = 2
  JsCtxSlots = 2
  JsResSlots = 1
  JsMaxGen <- JsGenerations
  PyThreads = {t1, t2}
  PyObjects = {a, b}
  PySesSlots = 1
  PyObjSlots = 2
  PyMaxSesGen = 2
  PyMaxObjGen = 2
  WmThreads = {t1, t2}
  WmSlots = 2
  WmMaxGen = 2
  WmMaxInt = 1
  FfThreads = {t1, t2}
  NoThread = nt
  FfLibraries = {l1, l2}
  FfRequired = {l2}
  FfSlots = 2
  FfModuleLimit = 1
  FfMaxGen = 2
  GslThreads = {t1, t2}
  GslAddresses = {1, 2}
  GslKinds = {"rng", "vector", "matrix", "integration workspace", "complex", "root bisection"}
  SdlKeys = {k1}
  SdlButtons = {}
  SdlEvents = {"wheel", "text"}
  SdlSlots = 2
  SdlPadSlots = 1
  SdlCursorIds = {1}
  SdlVolumes = {1, 2}
  SdlTextMax = 1
  SdlDropMax = 1
  SdlQueueMax = 3
  CapiTypes = {d1, d2, d3}
  CapiLists = {c1, c2}
  CapiThreads = {t1, t2}
  CapiArgMax = 1
  CapiEventMax = 3
  DdThreads = {t1, t2}
  DdContexts = 2
  DdFrames = 3
  DdQueries = 3
  DdMatrices = 1
  OxMaxIo = 2
  OxSessions = 1
  OxTensors = 3
  OxRuns = 1
  OxResults = 2
  OxTypes = {"string", "f32"}
  RlLimit <- RaylibLimit
  RlCloses = 1
  LgThreads = {t1, t2}
  LgSymbols = 2
  LgLibraries = {"whole", "old"}
  LgHas <- LuaEntries
  LgStates = 2
  LgNames = {n1}
  LgNumbers = {1, 2}
  LgResults = 2
  LgOutput = 2
  CsDatabases = 2
  CsStatements = 2
  CsPatterns = 2
  CsDocuments = 2
  CsParameters = {1}
  CsLengths = {0, 2}
  CsGroups = 2
  CsWidth = 4
SPECIFICATION Spec
INVARIANT PyRefsExact
INVARIANT WmObjectsAccounted
INVARIANT FfTexts
INVARIANT GslOwnership
INVARIANT SdlFaithful
INVARIANT CapiOwnership
INVARIANT ForeignObjectsOwned
PROPERTY JsImplementsHandles
CHECK_DEADLOCK FALSE

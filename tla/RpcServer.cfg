\* A client that has got its answers may stop.
CHECK_DEADLOCK FALSE
SPECIFICATION RpcSpec
CONSTANTS
    NoAddress = NoAddress
    sender = sender
    factory = factory
    pm = pm
    other = other
    c1 = c1
    c2 = c2
    EntryPoint = EntryPoint
    Clients = {c1, c2}
    LookupOps = {c1, c2}
    Paymasters = {pm}
    RepProcesses <- MCProcesses
    Situations <- MCSituations
    Scenes <- MCScenes
    StoredCounts <- MCStoredCounts
    AltMempools <- MCAltMempools
    L1s <- MCL1s
    MaxGasLimit = 300000
    Cutoff = 30000
    MaxRetries = 7
    BaseVGLBuffer = 25
    MaxVerificationGas = 500000
    MaxBatchGasLimit = 1000000
    ChainID = 1
    EmaHours = 2
    MinInclusionRateDenominator = 2
    BanSlack = 1
    MaxAge = 6
    Window = 2
    MaxHead = 4
    DebugMode = TRUE
    Now = 1000
INVARIANTS
    RpcTypeOK
    EstimateIsEnough
    EstimateIsTight
    EstimatedOpsAreAdmitted
    StakesAreKnown
    PooledOpsTouchTheirOwn
    LookupsAreRight
PROPERTIES
    AnswersFitTheirRequests
    CountsAreExact
    EstimationAdvances
    BanEnds
    RequestsEnd

CONSTANTS
    t1 = t1
    h1 = h1
    h2 = h2
    PairA = {h1, h2}
    PairB = {b1, b2}
    PairC = {d1, d2}
    Sources = {h1, h2}
    LifecycleCalls = {1, 2, 3}
    Recoveries = {b1, b2}
    NoCall = none
    Runtimes = {h1, h2}
    Operations = {b1, b2}
    Digests = {d1, d2}
    ModelUnits = 1
    ModelLimit = 1
    RuntimeLimit = 2
    NoDigest = none
    Hypotheses = {h1, h2}
    Tables = {t1}
    TableOf <- MCTableOf
    Columns = {b1, b2}
    Intents = {t1}
    LastPhase = 2
    MaxRunProbes = 3
    MaxObjectProbes = 2
    MaxTableProbes = 3
    MaxHypothesisProbes = 2
    MaxNoGain = 2
    MaxCounterevidence = 2
    Analyses = {1, 2, 3}
    Nothing = none
    Installs = {h1, h2}
    InstallRecoveries = {t1}
    Writes = {d1, d2}
    NoInstall = none
    StarterServers = {h1, h2}
    StarterOperations = {1, 2, 3}
    NoOperation = none
    OperationBound = 2
    LastGeneration = 3
    Handles = {1, 2, 3}
SPECIFICATION Spec
INVARIANTS
    ServicesTypeOK
    
    
    DispatchedAtMostOnce
    BudgetCoversUse
    EligibilityAgrees
    StateStaysValid
    MirrorsFollowThePointer
    StarterRunsOnce
    UnknownOutcomeIsShown
    PortableMarkerTellsTheTruth
PROPERTIES
    
    AnswersAreAccountedFor
    LiveKeepsItsState
    BrokerIsOneShot
    StarterIsOneShot
SYMMETRY ServicesSymmetry
CHECK_DEADLOCK FALSE

SPECIFICATION MCSpec
CONSTANTS
    MaxValueDepth = 2
    RepeatScanLimit = 2
    LinearLimit = 2
    MaxDeref = 3
    NoPlan = NoPlan
    Goroutines = {"g1", "g2", "g3"}
    Types <- MCTypes
    MaxCalls = 2
    Scenarios <- MCScenarios
    Mem0 <- MCMem0
    Scribbled <- MCScribbled
    Named <- MCNamed
    TypedScenes <- MCTypedScenes
INVARIANT HiddenKeysRefused
CHECK_DEADLOCK FALSE

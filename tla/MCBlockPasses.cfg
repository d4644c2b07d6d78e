SPECIFICATION PassesSpec
CONSTANTS
    Bodies <- MCBodies
    Labels <- MCLabels
    ReturnLabel = "return"
    MirBodies <- MCMirBodies
    Ignored = {"nop"}
    StorageLive = "live"
    ResultLabel = "result"
    ToInline <- MCToInline
    Ifs <- MCIfs
    Aborts <- MCAborts
    AssertLabel <- MCAssertLabel
INVARIANTS
    TargetsLive
    NoChainsLeft
    BehaviourKept
    ReturnsUnshared
    GraphIsCompact
PROPERTY
    PassesEnd
CHECK_DEADLOCK FALSE

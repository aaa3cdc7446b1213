SPECIFICATION Spec
CONSTANTS
    Nodes <- MCNodes
    Rank <- MCRank
    Shape <- MCShape
    Edges <- MCEdges
    Gates <- MCGates
    RetryTarget <- MCRetryTarget
    GateLimit <- MCGateLimit
    Answers <- MCAnswers
    Start = "start"
    Flags = {}
    Labels <- MCLabels
    NoLabel = NoLabel
    NoKey = NoKey
    NoRow = NoRow
    Procs = {p1}
    Attempts = {1, 2}
    FailureKinds = {}
    MaxFanOutWidth = 2
    MaxCrashes = 1
    MaxBoardErrors = 1
CHECK_DEADLOCK FALSE
INVARIANTS TypeOK IInv FanInBarrier BlockedOnExhaustion WorkIsCaused
PROPERTIES ImplementsContract

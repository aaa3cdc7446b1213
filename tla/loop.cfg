SPECIFICATION Spec
CONSTANTS
    Nodes <- MCNodes
    Rank <- MCRank
    Shape <- MCShape
    Edges <- MCLoopEdges
    Gates <- MCNoGates
    RetryTarget <- MCNoTarget
    GateLimit <- MCNoLimit
    Answers <- MCLoopAnswers
    Start = "start"
    Flags = {}
    Labels <- MCLabels
    NoLabel = NoLabel
    NoKey = NoKey
    NoRow = NoRow
    Procs = {p1}
    Attempts = {1, 2, 3}
    FailureKinds = {}
    MaxFanOutWidth = 2
    MaxCrashes = 0
    MaxBoardErrors = 0
CHECK_DEADLOCK FALSE
INVARIANTS NoStall

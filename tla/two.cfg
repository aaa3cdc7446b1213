SPECIFICATION FairSpec
CONSTANTS
    Nodes <- MCNodes
    Rank <- MCRank
    Shape <- MCShape
    Edges <- MCEdges
    Gates <- MCGates
    RetryTarget <- MCRetryTarget
    GateLimit <- MCGateLimit
    Answers <- MCAnswers
    Start = "start"
    Flags = {}
    Labels <- MCLabels
    NoLabel = NoLabel
    NoKey = NoKey
    NoRow = NoRow
    Procs = {p1, p2}
    Attempts = {1, 2, 3}
    FailureKinds = {}
    MaxFanOutWidth = 2
    MaxCrashes = 1
    MaxBoardErrors = 0
CHECK_DEADLOCK FALSE
INVARIANTS NoStall NoDuplicateWork GateWithinLimit
PROPERTIES Termination

SPECIFICATION FairSpec
CONSTANTS
    Nodes <- MCNodes
    Rank <- MCRank
    Shape <- MCShape
    Edges <- MCEdges
    Gates <- MCGates
    RetryTarget <- MCRetryTarget
    GateLimit <- MCGateLimit
    Answers <- MCAnswers
    Start = "start"
    Flags = {}
    Labels <- MCLabels
    NoLabel = NoLabel
    NoKey = NoKey
    NoRow = NoRow
    Procs = {p1}
    Attempts = {1, 2, 3}
    FailureKinds = {"crashed"}
    MaxFanOutWidth = 2
    MaxCrashes = 2
    MaxBoardErrors = 0
CHECK_DEADLOCK FALSE
INVARIANTS NoStall CursorCovers NoDuplicateWork SucceededPastGate
PROPERTIES CursorMonotone DoneStaysDone Termination

SPECIFICATION FairSpec
CONSTANTS
    Nodes <- MCNodes
    Rank <- MCRank
    Shape <- MCShape
    Edges <- MCEdges
    Gates <- MCGates
    RetryTarget <- MCRetryTarget
    GateLimit <- MCGateLimit
    Answers <- MCAnswers
    Start = "start"
    Flags = {"f"}
    Labels <- MCLabels
    NoLabel = NoLabel
    NoKey = NoKey
    NoRow = NoRow
    Procs = {p1}
    Attempts = {1, 2, 3}
    FailureKinds = {"crashed"}
    MaxFanOutWidth = 2
    MaxCrashes = 0
    MaxBoardErrors = 0
CHECK_DEADLOCK FALSE
INVARIANTS NoStall CursorCovers NoDuplicateWork MergeComplete GateWithinLimit
PROPERTIES TerminalIsFinal DoneStaysDone FreshRetry Termination

SPECIFICATION PSpec
CONSTANTS
    Keys = {"k", "l"}
    Literals <- MCLiterals
    GuardContexts <- MCContexts
    GuardTexts <- MCTexts
    MaxGuardDepth = 3
    Ids <- MCIds
    Classes = {"plain", "code"}
    Profiles = {"coder", "runner"}
    Decls <- MCDecls
    Arcs <- MCArcs
    Sheets <- MCSheets
    Existing <- MCExisting
    NoTarget = NoTarget
    NoProfile = NoProfile
    NoGuard = NoGuard
    Absent = Absent
    Truncated = Truncated
    Editors = {e1, e2}
    Makers = {m1, m2}
    Tiered = {"coder"}
    HostAtStart = {}
    MaxCopies = 2
    MaxEdits = 2
    MaxCrashes = 1
SYMMETRY MCSymmetry
CHECK_DEADLOCK FALSE
INVARIANTS AInv PInv AcceptedIsRunnable GuardsDecide NoLostEdit
    CommitIsComplete ProvisionedIsLaunchable ModelsComplete
 

SPECIFICATION Spec
CONSTANTS
    Runs = {"r1", "r2"}
    Nobody = "nobody"
    Passes = {p1}
    BatchSize = 2
    Outcomes <- MCOutcomes
    MaxLog = 4
    MaxFaults = 1
CHECK_DEADLOCK FALSE
INVARIANTS CursorOwn BatchesCover RInv
PROPERTIES PassEnds Served

SPECIFICATION Spec
CONSTANTS
    MaxCommit = 2
    MaxRuns = 3
    Queue <- MCSolo
    Catalogs <- MCUnlisted
    Plans = {"review", "mention"}
    Reports <- MCReports
    Faults = {}
INVARIANTS GapHasCause RefusedHasCause
CHECK_DEADLOCK FALSE

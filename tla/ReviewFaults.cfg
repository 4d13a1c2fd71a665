SPECIFICATION FairSpec
CONSTANTS
    MaxCommit = 1
    MaxRuns = 3
    Queue <- MCQueue
    Catalogs <- MCCatalogs
    Plans = {"review", "mention"}
    Reports <- MCReports
    Faults = {"vault", "config", "install", "clone", "read", "prior", "engine",
              "throw", "files", "gate", "list", "dismiss", "create", "lost"}
INVARIANTS StandingIsNewest SupersededHasCause ResultIsShown OneReviewPerRun CredentialsAreInUse NewestKinRuns
PROPERTIES RunEnds
CHECK_DEADLOCK FALSE

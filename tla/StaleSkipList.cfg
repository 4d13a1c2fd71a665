\* Two users of a repo; the settings of one are saved from a page that is old.
CONSTANTS
    Users = {"u1", "u2"}
    Nobody = "nobody"
    Homes = {"u1", "u2"}
    Nameless = noname
    Authors <- People
    Branches = {"main", "next"}
    DefaultBranch = "main"
    Patterns = {"next"}
    Matches <- Globs
    OldRows <- LeftRows
    Savers = {"u1"}
    MaxSaves = 2
SPECIFICATION Spec
INVARIANT SkippedAreNeverReviewed

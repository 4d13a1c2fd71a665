\* Two users of a repo who save settings from pages that may be old.
CONSTANTS
    Users = {"u1", "u2"}
    Nobody = "nobody"
    Homes = {"u1", "u2"}
    Nameless = noname
    Authors <- People
    Branches = {"main", "next"}
    DefaultBranch = "main"
    Patterns = {"next"}
    Matches <- Globs
    OldRows <- LeftRows
    Savers = {"u1"}
    MaxSaves = 2
SPECIFICATION Spec
INVARIANTS ReviewsAreWanted NoneIsPassedOver

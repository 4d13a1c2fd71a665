\* Two pushes to one pull request whose claim may move between them; any call but the comments may fail.
CONSTANTS
    Dispatch = {d1, d2}
    Homes = {h1, h2}
    Shas = {s1, s2}
    Mentions = {}
    PullKey = pull
    NoOne = none
    Tick = 1
    Cadences = {"every-push"}
    Faults = {"mint", "branch", "dispatch", "poll", "prepare", "hold", "post", "report", "death"}
SPECIFICATION Spec
SYMMETRY Interchangeable
INVARIANTS TypeOK OneLiveReview
PROPERTIES TerminalIsFinal KeepsPromise

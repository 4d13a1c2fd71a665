\* Two pushes; no process is killed.
CONSTANTS
    Dispatch = {d1, d2}
    Homes = {h1}
    Shas = {s1, s2}
    Mentions = {}
    PullKey = pull
    NoOne = none
    Tick = 1
    Cadences = {"every-push"}
    Faults = {"mint"}
SPECIFICATION FairSpec
PROPERTIES QueuedIsSettled

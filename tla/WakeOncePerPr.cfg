\* A push and a mention in one Home repo: tokens, slots, comments, credentials and engines may fail.
CONSTANTS
    Dispatch = {d1, d2}
    Homes = {h1}
    Shas = {s1}
    Mentions = {m1}
    PullKey = pull
    NoOne = none
    Tick = 0
    Cadences = {"once-per-pr"}
    Faults = {"token", "slots", "list", "comment", "boot", "prepare"}
SPECIFICATION Spec
SYMMETRY Interchangeable
INVARIANTS FailureIsTold EveryWakeIsAnswered
PROPERTIES DoomedNeverPosts

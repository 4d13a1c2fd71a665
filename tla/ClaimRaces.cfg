\* Three requests of any kind, overlapping or not, any of which may fail half way.
CONSTANTS
    Users = {u1, u2}
    Requests = {r1, r2, r3}
    Installs = {i1}
    Times = {t1, t2}
    NoOne = none
    Operations = {"enable", "disable", "bot", "delete-account", "lifecycle", "wake"}
    Faults = {"call"}
SPECIFICATION Spec
SYMMETRY Interchangeable
INVARIANTS DashboardMatchesClaim
PROPERTIES ForeignRunNeverPosts WriterKeepsClaim

\* Two tabs and a rotation, any call of which may fail.
CONSTANTS
    Tabs = {t1, t2}
    Keys = {k1, k2, k3}
    Repos = {r1}
    NoKey = none
    NoRow = norow
    MaxBoxes = 2
SPECIFICATION Spec
SYMMETRY Interchangeable
INVARIANTS UsedKeysAreSaved OneVaultKey
PROPERTIES RotationMarksStale

\* Two requests that overlap each other and the reads of a Runtime pack.
CONSTANTS
    Accounts = {a1, a2}
    Slots = {1, 2}
    Requests = {r1, r2}
SYMMETRY Alike
SPECIFICATION Spec
INVARIANTS NoMixedList EmptyListHasCause PackIsComplete PackIsAllowed

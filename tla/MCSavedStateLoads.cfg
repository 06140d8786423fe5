SPECIFICATION SessionSpec
CONSTANTS
    Roots = {r1, r2, r3}
    Slots = {v1}
    MaxSessions = 2
    MaxRequests = 1
    MaxStarts = 2
INVARIANT SavedStateLoads
CHECK_DEADLOCK FALSE

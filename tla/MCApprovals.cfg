SPECIFICATION SafetySpec
CONSTANTS
    R1 = R1
    R2 = R2
    Key = Key
    None = None
    Requests = {R1, R2}
    Grant <- OneKey
    Restricted = {}
    MaxFailures = 1
    MaxRestarts = 1
SYMMETRY Either
INVARIANTS
    AllowedIsFinal
    AllowedCardIsTrue
    GrantWasGiven
CHECK_DEADLOCK FALSE

SPECIFICATION SafetySpec
CONSTANTS
    R1 = R1
    R2 = R2
    Key = Key
    None = None
    Requests = {R1, R2}
    Grant <- OneKey
    Restricted = {}
    MaxFailures = 1
    MaxRestarts = 0
INVARIANT GrantIsFinal
CHECK_DEADLOCK FALSE

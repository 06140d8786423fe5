SPECIFICATION SafetySpec
CONSTANTS
    Agents = {A, B}
    MaxJobs = 2
    MaxPerTarget = 2
    MaxDiskFailures = 0
    MaxRestarts = 1
    MaxSends = 2
    MaxHumanSends = 1
    Drains = FALSE
    DeliveryFails = TRUE
    LateAdmission = FALSE
    CanDecline = TRUE
INVARIANTS
    HandledResultNotProjectedTwice
CHECK_DEADLOCK FALSE

SPECIFICATION SafetySpec
CONSTANTS
    Agents = {A, B}
    MaxJobs = 2
    MaxPerTarget = 2
    MaxDiskFailures = 0
    MaxRestarts = 0
    MaxSends = 2
    MaxHumanSends = 1
    Drains = FALSE
    DeliveryFails = TRUE
    LateAdmission = TRUE
    CanDecline = TRUE
INVARIANTS
    ParentWaitsForChildren
CHECK_DEADLOCK FALSE

SPECIFICATION SafetySpec
CONSTANTS
    Agents = {A, B}
    MaxJobs = 3
    MaxPerTarget = 2
    MaxDiskFailures = 0
    MaxRestarts = 0
    MaxSends = 2
    MaxHumanSends = 1
    Drains = TRUE
    DeliveryFails = FALSE
    LateAdmission = FALSE
    CanDecline = TRUE
INVARIANTS
    ParentWaitsForChildren
    OneStepPerContinuation
SYMMETRY Koe
CHECK_DEADLOCK FALSE

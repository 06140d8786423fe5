SPECIFICATION SafetySpec
CONSTANTS
    Agents = {A, B}
    MaxJobs = 3
    MaxPerTarget = 3
    MaxDiskFailures = 0
    MaxRestarts = 0
    MaxSends = 2
    MaxHumanSends = 1
    Drains = FALSE
    DeliveryFails = TRUE
    LateAdmission = TRUE
    CanDecline = TRUE
INVARIANTS
    OneStepPerContinuation
CHECK_DEADLOCK FALSE

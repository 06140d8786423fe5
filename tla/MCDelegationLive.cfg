SPECIFICATION Spec
CONSTANTS
    Agents = {A, B}
    MaxJobs = 2
    MaxPerTarget = 2
    MaxDiskFailures = 0
    MaxRestarts = 0
    MaxSends = 2
    MaxHumanSends = 2
    Drains = FALSE
    DeliveryFails = FALSE
    LateAdmission = FALSE
    CanDecline = TRUE
PROPERTIES
    ImplementsPromise
CHECK_DEADLOCK FALSE

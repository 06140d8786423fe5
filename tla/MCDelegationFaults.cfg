SPECIFICATION SafetySpec
CONSTANTS
    Agents = {A, B}
    MaxJobs = 2
    MaxPerTarget = 2
    MaxDiskFailures = 1
    MaxRestarts = 1
    MaxSends = 2
    MaxHumanSends = 1
    Drains = FALSE
    DeliveryFails = TRUE
    LateAdmission = TRUE
    CanDecline = TRUE
INVARIANTS
    AtMostOnce
    AcceptedIsDurable
    NeverMistakenForHandled
    ChildResultToldOnce
SYMMETRY Koe
CHECK_DEADLOCK FALSE

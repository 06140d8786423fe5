SPECIFICATION ProcessesSpec
CONSTANTS
    A = A
    B = B
    Agents = {A, B}
    T1 = T1
    T2 = T2
    T3 = T3
    T4 = T4
    Turns = {T1, T2, T3, T4}
    Drainers = {D1}
    NoTurn = NoTurn
    Procs = {P1, P2, P3}
    NoProc = NoProc
    MaxKills = 2
    KilledInRecovery = FALSE
    Tasks = {t1, t2}
    MaxWorkers = 2
    MaxCrashes = 1
    MaxClicks = 1
    MaxTurns = 1
    RestartKeys = {k1, k2}
    maxReceipts = 1
    MaxLives = 3
    MaxAsks = 2
    O1 = O1
    O2 = O2
    Operations = {O1, O2}
    MaxBrokerFailures = 1
    MaxCoordinators = 2
    F1 = F1
    Cards = {card}
    Receipts = {receipt}
    CoreChanges = {core}
    Puts = {u1, u2}
    Policies = {F1, F2}
    MaxLost = 1
INVARIANTS
    LeaseIsExclusive
    NoMissedDrain
    HolderIsOnFile
    RefusedIsNotOnFile
PROPERTIES
    HandOffInOrder
    DeadLockIsRecovered
    DrainedBeforeStop
    StopSettles
    ReplayIsNotAskedAgain
    IntentsAreSettled
CHECK_DEADLOCK FALSE

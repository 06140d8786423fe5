SPECIFICATION KoeTurnsSpec
CONSTANTS
    A1 = A1
    A2 = A2
    AppRequests = {A1, A2}
    Initialize = init
    MaxTombstones = 1
    MaxSends = 2
    Calls = {c1}
    MaxTries = 2
    MaxQueries = 2
    Asks = {q1, q2}
    Roots = {r1, r2}
    Slots = {v1, v2}
    MaxSessions = 3
    MaxRequests = 3
    MaxStarts = 2
    R1 = R1
    Key = Key
    None = None
    Requests = {R1}
    Grant <- OneKey
    Restricted = {R1}
    MaxFailures = 2
    MaxRestarts = 1
    WaitIds = {w1, w2}
    MaxWatched = 2
    MaxSignals = 2
    MaxWorkers = 2
INVARIANTS
    NothingLeftRunning
    ForeignTurnUntouched
    ResultReachesUnlessReplaced
    ThreadTurnsAreIsolated
    StateLoadsUnlessFellBack
    HiddenWaitIsReported
    ClosedMeansGone
PROPERTIES
    EachChangeAnnouncedOnce
    EverySendEnds
    StoppedAskIsNotGranted
    EveryQueryEnds
    EveryCallReturns
    EveryRequestEnds
CHECK_DEADLOCK FALSE

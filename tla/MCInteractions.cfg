SPECIFICATION InteractionsSpec
CONSTANTS
    H1 = H1
    H2 = H2
    Handlers = {H1, H2}
    MaxQuestions = 2
    Asks = {q1, q2}
    Plans = {p1, p2}
    Clicks = {c1, c2}
    NoPlan = NoPlan
    MaxInputs = 3
    MaxLate = 1
    MaxChunks = 2
    MaxEvents = 2
    MaxFaults = 2
    MaxBeats = 2
    Messages = {m1, m2}
    MaxDeliveries = 3
    MaxProcesses = 2
    MaxSaveFaults = 1
    T1 = T1
    T2 = T2
    V = V
    Tabs = {T1, T2}
    Optional = {"adapter_session_id", "persona"}
    Required = {"conversation_scope", "automatic_choice_mode"}
    Values = {V, W}
    Trimmed = V
    Padded = W
    Absent = absent
    MaxEdits = 1
SYMMETRY Alike
INVARIANTS
    AnsweredOrContinued
    ApprovalIsPrivateFirst
    TurnIsTold
    MessageStartsOneTurn
    SavedSettingsLoad
PROPERTIES
    QuestionAnsweredOnce
    UntouchedSettingsKept
CHECK_DEADLOCK FALSE

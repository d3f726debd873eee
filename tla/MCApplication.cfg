SPECIFICATION AppSpec
CONSTANTS
    s1 = s1
    s2 = s2
    Session <- TwoSessions
    max_connections = 2
    Tls = TRUE
    MaxSignals = 3
INVARIANTS
    FailureNeedsFault
    SuccessMeansDrained
    SignalsReachTheServer
    AlwaysListening
    LoopRunsOut
PROPERTIES
    SignalEndsProcess

SPECIFICATION Spec
CONSTANTS
    s1 = s1
    s2 = s2
    s3 = s3
    Session <- ThreeSessions
    max_connections = 2
    Tls = TRUE
INVARIANTS
    TypeOK
    ConnectionAccounting
    ConnectionLimit
    AcceptorNeverStalls
    DrainIsBounded
    DrainCompletion
    OnlyFaultsAreFatal
PROPERTIES
    NothingNewAfterDrain
CHECK_DEADLOCK FALSE

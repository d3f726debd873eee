SPECIFICATION ExchangeSpec
CONSTANTS
    e1 = e1
    e2 = e2
    c1 = c1
    c2 = c2
    plain = plain
    secure = secure
    None = None
    Exchange <- OneExchange
    Conn <- TwoConns
    Backend <- TwoBackends
    TlsBackend <- Secure
    StreamModes <- AnyMode
    Replies <- OneFlaw
    upstream_keep_alive = TRUE
INVARIANTS
    NotifiedOnce
    DeadlineCovers
    NoLeftovers
PROPERTIES
    TimeoutIsOwn
    ExchangeEnds

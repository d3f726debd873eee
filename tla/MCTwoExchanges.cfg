SPECIFICATION ExchangeSafety
CONSTANTS
    e1 = e1
    e2 = e2
    c1 = c1
    c2 = c2
    plain = plain
    secure = secure
    None = None
    Exchange <- TwoExchanges
    Conn <- TwoConns
    Backend <- OneBackend
    TlsBackend <- Nothing
    StreamModes <- Buffered
    Replies <- Flawless
    upstream_keep_alive = TRUE
SYMMETRY Symmetric
INVARIANTS
    OwnsItsConnection
PROPERTIES
    LeaseSpec

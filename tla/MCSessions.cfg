CONSTANTS
    Session = {s1, s2}
    Exchange = {x1, x2}
    None = None
    Tls = FALSE
    max_bytes = 2
    max_proxies = 1
    max_body_bytes = 2
    max_requests_per_connection = 2
SPECIFICATION SessionSafety
SYMMETRY Symmetric
INVARIANTS PermitAccounting

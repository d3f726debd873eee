CONSTANTS
    Session = {s1}
    Exchange = {x1, x2}
    None = None
    Tls = TRUE
    max_bytes = 2
    max_proxies = 1
    max_body_bytes = 2
    max_requests_per_connection = 2
SPECIFICATION SessionSafety
INVARIANT RequestLimit

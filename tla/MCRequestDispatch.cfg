SPECIFICATION DispatchSpec
CONSTANTS
    Configs <- MCConfigs
    Traffic <- MCTraffic
    max_proxies = 2
    units_per_token = 3
    Word = 32
    Horizon = 16
INVARIANTS
    ProxiedAsConfigured
    NoRouteFallsThrough
PROPERTIES
    RateLimitExact
    FairRotation

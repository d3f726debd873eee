SPECIFICATION HealthSpec
CONSTANTS
    slot_count = 2
    interval <- Intervals
    https <- TlsSlots
    max_in_flight = 1
    unhealthy_threshold = 2
    healthy_threshold = 2
    MaxQueued = 1
INVARIANTS
    ProbeAccounting
    NoLostWakeup
PROPERTIES
    AvailabilityFollowsEvidence
    EveryTargetProbed

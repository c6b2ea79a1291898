SPECIFICATION FairSpec
CONSTANTS
    PollingInterval = 3000
    MaxPollMs = 300000
    MaxBackoffMs = 30000
    Latencies <- SomeLatencies
    MaxLatency = 4000
INVARIANTS
    TypeOK
    PollingEndsInTime
    NoDecisionMissed
    OutcomeIsTrue
PROPERTIES
    EverySigningSettles
CHECK_DEADLOCK FALSE

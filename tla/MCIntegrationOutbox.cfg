SPECIFICATION OutboxSpec
CONSTANTS
    NumEvents = 2
    MaxAttempts = 2
    MaxRecords = 2
    Lease = 1
    MaxBackoff = 1
    Backoff <- RetryDelays
    DeliveredTTL = 1
    DeadTTL = 1
    ReplayMax = 1
    ReplayTTL = 1
    Concurrency = 2
    MaxCrashes = 1
INVARIANTS
    ClaimHeld
    DeliveredWasReceived
PROPERTIES
    EventuallySettled

\* Late calls, clocks apart, lost replies and evictions.
SPECIFICATION LimiterSpec
CONSTANTS
    c1 = c1
    c2 = c2
    Calls = {c1, c2}
    Offset <- OneApart
    Spread = 1
    Burst = 3
    Cost = 2
    Slack = 2
    MaxDelay = 2
    NoKey = NoKey
    Faults = {"down", "replyLost", "evict"}
    Horizon = 10
    MaxCalls = 5
INVARIANTS LimiterTypeOK Conservation
PROPERTIES GiftsExplained ImplementsTokenBucket
CHECK_DEADLOCK FALSE

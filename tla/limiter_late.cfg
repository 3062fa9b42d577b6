\* Two calls that run in the other order than they read the clock.
SPECIFICATION LimiterSpec
CONSTANTS
    c1 = c1
    c2 = c2
    Calls = {c1, c2}
    Offset <- InStep
    Spread = 0
    Burst = 2
    Cost = 2
    Slack = 2
    MaxDelay = 1
    NoKey = NoKey
    Faults = {}
    Horizon = 4
    MaxCalls = 8
INVARIANT SustainedBound
CHECK_DEADLOCK FALSE

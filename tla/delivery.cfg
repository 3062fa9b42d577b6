\* Two pushes, builds in any order, one job run again, outages and a lost pod.
SPECIFICATION RolloutSpec
CONSTANTS
    Pushes = 2
    Needs <- TwoThenOne
    Nobody = Nobody
    Mishaps = {"build", "runner", "slow", "sql", "kill"}
    Secret <- ExampleSecret
    Dropped = {"REDIS_HOST"}
    Garbled = {"REDIS_DB"}
    Garbage = Garbage
    NoConfig = NoConfig
    MaxLosses = 1
    MaxRuns = 2
INVARIANTS RolloutTypeOK TableTellsSchema SchemaCoversPods
PROPERTIES ImplementsRelease EndpointsReturn PushesEnd

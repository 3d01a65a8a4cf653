SPECIFICATION FairSpec
CONSTANTS
    Scenarios <- MCScenarios
    MaxPriority = 2
    MaxVersion = 3
    Base = 2
INVARIANTS
    FallbackReached
PROPERTIES
    KeepsFallbacks
    ReachesOs

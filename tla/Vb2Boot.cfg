SPECIFICATION FairSpec
CONSTANT Scenarios <- MCScenarios
INVARIANTS
    RollForwardSafe
    OwnerMatchesMode
PROPERTIES
    StorageDiscipline
    NoRebootLoop

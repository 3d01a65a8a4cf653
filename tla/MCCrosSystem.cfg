SPECIFICATION Spec
CONSTANTS
  Procs <- MCProcs
  Scenarios <- MCScenarios
INVARIANTS
    AsIfInOnePiece
    SettingsHonest
PROPERTIES
    EveryoneExits

SPECIFICATION FairSpec
CONSTANTS
  Devices = {0, 1}
  Images = {e1, e2}
  Torn = Torn
  Boards = {{}, {"wp"}, {"wp", "ro_normal"}, {"slow", "oprom", "before"}, {"slow", "oprom", "dev"}}
  MaxFaults = 2
  MaxUpdates = 1
INVARIANTS
    SyncedAtExit
    FailuresContained
PROPERTIES
    FlashDiscipline
    Settles

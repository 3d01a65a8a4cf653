SPECIFICATION FairSpec
CONSTANTS
  Boards = {{"updater", "ro_normal"}, {"updater", "reports"}, {"updater", "no_rollback", "nofail"},
            {"settings", "virt"}, {"default", "oprom"}, {"oprom", "before"}, {"settings", "sleeps"}}
  Qualities = {"good", "hangs", "dev_key", "no_rec0", "bad_keyblock", "bad_data_key", "bad_preamble",
               "unreadable", "wrong_size", "bad_body", "ro_normal", "big_subkey", "ro_big_subkey"}
  Versions = {1, 4, 6}
  Width = 2
  MaxTryB = 2
  MaxFaults = 2
  MaxUpdates = 2
INVARIANTS
    OutcomeJustified
    BackupKept
PROPERTIES
    NeverLocksOut
    Settles

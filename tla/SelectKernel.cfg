SPECIFICATION Spec
CONSTANTS
  Boards = {{"virt", "bitmaps", "rec_virtual", "save_locale"}, {"virt", "allow_usb"}, {"virt", "dev", "usb", "default_usb", "custom_notes", "enter_tonorm"}, {"virt", "dev", "default_legacy", "force_legacy", "bitmaps", "save_locale"}, {"virt", "dev", "default_usb", "legacy"}, {"hw_dev", "use_legacy", "force_usb", "default_usb", "ignore_lid"}, {"virt", "dev", "fastboot", "cap"}, {"virt", "fastboot", "force_cap"}, {"virt", "force_dev", "custom_notes"}}
  Locales = 2
  NoteCount = 2
  NoteLength = 2
  MaxInputs = 4
  MaxFaults = 2
  MaxTryB = 2
INVARIANTS
    OsAllowed
    TrialSafe
    ScreensTrue
PROPERTIES
    DevModeNeedsUser
    Settles
CHECK_DEADLOCK FALSE

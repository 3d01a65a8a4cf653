SPECIFICATION FairSpec
CONSTANTS
    MaxVersion = 1
    MaxFaults = 2
INVARIANTS
    SafeAtBoot
PROPERTIES
    VersionsNeverDecrease
    BootsAgain

SPECIFICATION FairSpec
CONSTANTS
    MaxVersion = 0
    MaxFaults = 1
PROPERTY
    InitIsRetried

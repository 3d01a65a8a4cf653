SPECIFICATION Spec
INVARIANTS
    StructuresExact
    CryptographyExact
    PlatformExact
    CgptExact
    FutilityExact
CHECK_DEADLOCK FALSE

SPECIFICATION CgptSpec
CONSTANTS
    Tables = {t1, t2, t3}
    Bad = Bad
    Empty = t3
    Clipped = t2
INVARIANTS
    TableKept
PROPERTIES
    ReplacedAsAWhole
    OldOrNewTable

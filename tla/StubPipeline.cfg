SPECIFICATION FairSpec
CONSTANTS
    Absent = Absent
    Broken = Broken
    s1 = s1
    s2 = s2
    kernel = kernel
    Nid <- MCNid
    Symbol <- MCSymbol
    Removable <- MCRemovable
    Exports <- MCExports
    Archives <- MCArchives
    MaxStops = 3
INVARIANTS
    TypeOK
    LibIsResult
PROPERTY
    StubBuilt
CHECK_DEADLOCK FALSE

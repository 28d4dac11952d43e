SPECIFICATION FairSpec
CONSTANTS
    Absent = Absent
    Broken = Broken
    s1 = s1
    s2 = s2
    kernel = kernel
    Nid <- MCNid
    Symbol <- MCSymbol
    Removable <- MCRemovable
    Exports <- MCExports
    Archives <- MCArchives
    MaxStops = 0
PROPERTY
    StubBuiltWhateverAnswered
CHECK_DEADLOCK FALSE

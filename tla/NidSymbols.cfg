SPECIFICATION Spec
CONSTANTS
    s1 = s1
    s2 = s2
    MaxEntries = 3
    MaxMembers = 3
    Nid <- MCNid
    Symbol <- MCSymbol
    Section <- MCSection
    Input <- MCInput
INVARIANTS
    TypeOK
    FileIsNamed
    NothingInvented
    LostOnlyToClash
    FailureKeepsFile
    MissingLibraryStops
CHECK_DEADLOCK FALSE

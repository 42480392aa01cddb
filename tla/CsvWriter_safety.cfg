CONSTANTS
    Goroutines = {g1, g2}
    g1 = g1
    g2 = g2
    MaxRows = 3
    Width = 3
    BufSize = 4
    MaxCloses = 2
SPECIFICATION Spec
INVARIANTS
    TypeOK
    FileIsPrefix
PROPERTY ImplementsRowLog

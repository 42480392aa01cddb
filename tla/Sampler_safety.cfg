CONSTANTS
    Interval = 2
    Duration = 9
    Programs <- AllDrivers
    MaxBytes = 2
    MaxLate = 5
SPECIFICATION Spec
INVARIANTS
    TypeOK
    NoTickLost
    RowIsFresh
    EndsInTime
PROPERTY DropsOnlyWhenHidden

CONSTANTS
    Interval = 2
    Duration = 4
    Programs <- OnlyRtorrent
    MaxBytes = 2
    MaxLate = 0
SPECIFICATION Spec
PROPERTY TotalsNeverDrop

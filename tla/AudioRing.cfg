SPECIFICATION Spec
CONSTANTS
    BufLen = 9
    Frame = 2
    Counts <- MCCounts
    MaxBytes = 16
INVARIANTS
    TypeOK
    FillIsWhatIsLeft
    UnreadIntact
    CountsAreTrue
PROPERTIES
    ReadInOrder

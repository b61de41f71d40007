CONSTANTS
    N = 5
    Values = {0, 1, 5}
    ScanOutside = TRUE
    Empty = Empty
    NumThread = 4
    Rounds = 2
    IncLock = "whole"
    DecLock = "each"
    Num = 2
    Str = 3
    Lines = 2
    Texts <- MCTexts
    STR_LEN = 4
SPECIFICATION SmallFairSpec
INVARIANTS TypeOK OthersTypeOK OnePermit ResultExact ResultZero CountsAgree Delivered AnswersMatch
PROPERTIES SlotSpec HandoffTerminates AtomicSpec ProgramsEnd

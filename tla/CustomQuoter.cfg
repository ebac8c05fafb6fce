SPECIFICATION Spec
CONSTANTS
    Word = 16
    Half = 8
    HalfBytes = 3
    Letters = 7
    Reason = {2, 3}
    Largest = 7
    MaxAmount = 4
    Count = 2
    TokenInFirst = FALSE
INVARIANTS
    TypeOK
    ProfitIsReal
    SameStateSameAmount
CHECK_DEADLOCK FALSE

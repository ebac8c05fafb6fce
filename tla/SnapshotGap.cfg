SPECIFICATION Spec
CONSTANTS
    quoter = quoter
    pool = pool
    token = token
    slot0 = slot0
    other0 = other0
    tick = tick
    balance = balance
    Vacant = Vacant
    Zero = "0"
    Contract <- MCContract
    Slot <- MCSlot
    Live <- MCLive
    Value <- MCValue
    Chain <- MCLateChain
    Mock <- MCMock
    Reads <- MCGapReads
    LastBlock = 2
    MaxAmount = 9
    Word = 16
    Count = 4
INVARIANTS
    CoveredExact
    FailedUncovered
PROPERTY
    Termination
CHECK_DEADLOCK FALSE

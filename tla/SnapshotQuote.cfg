SPECIFICATION Spec
CONSTANTS
    quoter = quoter
    pool = pool
    token = token
    slot0 = slot0
    other0 = other0
    tick = tick
    balance = balance
    Vacant = Vacant
    Zero = "0"
    Contract <- MCContract
    Slot <- MCSlot
    Live <- MCLive
    Value <- MCValue
    Chain <- MCChain
    Mock <- MCMock
    Reads <- MCReads
    LastBlock = 2
    MaxAmount = 9
    Word = 16
    Count = 4
INVARIANTS
    TypeOK
    ExactAnswers
PROPERTIES
    NoLateFailure
    WarmDelivers
    ImplementsService
CHECK_DEADLOCK FALSE

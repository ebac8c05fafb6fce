SPECIFICATION Spec
CONSTANTS
    ME = ME
    quoter = quoter
    custom_quoter = custom_quoter
    pool_3000 = pool_3000
    pool_500 = pool_500
    token = token
    price_3000 = price_3000
    tick_3000 = tick_3000
    price_500 = price_500
    balance = balance
    Vacant = Vacant
    Zero = "0"
    Contract <- MCContract
    Slot <- MCSlot
    Live <- MCLive
    PoolSlot <- MCPoolSlot
    Value <- MCValue
    Chain <- MCChain
    Mock <- MCMock
    Reads <- MCReads
    BaseFee <- MCBaseFee
    LastBlock = 2
    MaxAmount = 7
    Word = 16
    Count = 3
    Providers = 2
    Method = {"call", "anvil", "revm", "revm_cached", "revm_quoter", "arbitrage", "validate"}
INVARIANTS
    TypeOK
    OneState
    WithinRun
    PinnedExact
    PanicNeedsMovedPrice
    RefusedNeedsTwoBlocks
    
PROPERTIES
    LoopIsOffline
    RunsWindDown
    RunsEnd
CHECK_DEADLOCK FALSE

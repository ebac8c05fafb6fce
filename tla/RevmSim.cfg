SPECIFICATION Spec
CONSTANTS
    pairA = pairA
    pairB = pairB
    usdc = usdc
    weth = weth
    user = user
    reserves = reserves
    balanceA = balanceA
    balanceB = balanceB
    info = info
    Foreign = Foreign
    Bad = Bad
    Absent = Absent
    Vacant = Vacant
    Zero = 0
    Val = {0, 1}
    Info = {info}
    DefaultInfo = info
    Block = {1, 2}
    ForkBlock = 1
    Number = 2
    MaxLogs = 2
    Pool <- MCPool
    Addr <- MCAddr
    Slot <- MCSlot
    Given <- MCGiven
    Addressed = {pairA}
    User = {user}
    Accessed <- MCAccessed
    Adjusted <- MCAdjusted
    Donated <- MCDonated
    Token0 <- MCToken0
    Token1 <- MCToken1
    BalanceSlot <- MCBalanceSlot
    InfoAt <- MCInfoAt
    StorageAt <- MCStorageAt
INVARIANTS
    TypeOK
    OriginalsOfTheirBlock
    NeverPanics
PROPERTIES
    StaysInStep
    SeedingBringsInStep
    SyncBringsInStep
VIEW SimView
CHECK_DEADLOCK FALSE

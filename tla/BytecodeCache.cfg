SPECIFICATION Spec
CONSTANTS
    ME = ME
    quoter = quoter
    pool = pool
    quoterCode = quoterCode
    poolCode = poolCode
    NoCode = NoCode
    Missing = Missing
    Process = {1, 2}
    ChainId = {"eth", "avax"}
    Addr = {ME, quoter, pool}
    Code = {quoterCode, poolCode}
    LastBlock = 1
    Used <- MCUsed
    CodeOf <- MCCodeOf
    DeployedAt <- MCDeployedAt
INVARIANTS
    TypeOK
    LoadedIsOfChain
    LoadedIsOnDisk
PROPERTIES
    LostByRaceOnly
    ImplementsCodeStore
CHECK_DEADLOCK FALSE

SPECIFICATION Spec
CONSTANTS
    pair = pair
    fresh = fresh
    reserves = reserves
    old = old
    edited = edited
    Addr = {pair, fresh}
    Slot = {reserves}
    Val = {0, 1}
    Zero = 0
    Info = {old, edited}
    DefaultInfo = old
    Absent = Absent
    Vacant = Vacant
    ChainInfo <- MCChainInfo
    ChainStorage <- MCChainStorage
    Creatable = {fresh}
    InfoTargets = {pair}
    ReplaceTargets = {pair}
INVARIANTS
    TypeOK
    ReadPathsAgree
PROPERTY
    Implements
VIEW StateView
CHECK_DEADLOCK FALSE

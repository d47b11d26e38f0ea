CONSTANTS
    Tips <- DeepTips
    tx1 = tx1
    tx2 = tx2
    None = None
    Tx = {tx1, tx2}
    Block <- MCBlock
    Genesis <- MCGenesis
    Prev <- MCPrev
    Num <- MCNum
    Lib <- LastIrreversible
    Witness = {1, 2}
    Signer <- MCSigner
    Txs <- MCTxs
    Needs <- MCNeeds
    MaxUndoHistory = 10
    MaxPending = 2
    Faults <- SomeFaults
SPECIFICATION Spec
INVARIANTS  LogFollowsChain HistoryReachesLib SwitchNeverAborts RestoreApplies
PROPERTIES HeadNeverLowered NothingLost

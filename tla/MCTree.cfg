CONSTANTS
    Tips <- TrunkTips
    tx1 = tx1
    tx2 = tx2
    None = None
    Tx = {tx1, tx2}
    Block <- MCBlock
    Genesis <- MCGenesis
    Prev <- MCPrev
    Num <- MCNum
    Lib <- LastIrreversible
    Witness = {1, 2}
    Signer <- MCSigner
    Txs <- MCTxs
    Needs <- MCNeeds
    MaxUndoHistory = 10
    MaxPending = 2
    Faults <- AnyFault
SPECIFICATION Spec
PROPERTY TreeMaintained

CONSTANTS
    Tips <- RestartTips
    None = None
    Tx = {}
    Block <- MCBlock
    Genesis <- MCGenesis
    Prev <- MCPrev
    Num <- MCNum
    Lib <- LastIrreversible
    Witness = {1, 2}
    Signer <- MCSigner
    Txs <- NoTxs
    Needs <- NoNeeds
    MaxUndoHistory = 10
    MaxPending = 0
    Faults <- OneFault
    ReplayUndo = 3
    FlushEvery = 4
    MaxStops = 2
SPECIFICATION RSpec
INVARIANTS RewindsToLib SnapshotOnLog FailsOnlyIf HistoryKept
PROPERTY HeadComesBack
CHECK_DEADLOCK FALSE

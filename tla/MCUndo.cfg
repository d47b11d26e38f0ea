CONSTANTS
    x = x
    v = v
    w = w
    None = None
    Index = {x}
    Value = {v, w}
    MaxInstance = 1
    MaxSizes = {1, 2}
    MaxStack = 2
SPECIFICATION HSpec
INVARIANTS UndoApplies IdsFresh OrderedInv
PROPERTY UndoRestores

SPECIFICATION Spec
CONSTANTS
    TreeCap = 2
    PageSize = 2
    IdxBlkElmts = 1
    DataBlkMinElmts = 1
    SupBlkMinDataPtrs = 2
    PageElmts = 2
    MaxLog2 = 5
    Modulus = 3
    Seeds = {1}
    Creations <- ChunkedStrings
    Foreign <- NoForeign
    Selections <- NoSelections
    Shapes <- NoShapes
    ElemSize = 1
    HeapIndexMod = 100
    MaxEdits = 2
    MaxSaves = 2
PROPERTIES
    ReopenKeeps
CHECK_DEADLOCK FALSE

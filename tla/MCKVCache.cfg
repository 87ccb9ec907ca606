CONSTANTS
    r1 = r1
    r2 = r2
    Requests = {r1, r2}
    Layers = {0}
    PageSize = 2
    MaxPages = 2
    MaxTokens = 3
    MaxSerial = 3
SPECIFICATION Spec
SYMMETRY Symmetry
INVARIANTS TypeOK IndexesAgree AccountingOK
PROPERTIES EvictionInOrder OverflowNeedsSelfEviction CommitCovers RefinesLedger

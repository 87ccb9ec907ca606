CONSTANTS
    r1 = r1
    r2 = r2
    r3 = r3
    Requests = {r1, r2, r3}
    Layers = {0}
    PageSize = 2
    MaxPages = 4
    PromptLength <- Prompt3
    TargetLength <- Target3
    EosPositions <- Eos3
    MaxNewTokens <- MaxNew3
    Priority <- Priority3
    Configs <- UnpinnedSparse
SPECIFICATION Spec
CHECK_DEADLOCK FALSE
INVARIANTS SnapshotCoversSequence

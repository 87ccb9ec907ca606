CONSTANTS
    r1 = r1
    r2 = r2
    r3 = r3
    Requests = {r1, r2, r3}
    Layers = {0}
    PageSize = 2
    MaxPages = 4
    PromptLength <- Prompt3
    TargetLength <- TargetZero
    EosPositions <- Eos3
    MaxNewTokens <- MaxNewZero
    Priority <- Priority3
    Configs <- SafeSparse
SPECIFICATION Spec
CHECK_DEADLOCK FALSE
INVARIANTS TypeOK ReadyStaysResident CapacityRespected
PROPERTIES RefinesTokenStream

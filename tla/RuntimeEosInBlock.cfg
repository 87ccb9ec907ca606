CONSTANTS
    r1 = r1
    r2 = r2
    r3 = r3
    Requests = {r1}
    Layers = {0}
    PageSize = 2
    MaxPages = 9
    PromptLength <- Prompt1
    TargetLength <- Target1
    EosPositions <- Eos1
    MaxNewTokens <- MaxNew1
    Priority <- Priority1
    Configs <- Blocks
SPECIFICATION Spec
CHECK_DEADLOCK FALSE
INVARIANTS EosEndsRequest

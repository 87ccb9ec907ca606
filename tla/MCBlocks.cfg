CONSTANTS
    Rows <- MCRows
    VocabSize = 32000
    Seed = 17
SPECIFICATION Spec
INVARIANTS
    TypeOK
    TokensInStep
    WindowFollowsCommitted
    TotalsRecount
CHECK_DEADLOCK FALSE

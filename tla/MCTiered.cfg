CONSTANTS
    k1 = k1
    k2 = k2
    Keys = {k1, k2}
    Size <- OneEach
    PlaceholderSize = 2
    Budgets <- SmallBudgets
    MaxVersion = 2
    MaxHints = 1
SPECIFICATION Spec
INVARIANTS TypeOK TensorsAccounted ServedIsFresh
PROPERTIES ReadsEnd ConsumerAnswers

CONSTANTS
    p1 = p1
    p2 = p2
    TaskLists <- ThreeTasks
    Concurrency = 2
    Responses <- TwoResponses
    Hello = 1
    Four = 4
    Pipelines = {p1, p2}
    PipelineTask <- Typed
SPECIFICATION Spec
CHECK_DEADLOCK FALSE
INVARIANTS TypeOK WritersApart RowsMatchTasks ReportCountsAllTasks
PROPERTIES RunEnds

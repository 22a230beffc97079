\* A request with an engine gets no embedding function.
SPECIFICATION PoolSpec
CONSTANTS
    Task <- MCTask
    NoTask = NoTask
    Requests <- MCRequests
    Envs <- MCEnvs
INVARIANT EngineBringsEmbedding
CHECK_DEADLOCK FALSE

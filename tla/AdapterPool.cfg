\* Three requests that need shared adapters.
SPECIFICATION PoolSpec
CONSTANTS
    Task <- MCTask
    NoTask = NoTask
    Requests <- MCRequests
    Envs <- MCEnvs
INVARIANTS
    LockIsHeldInside
    EnginesAreReady
    InstancesAreShared
    NeededIsGiven
PROPERTY
    RequestsAreServed
\* Requests end.
CHECK_DEADLOCK FALSE

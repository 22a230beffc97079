\* Two runs of embedding.index with one cache key.
SPECIFICATION FairSpec
CONSTANTS
    Run = {r1, r2}
    Record <- MCRecord
    IdOf <- MCIdOf
    Configs <- MCConfigs
    MaxBadAppends = 1
    MaxClears = 1
INVARIANTS
    VectorsFit
    ResumeRepeatsNothing
PROPERTIES
    RunsEnd
CHECK_DEADLOCK FALSE

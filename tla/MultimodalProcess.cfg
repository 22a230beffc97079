\* Two runs of multimodal.process over changing documents.
SPECIFICATION FairSpec
CONSTANTS
    Run = {r1, r2}
    Item <- MCItem
    Fingerprint <- MCFingerprint
    Visual <- MCVisual
    Configs <- MCConfigs
    Legacies <- MCLegacies
    MaxBadAppends = 1
    MaxClears = 1
INVARIANTS
    DescriptionsFit
    ResumeRepeatsNothing
    DescribedIsKept
PROPERTIES
    RunsEnd
CHECK_DEADLOCK FALSE

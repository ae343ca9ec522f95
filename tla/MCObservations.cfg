\* Two workers of any kind, GitHub and an investigation.
CONSTANTS
    Workers = {w1, w2}
    Contents = {a}
    MaxSource = 2
    MaxSequence = 4
SYMMETRY WorkerSymmetry
SPECIFICATION Spec
INVARIANTS
    TypeOK
    ProjectionIsNewest
    DetailsReachProjection
    BaselineIsExact
PROPERTIES
    EveryFetchIsRecorded
    KnownMergeIsKept

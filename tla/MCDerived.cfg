\* Two concurrent refreshes of one facet, of each kind in turn; two processes that
\* run feedback workflows.
CONSTANTS
    Workers = {p1, p2}
    MaxPages = 2
    MaxVersion = 2
    MaxSequence = 6
    Pulls = {1, 2}
    Indexers = {p1, p2}
    PageSize = 1
    MaxUpdates = 1
    MaxJobs = 2
    MaxFailures = 1
SYMMETRY DerivedSymmetry
SPECIFICATION DerivedSpec
INVARIANTS
    DerivedTypeOK
    RowsAreOneSet
    CheckpointSkipsNothing
PROPERTIES
    RowsNeverGoBack
    AnswersAreCurrent
CHECK_DEADLOCK FALSE

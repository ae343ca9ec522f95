\* Two processes share one job, and two database calls may fail; or they refresh
\* the clusters of threads that have either of two titles; or two
\* processes, of one release or of two, use the corpus file.
CONSTANTS
    Executors = {e1, e2}
    JobIds = {j1}
    NoOwner = NoOwner
    MaxConcurrentJobs = 1
    MaxAdmittedJobs = 1
    ServiceClose = TRUE
    FaultKinds = {"reconcile", "create", "create_read", "start", "start_late",
                  "read", "write", "write_late", "delete"}
    MaxFaults = 2
    titleA = titleA
    titleB = titleB
    Refs = {1, 2, 3}
    Titles <- ClusterTitles
    Refreshers = {e1, e2}
    MaxChanges = 3
    Processes = {e1, e2, old}
    OldBinaries = {old}
    Backups = {b1, b2}
    NoPath = NoPath
    MaxWrites = 1
    MaxFiles = 2
    MaxBreakdowns = 1
SYMMETRY WorkSymmetry
SPECIFICATION WorkSpec
INVARIANTS
    WorkTypeOK
    RowsParse
    BodyOwnsRow
    UnchangedIsUnchanged
    DecisionsApply
    UngovernedClustersAreDisjoint
    HandlesAreCurrent
    BackupsAreWhole
    WritesSurvive
PROPERTIES
    TerminalIsFinal
    LiveWorkIsNotFailed
    ImplementsLifecycle
    ImplementsStore
    RefreshIsAtomic
CHECK_DEADLOCK FALSE

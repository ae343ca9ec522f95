\* One discovery of two pull requests nobody touches; one request fails.
CONSTANTS
    Pulls = {1, 2}
    Indexers = {w1}
    PageSize = 1
    MaxUpdates = 0
    MaxJobs = 1
    MaxFailures = 1
SPECIFICATION IndexSpec
INVARIANTS CompleteIsComplete
CHECK_DEADLOCK FALSE

\* JobExecutor.Close called directly, as its test does.
SPECIFICATION Spec
CONSTANTS
    Executors = {e1}
    JobIds = {j1, j2}
    NoOwner = NoOwner
    MaxConcurrentJobs = 1
    MaxAdmittedJobs = 2
    ServiceClose = FALSE
    FaultKinds = {}
    MaxFaults = 0
CHECK_DEADLOCK FALSE
INVARIANTS NoAbandonedRow

\* Two processes and one job: what eventually happens, also when a reconciliation
\* or the read after a creation fails.
SPECIFICATION FairSpec
CONSTANTS
    Executors = {e1, e2}
    JobIds = {j1}
    NoOwner = NoOwner
    MaxConcurrentJobs = 1
    MaxAdmittedJobs = 1
    ServiceClose = TRUE
    FaultKinds = {"reconcile", "create_read"}
    MaxFaults = 1
CHECK_DEADLOCK FALSE
PROPERTIES StoppedBodyReturns CancellationSettles CloseReturns

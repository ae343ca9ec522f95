\* One executor at its limits (three jobs, two admissions, one slot), and one
\* failed database call; three callers of the transport; two clients, and two
\* processes that register them; two users of one set of records.
CONSTANTS
    Executors = {e1}
    JobIds = {a1, a2, a3}
    NoOwner = NoOwner
    MaxConcurrentJobs = 1
    MaxAdmittedJobs = 2
    ServiceClose = TRUE
    FaultKinds = {"reconcile", "create", "start", "delete"}
    MaxFaults = 1
    Requests = {a1, a2, a3}
    MaxAttempts = 2
    FailureLimit = 2
    HalfOpenWait = 2
    ProbeTimeout = 1
    Clients = {1, 2}
    Versions = {1, 2}
    Operators = {p1, p2}
    MaxBegins = 2
    MaxEdits = 1
    MaxMishaps = 1
    Users = {u1, u2}
    Concerns = {c1, c2}
    Threads = {t1}
    MaxCommands = 2
SYMMETRY ProcessSymmetry
SPECIFICATION ProcessSpec
INVARIANTS
    LimitsHold
    NoAbandonedRow
    ProcessTypeOK
    BlackoutIsBounded
    RegisteredRuntimesExist
    ActivationIsAllOrNothing
    PromotionsAreWhole
    PromotedOnce
PROPERTIES
    ProbesAreSpaced
    ActivationsReplaceWhatTheySaw
    ImplementsRecords
    AdvancesAreUncontradicted
CHECK_DEADLOCK FALSE

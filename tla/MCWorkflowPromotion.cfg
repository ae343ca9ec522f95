\* One user promotes two accepted concerns, one after the other.
CONSTANTS
    Users = {u1}
    Concerns = {c1, c2}
    Threads = {}
    MaxCommands = 2
SPECIFICATION WorkflowSpec
INVARIANTS PromotableConcernsArePromoted
CHECK_DEADLOCK FALSE

\* An unchanged thread, synchronized twice.
CONSTANTS
    Workers = {w1}
    Contents = {a}
    MaxSource = 1
    MaxSequence = 3
SPECIFICATION Spec
INVARIANTS
    RevisionIsAvailable

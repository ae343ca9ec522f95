\* Two health syncs of one pull request: the signals of one may cite the
\* observation of the other.
CONSTANTS
    Workers = {w1, w2}
    MaxPages = 1
    MaxVersion = 2
    MaxSequence = 6
SYMMETRY WorkerSymmetry
SPECIFICATION Spec
INVARIANTS
    SignalsMatchTheirSource

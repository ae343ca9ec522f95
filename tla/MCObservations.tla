--------------------------- MODULE MCObservations ---------------------------
EXTENDS Observations, TLC

\* Workers are interchangeable: no property tells them apart.
WorkerSymmetry == Permutations(Workers)
=============================================================================

------------------------------ MODULE MCFacets ------------------------------
EXTENDS Facets, TLC

\* Workers are interchangeable: no property tells them apart.
WorkerSymmetry == Permutations(Workers)
=============================================================================

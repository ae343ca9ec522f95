----------------------------- MODULE FacetStore -----------------------------
(***************************************************************************)
(* The ordering rules of the corpus store (internal/corpus/facets.go,      *)
(* hydration.go and observations.go), as operators.  A projection row, a   *)
(* coverage row and a signal projection all carry a pair <<src, seq>>:     *)
(* source_updated_at, GitHub's clock (0 when it is unavailable), and       *)
(* observation_sequence, drawn from one counter of the corpus.             *)
(*                                                                         *)
(* A row that does not exist has src = -1: every source time is then       *)
(* greater, as the code's sql.ErrNoRows branches have it.                  *)
(***************************************************************************)
EXTENDS Integers

CoverageRow == [src : Int, seq : Nat, complete : BOOLEAN]

NoCoverage == [src |-> -1, seq |-> 0, complete |-> FALSE]

\* (source_updated_at, observation_sequence) is greater than the row's.
Newer(src, seq, row) ==
    \/ src > row.src
    \/ src = row.src /\ seq > row.seq

\* What advanceFacetTx leaves in facet_coverage.
AdvanceCoverageStaysComplete(coverage, src, seq, complete) ==
    IF Newer(src, seq, coverage)
    THEN [src |-> src, seq |-> seq, complete |-> complete \/ coverage.complete]
    ELSE coverage

AdvanceCoverage(coverage, src, seq, complete) ==
    IF Newer(src, seq, coverage)
    THEN [src |-> src, seq |-> seq, complete |-> complete]
    ELSE coverage

\* Whether applyFacetObservationSet replaces the stored set.
Replaces(coverage, src, complete) ==
    /\ src # 0
    /\ \/ src > coverage.src
       \/ src = coverage.src /\ complete

\* The compare of the two compare-and-swap entry points.
SequenceIgnored(coverage, expected) == coverage.seq >= expected

SequenceIsCurrent(coverage, expected) == coverage.seq = expected
=============================================================================

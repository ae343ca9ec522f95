----------------------------- MODULE MCDerived -----------------------------
(***************************************************************************)
(* What the corpus derives from its fetches: the facet of a thread and the *)
(* pull-request feedback index.  They share no variable, and neither reads *)
(* what the other writes, so that interleaving them would only multiply    *)
(* the states: a behaviour is one of Facets or one of FeedbackIndex,       *)
(* chosen in its initial state, with the other component at rest.          *)
(***************************************************************************)
EXTENDS Facets, FeedbackIndex, TLC

VARIABLE subject

FacetAtRest == Init /\ kind = "health"
IndexAtRest == IndexInit /\ listing = <<>>

DerivedInit ==
    \/ subject = "facet" /\ Init /\ IndexAtRest
    \/ subject = "feedback" /\ IndexInit /\ FacetAtRest

DerivedNext ==
    /\ UNCHANGED subject
    /\ \/ subject = "facet" /\ Next /\ UNCHANGED indexVars
       \/ subject = "feedback" /\ IndexNext /\ UNCHANGED vars

derivedVars == <<vars, indexVars, subject>>
DerivedSpec == DerivedInit /\ [][DerivedNext]_derivedVars

(***************************************************************************)
(* The rows, coverage and refreshes of a facet, and the stored comments,   *)
(* checkpoints and runs of the index are well formed.                      *)
(***************************************************************************)
DerivedTypeOK == TypeOK /\ IndexTypeOK

\* Workers and Indexers are the same processes.
DerivedSymmetry == Permutations(Workers)
=============================================================================

------------------------------- MODULE Facets -------------------------------
(***************************************************************************)
(* One hydration facet of one thread: its child rows                       *)
(* (facet_observations), its coverage (facet_coverage) and, for a facet    *)
(* that has one, the portfolio signal projection derived from it.  Facets  *)
(* are stored under separate keys and never interact.                      *)
(*                                                                         *)
(* Any number of workers refresh the facet, each in several steps while    *)
(* GitHub and the other workers go on.  The facet's name decides how:      *)
(*   "paginated"  hydratePaginatedFacet (internal/app/hydration.go)        *)
(*   "health"     syncOnePullRequestStatus (internal/app/mcp_pr_health.go) *)
(*   "workflow"   syncCIFailures and syncPullRequestFeedback               *)
(*                (internal/app/mcp_pr_workflows.go)                       *)
(*                                                                         *)
(* The content of a page is the number of times GitHub's data had changed  *)
(* when the page was read.                                                 *)
(***************************************************************************)
EXTENDS FacetStore, Sequences

CONSTANTS
    Workers,        \* concurrent refreshes of the facet
    MaxPages,       \* max_pages of a refresh
    MaxVersion,     \* bound on the changes made at GitHub
    MaxSequence     \* bound on the corpus-wide observation sequence

ASSUME BoundsAssumption ==
    /\ MaxPages \in Nat \ {0}
    /\ MaxVersion \in Nat \ {0}
    /\ MaxSequence \in Nat

VARIABLES
    kind,       \* how the facet is refreshed; it never changes
    github,     \* GitHub: its clock for the thread, and the changes so far
    sequence,   \* observation_sequences.next_value
    coverage,   \* the row of facet_coverage
    rows,       \* the rows of facet_observations, by observation_sequence
    signals,    \* the row of portfolio_signal_projections
    work        \* the local variables of each worker

vars == <<kind, github, sequence, coverage, rows, signals, work>>
storeVars == <<sequence, coverage, rows, signals>>
-----------------------------------------------------------------------------
Version == 1..MaxVersion

NoSignals == [src |-> -1, seq |-> 0, version |-> 0, source |-> 0, sourceVersion |-> 0]

\* source is the observation the signals cite, sourceVersion what it holds.
SignalsRow ==
    [src : Int, seq : Nat, version : 0..MaxVersion,
     source : Nat, sourceVersion : 0..MaxVersion]

Row == [seq : Nat, version : Version]

Idle == [pc |-> "idle", baseline |-> 0, src |-> 0, pages |-> <<>>,
         complete |-> FALSE, source |-> 0]

Work == [pc : {"idle", "fetching", "untimed", "fetched", "applied", "sourced"},
         baseline : Nat, src : Nat, pages : Seq(Version),
         complete : BOOLEAN, source : Nat]

Kinds == {"paginated", "health", "workflow"}

TypeOK ==
    /\ kind \in Kinds
    /\ github \in [src : Nat, version : Version]
    /\ sequence \in 0..MaxSequence
    /\ coverage \in CoverageRow
    /\ rows \in Seq(Row)
    /\ signals \in SignalsRow
    /\ work \in [Workers -> Work]
    /\ \A w \in Workers : Len(work[w].pages) <= MaxPages

Init ==
    /\ kind \in Kinds
    /\ github = [src |-> 1, version |-> 1]
    /\ sequence = 0
    /\ coverage = NoCoverage
    /\ rows = <<>>
    /\ signals = NoSignals
    /\ work = [w \in Workers |-> Idle]
-----------------------------------------------------------------------------
(***************************************************************************)
(* GitHub.  Its clock has a resolution of a second and does not move for   *)
(* every child (a check run, mergeability), so a change may leave it as    *)
(* it is.                                                                  *)
(***************************************************************************)
GitHubChanges ==
    /\ github.version < MaxVersion
    /\ \E tick \in {0, 1} :
          github' = [src |-> github.src + tick, version |-> github.version + 1]
    /\ UNCHANGED <<kind, storeVars, work>>

\* A source time an item of the thread, or the stored thread, may carry.
KnownSourceTimes == 0..github.src

Later(s, t) == IF s > t THEN s ELSE t
-----------------------------------------------------------------------------
(***************************************************************************)
(* Retrieval.  facetBaseline and pullRequestHealthBaselines read the       *)
(* coverage sequence before the first request; the workflow syncs have no  *)
(* baseline.                                                               *)
(***************************************************************************)
Begin(w) ==
    /\ work[w].pc = "idle"
    /\ kind \in {"paginated", "health"}
    /\ \E threadSrc \in (IF kind = "paginated" THEN KnownSourceTimes ELSE {0}) :
          work' = [work EXCEPT ![w] = [Idle EXCEPT !.pc = "fetching",
                                                   !.baseline = coverage.seq,
                                                   !.src = threadSrc]]
    /\ UNCHANGED <<kind, github, storeVars>>

\* The loop of hydratePaginatedFacet goes on after this page.
ReadsOnOffByOne(w, hasNext) == hasNext /\ Len(work[w].pages) + 1 <= MaxPages

ReadsOn(w, hasNext) == hasNext /\ Len(work[w].pages) + 1 < MaxPages

\* One request of the loop: GitHub may change between two pages.
FetchPage(w) ==
    /\ kind = "paginated"
    /\ work[w].pc = "fetching"
    /\ \E latest \in KnownSourceTimes, hasNext \in BOOLEAN :
          work' = [work EXCEPT
                    ![w].pages = Append(@, github.version),
                    ![w].src = Later(@, latest),
                    ![w].complete = ~hasNext,
                    ![w].pc = IF ReadsOn(w, hasNext) THEN "fetching" ELSE "fetched"]
    /\ UNCHANGED <<kind, github, storeVars>>

\* A snapshot without updated_at takes the stored thread's time later on.
Timed(src) == IF src = 0 THEN "untimed" ELSE "fetched"

\* GetPullRequestStatus: one snapshot, complete or cut at max_pages.
FetchStatus(w) ==
    /\ kind = "health"
    /\ work[w].pc = "fetching"
    /\ \E src \in {0, github.src}, complete \in BOOLEAN :
          work' = [work EXCEPT ![w].pages = <<github.version>>,
                               ![w].src = src,
                               ![w].complete = complete,
                               ![w].pc = Timed(src)]
    /\ UNCHANGED <<kind, github, storeVars>>

\* GetPullRequestCI and the feedback read, without a baseline.
FetchWorkflow(w) ==
    /\ kind = "workflow"
    /\ work[w].pc = "idle"
    /\ \E src \in {0, github.src}, complete \in BOOLEAN :
          work' = [work EXCEPT ![w] = [Idle EXCEPT !.pc = Timed(src),
                                                   !.src = src,
                                                   !.pages = <<github.version>>,
                                                   !.complete = complete]]
    /\ UNCHANGED <<kind, github, storeVars>>

\* GetThread, before the snapshot is stored: its source_updated_at stands in
\* for a missing one.
ReadThread(w) ==
    /\ work[w].pc = "untimed"
    /\ \E threadSrc \in KnownSourceTimes :
          work' = [work EXCEPT ![w].src = threadSrc, ![w].pc = "fetched"]
    /\ UNCHANGED <<kind, github, storeVars>>

\* A failed request, a cancelled context or the end of the process: what
\* was fetched is lost, what was committed stays.
Abandon(w) ==
    /\ work[w].pc # "idle"
    /\ work' = [work EXCEPT ![w] = Idle]
    /\ UNCHANGED <<kind, github, storeVars>>
-----------------------------------------------------------------------------
(***************************************************************************)
(* The write transactions.  Within one, each row and then the coverage     *)
(* takes the next sequence.                                                *)
(***************************************************************************)
ExpectedSequenceHolds(w) ==
    kind = "workflow" \/ SequenceIsCurrent(coverage, work[w].baseline)

NewRows(pages) ==
    [i \in 1..Len(pages) |-> [seq |-> sequence + i, version |-> pages[i]]]

\* A refresh that was not applied has nothing left to do; an applied health
\* facet goes on to its portfolio signals.
Finished(w, applied) ==
    IF applied /\ kind = "health"
    THEN [work[w] EXCEPT !.pc = "applied"]
    ELSE Idle

\* applyFacetObservationSet
ApplySet(w) ==
    LET pages == work[w].pages
        src == work[w].src
        last == sequence + Len(pages) + 1
        applied == ExpectedSequenceHolds(w) /\ Replaces(coverage, src, TRUE)
    IN  /\ work[w].pc = "fetched"
        /\ work[w].complete
        /\ applied => last <= MaxSequence
        /\ IF applied
           THEN /\ rows' = NewRows(pages)
                /\ coverage' = AdvanceCoverage(coverage, src, last, TRUE)
                /\ sequence' = last
           ELSE UNCHANGED <<rows, coverage, sequence>>
        /\ work' = [work EXCEPT ![w] = Finished(w, applied)]
        /\ UNCHANGED <<kind, github, signals>>

\* advanceFacet: an incomplete refresh moves the coverage and no row.
AdvanceFacet(w) ==
    /\ work[w].pc = "fetched"
    /\ ~work[w].complete
    /\ ExpectedSequenceHolds(w) => sequence < MaxSequence
    /\ IF ExpectedSequenceHolds(w)
       THEN /\ coverage' = AdvanceCoverage(coverage, work[w].src, sequence + 1, FALSE)
            /\ sequence' = sequence + 1
       ELSE UNCHANGED <<coverage, sequence>>
    /\ work' = [work EXCEPT ![w] = Idle]
    /\ UNCHANGED <<kind, github, rows, signals>>
-----------------------------------------------------------------------------
(***************************************************************************)
(* persistPortfolioSignals: the signals parsed from this worker's own      *)
(* snapshot cite the facet observation that is stored when it looks.       *)
(***************************************************************************)
ReadSource(w) ==
    /\ work[w].pc = "applied"
    /\ work' = [work EXCEPT ![w] = IF rows = <<>> THEN Idle
                                   ELSE [@ EXCEPT !.pc = "sourced",
                                                  !.source = rows[1].seq]]
    /\ UNCHANGED <<kind, github, storeVars>>

\* ReplacePortfolioSignals; validateObservationRefsTx refuses a source that
\* has been replaced since.
SaveSignals(w) ==
    LET cited == {i \in DOMAIN rows : rows[i].seq = work[w].source}
    IN  /\ work[w].pc = "sourced"
        /\ cited # {} => sequence < MaxSequence
        /\ IF cited = {}
           THEN UNCHANGED <<signals, sequence>>
           ELSE /\ sequence' = sequence + 1
                /\ signals' = IF Newer(work[w].src, sequence + 1, signals)
                              THEN [src |-> work[w].src,
                                    seq |-> sequence + 1,
                                    version |-> work[w].pages[1],
                                    source |-> work[w].source,
                                    sourceVersion |-> rows[CHOOSE i \in cited : TRUE].version]
                              ELSE signals
        /\ work' = [work EXCEPT ![w] = Idle]
        /\ UNCHANGED <<kind, github, coverage, rows>>
-----------------------------------------------------------------------------
WorkStep(w) ==
    \/ Begin(w)
    \/ FetchPage(w)
    \/ FetchStatus(w)
    \/ FetchWorkflow(w)
    \/ ReadThread(w)
    \/ Abandon(w)
    \/ ApplySet(w)
    \/ AdvanceFacet(w)
    \/ ReadSource(w)
    \/ SaveSignals(w)

Next == GitHubChanges \/ \E w \in Workers : WorkStep(w)

Spec == Init /\ [][Next]_vars
-----------------------------------------------------------------------------
(***************************************************************************)
(* The rows are always one whole fetched set: the rows one transaction     *)
(* numbered, in page order, older than the coverage.  Coverage says        *)
(* "complete" only of the very set stored beside it, never of a set an     *)
(* incomplete refresh left in place (hydration.go:44, facets.go:72).       *)
(***************************************************************************)
RowsAreOneSet ==
    /\ \A i \in DOMAIN rows : rows[i].seq = rows[1].seq + i - 1
    /\ \A i \in DOMAIN rows : rows[i].seq < coverage.seq
    /\ coverage.complete /\ rows # <<>> =>
          rows[Len(rows)].seq = coverage.seq - 1

(***************************************************************************)
(* Compare-and-swap: a refresh that read GitHub earlier never replaces     *)
(* rows read later, however the two are interleaved and even when GitHub's *)
(* clock did not move in between (hydration.go:38-42 and                   *)
(* TestApplyFacetObservationSetCASRejectsConcurrentEqualClockReplacement). *)
(***************************************************************************)
RowsNeverGoBack ==
    [][kind # "workflow" /\ rows' # rows =>
          \A i \in DOMAIN rows, j \in DOMAIN rows' :
              rows'[j].version >= rows[i].version]_vars

(***************************************************************************)
(* Portfolio snapshots carry "exact source observation references"         *)
(* (docs/architecture.md): the signals were derived from the very content  *)
(* of the observation they cite.                                           *)
(***************************************************************************)
SignalsMatchTheirSource == signals.version = signals.sourceVersion
=============================================================================

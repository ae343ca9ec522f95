---------------------------- MODULE Observations ----------------------------
(***************************************************************************)
(* One pull request in the corpus: its projection (a row of threads), its  *)
(* history (thread_observations), and the coverage of its pr_details facet *)
(* (internal/corpus/observations.go, facets.go, hydration.go).  Three      *)
(* procedures of the application write it, each reading GitHub first and   *)
(* the corpus later:                                                       *)
(*   header    syncThreadWriter.store (internal/app/sync_headers.go)       *)
(*   identity  persistPullRequestIdentity (internal/app/mcp_pr_workflows.go)*)
(*   details   hydratePullRequestDetails (internal/app/hydration.go), which *)
(*             commits the facet and then, separately, the projection      *)
(* An investigation copies the projection and then looks for the           *)
(* observation it came from (internal/app/investigation_thread.go).        *)
(*                                                                         *)
(* A payload is what one fetch returned: its form, the content of the pull *)
(* request (a change may be undone, so content can return to an old value) *)
(* and, in the details form, whether it is merged.                         *)
(***************************************************************************)
EXTENDS FacetStore

CONSTANTS
    Workers,        \* concurrent fetch-and-store procedures
    Contents,       \* what title, body, labels and state may be
    MaxSource,      \* bound on GitHub's clock
    MaxSequence     \* bound on the corpus-wide observation sequence

ASSUME BoundsAssumption ==
    /\ Contents # {}
    /\ MaxSource \in Nat \ {0}
    /\ MaxSequence \in Nat

VARIABLES
    github,         \* the pull request at GitHub
    sequence,       \* observation_sequences.next_value
    thread,         \* the row of threads
    observations,   \* the rows of thread_observations
    coverage,       \* the pr_details row of facet_coverage
    work,           \* the local variables of each worker
    investigation,  \* the local variables of an investigation
    stranded        \* history: whether the worker that stored the current
                    \* details in the facet was stopped before projecting them

vars == <<github, sequence, thread, observations, coverage, work,
          investigation, stranded>>
-----------------------------------------------------------------------------
Merges == {"unknown", "unmerged", "merged"}

HeaderOf(pr) == [form |-> "header", content |-> pr.content, merge |-> "unknown"]

\* parseGitHubMergeStatus always knows.
DetailsOf(pr) ==
    [form |-> "details", content |-> pr.content,
     merge |-> IF pr.merged THEN "merged" ELSE "unmerged"]

Payload == [form : {"header"}, content : Contents, merge : {"unknown"}]
           \cup [form : {"details"}, content : Contents, merge : {"unmerged", "merged"}]

SomeContent == CHOOSE c \in Contents : TRUE
NoPayload == [form |-> "header", content |-> SomeContent, merge |-> "unknown"]

NoThread == [src |-> -1, seq |-> 0, payload |-> NoPayload, merge |-> "unknown"]
ThreadExists == thread.src >= 0

Thread == [src : Int, seq : Nat, payload : Payload, merge : Merges]
Observation == [src : Nat, seq : Nat, payload : Payload]

Idle == [pc |-> "idle", baseline |-> 0, src |-> 0, payload |-> NoPayload,
         applied |-> FALSE]

Work == [pc : {"idle", "fetching", "fetched", "writing"}, baseline : Nat,
         src : Nat, payload : Payload, applied : BOOLEAN]

NotCopied == [pc |-> "idle", src |-> 0, seq |-> 0, payload |-> NoPayload]

\* "other": the observation found does not hold the payload of the copied
\* projection.
Investigation == [pc : {"idle", "copied", "other", "missing"},
                  src : Nat, seq : Nat, payload : Payload]

TypeOK ==
    /\ github \in [src : 1..MaxSource, content : Contents, merged : BOOLEAN]
    /\ sequence \in 0..MaxSequence
    /\ thread \in Thread
    /\ observations \subseteq Observation
    /\ coverage \in CoverageRow
    /\ work \in [Workers -> Work]
    /\ investigation \in Investigation
    /\ stranded \in BOOLEAN

Init ==
    /\ \E c \in Contents :
          github = [src |-> 1, content |-> c, merged |-> FALSE]
    /\ sequence = 0
    /\ thread = NoThread
    /\ observations = {}
    /\ coverage = NoCoverage
    /\ work = [w \in Workers |-> Idle]
    /\ investigation = NotCopied
    /\ stranded = FALSE
-----------------------------------------------------------------------------
(***************************************************************************)
(* GitHub: an edit or the merge, in the same second as the last one or in  *)
(* a later one.                                                            *)
(***************************************************************************)
GitHubChanges ==
    /\ \E src \in {github.src, github.src + 1} \cap 1..MaxSource :
       \E content \in Contents, merged \in BOOLEAN :
          /\ github.merged => merged
          /\ github' = [src |-> src, content |-> content, merged |-> merged]
    /\ UNCHANGED <<sequence, thread, observations, coverage, work,
                   investigation, stranded>>

\* The fetches change nothing but the worker.
Fetched(w, local) ==
    /\ work' = [work EXCEPT ![w] = local]
    /\ UNCHANGED <<github, sequence, thread, observations, coverage,
                   investigation, stranded>>

\* updated_at of a response, 0 when GitHub does not send it (encodeTime).
SourceTimesNotEncoded == {-6213559, github.src}

SourceTimes == {0, github.src}

FetchHeader(w) ==
    /\ work[w].pc = "idle"
    /\ \E src \in SourceTimes :
          Fetched(w, [Idle EXCEPT !.pc = "writing", !.src = src,
                                  !.payload = HeaderOf(github)])

FetchIdentity(w) ==
    /\ work[w].pc = "idle"
    /\ \E src \in SourceTimes :
          Fetched(w, [Idle EXCEPT !.pc = "writing", !.src = src,
                                  !.payload = DetailsOf(github)])

\* hydrateThread needs a stored thread; facetBaseline.
BeginDetails(w) ==
    /\ work[w].pc = "idle"
    /\ ThreadExists
    /\ Fetched(w, [Idle EXCEPT !.pc = "fetching", !.src = thread.src,
                               !.baseline = coverage.seq])

FetchDetails(w) ==
    /\ work[w].pc = "fetching"
    /\ \E src \in {work[w].src, github.src} :
          Fetched(w, [work[w] EXCEPT !.pc = "fetched", !.src = src,
                                     !.payload = DetailsOf(github)])
-----------------------------------------------------------------------------
(***************************************************************************)
(* ApplyFacetObservationSetCAS for pr_details: one page, then the          *)
(* coverage.  Only an applied set goes on to the projection.               *)
(***************************************************************************)
ApplyDetails(w) ==
    LET applied == /\ SequenceIsCurrent(coverage, work[w].baseline)
                   /\ Replaces(coverage, work[w].src, TRUE)
    IN  /\ work[w].pc = "fetched"
        /\ applied => sequence + 2 <= MaxSequence
        /\ IF applied
           THEN /\ coverage' = AdvanceCoverage(coverage, work[w].src, sequence + 2, TRUE)
                /\ sequence' = sequence + 2
                /\ work' = [work EXCEPT ![w].pc = "writing", ![w].applied = TRUE]
                /\ stranded' = FALSE
           ELSE /\ work' = [work EXCEPT ![w] = Idle]
                /\ UNCHANGED <<coverage, sequence, stranded>>
        /\ UNCHANGED <<github, thread, observations, investigation>>

\* The UPDATE of UpsertThread: the merge columns keep a known status when
\* the observation does not know.
ProjectedForgetsMerge(src, seq, payload) ==
    [src |-> src, seq |-> seq, payload |-> payload, merge |-> payload.merge]

ProjectedKeepsSource(src, seq, payload) ==
    [src |-> IF ThreadExists THEN thread.src ELSE src, seq |-> seq,
     payload |-> payload,
     merge |-> IF payload.merge = "unknown" THEN thread.merge ELSE payload.merge]

Projected(src, seq, payload) ==
    [src |-> src, seq |-> seq, payload |-> payload,
     merge |-> IF payload.merge = "unknown" THEN thread.merge ELSE payload.merge]

ProjectionWinsByArrival(src, seq) == src >= 0

ProjectionWins(src, seq) == Newer(src, seq, thread)

\* The INSERT ... WHERE NOT EXISTS of UpsertThread.
AlreadyObservedAnywhen(src, payload) == \E o \in observations : o.payload = payload

AlreadyObserved(src, payload) ==
    \E o \in observations : o.src = src /\ o.payload = payload

UpsertThread(w) ==
    LET src == work[w].src
        seq == sequence + 1
        payload == work[w].payload
    IN  /\ work[w].pc = "writing"
        /\ sequence < MaxSequence
        /\ sequence' = seq
        /\ thread' = IF ProjectionWins(src, seq)
                     THEN Projected(src, seq, payload) ELSE thread
        /\ observations' =
              IF AlreadyObserved(src, payload) THEN observations
              ELSE observations \cup {[src |-> src, seq |-> seq, payload |-> payload]}
        /\ work' = [work EXCEPT ![w] = Idle]
        /\ UNCHANGED <<github, coverage, investigation, stranded>>

\* A failed call, a cancelled context or the end of the process.
Abandon(w) ==
    /\ work[w].pc # "idle"
    /\ work' = [work EXCEPT ![w] = Idle]
    /\ stranded' = \/ stranded
                   \/ work[w].applied /\ work[w].src = coverage.src
    /\ UNCHANGED <<github, sequence, thread, observations, coverage, investigation>>
-----------------------------------------------------------------------------
(***************************************************************************)
(* StartInvestigationFromThread: GetThreadByNumber, and in another read    *)
(* GetThreadObservationRevision of the copied revision.                    *)
(***************************************************************************)
CopyProjection ==
    /\ investigation.pc # "copied"
    /\ ThreadExists
    /\ investigation' = [pc |-> "copied", src |-> thread.src, seq |-> thread.seq,
                         payload |-> thread.payload]
    /\ UNCHANGED <<github, sequence, thread, observations, coverage, work, stranded>>

CitedBySecond(o, copy) == o.src = copy.src

Cited(o, copy) == o.src = copy.src /\ o.seq = copy.seq

FindRevision ==
    /\ investigation.pc = "copied"
    /\ \/ \E o \in observations :
             /\ Cited(o, investigation)
             /\ investigation' =
                   [NotCopied EXCEPT !.pc = IF o.payload = investigation.payload
                                            THEN "idle" ELSE "other"]
       \/ /\ \A o \in observations : ~Cited(o, investigation)
          /\ investigation' = [NotCopied EXCEPT !.pc = "missing"]
    /\ UNCHANGED <<github, sequence, thread, observations, coverage, work, stranded>>
-----------------------------------------------------------------------------
Step(w) ==
    \/ FetchHeader(w)
    \/ FetchIdentity(w)
    \/ BeginDetails(w)
    \/ FetchDetails(w)
    \/ ApplyDetails(w)
    \/ UpsertThread(w)
    \/ Abandon(w)

Next ==
    \/ GitHubChanges
    \/ \E w \in Workers : Step(w)
    \/ CopyProjection
    \/ FindRevision

Spec == Init /\ [][Next]_vars
-----------------------------------------------------------------------------
(***************************************************************************)
(* However late or out of order fetches are stored, no observation is      *)
(* newer, by (source_updated_at, observation_sequence), than the           *)
(* projection, and what the projection shows was observed at its source    *)
(* time (CONTRIBUTING.md "Storage invariants" 2, docs/architecture.md).    *)
(***************************************************************************)
ProjectionIsNewest ==
    /\ \A o \in observations : ~ Newer(o.src, o.seq, thread)
    /\ ThreadExists => \E o \in observations :
                          o.src = thread.src /\ o.payload = thread.payload

(***************************************************************************)
(* History is append-only, and every stored fetch is in it even when it    *)
(* loses the projection (CONTRIBUTING.md "Storage invariants" 1).          *)
(***************************************************************************)
EveryFetchIsRecorded ==
    [][/\ observations \subseteq observations'
       /\ \A w \in Workers :
             work[w].pc = "writing" /\ sequence' # sequence /\ work'[w] # work[w] =>
                \E o \in observations' :
                   o.src = work[w].src /\ o.payload = work[w].payload]_vars

(***************************************************************************)
(* A merge status once known is replaced only by another known one, from   *)
(* the fetch that now owns the projection; a header, which knows nothing   *)
(* of merging, never erases it                                             *)
(* (TestUpsertThreadUnknownMergeStateDoesNotEraseKnownState).              *)
(***************************************************************************)
KnownMergeIsKept ==
    [][thread'.merge # thread.merge =>
          /\ thread'.merge # "unknown"
          /\ thread'.merge = thread'.payload.merge]_vars

(***************************************************************************)
(* The two transactions of hydratePullRequestDetails: when the details     *)
(* facet is ahead of the projection, a worker is about to project it, or   *)
(* was stopped between the two; no interleaving of workers leaves the      *)
(* projection behind by itself (hydration.go:446-489).                     *)
(***************************************************************************)
DetailsReachProjection ==
    coverage.src > thread.src =>
        \/ stranded
        \/ \E w \in Workers : work[w].applied /\ work[w].src = coverage.src

(***************************************************************************)
(* GetThreadObservationRevision binds the copied projection fields to the  *)
(* observation they came from, whatever was written in between             *)
(* (observations.go:515).                                                  *)
(***************************************************************************)
BaselineIsExact == investigation.pc # "other"

(***************************************************************************)
(* ... and it "returns the immutable observation matching a projection     *)
(* revision" (observations.go:515): the observation of a projection the    *)
(* caller has just read exists.                                            *)
(***************************************************************************)
RevisionIsAvailable == investigation.pc # "missing"
=============================================================================

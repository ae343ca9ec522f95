--------------------------- MODULE FeedbackIndex ---------------------------
(***************************************************************************)
(* Repository-wide indexing of pull-request feedback and its offline       *)
(* search: the discovery checkpoint and its resumption                     *)
(* (internal/app/mcp_pull_request_feedback_index.go,                       *)
(* internal/corpus/pull_request_feedback_coverage.go), exact               *)
(* synchronization (internal/app/mcp_pr_workflows.go), the normalized      *)
(* projection (internal/corpus/pull_request_feedback_projection.go,        *)
(* projections.go) and the search over it                                  *)
(* (internal/corpus/pull_request_feedback_search.go) between two readings  *)
(* of the corpus revision (internal/app/mcp_revision.go).                  *)
(*                                                                         *)
(* The feedback of a pull request is one channel, and its content is the   *)
(* number of its updates at GitHub, which lists the last updated first.    *)
(* A worker is one process: its gate admits one feedback workflow.         *)
(***************************************************************************)
EXTENDS FacetStore, FiniteSets, SequencesExt

CONSTANTS
    Pulls,          \* pull requests of the repository at GitHub
    Indexers,       \* processes that run feedback workflows
    PageSize,       \* pull requests on a page of GitHub's list
    MaxUpdates,     \* bound on the updates at GitHub
    MaxJobs,        \* bound on the feedback workflows begun
    MaxFailures     \* bound on failed requests, stopped runs and crashes

ASSUME IndexAssumption ==
    /\ Pulls \subseteq Nat /\ IsFiniteSet(Pulls)
    /\ PageSize \in Nat \ {0}
    /\ MaxUpdates \in Nat /\ MaxJobs \in Nat /\ MaxFailures \in Nat

VARIABLES
    listing,        \* GitHub: the pull requests, last updated first
    updates,        \* GitHub: the updates of each
    stored,         \* the pull requests that have a thread
    facet,          \* coverage of the feedback facet of each thread, and the
                    \* content of its observation (-1: none)
    discovery,      \* the row of pull_request_feedback_discovery
    projection,     \* the feedback rows and their projection_states row
    run,            \* the local variables of each indexer
    search,         \* a search in progress
    jobs,           \* workflows begun
    failures,       \* failures so far
    missed          \* history: pull requests whose header could not be read,
                    \* or that appeared at or moved to the front of the list

indexVars == <<listing, updates, stored, facet, discovery, projection,
               run, search, jobs, failures, missed>>
-----------------------------------------------------------------------------
NoFeedback == [src |-> -1, complete |-> FALSE, content |-> -1]
NoContents == [p \in Pulls |-> -1]

\* The stored observations: what the projection is built from.
Contents == [p \in Pulls |-> facet[p].content]

NoRun == [pc |-> "idle", workflow |-> "none", generation |-> 0, page |-> 1,
          items |-> <<>>, hasNext |-> FALSE, state |-> "truncated",
          content |-> 0, complete |-> FALSE]

NoSearch == [pc |-> "idle", changed |-> FALSE, rows |-> NoContents,
             complete |-> FALSE]

Step(w, fields) ==
    run' = [run EXCEPT ![w] =
        [f \in DOMAIN @ |-> IF f \in DOMAIN fields THEN fields[f] ELSE @[f]]]

\* The corpus revision advances: the search in progress finds it changed.
Revised == search' = [search EXCEPT !.changed = search.pc \in {"begun", "fresh", "read"}]

PageOf(n) == SubSeq(listing, (n - 1) * PageSize + 1,
                    IF n * PageSize < Len(listing) THEN n * PageSize ELSE Len(listing))

\* The first (n - 1) pages.
Before(n) == {listing[i] : i \in {j \in DOMAIN listing : j <= (n - 1) * PageSize}}

IndexInit ==
    /\ \E open \in SUBSET Pulls : listing = SetToSeq(open)
    /\ updates = [p \in Pulls |-> 0]
    /\ stored = {}
    /\ facet = [p \in Pulls |-> NoFeedback]
    /\ discovery = [generation |-> 0, next |-> 1, state |-> "pending"]
    /\ projection = [status |-> "absent", built |-> FALSE,
                     hash |-> NoContents, rows |-> NoContents]
    /\ run = [w \in Indexers |-> NoRun]
    /\ search = NoSearch
    /\ jobs = 0
    /\ failures = 0
    /\ missed = {}
-----------------------------------------------------------------------------
\* Somebody opens a pull request or comments on one: it moves to the front.
Update(p) ==
    /\ FoldFunction(+, 0, updates) < MaxUpdates
    /\ updates' = [updates EXCEPT ![p] = @ + 1]
    /\ \/ p \notin Range(listing) /\ listing' = <<p>> \o listing
       \/ \E i \in DOMAIN listing :
             listing[i] = p /\ listing' = <<p>> \o RemoveAt(listing, i)
    /\ missed' = missed \cup {p}
    /\ UNCHANGED <<stored, facet, discovery, projection, run, search, jobs, failures>>
-----------------------------------------------------------------------------
(***************************************************************************)
(* indexPullRequestFeedback and syncPullRequestFeedback.                   *)
(***************************************************************************)
\* A new generation, or the checkpoint of an unfinished one.
StartIndex(w) ==
    LET fresh == discovery.state \in {"pending", "complete"}
    IN
    /\ run[w].pc = "idle"
    /\ jobs < MaxJobs /\ jobs' = jobs + 1
    /\ Step(w, [pc |-> "list", workflow |-> "index",
                generation |-> IF fresh THEN discovery.generation + 1
                               ELSE discovery.generation,
                page |-> IF fresh THEN 1 ELSE discovery.next])
    /\ UNCHANGED <<listing, updates, stored, facet, discovery, projection,
                   search, failures, missed>>

ListPullRequests(w) ==
    /\ run[w].pc = "list"
    /\ Step(w, [pc |-> "item", items |-> PageOf(run[w].page),
                hasNext |-> run[w].page * PageSize < Len(listing)])
    /\ UNCHANGED <<listing, updates, stored, facet, discovery, projection,
                   search, jobs, failures, missed>>

StartExactSync(w) ==
    /\ run[w].pc = "idle"
    /\ jobs < MaxJobs /\ jobs' = jobs + 1
    /\ \E i \in DOMAIN listing :
          Step(w, [pc |-> "item", workflow |-> "exact", items |-> <<listing[i]>>])
    /\ UNCHANGED <<listing, updates, stored, facet, discovery, projection,
                   search, failures, missed>>

\* The header and the channel are read, the channel completely or up to a bound
\* or an error.
GetPullRequestFeedback(w) ==
    /\ run[w].pc = "item" /\ run[w].items # <<>>
    /\ \E complete \in BOOLEAN :
          Step(w, [pc |-> "identity", complete |-> complete,
                   content |-> updates[Head(run[w].items)]])
    /\ UNCHANGED <<listing, updates, stored, facet, discovery, projection,
                   search, jobs, failures, missed>>

\* The header cannot be read, and not for a reason to try again (that stops an
\* index): the item has failed, nothing of it is stored, and the workflow goes
\* on to the next one.
FeedbackFails(w) ==
    /\ run[w].pc = "item" /\ run[w].items # <<>>
    /\ failures < MaxFailures
    /\ failures' = failures + 1
    /\ missed' = missed \cup {Head(run[w].items)}
    /\ Step(w, [items |-> Tail(run[w].items)])
    /\ UNCHANGED <<listing, updates, stored, facet, discovery, projection, search, jobs>>

\* The thread is not stored, a mutant.
PersistNoIdentity(w) ==
    /\ run[w].pc = "identity"
    /\ Step(w, [pc |-> "facet"])
    /\ Revised
    /\ UNCHANGED <<listing, updates, stored, facet, discovery, projection,
                   jobs, failures, missed>>

\* persistPullRequestIdentity.
PersistIdentity(w) ==
    /\ run[w].pc = "identity"
    /\ stored' = stored \cup {Head(run[w].items)}
    /\ Step(w, [pc |-> "facet"])
    /\ Revised
    /\ UNCHANGED <<listing, updates, facet, discovery, projection,
                   jobs, failures, missed>>

\* persistPullRequestFeedback, without a baseline: of two snapshots with the
\* same source time the one stored last is the newer observation.
PersistFeedback(w) ==
    LET p == Head(run[w].items)
        src == run[w].content
        complete == run[w].complete
    IN
    /\ run[w].pc = "facet"
    /\ facet' = IF src < facet[p].src THEN facet
                ELSE [facet EXCEPT ![p] =
                    [src |-> src, complete |-> complete,
                     content |-> IF complete THEN src ELSE @.content]]
    /\ Step(w, [pc |-> "item", items |-> Tail(run[w].items),
                content |-> 0, complete |-> FALSE])
    /\ Revised
    /\ UNCHANGED <<listing, updates, stored, discovery, projection,
                   jobs, failures, missed>>

\* The page is done: the next one is the checkpoint, and the run goes on, or
\* stops at its bound of pages or items.
NextPage(w) ==
    /\ run[w].pc = "item" /\ run[w].items = <<>>
    /\ run[w].workflow = "index" /\ run[w].hasNext
    /\ \E pc \in {"checkpoint", "finish"} :
          Step(w, [pc |-> pc, page |-> run[w].page + 1])
    /\ UNCHANGED <<listing, updates, stored, facet, discovery, projection,
                   search, jobs, failures, missed>>

LastPage(w) ==
    /\ run[w].pc = "item" /\ run[w].items = <<>>
    /\ run[w].workflow = "index" /\ ~run[w].hasNext
    /\ Step(w, [pc |-> "finish", state |-> "complete"])
    /\ UNCHANGED <<listing, updates, stored, facet, discovery, projection,
                   search, jobs, failures, missed>>

\* The page after the unfinished one is saved instead, a mutant.
StopIndexAfterPage(w) ==
    /\ \/ run[w].pc = "list"
       \/ run[w].pc = "item" /\ run[w].workflow = "index"
    /\ failures < MaxFailures
    /\ failures' = failures + 1
    /\ Step(w, [pc |-> "finish", items |-> <<>>, page |-> run[w].page + 1])
    /\ UNCHANGED <<listing, updates, stored, facet, discovery, projection,
                   search, jobs, missed>>

\* The budget is spent, the list cannot be read, an item can be tried again or
\* the item bound is reached: the page is not done, and is the one to replay.
StopIndex(w) ==
    /\ \/ run[w].pc = "list"
       \/ run[w].pc = "item" /\ run[w].workflow = "index"
    /\ failures < MaxFailures
    /\ failures' = failures + 1
    /\ Step(w, [pc |-> "finish", items |-> <<>>])
    /\ UNCHANGED <<listing, updates, stored, facet, discovery, projection,
                   search, jobs, missed>>

\* UpsertFeedbackDiscovery.  A checkpoint that is refused advances no coverage.
UpsertFeedbackDiscovery(w) ==
    LET r == run[w]
        accepted == \/ r.generation > discovery.generation
                    \/ r.generation = discovery.generation /\ r.page >= discovery.next
        after == IF r.pc = "checkpoint" THEN "list" ELSE "mark"
    IN
    /\ r.pc \in {"checkpoint", "finish"}
    /\ IF accepted
       THEN /\ discovery' = [generation |-> r.generation, next |-> r.page,
                             state |-> r.state]
            /\ Step(w, [pc |-> IF after = "list" THEN "advance" ELSE "advance last"])
       ELSE /\ UNCHANGED discovery
            /\ Step(w, [pc |-> after])
    /\ UNCHANGED <<listing, updates, stored, facet, projection, search,
                   jobs, failures, missed>>

\* AdvanceFacet of pull_request_feedback_discovery: a transaction of its own.
AdvanceDiscoveryFacet(w) ==
    /\ run[w].pc \in {"advance", "advance last"}
    /\ Step(w, [pc |-> IF run[w].pc = "advance" THEN "list" ELSE "mark"])
    /\ Revised
    /\ UNCHANGED <<listing, updates, stored, facet, discovery, projection,
                   jobs, failures, missed>>

ExactSyncDone(w) ==
    /\ run[w].pc = "item" /\ run[w].items = <<>> /\ run[w].workflow = "exact"
    /\ Step(w, [pc |-> "mark"])
    /\ UNCHANGED <<listing, updates, stored, facet, discovery, projection,
                   search, jobs, failures, missed>>
-----------------------------------------------------------------------------
(***************************************************************************)
(* RebuildPullRequestFeedbackProjection.                                   *)
(***************************************************************************)
\* The attempt is marked before the transaction that rebuilds.
MarkBuilding(w) ==
    /\ run[w].pc = "mark"
    /\ projection' = [projection EXCEPT !.status = "building"]
    /\ Step(w, [pc |-> "rebuild"])
    /\ UNCHANGED <<listing, updates, stored, facet, discovery, search,
                   jobs, failures, missed>>

Rebuild(w) ==
    /\ run[w].pc = "rebuild"
    /\ projection' = [status |-> "current", built |-> TRUE,
                      hash |-> Contents, rows |-> Contents]
    /\ run' = [run EXCEPT ![w] = NoRun]
    /\ Revised
    /\ UNCHANGED <<listing, updates, stored, facet, discovery, jobs, failures, missed>>

RebuildFails(w) ==
    /\ run[w].pc = "rebuild"
    /\ failures < MaxFailures
    /\ failures' = failures + 1
    /\ projection' = [projection EXCEPT !.status = "failed"]
    /\ run' = [run EXCEPT ![w] = NoRun]
    /\ UNCHANGED <<listing, updates, stored, facet, discovery, search, jobs, missed>>

\* The process ends, or the corpus returns an error and the job with it.
Crash(w) ==
    /\ run[w].pc # "idle"
    /\ failures < MaxFailures
    /\ failures' = failures + 1
    /\ run' = [run EXCEPT ![w] = NoRun]
    /\ UNCHANGED <<listing, updates, stored, facet, discovery, projection,
                   search, jobs, missed>>
-----------------------------------------------------------------------------
(***************************************************************************)
(* MCPReader.SearchPullRequestFeedback, in any process.                    *)
(***************************************************************************)
\* beginCorpusRead.
BeginSearch ==
    /\ search.pc = "idle"
    /\ search' = [NoSearch EXCEPT !.pc = "begun"]
    /\ UNCHANGED <<listing, updates, stored, facet, discovery, projection, run,
                   jobs, failures, missed>>

\* RequireFreshProjection, outside the transaction of the search.
RequireFreshProjection ==
    /\ search.pc = "begun"
    /\ search' = IF /\ projection.built
                    /\ projection.status \in {"current", "building", "failed"}
                    /\ projection.hash = Contents
                 THEN [search EXCEPT !.pc = "fresh"]
                 ELSE NoSearch
    /\ UNCHANGED <<listing, updates, stored, facet, discovery, projection, run,
                   jobs, failures, missed>>

\* feedbackCoverageTx.
CoverageIsComplete ==
    /\ discovery.state = "complete"
    /\ \A p \in stored : facet[p].complete

SearchFeedback ==
    /\ search.pc = "fresh"
    /\ search' = [search EXCEPT !.pc = "read", !.rows = projection.rows,
                                !.complete = CoverageIsComplete]
    /\ UNCHANGED <<listing, updates, stored, facet, discovery, projection, run,
                   jobs, failures, missed>>

\* The revision is not compared, a mutant.
FinishUnchecked ==
    /\ search.pc = "read"
    /\ search' = [search EXCEPT !.pc = "answered"]
    /\ UNCHANGED <<listing, updates, stored, facet, discovery, projection, run,
                   jobs, failures, missed>>

\* finishCorpusRead: the answer is given only at the revision it began at.
FinishSearch ==
    /\ search.pc = "read"
    /\ search' = IF search.changed THEN NoSearch ELSE [search EXCEPT !.pc = "answered"]
    /\ UNCHANGED <<listing, updates, stored, facet, discovery, projection, run,
                   jobs, failures, missed>>

EndSearch ==
    /\ search.pc = "answered"
    /\ search' = NoSearch
    /\ UNCHANGED <<listing, updates, stored, facet, discovery, projection, run,
                   jobs, failures, missed>>
-----------------------------------------------------------------------------
IndexerNext(w) ==
    \/ StartIndex(w) \/ ListPullRequests(w) \/ StartExactSync(w)
    \/ GetPullRequestFeedback(w) \/ FeedbackFails(w)
    \/ PersistIdentity(w) \/ PersistFeedback(w)
    \/ NextPage(w) \/ LastPage(w) \/ StopIndex(w)
    \/ UpsertFeedbackDiscovery(w) \/ AdvanceDiscoveryFacet(w) \/ ExactSyncDone(w)
    \/ MarkBuilding(w) \/ Rebuild(w) \/ RebuildFails(w) \/ Crash(w)

IndexNext ==
    \/ \E p \in Pulls : Update(p)
    \/ \E w \in Indexers : IndexerNext(w)
    \/ BeginSearch \/ RequireFreshProjection \/ SearchFeedback
    \/ FinishSearch \/ EndSearch

IndexSpec == IndexInit /\ [][IndexNext]_indexVars
-----------------------------------------------------------------------------
\* The variables have their types.
IndexTypeOK ==
    /\ listing \in Seq(Pulls) /\ IsInjective(listing)
    /\ updates \in [Pulls -> Nat]
    /\ stored \subseteq Pulls /\ missed \subseteq Pulls
    /\ facet \in [Pulls -> [src : Nat \cup {-1}, complete : BOOLEAN,
                            content : Nat \cup {-1}]]
    /\ \A p \in Pulls : facet[p].src >= 0 => p \in stored
    /\ discovery \in [generation : Nat, next : Nat \ {0},
                      state : {"pending", "truncated", "complete"}]
    /\ projection \in [status : {"absent", "building", "current", "failed"}, built : BOOLEAN,
                       hash : [Pulls -> Nat \cup {-1}], rows : [Pulls -> Nat \cup {-1}]]
    /\ search \in [pc : {"idle", "begun", "fresh", "read", "answered"}, changed : BOOLEAN,
                   rows : [Pulls -> Nat \cup {-1}], complete : BOOLEAN]
    /\ jobs \in 0 .. MaxJobs /\ failures \in 0 .. MaxFailures

\* A discovery resumes at its checkpoint and lists none of the earlier pages
\* again: whatever GitHub lists on them has a stored thread with feedback
\* coverage, and so has everything it lists once the discovery is complete,
\* except the pull requests whose header could not be read and those that moved
\* ahead of the pages already read.
CheckpointSkipsNothing ==
    LET done == IF discovery.state = "complete" THEN {listing[i] : i \in DOMAIN listing}
                ELSE Before(discovery.next)
    IN \A p \in done \ missed : p \in stored /\ facet[p].src >= 0

\* An answer shows one state of the corpus, the one it is given in: its rows are
\* the complete snapshots stored then, although the freshness check, the search
\* and the revision check are separate reads that any step of an indexer may
\* come between.
AnswersAreCurrent ==
    [][search'.pc = "answered" /\ search.pc # "answered" =>
          /\ search'.rows = Contents
          /\ search'.complete => \A p \in stored : facet[p].complete]_indexVars

\* While nothing moves on GitHub, an answer whose coverage is complete has the
\* feedback of every pull request that GitHub lists.  docs/architecture.md: each
\* discovered pull request is passed through the feedback adapter, so that it
\* retains its channel coverage; FeedbackCoverageSummary.Complete: "both
\* discovery and every requested facet are complete".
CompleteIsComplete ==
    MaxUpdates = 0 /\ search.pc = "answered" /\ search.complete =>
        \A i \in DOMAIN listing : search.rows[listing[i]] >= 0
=============================================================================

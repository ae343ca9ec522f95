# Verification of gitcontribute

gitcontribute is a local research tool: it synchronizes GitHub repositories,
issues and pull requests into a SQLite *corpus*, runs long operations as durable
jobs, and answers research questions from the stored data, through a command
line, a terminal UI and an MCP server. Several processes may open one corpus at
a time. This directory models the parts whose correctness depends on the order
in which processes, goroutines, transactions and GitHub itself act, checks them
with TLC and proves the most important results with TLAPS.

Paths below are relative to `src/internal/` unless they start with `docs/` or
`CONTRIBUTING.md`.

## 1. Inventory

### Components that keep state

| Component | State | Operations | What must be right |
| --- | --- | --- | --- |
| Job executor (`app/job_executor.go`, `corpus/jobs.go`) | tables `jobs`, `job_owners`; per process: contexts, `admitted`, `admittedCount`, `slots` | Submit, run, Cancel, Close, heartbeat, cancellation watcher, reconciliation at start | terminal states are final; live work of another process is never failed; the limits hold; every job in progress has somebody to end it; cancellation reaches the function and settles; Close returns |
| Facet store (`corpus/facets.go`, `corpus/hydration.go`) | `facet_coverage`, `facet_observations`, `thread_search_documents` | advance, apply a set, each with or without compare-and-swap | sets are replaced whole; complete coverage describes the stored set; a late refresh does not replace a newer one |
| Hydration (`app/hydration.go`), health and workflow sync (`app/mcp_pr_health.go`, `app/mcp_pr_workflows.go`) | local variables between a baseline, requests to GitHub and the write | paginated facets, pull-request details, health facets, CI and feedback snapshots | nothing stale is written after an await; partial failure leaves the previous data |
| Portfolio signals and resolutions (`corpus/portfolio_relationships.go`, `corpus/resolutions.go`) | signal snapshots and projections, resolution records | replace signals, save a resolution | a derivation cites the observation it was derived from |
| Threads and observations (`corpus/observations.go`, `app/sync_headers.go`) | `repositories`, `threads`, and their observations | upserts by header sync, identity and details | history keeps every fetch; the projection is the newest by (source time, sequence); a known merge is kept |
| Investigations (`app/investigation_thread.go`, `corpus/investigation_thread.go`, `investigation`) | investigations, hypotheses, baselines | start from a thread | the baseline is the observation the copied fields came from |
| Concerns, hypotheses, opportunities (`concern`, `investigation`, `corpus/workflow.go`, `corpus/concerns.go`) | rows with a status, an audit trail and links; evidence | create, edit fields, move the status, promote, record evidence | transitions follow the lifecycle and are recorded; a promotion happens once and whole; nothing advances against evidence |
| Runs (`corpus/runs.go`, `app/sync_thread_operations.go`) | `runs`, `run_events`, repository-level coverage | start, finish, fail; bounded synchronization | a bounded synchronization never claims complete coverage |
| Search projections (`corpus/projections.go`, `corpus/search*.go`) | projection state and generations, FTS tables | rebuild, activate, require fresh | readers see a whole generation; staleness is noticed |
| Duplicate clusters (`corpus/cluster_projection.go`, `corpus/cluster_governance.go`, `clustering`, `clusterprojection`) | cluster projection, governance revision, overrides | snapshot, compute, recheck, replace; override | a projection computed from an old source or governance revision is never committed |
| Corpus lifecycle (`corpus/lock.go`, `corpus/lifecycle.go`, `corpus/restore.go`, `app/corpus_lifecycle.go`) | lease files, database file, backups | open, migrate, back up, restore | no exclusive operation beside an open reader; a failed restore leaves the old corpus |
| Feedback discovery (`corpus/pull_request_feedback*.go`, `app/mcp_pull_request_feedback_index.go`, `app/workflow_gate.go`) | discovery checkpoint, feedback projection | index pages, retry a page, rebuild | a retry loses no item; scoped completion is not reported as complete |
| Repository removal (`corpus/repository_removal.go`) | plans, the rows of a repository | preview, apply | what is applied is what was previewed |
| Tracking and change watch (`corpus/tracking*.go`, `corpus/change_watch.go`) | tracked threads, cursors, outcomes | track, observe, acknowledge | no change is skipped |
| Workspaces, acquisition, evidence (`workspace`, `acquire`, `evidence`) | directories, processes, stored receipts | prepare, run, capture | host processes; outside the corpus |
| GitHub transport (`github/retry.go`, `github/circuitbreaker.go`) | the circuit of one process: state, failures in a row, two times | RoundTrip with its attempts; allow, recordSuccess, recordFailure | a failing GitHub is not asked again too soon; the breaker is never stuck |
| Setup and upgrade (`setup`, `managedbinary`, `app/setup.go`, `app/upgrade*.go`) | private runtimes, a registration in the configuration file of each client, the setup lease | install, register, remove, activate, roll back, repair | activation is all or nothing; a registration names a runtime that exists; the edits of others are kept |

The remaining packages (user interfaces, GitHub client, ranking, exports, value
types) keep no shared state of their own. `PROJECT.json` lists all of them.

### How they interact

* Application operations run inside a job function or directly in a request; the
  job executor gives them a context that is cancelled when the job, its process
  or the service stops.
* Every operation reads GitHub first and writes the corpus afterwards. Nothing
  is locked in between: freshness is decided inside the write transaction, by the
  pair `(source_updated_at, observation_sequence)` and, where one was taken, by
  comparing the coverage sequence with a baseline read before the first request.
* `observation_sequence` is one counter of the corpus, drawn inside each write
  transaction, so it numbers writes in the order SQLite serializes them.
* Derived data (signals, resolutions, clusters, search) is written in later
  transactions than the rows it derives from.
* Processes share only the database. A process notices another one through
  `job_owners`, through the `cancelled_at` and `status` columns it polls, and
  through compare-and-swap failures.

### What is hard

The list is `hazards` in `PROJECT.json`, each at its line. In short: two
processes around one job row, the order of cancellations inside `Close`, an
outcome chosen before and written after somebody else ended the job, values read
before a request to GitHub and used after it, two transactions that should have
been one, deduplication against revisions, equal timestamps, and a crash or a
failed call between any two steps.

A hazard that the code is exposed to and no finding shows has a note and no
property. Two of them are next to a property that excepts them by name and says nothing about them. A process
that stops between the facet and the projection of the details leaves the
projection behind (`stranded`, in `DetailsReachProjection`). A restore that found
no corpus replaces, without a safety backup, one that was made and written before
it got the lease (`unguarded`, in `WritesSurvive`).

## 2. Modules

| Module | Models |
| --- | --- |
| `JobLifecycle` | the abstract specification: what a job record promises to its readers |
| `Jobs` | the executors of several processes over `jobs` and `job_owners` |
| `FacetStore` | the ordering rules of the store as operators, shared by `Facets`, `Observations` and `FeedbackIndex` |
| `Facets` | one facet of one thread, refreshed by concurrent workers, and its signals |
| `Observations` | one pull request: projection, history, details facet, investigation |
| `CorpusStore` | the abstract specification of a corpus: one content, read and changed in whole transactions, and backups of contents it had |
| `CorpusLeases` | the corpus file, its log, the lease on it and its backups, used by processes of two releases |
| `Clusters` | the duplicate-cluster projection of one repository, its refreshers and its governance |
| `FeedbackIndex` | discovery, indexing and offline search of pull-request feedback |
| `Transport` | the retry transport and the circuit breaker that the goroutines of a process share |
| `Registrations` | private runtimes and the registrations of the coding clients |
| `ContributionRecords` | the abstract specification: what the records of contributions promise the commands that edit them |
| `Workflow` | concerns, investigations, hypotheses, opportunities and contradicting evidence, edited by several commands |
| `JobsProofs`, `ObservationsProofs`, `CorpusLeasesProofs`, `ClustersProofs`, `WorkflowProofs` | theorems about the module of that name |
| `DerivedProofs` | theorems about `Facets`, `FeedbackIndex` and `MCDerived` |
| `ProcessProofs` | theorems about `Transport`, `Registrations` and `MCProcess` |
| `WorkProofs` | theorems about `MCWork` |
| `MCJobs`, `MCFacets`, `MCObservations`, `MCCorpusLeases` | symmetry sets for the runs of one module |
| `MCWork` | one run over `Jobs`, `Clusters` and `CorpusLeases` |
| `MCProcess` | one run over `Jobs`, `Transport`, `Registrations` and `Workflow` |
| `MCDerived` | one run over `Facets` and `FeedbackIndex` |

`Observations` and `Facets` meet in the details of a pull request, whose facet
`Observations` stores by the operators of `FacetStore` and then projects.
`FeedbackIndex` composes discovery, the `workflow` kind of facet, the projection
built from it and the search over both.

### Jobs

An element of `Executors` is one `JobExecutor`, in a process of its own; owner IDs are fresh UUIDs, so an
executor is never restarted, a restart of the process is another element. One
action is one SQL statement or transaction, or the stretch of Go code up to the
next point where another goroutine can be noticed (a mutex, a wait, a database
call). `pc[j]` follows the code of `Submit` and then `run` for job `j`; `phase[e]`
follows the constructor and `Close`.

| State | Code |
| --- | --- |
| `rows[j]` | status, the set of non-NULL lifecycle columns and `owner_id` of a row of `jobs` |
| `owners[e]` | row of `job_owners`: absent, or whether `heartbeat_at` is within the lease |
| `rootDone`, `ctxDone`, `CtxDone` | `rootCtx` and the `jobCtx` of each job, its child |
| `admitted`, `admittedCount`, `slotsUsed` | the fields of `JobExecutor` |
| `toCancel` | the cancel functions `Close` copied under the mutex |
| `next[j]` | the transition `run` has chosen and will write |
| `localCancel` | a `Cancel` call that has persisted its request and not yet called the cancel function |

Time is reduced to the single question reconciliation asks: is this heartbeat
older than the lease. `LeaseExpires` may answer it either way at any moment
(`Jobs` does not assume that a live process heartbeats in time), which is why
`LiveWorkIsNotFailed` says that work is failed by another process only if the
lease had expired. Failing calls are explicit: `Fault(k)` lets a call of kind
`k` fail, before its effect or, for the kinds `start_late` and `write_late`,
after its commit; `MaxFaults` bounds them. `Crash(e)` removes everything a
process keeps in memory and leaves the tables.

`TransitionJob` and the others are functions of the row in the form of the SQL:
a WHERE clause (`TransitionApplies`, `CanStart`, `Interrupted`) and a SET clause
(`TransitionedRow`, `StartedRow`, `ReconciledRow`).

### Facets

`Workers` refresh one facet; `kind`, chosen once, says which code does it:
`paginated` (`hydratePaginatedFacet`, whose loop `hydrateIssueTimeline` repeats),
`health` (`syncOnePullRequestStatus` and `persistOneHealthFacet`, with the
portfolio signals that follow) or `workflow` (CI and feedback snapshots, which
take no baseline). No facet name is written by two kinds: the feedback channels
have keys of their own (`pr_feedback_*`). GitHub is `github.version`, the number
of changes so far, and `github.src`, its clock, which may stand still during a
change: its resolution is a second, and check runs and mergeability change
without touching `updated_at`. A page holds the version at which it was read, so
"newer" is a fact about what was read and not about when it was stored. A page
may report any source time up to GitHub's, 0 standing for a missing one.

`ApplySet` and `AdvanceFacet` are the whole transactions of
`applyFacetObservationSet` and `advanceFacet`: the compare of the baseline, the
decision to replace, the rows, and the coverage with the sequence drawn last.
`ReadSource` and `SaveSignals` are the two transactions of
`persistPortfolioSignals`. The refresh of `thread_search_documents` is a function
of the rows inside the same transaction and is left out.

### Observations

Workers store one pull request through `UpsertThread`: from a header
(`syncThreadWriter.store`), an identity (`persistPullRequestIdentity`) or the
details (`hydratePullRequestDetails`, which commits the `pr_details` facet first
and projects in another transaction). `thread` is the projection, `observations`
the history, `coverage` that of the details facet. A payload is a form, a content
and what it knows of the merge; content may return to an old value, which is when
deduplication matters. `stranded` is a history variable: the worker that stored
the current details in the facet was stopped before projecting them. The
projection then stays behind until a later fetch writes it. This is what
`DetailsReachProjection` excepts: the property covers the interleavings of the two
transactions and not a crash between them.

### CorpusLeases

`Processes` are callers of the package `corpus`, some of them (`OldBinaries`) of
a release that knows an older schema. `at[p]` follows `Open`, `OpenReadOnly`, the
hand-off after an initialization, `Backup`, `MigrateWithBackup`, `Restore` and
`RestoreWithSafetyBackup`; `lease[p]` is what the process holds of the flock on
the sidecar file, which is tried and never waited for. `db` is the file at the
path, with an identity so that a file put there by a restore is another one;
`wal` is its log, with the identity of the file it was written for. SQLite is
external: a commit is seen by every connection to the file, and the last
connection folds the log. Each action is what happens between two points at
which another process may act on the files: an inspection (without a lease), the
lease, a staged copy, a rename. `Fails(p)` ends an operation at any step with its
deferred calls, `ProcessDies(p)` without them, except that the kernel drops the
lease; `MaxBreakdowns` bounds both. `unguarded` is a history variable: what a
restore replaced that had found no corpus when it looked, was given no path for a
safety backup and so made none. `WritesSurvive` excepts it. One process keeps one connection; integrity
checks and disk space are left out.

`CorpusStore` says what all this is for: a content that users open at the schema
of their binary, commit to and leave; drafts and published copies of it; an
upgrade by one version and a restore of a published copy, both while nobody has
the corpus open. There are no files, logs, leases or failures in it. The mapping
(`ImplementsStore`) takes `content` to what a connection would read (`Stored`),
`users` to the processes with an open handle, `drafts` to the staged copies,
`copies` to the backups that have a manifest, and `generation` to the identity of
the file at the path, so that a restore which leaves the old log in effect is not
a step of the store.

### Clusters

A thread is a set of title tokens, and two threads are similar when they share
one, which gives the engine components to find and lets them merge and split;
what the scoring rules call similar is outside. `source` and `governance` count
the changes of threads and decisions, as the source digest and the governance
revision tell them apart. A refresh reads one snapshot (`LoadClusterRefreshSnapshot`, with the
result computed from it), and commits (`CommitClusterProjection`) after reading
the two revisions again, but not the stored clusters. `Decided` and
`Reconciled` are `applyGovernance` and the reconciliation with clusters the
engine no longer finds; the comparison budget and rule versions are left out.

### FeedbackIndex

GitHub lists pull requests with the last updated first, so that an update between
two pages moves a pull request across the boundary; `missed` remembers those, and
those whose header could not be read. `discovery` is the checkpoint, `facet` the
coverage and observation of each thread, `projection` the normalized rows with
their status and hash. `run[w]` follows an index or exact workflow of process
`w`: `StopIndex` is its budget, `FeedbackFails` a failed request, `Crash` the end
of the process anywhere. A search makes three reads (revision, freshness, rows
with coverage) and gives its answer only if the revision has not moved
(`FinishSearch`). One channel and one selection are modelled, and reading the
feedback of a pull request is one request.

### Transport

`attempt[q]` is the local variable of `RoundTrip` in goroutine `q`, 0 outside.
`AllowClosed`, `AllowProbe`, `RefuseOpen` and `RefuseHalfOpen` are the branches of
`allow`, under its mutex; `Succeed` and `Exhaust` are the returns that call
`recordSuccess` and `recordFailure`, `ContextEnds` those that report nothing: the
context of the caller, a cancelled wait, and the timeout of an attempt, which is a
context error too. Times are ages in ticks that stop at the limit they are compared
with, so that the model needs no bound on time: only on nothing else. `probeGap`, `refused`
and `blackout` are history variables. Requests that may not be repeated bypass the
breaker and are not modelled.

### Registrations

Of each client's configuration file, the GitContribute entry (its runtime, and
whether its arguments are the canonical ones) and the mode are modelled: the mode
decides whether a rollback may touch the file. `pc` of a process follows
`SetupWithProgress` (setup and remove) or `Upgrade` (activation and repair): what
it decides before `.gitcontribute-setup.lock` is tried (`BeginSetup`,
`BeginUpgrade`, `BeginRepair`, `InstallRuntime`) and what it does under it
(`Run`; or snapshots, activation of one client at a time, verification, rollback).
`Edit(c)` is a client or its user, who take no lease; a rollback therefore reads
(`RestoreRead`) before it writes (`RestoreWrite`), and an edit fits in between.
`ActivationFails` is a write that fails, a cancelled context or a failing check;
`Die` is the end of the process anywhere.

### Workflow

`session[u]` is the command a user runs, from what it read to what it will
write; `concerns`, `hypotheses` and `opportunities` are tables of rows with a
status, fields and an audit trail, `investigations` the origins of the open
investigations, `links` the table that joins them to concerns, where a link may as
well name something that is no investigation (`Elsewhere`). An update compares
the payload with the row it read (`UpdateConcern`, `UpdateHypothesis`,
`UpdateOpportunity`; `UpdateRefused` where it has changed); the commands that edit single
fields read twice, once for the fields they were not given and once for the row
they compare (`EditConcern`, `EditHypothesis`). The promotions are transactions
that compare the status only, and so may follow an edit they have not read. An
advancing opportunity looks for contradicting evidence in a read and again in the
statement that writes it. The number of a command stands for everything it makes
up: identities, times, edited values, audit entries. Supporting evidence, drafts
and manifests decide no status and are left out.

`ContributionRecords` is what this amounts to for the rows: each command is one
step on them as they are, or none, and what it read before does not appear. The
mapping keeps of a row its status, its trail and what it belongs to. Two things
are not promised, because the code does not do them: the edited fields, where an
edit may write back what another has changed since it read them, and the last
notes in the trail of a hypothesis, which its promotion may take back. Reads and
refused commands are steps of the abstract specification that change nothing.

## 3. Runs

| Run | Instance | Result |
| --- | --- | --- |
| `work` | jobs: 2 executors, 1 job, every fault kind, 2 faults; clusters: 3 threads, 2 titles, 2 refreshers, 3 changes; files: 2 processes of one release or of two, 2 backups, 1 write, 2 files, 1 breakdown; 658,537 states | `WorkTypeOK`; `RowsParse`, `BodyOwnsRow`, `TerminalIsFinal`, `LiveWorkIsNotFailed`, `ImplementsLifecycle`; `UnchangedIsUnchanged`, `DecisionsApply`, `UngovernedClustersAreDisjoint`, `RefreshIsAtomic`; `HandlesAreCurrent`, `BackupsAreWhole`, `WritesSurvive`, `ImplementsStore` hold |
| `jobs_live` | 2 executors, 1 job, fair, 1 fault of a reconciliation or of the read after a creation; 158,549 states | `StoppedBodyReturns`, `CancellationSettles`, `CloseReturns` hold |
| `jobs_close` | 1 executor, 2 jobs, `Close` called directly | `NoAbandonedRow` is violated (finding) |
| `process` | jobs: 1 executor, 3 jobs, 1 slot, 2 admissions, 1 failed call of a kind in `RecoverableFaults` other than a read; transport: 3 callers, 2 attempts, 2 failures; registrations: 2 clients, 2 processes, 2 releases, 2 commands, 1 edit, 1 mishap; records: 2 users, 2 concerns, 1 thread, 2 commands; 906,957 states | `ProcessTypeOK`; `LimitsHold`, `NoAbandonedRow`; `BlackoutIsBounded`, `ProbesAreSpaced`; `RegisteredRuntimesExist`, `ActivationIsAllOrNothing`, `ActivationsReplaceWhatTheySaw`; `PromotionsAreWhole`, `PromotedOnce`, `AdvancesAreUncontradicted`, `ImplementsRecords` hold |
| `records_promotion` | 1 user, 2 concerns | `PromotableConcernsArePromoted` is violated (finding) |
| `setup_race` | 2 setups of different releases, 1 client | `SetupNeverGoesBack` is violated (finding) |
| `derived` | facet: 2 workers, 2 pages, 2 versions, 6 sequences; feedback: 2 pull requests, 2 processes, 1 update, 2 workflows, 1 failure; 1,624,490 states | `DerivedTypeOK`; `RowsAreOneSet`, `RowsNeverGoBack`; `CheckpointSkipsNothing`, `AnswersAreCurrent` hold |
| `facets_signals` | 2 workers, 1 page | `SignalsMatchTheirSource` is violated (finding) |
| `feedback_complete` | 1 discovery of 2 pull requests, 1 failed request | `CompleteIsComplete` is violated (finding) |
| `observations` | 2 workers, 2 seconds, 4 sequences; 2,287,896 states | `TypeOK`, `ProjectionIsNewest`, `DetailsReachProjection`, `BaselineIsExact`, `EveryFetchIsRecorded`, `KnownMergeIsKept` hold |
| `observations_revision` | 1 worker, 1 second | `RevisionIsAvailable` is violated (finding) |
| `leases_open` | 3 processes of 1 release, no faults | `OpenCorporaShare` is violated (finding) |

`work`, `process` and `derived` each put several modules side by side: their
variables are disjoint and none reads what another writes, so that a behaviour of
the run is a behaviour of one module, chosen by `subject` in the initial state,
with the others at rest. Every state of each module is reached, and no product of
them is explored. `WorkTypeOK`, `ProcessTypeOK` and `DerivedTypeOK` are the type
invariants of the modules side by side.

### Bounds

* Jobs interact only through the limits of their executor, so one job suffices
  where rows are the question and three where limits are: one runs, one waits,
  one is refused. Two executors are what a row can meet at a time: the one that
  runs it and the one that cancels or reconciles it. Two faults allow the failure
  of a call and of the call that was to repair it.
* `ServiceClose` is TRUE where the executor is closed as the program closes it,
  by `Service.Close` (`app/app.go`), and FALSE in `jobs_close`, as its own test
  closes it.
* In `derived`, two workers and two versions give a refresh that read the old
  version and one that read the new; six sequences let two sets of two pages, or
  a set and several incomplete refreshes, be stored. `MaxPages = 2` separates the
  first page, the page that hits the limit and a complete set of two. For
  feedback, pages of one pull request put the page boundary between the two; one
  update moves one across it; two workflows are a run and its resumption, or two
  processes at once; one failure stops, fails or kills one of them.
* In `observations`, four sequences allow a details write (two sequences for the
  facet, one for the projection) with a competing write, and two seconds allow
  both equal and later timestamps. One content suffices, because the form and the
  merge already make payloads differ.
* In `work`, three threads of two titles form one cluster, lose a member, split
  off or disappear; three changes are enough for a decision, a change that removes
  its cluster, and one that brings it back.
* In `process`, three callers of the transport are a probe, a refused caller and
  a request that was under way before the circuit opened; a wait of two ticks
  is longer than the probe timeout of one, so that the two are told apart.
  `BlackoutIsBounded` is tight there: with one tick less it is violated. Two
  clients make an activation that is half done; both start without a
  registration, or the first with a stale one and the second with a current one in
  a file with a mode of its own. Two commands are two processes at once or one
  after the other; one edit and one mishap may each come anywhere. Two users with
  two commands are an edit or a transition beside a promotion, or two promotions.
  One failed call comes before, after or beside everything `Service.Close` does;
  a read that fails is a fault of `work`, and of `NoRowIsAbandoned`.
* For the corpus file, two processes (of one release, or of both) are one that
  holds a lease and one that decided something before it; two files are the
  original and one restored over it; one acknowledged transaction is enough to be
  lost.
* `CHECK_DEADLOCK FALSE` is set where the system may stop: every executor is
  closed or crashed, or the bounds on changes, commands and failures are used up.

### Fairness

Only `jobs_live` uses it. Each goroutine of a job keeps running (`JobStep`), the
background loops tick and react, and `Close` goes on (`ExecutorStep`): the Go
scheduler and the timers justify that, as long as calls to SQLite return. A call
that fails is no step that was owed: a reconciliation is tried again at the next
tick, and the read after a creation fails at most once in the run. A cancel function that was to be called
is called (`CancelAdmitted`). A function returns once its context is done
(`CtxDone(j) /\ BodyReturns(j)`), which is the contract of `JobFunc`. Weak
fairness is enough, since nothing disables these steps but themselves and each
can be taken finitely often. `slots.Acquire` is the exception that needs no more:
its waiter is enabled again and again only while others come and go, and those
are finitely many. Nothing is assumed of users, crashes, leases or functions that
are not cancelled.

## 4. Findings

1. **A waiting job may be lost by `JobExecutor.Close`** (`jobs_close`).
   `Close` cancels each job (lines 228-230) before `rootCtx` (231). A waiting job
   cancelled first finds `rootCtx` still alive (358) and returns without an
   outcome. The row stays queued; the owner is deleted; only a later executor
   ends it, as failed. `TestJobExecutorCloseCancelsQueuedJobs` expects
   "cancelled". Through `Service.Close` the lifecycle context is cancelled first
   and `process` shows that no row is abandoned.
2. **Portfolio signals may cite another refresh's observation**
   (`facets_signals`). The set is committed, then the observation is looked up in
   a separate read (`app/mcp_pr_health.go:330`); a second health sync may have
   replaced it.
3. **The revision of a re-synchronized thread has no observation**
   (`observations_revision`). The projection takes a new sequence, the
   deduplicated insert stores nothing under it, and
   `GetThreadObservationRevision` fails until the thread changes at GitHub.
4. **A corpus may stay open under the exclusive lease** (`leases_open`). `Open`
   decides that it has to initialize before it has a lease. When another process
   initializes first, it skips both the initialization and the hand-off that would
   have exchanged the exclusive lease for a shared one, and shuts every other
   process out until it closes.
5. **A discovery may be complete without a pull request it listed**
   (`feedback_complete`). A header that cannot be read is passed over, nothing is
   stored of it, and coverage is computed over stored threads: an offline search
   then claims to be complete.
6. **An older setup may replace the registration of a newer one**
   (`setup_race`). Whether a newer runtime is installed is asked before the setup
   lease is taken. `docs/onboarding.md` says that setup never does this.

7. **A second concern cannot be promoted** (`records_promotion`).
   `insertConcernWorkflowTx` gives the investigation of a promoted concern the
   origin `''`, which the unique index on the origins of open investigations
   includes, as it leaves out NULL only; nothing closes an investigation, so that
   the next promotion is rolled back.

Observed while modelling, and left as notes on the hazards in `PROJECT.json`
since nothing in the repository promises otherwise: excluding a member that a
decision not yet applied makes canonical gives a cluster whose canonical member is
excluded; a rollback may overwrite an edit that falls between its read and its
write; an upgrade chooses its target before the lease, and it is the registry's
latest release even if a newer private runtime is installed.

One more is against the help text of the command and has no run of its own. The
command `corpus restore` is said to work "with an automatic safety backup"
(`internal/cli/corpus_commands.go:22`, `:167`), and a restore that found no corpus
makes no backup of one created meanwhile: without the exception of `unguarded`,
`WritesSurvive` is violated.

## 5. Proofs

`JobsProofs` proves, for every finite set of executors and jobs, every limits
with `1 <= MaxConcurrentJobs <= MaxAdmittedJobs` and any number of faults:

* `CountersAreExact`, `TypeCorrect`, `LimitsAlwaysHold`. `TypeOK` alone is not
  inductive, since a counter could drop below zero. The invariant adds that
  `admittedCount[e]` and `slotsUsed[e]` are the cardinalities of the sets of jobs
  whose `pc` counts; each release then has a job to release for, and the limits
  follow from the guards of `Admit` and `SlotFree`.
* `RowInvariant`, `RowsAlwaysParse`. A row parses only if the writers agree on
  which columns go with which status; the invariant states, besides, that only
  terminal outcomes chosen by a worker are ever written.
* `TerminalRowsAreFinal`: each action is followed to the row function it uses,
  none of which applies to a terminal row.
* `OwnerInvariant`, `BodyAlwaysOwnsRow`, `LiveWorkIsNeverFailed`. As long as a job
  has a goroutine, its row in progress names its executor, and the owner that a row
  names is registered. Owners leave the table only with the rows that name them,
  in a reconciliation that ends those rows, or in a Close that has no job left.
* `TableImplementsLifecycle`: under the refinement mapping `JobView` every step
  is a step of `JobLifecycle` or a stutter.
* `NoRowIsAbandoned`, under two hypotheses: the executors are closed by
  `Service.Close`, and the calls that fail are among `RecoverableFaults`. Neither
  can be dropped: `jobs_close` refutes the first, and a row is really abandoned
  when an INSERT commits and its read back fails (`create_read`), when a claim
  fails after its commit (`start_late`), and when the last transition is not
  written or reported as failed (`write`, `write_late`), since nothing tries
  these again before a later executor reconciles. The invariant `EndingInv` says
  that the context of a single job is cancelled only for a row that was asked to
  end or has ended, that a `Close` which cancels jobs finds `rootCtx` done, and
  that the row of a worker matches its place in `run`: whoever leaves `run`
  without an outcome leaves a row that somebody else ended, or is in a process
  that was killed.

`DerivedProofs` proves of `Facets`, for any set of workers and any bounds:

* `StoreInvariant`: rows carry consecutive sequences below that of the coverage,
  the coverage's sequence was drawn from the counter, and every worker's local
  state *fits* the store. The last part is what makes `RowsNeverGoBack`
  inductive: no baseline is ahead of the coverage and, while a baseline equals
  the coverage sequence, every page read under it is at least as new as every
  stored row. A write by anybody else takes a fresh sequence, and so ends the
  baselines of the others.
* `FacetsTypeCorrect`, `RowsAlwaysOneSet`, `RowsMoveForward` follow from it.

`CorpusLeasesProofs` proves, for any processes of both releases, any number of
files, backups, writes and faults:

* `LeasesTypeCorrect`, `LeasesExclude`, `HandlesStayCurrent`,
  `DatabaseStaysWhole`, `BackupsStayWhole`, `WritesAlwaysSurvive`. The invariant
  adds to the five properties that exclusive leases exclude, that every step that
  needs a lease is taken with it (`Leased`), that what a process remembers of the
  file is still so (`Seen`, `Copied`), and that no file is empty. The lemma
  `OthersFit` carries the other processes through a step: under a shared lease a
  step is *gentle* to them, and who holds the exclusive lease is alone.
* `FilesImplementStore`: every step on the files is a step of `CorpusStore` or a
  stutter, and so its commits, backups, upgrades and restores take effect whole,
  in one step, and under no open handle. Each action has a lemma that names the
  step it maps to: folding a log, removing it, publishing a copy without its
  manifest and making an empty file are stutters; a return leaves or discards;
  the rename is the restore. The mapping needs one more invariant,
  `RestoresAreOfBackups`: from its staging to the rename, what a restore puts in
  place is the content of a backup that is still published, because the exclusive
  lease keeps everybody from publishing; and no backup exists before a corpus.

`ClustersProofs` proves, for any finite set of threads, any titles and refreshers:

* `ClustersTypeCorrect`, `MatchingRefreshIsUnchanged`, `DecisionsAlwaysApply`,
  `UngovernedClustersStayDisjoint`, `RefreshesAreAtomic`. The invariant says that
  a pending result is what reconciliation gives at its two revisions
  (`PendingIsReconciled`), for whichever clusters are stored by then, as
  reconciliation forgets everything of them that is not governed.

`DerivedProofs` proves of `FeedbackIndex`, for any finite set of pull requests, any
page size and any number of indexers, updates and failures:

* `IndexTypeCorrect`, `CheckpointsSkipNothing`, `AnswersAreAlwaysCurrent`. For the
  checkpoint, every running indexer keeps what it *passed* and the checkpoint what
  was *reached*; list positions only move back for a pull request in `missed`. For
  the search, a result read at an unchanged revision is the present content.

`ProcessProofs` proves of `Transport`, for any finite set of requests and any limits:

* `TransportTypeCorrect`, `ProbesAreAlwaysSpaced`, `BlackoutIsAlwaysBounded`. The
  bound is a budget: an attempt under way may restart the wait once, so the age
  of a blackout is at most what the requests that are no longer under way have
  spent, and a probe adds its timeout.

`ProcessProofs` proves of `Registrations`, for any clients, processes, releases and
bounds:

* `RegistrationsTypeCorrect`, `RegisteredRuntimesAlwaysExist`,
  `ActivationIsAlwaysAllOrNothing`, `ActivationsAlwaysReplaceWhatTheySaw`. The
  invariant follows a command through its phases: what it read of a client before
  the lease names a runtime that exists, a snapshot is what the file is until the
  command or an edit changes it, and clients not yet activated are as they were.
  A process that dies leaves its lease, hence *at most one process holds it* is
  part of the invariant and not of the types.

`WorkflowProofs` proves, for any users, concerns, threads and number of commands:

* `WorkflowTypeCorrect`, `PromotionsAlwaysWhole`, `PromotedAtMostOnce`. The
  invariant says that what a command is about to write follows from what it read
  (`Faithful`): an edit keeps status, promotion and trail, a transition is one of
  the lifecycle. As updates compare the payload, what was read is what is
  replaced. Promotions compare less, so it says besides that the number of a
  promotion under way belongs to no record yet (`StampsAreFresh`).
* `AdvancesAlwaysUncontradicted`, `LifecyclesAlwaysRecorded`: action properties,
  from a lemma that gives for each step the rows it replaces and by what. The
  second says that every change of status is along the lifecycle and in the trail,
  and that a trail only grows, with one exception which it names (`IsPromoted`):
  the promotion of a hypothesis may lose the last entries of its trail. For the
  trails of hypotheses it needs `CommandsAreSteps`, below. No run checks it, since
  `ImplementsRecords` says more.
* `CommandsImplementRecords`: every step is a step of `ContributionRecords`. The
  mapping needs one more invariant, `CommandsAreSteps`. What an update is about to
  write is one step on the row it read: one edge of the lifecycle with one entry,
  one note, or nothing that the mapping sees (`IsOneStep`). A promotion does not
  compare the row it read, and so it says of it that the trail it read is still
  the beginning of the trail there is, as long as the row is proposed
  (`TakesBackNotes`): nothing ever makes a row proposed again, and until then a
  trail only grows. Each write has a lemma that names the step it maps to.

`ObservationsProofs` proves, for any workers, contents, seconds and sequences:

* `ObservationsTypeCorrect`, `ProjectionIsAlwaysNewest`,
  `DetailsAlwaysReachProjection`, `BaselineIsAlwaysExact`,
  `EveryFetchIsAlwaysRecorded`, `KnownMergeIsAlwaysKept`. The invariant adds that
  every stored sequence was drawn from the counter (`SequencesAreDrawn`), so that
  a new one is newer than all at equal seconds, and that a pair of second and
  sequence has one payload (`RevisionsAreExact`), which binds a copied projection
  to its observation for ever.

`WorkComposes`, `ProcessComposes` and `DerivedComposes` carry these results to the
specifications that the runs `work`, `process` and `derived` check: a behaviour of
each is, for every component in it, one of the component's own specification, since
a step of one leaves the variables of the others as they were. `WorkTypeCorrect`,
`ProcessTypeCorrect` and `DerivedTypeCorrect` follow.

The only assumptions are those stated in the modules on constants, which TLC
evaluates in the runs, and the two hypotheses of `NoRowIsAbandoned`.

Model-checked only: the liveness properties `StoppedBodyReturns`,
`CancellationSettles` and `CloseReturns` (fairness and `ENABLED` are out of reach of
the prover), and the properties the findings refute. Every other property of a
passing run is a theorem. `DatabaseIsWhole` is proved only: where a log of another
file would be read, `work` finds `ImplementsStore` violated.

## 6. Not modelled

* `UpdateJobProgress` and `job_events`: text that no transition reads.
* Resolution records of timelines. They re-check coverage before citing
  (`app/hydration.go:249-256`), and then read again: the same shape as the
  signals.
* Repository and repository-level facets: the same ordering rule, one writer.
* What SQLite guarantees (serialized write transactions, foreign keys) is
  assumed. Retries on `SQLITE_BUSY` repeat a transaction that had no effect and
  are one step; where the retries run out, `Busy` and `Fails` end the operation.
* At equal source times, order is arrival order, as `docs/architecture.md` says.
  For CI and feedback snapshots, which take no baseline, an earlier read may
  therefore replace a later one; `RowsNeverGoBack` is not claimed for them.
* Liveness outside the executor. Indexing and refreshing are commands of a user,
  who may stop; the transport waits for callers; leases are tried and not waited
  for. `BlackoutIsBounded` states as safety what would be the liveness property of
  the breaker.
* The Codex skill file and the global npm package: files with one writer at a
  time, outside the rollback of an activation.
* Ranking, similarity, dossiers, exports, user interfaces: pure functions over
  stored rows, whose correctness is in their text and arithmetic.
* The other components of the inventory: see the plan, and the notes in
  `PROJECT.json`.

## 7. Plan

In this order, each with its place in a run and its mutants:

1. Runs and bounded synchronization: budgets and the coverage they may claim.
2. Repository removal: a previewed plan against the rows it is applied to.
3. Tracking and change watch: cursors that skip nothing.
4. Workspaces and validation receipts.

## 8. Running

    tlc -workers 2 -config MCJobs.cfg MCJobs
    tlapm JobsProofs.tla

Comments ending in "mutant" mark operators that are a plausible mistake in the
definition below them; each property was seen to fail with one of them.

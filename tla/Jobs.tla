-------------------------------- MODULE Jobs --------------------------------
(***************************************************************************)
(* The durable job executor: the tables jobs and job_owners of the corpus  *)
(* (internal/corpus/jobs.go) shared by several processes, each with one    *)
(* JobExecutor (internal/app/job_executor.go).                             *)
(*                                                                         *)
(* An element of Executors is one incarnation of a JobExecutor: its owner  *)
(* ID is a fresh UUID, so it is never reused.  An element of JobIds is a   *)
(* job ID, also a fresh UUID.  Wall-clock time appears only as the two     *)
(* ages of a heartbeat the code tells apart: "fresh" (heartbeat_at is not  *)
(* older than the lease) and "stale"; any heartbeat may become stale at    *)
(* any moment (a suspended process, a stalled disk), and a heartbeat       *)
(* makes it fresh again.                                                   *)
(*                                                                         *)
(* Each SQL statement or transaction is one step, because SQLite           *)
(* serialises writers.  Every other step ends where a goroutine releases a *)
(* mutex, waits, or starts the next database call.                         *)
(***************************************************************************)
EXTENDS Naturals, FiniteSets

CONSTANTS
    Executors,          \* incarnations of JobExecutor, one per process
    JobIds,             \* the job IDs that may be submitted
    NoOwner,            \* SQL NULL in jobs.owner_id
    MaxConcurrentJobs,  \* cfg.maxConcurrentJobs
    MaxAdmittedJobs,    \* cfg.maxAdmittedJobs
    ServiceClose,       \* TRUE: Close is reached through Service.Close
    FaultKinds,         \* the database calls that may fail
    MaxFaults           \* bound on the number of failing calls

ASSUME ExecutorsAssumption == IsFiniteSet(Executors) /\ NoOwner \notin Executors
ASSUME JobIdsAssumption == IsFiniteSet(JobIds)
ASSUME LimitsAssumption ==
    /\ MaxConcurrentJobs \in Nat \ {0}
    /\ MaxAdmittedJobs \in Nat
    /\ MaxConcurrentJobs <= MaxAdmittedJobs
ASSUME ServiceCloseAssumption == ServiceClose \in BOOLEAN
ASSUME FaultsAssumption ==
    /\ FaultKinds \subseteq {"reconcile", "create", "create_read", "start",
                             "start_late", "read", "write", "write_late", "delete"}
    /\ MaxFaults \in Nat

VARIABLES
    rows,           \* table jobs: status, written nullable columns, owner_id
    owners,         \* table job_owners: absent, or the age of heartbeat_at
    phase,          \* where the constructor, or Close, of an executor stands
    rootDone,       \* executors whose rootCtx is cancelled
    background,     \* executors whose heartbeat and watcher goroutines run
    admitted,       \* JobExecutor.admitted (its keys)
    admittedCount,  \* JobExecutor.admittedCount
    slotsUsed,      \* tokens of JobExecutor.slots in use
    toCancel,       \* the cancel functions Close copied and has yet to call
    pc,             \* where Submit, and then run, of a job stands
    home,           \* the executor a job was submitted to
    next,           \* the terminal transition run is about to write
    ctxDone,        \* jobs whose own jobCtx is cancelled
    localCancel,    \* jobs whose Cancel call persisted but has yet to cancel
    faults          \* failing database calls so far

dbVars == <<rows, owners>>
executorVars == <<phase, rootDone, background, admitted, toCancel>>
limitVars == <<admittedCount, slotsUsed>>
workerVars == <<pc, home, next, ctxDone, localCancel>>
vars == <<rows, owners, phase, rootDone, background, admitted, admittedCount,
          slotsUsed, toCancel, pc, home, next, ctxDone, localCancel, faults>>

-----------------------------------------------------------------------------
(* The stored row and its lifecycle (internal/corpus/models.go).           *)

Terminal == {"succeeded", "failed", "cancelled"}
Status == {"queued", "running"} \cup Terminal

\* The nullable columns the lifecycle writes; a row holds the set of those
\* that are not NULL.
Columns == {"started_at", "completed_at", "cancelled_at"}

Row == [status : {"absent"} \cup Status,
        cols   : SUBSET Columns,
        owner  : Executors \cup {NoOwner}]
AbsentRow == [status |-> "absent", cols |-> {}, owner |-> NoOwner]

\* JobTransition: the five terminal transitions TransitionJob may perform.
QueuedToCancelled == [from |-> "queued", to |-> "cancelled"]
QueuedToFailed == [from |-> "queued", to |-> "failed"]
RunningToSucceeded == [from |-> "running", to |-> "succeeded"]
RunningToFailed == [from |-> "running", to |-> "failed"]
RunningToCancelled == [from |-> "running", to |-> "cancelled"]
JobTransition == {QueuedToCancelled, QueuedToFailed, RunningToSucceeded,
                  RunningToFailed, RunningToCancelled}

CancellationRequested(r) == "cancelled_at" \in r.cols

\* What parseJobState accepts: GetJob fails on any other row.
ParsesAsJobState(r) ==
    /\ r.status = "queued" => r.cols = {}
    /\ r.status = "running" =>
         "started_at" \in r.cols /\ "completed_at" \notin r.cols
    /\ r.status \in {"succeeded", "failed"} =>
         "completed_at" \in r.cols /\ "cancelled_at" \notin r.cols
    /\ r.status = "cancelled" => {"completed_at", "cancelled_at"} \subseteq r.cols

-----------------------------------------------------------------------------
(* The statements of internal/corpus/jobs.go, as functions of the tables.  *)

\* StartJobAs: the WHERE clause, and the row it writes.  Claiming for an owner
\* that is no longer registered fails on the foreign key.
CanStart(r, e) ==
    /\ r.status = "queued"
    /\ ~CancellationRequested(r)
    /\ r.owner \in {NoOwner, e}
    /\ owners[e] # "absent"
StartedRowUnowned(r, e) ==    \* mutant: the claim forgets the owner
    [r EXCEPT !.status = "running", !.cols = @ \cup {"started_at"}, !.owner = NoOwner]
StartedRow(r, e) ==
    [r EXCEPT !.status = "running", !.cols = @ \cup {"started_at"}, !.owner = e]

\* TransitionJob: the WHERE clause, and the row it writes.
TransitionAppliesAnyStatus(r, t) ==   \* mutant: status is not compared
    r.status # "absent" /\ (CancellationRequested(r) => t.to = "cancelled")
TransitionAppliesCancelled(r, t) ==   \* mutant: a cancellation request is ignored
    r.status = t.from
TransitionAppliesNotCancelled(r, t) ==  \* mutant: a request blocks every outcome
    r.status = t.from /\ ~CancellationRequested(r)
TransitionApplies(r, t) ==
    /\ r.status = t.from
    /\ CancellationRequested(r) => t.to = "cancelled"
TransitionedRow(r, t) ==
    [r EXCEPT !.status = t.to,
              !.cols = @ \cup {"completed_at"}
                         \cup (IF t.to = "cancelled" THEN {"cancelled_at"} ELSE {}),
              !.owner = NoOwner]
TransitionJob(j, t) ==
    IF TransitionApplies(rows[j], t)
    THEN [rows EXCEPT ![j] = TransitionedRow(@, t)]
    ELSE rows

\* RequestJobCancellation: a queued job becomes cancelled, a running one only
\* records the request.  owner_id is left as it is.
CancelRequestedRowLater(r) ==   \* mutant: a queued job only records the request
    [r EXCEPT !.cols = @ \cup {"cancelled_at"}]
CancelRequestedRow(r) ==
    IF r.status = "queued"
    THEN [r EXCEPT !.status = "cancelled",
                   !.cols = @ \cup {"completed_at", "cancelled_at"}]
    ELSE [r EXCEPT !.cols = @ \cup {"cancelled_at"}]

\* StoppedJobIDs: terminal, cancelled or missing.
StoppedTerminalOnly(r) ==   \* mutant: a requested cancellation is not polled
    r.status \notin {"queued", "running"}
Stopped(r) == r.status \notin {"queued", "running"} \/ CancellationRequested(r)

\* DELETE FROM job_owners for the owners in S, with the foreign key's
\* ON DELETE SET NULL on jobs.owner_id.
DisownedRows(R, S) ==
    [j \in JobIds |-> IF R[j].owner \in S THEN [R[j] EXCEPT !.owner = NoOwner] ELSE R[j]]
WithoutOwners(S) == [e \in Executors |-> IF e \in S THEN "absent" ELSE owners[e]]

\* ReconcileInterruptedJobs: jobs in progress whose owner is NULL, missing or
\* stale end as failed, or as cancelled when cancellation was requested.
OwnerNeverAlive(r) == FALSE   \* mutant: startup ends every job in progress
OwnerAlive(r) == r.owner \in Executors /\ owners[r.owner] = "fresh"
Interrupted(r) == r.status \in {"queued", "running"} /\ ~OwnerAlive(r)
ReconciledRowFailed(r) ==   \* mutant: a requested cancellation is ignored
    [r EXCEPT !.status = "failed", !.cols = @ \cup {"completed_at"}, !.owner = NoOwner]
ReconciledRow(r) ==
    [r EXCEPT !.status = IF CancellationRequested(r) THEN "cancelled" ELSE "failed",
              !.cols = @ \cup {"completed_at"},
              !.owner = NoOwner]
StaleOwners == {e \in Executors : owners[e] = "stale"}
ReconcileInterruptedJobs ==
    DisownedRows([j \in JobIds |-> IF Interrupted(rows[j]) THEN ReconciledRow(rows[j])
                                                           ELSE rows[j]],
                 StaleOwners)

-----------------------------------------------------------------------------
(* Contexts, faults and the states of an executor.                         *)

Alive(e) == phase[e] \notin {"new", "closed", "crashed"}
Closed(e) == phase[e] \in {"closing", "draining", "closed"}
CtxDone(j) == j \in ctxDone \/ home[j] \in rootDone

\* Calling the cancel functions of the jobs in S; jobCtx is a child of rootCtx,
\* so it is done already when rootCtx is.
Cancel(S) == ctxDone' = ctxDone \cup {j \in S : home[j] \notin rootDone}

\* A database call of kind k fails (SQLITE_BUSY past the timeout, I/O error, or
\* a cancelled request context).
Fault(k) == k \in FaultKinds /\ faults < MaxFaults /\ faults' = faults + 1

\* A token of slots is free; releaseAdmission.
SlotFreeOffByOne(e) == slotsUsed[e] <= MaxConcurrentJobs    \* mutant
SlotFree(e) == slotsUsed[e] < MaxConcurrentJobs
ReleaseNoAdmission(e) == UNCHANGED admittedCount    \* mutant: a leak
ReleaseAdmissionTwice(e) ==     \* mutant: released by the caller as well
    admittedCount' = [admittedCount EXCEPT ![e] = @ - 2]
ReleaseAdmission(e) == admittedCount' = [admittedCount EXCEPT ![e] = @ - 1]

Init ==
    /\ rows = [j \in JobIds |-> AbsentRow]
    /\ owners = [e \in Executors |-> "absent"]
    /\ phase = [e \in Executors |-> "new"]
    /\ rootDone = {}
    /\ background = {}
    /\ admitted = [e \in Executors |-> {}]
    /\ admittedCount = [e \in Executors |-> 0]
    /\ slotsUsed = [e \in Executors |-> 0]
    /\ toCancel = [e \in Executors |-> {}]
    /\ pc = [j \in JobIds |-> "none"]
    /\ home = [j \in JobIds |-> NoOwner]
    /\ next = [j \in JobIds |-> RunningToFailed]
    /\ ctxDone = {}
    /\ localCancel = {}
    /\ faults = 0

-----------------------------------------------------------------------------
(* newJobExecutorWithConfig                                                *)

\* RegisterJobOwner, then the two background goroutines start.
RegisterJobOwner(e) ==
    /\ phase[e] = "new"
    /\ phase' = [phase EXCEPT ![e] = "reconciling"]
    /\ owners' = [owners EXCEPT ![e] = "fresh"]
    /\ background' = background \cup {e}
    /\ UNCHANGED <<rows, rootDone, admitted, toCancel, limitVars, workerVars, faults>>

Reconcile(e) ==
    /\ phase[e] = "reconciling"
    /\ rows' = ReconcileInterruptedJobs
    /\ owners' = WithoutOwners(StaleOwners)
    /\ phase' = [phase EXCEPT ![e] = "open"]
    /\ UNCHANGED <<rootDone, background, admitted, toCancel, limitVars, workerVars, faults>>

\* Reconciliation failed: cancel, wait for the background goroutines and delete
\* the owner.  The last two are DeleteJobOwner's guard and step below.
ReconcileFails(e) ==
    /\ phase[e] = "reconciling"
    /\ Fault("reconcile")
    /\ rootDone' = rootDone \cup {e}
    /\ phase' = [phase EXCEPT ![e] = "draining"]
    /\ UNCHANGED <<dbVars, background, admitted, toCancel, limitVars, workerVars>>

-----------------------------------------------------------------------------
(* Submit                                                                  *)

\* The admission check under mu.
Admit(e, j) ==
    /\ phase[e] = "open"
    /\ e \notin rootDone
    /\ admittedCount[e] < MaxAdmittedJobs
    /\ pc[j] = "none"
    /\ admittedCount' = [admittedCount EXCEPT ![e] = @ + 1]
    /\ pc' = [pc EXCEPT ![j] = "creating"]
    /\ home' = [home EXCEPT ![j] = e]
    /\ UNCHANGED <<dbVars, executorVars, slotsUsed, next, ctxDone, localCancel, faults>>

\* CreateJobAs: the foreign key requires the owner row.
QueuedRow(e) == [status |-> "queued", cols |-> {}, owner |-> e]
CreateJobAs(j) ==
    /\ pc[j] = "creating"
    /\ owners[home[j]] # "absent"
    /\ rows' = [rows EXCEPT ![j] = QueuedRow(home[j])]
    /\ pc' = [pc EXCEPT ![j] = "created"]
    /\ UNCHANGED <<owners, executorVars, limitVars, home, next, ctxDone, localCancel, faults>>

\* CreateJobAs fails: the owner row is gone, or the INSERT failed.
CreateJobFails(j) ==
    /\ pc[j] = "creating"
    /\ \/ owners[home[j]] = "absent" /\ UNCHANGED faults
       \/ Fault("create")
    /\ pc' = [pc EXCEPT ![j] = "done"]
    /\ ReleaseAdmission(home[j])
    /\ UNCHANGED <<dbVars, executorVars, slotsUsed, home, next, ctxDone, localCancel>>

\* CreateJobAs inserts the row, and the GetJob that follows fails: Submit
\* returns the error and starts no goroutine for the row.
CreateJobReadFails(j) ==
    /\ pc[j] = "creating"
    /\ owners[home[j]] # "absent"
    /\ Fault("create_read")
    /\ rows' = [rows EXCEPT ![j] = QueuedRow(home[j])]
    /\ pc' = [pc EXCEPT ![j] = "done"]
    /\ ReleaseAdmission(home[j])
    /\ UNCHANGED <<owners, executorVars, slotsUsed, home, next, ctxDone, localCancel>>

\* Registers the cancel function under mu and starts run.
StartGoroutine(j) ==
    /\ pc[j] = "created"
    /\ pc' = [pc EXCEPT ![j] = "acquiring"]
    /\ admitted' = [admitted EXCEPT ![home[j]] = @ \cup {j}]
    /\ UNCHANGED <<dbVars, phase, rootDone, background, toCancel, limitVars,
                   home, next, ctxDone, localCancel, faults>>

-----------------------------------------------------------------------------
(* run: the goroutine of one job                                           *)

\* slots.Acquire succeeds only if jobCtx is not done when it returns.
AcquireSlot(j) ==
    /\ pc[j] = "acquiring"
    /\ ~CtxDone(j)
    /\ SlotFree(home[j])
    /\ slotsUsed' = [slotsUsed EXCEPT ![home[j]] = @ + 1]
    /\ pc' = [pc EXCEPT ![j] = "holding"]
    /\ UNCHANGED <<dbVars, executorVars, admittedCount, home, next, ctxDone,
                   localCancel, faults>>

\* slots.Acquire fails because jobCtx is done.  Only when rootCtx is done too
\* does run record the cancellation.
AcquireFails(j) ==
    /\ pc[j] = "acquiring"
    /\ CtxDone(j)
    /\ \/ /\ home[j] \in rootDone
          /\ rows' = TransitionJob(j, QueuedToCancelled)
          /\ UNCHANGED faults
       \/ home[j] \in rootDone /\ Fault("write") /\ UNCHANGED rows
       \/ home[j] \notin rootDone /\ UNCHANGED <<rows, faults>>
    /\ pc' = [pc EXCEPT ![j] = "unwinding"]
    /\ UNCHANGED <<owners, executorVars, limitVars, home, next, ctxDone, localCancel>>

\* The closed check under mu, after the slot was acquired.
CheckClosed(j) ==
    /\ pc[j] = "holding"
    /\ \/ ~Closed(home[j]) /\ pc' = [pc EXCEPT ![j] = "starting"] /\ UNCHANGED <<rows, faults>>
       \/ /\ Closed(home[j])
          /\ pc' = [pc EXCEPT ![j] = "releasing"]
          /\ \/ rows' = TransitionJob(j, QueuedToCancelled) /\ UNCHANGED faults
             \/ Fault("write") /\ UNCHANGED rows
    /\ UNCHANGED <<owners, executorVars, limitVars, home, next, ctxDone, localCancel>>

\* StartJobAs(jobCtx) claims the row.
StartJobAs(j) ==
    /\ pc[j] = "starting"
    /\ CanStart(rows[j], home[j])
    /\ ~CtxDone(j)
    /\ rows' = [rows EXCEPT ![j] = StartedRow(@, home[j])]
    /\ pc' = [pc EXCEPT ![j] = "body"]
    /\ UNCHANGED <<owners, executorVars, limitVars, home, next, ctxDone, localCancel, faults>>

\* StartJobAs(jobCtx) returns an error: the row cannot be claimed, jobCtx is
\* done, or the call failed - before or after the claim was committed.
StartJobFails(j) ==
    /\ pc[j] = "starting"
    /\ \/ ~CanStart(rows[j], home[j]) /\ UNCHANGED <<rows, faults>>
       \/ CtxDone(j) /\ UNCHANGED <<rows, faults>>
       \/ Fault("start") /\ UNCHANGED rows
       \/ /\ CanStart(rows[j], home[j])
          /\ Fault("start_late")
          /\ rows' = [rows EXCEPT ![j] = StartedRow(@, home[j])]
    /\ pc' = [pc EXCEPT ![j] = "startFailed"]
    /\ UNCHANGED <<owners, executorVars, limitVars, home, next, ctxDone, localCancel>>

\* GetJob after the failed start chooses the transition to record.
ReadAfterStartFailure(j) ==
    /\ pc[j] = "startFailed"
    /\ \/ /\ rows[j].status \in Terminal
          /\ pc' = [pc EXCEPT ![j] = "releasing"]
          /\ UNCHANGED <<next, faults>>
       \/ /\ rows[j].status \in {"queued", "running"}
          /\ pc' = [pc EXCEPT ![j] = "recordingFailure"]
          /\ next' = [next EXCEPT ![j] = IF rows[j].status = "queued"
                                         THEN QueuedToFailed ELSE RunningToFailed]
          /\ UNCHANGED faults
       \/ /\ Fault("read")
          /\ pc' = [pc EXCEPT ![j] = "recordingFailure"]
          /\ next' = [next EXCEPT ![j] = QueuedToFailed]
    /\ UNCHANGED <<dbVars, executorVars, limitVars, home, ctxDone, localCancel>>

\* The best-effort TransitionJob of the start-failure path: its error is dropped.
RecordStartFailure(j) ==
    /\ pc[j] = "recordingFailure"
    /\ \/ rows' = TransitionJob(j, next[j]) /\ UNCHANGED faults
       \/ Fault("write") /\ UNCHANGED rows
    /\ pc' = [pc EXCEPT ![j] = "releasing"]
    /\ UNCHANGED <<owners, executorVars, limitVars, home, next, ctxDone, localCancel>>

\* fn returns a result that json.Marshal accepts (next is RunningToSucceeded),
\* or an error or an unusable result (RunningToFailed).
BodyReturns(j) ==
    /\ pc[j] = "body"
    /\ pc' = [pc EXCEPT ![j] = "returned"]
    /\ \E t \in {RunningToSucceeded, RunningToFailed} : next' = [next EXCEPT ![j] = t]
    /\ UNCHANGED <<dbVars, executorVars, limitVars, home, ctxDone, localCancel, faults>>

\* GetJob after execution, and the choice of the outcome.
ChooseOutcome(j) ==
    /\ pc[j] = "returned"
    /\ pc' = [pc EXCEPT ![j] = "finishing"]
    /\ \/ /\ next' = [next EXCEPT ![j] = IF CancellationRequested(rows[j]) \/ CtxDone(j)
                                         THEN RunningToCancelled ELSE @]
          /\ UNCHANGED faults
       \/ Fault("read") /\ next' = [next EXCEPT ![j] = RunningToFailed]
    /\ UNCHANGED <<dbVars, executorVars, limitVars, home, ctxDone, localCancel>>

\* finishJob: the transition is written ...
FinishJob(j) ==
    /\ pc[j] = "finishing"
    /\ TransitionApplies(rows[j], next[j])
    /\ rows' = TransitionJob(j, next[j])
    /\ pc' = [pc EXCEPT ![j] = "releasing"]
    /\ UNCHANGED <<owners, executorVars, limitVars, home, next, ctxDone, localCancel, faults>>

\* ... or refused with ErrJobCancelled ...
FinishFindsCancellation(j) ==
    /\ pc[j] = "finishing"
    /\ rows[j].status = next[j].from
    /\ ~TransitionApplies(rows[j], next[j])
    /\ pc' = [pc EXCEPT ![j] = "finishingCancelled"]
    /\ UNCHANGED <<dbVars, executorVars, limitVars, home, next, ctxDone, localCancel, faults>>

\* ... or fails otherwise: somebody else ended the job, or the call failed before
\* or after its commit.  run then tries to record a success as a failure.
FinishFails(j) ==
    /\ pc[j] = "finishing"
    /\ \/ rows[j].status # next[j].from /\ UNCHANGED <<rows, faults>>
       \/ Fault("write") /\ UNCHANGED rows
       \/ Fault("write_late") /\ rows' = TransitionJob(j, next[j])
    /\ \/ /\ next[j] = RunningToSucceeded
          /\ next' = [next EXCEPT ![j] = RunningToFailed]
          /\ UNCHANGED pc
       \/ /\ next[j] # RunningToSucceeded
          /\ pc' = [pc EXCEPT ![j] = "releasing"]
          /\ UNCHANGED next
    /\ UNCHANGED <<owners, executorVars, limitVars, home, ctxDone, localCancel>>

\* The second TransitionJob of finishJob.
FinishCancelled(j) ==
    /\ pc[j] = "finishingCancelled"
    /\ \/ rows' = TransitionJob(j, RunningToCancelled) /\ UNCHANGED faults
       \/ Fault("write") /\ UNCHANGED rows
    /\ pc' = [pc EXCEPT ![j] = "releasing"]
    /\ UNCHANGED <<owners, executorVars, limitVars, home, next, ctxDone, localCancel>>

\* The deferred calls of run, in their order: slots.Release ...
ReleaseSlot(j) ==
    /\ pc[j] = "releasing"
    /\ slotsUsed' = [slotsUsed EXCEPT ![home[j]] = @ - 1]
    /\ pc' = [pc EXCEPT ![j] = "unwinding"]
    /\ UNCHANGED <<dbVars, executorVars, admittedCount, home, next, ctxDone,
                   localCancel, faults>>

\* ... then delete(admitted, id), cancel and releaseAdmission.  The context and
\* the local variables of the goroutine are gone with it.
Unwind(j) ==
    /\ pc[j] = "unwinding"
    /\ pc' = [pc EXCEPT ![j] = "done"]
    /\ admitted' = [admitted EXCEPT ![home[j]] = @ \ {j}]
    /\ ctxDone' = ctxDone \ {j}
    /\ next' = [next EXCEPT ![j] = RunningToFailed]
    /\ ReleaseAdmission(home[j])
    /\ UNCHANGED <<dbVars, phase, rootDone, background, toCancel, slotsUsed,
                   home, localCancel, faults>>

-----------------------------------------------------------------------------
(* Cancel                                                                  *)

\* Cancel called in the process of e: RequestJobCancellation persists the
\* request; the in-process cancel function is called afterwards.  Cancel does
\* not look at closed: its caller may hold the executor since before Close.
RequestJobCancellation(e, j) ==
    /\ phase[e] = "open" \/ Closed(e)
    /\ rows[j].status \in {"queued", "running"}
    /\ rows' = [rows EXCEPT ![j] = CancelRequestedRow(@)]
    /\ localCancel' = IF home[j] = e THEN localCancel \cup {j} ELSE localCancel
    /\ UNCHANGED <<owners, executorVars, limitVars, pc, home, next, ctxDone, faults>>

CancelAdmitted(j) ==
    /\ j \in localCancel
    /\ localCancel' = localCancel \ {j}
    /\ Cancel({j} \cap admitted[home[j]])
    /\ UNCHANGED <<dbVars, executorVars, limitVars, pc, home, next, faults>>

-----------------------------------------------------------------------------
(* The background goroutines                                               *)

\* heartbeat: refreshes the owner row, or cancels rootCtx when it is gone.
HeartbeatJobOwner(e) ==
    /\ e \in background
    /\ e \notin rootDone
    /\ owners[e] = "stale"
    /\ owners' = [owners EXCEPT ![e] = "fresh"]
    /\ UNCHANGED <<rows, executorVars, limitVars, workerVars, faults>>

HeartbeatLosesOwner(e) ==
    /\ e \in background
    /\ e \notin rootDone
    /\ owners[e] = "absent"
    /\ rootDone' = rootDone \cup {e}
    /\ UNCHANGED <<dbVars, phase, background, admitted, toCancel, limitVars, workerVars, faults>>

\* watchCancellations: cancels the admitted jobs that StoppedJobIDs returns.
\* A stopped job stays stopped, so the snapshot of admitted and the query that
\* follows it are one step.
WatchCancellations(e) ==
    /\ e \in background
    /\ e \notin rootDone
    /\ LET stopped == {j \in admitted[e] : Stopped(rows[j])}
       IN /\ ~(stopped \subseteq ctxDone)
          /\ Cancel(stopped)
    /\ UNCHANGED <<dbVars, executorVars, limitVars, pc, home, next, localCancel, faults>>

\* Both goroutines return once rootCtx is done: backgroundWG.Wait returns.
BackgroundReturns(e) ==
    /\ e \in rootDone
    /\ e \in background
    /\ background' = background \ {e}
    /\ UNCHANGED <<dbVars, phase, rootDone, admitted, toCancel, limitVars, workerVars, faults>>

-----------------------------------------------------------------------------
(* Close                                                                   *)

\* Service.Close cancels the lifecycle context, the parent of rootCtx, before
\* it calls JobExecutor.Close.
CancelLifecycle(e) ==
    /\ ServiceClose
    /\ phase[e] = "open"
    /\ e \notin rootDone
    /\ rootDone' = rootDone \cup {e}
    /\ UNCHANGED <<dbVars, phase, background, admitted, toCancel, limitVars, workerVars, faults>>

\* Close sets closed and copies the cancel functions under mu ...
CloseBegins(e) ==
    /\ phase[e] = "open"
    /\ ServiceClose => e \in rootDone
    /\ phase' = [phase EXCEPT ![e] = "closing"]
    /\ toCancel' = [toCancel EXCEPT ![e] = admitted[e]]
    /\ UNCHANGED <<dbVars, rootDone, background, admitted, limitVars, workerVars, faults>>

\* ... calls them one by one ...
CloseCancelsJob(e) ==
    /\ phase[e] = "closing"
    /\ \E j \in toCancel[e] :
         /\ Cancel({j})
         /\ toCancel' = [toCancel EXCEPT ![e] = @ \ {j}]
    /\ UNCHANGED <<dbVars, phase, rootDone, background, admitted, limitVars,
                   pc, home, next, localCancel, faults>>

\* ... and then cancels rootCtx.
CloseCancelsRoot(e) ==
    /\ phase[e] = "closing"
    /\ toCancel[e] = {}
    /\ rootDone' = rootDone \cup {e}
    /\ phase' = [phase EXCEPT ![e] = "draining"]
    /\ UNCHANGED <<dbVars, background, admitted, toCancel, limitVars, workerVars, faults>>

\* Close waits for admittedCount = 0 and for backgroundWG, and deletes the owner.
DeleteJobOwner(e) ==
    /\ phase[e] = "draining"
    /\ admittedCount[e] = 0
    /\ e \notin background
    /\ phase' = [phase EXCEPT ![e] = "closed"]
    /\ \/ /\ owners' = WithoutOwners({e})
          /\ rows' = DisownedRows(rows, {e})
          /\ UNCHANGED faults
       \/ Fault("delete") /\ UNCHANGED dbVars
    /\ UNCHANGED <<rootDone, background, admitted, toCancel, limitVars, workerVars>>

-----------------------------------------------------------------------------
(* The environment                                                         *)

\* More than leaseTimeout has passed since the last heartbeat of e.  Only an
\* executor that has yet to reconcile will look at it.
LeaseExpires(e) ==
    /\ owners[e] = "fresh"
    /\ \E f \in Executors : phase[f] \in {"new", "reconciling"}
    /\ owners' = [owners EXCEPT ![e] = "stale"]
    /\ UNCHANGED <<rows, executorVars, limitVars, workerVars, faults>>

\* The process of e is killed: its goroutines are gone, the tables stay.
Crash(e) ==
    /\ Alive(e)
    /\ phase' = [phase EXCEPT ![e] = "crashed"]
    /\ background' = background \ {e}
    /\ pc' = [j \in JobIds |-> IF home[j] = e THEN "done" ELSE pc[j]]
    /\ admitted' = [admitted EXCEPT ![e] = {}]
    /\ toCancel' = [toCancel EXCEPT ![e] = {}]
    /\ admittedCount' = [admittedCount EXCEPT ![e] = 0]
    /\ slotsUsed' = [slotsUsed EXCEPT ![e] = 0]
    /\ rootDone' = rootDone \ {e}
    /\ ctxDone' = {j \in ctxDone : home[j] # e}
    /\ localCancel' = {j \in localCancel : home[j] # e}
    /\ next' = [j \in JobIds |-> IF home[j] = e THEN RunningToFailed ELSE next[j]]
    /\ UNCHANGED <<dbVars, home, faults>>

-----------------------------------------------------------------------------
JobStep(j) ==
    \/ CreateJobAs(j) \/ CreateJobFails(j) \/ CreateJobReadFails(j) \/ StartGoroutine(j)
    \/ AcquireSlot(j) \/ AcquireFails(j) \/ CheckClosed(j)
    \/ StartJobAs(j) \/ StartJobFails(j) \/ ReadAfterStartFailure(j) \/ RecordStartFailure(j)
    \/ ChooseOutcome(j) \/ FinishJob(j) \/ FinishFindsCancellation(j)
    \/ FinishFails(j) \/ FinishCancelled(j)
    \/ ReleaseSlot(j) \/ Unwind(j)

\* The steps of the goroutines of an executor; each can be taken only finitely
\* often, so fairness to the disjunction is fairness to each.
ExecutorStep(e) ==
    \/ Reconcile(e) \/ HeartbeatLosesOwner(e)
    \/ WatchCancellations(e) \/ BackgroundReturns(e)
    \/ CloseCancelsJob(e) \/ CloseCancelsRoot(e) \/ DeleteJobOwner(e)

Next ==
    \/ \E j \in JobIds : JobStep(j) \/ BodyReturns(j) \/ CancelAdmitted(j)
    \/ \E e \in Executors : \/ RegisterJobOwner(e) \/ ReconcileFails(e)
                            \/ ExecutorStep(e) \/ HeartbeatJobOwner(e)
                            \/ CancelLifecycle(e) \/ CloseBegins(e)
                            \/ LeaseExpires(e) \/ Crash(e)
    \/ \E e \in Executors, j \in JobIds : Admit(e, j) \/ RequestJobCancellation(e, j)

Spec == Init /\ [][Next]_vars

\* Every goroutine keeps running, every background loop keeps ticking and Close
\* keeps going; a job function returns once its context is done.  Nobody is
\* obliged to submit, cancel, close or start an executor, and a job function
\* that is not cancelled may run for ever.
Fairness ==
    /\ \A j \in JobIds : /\ WF_vars(JobStep(j))
                         /\ WF_vars(CancelAdmitted(j))
                         /\ WF_vars(CtxDone(j) /\ BodyReturns(j))
    /\ \A e \in Executors : WF_vars(ExecutorStep(e))

FairSpec == Spec /\ Fairness

-----------------------------------------------------------------------------
(* Invariants                                                              *)

WorkerPC == {"none", "creating", "created", "acquiring", "holding", "starting",
             "startFailed", "recordingFailure", "body", "returned", "finishing",
             "finishingCancelled", "releasing", "unwinding", "done"}
\* The states in which run holds a slot, and those counted in admittedCount.
HoldsSlot == {"holding", "starting", "startFailed", "recordingFailure", "body",
              "returned", "finishing", "finishingCancelled", "releasing"}
Counted == HoldsSlot \cup {"creating", "created", "acquiring", "unwinding"}

TypeOK ==
    /\ rows \in [JobIds -> Row]
    /\ owners \in [Executors -> {"absent", "fresh", "stale"}]
    /\ phase \in [Executors -> {"new", "reconciling", "open", "closing", "draining",
                                "closed", "crashed"}]
    /\ rootDone \subseteq Executors
    /\ background \subseteq Executors
    /\ admitted \in [Executors -> SUBSET JobIds]
    /\ admittedCount \in [Executors -> Nat]
    /\ slotsUsed \in [Executors -> Nat]
    /\ toCancel \in [Executors -> SUBSET JobIds]
    /\ pc \in [JobIds -> WorkerPC]
    /\ home \in [JobIds -> Executors \cup {NoOwner}]
    /\ next \in [JobIds -> JobTransition]
    /\ ctxDone \subseteq JobIds
    /\ localCancel \subseteq JobIds
    /\ faults \in 0..MaxFaults

\* Whatever the writers of the row did - the worker, a cancelling process, a
\* reconciling one - the stored row is one parseJobState accepts, so GetJob
\* never fails on it (models.go parseJobState).  In particular a job whose
\* cancellation was requested never ends succeeded or failed.
RowsParse == \A j \in JobIds : ParsesAsJobState(rows[j])

\* The executor's two limits: jobs holding a slot, and jobs admitted but not
\* yet unwound, on every path through Submit and run (job_executor.go).
WorkersIn(e, S) == {j \in JobIds : home[j] = e /\ pc[j] \in S}
LimitsHold ==
    \A e \in Executors :
        /\ Cardinality(WorkersIn(e, HoldsSlot)) <= MaxConcurrentJobs
        /\ Cardinality(WorkersIn(e, Counted)) <= MaxAdmittedJobs

\* The function of a job only runs for a claimed row: either the row still says
\* running under this executor, or somebody else ended it (StartJobAs and
\* ReconcileInterruptedJobs) and the worker can no longer change it.
BodyOwnsRow ==
    \A j \in JobIds : pc[j] = "body" =>
        \/ rows[j].status = "running" /\ rows[j].owner = home[j]
        \/ rows[j].status \in Terminal

\* A job in progress always has somebody to end it: the goroutine that runs it,
\* or, when its process was killed, the reconciliation of a later executor.
\* Neither Close nor a lost owner leaves a queued or running row behind.
HomeCrashed(j) == \E e \in Executors : home[j] = e /\ phase[e] = "crashed"
NoAbandonedRow ==
    \A j \in JobIds : rows[j].status \in {"queued", "running"} =>
        pc[j] \in Counted \/ HomeCrashed(j)

-----------------------------------------------------------------------------
(* Action properties                                                       *)

\* docs/architecture.md: "Terminal states do not transition again".  The
\* worker of a job that another process ended may still be running.
TerminalIsFinal ==
    [][\A j \in JobIds : rows[j].status \in Terminal =>
           /\ rows'[j].status = rows[j].status
           /\ rows'[j].cols = rows[j].cols]_vars

\* docs/architecture.md: a new executor "must never fail jobs owned by another
\* live process".  If a step other than the job's own goroutine fails a job
\* that has a goroutine, the lease of that goroutine's executor had expired.
LiveWorkIsNotFailed ==
    [][\A j \in JobIds :
           /\ rows[j].status # "failed" /\ rows'[j].status = "failed"
           /\ pc[j] \in Counted /\ pc'[j] = pc[j]
           => owners[home[j]] = "stale"]_vars

\* The job records implement the abstract life of a job.
JobView == [j \in JobIds |-> [status |-> rows[j].status,
                              asked |-> CancellationRequested(rows[j])]]
Lifecycle == INSTANCE JobLifecycle WITH job <- JobView
ImplementsLifecycle == Lifecycle!Spec

-----------------------------------------------------------------------------
(* Liveness                                                                *)

\* A cancellation, or a reconciliation, recorded by any process stops the
\* function of the job (watchCancellations), unless its process is killed.
StoppedBodyReturns ==
    \A j \in JobIds : 
        /\ pc[j] = "body"
        /\ rows[j].status \in Terminal \/ CancellationRequested(rows[j])
        ~> pc[j] # "body"

\* A requested cancellation ends as the terminal state cancelled, as long as the
\* process that runs the job lives.
CancellationSettles ==
    \A j \in JobIds : CancellationRequested(rows[j]) ~>
        rows[j].status = "cancelled" \/ HomeCrashed(j)

\* Close returns: nothing it waits for waits for it.
CloseReturns ==
    \A e \in Executors : phase[e] \in {"closing", "draining"} ~>
        phase[e] \in {"closed", "crashed"}
=============================================================================

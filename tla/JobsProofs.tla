----------------------------- MODULE JobsProofs -----------------------------
(***************************************************************************)
(* Proofs about Jobs, for any number of executors and jobs, any limits and *)
(* any number of failing database calls.                                   *)
(***************************************************************************)
EXTENDS Jobs, FiniteSetTheorems, TLAPS

-----------------------------------------------------------------------------
(* The row operators: their types, and what they keep parseable.           *)

LEMMA JobTransitionFields ==
    ASSUME NEW t \in JobTransition
    PROVE  t.from \in {"queued", "running"} /\ t.to \in Terminal
BY DEF JobTransition, QueuedToCancelled, QueuedToFailed, RunningToSucceeded,
       RunningToFailed, RunningToCancelled, Terminal

LEMMA RowOperatorTypes ==
    ASSUME NEW r \in Row
    PROVE  /\ \A e \in Executors : StartedRow(r, e) \in Row /\ QueuedRow(e) \in Row
           /\ \A t \in JobTransition : TransitionedRow(r, t) \in Row
           /\ CancelRequestedRow(r) \in Row
           /\ ReconciledRow(r) \in Row
           /\ [r EXCEPT !.owner = NoOwner] \in Row
<1>1. ASSUME NEW e \in Executors
      PROVE  StartedRow(r, e) \in Row /\ QueuedRow(e) \in Row
  BY DEF StartedRow, QueuedRow, Row, Status, Columns
<1>2. ASSUME NEW t \in JobTransition
      PROVE  TransitionedRow(r, t) \in Row
  BY JobTransitionFields DEF TransitionedRow, Row, Status, Columns
<1>3. CancelRequestedRow(r) \in Row
  BY DEF CancelRequestedRow, Row, Status, Terminal, Columns
<1>4. ReconciledRow(r) \in Row
  BY DEF ReconciledRow, Row, Status, Terminal, Columns
<1>5. [r EXCEPT !.owner = NoOwner] \in Row
  BY DEF Row
<1> QED BY <1>1, <1>2, <1>3, <1>4, <1>5

LEMMA RowOperatorsParse ==
    ASSUME NEW r \in Row, ParsesAsJobState(r)
    PROVE  /\ \A e \in Executors : /\ CanStart(r, e) => ParsesAsJobState(StartedRow(r, e))
                                 /\ ParsesAsJobState(QueuedRow(e))
           /\ \A t \in JobTransition :
                TransitionApplies(r, t) => ParsesAsJobState(TransitionedRow(r, t))
           /\ r.status \in {"queued", "running"} => ParsesAsJobState(CancelRequestedRow(r))
           /\ r.status \in {"queued", "running"} => ParsesAsJobState(ReconciledRow(r))
           /\ ParsesAsJobState([r EXCEPT !.owner = NoOwner])
<1> USE DEF ParsesAsJobState, Row, Columns
<1>1. ASSUME NEW e \in Executors
      PROVE  /\ CanStart(r, e) => ParsesAsJobState(StartedRow(r, e))
             /\ ParsesAsJobState(QueuedRow(e))
  BY DEF CanStart, StartedRow, QueuedRow
<1>2. ASSUME NEW t \in JobTransition
      PROVE  TransitionApplies(r, t) => ParsesAsJobState(TransitionedRow(r, t))
  BY JobTransitionFields DEF TransitionApplies, TransitionedRow, CancellationRequested, Terminal
<1>3. r.status \in {"queued", "running"} => ParsesAsJobState(CancelRequestedRow(r))
  BY DEF CancelRequestedRow
<1>4. r.status \in {"queued", "running"} => ParsesAsJobState(ReconciledRow(r))
  BY DEF ReconciledRow, CancellationRequested
<1>5. ParsesAsJobState([r EXCEPT !.owner = NoOwner])
  OBVIOUS
<1> QED BY <1>1, <1>2, <1>3, <1>4, <1>5

-----------------------------------------------------------------------------
(* The counters: admittedCount counts the jobs between the admission check *)
(* and releaseAdmission, slotsUsed those that hold a slot.                 *)

\* Only a job that was submitted has an executor.
HomesKnown == \A j \in JobIds : pc[j] # "none" => home[j] \in Executors

Counts ==
    \A e \in Executors :
        /\ admittedCount[e] = Cardinality(WorkersIn(e, Counted))
        /\ slotsUsed[e] = Cardinality(WorkersIn(e, HoldsSlot))
        /\ admittedCount[e] <= MaxAdmittedJobs
        /\ slotsUsed[e] <= MaxConcurrentJobs

CountInv == TypeOK /\ HomesKnown /\ Counts

LEMMA WorkersAreFinite ==
    ASSUME NEW e, NEW S
    PROVE  IsFiniteSet(WorkersIn(e, S)) /\ Cardinality(WorkersIn(e, S)) \in Nat
BY JobIdsAssumption, FS_Subset, FS_CardinalityType DEF WorkersIn

LEMMA WorkersFinitePrime ==
    ASSUME NEW e, NEW S
    PROVE  IsFiniteSet(WorkersIn(e, S)') /\ Cardinality(WorkersIn(e, S)') \in Nat
BY JobIdsAssumption, FS_Subset, FS_CardinalityType DEF WorkersIn

\* One job moves from one place of its code to another: what becomes of the
\* number of its executor's jobs that stand in S.
LEMMA CountOfMove ==
    ASSUME TypeOK, NEW S, NEW j \in JobIds, NEW v, home' = home,
           pc' = [pc EXCEPT ![j] = v], NEW e \in Executors
    PROVE  Cardinality(WorkersIn(e, S)') =
             IF home[j] = e /\ pc[j] \notin S /\ v \in S
             THEN Cardinality(WorkersIn(e, S)) + 1
             ELSE IF home[j] = e /\ pc[j] \in S /\ v \notin S
             THEN Cardinality(WorkersIn(e, S)) - 1
             ELSE Cardinality(WorkersIn(e, S))
<1> DEFINE W == WorkersIn(e, S)
<1>1. IsFiniteSet(W) /\ Cardinality(W) \in Nat
  BY WorkersAreFinite
<1>2. CASE home[j] = e /\ pc[j] \notin S /\ v \in S
  <2>1. W' = W \cup {j} /\ j \notin W
    BY <1>2 DEF WorkersIn, TypeOK
  <2>2. Cardinality(W') = Cardinality(W) + 1
    BY <1>1, <2>1, FS_AddElement
  <2> QED BY <1>2, <2>2
<1>3. CASE home[j] = e /\ pc[j] \in S /\ v \notin S
  <2>1. W' = W \ {j} /\ j \in W
    BY <1>3 DEF WorkersIn, TypeOK
  <2>2. Cardinality(W') = Cardinality(W) - 1
    BY <1>1, <2>1, FS_RemoveElement
  <2> QED BY <1>3, <2>2
<1>4. CASE /\ ~(home[j] = e /\ pc[j] \notin S /\ v \in S)
           /\ ~(home[j] = e /\ pc[j] \in S /\ v \notin S)
  <2>1. W' = W
    BY <1>4 DEF WorkersIn, TypeOK
  <2> QED BY <1>4, <2>1
<1> QED BY <1>2, <1>3, <1>4

LEMMA CountersOfMove ==
    ASSUME TypeOK, NEW j \in JobIds, NEW v, home' = home,
           pc' = [pc EXCEPT ![j] = v], NEW e \in Executors
    PROVE  /\ Cardinality(WorkersIn(e, Counted)') =
                IF home[j] = e /\ pc[j] \notin Counted /\ v \in Counted
                THEN Cardinality(WorkersIn(e, Counted)) + 1
                ELSE IF home[j] = e /\ pc[j] \in Counted /\ v \notin Counted
                THEN Cardinality(WorkersIn(e, Counted)) - 1
                ELSE Cardinality(WorkersIn(e, Counted))
           /\ Cardinality(WorkersIn(e, HoldsSlot)') =
                IF home[j] = e /\ pc[j] \notin HoldsSlot /\ v \in HoldsSlot
                THEN Cardinality(WorkersIn(e, HoldsSlot)) + 1
                ELSE IF home[j] = e /\ pc[j] \in HoldsSlot /\ v \notin HoldsSlot
                THEN Cardinality(WorkersIn(e, HoldsSlot)) - 1
                ELSE Cardinality(WorkersIn(e, HoldsSlot))
BY CountOfMove

\* A step that moves one job without touching the counters keeps the counts when
\* the job neither enters nor leaves Counted and HoldsSlot.
LEMMA CountsKept ==
    ASSUME TypeOK, Counts, NEW j \in JobIds, NEW v, home' = home,
           pc' = [pc EXCEPT ![j] = v], UNCHANGED limitVars,
           pc[j] \in Counted <=> v \in Counted, pc[j] \in HoldsSlot <=> v \in HoldsSlot
    PROVE  Counts'
<1>1. ASSUME NEW e \in Executors
      PROVE  /\ Cardinality(WorkersIn(e, Counted)') = Cardinality(WorkersIn(e, Counted))
             /\ Cardinality(WorkersIn(e, HoldsSlot)') = Cardinality(WorkersIn(e, HoldsSlot))
  BY CountersOfMove
<1> QED BY <1>1 DEF Counts, limitVars, Counted, HoldsSlot

-----------------------------------------------------------------------------
(* Types and counters are inductive together: a counter stays a natural    *)
(* number because it is the size of a set.                                 *)

\* The tables stay well typed under every statement.
LEMMA TableTypes ==
    ASSUME TypeOK
    PROVE  /\ \A j \in JobIds, t \in JobTransition : TransitionJob(j, t) \in [JobIds -> Row]
           /\ \A j \in JobIds, e \in Executors :
                /\ [rows EXCEPT ![j] = QueuedRow(e)] \in [JobIds -> Row]
                /\ [rows EXCEPT ![j] = StartedRow(rows[j], e)] \in [JobIds -> Row]
           /\ \A j \in JobIds : [rows EXCEPT ![j] = CancelRequestedRow(rows[j])] \in [JobIds -> Row]
           /\ ReconcileInterruptedJobs \in [JobIds -> Row]
           /\ \A S \in SUBSET Executors :
                /\ DisownedRows(rows, S) \in [JobIds -> Row]
                /\ WithoutOwners(S) \in [Executors -> {"absent", "fresh", "stale"}]
<1>0. rows \in [JobIds -> Row]
  BY DEF TypeOK
<1>1. ASSUME NEW j \in JobIds, NEW t \in JobTransition
      PROVE  TransitionJob(j, t) \in [JobIds -> Row]
  BY <1>0, RowOperatorTypes DEF TransitionJob
<1>2. ASSUME NEW j \in JobIds, NEW e \in Executors
      PROVE  /\ [rows EXCEPT ![j] = QueuedRow(e)] \in [JobIds -> Row]
             /\ [rows EXCEPT ![j] = StartedRow(rows[j], e)] \in [JobIds -> Row]
  BY <1>0, RowOperatorTypes
<1>3. ASSUME NEW j \in JobIds
      PROVE  [rows EXCEPT ![j] = CancelRequestedRow(rows[j])] \in [JobIds -> Row]
  BY <1>0, RowOperatorTypes
<1>4. ASSUME NEW R \in [JobIds -> Row], NEW T \in SUBSET Executors
      PROVE  DisownedRows(R, T) \in [JobIds -> Row]
  BY RowOperatorTypes DEF DisownedRows
<1>5. [i \in JobIds |-> IF Interrupted(rows[i]) THEN ReconciledRow(rows[i]) ELSE rows[i]]
        \in [JobIds -> Row]
  BY <1>0, RowOperatorTypes
<1>6. ReconcileInterruptedJobs \in [JobIds -> Row]
  BY <1>4, <1>5 DEF ReconcileInterruptedJobs, StaleOwners
<1>7. ASSUME NEW S \in SUBSET Executors
      PROVE  WithoutOwners(S) \in [Executors -> {"absent", "fresh", "stale"}]
  BY DEF WithoutOwners, TypeOK
<1> QED BY <1>0, <1>1, <1>2, <1>3, <1>4, <1>6, <1>7

\* A failing call keeps the fault count within its bound.
LEMMA FaultType ==
    ASSUME TypeOK, NEW k, Fault(k)
    PROVE  faults' \in 0..MaxFaults
BY FaultsAssumption DEF Fault, TypeOK

\* What the steps of one job that touch no counter have in common: the job moves
\* within Counted and HoldsSlot, or not at all, and what is written is well typed.
QuietMove(j, v) ==
    /\ pc' = [pc EXCEPT ![j] = v]
    /\ pc[j] = "none" <=> v = "none"
    /\ pc[j] \in Counted <=> v \in Counted
    /\ pc[j] \in HoldsSlot <=> v \in HoldsSlot
QuietShape(j) ==
    /\ rows' \in [JobIds -> Row]
    /\ next' \in [JobIds -> JobTransition]
    /\ admitted' \in [Executors -> SUBSET JobIds]
    /\ ctxDone' \subseteq JobIds
    /\ localCancel' \subseteq JobIds
    /\ faults' \in 0..MaxFaults
    /\ UNCHANGED <<owners, phase, rootDone, background, toCancel, limitVars, home>>
    /\ \E v \in WorkerPC : QuietMove(j, v)

LEMMA QuietShapeKeepsCountInv ==
    ASSUME CountInv, NEW j \in JobIds, QuietShape(j)
    PROVE  CountInv'
<1>1. PICK v \in WorkerPC : QuietMove(j, v)
  BY DEF QuietShape
<1>2. TypeOK'
  BY <1>1 DEF CountInv, TypeOK, QuietShape, QuietMove, limitVars
<1>3. HomesKnown'
  BY <1>1 DEF CountInv, HomesKnown, TypeOK, QuietShape, QuietMove
<1>4. Counts'
  BY <1>1, CountsKept DEF CountInv, QuietShape, QuietMove
<1> QED BY <1>2, <1>3, <1>4 DEF CountInv

LEMMA QuietJobSteps ==
    ASSUME CountInv, NEW j \in JobIds,
           \/ CreateJobAs(j) \/ StartGoroutine(j) \/ AcquireFails(j)
           \/ CheckClosed(j) \/ StartJobAs(j) \/ StartJobFails(j)
           \/ ReadAfterStartFailure(j) \/ RecordStartFailure(j)
           \/ BodyReturns(j) \/ ChooseOutcome(j) \/ FinishJob(j)
           \/ FinishFindsCancellation(j) \/ FinishFails(j) \/ FinishCancelled(j)
           \/ CancelAdmitted(j)
    PROVE  QuietShape(j)
<1> USE DEF QuietShape, QuietMove, executorVars, dbVars
<1>h. pc[j] # "none" => home[j] \in Executors
  BY DEF CountInv, HomesKnown
<1>t. /\ rows \in [JobIds -> Row]
      /\ pc[j] # "none" => [rows EXCEPT ![j] = QueuedRow(home[j])] \in [JobIds -> Row]
      /\ pc[j] # "none" => [rows EXCEPT ![j] = StartedRow(rows[j], home[j])] \in [JobIds -> Row]
      /\ \A t \in JobTransition : TransitionJob(j, t) \in [JobIds -> Row]
  BY <1>h, TableTypes DEF CountInv, TypeOK
<1>n. /\ \A t \in JobTransition : [next EXCEPT ![j] = t] \in [JobIds -> JobTransition]
      /\ next \in [JobIds -> JobTransition] /\ next[j] \in JobTransition
      /\ {QueuedToCancelled, QueuedToFailed, RunningToSucceeded, RunningToFailed,
          RunningToCancelled} \subseteq JobTransition
  BY DEF CountInv, TypeOK, JobTransition
<1>f. /\ \A k : Fault(k) => faults' \in 0..MaxFaults
      /\ faults \in 0..MaxFaults
  BY FaultType DEF CountInv, TypeOK
<1>s. /\ admitted \in [Executors -> SUBSET JobIds]
      /\ ctxDone \subseteq JobIds /\ localCancel \subseteq JobIds
      /\ pc \in [JobIds -> WorkerPC]
  BY DEF CountInv, TypeOK
<1> USE DEF WorkerPC, Counted, HoldsSlot
<1>1. CASE CreateJobAs(j)
  BY <1>1, <1>t, <1>n, <1>f, <1>s DEF CreateJobAs
<1>2. CASE StartGoroutine(j)
  <2>1. admitted' \in [Executors -> SUBSET JobIds]
    BY <1>2, <1>s, <1>t DEF StartGoroutine
  <2> QED BY <1>2, <2>1, <1>t, <1>n, <1>f, <1>s DEF StartGoroutine
<1>3. CASE AcquireFails(j)
  <2>1. rows' \in [JobIds -> Row] /\ faults' \in 0..MaxFaults
    BY <1>3, <1>t, <1>n, <1>f DEF AcquireFails
  <2> QED BY <1>3, <2>1, <1>n, <1>s DEF AcquireFails
<1>4. CASE CheckClosed(j)
  <2>1. rows' \in [JobIds -> Row] /\ faults' \in 0..MaxFaults
    BY <1>4, <1>t, <1>n, <1>f DEF CheckClosed
  <2> QED BY <1>4, <2>1, <1>n, <1>s DEF CheckClosed
<1>5. CASE StartJobAs(j)
  BY <1>5, <1>t, <1>n, <1>f, <1>s DEF StartJobAs
<1>6. CASE StartJobFails(j)
  <2>1. rows' \in [JobIds -> Row] /\ faults' \in 0..MaxFaults
    BY <1>6, <1>t, <1>n, <1>f DEF StartJobFails
  <2> QED BY <1>6, <2>1, <1>n, <1>s DEF StartJobFails
<1>7. CASE ReadAfterStartFailure(j)
  <2>1. next' \in [JobIds -> JobTransition] /\ faults' \in 0..MaxFaults
    BY <1>7, <1>n, <1>f DEF ReadAfterStartFailure
  <2> QED BY <1>7, <2>1, <1>t, <1>s DEF ReadAfterStartFailure
<1>8. CASE RecordStartFailure(j)
  <2>1. rows' \in [JobIds -> Row] /\ faults' \in 0..MaxFaults
    BY <1>8, <1>t, <1>n, <1>f DEF RecordStartFailure
  <2> QED BY <1>8, <2>1, <1>n, <1>s DEF RecordStartFailure
<1>9. CASE BodyReturns(j)
  BY <1>9, <1>t, <1>n, <1>f, <1>s DEF BodyReturns
<1>10. CASE ChooseOutcome(j)
  <2>1. next' \in [JobIds -> JobTransition] /\ faults' \in 0..MaxFaults
    BY <1>10, <1>n, <1>f DEF ChooseOutcome
  <2> QED BY <1>10, <2>1, <1>t, <1>s DEF ChooseOutcome
<1>11. CASE FinishJob(j)
  BY <1>11, <1>t, <1>n, <1>f, <1>s DEF FinishJob
<1>12. CASE FinishFindsCancellation(j)
  BY <1>12, <1>t, <1>n, <1>f, <1>s DEF FinishFindsCancellation
<1>13. CASE FinishFails(j)
  <2>1. rows' \in [JobIds -> Row] /\ faults' \in 0..MaxFaults
    BY <1>13, <1>t, <1>n, <1>f DEF FinishFails
  <2>2. next' \in [JobIds -> JobTransition]
    BY <1>13, <1>n DEF FinishFails
  <2>3. pc' = [pc EXCEPT ![j] = "finishing"] \/ pc' = [pc EXCEPT ![j] = "releasing"]
    BY <1>13, <1>s DEF FinishFails
  <2> QED BY <1>13, <2>1, <2>2, <2>3, <1>s DEF FinishFails
<1>14. CASE FinishCancelled(j)
  <2>1. rows' \in [JobIds -> Row] /\ faults' \in 0..MaxFaults
    BY <1>14, <1>t, <1>n, <1>f DEF FinishCancelled
  <2> QED BY <1>14, <2>1, <1>n, <1>s DEF FinishCancelled
<1>15. CASE CancelAdmitted(j)
  <2>1. pc' = [pc EXCEPT ![j] = pc[j]]
    BY <1>15, <1>s DEF CancelAdmitted
  <2>2. ctxDone' \subseteq JobIds /\ localCancel' \subseteq JobIds
    BY <1>15, <1>s DEF CancelAdmitted, Cancel
  <2> QED BY <1>15, <2>1, <2>2, <1>t, <1>n, <1>f, <1>s DEF CancelAdmitted
<1> QED BY <1>1, <1>2, <1>3, <1>4, <1>5, <1>6, <1>7, <1>8, <1>9, <1>10, <1>11,
           <1>12, <1>13, <1>14, <1>15

\* The steps of an executor, of a cancelling caller and of the environment, short
\* of a crash: no job moves and no counter changes.
StillShape ==
    /\ rows' \in [JobIds -> Row]
    /\ owners' \in [Executors -> {"absent", "fresh", "stale"}]
    /\ phase' \in [Executors -> {"new", "reconciling", "open", "closing", "draining",
                                 "closed", "crashed"}]
    /\ rootDone' \subseteq Executors
    /\ background' \subseteq Executors
    /\ toCancel' \in [Executors -> SUBSET JobIds]
    /\ ctxDone' \subseteq JobIds
    /\ localCancel' \subseteq JobIds
    /\ faults' \in 0..MaxFaults
    /\ UNCHANGED <<admitted, limitVars, pc, home, next>>

LEMMA StillShapeKeepsCountInv ==
    ASSUME CountInv, StillShape
    PROVE  CountInv'
<1>1. TypeOK'
  BY DEF CountInv, TypeOK, StillShape, limitVars
<1>2. HomesKnown'
  BY DEF CountInv, HomesKnown, StillShape
<1>3. \A e, S : WorkersIn(e, S)' = {j \in JobIds : home'[j] = e /\ pc'[j] \in S'}
  BY DEF WorkersIn
<1>4. Counts'
  BY DEF CountInv, Counts, WorkersIn, StillShape, limitVars, Counted, HoldsSlot
<1> QED BY <1>1, <1>2, <1>4 DEF CountInv

LEMMA StillExecutorSteps ==
    ASSUME CountInv, NEW e \in Executors,
           \/ RegisterJobOwner(e) \/ ReconcileFails(e) \/ ExecutorStep(e)
           \/ HeartbeatJobOwner(e) \/ CancelLifecycle(e) \/ CloseBegins(e)
           \/ LeaseExpires(e) \/ (\E j \in JobIds : RequestJobCancellation(e, j))
    PROVE  StillShape
<1> USE DEF StillShape, executorVars, dbVars, workerVars
<1>t. TypeOK
  BY DEF CountInv
<1>r. /\ ReconcileInterruptedJobs \in [JobIds -> Row]
      /\ DisownedRows(rows, {e}) \in [JobIds -> Row]
      /\ WithoutOwners({e}) \in [Executors -> {"absent", "fresh", "stale"}]
      /\ WithoutOwners(StaleOwners) \in [Executors -> {"absent", "fresh", "stale"}]
  BY <1>t, TableTypes DEF StaleOwners
<1>f. \A k : Fault(k) => faults' \in 0..MaxFaults
  BY <1>t, FaultType
<1>1. CASE RegisterJobOwner(e)
  BY <1>1, <1>t DEF RegisterJobOwner, TypeOK
<1>2. CASE ReconcileFails(e)
  BY <1>2, <1>t, <1>f DEF ReconcileFails, TypeOK
<1>3. CASE Reconcile(e)
  BY <1>3, <1>t, <1>r DEF Reconcile, TypeOK
<1>4. CASE HeartbeatLosesOwner(e)
  BY <1>4, <1>t DEF HeartbeatLosesOwner, TypeOK
<1>5. CASE WatchCancellations(e)
  BY <1>5, <1>t DEF WatchCancellations, TypeOK, Cancel
<1>6. CASE BackgroundReturns(e)
  BY <1>6, <1>t DEF BackgroundReturns, TypeOK
<1>7. CASE CloseCancelsJob(e)
  BY <1>7, <1>t DEF CloseCancelsJob, TypeOK, Cancel
<1>8. CASE CloseCancelsRoot(e)
  BY <1>8, <1>t DEF CloseCancelsRoot, TypeOK
<1>9. CASE DeleteJobOwner(e)
  <2>1. rows' \in [JobIds -> Row] /\ owners' \in [Executors -> {"absent", "fresh", "stale"}]
    BY <1>9, <1>t, <1>r DEF DeleteJobOwner, TypeOK
  <2>2. faults' \in 0..MaxFaults
    BY <1>9, <1>t, <1>f DEF DeleteJobOwner, TypeOK
  <2> QED BY <1>9, <2>1, <2>2, <1>t DEF DeleteJobOwner, TypeOK
<1>10. CASE HeartbeatJobOwner(e)
  BY <1>10, <1>t DEF HeartbeatJobOwner, TypeOK
<1>11. CASE CancelLifecycle(e)
  BY <1>11, <1>t DEF CancelLifecycle, TypeOK
<1>12. CASE CloseBegins(e)
  BY <1>12, <1>t DEF CloseBegins, TypeOK
<1>13. CASE LeaseExpires(e)
  BY <1>13, <1>t DEF LeaseExpires, TypeOK
<1>14. ASSUME NEW j \in JobIds, RequestJobCancellation(e, j)
       PROVE  StillShape
  <2>1. rows' \in [JobIds -> Row]
    BY <1>14, <1>t, TableTypes DEF RequestJobCancellation
  <2>2. localCancel' \subseteq JobIds
    BY <1>14, <1>t DEF RequestJobCancellation, TypeOK
  <2> QED BY <1>14, <2>1, <2>2, <1>t DEF RequestJobCancellation, TypeOK
<1> QED BY <1>1, <1>2, <1>3, <1>4, <1>5, <1>6, <1>7, <1>8, <1>9, <1>10, <1>11,
           <1>12, <1>13, <1>14 DEF ExecutorStep

\* The steps that count a job in or out.
LEMMA CountingSteps ==
    ASSUME CountInv, NEW j \in JobIds,
           \/ CreateJobFails(j) \/ CreateJobReadFails(j) \/ AcquireSlot(j)
           \/ ReleaseSlot(j) \/ Unwind(j)
    PROVE  CountInv'
<1>t. TypeOK /\ HomesKnown /\ Counts
  BY DEF CountInv
<1>h. pc[j] # "none" => home[j] \in Executors
  BY <1>t DEF HomesKnown
<1>c. \A e \in Executors : /\ Cardinality(WorkersIn(e, Counted)) \in Nat
                          /\ Cardinality(WorkersIn(e, HoldsSlot)) \in Nat
                          /\ Cardinality(WorkersIn(e, Counted)') \in Nat
                          /\ Cardinality(WorkersIn(e, HoldsSlot)') \in Nat
  BY WorkersAreFinite, WorkersFinitePrime
<1>1. CASE CreateJobFails(j) \/ CreateJobReadFails(j)
  <2>1. /\ pc[j] = "creating" /\ pc' = [pc EXCEPT ![j] = "done"] /\ home' = home
        /\ admittedCount' = [admittedCount EXCEPT ![home[j]] = @ - 1]
        /\ slotsUsed' = slotsUsed
    BY <1>1 DEF CreateJobFails, CreateJobReadFails, ReleaseAdmission
  <2>m. "creating" \in Counted \ HoldsSlot /\ "done" \notin Counted \cup HoldsSlot
    BY DEF Counted, HoldsSlot
  <2>2. \A e \in Executors :
          /\ Cardinality(WorkersIn(e, Counted)') = IF home[j] = e
               THEN Cardinality(WorkersIn(e, Counted)) - 1
               ELSE Cardinality(WorkersIn(e, Counted))
          /\ Cardinality(WorkersIn(e, HoldsSlot)') = Cardinality(WorkersIn(e, HoldsSlot))
    BY <2>1, <2>m, <1>t, CountersOfMove, ZenonT(60)
  <2>3. Counts'
    BY <2>1, <2>2, <1>t, <1>c, LimitsAssumption DEF Counts, Counted, HoldsSlot, TypeOK
  <2>4. HomesKnown'
    BY <2>1, <1>t DEF HomesKnown, TypeOK
  <2>5. admittedCount' \in [Executors -> Nat]
    BY <2>1, <2>2, <1>t, <1>c, <1>h DEF Counts, TypeOK
  <2>r. /\ rows \in [JobIds -> Row] /\ faults \in 0..MaxFaults
        /\ [rows EXCEPT ![j] = QueuedRow(home[j])] \in [JobIds -> Row]
        /\ \A k : Fault(k) => faults' \in 0..MaxFaults
    BY <2>1, <1>t, <1>h, TableTypes, FaultType DEF TypeOK
  <2>6. rows' \in [JobIds -> Row] /\ faults' \in 0..MaxFaults
    BY <1>1, <2>r DEF CreateJobFails, CreateJobReadFails, dbVars
  <2>7. UNCHANGED <<owners, executorVars, next, ctxDone, localCancel>>
    BY <1>1 DEF CreateJobFails, CreateJobReadFails, dbVars
  <2>8. TypeOK'
    BY <2>1, <2>5, <2>6, <2>7, <1>t DEF TypeOK, executorVars, WorkerPC
  <2> QED BY <2>3, <2>4, <2>8 DEF CountInv
<1>2. CASE AcquireSlot(j)
  <2>1. /\ pc[j] = "acquiring" /\ pc' = [pc EXCEPT ![j] = "holding"] /\ home' = home
        /\ slotsUsed[home[j]] < MaxConcurrentJobs
        /\ slotsUsed' = [slotsUsed EXCEPT ![home[j]] = @ + 1]
        /\ admittedCount' = admittedCount
    BY <1>2 DEF AcquireSlot, SlotFree
  <2>m. "acquiring" \in Counted \ HoldsSlot /\ "holding" \in Counted \cap HoldsSlot
    BY DEF Counted, HoldsSlot
  <2>2. \A e \in Executors :
          /\ Cardinality(WorkersIn(e, HoldsSlot)') = IF home[j] = e
               THEN Cardinality(WorkersIn(e, HoldsSlot)) + 1
               ELSE Cardinality(WorkersIn(e, HoldsSlot))
          /\ Cardinality(WorkersIn(e, Counted)') = Cardinality(WorkersIn(e, Counted))
    BY <2>1, <2>m, <1>t, CountersOfMove, ZenonT(60)
  <2>3. Counts'
    BY <2>1, <2>2, <1>t, <1>c, LimitsAssumption DEF Counts, Counted, HoldsSlot, TypeOK
  <2>4. HomesKnown'
    BY <2>1, <1>t DEF HomesKnown, TypeOK
  <2>5. TypeOK'
    BY <1>2, <2>1, <1>t, <1>h DEF AcquireSlot, TypeOK, WorkerPC, dbVars, executorVars
  <2> QED BY <2>3, <2>4, <2>5 DEF CountInv
<1>3. CASE ReleaseSlot(j)
  <2>1. /\ pc[j] = "releasing" /\ pc' = [pc EXCEPT ![j] = "unwinding"] /\ home' = home
        /\ slotsUsed' = [slotsUsed EXCEPT ![home[j]] = @ - 1]
        /\ admittedCount' = admittedCount
    BY <1>3 DEF ReleaseSlot
  <2>m. "releasing" \in Counted \cap HoldsSlot /\ "unwinding" \in Counted \ HoldsSlot
    BY DEF Counted, HoldsSlot
  <2>2. \A e \in Executors :
          /\ Cardinality(WorkersIn(e, HoldsSlot)') = IF home[j] = e
               THEN Cardinality(WorkersIn(e, HoldsSlot)) - 1
               ELSE Cardinality(WorkersIn(e, HoldsSlot))
          /\ Cardinality(WorkersIn(e, Counted)') = Cardinality(WorkersIn(e, Counted))
    BY <2>1, <2>m, <1>t, CountersOfMove, ZenonT(60)
  <2>3. Counts'
    BY <2>1, <2>2, <1>t, <1>c, LimitsAssumption DEF Counts, Counted, HoldsSlot, TypeOK
  <2>4. HomesKnown'
    BY <2>1, <1>t DEF HomesKnown, TypeOK
  <2>5. slotsUsed' \in [Executors -> Nat]
    BY <2>1, <2>2, <1>t, <1>c, <1>h DEF Counts, TypeOK
  <2>6. TypeOK'
    BY <1>3, <2>1, <2>5, <1>t DEF ReleaseSlot, TypeOK, WorkerPC, dbVars, executorVars
  <2> QED BY <2>3, <2>4, <2>6 DEF CountInv
<1>4. CASE Unwind(j)
  <2>1. /\ pc[j] = "unwinding" /\ pc' = [pc EXCEPT ![j] = "done"] /\ home' = home
        /\ admittedCount' = [admittedCount EXCEPT ![home[j]] = @ - 1]
        /\ slotsUsed' = slotsUsed
    BY <1>4 DEF Unwind, ReleaseAdmission
  <2>m. "unwinding" \in Counted \ HoldsSlot /\ "done" \notin Counted \cup HoldsSlot
    BY DEF Counted, HoldsSlot
  <2>2. \A e \in Executors :
          /\ Cardinality(WorkersIn(e, Counted)') = IF home[j] = e
               THEN Cardinality(WorkersIn(e, Counted)) - 1
               ELSE Cardinality(WorkersIn(e, Counted))
          /\ Cardinality(WorkersIn(e, HoldsSlot)') = Cardinality(WorkersIn(e, HoldsSlot))
    BY <2>1, <2>m, <1>t, CountersOfMove, ZenonT(60)
  <2>3. Counts'
    BY <2>1, <2>2, <1>t, <1>c, LimitsAssumption DEF Counts, Counted, HoldsSlot, TypeOK
  <2>4. HomesKnown'
    BY <2>1, <1>t DEF HomesKnown, TypeOK
  <2>5. admittedCount' \in [Executors -> Nat]
    BY <2>1, <2>2, <1>t, <1>c, <1>h DEF Counts, TypeOK
  <2>6. RunningToFailed \in JobTransition
    BY DEF JobTransition
  <2>7. admitted' \in [Executors -> SUBSET JobIds] /\ next' \in [JobIds -> JobTransition]
    BY <1>4, <2>6, <1>t DEF Unwind, TypeOK
  <2>8. TypeOK'
    BY <1>4, <2>1, <2>5, <2>7, <1>t DEF Unwind, TypeOK, WorkerPC, dbVars
  <2> QED BY <2>3, <2>4, <2>8 DEF CountInv
<1> QED BY <1>1, <1>2, <1>3, <1>4

LEMMA AdmitKeepsCountInv ==
    ASSUME CountInv, NEW e \in Executors, NEW j \in JobIds, Admit(e, j)
    PROVE  CountInv'
<1>t. TypeOK /\ HomesKnown /\ Counts
  BY DEF CountInv
<1>1. /\ pc[j] = "none" /\ pc' = [pc EXCEPT ![j] = "creating"]
      /\ home' = [home EXCEPT ![j] = e]
      /\ admittedCount[e] < MaxAdmittedJobs
      /\ admittedCount' = [admittedCount EXCEPT ![e] = @ + 1]
      /\ slotsUsed' = slotsUsed
  BY DEF Admit
<1>2. /\ "none" \notin Counted \cup HoldsSlot
      /\ "creating" \in Counted \ HoldsSlot
  BY DEF Counted, HoldsSlot
<1>3. ASSUME NEW f \in Executors
      PROVE  Cardinality(WorkersIn(f, HoldsSlot)') = Cardinality(WorkersIn(f, HoldsSlot))
  <2>1. WorkersIn(f, HoldsSlot)' = WorkersIn(f, HoldsSlot)
    BY <1>1, <1>2, <1>t DEF WorkersIn, TypeOK
  <2> QED BY <2>1
<1>4. Cardinality(WorkersIn(e, Counted)') = Cardinality(WorkersIn(e, Counted)) + 1
  <2>1. WorkersIn(e, Counted)' = WorkersIn(e, Counted) \cup {j} /\ j \notin WorkersIn(e, Counted)
    BY <1>1, <1>2, <1>t DEF WorkersIn, TypeOK
  <2> QED BY <2>1, WorkersAreFinite, FS_AddElement
<1>5. ASSUME NEW f \in Executors, f # e
      PROVE  Cardinality(WorkersIn(f, Counted)') = Cardinality(WorkersIn(f, Counted))
  <2>1. WorkersIn(f, Counted)' = WorkersIn(f, Counted)
    BY <1>1, <1>2, <1>5, <1>t DEF WorkersIn, TypeOK
  <2> QED BY <2>1
<1>6. Counts'
  BY <1>1, <1>3, <1>4, <1>5, <1>t, LimitsAssumption DEF Counts, Counted, HoldsSlot, TypeOK
<1>7. HomesKnown'
  BY <1>1, <1>t DEF HomesKnown, TypeOK
<1>8. TypeOK'
  BY <1>1, <1>t DEF Admit, TypeOK, WorkerPC, dbVars, executorVars
<1> QED BY <1>6, <1>7, <1>8 DEF CountInv

LEMMA CrashKeepsCountInv ==
    ASSUME CountInv, NEW e \in Executors, Crash(e)
    PROVE  CountInv'
<1>t. TypeOK /\ HomesKnown /\ Counts
  BY DEF CountInv
<1>1. /\ pc' = [j \in JobIds |-> IF home[j] = e THEN "done" ELSE pc[j]]
      /\ home' = home
      /\ admittedCount' = [admittedCount EXCEPT ![e] = 0]
      /\ slotsUsed' = [slotsUsed EXCEPT ![e] = 0]
  BY DEF Crash
<1>2. "done" \notin Counted \cup HoldsSlot
  BY DEF Counted, HoldsSlot
<1>3. Cardinality({}) = 0
  BY FS_EmptySet
<1>4. WorkersIn(e, Counted)' = {} /\ WorkersIn(e, HoldsSlot)' = {}
  BY <1>1, <1>2, <1>t DEF WorkersIn, TypeOK
<1>5. ASSUME NEW f \in Executors, f # e
      PROVE  /\ WorkersIn(f, Counted)' = WorkersIn(f, Counted)
             /\ WorkersIn(f, HoldsSlot)' = WorkersIn(f, HoldsSlot)
  BY <1>1, <1>5, <1>t DEF WorkersIn, TypeOK
<1>6. ASSUME NEW f \in Executors
      PROVE  /\ admittedCount'[f] = Cardinality(WorkersIn(f, Counted)')
             /\ slotsUsed'[f] = Cardinality(WorkersIn(f, HoldsSlot)')
             /\ admittedCount'[f] <= MaxAdmittedJobs
             /\ slotsUsed'[f] <= MaxConcurrentJobs
  <2>1. CASE f = e
    BY <2>1, <1>1, <1>3, <1>4, <1>t, LimitsAssumption DEF TypeOK
  <2>2. CASE f # e
    BY <2>2, <1>1, <1>5, <1>t DEF Counts, TypeOK
  <2> QED BY <2>1, <2>2
<1>7. Counts'
  BY <1>6 DEF Counts, Counted, HoldsSlot
<1>8. HomesKnown'
  BY <1>1, <1>t DEF HomesKnown, TypeOK
<1>9. RunningToFailed \in JobTransition
  BY DEF JobTransition
<1>10. TypeOK'
  BY <1>1, <1>9, <1>t DEF Crash, TypeOK, WorkerPC, dbVars
<1> QED BY <1>7, <1>8, <1>10 DEF CountInv

LEMMA InitCountInv == Init => CountInv
<1> SUFFICES ASSUME Init PROVE CountInv
  OBVIOUS
<1>1. TypeOK
  BY FaultsAssumption
  DEF Init, TypeOK, AbsentRow, Row, WorkerPC, JobTransition
<1>2. HomesKnown
  BY DEF Init, HomesKnown
<1>3. \A e \in Executors : WorkersIn(e, Counted) = {} /\ WorkersIn(e, HoldsSlot) = {}
  BY DEF Init, WorkersIn, Counted, HoldsSlot
<1>4. ASSUME NEW e \in Executors
      PROVE  Cardinality(WorkersIn(e, Counted)) = 0 /\ Cardinality(WorkersIn(e, HoldsSlot)) = 0
  <2>1. WorkersIn(e, Counted) = {} /\ WorkersIn(e, HoldsSlot) = {}
    BY <1>3
  <2> QED BY ONLY <2>1, FS_EmptySet
<1>5. \A e \in Executors : admittedCount[e] = 0 /\ slotsUsed[e] = 0
  BY DEF Init
<1>6. Counts
  BY <1>4, <1>5, LimitsAssumption DEF Counts
<1> QED BY <1>1, <1>2, <1>6 DEF CountInv

LEMMA NextCountInv == CountInv /\ [Next]_vars => CountInv'
<1> SUFFICES ASSUME CountInv, [Next]_vars PROVE CountInv'
  OBVIOUS
<1>1. CASE UNCHANGED vars
  <2>1. TypeOK'
    BY <1>1 DEF vars, CountInv, TypeOK
  <2>2. HomesKnown'
    BY <1>1 DEF vars, CountInv, HomesKnown
  <2>3. Counts'
    BY <1>1 DEF vars, CountInv, Counts, WorkersIn, Counted, HoldsSlot
  <2> QED BY <2>1, <2>2, <2>3 DEF CountInv
<1>2. ASSUME NEW j \in JobIds, JobStep(j) \/ BodyReturns(j) \/ CancelAdmitted(j)
      PROVE  CountInv'
  BY <1>2, QuietJobSteps, QuietShapeKeepsCountInv, CountingSteps DEF JobStep
<1>3. ASSUME NEW e \in Executors,
             \/ RegisterJobOwner(e) \/ ReconcileFails(e) \/ ExecutorStep(e)
             \/ HeartbeatJobOwner(e) \/ CancelLifecycle(e) \/ CloseBegins(e)
             \/ LeaseExpires(e)
      PROVE  CountInv'
  BY <1>3, StillExecutorSteps, StillShapeKeepsCountInv
<1>4. ASSUME NEW e \in Executors, Crash(e)
      PROVE  CountInv'
  BY <1>4, CrashKeepsCountInv
<1>5. ASSUME NEW e \in Executors, NEW j \in JobIds, Admit(e, j)
      PROVE  CountInv'
  BY <1>5, AdmitKeepsCountInv
<1>6. ASSUME NEW e \in Executors, NEW j \in JobIds, RequestJobCancellation(e, j)
      PROVE  CountInv'
  BY <1>6, StillExecutorSteps, StillShapeKeepsCountInv
<1> QED BY <1>1, <1>2, <1>3, <1>4, <1>5, <1>6 DEF Next

\* Both counters of an executor are exact in every reachable state, which makes
\* Close's wait for admittedCount = 0 the wait for the last goroutine.
THEOREM CountersAreExact == Spec => []CountInv
BY InitCountInv, NextCountInv, PTL DEF Spec

\* Every variable keeps its type; in particular no counter is decremented below
\* zero on any path of Submit, run and Close.
THEOREM TypeCorrect == Spec => []TypeOK
<1>1. CountInv => TypeOK
  BY DEF CountInv
<1> QED BY <1>1, CountersAreExact, PTL

\* The executor's limits hold for the goroutines themselves: never more than
\* maxConcurrentJobs of them hold a slot, nor are more than maxAdmittedJobs
\* admitted (job_executor.go Submit and run).
THEOREM LimitsAlwaysHold == Spec => []LimitsHold
<1>1. CountInv => LimitsHold
  BY DEF CountInv, Counts, LimitsHold
<1> QED BY <1>1, CountersAreExact, PTL

-----------------------------------------------------------------------------
(* What one step can do to one row: the heart of every property of the     *)
(* jobs table.                                                             *)

\* The goroutine of a job works for a row in progress under its executor.
WorkerHasRow(i) ==
    /\ pc[i] \in Counted
    /\ rows[i].status \in {"queued", "running"}
    /\ rows[i].owner = home[i]

\* A row may lose its owner, but never under its goroutine.
RowMove(i) ==
    \/ rows'[i] = rows[i]
    \/ ~WorkerHasRow(i) /\ rows'[i] = [rows[i] EXCEPT !.owner = NoOwner]
    \/ /\ pc[i] = "creating" /\ pc'[i] \notin {"none", "creating"}
       /\ home[i] \in Executors /\ owners[home[i]] # "absent"
       /\ rows'[i] = QueuedRow(home[i])
    \/ /\ home[i] \in Executors /\ CanStart(rows[i], home[i])
       /\ rows'[i] = StartedRow(rows[i], home[i])
    \/ \E t \in JobTransition : /\ TransitionApplies(rows[i], t)
                                /\ rows'[i] = TransitionedRow(rows[i], t)
    \/ rows[i].status \in {"queued", "running"} /\ rows'[i] = CancelRequestedRow(rows[i])
    \/ Interrupted(rows[i]) /\ rows'[i] = ReconciledRow(rows[i])

\* A job that has been created is never uncreated.
NotUncreated(i) == pc'[i] \in {"none", "creating"} => pc[i] \in {"none", "creating"}

LEMMA TransitionJobMoves ==
    ASSUME TypeOK, NEW j \in JobIds, NEW t \in JobTransition,
           rows' = TransitionJob(j, t), NEW i \in JobIds
    PROVE  RowMove(i)
<1>1. CASE i = j /\ TransitionApplies(rows[j], t)
  <2>1. rows'[i] = TransitionedRow(rows[i], t)
    BY <1>1 DEF TransitionJob, TypeOK
  <2> QED BY <1>1, <2>1 DEF RowMove
<1>2. CASE ~(i = j /\ TransitionApplies(rows[j], t))
  <2>1. rows'[i] = rows[i]
    BY <1>2 DEF TransitionJob, TypeOK
  <2> QED BY <2>1 DEF RowMove
<1> QED BY <1>1, <1>2

\* Close deletes the owner only when it has no job left.
LEMMA DisownedRowsMove ==
    ASSUME CountInv, NEW e \in Executors, admittedCount[e] = 0,
           rows' = DisownedRows(rows, {e}), NEW i \in JobIds
    PROVE  RowMove(i)
<1>1. CASE rows[i].owner = e
  <2>1. rows'[i] = [rows[i] EXCEPT !.owner = NoOwner]
    BY <1>1 DEF DisownedRows
  <2>2. i \notin WorkersIn(e, Counted)
    BY WorkersAreFinite, FS_EmptySet DEF CountInv, Counts
  <2>3. ~WorkerHasRow(i)
    BY <1>1, <2>2 DEF WorkerHasRow, WorkersIn
  <2> QED BY <2>1, <2>3 DEF RowMove
<1>2. CASE rows[i].owner # e
  <2>1. rows'[i] = rows[i]
    BY <1>2 DEF DisownedRows
  <2> QED BY <2>1 DEF RowMove
<1> QED BY <1>1, <1>2

\* Reconciliation deletes the owners that are not alive, whose jobs in progress
\* it has just ended.
LEMMA ReconcileMoves ==
    ASSUME TypeOK, rows' = ReconcileInterruptedJobs, NEW i \in JobIds
    PROVE  RowMove(i)
<1>1. rows[i] \in Row
  BY DEF TypeOK
<1>2. CASE Interrupted(rows[i])
  <2>1. ReconciledRow(rows[i]).owner = NoOwner
    BY <1>1 DEF ReconciledRow, Row
  <2>2. NoOwner \notin StaleOwners
    BY ExecutorsAssumption DEF StaleOwners
  <2>3. rows'[i] = ReconciledRow(rows[i])
    BY <1>2, <2>1, <2>2 DEF ReconcileInterruptedJobs, DisownedRows
  <2> QED BY <1>2, <2>3 DEF RowMove
<1>3. CASE ~Interrupted(rows[i]) /\ rows[i].owner \in StaleOwners
  <2>1. rows'[i] = [rows[i] EXCEPT !.owner = NoOwner]
    BY <1>3 DEF ReconcileInterruptedJobs, DisownedRows
  <2>2. rows[i].status \notin {"queued", "running"}
    BY <1>3 DEF Interrupted, OwnerAlive, StaleOwners
  <2> QED BY <2>1, <2>2 DEF RowMove, WorkerHasRow
<1>4. CASE ~Interrupted(rows[i]) /\ rows[i].owner \notin StaleOwners
  <2>1. rows'[i] = rows[i]
    BY <1>4 DEF ReconcileInterruptedJobs, DisownedRows
  <2> QED BY <2>1 DEF RowMove
<1> QED BY <1>2, <1>3, <1>4

LEMMA JobStepMoves ==
    ASSUME CountInv, NEW j \in JobIds, JobStep(j) \/ BodyReturns(j) \/ CancelAdmitted(j),
           NEW i \in JobIds
    PROVE  RowMove(i) /\ NotUncreated(i)
<1>t. /\ rows \in [JobIds -> Row] /\ pc \in [JobIds -> WorkerPC]
      /\ next[j] \in JobTransition /\ TypeOK
      /\ pc[j] # "none" => home[j] \in Executors
      /\ {QueuedToCancelled, RunningToCancelled} \subseteq JobTransition
  BY DEF CountInv, TypeOK, HomesKnown, JobTransition
<1>s. rows' = rows => RowMove(i)
  BY DEF RowMove
<1>w. ASSUME NEW t \in JobTransition, rows' = TransitionJob(j, t)
      PROVE  RowMove(i)
  BY <1>t, <1>w, TransitionJobMoves
<1>c. ASSUME pc[j] = "creating", pc'[j] \notin {"none", "creating"},
             owners[home[j]] # "absent",
             rows' = [rows EXCEPT ![j] = QueuedRow(home[j])]
      PROVE  RowMove(i)
  BY <1>t, <1>c DEF RowMove
<1>b. ASSUME pc[j] = "starting", CanStart(rows[j], home[j]),
             rows' = [rows EXCEPT ![j] = StartedRow(rows[j], home[j])]
      PROVE  RowMove(i)
  BY <1>t, <1>b DEF RowMove
<1> USE DEF NotUncreated
<1>1. CASE CreateJobAs(j) \/ CreateJobReadFails(j)
  BY <1>1, <1>c, <1>t DEF CreateJobAs, CreateJobReadFails
<1>2. CASE CreateJobFails(j) \/ StartGoroutine(j) \/ AcquireSlot(j) \/ ReadAfterStartFailure(j)
  BY <1>2, <1>s, <1>t
  DEF CreateJobFails, StartGoroutine, AcquireSlot, ReadAfterStartFailure, dbVars
<1>3. CASE BodyReturns(j) \/ ChooseOutcome(j) \/ FinishFindsCancellation(j) \/ ReleaseSlot(j)
           \/ Unwind(j) \/ CancelAdmitted(j)
  BY <1>3, <1>s, <1>t
  DEF BodyReturns, ChooseOutcome, FinishFindsCancellation, ReleaseSlot, Unwind,
      CancelAdmitted, dbVars
<1>4. CASE AcquireFails(j) \/ CheckClosed(j) \/ RecordStartFailure(j)
  BY <1>4, <1>s, <1>w, <1>t DEF AcquireFails, CheckClosed, RecordStartFailure
<1>5. CASE StartJobAs(j) \/ StartJobFails(j)
  BY <1>5, <1>s, <1>b, <1>t DEF StartJobAs, StartJobFails
<1>6. CASE FinishJob(j) \/ FinishCancelled(j) \/ FinishFails(j)
  BY <1>6, <1>s, <1>w, <1>t DEF FinishJob, FinishCancelled, FinishFails
<1> QED BY <1>1, <1>2, <1>3, <1>4, <1>5, <1>6 DEF JobStep

LEMMA EveryStepMoves ==
    ASSUME CountInv, [Next]_vars, NEW i \in JobIds
    PROVE  RowMove(i) /\ NotUncreated(i)
<1>t. TypeOK
  BY DEF CountInv
<1>s. UNCHANGED rows => RowMove(i)
  BY DEF RowMove
<1>1. CASE UNCHANGED vars
  BY <1>1, <1>s DEF vars, NotUncreated
<1>2. ASSUME NEW j \in JobIds, JobStep(j) \/ BodyReturns(j) \/ CancelAdmitted(j)
      PROVE  RowMove(i) /\ NotUncreated(i)
  BY <1>2, JobStepMoves
<1>3. ASSUME NEW e \in Executors,
             \/ RegisterJobOwner(e) \/ ReconcileFails(e) \/ ExecutorStep(e)
             \/ HeartbeatJobOwner(e) \/ CancelLifecycle(e) \/ CloseBegins(e)
             \/ LeaseExpires(e)
      PROVE  RowMove(i) /\ NotUncreated(i)
  <2>1. pc' = pc
    BY <1>3
    DEF RegisterJobOwner, ReconcileFails, ExecutorStep, HeartbeatJobOwner, CancelLifecycle,
        CloseBegins, LeaseExpires, Reconcile, HeartbeatLosesOwner, WatchCancellations,
        BackgroundReturns, CloseCancelsJob, CloseCancelsRoot, DeleteJobOwner, workerVars
  <2>2. \/ rows' = rows \/ rows' = ReconcileInterruptedJobs
        \/ admittedCount[e] = 0 /\ rows' = DisownedRows(rows, {e})
    BY <1>3
    DEF RegisterJobOwner, ReconcileFails, ExecutorStep, HeartbeatJobOwner, CancelLifecycle,
        CloseBegins, LeaseExpires, Reconcile, HeartbeatLosesOwner, WatchCancellations,
        BackgroundReturns, CloseCancelsJob, CloseCancelsRoot, DeleteJobOwner, dbVars
  <2> QED BY <2>1, <2>2, <1>s, <1>t, ReconcileMoves, DisownedRowsMove DEF NotUncreated
<1>4. ASSUME NEW e \in Executors, Crash(e)
      PROVE  RowMove(i) /\ NotUncreated(i)
  BY <1>4, <1>s DEF Crash, dbVars, NotUncreated
<1>5. ASSUME NEW e \in Executors, NEW j \in JobIds, Admit(e, j)
      PROVE  RowMove(i) /\ NotUncreated(i)
  BY <1>5, <1>s, <1>t DEF Admit, dbVars, NotUncreated, TypeOK
<1>6. ASSUME NEW e \in Executors, NEW j \in JobIds, RequestJobCancellation(e, j)
      PROVE  RowMove(i) /\ NotUncreated(i)
  BY <1>6, <1>t DEF RequestJobCancellation, RowMove, NotUncreated, TypeOK
<1> QED BY <1>1, <1>2, <1>3, <1>4, <1>5, <1>6 DEF Next

-----------------------------------------------------------------------------
(* The rows of the jobs table.                                             *)

\* Before CreateJobAs has run there is no row; every row that exists parses.
AbsentRows == \A j \in JobIds : pc[j] \in {"none", "creating"} => rows[j] = AbsentRow

RowInv == RowsParse /\ AbsentRows

LEMMA NextRowInv == CountInv /\ RowInv /\ [Next]_vars => RowInv'
<1> SUFFICES ASSUME CountInv, RowInv, [Next]_vars PROVE RowInv'
  OBVIOUS
<1>1. ASSUME NEW j \in JobIds
      PROVE  ParsesAsJobState(rows'[j])
  <2>1. rows[j] \in Row /\ ParsesAsJobState(rows[j]) /\ RowMove(j)
    BY EveryStepMoves DEF CountInv, TypeOK, RowInv, RowsParse
  <2>2. Interrupted(rows[j]) => rows[j].status \in {"queued", "running"}
    BY DEF Interrupted
  <2> QED BY <2>1, <2>2, RowOperatorsParse DEF RowMove
<1>2. RowsParse'
  BY <1>1 DEF RowsParse, ParsesAsJobState
<1>3. ASSUME NEW j \in JobIds, pc'[j] \in {"none", "creating"}
      PROVE  rows'[j] = AbsentRow
  <2>1. RowMove(j) /\ pc[j] \in {"none", "creating"} /\ rows[j] = AbsentRow
    BY <1>3, EveryStepMoves DEF NotUncreated, RowInv, AbsentRows
  <2>2. rows[j].status = "absent" /\ [rows[j] EXCEPT !.owner = NoOwner] = AbsentRow
    BY <2>1 DEF AbsentRow
  <2>3. \A t \in JobTransition : ~TransitionApplies(rows[j], t)
    BY <2>2, JobTransitionFields DEF TransitionApplies
  <2> QED BY <1>3, <2>1, <2>2, <2>3 DEF RowMove, CanStart, Interrupted
<1>4. AbsentRows'
  BY <1>3 DEF AbsentRows
<1> QED BY <1>2, <1>4 DEF RowInv

\* No interleaving of workers, cancelling callers, reconciliations, crashes and
\* failing calls stores a row that parseJobState rejects.  So a job whose
\* cancellation was requested never ends succeeded or failed.
THEOREM RowsAlwaysParse == Spec => []RowsParse
<1>1. Init => RowInv
  BY DEF Init, RowInv, RowsParse, AbsentRows, AbsentRow, ParsesAsJobState
<1>2. RowInv => RowsParse
  BY DEF RowInv
<1> QED BY <1>1, <1>2, NextRowInv, CountersAreExact, PTL DEF Spec

THEOREM RowInvariant == Spec => [](CountInv /\ RowInv)
<1>1. Init => RowInv
  BY DEF Init, RowInv, RowsParse, AbsentRows, AbsentRow, ParsesAsJobState
<1> QED BY <1>1, NextRowInv, CountersAreExact, PTL DEF Spec

\* A terminal row keeps its status and its timestamps for ever
\* (docs/architecture.md, "Terminal states do not transition again").
THEOREM TerminalRowsAreFinal == Spec => TerminalIsFinal
<1>1. ASSUME CountInv, RowInv, [Next]_vars
      PROVE  [\A j \in JobIds : rows[j].status \in Terminal =>
                 /\ rows'[j].status = rows[j].status
                 /\ rows'[j].cols = rows[j].cols]_vars
  <2> SUFFICES ASSUME NEW j \in JobIds, rows[j].status \in Terminal
               PROVE  /\ rows'[j].status = rows[j].status
                      /\ rows'[j].cols = rows[j].cols
    OBVIOUS
  <2>1. rows[j] \in Row /\ RowMove(j)
    BY <1>1, EveryStepMoves DEF CountInv, TypeOK
  <2>2. rows[j].status \notin {"absent", "queued", "running"}
    BY DEF Terminal
  <2>3. pc[j] # "creating"
    BY <1>1, <2>2 DEF RowInv, AbsentRows, AbsentRow
  <2>4. \A t \in JobTransition : ~TransitionApplies(rows[j], t)
    BY <2>2, JobTransitionFields DEF TransitionApplies
  <2>5. /\ [rows[j] EXCEPT !.owner = NoOwner].status = rows[j].status
        /\ [rows[j] EXCEPT !.owner = NoOwner].cols = rows[j].cols
    BY <2>1 DEF Row
  <2> QED BY <2>1, <2>2, <2>3, <2>4, <2>5 DEF RowMove, CanStart, Interrupted
<1> QED BY <1>1, RowInvariant, PTL DEF Spec, TerminalIsFinal

-----------------------------------------------------------------------------
(* Who works for a job owns its row.                                       *)

\* As long as a job has a goroutine, its row in progress names its executor ...
WorkersOwnRows ==
    \A j \in JobIds : pc[j] \in Counted /\ rows[j].status \in {"queued", "running"} =>
        rows[j].owner = home[j]

\* ... and the owner a row names is registered: the foreign key of jobs.owner_id.
OwnersRegistered ==
    \A j \in JobIds : rows[j].owner \in Executors => owners[rows[j].owner] # "absent"

OwnerInv == WorkersOwnRows /\ OwnersRegistered /\ BodyOwnsRow

\* A goroutine begins with an admission or goes on; nothing gives it another home.
\* Its body begins with the claim of the row.
WorkerGoesOn(i) ==
    /\ pc'[i] \in Counted => \/ pc[i] \in Counted /\ home'[i] = home[i]
                             \/ pc[i] = "none" /\ pc'[i] = "creating"
    /\ pc'[i] = "body" => \/ pc[i] = "body"
                          \/ home[i] \in Executors /\ rows'[i] = StartedRow(rows[i], home[i])

LEMMA WorkersGoOn ==
    ASSUME CountInv, [Next]_vars, NEW i \in JobIds
    PROVE  WorkerGoesOn(i)
<1>t. /\ pc \in [JobIds -> WorkerPC] /\ rows \in [JobIds -> Row]
      /\ home \in [JobIds -> Executors \cup {NoOwner}]
  BY DEF CountInv, TypeOK
<1> USE DEF WorkerGoesOn, Counted, HoldsSlot
<1>1. CASE UNCHANGED vars
  BY <1>1 DEF vars
<1>2. ASSUME NEW j \in JobIds, StartJobAs(j) PROVE WorkerGoesOn(i)
  <2>1. CASE i = j
    BY <1>2, <1>t, <2>1 DEF StartJobAs, CountInv, HomesKnown
  <2>2. CASE i # j
    BY <1>2, <1>t, <2>2 DEF StartJobAs
  <2> QED BY <2>1, <2>2
<1>3. ASSUME NEW j \in JobIds,
             \/ CreateJobAs(j) \/ CreateJobFails(j) \/ CreateJobReadFails(j)
             \/ StartGoroutine(j) \/ AcquireSlot(j) \/ AcquireFails(j) \/ CheckClosed(j)
             \/ StartJobFails(j)
      PROVE  WorkerGoesOn(i)
  BY <1>3, <1>t
  DEF CreateJobAs, CreateJobFails, CreateJobReadFails, StartGoroutine, AcquireSlot,
      AcquireFails, CheckClosed, StartJobFails
<1>4. ASSUME NEW j \in JobIds,
             \/ ReadAfterStartFailure(j) \/ RecordStartFailure(j) \/ BodyReturns(j)
             \/ ChooseOutcome(j) \/ FinishJob(j) \/ FinishFindsCancellation(j)
             \/ FinishFails(j) \/ FinishCancelled(j) \/ ReleaseSlot(j) \/ Unwind(j)
             \/ CancelAdmitted(j)
      PROVE  WorkerGoesOn(i)
  BY <1>4, <1>t
  DEF ReadAfterStartFailure, RecordStartFailure, BodyReturns, ChooseOutcome, FinishJob,
      FinishFindsCancellation, FinishFails, FinishCancelled, ReleaseSlot, Unwind,
      CancelAdmitted
<1>5. ASSUME NEW e \in Executors,
             \/ RegisterJobOwner(e) \/ ReconcileFails(e) \/ ExecutorStep(e)
             \/ HeartbeatJobOwner(e) \/ CancelLifecycle(e) \/ CloseBegins(e)
             \/ LeaseExpires(e)
      PROVE  WorkerGoesOn(i)
  BY <1>5
  DEF RegisterJobOwner, ReconcileFails, ExecutorStep, HeartbeatJobOwner, CancelLifecycle,
      CloseBegins, LeaseExpires, Reconcile, HeartbeatLosesOwner, WatchCancellations,
      BackgroundReturns, CloseCancelsJob, CloseCancelsRoot, DeleteJobOwner, workerVars
<1>6. ASSUME NEW e \in Executors, Crash(e) PROVE WorkerGoesOn(i)
  BY <1>6 DEF Crash
<1>7. ASSUME NEW e \in Executors, NEW j \in JobIds,
             Admit(e, j) \/ RequestJobCancellation(e, j)
      PROVE  WorkerGoesOn(i)
  BY <1>7, <1>t DEF Admit, RequestJobCancellation
<1> QED BY <1>1, <1>2, <1>3, <1>4, <1>5, <1>6, <1>7 DEF Next, JobStep

\* What a step makes of the status and the owner of a row.
LEMMA MoveOfOwner ==
    ASSUME CountInv, RowInv, NEW i \in JobIds, RowMove(i)
    PROVE  \/ rows'[i].status = rows[i].status /\ rows'[i].owner = rows[i].owner
           \/ ~WorkerHasRow(i) /\ rows'[i].status = rows[i].status /\ rows'[i].owner = NoOwner
           \/ /\ rows[i].status \in {"absent", "queued"}
              /\ rows'[i].status = IF rows[i].status = "absent" THEN "queued" ELSE "running"
              /\ home[i] \in Executors /\ owners[home[i]] # "absent"
              /\ rows'[i].owner = home[i]
           \/ rows'[i].status \in Terminal /\ rows'[i].owner \in {NoOwner, rows[i].owner}
<1>t. rows[i] \in Row
  BY DEF CountInv, TypeOK
<1>2. CASE ~WorkerHasRow(i) /\ rows'[i] = [rows[i] EXCEPT !.owner = NoOwner]
  BY <1>2, <1>t DEF Row
<1>3. CASE /\ pc[i] = "creating" /\ home[i] \in Executors /\ owners[home[i]] # "absent"
           /\ rows'[i] = QueuedRow(home[i])
  <2>1. rows[i].status = "absent"
    BY <1>3 DEF RowInv, AbsentRows, AbsentRow
  <2> QED BY <1>3, <2>1 DEF QueuedRow
<1>4. CASE home[i] \in Executors /\ CanStart(rows[i], home[i])
           /\ rows'[i] = StartedRow(rows[i], home[i])
  BY <1>4, <1>t DEF CanStart, StartedRow, Row
<1>5. ASSUME NEW t \in JobTransition, rows'[i] = TransitionedRow(rows[i], t)
      PROVE  rows'[i].status \in Terminal /\ rows'[i].owner = NoOwner
  <2>1. rows'[i].status = t.to /\ rows'[i].owner = NoOwner
    BY <1>t, <1>5 DEF TransitionedRow, Row
  <2> QED BY <2>1, JobTransitionFields
<1>6. CASE rows[i].status \in {"queued", "running"} /\ rows'[i] = CancelRequestedRow(rows[i])
  BY <1>t, <1>6 DEF CancelRequestedRow, Row, Terminal
<1>7. CASE rows'[i] = ReconciledRow(rows[i])
  BY <1>t, <1>7 DEF ReconciledRow, Row, Terminal
<1> QED BY <1>2, <1>3, <1>4, <1>5, <1>6, <1>7 DEF RowMove

\* Owners leave the table with every row that names them.
LEMMA NextOwnersRegistered ==
    ASSUME CountInv, RowInv, OwnersRegistered, [Next]_vars, NEW i \in JobIds,
           rows'[i].owner \in Executors
    PROVE  owners'[rows'[i].owner] # "absent"
<1>t. /\ owners \in [Executors -> {"absent", "fresh", "stale"}] /\ NoOwner \notin Executors
      /\ rows[i] \in Row
  BY ExecutorsAssumption DEF CountInv, TypeOK
<1>1. CASE \A e \in Executors : owners[e] # "absent" => owners'[e] # "absent"
  <2>1. RowMove(i)
    BY EveryStepMoves
  <2>2. owners[rows'[i].owner] # "absent"
    BY <2>1, <1>t, MoveOfOwner DEF OwnersRegistered
  <2> QED BY <1>1, <2>2
<1>2. ASSUME NEW S \in SUBSET Executors, NEW R, R[i] \in Row, owners' = WithoutOwners(S),
             rows' = DisownedRows(R, S), R[i].owner \in Executors => owners[R[i].owner] # "absent"
      PROVE  owners'[rows'[i].owner] # "absent"
  <2>1. CASE R[i].owner \in S
    <3>1. rows'[i] = [R[i] EXCEPT !.owner = NoOwner]
      BY <1>2, <2>1 DEF DisownedRows
    <3>2. rows'[i].owner = NoOwner
      BY <1>2, <3>1 DEF Row
    <3> QED BY <1>t, <3>2
  <2>2. CASE R[i].owner \notin S
    <3>1. rows'[i] = R[i]
      BY <1>2, <2>2 DEF DisownedRows
    <3> QED BY <1>2, <2>2, <3>1 DEF WithoutOwners
  <2> QED BY <2>1, <2>2
<1>3. CASE \E e \in Executors : Reconcile(e)
  <2> DEFINE R == [j \in JobIds |-> IF Interrupted(rows[j]) THEN ReconciledRow(rows[j])
                                                            ELSE rows[j]]
  <2>1. owners' = WithoutOwners(StaleOwners) /\ rows' = DisownedRows(R, StaleOwners)
    BY <1>3 DEF Reconcile, ReconcileInterruptedJobs
  <2>2. R[i] \in Row /\ (R[i].owner = NoOwner \/ R[i] = rows[i])
    <3>1. ReconciledRow(rows[i]) \in Row /\ ReconciledRow(rows[i]).owner = NoOwner
      BY <1>t, RowOperatorTypes DEF ReconciledRow, Row
    <3> QED BY <1>t, <3>1
  <2>3. R[i].owner \in Executors => owners[R[i].owner] # "absent"
    BY <1>t, <2>2 DEF OwnersRegistered
  <2>4. StaleOwners \in SUBSET Executors
    BY DEF StaleOwners
  <2> HIDE DEF R
  <2> QED BY <1>2, <2>1, <2>2, <2>3, <2>4
<1>4. ASSUME NEW e \in Executors, DeleteJobOwner(e)
      PROVE  owners'[rows'[i].owner] # "absent"
  <2>1. CASE owners' = WithoutOwners({e}) /\ rows' = DisownedRows(rows, {e})
    BY <1>2, <1>t, <2>1 DEF OwnersRegistered
  <2>2. CASE UNCHANGED dbVars
    BY <2>2 DEF dbVars, OwnersRegistered
  <2> QED BY <1>4, <2>1, <2>2 DEF DeleteJobOwner
<1>5. \/ \A e \in Executors : owners[e] # "absent" => owners'[e] # "absent"
      \/ \E e \in Executors : Reconcile(e) \/ DeleteJobOwner(e)
  <2>1. ASSUME UNCHANGED owners
        PROVE  \A e \in Executors : owners[e] # "absent" => owners'[e] # "absent"
    BY <2>1
  <2>2. CASE UNCHANGED vars
    BY <2>1, <2>2 DEF vars
  <2>3. ASSUME NEW j \in JobIds, JobStep(j) \/ BodyReturns(j) \/ CancelAdmitted(j)
        PROVE  UNCHANGED owners
    BY <2>3
    DEF JobStep, CreateJobAs, CreateJobFails, CreateJobReadFails, StartGoroutine, AcquireSlot,
        AcquireFails, CheckClosed, StartJobAs, StartJobFails, ReadAfterStartFailure,
        RecordStartFailure, BodyReturns, ChooseOutcome, FinishJob, FinishFindsCancellation,
        FinishFails, FinishCancelled, ReleaseSlot, Unwind, CancelAdmitted, dbVars
  <2>4. ASSUME NEW e \in Executors,
               \/ ReconcileFails(e) \/ HeartbeatLosesOwner(e) \/ WatchCancellations(e)
               \/ BackgroundReturns(e) \/ CloseCancelsJob(e) \/ CloseCancelsRoot(e)
               \/ CancelLifecycle(e) \/ CloseBegins(e) \/ Crash(e)
        PROVE  UNCHANGED owners
    BY <2>4
    DEF ReconcileFails, HeartbeatLosesOwner, WatchCancellations, BackgroundReturns,
        CloseCancelsJob, CloseCancelsRoot, CancelLifecycle, CloseBegins, Crash, dbVars
  <2>5. ASSUME NEW e \in Executors,
               RegisterJobOwner(e) \/ HeartbeatJobOwner(e) \/ LeaseExpires(e)
        PROVE  \A f \in Executors : owners[f] # "absent" => owners'[f] # "absent"
    BY <2>5, <1>t DEF RegisterJobOwner, HeartbeatJobOwner, LeaseExpires
  <2>6. ASSUME NEW e \in Executors, NEW j \in JobIds,
               Admit(e, j) \/ RequestJobCancellation(e, j)
        PROVE  UNCHANGED owners
    BY <2>6 DEF Admit, RequestJobCancellation, dbVars
  <2> QED BY <2>1, <2>2, <2>3, <2>4, <2>5, <2>6 DEF Next, ExecutorStep
<1> QED BY <1>1, <1>3, <1>4, <1>5

LEMMA NextOwnerInv == CountInv /\ RowInv /\ OwnerInv /\ [Next]_vars => OwnerInv'
<1> SUFFICES ASSUME CountInv, RowInv, OwnerInv, [Next]_vars PROVE OwnerInv'
  OBVIOUS
<1>1. OwnersRegistered'
  BY NextOwnersRegistered DEF OwnerInv, OwnersRegistered
<1>2. ASSUME NEW i \in JobIds
      PROVE  /\ pc'[i] \in Counted /\ rows'[i].status \in {"queued", "running"} =>
                   rows'[i].owner = home'[i]
             /\ pc'[i] = "body" =>
                   \/ rows'[i].status = "running" /\ rows'[i].owner = home'[i]
                   \/ rows'[i].status \in Terminal
  <2>t. rows[i] \in Row /\ RowMove(i) /\ WorkerGoesOn(i)
    BY EveryStepMoves, WorkersGoOn DEF CountInv, TypeOK
  <2>n. pc'[i] = "creating" => rows'[i].status = "absent"
    <3>1. pc'[i] = "creating" => rows'[i] = AbsentRow
      BY NextRowInv DEF RowInv, AbsentRows
    <3> QED BY <3>1 DEF AbsentRow
  <2>1. pc'[i] \in Counted /\ rows'[i].status \in {"queued", "running"} =>
            rows'[i].owner = home'[i]
    BY <2>t, <2>n, MoveOfOwner
    DEF OwnerInv, WorkersOwnRows, WorkerGoesOn, WorkerHasRow, Terminal
  <2>2. ASSUME pc'[i] = "body"
        PROVE  rows'[i].status \in {"running"} \cup Terminal
    <3>1. CASE rows'[i] = StartedRow(rows[i], home[i])
      BY <3>1, <2>t DEF StartedRow, Row
    <3>2. CASE pc[i] = "body"
      <4>1. rows[i].status \in {"running"} \cup Terminal
        BY <3>2 DEF OwnerInv, BodyOwnsRow
      <4> QED BY <2>t, <4>1, MoveOfOwner DEF Terminal
    <3> QED BY <2>2, <2>t, <3>1, <3>2 DEF WorkerGoesOn
  <2> QED BY <2>1, <2>2 DEF Counted, HoldsSlot, Terminal
<1> QED BY <1>1, <1>2 DEF OwnerInv, WorkersOwnRows, BodyOwnsRow

THEOREM OwnerInvariant == Spec => []OwnerInv
<1>1. Init => OwnerInv
  BY ExecutorsAssumption
  DEF Init, OwnerInv, WorkersOwnRows, OwnersRegistered, BodyOwnsRow, AbsentRow, Counted,
      HoldsSlot
<1> QED BY <1>1, NextOwnerInv, RowInvariant, PTL DEF Spec

\* While the function of a job runs, the row says running under its executor, or
\* somebody else ended the job: no reconciliation, lost lease, deleted owner or
\* second claim takes a running row from under it (StartJobAs,
\* ReconcileInterruptedJobs, DeleteJobOwner).
THEOREM BodyAlwaysOwnsRow == Spec => []BodyOwnsRow
<1>1. OwnerInv => BodyOwnsRow
  BY DEF OwnerInv
<1> QED BY <1>1, OwnerInvariant, PTL

-----------------------------------------------------------------------------
(* Only an expired lease fails the work of another process.                *)

LEMMA FailedByReconciliation ==
    ASSUME CountInv, [Next]_vars, NEW i \in JobIds,
           rows[i].status # "failed", rows'[i].status = "failed", pc'[i] = pc[i]
    PROVE  Interrupted(rows[i])
<1>t. /\ rows \in [JobIds -> Row] /\ pc \in [JobIds -> WorkerPC] /\ rows[i] \in Row
      /\ next \in [JobIds -> JobTransition]
  BY DEF CountInv, TypeOK
<1>c. rows'[i] # rows[i]
  OBVIOUS
<1>o. ASSUME NEW R, NEW S, R[i] \in Row
      PROVE  DisownedRows(R, S)[i].status = R[i].status
  BY <1>o DEF DisownedRows, Row
<1>1. CASE UNCHANGED vars
  BY <1>1, <1>c DEF vars
<1>2. ASSUME NEW j \in JobIds,
             \/ CreateJobAs(j) \/ CreateJobFails(j) \/ CreateJobReadFails(j)
             \/ StartGoroutine(j) \/ AcquireSlot(j) \/ AcquireFails(j) \/ CheckClosed(j)
             \/ StartJobAs(j) \/ StartJobFails(j)
      PROVE  FALSE
  BY <1>2, <1>t, <1>c
  DEF CreateJobAs, CreateJobFails, CreateJobReadFails, StartGoroutine, AcquireSlot,
      AcquireFails, CheckClosed, StartJobAs, StartJobFails, TransitionJob, dbVars
<1>3. ASSUME NEW j \in JobIds,
             \/ ReadAfterStartFailure(j) \/ RecordStartFailure(j) \/ BodyReturns(j)
             \/ ChooseOutcome(j) \/ FinishJob(j) \/ FinishFindsCancellation(j)
             \/ FinishCancelled(j) \/ ReleaseSlot(j) \/ Unwind(j) \/ CancelAdmitted(j)
      PROVE  FALSE
  BY <1>3, <1>t, <1>c
  DEF ReadAfterStartFailure, RecordStartFailure, BodyReturns, ChooseOutcome, FinishJob,
      FinishFindsCancellation, FinishCancelled, ReleaseSlot, Unwind, CancelAdmitted,
      TransitionJob, dbVars
<1>4. ASSUME NEW j \in JobIds, FinishFails(j) PROVE FALSE
  <2>1. i = j /\ next[i] = RunningToSucceeded /\ rows' = TransitionJob(i, next[i])
    BY <1>4, <1>t, <1>c DEF FinishFails, TransitionJob
  <2>2. rows'[i] = TransitionedRow(rows[i], RunningToSucceeded)
    BY <2>1, <1>t, <1>c DEF TransitionJob
  <2>3. rows'[i].status = "succeeded"
    BY <2>2, <1>t DEF TransitionedRow, RunningToSucceeded, Row
  <2> QED BY <2>3
<1>5. ASSUME NEW e \in Executors, Reconcile(e) PROVE Interrupted(rows[i])
  <2> DEFINE R == [j \in JobIds |-> IF Interrupted(rows[j]) THEN ReconciledRow(rows[j])
                                                            ELSE rows[j]]
  <2> SUFFICES ASSUME ~Interrupted(rows[i]) PROVE FALSE
    OBVIOUS
  <2>1. rows' = DisownedRows(R, StaleOwners)
    BY <1>5 DEF Reconcile, ReconcileInterruptedJobs
  <2>2. R[i] = rows[i]
    OBVIOUS
  <2> HIDE DEF R
  <2>3. rows'[i].status = rows[i].status
    BY <1>t, <1>o, <2>1, <2>2
  <2> QED BY <2>3
<1>6. ASSUME NEW e \in Executors, DeleteJobOwner(e) PROVE FALSE
  <2>1. rows' = DisownedRows(rows, {e}) \/ rows' = rows
    BY <1>6 DEF DeleteJobOwner, dbVars
  <2> QED BY <1>c, <1>t, <1>o, <2>1
<1>7. ASSUME NEW e \in Executors,
             \/ RegisterJobOwner(e) \/ ReconcileFails(e) \/ HeartbeatLosesOwner(e)
             \/ WatchCancellations(e) \/ BackgroundReturns(e) \/ CloseCancelsJob(e)
             \/ CloseCancelsRoot(e) \/ HeartbeatJobOwner(e) \/ CancelLifecycle(e)
             \/ CloseBegins(e) \/ LeaseExpires(e) \/ Crash(e)
      PROVE  FALSE
  BY <1>7, <1>c
  DEF RegisterJobOwner, ReconcileFails, HeartbeatLosesOwner, WatchCancellations,
      BackgroundReturns, CloseCancelsJob, CloseCancelsRoot, HeartbeatJobOwner,
      CancelLifecycle, CloseBegins, LeaseExpires, Crash, dbVars
<1>8. ASSUME NEW e \in Executors, NEW j \in JobIds, Admit(e, j) PROVE FALSE
  BY <1>8, <1>c DEF Admit, dbVars
<1>9. ASSUME NEW e \in Executors, NEW j \in JobIds, RequestJobCancellation(e, j) PROVE FALSE
  <2>1. rows'[i] = CancelRequestedRow(rows[i])
    BY <1>9, <1>t, <1>c DEF RequestJobCancellation
  <2> QED BY <2>1, <1>t DEF CancelRequestedRow, Row
<1> QED BY <1>1, <1>2, <1>3, <1>4, <1>5, <1>6, <1>7, <1>8, <1>9
        DEF Next, JobStep, ExecutorStep

\* A job that has a goroutine is failed by another step than its own only when
\* the lease of its executor had expired: a new executor never fails the jobs of
\* another live process (ReconcileInterruptedJobs).
THEOREM LiveWorkIsNeverFailed == Spec => LiveWorkIsNotFailed
<1>1. ASSUME CountInv, OwnerInv, [Next]_vars
      PROVE  [\A j \in JobIds :
                 /\ rows[j].status # "failed" /\ rows'[j].status = "failed"
                 /\ pc[j] \in Counted /\ pc'[j] = pc[j]
                 => owners[home[j]] = "stale"]_vars
  <2> SUFFICES ASSUME NEW j \in JobIds,
                      rows[j].status # "failed", rows'[j].status = "failed",
                      pc[j] \in Counted, pc'[j] = pc[j]
               PROVE  owners[home[j]] = "stale"
    OBVIOUS
  <2>1. rows[j].status \in {"queued", "running"} /\ ~OwnerAlive(rows[j])
    BY <1>1, FailedByReconciliation DEF Interrupted
  <2>2. home[j] \in Executors
    BY <1>1 DEF CountInv, HomesKnown, Counted, HoldsSlot
  <2>3. rows[j].owner = home[j]
    BY <1>1, <2>1 DEF OwnerInv, WorkersOwnRows
  <2>4. owners[home[j]] # "absent" /\ owners[home[j]] # "fresh"
    BY <1>1, <2>1, <2>2, <2>3 DEF OwnerInv, OwnersRegistered, OwnerAlive
  <2>5. owners[home[j]] \in {"absent", "fresh", "stale"}
    BY <1>1, <2>2 DEF CountInv, TypeOK
  <2> QED BY <2>4, <2>5
<1> QED BY <1>1, OwnerInvariant, CountersAreExact, PTL DEF Spec, LiveWorkIsNotFailed

-----------------------------------------------------------------------------
(* The jobs table implements the abstract life of a job.                   *)

View(r) == [status |-> r.status, asked |-> CancellationRequested(r)]

LEMMA ViewFields ==
    ASSUME NEW r
    PROVE  View(r).status = r.status /\ (View(r).asked <=> "cancelled_at" \in r.cols)
BY DEF View, CancellationRequested

LEMMA RowMoveRefines ==
    ASSUME NEW j \in JobIds, rows[j] \in Row, ParsesAsJobState(rows[j]),
           pc[j] = "creating" => rows[j] = AbsentRow, RowMove(j)
    PROVE  View(rows'[j]) = View(rows[j]) \/ Lifecycle!Move(View(rows[j]), View(rows'[j]))
<1> DEFINE r == rows[j]
           s == rows'[j]
<1>v. /\ View(r).status = r.status /\ (View(r).asked <=> "cancelled_at" \in r.cols)
      /\ View(s).status = s.status /\ (View(s).asked <=> "cancelled_at" \in s.cols)
  BY ViewFields
<1> USE DEF CancellationRequested, Row
<1>1. CASE s = r
  BY <1>1
<1>2. CASE s = [r EXCEPT !.owner = NoOwner]
  <2>1. s.status = r.status /\ s.cols = r.cols
    BY <1>2
  <2> QED BY <2>1 DEF View
<1>3. CASE pc[j] = "creating" /\ s = QueuedRow(home[j])
  <2>1. r.status = "absent" /\ s.status = "queued" /\ "cancelled_at" \notin s.cols
    BY <1>3 DEF QueuedRow, AbsentRow
  <2> QED BY <2>1, <1>v DEF Lifecycle!Move, Lifecycle!Submitted
<1>4. CASE CanStart(r, home[j]) /\ s = StartedRow(r, home[j])
  <2>1. r.status = "queued" /\ s.status = "running" /\ "cancelled_at" \notin s.cols
    BY <1>4 DEF CanStart, StartedRow
  <2> QED BY <2>1, <1>v DEF Lifecycle!Move, Lifecycle!Started
<1>5. ASSUME NEW t \in JobTransition, TransitionApplies(r, t), s = TransitionedRow(r, t)
      PROVE  Lifecycle!Move(View(r), View(s))
  <2>1. /\ s.status = t.to /\ r.status = t.from
        /\ t.to = "cancelled" => "cancelled_at" \in s.cols
        /\ t.to # "cancelled" => "cancelled_at" \notin r.cols /\ "cancelled_at" \notin s.cols
    BY <1>5 DEF TransitionApplies, TransitionedRow
  <2>2. \/ t.from \in {"queued", "running"} /\ t.to \in {"cancelled", "failed"}
        \/ t.from = "running" /\ t.to = "succeeded"
    BY DEF JobTransition, QueuedToCancelled, QueuedToFailed, RunningToSucceeded,
           RunningToFailed, RunningToCancelled
  <2>3. CASE t.to = "cancelled"
    BY <2>1, <2>2, <2>3, <1>v DEF Lifecycle!Move, Lifecycle!CancelledNow
  <2>4. CASE t.to = "failed"
    BY <2>1, <2>2, <2>4, <1>v DEF Lifecycle!Move, Lifecycle!Failed
  <2>5. CASE t.to = "succeeded"
    BY <2>1, <2>2, <2>5, <1>v DEF Lifecycle!Move, Lifecycle!Succeeded
  <2> QED BY <2>2, <2>3, <2>4, <2>5
<1>6. CASE r.status \in {"queued", "running"} /\ s = CancelRequestedRow(r)
  <2>1. CASE r.status = "queued"
    <3>1. s.status = "cancelled" /\ "cancelled_at" \in s.cols
      BY <1>6, <2>1 DEF CancelRequestedRow
    <3> QED BY <2>1, <3>1, <1>v DEF Lifecycle!Move, Lifecycle!CancelledNow
  <2>2. CASE r.status = "running"
    <3>1. s.status = "running" /\ "cancelled_at" \in s.cols
      BY <1>6, <2>2 DEF CancelRequestedRow
    <3> QED BY <2>2, <3>1, <1>v DEF Lifecycle!Move, Lifecycle!Asked
  <2> QED BY <1>6, <2>1, <2>2
<1>7. CASE Interrupted(r) /\ s = ReconciledRow(r)
  <2>1. r.status \in {"queued", "running"}
    BY <1>7 DEF Interrupted
  <2>2. CASE "cancelled_at" \in r.cols
    <3>1. s.status = "cancelled" /\ "cancelled_at" \in s.cols
      BY <1>7, <2>2 DEF ReconciledRow
    <3> QED BY <2>1, <3>1, <1>v DEF Lifecycle!Move, Lifecycle!CancelledNow
  <2>3. CASE "cancelled_at" \notin r.cols
    <3>1. s.status = "failed" /\ "cancelled_at" \notin s.cols
      BY <1>7, <2>3 DEF ReconciledRow
    <3> QED BY <2>1, <2>3, <3>1, <1>v DEF Lifecycle!Move, Lifecycle!Failed
  <2> QED BY <2>2, <2>3
<1> QED BY <1>1, <1>2, <1>3, <1>4, <1>5, <1>6, <1>7 DEF RowMove

\* Every behaviour of the executors, seen through the jobs table, is a life that
\* JobLifecycle allows: it maps the initial state to an initial state and each
\* step to a step or a stutter.
THEOREM TableImplementsLifecycle == Spec => ImplementsLifecycle
<1>1. Init => Lifecycle!Init
  <2> SUFFICES ASSUME Init PROVE Lifecycle!Init
    OBVIOUS
  <2>1. \A j \in JobIds : rows[j].status = "absent" /\ ~CancellationRequested(rows[j])
    BY DEF Init, AbsentRow, CancellationRequested
  <2>2. \A j \in JobIds : CancellationRequested(rows[j]) = FALSE
    BY <2>1 DEF CancellationRequested
  <2> QED BY <2>1, <2>2 DEF Lifecycle!Init, JobView
<1>2. ASSUME CountInv, RowInv, CountInv', [Next]_vars
      PROVE  [Lifecycle!Next]_JobView
  <2>1. /\ JobView = [j \in JobIds |-> View(rows[j])]
        /\ JobView' = [j \in JobIds |-> View(rows'[j])]
    BY DEF JobView, View, CancellationRequested
  <2>2. ASSUME NEW j \in JobIds
        PROVE  /\ JobView'[j] = JobView[j] \/ Lifecycle!Move(JobView[j], JobView'[j])
               /\ JobView'[j] \in Lifecycle!JobView
    <3>1. rows[j] \in Row /\ rows'[j] \in Row /\ ParsesAsJobState(rows[j]) /\ RowMove(j)
      BY <1>2, EveryStepMoves DEF CountInv, TypeOK, RowInv, RowsParse
    <3>2. pc[j] = "creating" => rows[j] = AbsentRow
      BY <1>2 DEF RowInv, AbsentRows
    <3>3. View(rows'[j]) \in Lifecycle!JobView
      BY <3>1 DEF View, CancellationRequested, Lifecycle!JobView, Lifecycle!Outcomes, Row,
                  Status, Terminal
    <3> QED BY <2>1, <3>1, <3>2, <3>3, RowMoveRefines
  <2> QED BY <2>1, <2>2 DEF Lifecycle!Next
<1> QED BY <1>1, <1>2, RowInvariant, PTL DEF Spec, ImplementsLifecycle, Lifecycle!Spec

-----------------------------------------------------------------------------
(* Close, cancellations and lost owners abandon no row.  The four database *)
(* calls that would are left out: an INSERT whose read back fails, a claim *)
(* that fails after its commit, and a last transition that is not written  *)
(* or of which the goroutine is not told.                                  *)

RecoverableFaults == {"reconcile", "create", "start", "read", "delete"}

\* A job that somebody ended, or asked the goroutine that runs it to end.
Asked(r) == \/ r.status \in Terminal
            \/ r.status = "running" /\ CancellationRequested(r)

\* The context of a single job is cancelled only when the row says so ...
CancelledWereAsked == \A j \in ctxDone \cup localCancel : Asked(rows[j])

\* ... since Close finds rootCtx done before it calls the cancel functions.
AdmittedHaveRows ==
    \A e \in Executors : /\ phase[e] = "closing" => e \in rootDone
                         /\ \A j \in admitted[e] \cup toCancel[e] :
                              home[j] = e /\ rows[j].status # "absent"

\* What the row says while run stands at a place of its code.
Unclaimed == {"created", "acquiring", "holding", "starting", "startFailed",
              "recordingFailure"}
Claimed == {"body", "returned", "finishing", "finishingCancelled"}
InStage(j) ==
    /\ pc[j] \in Unclaimed => rows[j].status \in {"queued"} \cup Terminal
    /\ pc[j] = "recordingFailure" => next[j] = QueuedToFailed
    /\ pc[j] \in Claimed => rows[j].status \in {"running"} \cup Terminal
    /\ pc[j] \in {"returned", "finishing"} => next[j].from = "running"
    /\ pc[j] \in {"releasing", "unwinding"} => rows[j].status \in Terminal
    /\ pc[j] = "done" => rows[j].status \in {"absent"} \cup Terminal \/ HomeCrashed(j)
WorkersInStage == \A j \in JobIds : InStage(j)

EndingInv == CancelledWereAsked /\ AdmittedHaveRows /\ WorkersInStage

\* A request, and an end, is for ever.
LEMMA AskedStays ==
    ASSUME CountInv, RowInv, [Next]_vars, NEW i \in JobIds, Asked(rows[i])
    PROVE  Asked(rows'[i])
<1>t. rows[i] \in Row /\ RowMove(i) /\ ParsesAsJobState(rows[i])
  BY EveryStepMoves DEF CountInv, TypeOK, RowInv, RowsParse
<1>s. rows[i].status \notin {"absent", "queued"}
  BY DEF Asked, Terminal
<1>1. CASE rows'[i] = [rows[i] EXCEPT !.owner = NoOwner]
  BY <1>1, <1>t DEF Asked, CancellationRequested, Row
<1>2. CASE pc[i] = "creating"
  BY <1>2, <1>s DEF RowInv, AbsentRows, AbsentRow
<1>3. ASSUME NEW t \in JobTransition, rows'[i] = TransitionedRow(rows[i], t)
      PROVE  Asked(rows'[i])
  BY <1>3, <1>t, JobTransitionFields DEF TransitionedRow, Row, Asked
<1>4. CASE rows[i].status \in {"queued", "running"} /\ rows'[i] = CancelRequestedRow(rows[i])
  BY <1>4, <1>s, <1>t DEF CancelRequestedRow, Row, Asked, CancellationRequested
<1>5. CASE rows'[i] = ReconciledRow(rows[i])
  BY <1>5, <1>t DEF ReconciledRow, Row, Asked, Terminal
<1> QED BY <1>s, <1>t, <1>1, <1>2, <1>3, <1>4, <1>5 DEF RowMove, CanStart

\* A row that exists is never deleted.
LEMMA RowsStay ==
    ASSUME CountInv, RowInv, [Next]_vars, NEW i \in JobIds, rows[i].status # "absent"
    PROVE  rows'[i].status # "absent"
<1>1. RowMove(i)
  BY EveryStepMoves
<1> QED BY <1>1, MoveOfOwner DEF Terminal

\* The row of a job, seen from its goroutine, when somebody else takes a step.
Undisturbed(i) ==
    \/ rows'[i].status = rows[i].status
    \/ rows[i].status \in {"queued", "running"} /\ rows'[i].status \in Terminal

LEMMA UndisturbedKeepsStage ==
    ASSUME NEW i \in JobIds, InStage(i), Undisturbed(i),
           pc'[i] = pc[i], next'[i] = next[i], HomeCrashed(i) => HomeCrashed(i)'
    PROVE  InStage(i)'
BY DEF InStage, Undisturbed

\* A submitted job keeps its executor, and a crashed executor stays crashed.
LEMMA CrashesAreFinal ==
    ASSUME CountInv, [Next]_vars, NEW i \in JobIds, pc[i] # "none", HomeCrashed(i)
    PROVE  HomeCrashed(i)'
<1>1. PICK f \in Executors : home[i] = f /\ phase[f] = "crashed"
  BY DEF HomeCrashed
<1>t. /\ phase \in [Executors -> {"new", "reconciling", "open", "closing", "draining",
                                  "closed", "crashed"}]
      /\ home \in [JobIds -> Executors \cup {NoOwner}]
  BY DEF CountInv, TypeOK
<1>2. home'[i] = f /\ phase'[f] = "crashed"
  <2>1. CASE UNCHANGED vars
    BY <1>1, <2>1 DEF vars
  <2>2. ASSUME NEW j \in JobIds, JobStep(j) \/ BodyReturns(j) \/ CancelAdmitted(j)
        PROVE  UNCHANGED <<home, phase>>
    BY <2>2
    DEF JobStep, CreateJobAs, CreateJobFails, CreateJobReadFails, StartGoroutine, AcquireSlot,
        AcquireFails, CheckClosed, StartJobAs, StartJobFails, ReadAfterStartFailure,
        RecordStartFailure, BodyReturns, ChooseOutcome, FinishJob, FinishFindsCancellation,
        FinishFails, FinishCancelled, ReleaseSlot, Unwind, CancelAdmitted, executorVars
  <2>3. ASSUME NEW e \in Executors,
               \/ RegisterJobOwner(e) \/ ReconcileFails(e) \/ ExecutorStep(e)
               \/ HeartbeatJobOwner(e) \/ CancelLifecycle(e) \/ CloseBegins(e)
               \/ LeaseExpires(e) \/ Crash(e)
        PROVE  home' = home /\ phase'[f] = "crashed"
    BY <1>1, <1>t, <2>3
    DEF RegisterJobOwner, ReconcileFails, ExecutorStep, HeartbeatJobOwner, CancelLifecycle,
        CloseBegins, LeaseExpires, Reconcile, HeartbeatLosesOwner, WatchCancellations,
        BackgroundReturns, CloseCancelsJob, CloseCancelsRoot, DeleteJobOwner, Crash,
        workerVars, executorVars
  <2>4. ASSUME NEW e \in Executors, NEW j \in JobIds,
               Admit(e, j) \/ RequestJobCancellation(e, j)
        PROVE  home'[i] = home[i] /\ phase' = phase
    BY <1>t, <2>4 DEF Admit, RequestJobCancellation, executorVars
  <2> QED BY <1>1, <2>1, <2>2, <2>3, <2>4 DEF Next
<1> QED BY <1>2 DEF HomeCrashed

\* The steps of run, for the job it runs.
LEMMA OwnStepKeepsStage ==
    ASSUME CountInv, RowInv, EndingInv, ServiceClose, FaultKinds \subseteq RecoverableFaults,
           NEW j \in JobIds, JobStep(j) \/ BodyReturns(j) \/ CancelAdmitted(j)
    PROVE  InStage(j)'
<1>t. /\ rows \in [JobIds -> Row] /\ pc \in [JobIds -> WorkerPC] /\ rows[j] \in Row
      /\ next \in [JobIds -> JobTransition]
  BY DEF CountInv, TypeOK
<1>k. /\ ~Fault("create_read") /\ ~Fault("start_late")
      /\ ~Fault("write") /\ ~Fault("write_late")
  BY DEF RecoverableFaults, Fault
<1>s. InStage(j)
  BY DEF EndingInv, WorkersInStage
<1>a. pc[j] \in {"none", "creating"} => rows[j].status = "absent"
  BY DEF RowInv, AbsentRows, AbsentRow
<1>q. rows[j].status = "queued" => ~CancellationRequested(rows[j])
  BY DEF RowInv, RowsParse, ParsesAsJobState, CancellationRequested
\* What TransitionJob writes.
<1>w. ASSUME NEW t \in JobTransition, rows' = TransitionJob(j, t),
             rows[j].status \in {t.from} \cup Terminal,
             TransitionApplies(rows[j], t) \/ rows[j].status # t.from
      PROVE  rows'[j].status \in Terminal
  <2>1. CASE TransitionApplies(rows[j], t)
    <3>1. rows'[j] = TransitionedRow(rows[j], t)
      BY <1>t, <1>w, <2>1 DEF TransitionJob
    <3>2. rows'[j].status = t.to
      BY <1>t, <3>1 DEF TransitionedRow, Row
    <3> QED BY <3>2, JobTransitionFields
  <2>2. CASE ~TransitionApplies(rows[j], t)
    BY <1>w, <2>2 DEF TransitionJob
  <2> QED BY <2>1, <2>2
<1>n. /\ {QueuedToCancelled, QueuedToFailed, RunningToCancelled} \subseteq JobTransition
      /\ QueuedToCancelled.from = "queued" /\ QueuedToCancelled.to = "cancelled"
      /\ QueuedToFailed.from = "queued" /\ RunningToCancelled.from = "running"
      /\ RunningToCancelled.to = "cancelled" /\ RunningToFailed.from = "running"
      /\ RunningToSucceeded.from = "running"
  BY DEF JobTransition, QueuedToCancelled, QueuedToFailed, RunningToCancelled, RunningToFailed,
         RunningToSucceeded
<1>c. ASSUME NEW t \in {QueuedToCancelled, RunningToCancelled}, rows[j].status = t.from
      PROVE  TransitionApplies(rows[j], t)
  BY <1>c, <1>n DEF TransitionApplies
<1> USE DEF InStage, Unclaimed, Claimed
<1>1. CASE CreateJobAs(j)
  BY <1>1, <1>t DEF CreateJobAs, QueuedRow
<1>2. CASE CreateJobFails(j)
  BY <1>2, <1>t, <1>a DEF CreateJobFails, dbVars
<1>3. CASE StartGoroutine(j) \/ AcquireSlot(j)
  BY <1>3, <1>t, <1>s DEF StartGoroutine, AcquireSlot, dbVars
<1>4. CASE AcquireFails(j)
  <2>1. pc'[j] = "unwinding" /\ rows[j].status \in {"queued"} \cup Terminal
    BY <1>4, <1>t, <1>s DEF AcquireFails
  <2>2. CASE rows' = TransitionJob(j, QueuedToCancelled)
    BY <2>1, <2>2, <1>w, <1>c, <1>n
  <2>3. CASE home[j] \notin rootDone /\ UNCHANGED rows
    <3>1. Asked(rows[j])
      BY <1>4, <2>3 DEF AcquireFails, CtxDone, EndingInv, CancelledWereAsked
    <3> QED BY <2>1, <2>3, <3>1 DEF Asked, Terminal
  <2> QED BY <1>4, <1>k, <2>1, <2>2, <2>3 DEF AcquireFails
<1>5. CASE CheckClosed(j)
  <2>1. rows[j].status \in {"queued"} \cup Terminal
    BY <1>5, <1>s DEF CheckClosed
  <2>2. CASE pc' = [pc EXCEPT ![j] = "starting"] /\ UNCHANGED rows
    BY <2>1, <2>2, <1>t
  <2>3. CASE pc' = [pc EXCEPT ![j] = "releasing"] /\ rows' = TransitionJob(j, QueuedToCancelled)
    BY <2>1, <2>3, <1>t, <1>w, <1>c, <1>n
  <2> QED BY <1>5, <1>k, <2>2, <2>3 DEF CheckClosed
<1>6. CASE StartJobAs(j)
  BY <1>6, <1>t DEF StartJobAs, StartedRow, Row
<1>7. CASE StartJobFails(j)
  BY <1>7, <1>t, <1>s, <1>k DEF StartJobFails
<1>8. CASE ReadAfterStartFailure(j)
  <2>1. rows[j].status \in {"queued"} \cup Terminal /\ rows' = rows
    BY <1>8, <1>s DEF ReadAfterStartFailure, dbVars
  <2>2. CASE pc'[j] = "recordingFailure" /\ next'[j] = QueuedToFailed
    BY <2>1, <2>2
  <2>3. CASE pc'[j] = "releasing" /\ rows[j].status \in Terminal
    BY <2>1, <2>3
  <2>4. \/ pc'[j] = "releasing" /\ rows[j].status \in Terminal
        \/ pc'[j] = "recordingFailure" /\ next'[j] = QueuedToFailed
    BY <1>8, <2>1, <1>t DEF ReadAfterStartFailure, Terminal
  <2> QED BY <2>2, <2>3, <2>4
<1>9. CASE RecordStartFailure(j)
  <2>1. /\ rows' = TransitionJob(j, QueuedToFailed) /\ pc'[j] = "releasing"
        /\ rows[j].status \in {"queued"} \cup Terminal
    BY <1>9, <1>k, <1>s, <1>t DEF RecordStartFailure
  <2>2. rows[j].status = "queued" => TransitionApplies(rows[j], QueuedToFailed)
    BY <1>n, <1>q DEF TransitionApplies
  <2> QED BY <2>1, <2>2, <1>w, <1>n
<1>10. CASE BodyReturns(j)
  BY <1>10, <1>t, <1>s, <1>n DEF BodyReturns, dbVars
<1>11. CASE ChooseOutcome(j)
  <2>1. rows' = rows /\ pc'[j] = "finishing" /\ rows[j].status \in {"running"} \cup Terminal
    BY <1>11, <1>t, <1>s DEF ChooseOutcome, dbVars
  <2>2. next'[j].from = "running"
    BY <1>11, <1>t, <1>s, <1>n DEF ChooseOutcome
  <2> QED BY <2>1, <2>2
<1>12. CASE FinishJob(j)
  <2>1. /\ rows' = TransitionJob(j, next[j]) /\ pc'[j] = "releasing"
        /\ TransitionApplies(rows[j], next[j])
    BY <1>12, <1>t DEF FinishJob
  <2>2. rows[j].status = next[j].from
    BY <2>1 DEF TransitionApplies
  <2>3. rows'[j].status \in Terminal
    BY <2>1, <2>2, <1>w, <1>t
  <2> QED BY <2>1, <2>3
<1>13. CASE FinishFindsCancellation(j)
  BY <1>13, <1>t, <1>s DEF FinishFindsCancellation, dbVars
<1>14. CASE FinishFails(j)
  <2>1. rows' = rows /\ rows[j].status \in Terminal
    BY <1>14, <1>k, <1>s DEF FinishFails
  <2>2. CASE pc' = pc /\ next'[j] = RunningToFailed
    BY <1>14, <2>1, <2>2, <1>n DEF FinishFails
  <2>3. CASE pc'[j] = "releasing"
    BY <2>1, <2>3
  <2> QED BY <1>14, <1>t, <2>2, <2>3 DEF FinishFails
<1>15. CASE FinishCancelled(j)
  <2>1. /\ rows' = TransitionJob(j, RunningToCancelled) /\ pc'[j] = "releasing"
        /\ rows[j].status \in {"running"} \cup Terminal
    BY <1>15, <1>k, <1>s, <1>t DEF FinishCancelled
  <2> QED BY <2>1, <1>w, <1>c, <1>n
<1>16. CASE ReleaseSlot(j) \/ Unwind(j)
  BY <1>16, <1>t, <1>s DEF ReleaseSlot, Unwind, dbVars
<1>17. CASE CancelAdmitted(j)
  BY <1>17, <1>s DEF CancelAdmitted, dbVars, executorVars, HomeCrashed
<1>18. ~CreateJobReadFails(j)
  BY <1>k DEF CreateJobReadFails
<1> QED BY <1>1, <1>2, <1>3, <1>4, <1>5, <1>6, <1>7, <1>8, <1>9, <1>10, <1>11, <1>12, <1>13,
           <1>14, <1>15, <1>16, <1>17, <1>18 DEF JobStep

\* The steps of run, for the other jobs.
LEMMA OtherJobsStand ==
    ASSUME CountInv, NEW j \in JobIds, JobStep(j) \/ BodyReturns(j) \/ CancelAdmitted(j),
           NEW i \in JobIds \ {j}
    PROVE  rows'[i] = rows[i] /\ pc'[i] = pc[i] /\ next'[i] = next[i]
<1>t. /\ rows \in [JobIds -> Row] /\ pc \in [JobIds -> WorkerPC]
      /\ next \in [JobIds -> JobTransition]
  BY DEF CountInv, TypeOK
<1>1. CASE \/ CreateJobAs(j) \/ CreateJobFails(j) \/ CreateJobReadFails(j)
           \/ StartGoroutine(j) \/ AcquireSlot(j) \/ AcquireFails(j) \/ CheckClosed(j)
  BY <1>1, <1>t
  DEF CreateJobAs, CreateJobFails, CreateJobReadFails, StartGoroutine, AcquireSlot,
      AcquireFails, CheckClosed, TransitionJob, dbVars
<1>2. CASE \/ StartJobAs(j) \/ StartJobFails(j) \/ ReadAfterStartFailure(j)
           \/ RecordStartFailure(j) \/ BodyReturns(j) \/ ChooseOutcome(j)
  BY <1>2, <1>t
  DEF StartJobAs, StartJobFails, ReadAfterStartFailure, RecordStartFailure, BodyReturns,
      ChooseOutcome, TransitionJob, dbVars
<1>3. CASE \/ FinishJob(j) \/ FinishFindsCancellation(j) \/ FinishCancelled(j)
           \/ ReleaseSlot(j) \/ Unwind(j) \/ CancelAdmitted(j)
  BY <1>3, <1>t
  DEF FinishJob, FinishFindsCancellation, FinishCancelled, ReleaseSlot, Unwind,
      CancelAdmitted, TransitionJob, dbVars
<1>4. CASE FinishFails(j)
  BY <1>4, <1>t DEF FinishFails, TransitionJob
<1> QED BY <1>1, <1>2, <1>3, <1>4 DEF JobStep

\* Everybody else's steps: a row in progress may be ended, or asked to end.
LEMMA OthersLeaveUndisturbed ==
    ASSUME CountInv, RowInv, NEW i \in JobIds,
           \/ UNCHANGED vars
           \/ \E e \in Executors : \/ RegisterJobOwner(e) \/ ReconcileFails(e)
                                   \/ ExecutorStep(e) \/ HeartbeatJobOwner(e)
                                   \/ CancelLifecycle(e) \/ CloseBegins(e) \/ LeaseExpires(e)
           \/ \E e \in Executors, j \in JobIds : RequestJobCancellation(e, j)
    PROVE  Undisturbed(i) /\ pc'[i] = pc[i] /\ next'[i] = next[i]
<1>t. rows \in [JobIds -> Row] /\ rows[i] \in Row /\ TypeOK
  BY DEF CountInv, TypeOK
<1>1. CASE UNCHANGED vars
  BY <1>1 DEF vars, Undisturbed
<1>2. ASSUME NEW e \in Executors,
             \/ RegisterJobOwner(e) \/ ReconcileFails(e) \/ ExecutorStep(e)
             \/ HeartbeatJobOwner(e) \/ CancelLifecycle(e) \/ CloseBegins(e)
             \/ LeaseExpires(e)
      PROVE  Undisturbed(i) /\ pc' = pc /\ next' = next
  <2>1. pc' = pc /\ next' = next
    BY <1>2
    DEF RegisterJobOwner, ReconcileFails, ExecutorStep, HeartbeatJobOwner, CancelLifecycle,
        CloseBegins, LeaseExpires, Reconcile, HeartbeatLosesOwner, WatchCancellations,
        BackgroundReturns, CloseCancelsJob, CloseCancelsRoot, DeleteJobOwner, workerVars
  <2>2. \/ rows' = rows \/ rows' = ReconcileInterruptedJobs
        \/ rows' = DisownedRows(rows, {e})
    BY <1>2
    DEF RegisterJobOwner, ReconcileFails, ExecutorStep, HeartbeatJobOwner, CancelLifecycle,
        CloseBegins, LeaseExpires, Reconcile, HeartbeatLosesOwner, WatchCancellations,
        BackgroundReturns, CloseCancelsJob, CloseCancelsRoot, DeleteJobOwner, dbVars
  <2>3. ASSUME NEW R, R[i] \in Row, NEW S
        PROVE  DisownedRows(R, S)[i].status = R[i].status
    BY <2>3 DEF DisownedRows, Row
  <2>4. CASE rows' = ReconcileInterruptedJobs
    <3> DEFINE R == [j \in JobIds |-> IF Interrupted(rows[j]) THEN ReconciledRow(rows[j])
                                                              ELSE rows[j]]
    <3>1. R[i] \in Row /\ rows' = DisownedRows(R, StaleOwners)
      BY <1>t, <2>4, RowOperatorTypes DEF ReconcileInterruptedJobs
    <3>2. \/ R[i].status = rows[i].status
          \/ rows[i].status \in {"queued", "running"} /\ R[i].status \in Terminal
      BY <1>t DEF Interrupted, ReconciledRow, Row, Terminal
    <3> HIDE DEF R
    <3> QED BY <2>1, <2>3, <3>1, <3>2 DEF Undisturbed
  <2> QED BY <1>t, <2>1, <2>2, <2>3, <2>4 DEF Undisturbed
<1>3. ASSUME NEW e \in Executors, NEW j \in JobIds, RequestJobCancellation(e, j)
      PROVE  Undisturbed(i) /\ pc' = pc /\ next' = next
  BY <1>3, <1>t DEF RequestJobCancellation, CancelRequestedRow, Undisturbed, Row, Terminal
<1> QED BY <1>1, <1>2, <1>3

LEMMA NextWorkersInStage ==
    ASSUME CountInv, RowInv, EndingInv, ServiceClose, FaultKinds \subseteq RecoverableFaults,
           [Next]_vars, NEW i \in JobIds
    PROVE  InStage(i)'
<1>s. InStage(i)
  BY DEF EndingInv, WorkersInStage
<1>u. ASSUME Undisturbed(i), pc'[i] = pc[i], next'[i] = next[i]
      PROVE  InStage(i)'
  <2>1. CASE pc[i] = "none"
    BY <1>u, <2>1 DEF InStage, Unclaimed, Claimed
  <2>2. CASE pc[i] # "none"
    BY <1>s, <1>u, <2>2, CrashesAreFinal, UndisturbedKeepsStage
  <2> QED BY <2>1, <2>2
<1>1. ASSUME NEW j \in JobIds, JobStep(j) \/ BodyReturns(j) \/ CancelAdmitted(j)
      PROVE  InStage(i)'
  <2>1. CASE i = j
    BY <1>1, <2>1, OwnStepKeepsStage
  <2>2. CASE i # j
    BY <1>1, <1>u, <2>2, OtherJobsStand DEF Undisturbed
  <2> QED BY <2>1, <2>2
<1>2. CASE \/ UNCHANGED vars
           \/ \E e \in Executors : \/ RegisterJobOwner(e) \/ ReconcileFails(e)
                                   \/ ExecutorStep(e) \/ HeartbeatJobOwner(e)
                                   \/ CancelLifecycle(e) \/ CloseBegins(e) \/ LeaseExpires(e)
           \/ \E e \in Executors, j \in JobIds : RequestJobCancellation(e, j)
  BY <1>2, <1>u, OthersLeaveUndisturbed
<1>3. ASSUME NEW e \in Executors, Crash(e) PROVE InStage(i)'
  <2>1. CASE home[i] = e
    <3>1. pc'[i] = "done" /\ HomeCrashed(i)'
      BY <1>3, <2>1 DEF Crash, HomeCrashed, CountInv, TypeOK
    <3> QED BY <3>1 DEF InStage, Unclaimed, Claimed
  <2>2. CASE home[i] # e
    BY <1>3, <1>u, <2>2 DEF Crash, dbVars, Undisturbed
  <2> QED BY <2>1, <2>2
<1>4. ASSUME NEW e \in Executors, NEW j \in JobIds, Admit(e, j) PROVE InStage(i)'
  <2>1. CASE i = j
    <3>1. pc'[i] = "creating"
      BY <1>4, <2>1 DEF Admit, CountInv, TypeOK
    <3> QED BY <3>1 DEF InStage, Unclaimed, Claimed
  <2>2. CASE i # j
    BY <1>4, <1>u, <2>2 DEF Admit, dbVars, Undisturbed, CountInv, TypeOK
  <2> QED BY <2>1, <2>2
<1> QED BY <1>1, <1>2, <1>3, <1>4 DEF Next

\* Whose context is cancelled, alone or by a caller about to do so, was asked.
LEMMA NextCancelledWereAsked ==
    ASSUME CountInv, RowInv, EndingInv, [Next]_vars, NEW i \in ctxDone' \cup localCancel'
    PROVE  Asked(rows'[i])
<1>t. ctxDone \subseteq JobIds /\ localCancel \subseteq JobIds /\ rows \in [JobIds -> Row]
  BY DEF CountInv, TypeOK
<1>o. ASSUME i \in ctxDone \cup localCancel PROVE Asked(rows'[i])
  BY <1>o, <1>t, AskedStays DEF EndingInv, CancelledWereAsked
<1>1. CASE UNCHANGED vars
  BY <1>1, <1>o DEF vars
<1>2. ASSUME NEW j \in JobIds, JobStep(j) \/ BodyReturns(j) \/ CancelAdmitted(j)
      PROVE  i \in ctxDone \cup localCancel
  BY <1>2
  DEF JobStep, CreateJobAs, CreateJobFails, CreateJobReadFails, StartGoroutine, AcquireSlot,
      AcquireFails, CheckClosed, StartJobAs, StartJobFails, ReadAfterStartFailure,
      RecordStartFailure, BodyReturns, ChooseOutcome, FinishJob, FinishFindsCancellation,
      FinishFails, FinishCancelled, ReleaseSlot, Unwind, CancelAdmitted, Cancel
<1>3. ASSUME NEW e \in Executors, WatchCancellations(e) PROVE Asked(rows'[i])
  <2>1. CASE i \in ctxDone \cup localCancel
    BY <2>1, <1>o
  <2>2. CASE i \notin ctxDone \cup localCancel
    <3>1. rows' = rows /\ i \in admitted[e] /\ Stopped(rows[i])
      BY <1>3, <2>2 DEF WatchCancellations, Cancel, dbVars
    <3>2. i \in JobIds /\ rows[i].status # "absent"
      BY <3>1 DEF EndingInv, AdmittedHaveRows, CountInv, TypeOK
    <3>3. rows[i] \in Row /\ ParsesAsJobState(rows[i])
      BY <1>t, <3>2 DEF RowInv, RowsParse
    <3> QED BY <3>1, <3>2, <3>3
            DEF Stopped, Asked, Row, Status, ParsesAsJobState, CancellationRequested
  <2> QED BY <2>1, <2>2
<1>4. ASSUME NEW e \in Executors, CloseCancelsJob(e) PROVE i \in ctxDone \cup localCancel
  <2>1. PICK j \in toCancel[e] : Cancel({j}) /\ localCancel' = localCancel /\ phase[e] = "closing"
    BY <1>4 DEF CloseCancelsJob
  <2>2. home[j] \in rootDone
    BY <2>1 DEF EndingInv, AdmittedHaveRows
  <2> QED BY <2>1, <2>2 DEF Cancel
<1>5. ASSUME NEW e \in Executors,
             \/ RegisterJobOwner(e) \/ ReconcileFails(e) \/ Reconcile(e)
             \/ HeartbeatLosesOwner(e) \/ BackgroundReturns(e) \/ CloseCancelsRoot(e)
             \/ DeleteJobOwner(e) \/ HeartbeatJobOwner(e) \/ CancelLifecycle(e)
             \/ CloseBegins(e) \/ LeaseExpires(e) \/ Crash(e)
      PROVE  i \in ctxDone \cup localCancel
  BY <1>5
  DEF RegisterJobOwner, ReconcileFails, HeartbeatJobOwner, CancelLifecycle, CloseBegins,
      LeaseExpires, Reconcile, HeartbeatLosesOwner, BackgroundReturns, CloseCancelsRoot,
      DeleteJobOwner, Crash, workerVars
<1>6. ASSUME NEW e \in Executors, NEW j \in JobIds, RequestJobCancellation(e, j)
      PROVE  Asked(rows'[i])
  <2>1. CASE i \in ctxDone \cup localCancel
    BY <2>1, <1>o
  <2>2. CASE i \notin ctxDone \cup localCancel
    <3>1. i = j /\ rows[j].status \in {"queued", "running"} /\ rows'[j] = CancelRequestedRow(rows[j])
      BY <1>6, <1>t, <2>2 DEF RequestJobCancellation
    <3> QED BY <1>t, <3>1 DEF CancelRequestedRow, Asked, CancellationRequested, Row, Terminal
  <2> QED BY <2>1, <2>2
<1>7. ASSUME NEW e \in Executors, NEW j \in JobIds, Admit(e, j)
      PROVE  i \in ctxDone \cup localCancel
  BY <1>7 DEF Admit
<1> QED BY <1>o, <1>1, <1>2, <1>3, <1>4, <1>5, <1>6, <1>7 DEF Next, ExecutorStep

LEMMA NextAdmittedHaveRows ==
    ASSUME CountInv, RowInv, EndingInv, ServiceClose, [Next]_vars, NEW f \in Executors
    PROVE  /\ phase'[f] = "closing" => f \in rootDone'
           /\ \A i \in admitted'[f] \cup toCancel'[f] :
                home'[i] = f /\ rows'[i].status # "absent"
<1>t. /\ admitted \in [Executors -> SUBSET JobIds] /\ toCancel \in [Executors -> SUBSET JobIds]
      /\ phase \in [Executors -> {"new", "reconciling", "open", "closing", "draining",
                                  "closed", "crashed"}]
      /\ home \in [JobIds -> Executors \cup {NoOwner}]
      /\ rows \in [JobIds -> Row] /\ pc \in [JobIds -> WorkerPC]
  BY DEF CountInv, TypeOK
<1>o. /\ phase[f] = "closing" => f \in rootDone
      /\ \A i \in admitted[f] \cup toCancel[f] : home[i] = f /\ rows[i].status # "absent"
  BY DEF EndingInv, AdmittedHaveRows
<1>r. ASSUME NEW i \in JobIds, rows[i].status # "absent"
      PROVE  rows'[i].status # "absent"
  BY <1>r, RowsStay
<1>1. CASE UNCHANGED vars
  BY <1>1, <1>o DEF vars
<1>2. ASSUME NEW j \in JobIds, StartGoroutine(j)
      PROVE  /\ UNCHANGED <<home, phase, rootDone, toCancel>>
             /\ \A i \in admitted'[f] : home[i] = f /\ rows'[i].status # "absent"
  <2>1. InStage(j) /\ pc[j] = "created"
    BY <1>2 DEF EndingInv, WorkersInStage, StartGoroutine
  <2>2. rows[j].status # "absent"
    BY <2>1 DEF InStage, Unclaimed, Terminal
  <2>3. \A i \in admitted'[f] : i \in admitted[f] \/ (i = j /\ home[i] = f)
    BY <1>2, <1>t DEF StartGoroutine
  <2> QED BY <1>2, <1>o, <1>r, <1>t, <2>2, <2>3 DEF StartGoroutine
<1>3. ASSUME NEW j \in JobIds, Unwind(j)
      PROVE  /\ UNCHANGED <<home, phase, rootDone, toCancel>>
             /\ admitted'[f] \subseteq admitted[f]
  BY <1>3, <1>t DEF Unwind
<1>4. ASSUME NEW j \in JobIds, JobStep(j) \/ BodyReturns(j) \/ CancelAdmitted(j),
             ~StartGoroutine(j), ~Unwind(j)
      PROVE  UNCHANGED <<home, phase, rootDone, toCancel, admitted>>
  BY <1>4
  DEF JobStep, CreateJobAs, CreateJobFails, CreateJobReadFails, AcquireSlot,
      AcquireFails, CheckClosed, StartJobAs, StartJobFails, ReadAfterStartFailure,
      RecordStartFailure, BodyReturns, ChooseOutcome, FinishJob, FinishFindsCancellation,
      FinishFails, FinishCancelled, ReleaseSlot, CancelAdmitted, executorVars
<1>5. ASSUME NEW e \in Executors,
             \/ RegisterJobOwner(e) \/ ReconcileFails(e) \/ ExecutorStep(e)
             \/ HeartbeatJobOwner(e) \/ CancelLifecycle(e) \/ LeaseExpires(e)
      PROVE  /\ UNCHANGED <<home, admitted>>
             /\ toCancel'[f] \subseteq toCancel[f] /\ rootDone \subseteq rootDone'
             /\ phase'[f] = "closing" => phase[f] = "closing"
  BY <1>5, <1>t
  DEF RegisterJobOwner, ReconcileFails, ExecutorStep, HeartbeatJobOwner, CancelLifecycle,
      LeaseExpires, Reconcile, HeartbeatLosesOwner, WatchCancellations,
      BackgroundReturns, CloseCancelsJob, CloseCancelsRoot, DeleteJobOwner, workerVars,
      executorVars
<1>6. ASSUME NEW e \in Executors, CloseBegins(e)
      PROVE  /\ UNCHANGED <<home, admitted>>
             /\ phase'[f] = "closing" => f \in rootDone'
             /\ toCancel'[f] \subseteq toCancel[f] \cup admitted[f]
  BY <1>6, <1>o, <1>t DEF CloseBegins, workerVars
<1>7. ASSUME NEW e \in Executors, Crash(e)
      PROVE  /\ home' = home /\ admitted'[f] \subseteq admitted[f]
             /\ toCancel'[f] \subseteq toCancel[f]
             /\ phase'[f] = "closing" => f \in rootDone'
  BY <1>7, <1>o, <1>t DEF Crash
<1>8. ASSUME NEW e \in Executors, NEW j \in JobIds, Admit(e, j)
      PROVE  /\ UNCHANGED <<phase, rootDone, toCancel, admitted>>
             /\ \A i \in JobIds : rows[i].status # "absent" => home'[i] = home[i]
  <2>1. rows[j].status = "absent"
    BY <1>8 DEF Admit, RowInv, AbsentRows, AbsentRow
  <2> QED BY <1>8, <1>t, <2>1 DEF Admit, executorVars
<1>9. ASSUME NEW e \in Executors, NEW j \in JobIds, RequestJobCancellation(e, j)
      PROVE  UNCHANGED <<home, phase, rootDone, toCancel, admitted>>
  BY <1>9 DEF RequestJobCancellation, executorVars
<1> QED BY <1>o, <1>r, <1>t, <1>1, <1>2, <1>3, <1>4, <1>5, <1>6, <1>7, <1>8, <1>9 DEF Next

LEMMA NextEndingInv ==
    ASSUME ServiceClose, FaultKinds \subseteq RecoverableFaults
    PROVE  CountInv /\ RowInv /\ EndingInv /\ [Next]_vars => EndingInv'
<1> SUFFICES ASSUME CountInv, RowInv, EndingInv, [Next]_vars PROVE EndingInv'
  OBVIOUS
<1>1. CancelledWereAsked'
  <2>1. ASSUME NEW i \in ctxDone' \cup localCancel' PROVE Asked(rows'[i])
    BY <2>1, NextCancelledWereAsked
  <2> QED BY <2>1 DEF CancelledWereAsked, Asked, CancellationRequested
<1>2. AdmittedHaveRows'
  BY NextAdmittedHaveRows DEF AdmittedHaveRows
<1>3. WorkersInStage'
  BY NextWorkersInStage DEF WorkersInStage
<1> QED BY <1>1, <1>2, <1>3 DEF EndingInv

\* No interleaving of submissions, cancellations, reconciliations, lost leases,
\* crashes and Service.Close abandons a job in progress: it has a goroutine that
\* will end it, or its process was killed and a later executor reconciles it.
\* A failing start, read or registration does not change that (job_executor.go).
THEOREM NoRowIsAbandoned ==
    ASSUME ServiceClose, FaultKinds \subseteq RecoverableFaults
    PROVE  Spec => []NoAbandonedRow
<1>1. Init => EndingInv
  BY DEF Init, EndingInv, CancelledWereAsked, AdmittedHaveRows, WorkersInStage, InStage,
         Unclaimed, Claimed
<1>2. CountInv /\ RowInv /\ EndingInv /\ [Next]_vars => EndingInv'
  BY NextEndingInv
<1>3. CountInv /\ RowInv /\ EndingInv => NoAbandonedRow
  <2> SUFFICES ASSUME CountInv, RowInv, EndingInv, NEW j \in JobIds,
                      rows[j].status \in {"queued", "running"}, pc[j] \notin Counted
               PROVE  HomeCrashed(j)
    BY DEF NoAbandonedRow
  <2>1. pc[j] \in {"none", "done"}
    BY DEF CountInv, TypeOK, WorkerPC, Counted, HoldsSlot
  <2>2. pc[j] # "none"
    BY DEF RowInv, AbsentRows, AbsentRow
  <2>3. InStage(j)
    BY DEF EndingInv, WorkersInStage
  <2> QED BY <2>1, <2>2, <2>3 DEF InStage, Terminal
<1> QED BY <1>1, <1>2, <1>3, RowInvariant, PTL DEF Spec
=============================================================================

----------------------------- MODULE JobLifecycle -----------------------------
(***************************************************************************)
(* What a durable job record promises whoever reads it: the life of a job  *)
(* as docs/architecture.md ("Persistent job records") draws it, with the   *)
(* cancellation request as part of the record.  Owners, processes, leases  *)
(* and goroutines do not appear.  One step may move several jobs, as       *)
(* reconciliation does.                                                    *)
(***************************************************************************)
CONSTANT JobIds

VARIABLE job    \* the visible state of each job

Outcomes == {"succeeded", "failed", "cancelled"}
JobView == [status : {"absent", "queued", "running"} \cup Outcomes, asked : BOOLEAN]

\* The moves of one job.  A cancellation request leaves only one outcome.
Submitted(s, t) == s.status = "absent" /\ t.status = "queued" /\ ~t.asked
Started(s, t) == s.status = "queued" /\ t.status = "running" /\ ~t.asked
Asked(s, t) == s.status = "running" /\ t.status = "running" /\ t.asked
CancelledNow(s, t) == s.status \in {"queued", "running"} /\ t.status = "cancelled" /\ t.asked
Failed(s, t) == s.status \in {"queued", "running"} /\ ~s.asked /\ t.status = "failed" /\ ~t.asked
Succeeded(s, t) == s.status = "running" /\ ~s.asked /\ t.status = "succeeded" /\ ~t.asked

Move(s, t) == \/ Submitted(s, t) \/ Started(s, t) \/ Asked(s, t)
              \/ CancelledNow(s, t) \/ Failed(s, t) \/ Succeeded(s, t)

Init == job = [j \in JobIds |-> [status |-> "absent", asked |-> FALSE]]

Next ==
    /\ job' \in [JobIds -> JobView]
    /\ \A j \in JobIds : job'[j] = job[j] \/ Move(job[j], job'[j])

Spec == Init /\ [][Next]_job
=============================================================================

------------------------------ MODULE WorkProofs ------------------------------
(***************************************************************************)
(* The work of several processes on one corpus behaves, in each component, *)
(* as that component alone: the executors as Jobs, the refreshes as        *)
(* Clusters, the leases as CorpusLeases.  What is proved of each of them   *)
(* holds of the whole.                                                     *)
(***************************************************************************)
EXTENDS MCWork, JobsProofs, ClustersProofs, CorpusLeasesProofs
------------------------------------------------------------------------------
LEMMA WorkStarts == WorkInit => Init /\ ClusterInit /\ LeaseInit
BY DEF WorkInit, ClustersAtRest, CorpusAtRest

\* A step of the whole is a step of each component, or leaves it as it was.
LEMMA WorkSteps ==
    [WorkNext]_workVars =>
       [Next]_vars /\ [ClusterNext]_clusterVars /\ [LeaseNext]_leaseVars
BY DEF WorkNext, TeamNext, workVars

(***************************************************************************)
(* The executors of the job table (jobs.go), the refreshes of the clusters *)
(* (cluster_projection.go) and the processes that open, back up and        *)
(* restore the file (lock.go, restore.go) do not disturb each other: each  *)
(* keeps the behaviours of its own specification beside the others.  A     *)
(* restore does replace the tables of the other two, but no process has    *)
(* them open then (HandlesStayCurrent).                                    *)
(***************************************************************************)
THEOREM WorkComposes == WorkSpec => Spec /\ ClusterSpec /\ LeaseSpec
BY WorkStarts, WorkSteps, PTL DEF WorkSpec, Spec, ClusterSpec, LeaseSpec

\* Job rows and executors, clusters and refreshers, files and leases stay well
\* formed: what the corpus can read back from its tables and lock files.
THEOREM WorkTypeCorrect == WorkSpec => []WorkTypeOK
BY WorkComposes, TypeCorrect, ClustersTypeCorrect, LeasesTypeCorrect, PTL DEF WorkTypeOK
=============================================================================

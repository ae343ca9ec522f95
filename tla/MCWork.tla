------------------------------- MODULE MCWork -------------------------------
(***************************************************************************)
(* The work of several processes on one corpus: the executors that share a *)
(* durable job, the refreshes of the duplicate clusters, and the leases    *)
(* under which processes open, back up, migrate and restore the file.      *)
(* They share no variable, and none reads what another writes, so that     *)
(* interleaving them would only multiply the states: a behaviour is one of *)
(* one of them, chosen in its initial state, with the others at rest.      *)
(***************************************************************************)
EXTENDS Jobs, Clusters, CorpusLeases, FiniteSetsExt, TLC

CONSTANTS titleA, titleB

VARIABLES subject,
    team        \* the processes that use the corpus file

ClusterTitles == {{titleA}, {titleB}}

ClustersAtRest == ClusterInit /\ threads = [r \in Refs |-> {}]
CorpusAtRest == LeaseInit /\ db.id = 0 /\ team = {}

\* Two processes at a time, of one release or of two.
Teams == kSubset(2, Processes)

WorkInit ==
    /\ Init
    /\ \/ subject = "jobs" /\ ClustersAtRest /\ CorpusAtRest
       \/ subject = "clusters" /\ ClusterInit /\ CorpusAtRest
       \/ subject = "leases" /\ LeaseInit /\ team \in Teams /\ ClustersAtRest

TeamNext ==
    /\ LeaseNext
    /\ \A p \in Processes \ team : at'[p] = "idle"

WorkNext ==
    /\ UNCHANGED <<subject, team>>
    /\ \/ subject = "jobs" /\ Next /\ UNCHANGED <<clusterVars, leaseVars>>
       \/ subject = "clusters" /\ ClusterNext /\ UNCHANGED <<vars, leaseVars>>
       \/ subject = "leases" /\ TeamNext /\ UNCHANGED <<vars, clusterVars>>

workVars == <<vars, clusterVars, leaseVars, subject, team>>
WorkSpec == WorkInit /\ [][WorkNext]_workVars

(***************************************************************************)
(* Job rows and executors, clusters and refreshers, files and leases are   *)
(* well formed: what a row, a projection, a manifest or a lock file can be *)
(* read back as.                                                           *)
(***************************************************************************)
WorkTypeOK == TypeOK /\ ClustersTypeOK /\ LeasesTypeOK

\* Executors and Refreshers are the same processes, and so are Processes but
\* for the old one; Backups are paths.
WorkSymmetry ==
    Permutations(Executors) \cup Permutations({titleA, titleB}) \cup Permutations(Backups)
=============================================================================

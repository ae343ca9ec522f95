------------------------------ MODULE Clusters ------------------------------
(***************************************************************************)
(* The duplicate-cluster projection of one repository: the refresh         *)
(* (internal/app/clustering.go, internal/clustering), its commit           *)
(* (internal/corpus/cluster_projection.go) and the membership decisions    *)
(* that govern it (internal/corpus/cluster_governance.go).                 *)
(*                                                                         *)
(* A refresh reads one snapshot, computes outside any transaction, and     *)
(* commits if the threads and the decisions are still the ones it read.    *)
(* Threads are stored, and decisions added, at any time meanwhile.         *)
(*                                                                         *)
(* A thread is its set of title tokens (none: not stored); two threads are *)
(* similar when they share one.  The source digest covers update times,    *)
(* which grow with every stored change: it is their number.                *)
(***************************************************************************)
EXTENDS Naturals, FiniteSets, Sequences, FiniteSetsExt

CONSTANTS
    Refs,           \* thread numbers
    Titles,         \* the sets of title tokens a thread may have
    Refreshers,     \* callers of RefreshClusters
    MaxChanges      \* bound on the thread changes and the decisions together

ASSUME ClustersAssumption ==
    /\ Refs \subseteq Nat /\ IsFiniteSet(Refs)
    /\ {} \notin Titles
    /\ MaxChanges \in Nat

VARIABLES
    threads,        \* the stored threads
    source,         \* their source revision
    overrides,      \* cluster_overrides, by id
    governance,     \* governance_revision of the projection state
    clusters,       \* the stored clusters, by their anchor (stable id)
    current,        \* the identity of the current run
    refresh         \* what each refresher is about to commit

clusterVars == <<threads, source, overrides, governance, clusters, current, refresh>>
-----------------------------------------------------------------------------
Actions == {"include", "exclude", "set_canonical"}
Never == [source |-> 0, governance |-> 0, ran |-> FALSE]
NoCluster == [state |-> "none", canonical |-> 0, members |-> [r \in Refs |-> "no"]]
Nothing == [active |-> FALSE, source |-> 0, governance |-> 0,
            result |-> [a \in Refs |-> NoCluster]]

(***************************************************************************)
(* The engine: clusters are the connected components of two or more.       *)
(***************************************************************************)
Similar(t, q, r) == t[q] \cap t[r] # {}
ClosedUnderSimilarity(t, S) ==
    \A q \in S : \A r \in Refs : Similar(t, q, r) => r \in S
Component(t, r) ==
    {q \in Refs : \A S \in SUBSET Refs :
        r \in S /\ ClosedUnderSimilarity(t, S) => q \in S}

\* chooseCanonical, whose choice is also the stable id.
IsAnchor(t, a) ==
    /\ \E q \in Refs : q # a /\ Similar(t, q, a)
    /\ \A q \in Component(t, a) : a <= q

EngineCluster(t, a) ==
    LET group == Component(t, a)
    IN  [state |-> "open", canonical |-> a,
         members |-> [r \in Refs |-> IF r \in group THEN "in" ELSE "no"]]

(***************************************************************************)
(* Decisions are applied in order: the last one about a member, and the    *)
(* last choice of a canonical member, are what remains.                    *)
(***************************************************************************)
Decided(os, a, r) ==
    LET about == {i \in DOMAIN os : os[i].cluster = a /\ os[i].ref = r}
    IN  IF about = {} THEN "none" ELSE os[Max(about)].action

CanonicalChoices(os, a) ==
    {i \in DOMAIN os : os[i].cluster = a /\ os[i].action = "set_canonical"}

\* applyOverrides.
Governed(os, a, c) ==
    [state |-> c.state,
     canonical |-> IF CanonicalChoices(os, a) = {} THEN c.canonical
                   ELSE os[Max(CanonicalChoices(os, a))].ref,
     members |-> [r \in Refs |->
        CASE Decided(os, a, r) = "none" -> c.members[r]
          [] Decided(os, a, r) = "exclude" -> "out"
          [] OTHER -> "in"]]

HasPersistentGovernance(os, a) ==
    \E i \in DOMAIN os :
        os[i].cluster = a /\ os[i].action \in {"include", "set_canonical"}

\* Governed clusters the engine no longer finds are dropped: mutant.
ReconciledFoundOnly(t, os, stored) ==
    [a \in Refs |->
        IF IsAnchor(t, a) THEN Governed(os, a, EngineCluster(t, a)) ELSE NoCluster]

\* ReconcileProjection: the clusters the engine finds, a retired one opened
\* again, and the governed ones it no longer finds, as they were stored.
Reconciled(t, os, stored) ==
    [a \in Refs |->
        IF IsAnchor(t, a) THEN Governed(os, a, EngineCluster(t, a))
        ELSE IF stored[a].state # "none" /\ HasPersistentGovernance(os, a)
        THEN Governed(os, a, stored[a])
        ELSE NoCluster]

\* Clusters that are gone keep their members: mutant.
PersistedKeepingMissing(stored, result) ==
    [a \in Refs |->
        IF result[a].state # "none" THEN result[a] ELSE stored[a]]

Retired(c) ==
    [state |-> "retired", canonical |-> c.canonical, members |-> NoCluster.members]

\* persistProjectionClustersTx: what is missing from the result is retired.
Persisted(stored, result) ==
    [a \in Refs |->
        IF result[a].state # "none" THEN result[a]
        ELSE IF stored[a].state = "open"
        THEN Retired(stored[a])
        ELSE stored[a]]

\* A member that is not a stored thread has no state, and is refused.
IsValid(t, result) ==
    \A a, r \in Refs : result[a].members[r] # "no" => t[r] # {}

\* Decisions do not matter: mutant.
MatchesSource == current.ran /\ current.source = source

\* Identity.Matches.
Matches == current.ran /\ current.source = source /\ current.governance = governance
-----------------------------------------------------------------------------
\* A thread is stored, or stored again with another title.
StoreThread(r) ==
    /\ source + Len(overrides) < MaxChanges
    /\ \E title \in Titles \ {threads[r]} : threads' = [threads EXCEPT ![r] = title]
    /\ source' = source + 1
    /\ UNCHANGED <<overrides, governance, clusters, current, refresh>>

\* The revision advances with the insert and with the transaction: mutant.
AddClusterOverrideTwice(a, r, action) ==
    /\ source + Len(overrides) < MaxChanges
    /\ clusters[a].state # "none"
    /\ ~(action = "exclude" /\ r = clusters[a].canonical)
    /\ overrides' = Append(overrides, [cluster |-> a, ref |-> r, action |-> action])
    /\ governance' = governance + 2
    /\ UNCHANGED <<threads, source, clusters, current, refresh>>

\* The decision and the revision are one transaction.
AddClusterOverride(a, r, action) ==
    /\ source + Len(overrides) < MaxChanges
    /\ clusters[a].state # "none"
    /\ ~(action = "exclude" /\ r = clusters[a].canonical)
    /\ overrides' = Append(overrides, [cluster |-> a, ref |-> r, action |-> action])
    /\ governance' = governance + 1
    /\ UNCHANGED <<threads, source, clusters, current, refresh>>

\* LoadClusterRefreshSnapshot and the computation from it, unless the
\* projection is unchanged.
LoadClusterRefreshSnapshot(p) ==
    /\ ~refresh[p].active
    /\ ~Matches
    /\ refresh' = [refresh EXCEPT ![p] =
           [active |-> TRUE, source |-> source, governance |-> governance,
            result |-> Reconciled(threads, overrides, clusters)]]
    /\ UNCHANGED <<threads, source, overrides, governance, clusters, current>>

\* Whatever was computed is stored: mutant.
CommitUnchecked(p) ==
    /\ refresh[p].active
    /\ refresh' = [refresh EXCEPT ![p] = Nothing]
    /\ clusters' = Persisted(clusters, refresh[p].result)
    /\ current' = [source |-> source, governance |-> governance, ran |-> TRUE]
    /\ UNCHANGED <<threads, source, overrides, governance>>

\* CommitClusterProjection: the inputs are read again with the writer held.
\* The members were validated against the snapshot's threads, which the test
\* of the source revision shows to be the stored ones.
CommitClusterProjection(p) ==
    /\ refresh[p].active
    /\ refresh' = [refresh EXCEPT ![p] = Nothing]
    /\ IF /\ IsValid(threads, refresh[p].result)
          /\ refresh[p].source = source /\ refresh[p].governance = governance
          /\ ~Matches
       THEN /\ clusters' = Persisted(clusters, refresh[p].result)
            /\ current' = [source |-> source, governance |-> governance, ran |-> TRUE]
       ELSE UNCHANGED <<clusters, current>>
    /\ UNCHANGED <<threads, source, overrides, governance>>

ClusterNext ==
    \/ \E r \in Refs : StoreThread(r)
    \/ \E a, r \in Refs, action \in Actions : AddClusterOverride(a, r, action)
    \/ \E p \in Refreshers :
          LoadClusterRefreshSnapshot(p) \/ CommitClusterProjection(p)

ClusterInit ==
    /\ threads \in [Refs -> Titles \cup {{}}]
    /\ source = 0
    /\ overrides = <<>>
    /\ governance = 0
    /\ clusters = [a \in Refs |-> NoCluster]
    /\ current = Never
    /\ refresh = [p \in Refreshers |-> Nothing]

ClusterSpec == ClusterInit /\ [][ClusterNext]_clusterVars
-----------------------------------------------------------------------------
Cluster == [state : {"none", "open", "retired"}, canonical : Refs \cup {0},
            members : [Refs -> {"no", "in", "out"}]]

\* The projection, the decisions and the pending commits are well formed.
ClustersTypeOK ==
    /\ threads \in [Refs -> Titles \cup {{}}]
    /\ source \in 0..MaxChanges
    /\ overrides \in Seq([cluster : Refs, ref : Refs, action : Actions])
    /\ governance \in 0..MaxChanges
    /\ clusters \in [Refs -> Cluster]
    /\ current \in [source : 0..MaxChanges, governance : 0..MaxChanges, ran : BOOLEAN]
    /\ refresh \in [Refreshers ->
           [active : BOOLEAN, source : 0..MaxChanges, governance : 0..MaxChanges,
            result : [Refs -> Cluster]]]

\* What one refresh without interruption would make of the stored state.
Refreshed == Persisted(clusters, Reconciled(threads, overrides, clusters))

\* RefreshClusters reports "unchanged" and computes nothing when the identity
\* matches: a refresh that ran all the same would change nothing.
UnchangedIsUnchanged == Matches => clusters = Refreshed

\* A commit stores what an uninterrupted refresh would store at that moment,
\* whatever other refreshers committed since its snapshot: the clusters it
\* reconciled with are not read again, only the two revisions
\* (CommitClusterProjection).
RefreshIsAtomic == [][clusters' # clusters => clusters' = Refreshed]_clusterVars

\* A projection of the present decisions shows the last one about each member
\* (cluster_governance.go: "the next explicit refresh applies the decision"),
\* also of a cluster the engine no longer finds.
DecisionsApply ==
    current.ran /\ current.governance = governance =>
        \A a, r \in Refs :
            /\ Decided(overrides, a, r) = "exclude" => clusters[a].members[r] # "in"
            /\ Decided(overrides, a, r) \in {"include", "set_canonical"} =>
                  clusters[a].members[r] = "in"

\* Two clusters on show share a member only where a decision made them:
\* GetClusterProjectionForMember has one answer for a thread nobody governed.
UngovernedClustersAreDisjoint ==
    \A a, b \in Refs :
        /\ a # b
        /\ clusters[a].state = "open" /\ clusters[b].state = "open"
        /\ \E r \in Refs : clusters[a].members[r] = "in" /\ clusters[b].members[r] = "in"
        => HasPersistentGovernance(overrides, a) \/ HasPersistentGovernance(overrides, b)
=============================================================================

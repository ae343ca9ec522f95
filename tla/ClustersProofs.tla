--------------------------- MODULE ClustersProofs ---------------------------
(***************************************************************************)
(* What holds of the duplicate clusters of a repository for every set of   *)
(* threads, titles and refreshers and every number of changes.             *)
(***************************************************************************)
EXTENDS Clusters, WellFoundedInduction, TLAPS
-----------------------------------------------------------------------------
(***************************************************************************)
(* The inductive invariant.  The governance revision counts the decisions, *)
(* no snapshot is ahead of the revisions, and, the heart of the matter, a  *)
(* pending result whose revisions are still the present ones was computed  *)
(* from the clusters that are still stored, unless the projection has      *)
(* meanwhile been committed at these revisions.                            *)
(***************************************************************************)
RevisionsCount ==
    /\ governance = Len(overrides)
    /\ source + governance <= MaxChanges

NotAhead ==
    /\ current.source <= source /\ current.governance <= governance
    /\ \A p \in Refreshers :
          refresh[p].source <= source /\ refresh[p].governance <= governance

PendingIsReconciled ==
    \A p \in Refreshers :
        /\ refresh[p].active
        /\ refresh[p].source = source /\ refresh[p].governance = governance
        /\ ~Matches
        => refresh[p].result = Reconciled(threads, overrides, clusters)

\* Decisions are about clusters there are, and a cluster that is not shown
\* any more has members only where a decision keeps them.
DecidedClustersExist ==
    \A i \in DOMAIN overrides : clusters[overrides[i].cluster].state # "none"

RetiredIsEmpty ==
    \A a \in Refs :
        clusters[a].state = "retired" /\ ~HasPersistentGovernance(overrides, a) =>
            clusters[a].members = NoCluster.members

StoreInv ==
    /\ ClustersTypeOK
    /\ RevisionsCount
    /\ NotAhead

ViewInv ==
    /\ UnchangedIsUnchanged
    /\ DecidedClustersExist
    /\ RetiredIsEmpty
    /\ DecisionsApply
    /\ UngovernedClustersAreDisjoint

ClustersInv == StoreInv /\ PendingIsReconciled /\ ViewInv

Override == [cluster : Refs, ref : Refs, action : Actions]
-----------------------------------------------------------------------------
(***************************************************************************)
(* The last of some decisions.                                             *)
(***************************************************************************)
NatLess == {pair \in Nat \X Nat : pair[1] < pair[2]}

LEMMA SmallestNumber ==
    ASSUME NEW S \in SUBSET Nat, S # {}
    PROVE  \E x \in S : \A y \in S : x <= y
<1>1. IsWellFoundedOn(NatLess, Nat)
  BY NatLessThanWellFounded, Zenon DEF OpToRel, NatLess
<1>2. \E x \in S : \A y \in S : ~ (<<y, x>> \in NatLess)
  BY <1>1, WFMin, Zenon
<1>3. \A x, y \in S : y < x => <<y, x>> \in NatLess
  BY DEF NatLess
<1>4. \A x, y \in S : ~ (y < x) => x <= y
  OBVIOUS
<1>5. QED
  BY <1>2, <1>3, <1>4

LEMMA LastDecision ==
    ASSUME NEW os \in Seq(Override), NEW S \in SUBSET DOMAIN os, S # {}
    PROVE  Max(S) \in S /\ \A i \in S : i <= Max(S)
<1>1. Len(os) \in Nat /\ \A i \in S : i \in 1..Len(os)
  OBVIOUS
<1> DEFINE T == {Len(os) - i : i \in S}
<1>2. T \in SUBSET Nat /\ T # {}
  BY <1>1
<1>3. PICK x \in T : \A y \in T : x <= y
  BY <1>2, SmallestNumber
<1>4. PICK i \in S : x = Len(os) - i
  OBVIOUS
<1>5. \A j \in S : i >= j
  <2>1. \A j \in S : Len(os) - j \in T
    OBVIOUS
  <2>2. \A j \in S : Len(os) - i <= Len(os) - j
    BY <1>3, <1>4, <2>1
  <2>3. QED
    BY <1>1, <2>2
<1>6. Max(S) \in S /\ \A j \in S : Max(S) >= j
  BY <1>5 DEF Max
<1>7. QED
  BY <1>1, <1>6

LEMMA DecidedFields ==
    ASSUME NEW os \in Seq(Override), NEW a \in Refs, NEW r \in Refs
    PROVE  \/ Decided(os, a, r) = "none"
           \/ /\ Decided(os, a, r) \in Actions
              /\ \E i \in DOMAIN os :
                    os[i].cluster = a /\ os[i].action = Decided(os, a, r)
<1> DEFINE about == {i \in DOMAIN os : os[i].cluster = a /\ os[i].ref = r}
<1>1. CASE about = {}
  BY <1>1 DEF Decided
<1>2. CASE about # {}
  <2>1. Max(about) \in about
    BY <1>2, LastDecision
  <2>2. os[Max(about)] \in Override
    BY <2>1
  <2>3. Decided(os, a, r) = os[Max(about)].action
    BY <1>2 DEF Decided
  <2>4. QED
    BY <2>1, <2>2, <2>3 DEF Override
<1>3. QED
  BY <1>1, <1>2

LEMMA CanonicalChoiceType ==
    ASSUME NEW os \in Seq(Override), NEW a \in Refs, CanonicalChoices(os, a) # {}
    PROVE  os[Max(CanonicalChoices(os, a))].ref \in Refs
<1>1. CanonicalChoices(os, a) \in SUBSET DOMAIN os
  BY DEF CanonicalChoices
<1>2. Max(CanonicalChoices(os, a)) \in DOMAIN os
  BY <1>1, LastDecision
<1>3. os[Max(CanonicalChoices(os, a))] \in Override
  BY <1>2
<1>4. QED
  BY <1>3 DEF Override
-----------------------------------------------------------------------------
(***************************************************************************)
(* The clusters a refresh makes.                                           *)
(***************************************************************************)
LEMMA NoClusterType ==
    /\ NoCluster \in Cluster
    /\ NoCluster.state = "none"
    /\ NoCluster.members \in [Refs -> {"no", "in", "out"}]
    /\ \A r \in Refs : NoCluster.members[r] = "no"
BY DEF NoCluster, Cluster

LEMMA EngineClusterType ==
    ASSUME NEW t, NEW a \in Refs
    PROVE  /\ EngineCluster(t, a) \in Cluster
           /\ EngineCluster(t, a).state = "open"
           /\ \A r \in Refs :
                 EngineCluster(t, a).members[r] = "in" => r \in Component(t, a)
BY DEF EngineCluster, Cluster

\* Decisions change the canonical member and the members, never the state, and
\* a second application changes nothing.
LEMMA GovernedFields ==
    ASSUME NEW os \in Seq(Override), NEW a \in Refs, NEW c \in Cluster
    PROVE  /\ Governed(os, a, c) \in Cluster
           /\ Governed(os, a, c).state = c.state
           /\ \A r \in Refs :
                 Governed(os, a, c).members[r] =
                    CASE Decided(os, a, r) = "none" -> c.members[r]
                      [] Decided(os, a, r) = "exclude" -> "out"
                      [] OTHER -> "in"
           /\ Governed(os, a, Governed(os, a, c)) = Governed(os, a, c)
<1> DEFINE canonical == IF CanonicalChoices(os, a) = {} THEN c.canonical
                        ELSE os[Max(CanonicalChoices(os, a))].ref
           decided == [r \in Refs |->
                          CASE Decided(os, a, r) = "none" -> c.members[r]
                            [] Decided(os, a, r) = "exclude" -> "out"
                            [] OTHER -> "in"]
           governed == [state |-> c.state, canonical |-> canonical, members |-> decided]
<1>1. /\ c.state \in {"none", "open", "retired"} /\ c.canonical \in Refs \cup {0}
      /\ c.members \in [Refs -> {"no", "in", "out"}]
      /\ c = [state |-> c.state, canonical |-> c.canonical, members |-> c.members]
  BY DEF Cluster
<1>2. Governed(os, a, c) = governed
  BY DEF Governed
<1>3. canonical \in Refs \cup {0}
  BY <1>1, CanonicalChoiceType
<1>4. \A r \in Refs : decided[r] \in {"no", "in", "out"}
  BY <1>1
<1>5. governed \in Cluster
  BY <1>1, <1>3, <1>4 DEF Cluster
<1>6. Governed(os, a, governed) =
         [state |-> c.state,
          canonical |-> IF CanonicalChoices(os, a) = {} THEN canonical
                        ELSE os[Max(CanonicalChoices(os, a))].ref,
          members |-> [r \in Refs |->
              CASE Decided(os, a, r) = "none" -> decided[r]
                [] Decided(os, a, r) = "exclude" -> "out"
                [] OTHER -> "in"]]
  BY DEF Governed
<1>7. Governed(os, a, governed) = governed
  BY <1>6
<1>8. QED
  BY <1>2, <1>5, <1>7

LEMMA ReconciledFields ==
    ASSUME NEW t, NEW os \in Seq(Override), NEW stored \in [Refs -> Cluster],
           NEW a \in Refs
    PROVE  /\ Reconciled(t, os, stored) \in [Refs -> Cluster]
           /\ Reconciled(t, os, stored)[a] =
                 IF IsAnchor(t, a) THEN Governed(os, a, EngineCluster(t, a))
                 ELSE IF stored[a].state # "none" /\ HasPersistentGovernance(os, a)
                 THEN Governed(os, a, stored[a])
                 ELSE NoCluster
<1>1. \A b \in Refs : /\ Governed(os, b, EngineCluster(t, b)) \in Cluster
                      /\ Governed(os, b, stored[b]) \in Cluster
  BY EngineClusterType, GovernedFields
<1>2. QED
  BY <1>1, NoClusterType DEF Reconciled

LEMMA PersistedFields ==
    ASSUME NEW stored \in [Refs -> Cluster], NEW result \in [Refs -> Cluster],
           NEW a \in Refs
    PROVE  /\ Persisted(stored, result) \in [Refs -> Cluster]
           /\ Persisted(stored, result)[a] =
                 IF result[a].state # "none" THEN result[a]
                 ELSE IF stored[a].state = "open"
                 THEN Retired(stored[a])
                 ELSE stored[a]
<1>1. \A b \in Refs : Retired(stored[b]) \in Cluster
  BY NoClusterType DEF Retired, Cluster
<1>2. QED
  BY <1>1 DEF Persisted

(***************************************************************************)
(* What a refresh makes of one cluster: the engine's cluster, or the       *)
(* stored one, under the decisions; retired without members; or as it was. *)
(***************************************************************************)
LEMMA RefreshedCluster ==
    ASSUME NEW t, NEW os \in Seq(Override), NEW stored \in [Refs -> Cluster],
           NEW a \in Refs
    PROVE  LET next == Persisted(stored, Reconciled(t, os, stored))
           IN  /\ next \in [Refs -> Cluster]
               /\ next[a] =
                     IF IsAnchor(t, a) THEN Governed(os, a, EngineCluster(t, a))
                     ELSE IF stored[a].state # "none" /\ HasPersistentGovernance(os, a)
                     THEN Governed(os, a, stored[a])
                     ELSE IF stored[a].state = "open"
                     THEN Retired(stored[a])
                     ELSE stored[a]
<1> DEFINE result == Reconciled(t, os, stored)
<1>1. result \in [Refs -> Cluster]
  BY ReconciledFields
<1>2. /\ Governed(os, a, EngineCluster(t, a)).state = "open"
      /\ Governed(os, a, stored[a]).state = stored[a].state
  BY EngineClusterType, GovernedFields
<1>3. result[a] = IF IsAnchor(t, a) THEN Governed(os, a, EngineCluster(t, a))
                  ELSE IF stored[a].state # "none" /\ HasPersistentGovernance(os, a)
                  THEN Governed(os, a, stored[a])
                  ELSE NoCluster
  BY ReconciledFields
<1> HIDE DEF result
<1>4. Persisted(stored, result) \in [Refs -> Cluster]
  BY <1>1, PersistedFields
<1>5. Persisted(stored, result)[a] =
         IF result[a].state # "none" THEN result[a]
         ELSE IF stored[a].state = "open"
         THEN Retired(stored[a])
         ELSE stored[a]
  BY <1>1, PersistedFields
<1>6. QED
  BY <1>2, <1>3, <1>4, <1>5, NoClusterType DEF result

\* A refresh of what a refresh stored stores the same.
LEMMA RefreshIsIdempotent ==
    ASSUME NEW t, NEW os \in Seq(Override), NEW stored \in [Refs -> Cluster]
    PROVE  LET next == Persisted(stored, Reconciled(t, os, stored))
           IN  Persisted(next, Reconciled(t, os, next)) = next
<1> DEFINE next == Persisted(stored, Reconciled(t, os, stored))
           again == Persisted(next, Reconciled(t, os, next))
<1>1. next \in [Refs -> Cluster]
  <2>1. CASE Refs = {}
    BY <2>1 DEF Persisted
  <2>2. CASE Refs # {}
    BY <2>2, RefreshedCluster
  <2>3. QED
    BY <2>1, <2>2
<1>2. again \in [Refs -> Cluster]
  <2>1. CASE Refs = {}
    BY <2>1 DEF Persisted
  <2>2. CASE Refs # {}
    BY <1>1, <2>2, RefreshedCluster
  <2>3. QED
    BY <2>1, <2>2
<1>3. ASSUME NEW a \in Refs PROVE again[a] = next[a]
  <2>1. next[a] =
           IF IsAnchor(t, a) THEN Governed(os, a, EngineCluster(t, a))
           ELSE IF stored[a].state # "none" /\ HasPersistentGovernance(os, a)
           THEN Governed(os, a, stored[a])
           ELSE IF stored[a].state = "open"
           THEN Retired(stored[a])
           ELSE stored[a]
    BY RefreshedCluster
  <2>2. again[a] =
           IF IsAnchor(t, a) THEN Governed(os, a, EngineCluster(t, a))
           ELSE IF next[a].state # "none" /\ HasPersistentGovernance(os, a)
           THEN Governed(os, a, next[a])
           ELSE IF next[a].state = "open"
           THEN Retired(next[a])
           ELSE next[a]
    BY <1>1, RefreshedCluster
  <2>3. /\ Governed(os, a, stored[a]).state = stored[a].state
        /\ Governed(os, a, Governed(os, a, stored[a])) = Governed(os, a, stored[a])
    BY GovernedFields
  <2> HIDE DEF next, again
  <2>4. stored[a].state \in {"none", "open", "retired"}
    BY DEF Cluster
  <2>5. QED
    BY <2>1, <2>2, <2>3, <2>4 DEF Retired
<1> HIDE DEF next, again
<1>4. again = next
  BY <1>1, <1>2, <1>3
<1>5. QED
  BY <1>4 DEF next, again
-----------------------------------------------------------------------------
(***************************************************************************)
(* Similarity components are equivalence classes.                          *)
(***************************************************************************)
LEMMA ComponentSymmetric ==
    ASSUME NEW t, NEW r \in Refs, NEW q \in Component(t, r)
    PROVE  r \in Component(t, q)
<1>1. q \in Refs /\ \A S \in SUBSET Refs :
                       r \in S /\ ClosedUnderSimilarity(t, S) => q \in S
  BY DEF Component
<1>2. SUFFICES ASSUME NEW S \in SUBSET Refs, q \in S, ClosedUnderSimilarity(t, S),
                      r \notin S
               PROVE  FALSE
  BY DEF Component
<1>3. ClosedUnderSimilarity(t, Refs \ S)
  BY <1>2 DEF ClosedUnderSimilarity, Similar
<1>4. q \in Refs \ S
  BY <1>1, <1>2, <1>3
<1>5. QED
  BY <1>2, <1>4

LEMMA ComponentTransitive ==
    ASSUME NEW t, NEW q \in Refs, NEW r \in Refs, NEW s \in Refs,
           r \in Component(t, q), s \in Component(t, r)
    PROVE  s \in Component(t, q)
BY DEF Component

\* A component has one anchor.
LEMMA OneAnchor ==
    ASSUME NEW t, NEW a \in Refs, NEW b \in Refs, IsAnchor(t, a), IsAnchor(t, b),
           NEW r \in Component(t, a), r \in Component(t, b)
    PROVE  a = b
<1>1. r \in Refs
  BY DEF Component
<1>2. a \in Component(t, r) /\ b \in Component(t, r)
  BY ComponentSymmetric
<1>3. b \in Component(t, a) /\ a \in Component(t, b)
  BY <1>1, <1>2, ComponentTransitive
<1>4. a <= b /\ b <= a
  BY <1>3 DEF IsAnchor
<1>5. QED
  BY <1>4, ClustersAssumption
-----------------------------------------------------------------------------
LEMMA InitClustersInv == ClusterInit => ClustersInv
<1>1. SUFFICES ASSUME ClusterInit PROVE ClustersInv
  OBVIOUS
<1>2. \A a \in Refs : clusters[a] = NoCluster
  BY <1>1 DEF ClusterInit
<1>3. \A p \in Refreshers : refresh[p] = Nothing
  BY <1>1 DEF ClusterInit
<1>4. Len(overrides) = 0 /\ DOMAIN overrides = {}
  BY <1>1 DEF ClusterInit
<1>5. ~Matches
  BY <1>1 DEF ClusterInit, Matches, Never
<1>6. Nothing \in [active : BOOLEAN, source : 0..MaxChanges, governance : 0..MaxChanges,
                   result : [Refs -> Cluster]]
  BY NoClusterType, ClustersAssumption DEF Nothing
<1>7. ClustersTypeOK
  <2>1. threads \in [Refs -> Titles \cup {{}}]
    BY <1>1 DEF ClusterInit
  <2>2. overrides \in Seq([cluster : Refs, ref : Refs, action : Actions])
    BY <1>1 DEF ClusterInit
  <2>3. clusters \in [Refs -> Cluster]
    BY <1>1, NoClusterType DEF ClusterInit
  <2>4. current \in [source : 0..MaxChanges, governance : 0..MaxChanges, ran : BOOLEAN]
    BY <1>1, ClustersAssumption DEF ClusterInit, Never
  <2>5. refresh \in [Refreshers ->
           [active : BOOLEAN, source : 0..MaxChanges, governance : 0..MaxChanges,
            result : [Refs -> Cluster]]]
    BY <1>1, <1>6 DEF ClusterInit
  <2>6. QED
    BY <1>1, <2>1, <2>2, <2>3, <2>4, <2>5, ClustersAssumption
       DEF ClusterInit, ClustersTypeOK
<1>8. RevisionsCount /\ NotAhead
  BY <1>1, <1>3, <1>4, ClustersAssumption
     DEF ClusterInit, RevisionsCount, NotAhead, Never, Nothing
<1>9. PendingIsReconciled
  BY <1>3 DEF PendingIsReconciled, Nothing
<1>10. ViewInv
  <2>1. UnchangedIsUnchanged
    BY <1>5 DEF UnchangedIsUnchanged
  <2>2. DecidedClustersExist
    BY <1>4 DEF DecidedClustersExist
  <2>3. RetiredIsEmpty /\ UngovernedClustersAreDisjoint
    BY <1>2, NoClusterType DEF RetiredIsEmpty, UngovernedClustersAreDisjoint
  <2>4. DecisionsApply
    BY <1>1 DEF ClusterInit, DecisionsApply, Never
  <2>5. QED
    BY <2>1, <2>2, <2>3, <2>4 DEF ViewInv
<1>11. QED
  BY <1>7, <1>8, <1>9, <1>10 DEF ClustersInv, StoreInv

(***************************************************************************)
(* A change of a thread outdates every snapshot and the current run.       *)
(***************************************************************************)
LEMMA StoreThreadKeepsIInv ==
    ASSUME ClustersInv, NEW r \in Refs, StoreThread(r)
    PROVE  ClustersInv'
<1>1. PICK title \in Titles \ {threads[r]} : threads' = [threads EXCEPT ![r] = title]
  BY DEF StoreThread
<1>2. /\ source + Len(overrides) < MaxChanges /\ source' = source + 1
      /\ UNCHANGED <<overrides, governance, clusters, current, refresh>>
  BY DEF StoreThread
<1>3. /\ ClustersTypeOK /\ RevisionsCount /\ NotAhead /\ ViewInv
  BY DEF ClustersInv, StoreInv
<1>4. /\ source \in Nat /\ governance \in Nat /\ Len(overrides) \in Nat
      /\ current.source \in Nat /\ \A p \in Refreshers : refresh[p].source \in Nat
      /\ current.governance \in Nat /\ \A p \in Refreshers : refresh[p].governance \in Nat
  BY <1>3, ClustersAssumption DEF ClustersTypeOK
<1>5. ClustersTypeOK'
  <2>1. threads' \in [Refs -> Titles \cup {{}}]
    BY <1>1, <1>3 DEF ClustersTypeOK
  <2>2. source' \in 0..MaxChanges
    BY <1>2, <1>4, ClustersAssumption
  <2>3. QED
    BY <1>2, <1>3, <2>1, <2>2 DEF ClustersTypeOK
<1>6. RevisionsCount' /\ NotAhead'
  BY <1>2, <1>3, <1>4, ClustersAssumption DEF RevisionsCount, NotAhead
<1>7. current'.source # source' /\ \A p \in Refreshers : refresh'[p].source # source'
  BY <1>2, <1>3, <1>4 DEF NotAhead
<1>8. PendingIsReconciled'
  BY <1>7 DEF PendingIsReconciled
<1>9. UnchangedIsUnchanged'
  BY <1>7 DEF UnchangedIsUnchanged, Matches
<1>10. (DecidedClustersExist /\ RetiredIsEmpty /\ DecisionsApply
          /\ UngovernedClustersAreDisjoint)'
  BY <1>2, <1>3
     DEF ViewInv, DecidedClustersExist, RetiredIsEmpty, DecisionsApply,
         UngovernedClustersAreDisjoint
<1>11. QED
  BY <1>5, <1>6, <1>8, <1>9, <1>10 DEF ClustersInv, StoreInv, ViewInv

(***************************************************************************)
(* So does a decision, whose cluster exists.                               *)
(***************************************************************************)
LEMMA AddClusterOverrideKeepsIInv ==
    ASSUME ClustersInv, NEW a \in Refs, NEW r \in Refs, NEW action \in Actions,
           AddClusterOverride(a, r, action)
    PROVE  ClustersInv'
<1> DEFINE decision == [cluster |-> a, ref |-> r, action |-> action]
<1>1. /\ source + Len(overrides) < MaxChanges
      /\ clusters[a].state # "none"
      /\ overrides' = Append(overrides, decision)
      /\ governance' = governance + 1
      /\ UNCHANGED <<threads, source, clusters, current, refresh>>
  BY DEF AddClusterOverride
<1>2. /\ ClustersTypeOK /\ RevisionsCount /\ NotAhead /\ ViewInv
  BY DEF ClustersInv, StoreInv
<1>3. /\ source \in Nat /\ governance \in Nat /\ Len(overrides) \in Nat
      /\ current.source \in Nat /\ \A p \in Refreshers : refresh[p].source \in Nat
      /\ current.governance \in Nat /\ \A p \in Refreshers : refresh[p].governance \in Nat
  BY <1>2, ClustersAssumption DEF ClustersTypeOK
<1>4. overrides \in Seq(Override) /\ decision \in Override
  BY <1>2 DEF ClustersTypeOK, Override
<1> HIDE DEF decision
<1>5. /\ overrides' \in Seq(Override)
      /\ Len(overrides') = Len(overrides) + 1
      /\ DOMAIN overrides' = DOMAIN overrides \cup {Len(overrides) + 1}
      /\ \A i \in DOMAIN overrides : overrides'[i] = overrides[i]
      /\ overrides'[Len(overrides) + 1] = decision
  BY <1>1, <1>4
<1>6. RevisionsCount' /\ NotAhead'
  BY <1>1, <1>2, <1>3, <1>5, ClustersAssumption DEF RevisionsCount, NotAhead
<1>7. ClustersTypeOK'
  <2>1. governance' \in 0..MaxChanges
    BY <1>1, <1>2, <1>3, ClustersAssumption DEF RevisionsCount
  <2>2. QED
    BY <1>1, <1>2, <1>5, <2>1 DEF ClustersTypeOK, Override
<1>8. /\ current'.governance # governance'
      /\ \A p \in Refreshers : refresh'[p].governance # governance'
  BY <1>1, <1>2, <1>3 DEF NotAhead
<1>9. PendingIsReconciled'
  BY <1>8 DEF PendingIsReconciled
<1>10. UnchangedIsUnchanged' /\ DecisionsApply'
  BY <1>8 DEF UnchangedIsUnchanged, Matches, DecisionsApply
<1>11. DecidedClustersExist'
  BY <1>1, <1>2, <1>5 DEF ViewInv, DecidedClustersExist, decision
<1>12. \A b \in Refs : HasPersistentGovernance(overrides, b) =>
                          HasPersistentGovernance(overrides', b)
  BY <1>5 DEF HasPersistentGovernance
<1>13. RetiredIsEmpty' /\ UngovernedClustersAreDisjoint'
  BY <1>1, <1>2, <1>12 DEF ViewInv, RetiredIsEmpty, UngovernedClustersAreDisjoint
<1>14. QED
  BY <1>6, <1>7, <1>9, <1>10, <1>11, <1>13 DEF ClustersInv, StoreInv, ViewInv

Snapshots == [active : BOOLEAN, source : 0..MaxChanges, governance : 0..MaxChanges,
              result : [Refs -> Cluster]]

\* What a refresh stores is a projection again, and what it computes is too.
LEMMA ReconciledType ==
    ASSUME NEW t, NEW os \in Seq(Override), NEW stored \in [Refs -> Cluster]
    PROVE  Reconciled(t, os, stored) \in [Refs -> Cluster]
<1>1. CASE Refs = {}
  BY <1>1 DEF Reconciled
<1>2. CASE Refs # {}
  BY <1>2, ReconciledFields
<1>3. QED
  BY <1>1, <1>2

LEMMA PersistedType ==
    ASSUME NEW stored \in [Refs -> Cluster], NEW result \in [Refs -> Cluster]
    PROVE  Persisted(stored, result) \in [Refs -> Cluster]
<1>1. CASE Refs = {}
  BY <1>1 DEF Persisted
<1>2. CASE Refs # {}
  BY <1>2, PersistedFields
<1>3. QED
  BY <1>1, <1>2

LEMMA NothingType == Nothing \in Snapshots /\ ~Nothing.active
                       /\ Nothing.source = 0 /\ Nothing.governance = 0
BY NoClusterType, ClustersAssumption DEF Nothing, Snapshots

\* A snapshot only prepares a commit.
LEMMA LoadKeepsIInv ==
    ASSUME ClustersInv, NEW p \in Refreshers, LoadClusterRefreshSnapshot(p)
    PROVE  ClustersInv'
<1> DEFINE local == [active |-> TRUE, source |-> source, governance |-> governance,
                     result |-> Reconciled(threads, overrides, clusters)]
<1>1. /\ refresh' = [refresh EXCEPT ![p] = local]
      /\ UNCHANGED <<threads, source, overrides, governance, clusters, current>>
  BY DEF LoadClusterRefreshSnapshot
<1>2. /\ ClustersTypeOK /\ RevisionsCount /\ NotAhead /\ PendingIsReconciled /\ ViewInv
  BY DEF ClustersInv, StoreInv
<1>3. refresh \in [Refreshers -> Snapshots]
  BY <1>2 DEF ClustersTypeOK, Snapshots
<1>4. local \in Snapshots
  BY <1>2, ReconciledType DEF ClustersTypeOK, Override, Snapshots
<1>5. /\ local.source = source /\ local.governance = governance
      /\ local.result = Reconciled(threads, overrides, clusters)
  OBVIOUS
<1> HIDE DEF local
<1>6. /\ refresh' \in [Refreshers -> Snapshots]
      /\ refresh'[p] = local
      /\ \A q \in Refreshers : q # p => refresh'[q] = refresh[q]
  BY <1>1, <1>3, <1>4
<1>7. ClustersTypeOK' /\ RevisionsCount'
  BY <1>1, <1>2, <1>6 DEF ClustersTypeOK, RevisionsCount, Snapshots
<1>8. NotAhead'
  <2>1. source \in Nat /\ governance \in Nat
    BY <1>2, ClustersAssumption DEF ClustersTypeOK
  <2>2. QED
    BY <1>1, <1>2, <1>5, <1>6, <2>1 DEF NotAhead
<1>9. Matches' <=> Matches
  BY <1>1 DEF Matches
<1>10. PendingIsReconciled'
  BY <1>1, <1>2, <1>5, <1>6, <1>9 DEF PendingIsReconciled
<1>11. ViewInv'
  BY <1>1, <1>2, <1>9
     DEF ViewInv, UnchangedIsUnchanged, Refreshed, DecidedClustersExist, RetiredIsEmpty,
         DecisionsApply, UngovernedClustersAreDisjoint
<1>12. QED
  BY <1>7, <1>8, <1>10, <1>11 DEF ClustersInv, StoreInv

(***************************************************************************)
(* A commit stores what an uninterrupted refresh would store, or nothing.  *)
(***************************************************************************)
LEMMA ClusterCommitStores ==
    ASSUME ClustersInv, NEW p \in Refreshers, CommitClusterProjection(p)
    PROVE  \/ UNCHANGED <<clusters, current>>
           \/ /\ clusters' = Refreshed
              /\ current' = [source |-> source, governance |-> governance, ran |-> TRUE]
<1>1. CASE /\ refresh[p].active
           /\ refresh[p].source = source /\ refresh[p].governance = governance
           /\ ~Matches
           /\ clusters' = Persisted(clusters, refresh[p].result)
           /\ current' = [source |-> source, governance |-> governance, ran |-> TRUE]
  BY <1>1 DEF ClustersInv, PendingIsReconciled, Refreshed
<1>2. QED
  BY <1>1 DEF CommitClusterProjection

LEMMA RetiredFields ==
    ASSUME NEW c
    PROVE  Retired(c).state = "retired" /\ Retired(c).members = NoCluster.members
BY DEF Retired

\* What the clusters show after an uninterrupted refresh.
LEMMA RefreshedShows ==
    ASSUME ClustersInv, UNCHANGED <<threads, overrides, governance>>, clusters' = Refreshed
    PROVE  /\ (DecidedClustersExist /\ RetiredIsEmpty /\ DecisionsApply)'
           /\ UngovernedClustersAreDisjoint'
<1> USE DEF Refreshed
<1>1. /\ overrides \in Seq(Override) /\ clusters \in [Refs -> Cluster]
      /\ DecidedClustersExist /\ RetiredIsEmpty
  BY DEF ClustersInv, StoreInv, ViewInv, ClustersTypeOK, Override
<1>2. \A a \in Refs :
         clusters'[a] =
            IF IsAnchor(threads, a) THEN Governed(overrides, a, EngineCluster(threads, a))
            ELSE IF clusters[a].state # "none" /\ HasPersistentGovernance(overrides, a)
            THEN Governed(overrides, a, clusters[a])
            ELSE IF clusters[a].state = "open" THEN Retired(clusters[a])
            ELSE clusters[a]
  BY <1>1, RefreshedCluster
<1>3. \A a \in Refs :
         LET e == EngineCluster(threads, a)
         IN  /\ Governed(overrides, a, e).state = "open"
             /\ Governed(overrides, a, clusters[a]).state = clusters[a].state
             /\ \A r \in Refs : e.members[r] = "in" => r \in Component(threads, a)
             /\ \A r \in Refs, c \in {e, clusters[a]} :
                   Governed(overrides, a, c).members[r] =
                      CASE Decided(overrides, a, r) = "none" -> c.members[r]
                        [] Decided(overrides, a, r) = "exclude" -> "out"
                        [] OTHER -> "in"
  BY <1>1, EngineClusterType, GovernedFields
<1>4. \A a \in Refs : clusters[a].state \in {"none", "open", "retired"}
  BY <1>1 DEF Cluster
<1>5. \A a \in Refs : clusters[a].state # "none" => clusters'[a].state # "none"
  BY <1>2, <1>3, RetiredFields
<1>6. DecidedClustersExist'
  <2>1. ASSUME NEW i \in DOMAIN overrides PROVE overrides[i].cluster \in Refs
    <3>1. overrides[i] \in Override
      BY <1>1
    <3>2. QED
      BY <3>1 DEF Override
  <2>2. QED
    BY <1>1, <1>5, <2>1 DEF DecidedClustersExist
<1>7. RetiredIsEmpty'
  BY <1>1, <1>2, <1>3, <1>4, RetiredFields DEF RetiredIsEmpty
<1>8. ASSUME NEW a \in Refs, NEW r \in Refs
      PROVE  /\ Decided(overrides, a, r) = "exclude" => clusters'[a].members[r] # "in"
             /\ Decided(overrides, a, r) \in {"include", "set_canonical"} =>
                   clusters'[a].members[r] = "in"
  <2>1. SUFFICES ASSUME Decided(overrides, a, r) # "none"
                 PROVE  /\ Decided(overrides, a, r) = "exclude" =>
                              clusters'[a].members[r] # "in"
                        /\ Decided(overrides, a, r) \in {"include", "set_canonical"} =>
                              clusters'[a].members[r] = "in"
    OBVIOUS
  <2>2. PICK i \in DOMAIN overrides :
           overrides[i].cluster = a /\ overrides[i].action = Decided(overrides, a, r)
    BY <1>1, <2>1, DecidedFields
  <2>3. clusters[a].state # "none"
    BY <1>1, <2>2 DEF DecidedClustersExist
  <2>4. Decided(overrides, a, r) \in {"include", "set_canonical"} =>
           HasPersistentGovernance(overrides, a)
    BY <2>2 DEF HasPersistentGovernance
  <2>5. CASE IsAnchor(threads, a) \/ HasPersistentGovernance(overrides, a)
    <3>1. clusters'[a].members[r] =
             IF Decided(overrides, a, r) = "exclude" THEN "out" ELSE "in"
      BY <1>2, <1>3, <2>1, <2>3, <2>5
    <3>2. QED
      BY <3>1
  <2>6. CASE ~IsAnchor(threads, a) /\ ~HasPersistentGovernance(overrides, a)
    <3>1. clusters'[a].members = NoCluster.members
      BY <1>1, <1>2, <1>4, <2>3, <2>6, RetiredFields DEF RetiredIsEmpty
    <3>2. clusters'[a].members[r] = "no"
      BY <3>1, NoClusterType
    <3>3. QED
      BY <2>4, <2>6, <3>2
  <2>7. QED
    BY <2>5, <2>6
<1>9. DecisionsApply'
  BY <1>8 DEF DecisionsApply
<1>10. ASSUME NEW a \in Refs, NEW r \in Refs, ~HasPersistentGovernance(overrides, a),
              clusters'[a].state = "open", clusters'[a].members[r] = "in"
       PROVE  IsAnchor(threads, a) /\ r \in Component(threads, a)
  <2>1. IsAnchor(threads, a)
    BY <1>2, <1>4, <1>10, RetiredFields
  <2>2. Decided(overrides, a, r) \notin {"include", "set_canonical"}
    BY <1>1, <1>10, DecidedFields DEF HasPersistentGovernance
  <2>3. Decided(overrides, a, r) \in {"none", "exclude"}
    BY <1>1, <2>2, DecidedFields DEF Actions
  <2>4. EngineCluster(threads, a).members[r] = "in"
    BY <1>2, <1>3, <1>10, <2>1, <2>3
  <2>5. QED
    BY <1>3, <2>1, <2>4
<1>11. UngovernedClustersAreDisjoint'
  <2>1. SUFFICES ASSUME NEW a \in Refs, NEW b \in Refs, NEW r \in Refs,
                        clusters'[a].state = "open", clusters'[b].state = "open",
                        clusters'[a].members[r] = "in", clusters'[b].members[r] = "in",
                        ~HasPersistentGovernance(overrides, a),
                        ~HasPersistentGovernance(overrides, b)
                 PROVE  a = b
    BY DEF UngovernedClustersAreDisjoint
  <2>2. QED
    BY <1>10, <2>1, OneAnchor
<1>12. QED
  BY <1>6, <1>7, <1>9, <1>11

LEMMA CommitKeepsIInv ==
    ASSUME ClustersInv, NEW p \in Refreshers, CommitClusterProjection(p)
    PROVE  ClustersInv'
<1>1. /\ refresh' = [refresh EXCEPT ![p] = Nothing]
      /\ UNCHANGED <<threads, source, overrides, governance>>
  BY DEF CommitClusterProjection
<1>2. /\ ClustersTypeOK /\ RevisionsCount /\ NotAhead /\ PendingIsReconciled /\ ViewInv
  BY DEF ClustersInv, StoreInv
<1>3. /\ source \in 0..MaxChanges /\ governance \in 0..MaxChanges
      /\ overrides \in Seq(Override) /\ clusters \in [Refs -> Cluster]
      /\ refresh \in [Refreshers -> Snapshots]
  BY <1>2 DEF ClustersTypeOK, Override, Snapshots
<1>4. source \in Nat /\ governance \in Nat
  BY <1>3, ClustersAssumption
<1>5. /\ refresh' \in [Refreshers -> Snapshots]
      /\ refresh'[p] = Nothing
      /\ \A q \in Refreshers : q # p => refresh'[q] = refresh[q]
  BY <1>1, <1>3, NothingType
<1>6. RevisionsCount'
  BY <1>1, <1>2 DEF RevisionsCount
<1>7. /\ refresh'[p].source <= source /\ refresh'[p].governance <= governance
      /\ \A q \in Refreshers :
            refresh'[q].source <= source /\ refresh'[q].governance <= governance
  BY <1>2, <1>4, <1>5, NothingType DEF NotAhead
<1>8. CASE UNCHANGED <<clusters, current>>
  <2>1. ClustersTypeOK'
    BY <1>1, <1>2, <1>5, <1>8 DEF ClustersTypeOK, Snapshots
  <2>2. NotAhead'
    BY <1>1, <1>2, <1>7, <1>8 DEF NotAhead
  <2>3. Matches' <=> Matches
    BY <1>1, <1>8 DEF Matches
  <2>4. PendingIsReconciled'
    BY <1>1, <1>2, <1>5, <1>8, <2>3, NothingType DEF PendingIsReconciled
  <2>5. ViewInv'
    BY <1>1, <1>2, <1>8, <2>3
       DEF ViewInv, UnchangedIsUnchanged, Refreshed, DecidedClustersExist, RetiredIsEmpty,
           DecisionsApply, UngovernedClustersAreDisjoint
  <2>6. QED
    BY <1>6, <2>1, <2>2, <2>4, <2>5 DEF ClustersInv, StoreInv
<1>9. CASE /\ clusters' = Refreshed
           /\ current' = [source |-> source, governance |-> governance, ran |-> TRUE]
  <2>1. clusters' \in [Refs -> Cluster]
    BY <1>3, <1>9, ReconciledType, PersistedType DEF Refreshed
  <2>2. ClustersTypeOK'
    BY <1>1, <1>2, <1>3, <1>5, <1>9, <2>1 DEF ClustersTypeOK, Snapshots
  <2>3. NotAhead'
    BY <1>1, <1>4, <1>7, <1>9 DEF NotAhead
  <2>4. Matches'
    BY <1>1, <1>9 DEF Matches
  <2>5. PendingIsReconciled'
    BY <2>4 DEF PendingIsReconciled
  <2>6. UnchangedIsUnchanged'
    BY <1>1, <1>3, <1>9, RefreshIsIdempotent DEF UnchangedIsUnchanged, Refreshed
  <2>7. (DecidedClustersExist /\ RetiredIsEmpty /\ DecisionsApply
            /\ UngovernedClustersAreDisjoint)'
    BY <1>1, <1>9, RefreshedShows
  <2>8. QED
    BY <1>6, <2>2, <2>3, <2>5, <2>6, <2>7 DEF ClustersInv, StoreInv, ViewInv
<1>10. QED
  BY <1>8, <1>9, ClusterCommitStores

LEMMA StepKeepsClustersInv == ClustersInv /\ [ClusterNext]_clusterVars => ClustersInv'
<1>1. SUFFICES ASSUME ClustersInv, [ClusterNext]_clusterVars PROVE ClustersInv'
  OBVIOUS
<1>2. CASE UNCHANGED clusterVars
  BY <1>1, <1>2
     DEF clusterVars, ClustersInv, StoreInv, ClustersTypeOK, RevisionsCount, NotAhead,
         PendingIsReconciled, Matches, ViewInv, UnchangedIsUnchanged, Refreshed,
         DecidedClustersExist, RetiredIsEmpty, DecisionsApply,
         UngovernedClustersAreDisjoint
<1>3. CASE ClusterNext
  BY <1>1, <1>3, StoreThreadKeepsIInv, AddClusterOverrideKeepsIInv, LoadKeepsIInv,
     CommitKeepsIInv
     DEF ClusterNext
<1>4. QED
  BY <1>1, <1>2, <1>3
-----------------------------------------------------------------------------
\* The inductive invariant holds of every behaviour.
THEOREM ProjectionInvariant == ClusterSpec => []ClustersInv
<1>1. QED
  BY InitClustersInv, StepKeepsClustersInv, PTL DEF ClusterSpec

\* The projection, the decisions and the pending commits are well formed.
THEOREM ClustersTypeCorrect == ClusterSpec => []ClustersTypeOK
<1>1. ClustersInv => ClustersTypeOK
  BY DEF ClustersInv, StoreInv
<1>2. QED
  BY <1>1, ProjectionInvariant, PTL

\* A refresh whose identity matches would change nothing, however often the
\* clusters were refreshed before: RefreshClusters may report "unchanged".
THEOREM MatchingRefreshIsUnchanged == ClusterSpec => []UnchangedIsUnchanged
<1>1. ClustersInv => UnchangedIsUnchanged
  BY DEF ClustersInv, ViewInv
<1>2. QED
  BY <1>1, ProjectionInvariant, PTL

\* A projection of the present decisions shows each of them.
THEOREM DecisionsAlwaysApply == ClusterSpec => []DecisionsApply
<1>1. ClustersInv => DecisionsApply
  BY DEF ClustersInv, ViewInv
<1>2. QED
  BY <1>1, ProjectionInvariant, PTL

\* A thread no decision placed is in one open cluster at most.
THEOREM UngovernedClustersStayDisjoint == ClusterSpec => []UngovernedClustersAreDisjoint
<1>1. ClustersInv => UngovernedClustersAreDisjoint
  BY DEF ClustersInv, ViewInv
<1>2. QED
  BY <1>1, ProjectionInvariant, PTL

\* A commit stores what an uninterrupted refresh would store at that moment,
\* although it compares the two revisions only and reads no cluster again.
THEOREM RefreshesAreAtomic == ClusterSpec => RefreshIsAtomic
<1>1. ClustersInv /\ [ClusterNext]_clusterVars =>
         [clusters' # clusters => clusters' = Refreshed]_clusterVars
  <2>1. SUFFICES ASSUME ClustersInv, ClusterNext, clusters' # clusters
                 PROVE  clusters' = Refreshed
    BY DEF clusterVars
  <2>2. \E p \in Refreshers : CommitClusterProjection(p)
    BY <2>1 DEF ClusterNext, StoreThread, AddClusterOverride, LoadClusterRefreshSnapshot
  <2>3. QED
    BY <2>1, <2>2, ClusterCommitStores
<1>2. QED
  BY <1>1, ProjectionInvariant, PTL DEF ClusterSpec, RefreshIsAtomic
=============================================================================

---------------------------- MODULE DerivedProofs ----------------------------
(***************************************************************************)
(* What holds of what the corpus derives from its fetches: of a facet, for *)
(* every number of workers, pages, versions and observations, and of the   *)
(* feedback index and its search, for every number of pull requests,       *)
(* indexers, updates and failures and every page size; then of both beside *)
(* each other.                                                             *)
(***************************************************************************)
EXTENDS MCDerived, FiniteSetTheorems, SequenceTheorems, TLAPS
-----------------------------------------------------------------------------
(***************************************************************************)
(* The inductive invariant.  The stored rows are one numbered set, older   *)
(* than the coverage, whose sequence was drawn from the counter; no row is *)
(* newer than GitHub; and the local state of every worker fits the store:  *)
(* one that still reads has room for a page, one that has read holds a     *)
(* page, no baseline is ahead of the coverage and, the heart of the        *)
(* matter, while a baseline is still current every page read under it is   *)
(* at least as new as every stored row.                                    *)
(***************************************************************************)
RowNumbers == RowsAreOneSet /\ coverage.seq <= sequence

RowsFromGitHub == \A i \in DOMAIN rows : rows[i].version <= github.version

Fits(local) ==
    /\ Len(local.pages) <= MaxPages
    /\ local.pc = "fetching" => Len(local.pages) < MaxPages
    /\ local.pc \in {"untimed", "fetched", "applied", "sourced"} => local.pages # <<>>
    /\ \A p \in DOMAIN local.pages : local.pages[p] <= github.version
    /\ local.pc \in {"fetching", "untimed", "fetched"} /\ kind # "workflow" =>
          /\ local.baseline <= coverage.seq
          /\ local.baseline = coverage.seq =>
                \A i \in DOMAIN rows, p \in DOMAIN local.pages :
                   rows[i].version <= local.pages[p]

FacetInv ==
    /\ TypeOK
    /\ RowNumbers
    /\ RowsFromGitHub
    /\ \A w \in Workers : Fits(work[w])
-----------------------------------------------------------------------------
(***************************************************************************)
(* The two write transactions, as what they do to the coverage.            *)
(***************************************************************************)

\* An applied set always wins the coverage: its sequence is fresh.
LEMMA ReplacingAdvances ==
    ASSUME NEW cov \in CoverageRow, NEW src \in Nat, NEW seq \in Nat,
           cov.seq < seq, Replaces(cov, src, TRUE)
    PROVE  AdvanceCoverage(cov, src, seq, TRUE) =
              [src |-> src, seq |-> seq, complete |-> TRUE]
BY DEF CoverageRow, Replaces, AdvanceCoverage, Newer

\* An advance writes a fresh, incomplete coverage or leaves it alone.
LEMMA AdvancingShape ==
    ASSUME NEW cov \in CoverageRow, NEW src \in Nat, NEW seq \in Nat
    PROVE  \/ AdvanceCoverage(cov, src, seq, FALSE) = cov
           \/ AdvanceCoverage(cov, src, seq, FALSE) =
                 [src |-> src, seq |-> seq, complete |-> FALSE]
BY DEF AdvanceCoverage

\* The rows of a set are its pages, numbered from the next sequence on.
LEMMA NewRowsShape ==
    ASSUME NEW pages \in Seq(Version), sequence \in Nat
    PROVE  /\ NewRows(pages) \in Seq(Row)
           /\ Len(NewRows(pages)) = Len(pages)
           /\ DOMAIN NewRows(pages) = DOMAIN pages
           /\ \A i \in DOMAIN pages :
                 /\ NewRows(pages)[i].seq = sequence + i
                 /\ NewRows(pages)[i].version = pages[i]
<1>1. Len(pages) \in Nat /\ DOMAIN pages = 1..Len(pages)
      /\ \A i \in 1..Len(pages) : pages[i] \in Version
  OBVIOUS
<1>2. NewRows(pages) \in [1..Len(pages) -> Row]
  BY <1>1 DEF NewRows, Row
<1>3. NewRows(pages) \in Seq(Row)
  BY <1>1, <1>2, SeqDef, Zenon
<1>4. Len(NewRows(pages)) = Len(pages) /\ DOMAIN NewRows(pages) = DOMAIN pages
  BY <1>1, <1>2, <1>3
<1>5. QED
  BY <1>1, <1>3, <1>4 DEF NewRows

\* What a stored row holds.
LEMMA RowFields ==
    ASSUME TypeOK, NEW i \in DOMAIN rows
    PROVE  rows[i] \in Row /\ rows[i].seq \in Nat /\ rows[i].version \in Version
<1>1. rows \in Seq(Row)
  BY DEF TypeOK
<1>2. rows[i] \in Row
  BY <1>1, ElementOfSeq, LenProperties
<1>3. QED
  BY <1>2 DEF Row

\* What the local state of a worker holds.
LEMMA WorkFields ==
    ASSUME NEW v \in Work
    PROVE  /\ v.pc \in {"idle", "fetching", "untimed", "fetched", "applied", "sourced"}
           /\ v.baseline \in Nat /\ v.src \in Nat /\ v.source \in Nat
           /\ v.complete \in BOOLEAN
           /\ v.pages \in Seq(Version)
           /\ Len(v.pages) \in Nat
           /\ DOMAIN v.pages = 1..Len(v.pages)
           /\ \A p \in DOMAIN v.pages : v.pages[p] \in Version /\ v.pages[p] \in Nat
<1>1. v.pages \in Seq(Version)
  BY DEF Work
<1>2. /\ Len(v.pages) \in Nat /\ DOMAIN v.pages = 1..Len(v.pages)
      /\ \A p \in DOMAIN v.pages : v.pages[p] \in Version
  BY <1>1
<1>3. Version \subseteq Nat
  BY BoundsAssumption DEF Version
<1>4. QED
  BY <1>1, <1>2, <1>3 DEF Work

LEMMA IdleFields ==
    /\ Idle \in Work
    /\ Idle.pc = "idle" /\ Idle.pages = <<>> /\ Len(Idle.pages) = 0
    /\ DOMAIN Idle.pages = {}
BY DEF Idle, Work
-----------------------------------------------------------------------------
LEMMA InitFacetInv == Init => FacetInv
<1>1. SUFFICES ASSUME Init PROVE FacetInv
  OBVIOUS
<1>2. TypeOK
  BY <1>1, BoundsAssumption
     DEF Init, TypeOK, Kinds, Version, CoverageRow, NoCoverage, SignalsRow,
         NoSignals, Work, Idle
<1>3. RowNumbers /\ RowsFromGitHub
  BY <1>1 DEF Init, RowNumbers, RowsAreOneSet, RowsFromGitHub, NoCoverage
<1>4. Fits(Idle)
  BY IdleFields, BoundsAssumption DEF Fits
<1>5. QED
  BY <1>1, <1>2, <1>3, <1>4 DEF FacetInv, Init

(***************************************************************************)
(* A step that only moves worker w preserves the invariant if it leaves w  *)
(* in a local state that fits.                                             *)
(***************************************************************************)
LEMMA WorkerMove ==
    ASSUME FacetInv, NEW w \in Workers, NEW local \in Work, Fits(local),
           UNCHANGED <<kind, github, storeVars>>,
           work' = [work EXCEPT ![w] = local]
    PROVE  FacetInv'
<1>1. work' \in [Workers -> Work] /\ work'[w] = local
      /\ \A v \in Workers : v # w => work'[v] = work[v]
  BY DEF FacetInv, TypeOK
<1>2. UNCHANGED <<kind, github, sequence, coverage, rows, signals>>
  BY DEF storeVars
<1>3. \A v \in Workers : Fits(work'[v])
  BY <1>1 DEF FacetInv
<1>4. \A v \in Workers : Len(work'[v].pages) <= MaxPages
  BY <1>3 DEF Fits
<1>5. TypeOK'
  BY <1>1, <1>2, <1>4 DEF FacetInv, TypeOK
<1>6. RowNumbers' /\ RowsFromGitHub'
  BY <1>2 DEF FacetInv, RowNumbers, RowsAreOneSet, RowsFromGitHub
<1>7. \A v \in Workers : Fits(work[v])'
  BY <1>2, <1>3 DEF Fits
<1>8. QED
  BY <1>5, <1>6, <1>7 DEF FacetInv

LEMMA GitHubKeepsIInv == FacetInv /\ GitHubChanges => FacetInv'
<1>1. SUFFICES ASSUME FacetInv, GitHubChanges PROVE FacetInv'
  OBVIOUS
<1>2. /\ github' \in [src : Nat, version : Version]
      /\ github'.version >= github.version
      /\ github.version \in Nat /\ github'.version \in Nat
  BY <1>1, BoundsAssumption DEF FacetInv, TypeOK, GitHubChanges, Version
<1>3. UNCHANGED <<kind, sequence, coverage, rows, signals, work>>
  BY <1>1 DEF GitHubChanges, storeVars
<1>4. TypeOK'
  BY <1>1, <1>2, <1>3 DEF FacetInv, TypeOK
<1>5. RowNumbers'
  BY <1>1, <1>3 DEF FacetInv, RowNumbers, RowsAreOneSet
<1>6. RowsFromGitHub'
  <2>1. \A i \in DOMAIN rows : rows[i].version \in Nat /\ rows[i].version <= github.version
    BY <1>1, RowFields, BoundsAssumption DEF FacetInv, RowsFromGitHub, Version
  <2>2. QED
    BY <1>2, <1>3, <2>1 DEF RowsFromGitHub
<1>7. ASSUME NEW v \in Workers PROVE Fits(work[v])'
  <2>1. work[v] \in Work /\ Fits(work[v])
    BY <1>1 DEF FacetInv, TypeOK
  <2>2. \A p \in DOMAIN work[v].pages : work[v].pages[p] <= github'.version
    BY <1>2, <2>1, WorkFields DEF Fits
  <2>3. QED
    BY <1>3, <2>1, <2>2 DEF Fits
<1>8. QED
  BY <1>4, <1>5, <1>6, <1>7 DEF FacetInv
-----------------------------------------------------------------------------
(***************************************************************************)
(* The steps that leave the store alone, one lemma for each.               *)
(***************************************************************************)
LEMMA StateOf ==
    ASSUME FacetInv, NEW w \in Workers
    PROVE  /\ work \in [Workers -> Work] /\ work[w] \in Work /\ Fits(work[w])
           /\ kind \in Kinds
           /\ github.src \in Nat /\ github.version \in Version
           /\ github.version \in Nat
           /\ sequence \in Nat
           /\ coverage \in CoverageRow /\ coverage.seq \in Nat
           /\ rows \in Seq(Row)
BY BoundsAssumption DEF FacetInv, TypeOK, Version, CoverageRow

LEMMA OnePage ==
    ASSUME NEW v \in Version
    PROVE  /\ <<v>> \in Seq(Version) /\ Len(<<v>>) = 1 /\ <<v>> # <<>>
           /\ DOMAIN <<v>> = {1} /\ <<v>>[1] = v
OBVIOUS

LEMMA BeginKeepsIInv ==
    ASSUME FacetInv, NEW w \in Workers, Begin(w)
    PROVE  FacetInv'
<1>1. PICK threadSrc \in KnownSourceTimes \cup {0} :
         work' = [work EXCEPT ![w] = [Idle EXCEPT !.pc = "fetching",
                                                  !.baseline = coverage.seq,
                                                  !.src = threadSrc]]
  BY DEF Begin
<1> DEFINE local == [Idle EXCEPT !.pc = "fetching", !.baseline = coverage.seq,
                                 !.src = threadSrc]
<1>2. threadSrc \in Nat
  BY StateOf DEF KnownSourceTimes
<1>3. /\ local \in Work /\ local.pages = <<>> /\ local.pc = "fetching"
      /\ local.baseline = coverage.seq
  BY <1>2, StateOf, IdleFields DEF Work, Idle
<1>4. UNCHANGED <<kind, github, storeVars>> /\ work' = [work EXCEPT ![w] = local]
  BY <1>1 DEF Begin
<1> HIDE DEF local
<1>5. Len(local.pages) = 0 /\ DOMAIN local.pages = {}
  BY <1>3
<1>6. Fits(local)
  BY <1>3, <1>5, StateOf, BoundsAssumption DEF Fits
<1>7. QED
  BY <1>3, <1>4, <1>6, WorkerMove

LEMMA PageIsAppended ==
    ASSUME NEW read \in Seq(Version), NEW v \in Version
    PROVE  /\ Append(read, v) \in Seq(Version) /\ Append(read, v) # <<>>
           /\ Len(Append(read, v)) = Len(read) + 1
           /\ \A p \in DOMAIN Append(read, v) :
                 \/ p \in DOMAIN read /\ Append(read, v)[p] = read[p]
                 \/ Append(read, v)[p] = v
OBVIOUS

LEMMA FetchPageKeepsIInv ==
    ASSUME FacetInv, NEW w \in Workers, FetchPage(w)
    PROVE  FacetInv'
<1>1. PICK latest \in KnownSourceTimes, hasNext \in BOOLEAN :
         work' = [work EXCEPT
                   ![w].pages = Append(@, github.version),
                   ![w].src = Later(@, latest),
                   ![w].complete = ~hasNext,
                   ![w].pc = IF ReadsOn(w, hasNext) THEN "fetching" ELSE "fetched"]
  BY DEF FetchPage
<1> DEFINE pages == Append(work[w].pages, github.version)
           local == [work[w] EXCEPT
                       !.pages = Append(@, github.version),
                       !.src = Later(@, latest),
                       !.complete = ~hasNext,
                       !.pc = IF ReadsOn(w, hasNext) THEN "fetching" ELSE "fetched"]
<1>2. /\ work[w].pages \in Seq(Version) /\ Len(work[w].pages) \in Nat
      /\ work[w].pc = "fetching" /\ kind = "paginated"
      /\ Len(work[w].pages) < MaxPages
      /\ work[w].baseline <= coverage.seq
  BY StateOf, WorkFields DEF FetchPage, Fits
<1>3. /\ pages \in Seq(Version) /\ pages # <<>>
      /\ Len(pages) = Len(work[w].pages) + 1
      /\ \A p \in DOMAIN pages :
            \/ p \in DOMAIN work[w].pages /\ pages[p] = work[w].pages[p]
            \/ pages[p] = github.version
  <2>1. work[w].pages \in Seq(Version) /\ github.version \in Version
    BY <1>2, StateOf
  <2>2. QED
    BY <2>1, PageIsAppended
<1>4. Later(work[w].src, latest) \in Nat
  BY StateOf, WorkFields DEF Later, KnownSourceTimes
<1> HIDE DEF pages
<1>5. /\ local \in Work /\ local.pages = pages /\ local.baseline = work[w].baseline
      /\ local.pc \in {"fetching", "fetched"}
      /\ local.pc = "fetching" => Len(work[w].pages) + 1 < MaxPages
  BY <1>3, <1>4, StateOf DEF pages, Work, ReadsOn
<1>6. UNCHANGED <<kind, github, storeVars>> /\ work' = [work EXCEPT ![w] = local]
  BY <1>1, StateOf, ZenonT(60) DEF FetchPage, Work
<1> HIDE DEF local
<1>7. \A p \in DOMAIN local.pages : local.pages[p] <= github.version
  BY <1>3, <1>5, StateOf DEF Fits
<1>8. ASSUME local.baseline = coverage.seq,
             NEW i \in DOMAIN rows, NEW p \in DOMAIN local.pages
      PROVE  rows[i].version <= local.pages[p]
  <2>1. CASE local.pages[p] = github.version
    BY <2>1 DEF FacetInv, RowsFromGitHub
  <2>2. CASE p \in DOMAIN work[w].pages /\ local.pages[p] = work[w].pages[p]
    BY <1>2, <1>5, <1>8, <2>2, StateOf DEF Fits
  <2>3. QED
    BY <1>3, <1>5, <2>1, <2>2
<1>9. Fits(local)
  BY <1>2, <1>3, <1>5, <1>7, <1>8, BoundsAssumption DEF Fits
<1>10. QED
  BY <1>5, <1>6, <1>9, WorkerMove

LEMMA FetchStatusKeepsIInv ==
    ASSUME FacetInv, NEW w \in Workers, FetchStatus(w)
    PROVE  FacetInv'
<1>1. PICK src \in {0, github.src}, complete \in BOOLEAN :
         work' = [work EXCEPT ![w].pages = <<github.version>>,
                              ![w].src = src,
                              ![w].complete = complete,
                              ![w].pc = Timed(src)]
  BY DEF FetchStatus
<1> DEFINE local == [work[w] EXCEPT !.pages = <<github.version>>, !.src = src,
                                    !.complete = complete, !.pc = Timed(src)]
<1>2. src \in Nat /\ work[w].pc = "fetching" /\ kind = "health"
      /\ work[w].baseline <= coverage.seq
  BY StateOf, WorkFields DEF FetchStatus, Fits
<1>3. /\ local \in Work /\ local.pages = <<github.version>>
      /\ local.pc \in {"untimed", "fetched"} /\ local.baseline = work[w].baseline
  BY <1>2, StateOf, OnePage DEF Work, Timed
<1>4. UNCHANGED <<kind, github, storeVars>> /\ work' = [work EXCEPT ![w] = local]
  BY <1>1, StateOf DEF FetchStatus, Work
<1> HIDE DEF local
<1>5. Len(local.pages) = 1 /\ local.pages # <<>>
      /\ \A p \in DOMAIN local.pages : local.pages[p] = github.version
  BY <1>3, StateOf, OnePage
<1>6. Fits(local)
  BY <1>2, <1>3, <1>5, StateOf, BoundsAssumption DEF Fits, FacetInv, RowsFromGitHub
<1>7. QED
  BY <1>3, <1>4, <1>6, WorkerMove

LEMMA FetchWorkflowKeepsIInv ==
    ASSUME FacetInv, NEW w \in Workers, FetchWorkflow(w)
    PROVE  FacetInv'
<1>1. PICK src \in {0, github.src}, complete \in BOOLEAN :
         work' = [work EXCEPT ![w] = [Idle EXCEPT !.pc = Timed(src),
                                                  !.src = src,
                                                  !.pages = <<github.version>>,
                                                  !.complete = complete]]
  BY DEF FetchWorkflow
<1> DEFINE local == [Idle EXCEPT !.pc = Timed(src), !.src = src,
                                 !.pages = <<github.version>>,
                                 !.complete = complete]
<1>2. src \in Nat
  BY StateOf
<1>3. /\ local \in Work /\ local.pages = <<github.version>>
      /\ local.pc \in {"untimed", "fetched"}
  BY <1>2, StateOf, OnePage, IdleFields DEF Work, Idle, Timed
<1>4. /\ kind = "workflow" /\ UNCHANGED <<kind, github, storeVars>>
      /\ work' = [work EXCEPT ![w] = local]
  BY <1>1 DEF FetchWorkflow
<1> HIDE DEF local
<1>5. Len(local.pages) = 1 /\ local.pages # <<>>
      /\ \A p \in DOMAIN local.pages : local.pages[p] = github.version
  BY <1>3, StateOf, OnePage
<1>6. Fits(local)
  BY <1>3, <1>4, <1>5, StateOf, BoundsAssumption DEF Fits
<1>7. QED
  BY <1>3, <1>4, <1>6, WorkerMove

LEMMA ReadThreadKeepsIInv ==
    ASSUME FacetInv, NEW w \in Workers, ReadThread(w)
    PROVE  FacetInv'
<1>1. PICK threadSrc \in KnownSourceTimes :
         work' = [work EXCEPT ![w].src = threadSrc, ![w].pc = "fetched"]
  BY DEF ReadThread
<1> DEFINE local == [work[w] EXCEPT !.src = threadSrc, !.pc = "fetched"]
<1>2. /\ local \in Work /\ local.pages = work[w].pages
      /\ local.pc = "fetched" /\ local.baseline = work[w].baseline
  <2>1. threadSrc \in Nat /\ work[w] \in Work
    BY StateOf DEF KnownSourceTimes
  <2>2. QED
    BY <2>1 DEF Work
<1>3. work' = [work EXCEPT ![w] = local]
  BY <1>1, StateOf DEF Work
<1>4. UNCHANGED <<kind, github, storeVars>> /\ work[w].pc = "untimed"
  BY DEF ReadThread
<1> HIDE DEF local
<1>5. Fits(local)
  BY <1>2, <1>4, StateOf DEF Fits
<1>6. QED
  BY <1>2, <1>3, <1>4, <1>5, WorkerMove

LEMMA IdleFits == Fits(Idle)
BY IdleFields, BoundsAssumption DEF Fits

LEMMA AbandonKeepsIInv ==
    ASSUME FacetInv, NEW w \in Workers, Abandon(w)
    PROVE  FacetInv'
BY IdleFields, IdleFits, WorkerMove DEF Abandon

LEMMA ReadSourceKeepsIInv ==
    ASSUME FacetInv, NEW w \in Workers, ReadSource(w)
    PROVE  FacetInv'
<1> DEFINE local == [work[w] EXCEPT !.pc = "sourced", !.source = rows[1].seq]
<1>1. UNCHANGED <<kind, github, storeVars>> /\ work[w].pc = "applied"
  BY DEF ReadSource
<1>2. CASE rows = <<>>
  BY <1>1, <1>2, IdleFields, IdleFits, WorkerMove DEF ReadSource
<1>3. CASE rows # <<>>
  <2>1. rows[1].seq \in Nat
    <3>1. 1 \in DOMAIN rows
      BY <1>3, StateOf
    <3>2. QED
      BY <3>1, RowFields DEF FacetInv
  <2>2. /\ local \in Work /\ local.pages = work[w].pages /\ local.pc = "sourced"
    BY <2>1, StateOf DEF Work
  <2>3. work' = [work EXCEPT ![w] = local]
    BY <1>3, StateOf DEF ReadSource
  <2> HIDE DEF local
  <2>4. Fits(local)
    BY <1>1, <2>2, StateOf DEF Fits
  <2>5. QED
    BY <1>1, <2>2, <2>3, <2>4, WorkerMove
<1>4. QED
  BY <1>2, <1>3
-----------------------------------------------------------------------------
(***************************************************************************)
(* The write transactions.  A set that is applied was read under a         *)
(* baseline that is still current, and its coverage takes a fresh          *)
(* sequence, so that no other worker's baseline is current any more.       *)
(***************************************************************************)
LEMMA ApplySetShape ==
    ASSUME FacetInv, NEW w \in Workers, ApplySet(w)
    PROVE  /\ UNCHANGED <<kind, github, signals>>
           /\ \/ /\ UNCHANGED <<sequence, coverage, rows>>
                 /\ work' = [work EXCEPT ![w] = Idle]
              \/ /\ ExpectedSequenceHolds(w)
                 /\ Replaces(coverage, work[w].src, TRUE)
                 /\ work[w].pc = "fetched"
                 /\ sequence' = sequence + Len(work[w].pages) + 1
                 /\ sequence' <= MaxSequence
                 /\ rows' = NewRows(work[w].pages)
                 /\ coverage' = [src |-> work[w].src, seq |-> sequence',
                                 complete |-> TRUE]
                 /\ work' = [work EXCEPT ![w] = IF kind = "health"
                                                THEN [work[w] EXCEPT !.pc = "applied"]
                                                ELSE Idle]
<1> DEFINE last == sequence + Len(work[w].pages) + 1
           applied == /\ ExpectedSequenceHolds(w)
                      /\ Replaces(coverage, work[w].src, TRUE)
<1>1. UNCHANGED <<kind, github, signals>>
  BY DEF ApplySet
<1>2. CASE ~applied
  BY <1>2 DEF ApplySet, Finished
<1>3. CASE applied
  <2>1. /\ last \in Nat /\ coverage.seq < last
        /\ work[w].src \in Nat /\ coverage \in CoverageRow
    BY StateOf, WorkFields DEF FacetInv, RowNumbers
  <2>2. AdvanceCoverage(coverage, work[w].src, last, TRUE) =
           [src |-> work[w].src, seq |-> last, complete |-> TRUE]
    BY <1>3, <2>1, ReplacingAdvances
  <2>3. /\ last <= MaxSequence /\ rows' = NewRows(work[w].pages)
        /\ coverage' = AdvanceCoverage(coverage, work[w].src, last, TRUE)
        /\ sequence' = last /\ work[w].pc = "fetched"
        /\ work' = [work EXCEPT ![w] = Finished(w, TRUE)]
    BY <1>3 DEF ApplySet
  <2>4. QED
    BY <1>1, <1>3, <2>2, <2>3 DEF Finished
<1>4. QED
  BY <1>2, <1>3

LEMMA ApplySetKeepsIInv ==
    ASSUME FacetInv, NEW w \in Workers, ApplySet(w)
    PROVE  FacetInv'
<1>1. CASE UNCHANGED <<sequence, coverage, rows>> /\ work' = [work EXCEPT ![w] = Idle]
  BY <1>1, ApplySetShape, IdleFields, IdleFits, WorkerMove DEF storeVars
<1>2. CASE ~(UNCHANGED <<sequence, coverage, rows>> /\ work' = [work EXCEPT ![w] = Idle])
  <2> DEFINE pages == work[w].pages
             local == IF kind = "health" THEN [work[w] EXCEPT !.pc = "applied"] ELSE Idle
  <2>1. /\ UNCHANGED <<kind, github, signals>>
        /\ work[w].pc = "fetched"
        /\ sequence' = sequence + Len(pages) + 1 /\ sequence' <= MaxSequence
        /\ rows' = NewRows(pages)
        /\ coverage' = [src |-> work[w].src, seq |-> sequence', complete |-> TRUE]
        /\ work' = [work EXCEPT ![w] = local]
    BY <1>2, ApplySetShape
  <2>2. /\ pages \in Seq(Version) /\ Len(pages) \in Nat /\ Len(pages) > 0
        /\ pages # <<>> /\ DOMAIN pages = 1..Len(pages)
        /\ \A p \in DOMAIN pages : pages[p] <= github.version
    BY <2>1, StateOf, WorkFields DEF Fits
  <2>3. /\ rows' \in Seq(Row) /\ Len(rows') = Len(pages)
        /\ DOMAIN rows' = 1..Len(pages)
        /\ \A i \in 1..Len(pages) : /\ rows'[i].seq = sequence + i
                                   /\ rows'[i].version = pages[i]
    BY <2>1, <2>2, StateOf, NewRowsShape
  <2>4. /\ local \in Work
        /\ (local.pc = "applied" /\ local.pages = pages) \/ local = Idle
    <3>1. CASE kind = "health"
      <4>1. work[w] \in Work
        BY StateOf
      <4>2. local = [work[w] EXCEPT !.pc = "applied"]
        BY <3>1
      <4>3. QED
        BY <4>1, <4>2 DEF Work
    <3>2. CASE kind # "health"
      BY <3>2, IdleFields
    <3>3. QED
      BY <3>1, <3>2
  <2>5. /\ coverage' \in CoverageRow /\ coverage'.seq = sequence'
        /\ sequence' \in 0..MaxSequence
    BY <2>1, <2>2, StateOf, WorkFields DEF CoverageRow, FacetInv, TypeOK
  <2> HIDE DEF pages, local
  <2>6. /\ work' \in [Workers -> Work] /\ work'[w] = local
        /\ \A v \in Workers : v # w => work'[v] = work[v]
    BY <2>1, <2>4, StateOf
  <2>7. ASSUME NEW v \in Workers PROVE Fits(work[v])'
    <3>1. CASE v = w
      <4>1. CASE local = Idle
        BY <2>1, <2>6, <3>1, <4>1, IdleFields, BoundsAssumption DEF Fits
      <4>2. CASE local.pc = "applied" /\ local.pages = pages
        <5>1. Len(pages) <= MaxPages
          BY StateOf DEF Fits, pages
        <5>2. QED
          BY <2>1, <2>2, <2>6, <3>1, <4>2, <5>1 DEF Fits
      <4>3. QED
        BY <2>4, <4>1, <4>2
    <3>2. CASE v # w
      <4>1. work'[v] = work[v] /\ Fits(work[v]) /\ work[v] \in Work
        BY <2>6, <3>2, StateOf
      <4>2. work[v].pc \in {"fetching", "untimed", "fetched"} /\ kind # "workflow" =>
               work[v].baseline < coverage'.seq
        BY <2>1, <2>2, <2>5, <4>1, StateOf, WorkFields DEF Fits, FacetInv, RowNumbers
      <4>3. work[v].baseline \in Nat /\ coverage'.seq \in Nat
        BY <2>5, <4>1, WorkFields
      <4>4. QED
        BY <2>1, <4>1, <4>2, <4>3 DEF Fits
    <3>3. QED
      BY <3>1, <3>2
  <2>8. RowNumbers'
    <3>1. RowsAreOneSet'
      <4>1. \A i \in DOMAIN rows' : rows'[i].seq = rows'[1].seq + i - 1
        BY <2>2, <2>3, StateOf
      <4>2. \A i \in DOMAIN rows' : rows'[i].seq < coverage'.seq
        BY <2>1, <2>2, <2>3, <2>5, StateOf DEF pages
      <4>3. rows'[Len(rows')].seq = coverage'.seq - 1
        <5>1. coverage'.seq = sequence + Len(pages) + 1 /\ sequence \in Nat
          BY <2>1, <2>5, StateOf
        <5>2. Len(rows') = Len(pages) /\ Len(pages) \in 1..Len(pages)
          BY <2>2, <2>3
        <5>3. rows'[Len(pages)].seq = sequence + Len(pages)
          BY <2>3, <5>2
        <5>4. QED
          BY <2>2, <5>1, <5>2, <5>3
      <4>4. QED
        BY <4>1, <4>2, <4>3 DEF RowsAreOneSet
    <3>2. QED
      BY <2>5, <3>1 DEF RowNumbers
  <2>9. RowsFromGitHub'
    BY <2>1, <2>2, <2>3 DEF RowsFromGitHub
  <2>10. TypeOK'
    <3>1. \A v \in Workers : Len(work'[v].pages) <= MaxPages
      BY <2>7 DEF Fits
    <3>2. QED
      BY <2>1, <2>3, <2>5, <2>6, <3>1 DEF FacetInv, TypeOK
  <2>11. QED
    BY <2>7, <2>8, <2>9, <2>10 DEF FacetInv
<1>3. QED
  BY <1>1, <1>2

LEMMA AdvanceFacetKeepsIInv ==
    ASSUME FacetInv, NEW w \in Workers, AdvanceFacet(w)
    PROVE  FacetInv'
<1>1. UNCHANGED <<kind, github, rows, signals>> /\ work' = [work EXCEPT ![w] = Idle]
  BY DEF AdvanceFacet
<1>2. \/ UNCHANGED <<coverage, sequence>>
      \/ /\ sequence < MaxSequence /\ sequence' = sequence + 1
         /\ \/ coverage' = coverage
            \/ coverage' = [src |-> work[w].src, seq |-> sequence',
                            complete |-> FALSE]
  <2>1. CASE ~ExpectedSequenceHolds(w)
    BY <2>1 DEF AdvanceFacet
  <2>2. CASE ExpectedSequenceHolds(w)
    <3>1. /\ coverage' = AdvanceCoverage(coverage, work[w].src, sequence + 1, FALSE)
          /\ sequence < MaxSequence /\ sequence' = sequence + 1
      BY <2>2 DEF AdvanceFacet
    <3>2. /\ coverage \in CoverageRow /\ work[w].src \in Nat
          /\ sequence + 1 \in Nat
      BY StateOf, WorkFields
    <3>3. QED
      BY <3>1, <3>2, AdvancingShape
  <2>3. QED
    BY <2>1, <2>2
<1>3. sequence' \in 0..MaxSequence /\ sequence <= sequence' /\ sequence' \in Nat
  BY <1>2, StateOf, BoundsAssumption DEF FacetInv, TypeOK
<1>4. coverage' \in CoverageRow /\ coverage'.seq <= sequence'
      /\ \/ coverage' = coverage
         \/ coverage'.seq > coverage.seq /\ ~coverage'.complete
  <2>1. /\ coverage \in CoverageRow /\ coverage.seq \in Nat /\ coverage.seq <= sequence
        /\ sequence \in Nat /\ work[w].src \in Nat /\ work[w].src \in Int
    BY StateOf, WorkFields DEF FacetInv, RowNumbers
  <2>2. CASE coverage' = coverage
    BY <1>3, <2>1, <2>2
  <2>3. CASE /\ sequence' = sequence + 1
             /\ coverage' = [src |-> work[w].src, seq |-> sequence', complete |-> FALSE]
    BY <1>3, <2>1, <2>3 DEF CoverageRow
  <2>4. QED
    BY <1>2, <2>2, <2>3
<1>5. /\ work' \in [Workers -> Work] /\ work'[w] = Idle
      /\ \A v \in Workers : v # w => work'[v] = work[v]
  BY <1>1, StateOf, IdleFields
<1>6. RowNumbers'
  <2>1. \A i \in DOMAIN rows : rows[i].seq \in Nat
    BY RowFields DEF FacetInv
  <2>2. coverage'.seq \in Nat
    BY <1>4 DEF CoverageRow
  <2>3. QED
    BY <1>1, <1>4, <2>1, <2>2, StateOf DEF FacetInv, RowNumbers, RowsAreOneSet
<1>7. RowsFromGitHub'
  BY <1>1 DEF FacetInv, RowsFromGitHub
<1>8. ASSUME NEW v \in Workers PROVE Fits(work[v])'
  <2>1. CASE v = w
    BY <1>1, <1>5, <2>1, IdleFields, BoundsAssumption DEF Fits
  <2>2. CASE v # w
    <3>1. work'[v] = work[v] /\ Fits(work[v]) /\ work[v].baseline \in Nat
          /\ coverage'.seq \in Nat /\ coverage.seq \in Nat
      BY <1>4, <1>5, <2>2, StateOf, WorkFields DEF CoverageRow
    <3>2. QED
      BY <1>1, <1>4, <3>1 DEF Fits
  <2>3. QED
    BY <2>1, <2>2
<1>9. TypeOK'
  <2>1. \A v \in Workers : Len(work'[v].pages) <= MaxPages
    BY <1>8 DEF Fits
  <2>2. QED
    BY <1>1, <1>3, <1>4, <1>5, <2>1 DEF FacetInv, TypeOK
<1>10. QED
  BY <1>6, <1>7, <1>8, <1>9 DEF FacetInv

LEMMA SaveSignalsKeepsIInv ==
    ASSUME FacetInv, NEW w \in Workers, SaveSignals(w)
    PROVE  FacetInv'
<1> DEFINE cited == {i \in DOMAIN rows : rows[i].seq = work[w].source}
<1>1. /\ UNCHANGED <<kind, github, coverage, rows>>
      /\ work' = [work EXCEPT ![w] = Idle] /\ work[w].pc = "sourced"
  BY DEF SaveSignals
<1>2. sequence' \in 0..MaxSequence /\ sequence <= sequence'
  BY StateOf, BoundsAssumption DEF SaveSignals, FacetInv, TypeOK
<1>3. signals' \in SignalsRow
  <2>1. signals \in SignalsRow
    BY DEF FacetInv, TypeOK
  <2>2. CASE signals' = signals
    BY <2>1, <2>2
  <2>3. CASE signals' # signals
    <3>1. /\ cited # {}
          /\ signals' = [src |-> work[w].src,
                         seq |-> sequence + 1,
                         version |-> work[w].pages[1],
                         source |-> work[w].source,
                         sourceVersion |-> rows[CHOOSE i \in cited : TRUE].version]
      BY <2>3 DEF SaveSignals
    <3>2. rows[CHOOSE i \in cited : TRUE].version \in Version
      <4>1. (CHOOSE i \in cited : TRUE) \in DOMAIN rows
        BY <3>1
      <4>2. QED
        BY <4>1, RowFields DEF FacetInv
    <3>3. work[w].pages[1] \in Version
      BY <1>1, StateOf, WorkFields DEF Fits
    <3>4. work[w].src \in Int /\ sequence + 1 \in Nat /\ work[w].source \in Nat
      BY StateOf, WorkFields
    <3>5. Version \subseteq 0..MaxVersion
      BY BoundsAssumption DEF Version
    <3>6. QED
      BY <3>1, <3>2, <3>3, <3>4, <3>5 DEF SignalsRow
  <2>4. QED
    BY <2>2, <2>3
<1>4. /\ work' \in [Workers -> Work] /\ work'[w] = Idle
      /\ \A v \in Workers : v # w => work'[v] = work[v]
  BY <1>1, StateOf, IdleFields
<1>5. RowNumbers' /\ RowsFromGitHub'
  BY <1>1, <1>2, StateOf DEF FacetInv, RowNumbers, RowsAreOneSet, RowsFromGitHub
<1>6. ASSUME NEW v \in Workers PROVE Fits(work[v])'
  BY <1>1, <1>4, StateOf, IdleFits DEF Fits
<1>7. TypeOK'
  <2>1. \A v \in Workers : Len(work'[v].pages) <= MaxPages
    BY <1>6 DEF Fits
  <2>2. QED
    BY <1>1, <1>2, <1>3, <1>4, <2>1 DEF FacetInv, TypeOK
<1>8. QED
  BY <1>5, <1>6, <1>7 DEF FacetInv
-----------------------------------------------------------------------------
LEMMA StepKeepsFacetInv == FacetInv /\ [Next]_vars => FacetInv'
<1>1. SUFFICES ASSUME FacetInv, [Next]_vars PROVE FacetInv'
  OBVIOUS
<1>2. CASE GitHubChanges
  BY <1>1, <1>2, GitHubKeepsIInv
<1>3. ASSUME NEW w \in Workers, WorkStep(w) PROVE FacetInv'
  <2>1. CASE Begin(w)
    BY <1>1, <2>1, BeginKeepsIInv
  <2>2. CASE FetchPage(w)
    BY <1>1, <2>2, FetchPageKeepsIInv
  <2>3. CASE FetchStatus(w)
    BY <1>1, <2>3, FetchStatusKeepsIInv
  <2>4. CASE FetchWorkflow(w)
    BY <1>1, <2>4, FetchWorkflowKeepsIInv
  <2>5. CASE Abandon(w)
    BY <1>1, <2>5, AbandonKeepsIInv
  <2>6. CASE ApplySet(w)
    BY <1>1, <2>6, ApplySetKeepsIInv
  <2>7. CASE AdvanceFacet(w)
    BY <1>1, <2>7, AdvanceFacetKeepsIInv
  <2>8. CASE ReadSource(w)
    BY <1>1, <2>8, ReadSourceKeepsIInv
  <2>9. CASE SaveSignals(w)
    BY <1>1, <2>9, SaveSignalsKeepsIInv
  <2>10. CASE ReadThread(w)
    BY <1>1, <2>10, ReadThreadKeepsIInv
  <2>11. QED
    BY <1>3, <2>1, <2>2, <2>3, <2>4, <2>5, <2>6, <2>7, <2>8, <2>9, <2>10 DEF WorkStep
<1>4. CASE UNCHANGED vars
  <2>1. UNCHANGED <<kind, github, sequence, coverage, rows, signals, work>>
    BY <1>4 DEF vars
  <2>2. QED
    BY <1>1, <2>1 DEF FacetInv, TypeOK, RowNumbers, RowsAreOneSet, RowsFromGitHub, Fits
<1>5. QED
  BY <1>1, <1>2, <1>3, <1>4 DEF Next

\* In every reachable state the inductive invariant holds.
THEOREM StoreInvariant == Spec => []FacetInv
BY InitFacetInv, StepKeepsFacetInv, PTL DEF Spec

\* The store and the workers keep their types, and no refresh reads more
\* than max_pages pages (hydratePaginatedFacet).
THEOREM FacetsTypeCorrect == Spec => []TypeOK
<1>1. FacetInv => TypeOK
  BY DEF FacetInv
<1>2. QED
  BY <1>1, StoreInvariant, PTL

\* The stored rows are always one whole fetched set, and a complete coverage
\* is that of the set beside it (applyFacetObservationSet, advanceFacetTx).
THEOREM RowsAlwaysOneSet == Spec => []RowsAreOneSet
<1>1. FacetInv => RowsAreOneSet
  BY DEF FacetInv, RowNumbers
<1>2. QED
  BY <1>1, StoreInvariant, PTL

(***************************************************************************)
(* Compare-and-swap keeps the rows from going back in time, for every      *)
(* number of workers and pages (ApplyFacetObservationSetCAS).              *)
(***************************************************************************)
RowsMove ==
    kind # "workflow" /\ rows' # rows =>
       \A i \in DOMAIN rows, j \in DOMAIN rows' :
          rows'[j].version >= rows[i].version

LEMMA StepMovesRowsForward == FacetInv /\ [Next]_vars => RowsMove
<1>1. SUFFICES ASSUME FacetInv, [Next]_vars, kind # "workflow", rows' # rows,
                      NEW i \in DOMAIN rows, NEW j \in DOMAIN rows'
               PROVE  rows'[j].version >= rows[i].version
  BY DEF RowsMove
<1>2. PICK w \in Workers : ApplySet(w)
  BY <1>1 DEF Next, WorkStep, GitHubChanges, Begin, FetchPage, FetchStatus,
              FetchWorkflow, ReadThread, Abandon, AdvanceFacet, ReadSource, SaveSignals,
              storeVars, vars
<1>3. /\ ExpectedSequenceHolds(w) /\ work[w].pc = "fetched"
      /\ rows' = NewRows(work[w].pages)
  BY <1>1, <1>2, ApplySetShape
<1>4. /\ work[w].pages \in Seq(Version) /\ Fits(work[w]) /\ sequence \in Nat
      /\ \A p \in DOMAIN work[w].pages : work[w].pages[p] \in Nat
  BY <1>1, StateOf, WorkFields
<1>5. j \in DOMAIN work[w].pages /\ rows'[j].version = work[w].pages[j]
  BY <1>1, <1>3, <1>4, NewRowsShape
<1>6. work[w].baseline = coverage.seq
  BY <1>1, <1>3 DEF ExpectedSequenceHolds, SequenceIsCurrent
<1>7. rows[i].version <= work[w].pages[j]
  BY <1>1, <1>3, <1>4, <1>5, <1>6 DEF Fits
<1>8. rows[i].version \in Nat
  BY <1>1, RowFields, BoundsAssumption DEF FacetInv, Version
<1>9. QED
  BY <1>4, <1>5, <1>7, <1>8

THEOREM RowsMoveForward == Spec => RowsNeverGoBack
<1>1. FacetInv /\ [Next]_vars => [RowsMove]_vars
  BY StepMovesRowsForward
<1>2. Spec => [][RowsMove]_vars
  BY <1>1, StoreInvariant, PTL DEF Spec
<1>3. QED
  BY <1>2 DEF RowsNeverGoBack, RowsMove
-----------------------------------------------------------------------------
(***************************************************************************)
(* The inductive invariant.  What every discovery has passed is covered:   *)
(* the pages before its page when it is about to list one or to save a     *)
(* checkpoint, and the items it has done while it goes through a page.     *)
(* The stored checkpoint was saved by one of them, whichever it was.       *)
(***************************************************************************)
LocalFields == {"pc", "workflow", "generation", "page", "items", "hasNext", "state",
                "content", "complete"}

IsLocal(local) ==
    /\ DOMAIN local = LocalFields
    /\ local.generation \in Nat
    /\ local.page \in Nat \ {0}
    /\ local.items \in Seq(Pulls)
    /\ local.hasNext \in BOOLEAN
    /\ local.state \in {"truncated", "complete"}
    /\ local.content \in Nat
    /\ local.complete \in BOOLEAN

Covered(p) == p \in stored /\ facet[p].src >= 0

Reached(page, state) ==
    \A p \in (IF state = "complete" THEN Range(listing) ELSE Before(page)) \ missed :
        Covered(p)

Passed(local) ==
    /\ local.pc \in {"list", "checkpoint", "advance", "finish"} =>
          Reached(local.page, local.state)
    /\ local.pc \in {"item", "identity", "facet"} /\ local.workflow = "index" =>
          /\ Reached(local.page, "truncated")
          /\ \A p \in Before(local.page + 1) \ (missed \cup Range(local.items)) : Covered(p)
          /\ ~local.hasNext =>
                \A p \in Range(listing) \ (missed \cup Range(local.items)) : Covered(p)
    /\ local.pc \in {"idle", "list", "item", "identity", "facet", "checkpoint", "advance"} =>
          local.state = "truncated"
    /\ local.pc \in {"identity", "facet"} => local.items # <<>>
    /\ local.pc = "facet" => Head(local.items) \in stored

Runs ==
    /\ DOMAIN run = Indexers
    /\ \A w \in Indexers : IsLocal(run[w])

IndexInv ==
    /\ IndexTypeOK
    /\ Runs
    /\ Reached(discovery.next, discovery.state)
    /\ \A w \in Indexers : Passed(run[w])

(***************************************************************************)
(* A search that has found no change so far has read what is stored now.   *)
(***************************************************************************)
SearchInv ==
    /\ projection.rows = projection.hash
    /\ search.pc = "fresh" /\ ~search.changed => projection.hash = Contents
    /\ search.pc = "read" /\ ~search.changed =>
          /\ search.rows = Contents
          /\ search.complete => \A p \in stored : facet[p].complete
-----------------------------------------------------------------------------
(***************************************************************************)
(* Steps of an indexer, and the list.                                      *)
(***************************************************************************)
LEMMA StepFields ==
    ASSUME Runs, NEW w \in Indexers, NEW fields, Step(w, fields)
    PROVE  /\ DOMAIN run' = Indexers
           /\ DOMAIN run'[w] = LocalFields
           /\ \A v \in Indexers : v # w => run'[v] = run[v]
           /\ \A f \in LocalFields :
                 run'[w][f] = IF f \in DOMAIN fields THEN fields[f] ELSE run[w][f]
BY DEF Step, Runs, IsLocal

LEMMA NoRunFields ==
    IsLocal(NoRun) /\ NoRun.pc = "idle" /\ NoRun.state = "truncated"
BY DEF IsLocal, NoRun, LocalFields

LEMMA ProductType == \A a, b \in Nat : a * b \in Nat
OBVIOUS

LEMMA PartOfSeq ==
    ASSUME NEW S, NEW s \in Seq(S), NEW k \in Nat, NEW l \in Nat, l <= Len(s)
    PROVE  /\ SubSeq(s, k + 1, l) \in Seq(S)
           /\ DOMAIN SubSeq(s, k + 1, l) = 1 .. (IF k + 1 <= l THEN l - k ELSE 0)
           /\ \A i \in 1 .. l - k : SubSeq(s, k + 1, l)[i] = s[k + i]
OBVIOUS

\* Nothing comes before the first page, and a page comes before the next one.
LEMMA FirstPage ==
    ASSUME listing \in Seq(Pulls)
    PROVE  Before(1) = {}
<1>1. (1 - 1) * PageSize = 0
  BY IndexAssumption
<1>2. \A j \in DOMAIN listing : ~(j <= 0)
  OBVIOUS
<1>3. QED
  BY <1>1, <1>2 DEF Before

LEMMA PageFields ==
    ASSUME listing \in Seq(Pulls), NEW n \in Nat \ {0}
    PROVE  /\ PageOf(n) \in Seq(Pulls)
           /\ Before(n + 1) \subseteq Before(n) \cup Range(PageOf(n))
           /\ ~(n * PageSize < Len(listing)) =>
                 Range(listing) \subseteq Before(n) \cup Range(PageOf(n))
<1> DEFINE first == (n - 1) * PageSize
           last == IF n * PageSize < Len(listing) THEN n * PageSize ELSE Len(listing)
           page == SubSeq(listing, first + 1, last)
<1>1. first \in Nat /\ n * PageSize \in Nat /\ Len(listing) \in Nat
  BY ProductType, IndexAssumption
<1>2. (n + 1) - 1 = n
  OBVIOUS
<1>3. PageOf(n) = page
  BY DEF PageOf
<1>4. Before(n) = {listing[i] : i \in {j \in DOMAIN listing : j <= first}}
  BY DEF Before
<1>5. Before(n + 1) = {listing[i] : i \in {j \in DOMAIN listing : j <= n * PageSize}}
  BY <1>2 DEF Before
<1> HIDE DEF first
<1>6. last \in Nat
  BY <1>1
<1> HIDE DEF last
<1>7. last <= Len(listing)
  BY <1>1 DEF last
<1>8. /\ page \in Seq(Pulls)
      /\ DOMAIN page = 1 .. (IF first + 1 <= last THEN last - first ELSE 0)
      /\ \A i \in 1 .. last - first : page[i] = listing[first + i]
  BY <1>1, <1>6, <1>7, PartOfSeq
<1> HIDE DEF page
<1>9. \A j \in DOMAIN listing : first < j /\ j <= last => listing[j] \in Range(page)
  <2>1. SUFFICES ASSUME NEW j \in DOMAIN listing, first < j, j <= last
                 PROVE  listing[j] \in Range(page)
    OBVIOUS
  <2>2. j - first \in DOMAIN page /\ page[j - first] = listing[j]
    BY <1>1, <1>8, <1>6, <2>1
  <2>3. QED
    BY <2>2 DEF Range
<1>10. \A j \in DOMAIN listing : j \in Nat /\ j <= Len(listing)
  OBVIOUS
<1>11. Before(n + 1) \subseteq Before(n) \cup Range(page)
  BY <1>1, <1>4, <1>5, <1>9, <1>10 DEF last
<1>12. ~(n * PageSize < Len(listing)) =>
          Range(listing) \subseteq Before(n) \cup Range(page)
  BY <1>1, <1>4, <1>9, <1>10 DEF Range, last
<1>13. QED
  BY <1>3, <1>8, <1>11, <1>12

\* A pull request that moves to the front moves no other to an earlier place.
LEMMA MovedToFront ==
    ASSUME listing \in Seq(Pulls), IsInjective(listing), NEW i \in DOMAIN listing,
           listing' = <<listing[i]>> \o RemoveAt(listing, i)
    PROVE  /\ listing' \in Seq(Pulls) /\ IsInjective(listing')
           /\ \A k \in DOMAIN listing' :
                 \/ listing'[k] = listing[i]
                 \/ \E j \in DOMAIN listing : j <= k /\ listing'[k] = listing[j]
<1> DEFINE n == Len(listing)
           ahead == SubSeq(listing, 1, i - 1)
           behind == SubSeq(listing, i + 1, n)
<1>1. n \in Nat /\ i \in 1 .. n /\ listing \in [1 .. n -> Pulls] /\ DOMAIN listing = 1 .. n
  OBVIOUS
<1>2. /\ ahead \in Seq(Pulls) /\ Len(ahead) = i - 1
      /\ \A k \in 1 .. i - 1 : ahead[k] = listing[k]
  BY <1>1
<1>3. /\ behind \in Seq(Pulls) /\ Len(behind) = n - i
      /\ \A k \in 1 .. n - i : behind[k] = listing[i + k]
  <2>1. /\ i + 1 \in 1 .. Len(listing) + 1 /\ n \in i + 1 - 1 .. Len(listing)
        /\ n - (i + 1) + 1 = n - i
    BY <1>1
  <2>2. /\ behind \in Seq(Pulls) /\ Len(behind) = n - (i + 1) + 1
        /\ \A k \in 1 .. n - (i + 1) + 1 : behind[k] = listing[i + 1 + k - 1]
    BY <2>1, SubSeqProperties, SMTT(30)
  <2> HIDE DEF behind
  <2>3. \A k \in 1 .. n - i : i + 1 + k - 1 = i + k
    BY <1>1
  <2> QED
    BY <2>1, <2>2, <2>3
<1>4. listing' = <<listing[i]>> \o (ahead \o behind)
  BY DEF RemoveAt
<1> HIDE DEF ahead, behind, n
<1> DEFINE others == ahead \o behind
<1>5. /\ others \in Seq(Pulls) /\ Len(others) = n - 1
      /\ \A k \in 1 .. n - 1 : others[k] = IF k <= i - 1 THEN listing[k]
                                            ELSE listing[k + 1]
  <2>1. /\ others \in Seq(Pulls) /\ Len(others) = Len(ahead) + Len(behind)
        /\ \A k \in 1 .. Len(ahead) + Len(behind) :
              others[k] = IF k <= Len(ahead) THEN ahead[k] ELSE behind[k - Len(ahead)]
    BY <1>2, <1>3, ConcatProperties
  <2> HIDE DEF others
  <2>2. Len(ahead) + Len(behind) = n - 1
    BY <1>1, <1>2, <1>3
  <2>3. ASSUME NEW k \in 1 .. n - 1, k > i - 1 PROVE behind[k - (i - 1)] = listing[k + 1]
    <3>1. k - (i - 1) \in 1 .. n - i /\ i + (k - (i - 1)) = k + 1
      BY <1>1, <2>3
    <3>2. QED
      BY <1>3, <3>1
  <2>4. ASSUME NEW k \in 1 .. n - 1
        PROVE  others[k] = IF k <= i - 1 THEN listing[k] ELSE listing[k + 1]
    <3>1. others[k] = IF k <= i - 1 THEN ahead[k] ELSE behind[k - (i - 1)]
      BY <1>2, <2>1, <2>2
    <3>2. k <= i - 1 => k \in 1 .. i - 1
      BY <1>1
    <3>3. ~(k <= i - 1) => k > i - 1
      BY <1>1
    <3>4. QED
      BY <1>2, <2>3, <3>1, <3>2, <3>3
  <2>5. QED
    BY <2>1, <2>2, <2>4
<1> HIDE DEF others
<1>6. /\ listing' \in Seq(Pulls) /\ DOMAIN listing' = 1 .. n
      /\ listing'[1] = listing[i]
      /\ \A k \in 2 .. n : listing'[k] = IF k <= i THEN listing[k - 1] ELSE listing[k]
  <2>1. listing' = <<listing[i]>> \o others
    BY <1>4 DEF others
  <2>2. /\ listing' \in Seq(Pulls) /\ Len(listing') = n /\ DOMAIN listing' = 1 .. n
        /\ \A k \in 1 .. n : listing'[k] = IF k = 1 THEN listing[i] ELSE others[k - 1]
    <3>1. /\ <<listing[i]>> \in Seq(Pulls) /\ Len(<<listing[i]>>) = 1
          /\ <<listing[i]>>[1] = listing[i]
      BY <1>1
    <3>2. /\ <<listing[i]>> \o others \in Seq(Pulls)
          /\ Len(<<listing[i]>> \o others) = 1 + Len(others)
          /\ \A k \in 1 .. 1 + Len(others) :
                (<<listing[i]>> \o others)[k] =
                   IF k <= 1 THEN <<listing[i]>>[k] ELSE others[k - 1]
      BY <1>5, <3>1, ConcatProperties
    <3>3. 1 + Len(others) = n
      BY <1>1, <1>5
    <3>4. \A k \in 1 .. n : k <= 1 => k = 1
      BY <1>1
    <3>5. listing' \in Seq(Pulls) /\ Len(listing') = n
      BY <2>1, <3>2, <3>3
    <3>6. DOMAIN listing' = 1 .. n
      BY <3>5, LenProperties
    <3>7. ASSUME NEW k \in 1 .. n
          PROVE  listing'[k] = IF k = 1 THEN listing[i] ELSE others[k - 1]
      <4>1. listing'[k] = IF k <= 1 THEN <<listing[i]>>[k] ELSE others[k - 1]
        BY <2>1, <3>2, <3>3
      <4>2. k = 1 <=> k <= 1
        BY <1>1
      <4>3. QED
        BY <3>1, <4>1, <4>2
    <3>8. QED
      BY <3>5, <3>6, <3>7
  <2>3. ASSUME NEW k \in 2 .. n
        PROVE  others[k - 1] = IF k <= i THEN listing[k - 1] ELSE listing[k]
    <3>1. k - 1 \in 1 .. n - 1 /\ (k - 1) + 1 = k
      BY <1>1
    <3>2. QED
      BY <1>1, <1>5, <3>1
  <2>4. QED
    BY <1>1, <2>2, <2>3
<1> DEFINE was == [k \in 1 .. n |-> IF k = 1 THEN i ELSE IF k <= i THEN k - 1 ELSE k]
<1>7. /\ \A k \in 1 .. n : was[k] \in 1 .. n /\ listing'[k] = listing[was[k]]
      /\ \A k \in 1 .. n : k # 1 => was[k] <= k
      /\ \A k, l \in 1 .. n : was[k] = was[l] => k = l
  BY <1>1, <1>6
<1> HIDE DEF was
<1>8. IsInjective(listing')
  BY <1>1, <1>6, <1>7 DEF IsInjective
<1>9. ASSUME NEW k \in DOMAIN listing'
      PROVE  \/ listing'[k] = listing[i]
             \/ \E j \in DOMAIN listing : j <= k /\ listing'[k] = listing[j]
  <2>1. k \in 1 .. n
    BY <1>6
  <2>2. CASE k = 1
    BY <1>6, <2>2
  <2>3. CASE k # 1
    BY <1>1, <1>7, <2>1, <2>3
  <2>4. QED
    BY <2>2, <2>3
<1>10. QED
  BY <1>6, <1>8, <1>9
-----------------------------------------------------------------------------
(***************************************************************************)
(* What is covered stays covered, and GitHub only moves pull requests that *)
(* count as missed ahead of those already listed.                          *)
(***************************************************************************)
Grows ==
    /\ stored \subseteq stored' /\ missed \subseteq missed'
    /\ \A p \in Pulls : facet[p].src >= 0 => facet'[p].src >= 0
    /\ Range(listing') \ missed' \subseteq Range(listing) \ missed
    /\ \A n \in Nat \ {0} : Before(n)' \ missed' \subseteq Before(n) \ missed

LEMMA ListedPulls ==
    ASSUME listing \in Seq(Pulls)
    PROVE  /\ Range(listing) \subseteq Pulls
           /\ \A n : Before(n) \subseteq Range(listing)
BY DEF Range, Before

LEMMA PassedStays ==
    ASSUME IndexTypeOK, Grows, NEW local, IsLocal(local), Passed(local)
    PROVE  Passed(local)'
<1>1. /\ local.page \in Nat \ {0} /\ local.page + 1 \in Nat \ {0}
  BY DEF IsLocal
<1>2. listing \in Seq(Pulls)
  BY DEF IndexTypeOK
<1>3. \A p \in Range(listing) : Covered(p) => Covered(p)'
  BY <1>2, ListedPulls DEF Grows, Covered
<1>4. /\ \A p \in Before(local.page)' \ missed' : p \in Before(local.page) \ missed
      /\ \A p \in Before(local.page + 1)' \ missed' : p \in Before(local.page + 1) \ missed
      /\ \A p \in Range(listing)' \ missed' : p \in Range(listing) \ missed
  BY <1>1 DEF Grows
<1>5. Reached(local.page, local.state) => Reached(local.page, local.state)'
  BY <1>2, <1>3, <1>4, ListedPulls DEF Reached
<1>6. Reached(local.page, "truncated") => Reached(local.page, "truncated")'
  BY <1>2, <1>3, <1>4, ListedPulls DEF Reached
<1>7. (\A p \in Before(local.page + 1) \ (missed \cup Range(local.items)) : Covered(p)) =>
      (\A p \in Before(local.page + 1) \ (missed \cup Range(local.items)) : Covered(p))'
  BY <1>2, <1>3, <1>4, ListedPulls
<1>8. (\A p \in Range(listing) \ (missed \cup Range(local.items)) : Covered(p)) =>
      (\A p \in Range(listing) \ (missed \cup Range(local.items)) : Covered(p))'
  BY <1>2, <1>3, <1>4
<1>9. Head(local.items) \in stored => (Head(local.items) \in stored)'
  BY DEF Grows
<1>10. QED
  BY <1>5, <1>6, <1>7, <1>8, <1>9 DEF Passed

LEMMA ReachedStays ==
    ASSUME IndexTypeOK, Grows, NEW page \in Nat \ {0}, NEW state, Reached(page, state)
    PROVE  Reached(page, state)'
<1>1. listing \in Seq(Pulls)
  BY DEF IndexTypeOK
<1>2. \A p \in Range(listing) : Covered(p) => Covered(p)'
  BY <1>1, ListedPulls DEF Grows, Covered
<1>3. QED
  BY <1>1, <1>2, ListedPulls DEF Reached, Grows

(***************************************************************************)
(* A step of worker w preserves the invariant if what it leaves behind     *)
(* fits.                                                                   *)
(***************************************************************************)
LEMMA LocalMove ==
    ASSUME IndexInv, IndexTypeOK', Grows, NEW w \in Indexers, DOMAIN run' = Indexers,
           \A v \in Indexers : v # w => run'[v] = run[v],
           IsLocal(run'[w]), Passed(run[w])',
           Reached(discovery.next, discovery.state)'
    PROVE  IndexInv'
<1>1. Runs'
  BY DEF IndexInv, Runs, IsLocal
<1>2. ASSUME NEW v \in Indexers PROVE Passed(run[v])'
  <2>1. CASE v = w
    BY <2>1
  <2>2. CASE v # w
    <3>1. ASSUME NEW local, local = run[v] PROVE Passed(local)'
      BY <3>1, PassedStays DEF IndexInv, Runs
    <3>2. PICK local : local = run[v]
      OBVIOUS
    <3>3. Passed(local)'
      BY <3>1, <3>2
    <3>4. run'[v] = local
      BY <2>2, <3>2
    <3>5. QED
      BY <3>3, <3>4 DEF Passed, Reached, Covered
  <2>3. QED
    BY <2>1, <2>2
<1>3. QED
  BY <1>1, <1>2 DEF IndexInv

\* The corpus as the indexers see it is unchanged.
Quiet ==
    /\ UNCHANGED <<listing, updates, stored, facet, discovery, projection, search, missed>>
    /\ jobs' \in 0 .. MaxJobs /\ failures' \in 0 .. MaxFailures

LEMMA QuietMove ==
    ASSUME IndexInv, Quiet, NEW w \in Indexers, DOMAIN run' = Indexers,
           \A v \in Indexers : v # w => run'[v] = run[v],
           IsLocal(run'[w]), Passed(run[w])'
    PROVE  IndexInv'
<1>1. IndexTypeOK'
  BY DEF IndexInv, IndexTypeOK, Quiet
<1>2. Grows
  BY DEF Grows, Quiet, Before
<1>3. Reached(discovery.next, discovery.state)'
  BY DEF IndexInv, Quiet, Reached, Covered, Before
<1>4. QED
  BY <1>1, <1>2, <1>3, LocalMove
-----------------------------------------------------------------------------
\* The first listing is any order of the open pull requests.
LEMMA ListingType ==
    ASSUME NEW open \in SUBSET Pulls
    PROVE  SetToSeq(open) \in Seq(Pulls) /\ IsInjective(SetToSeq(open))
<1>1. IsFiniteSet(open)
  BY IndexAssumption, FS_Subset
<1>2. Cardinality(open) \in Nat /\ ExistsBijection(1..Cardinality(open), open)
  BY <1>1, FS_CardinalityType
<1>3. PICK f \in [1..Cardinality(open) -> open] : IsInjective(f)
  BY <1>2 DEF ExistsBijection, Bijection, Injection, IsInjective
<1>4. SetToSeq(open) \in [1..Cardinality(open) -> open] /\ IsInjective(SetToSeq(open))
  BY <1>3 DEF SetToSeq
<1>5. QED
  BY <1>2, <1>4

LEMMA InitIndexInv == IndexInit => IndexInv
<1>1. SUFFICES ASSUME IndexInit PROVE IndexInv
  OBVIOUS
<1>2. PICK open \in SUBSET Pulls : listing = SetToSeq(open)
  BY <1>1 DEF IndexInit
<1>3. listing \in Seq(Pulls) /\ IsInjective(listing)
  BY <1>2, ListingType
<1>4. IndexTypeOK
  BY <1>1, <1>3, IndexAssumption
     DEF IndexInit, IndexTypeOK, NoFeedback, NoContents, NoSearch
<1>5. Runs
  BY <1>1, NoRunFields DEF IndexInit, Runs
<1>6. Reached(discovery.next, discovery.state)
  BY <1>1, <1>3, FirstPage DEF IndexInit, Reached
<1>7. \A w \in Indexers : Passed(run[w])
  BY <1>1, NoRunFields DEF IndexInit, Passed
<1>8. QED
  BY <1>4, <1>5, <1>6, <1>7 DEF IndexInv
-----------------------------------------------------------------------------
(***************************************************************************)
(* GitHub.                                                                 *)
(***************************************************************************)
LEMMA UpdateKeepsIndexInv ==
    ASSUME IndexInv, NEW p \in Pulls, Update(p)
    PROVE  IndexInv'
<1>1. /\ updates' = [updates EXCEPT ![p] = @ + 1]
      /\ missed' = missed \cup {p}
      /\ UNCHANGED <<stored, facet, discovery, projection, run, search, jobs, failures>>
  BY DEF Update
<1>2. listing \in Seq(Pulls) /\ IsInjective(listing) /\ updates \in [Pulls -> Nat]
  BY DEF IndexInv, IndexTypeOK
<1>3. /\ listing' \in Seq(Pulls) /\ IsInjective(listing')
      /\ \A k \in DOMAIN listing' :
            \/ listing'[k] = p
            \/ \E j \in DOMAIN listing : j <= k /\ listing'[k] = listing[j]
  <2>1. CASE p \notin Range(listing) /\ listing' = <<p>> \o listing
    <3>1. /\ listing' \in Seq(Pulls) /\ Len(listing') = 1 + Len(listing)
          /\ \A k \in 1 .. 1 + Len(listing) :
                listing'[k] = IF k = 1 THEN p ELSE listing[k - 1]
      BY <1>2, <2>1
    <3>2. Len(listing) \in Nat /\ DOMAIN listing = 1 .. Len(listing)
      BY <1>2
    <3>3. DOMAIN listing' = 1 .. 1 + Len(listing)
      BY <3>1, LenProperties
    <3>4. \A k \in 1 .. 1 + Len(listing) : k # 1 =>
             k - 1 \in DOMAIN listing /\ k - 1 <= k /\ listing'[k] = listing[k - 1]
      BY <3>1, <3>2
    <3>5. \A j \in DOMAIN listing : listing[j] # p
      BY <2>1 DEF Range
    <3>6. ASSUME NEW j \in 1 .. 1 + Len(listing), NEW k \in 1 .. 1 + Len(listing),
                 listing'[j] = listing'[k]
          PROVE  j = k
      <4>1. j = 1 \/ k = 1 => j = 1 /\ k = 1
        BY <3>1, <3>4, <3>5, <3>6
      <4>2. j # 1 /\ k # 1 => j - 1 = k - 1
        BY <1>2, <3>4, <3>6 DEF IsInjective
      <4>3. j \in Int /\ k \in Int
        BY <3>2
      <4>4. QED
        BY <4>1, <4>2, <4>3
    <3>7. IsInjective(listing')
      BY <3>3, <3>6 DEF IsInjective
    <3>8. QED
      BY <3>1, <3>3, <3>4, <3>7
  <2>2. CASE \E i \in DOMAIN listing :
                listing[i] = p /\ listing' = <<p>> \o RemoveAt(listing, i)
    BY <1>2, <2>2, MovedToFront
  <2>3. QED
    BY <2>1, <2>2 DEF Update
<1>4. IndexTypeOK'
  BY <1>1, <1>2, <1>3 DEF IndexInv, IndexTypeOK
<1>5. Grows
  <2>1. Range(listing') \ missed' \subseteq Range(listing) \ missed
    BY <1>1, <1>3 DEF Range
  <2>2. ASSUME NEW n \in Nat \ {0}
        PROVE  Before(n)' \ missed' \subseteq Before(n) \ missed
    <3>1. \A k \in DOMAIN listing', j \in DOMAIN listing : k \in Int /\ j \in Int
      BY <1>2, <1>3
    <3> DEFINE bound == (n - 1) * PageSize
    <3>2. bound \in Nat
      BY ProductType, IndexAssumption
    <3>3. Before(n) = {listing[i] : i \in {j \in DOMAIN listing : j <= bound}}
      BY DEF Before
    <3>4. Before(n)' = {listing'[i] : i \in {j \in DOMAIN listing' : j <= bound}}
      BY DEF Before
    <3> HIDE DEF bound
    <3>5. QED
      BY <1>1, <1>3, <3>1, <3>2, <3>3, <3>4
  <2>3. QED
    BY <1>1, <2>1, <2>2 DEF Grows
<1>6. Runs'
  BY <1>1 DEF IndexInv, Runs, IsLocal
<1>7. Reached(discovery.next, discovery.state)'
  <2>1. PICK page, state : page = discovery.next /\ state = discovery.state
    OBVIOUS
  <2>2. page \in Nat \ {0} /\ Reached(page, state)
    BY <2>1 DEF IndexInv, IndexTypeOK
  <2>3. Reached(page, state)'
    BY <1>5, <2>2, ReachedStays DEF IndexInv
  <2>4. QED
    BY <1>1, <2>1, <2>3 DEF Reached, Covered, Before
<1>8. ASSUME NEW w \in Indexers PROVE Passed(run[w])'
  <2>1. PICK local : local = run[w]
    OBVIOUS
  <2>2. Passed(local)'
    BY <1>5, <2>1, PassedStays DEF IndexInv, Runs
  <2>3. run'[w] = local
    BY <1>1, <2>1
  <2>4. QED
    BY <2>2, <2>3 DEF Passed, Reached, Covered, Before
<1>9. QED
  BY <1>4, <1>6, <1>7, <1>8 DEF IndexInv
-----------------------------------------------------------------------------
(***************************************************************************)
(* The steps that leave the corpus alone.                                  *)
(***************************************************************************)
LEMMA StartIndexKeepsIndexInv ==
    ASSUME IndexInv, NEW w \in Indexers, StartIndex(w)
    PROVE  IndexInv'
<1> DEFINE fresh == discovery.state \in {"pending", "complete"}
           generation == IF fresh THEN discovery.generation + 1 ELSE discovery.generation
           page == IF fresh THEN 1 ELSE discovery.next
<1>1. /\ run[w].pc = "idle"
      /\ jobs < MaxJobs /\ jobs' = jobs + 1
      /\ Step(w, [pc |-> "list", workflow |-> "index", generation |-> generation,
                  page |-> page])
      /\ UNCHANGED <<listing, updates, stored, facet, discovery, projection,
                     search, failures, missed>>
  BY DEF StartIndex
<1>2. /\ listing \in Seq(Pulls) /\ Runs /\ IsLocal(run[w]) /\ Passed(run[w])
      /\ discovery.generation \in Nat /\ discovery.next \in Nat \ {0}
      /\ discovery.state \in {"pending", "truncated", "complete"}
  BY DEF IndexInv, IndexTypeOK, Runs
<1>3. generation \in Nat /\ page \in Nat \ {0}
  BY <1>2
<1>4. Reached(page, "truncated")
  <2>1. CASE fresh
    BY <1>2, <2>1, FirstPage DEF Reached
  <2>2. CASE ~fresh
    BY <1>2, <2>2 DEF IndexInv
  <2>3. QED
    BY <2>1, <2>2
<1> HIDE DEF generation, page
<1>5. /\ DOMAIN run' = Indexers /\ DOMAIN run'[w] = LocalFields
      /\ \A v \in Indexers : v # w => run'[v] = run[v]
      /\ run'[w].pc = "list" /\ run'[w].workflow = "index"
      /\ run'[w].generation = generation /\ run'[w].page = page
      /\ \A f \in LocalFields \ {"pc", "workflow", "generation", "page"} :
            run'[w][f] = run[w][f]
  BY <1>1, <1>2, StepFields DEF LocalFields
<1>6. run[w].state = "truncated"
  BY <1>1, <1>2 DEF Passed
<1>7. IsLocal(run'[w]) /\ run'[w].state = "truncated"
  BY <1>2, <1>3, <1>5, <1>6 DEF IsLocal, LocalFields
<1>8. Passed(run[w])'
  BY <1>1, <1>4, <1>5, <1>7 DEF Passed, Reached, Covered, Before
<1>9. Quiet
  BY <1>1, IndexAssumption DEF IndexInv, IndexTypeOK, Quiet
<1>10. QED
  BY <1>5, <1>7, <1>8, <1>9, QuietMove

LEMMA ListKeepsIndexInv ==
    ASSUME IndexInv, NEW w \in Indexers, ListPullRequests(w)
    PROVE  IndexInv'
<1> DEFINE page == run[w].page
           items == PageOf(page)
           hasNext == page * PageSize < Len(listing)
<1>1. /\ run[w].pc = "list"
      /\ Step(w, [pc |-> "item", items |-> items, hasNext |-> hasNext])
      /\ UNCHANGED <<listing, updates, stored, facet, discovery, projection,
                     search, jobs, failures, missed>>
  BY DEF ListPullRequests
<1>2. listing \in Seq(Pulls) /\ Runs /\ IsLocal(run[w]) /\ Passed(run[w])
  BY DEF IndexInv, IndexTypeOK, Runs
<1>3. page \in Nat \ {0} /\ Reached(page, "truncated") /\ run[w].state = "truncated"
  BY <1>1, <1>2 DEF Passed, IsLocal
<1>4. /\ items \in Seq(Pulls) /\ hasNext \in BOOLEAN
      /\ Before(page + 1) \subseteq Before(page) \cup Range(items)
      /\ ~hasNext => Range(listing) \subseteq Before(page) \cup Range(items)
  BY <1>2, <1>3, PageFields
<1>5. /\ DOMAIN run' = Indexers /\ DOMAIN run'[w] = LocalFields
      /\ \A v \in Indexers : v # w => run'[v] = run[v]
      /\ run'[w].pc = "item" /\ run'[w].items = items /\ run'[w].hasNext = hasNext
      /\ \A f \in LocalFields \ {"pc", "items", "hasNext"} : run'[w][f] = run[w][f]
  BY <1>1, <1>2, StepFields DEF LocalFields
<1>6. run'[w].page = page /\ run'[w].state = "truncated"
  BY <1>3, <1>5 DEF LocalFields
<1> HIDE DEF page, items, hasNext
<1>7. IsLocal(run'[w])
  BY <1>2, <1>4, <1>5 DEF IsLocal, LocalFields
<1>8. /\ \A p \in Before(page) \ missed : Covered(p)
      /\ \A p \in Before(page + 1) \ (missed \cup Range(items)) : Covered(p)
      /\ ~hasNext => \A p \in Range(listing) \ (missed \cup Range(items)) : Covered(p)
  BY <1>3, <1>4 DEF Reached
<1>9. Passed(run[w])'
  BY <1>1, <1>5, <1>6, <1>8 DEF Passed, Reached, Covered, Before
<1>10. Quiet
  BY <1>1 DEF IndexInv, IndexTypeOK, Quiet
<1>11. QED
  BY <1>5, <1>7, <1>9, <1>10, QuietMove

LEMMA StartExactKeepsIndexInv ==
    ASSUME IndexInv, NEW w \in Indexers, StartExactSync(w)
    PROVE  IndexInv'
<1>1. PICK i \in DOMAIN listing :
         Step(w, [pc |-> "item", workflow |-> "exact", items |-> <<listing[i]>>])
  BY DEF StartExactSync
<1>2. /\ run[w].pc = "idle"
      /\ jobs < MaxJobs /\ jobs' = jobs + 1
      /\ UNCHANGED <<listing, updates, stored, facet, discovery, projection,
                     search, failures, missed>>
  BY DEF StartExactSync
<1>3. listing \in Seq(Pulls) /\ Runs /\ IsLocal(run[w]) /\ Passed(run[w])
  BY DEF IndexInv, IndexTypeOK, Runs
<1>4. <<listing[i]>> \in Seq(Pulls)
  BY <1>3
<1>5. /\ DOMAIN run' = Indexers /\ DOMAIN run'[w] = LocalFields
      /\ \A v \in Indexers : v # w => run'[v] = run[v]
      /\ run'[w].pc = "item" /\ run'[w].workflow = "exact"
      /\ run'[w].items = <<listing[i]>>
      /\ \A f \in LocalFields \ {"pc", "workflow", "items"} : run'[w][f] = run[w][f]
  BY <1>1, <1>3, StepFields DEF LocalFields
<1>6. IsLocal(run'[w]) /\ run'[w].state = "truncated"
  BY <1>2, <1>3, <1>4, <1>5 DEF IsLocal, LocalFields, Passed
<1>7. Passed(run[w])'
  BY <1>5, <1>6 DEF Passed
<1>8. Quiet
  BY <1>2, IndexAssumption DEF IndexInv, IndexTypeOK, Quiet
<1>9. QED
  BY <1>5, <1>6, <1>7, <1>8, QuietMove

LEMMA GetFeedbackKeepsIndexInv ==
    ASSUME IndexInv, NEW w \in Indexers, GetPullRequestFeedback(w)
    PROVE  IndexInv'
<1> DEFINE content == updates[Head(run[w].items)]
<1>1. PICK complete \in BOOLEAN :
         Step(w, [pc |-> "identity", complete |-> complete, content |-> content])
  BY DEF GetPullRequestFeedback
<1>2. /\ run[w].pc = "item" /\ run[w].items # <<>>
      /\ UNCHANGED <<listing, updates, stored, facet, discovery, projection,
                     search, jobs, failures, missed>>
  BY DEF GetPullRequestFeedback
<1>3. /\ Runs /\ IsLocal(run[w]) /\ Passed(run[w]) /\ updates \in [Pulls -> Nat]
  BY DEF IndexInv, IndexTypeOK, Runs
<1>4. content \in Nat
  BY <1>2, <1>3 DEF IsLocal
<1> HIDE DEF content
<1>5. /\ DOMAIN run' = Indexers /\ DOMAIN run'[w] = LocalFields
      /\ \A v \in Indexers : v # w => run'[v] = run[v]
      /\ run'[w].pc = "identity" /\ run'[w].complete = complete
      /\ run'[w].content = content
      /\ \A f \in LocalFields \ {"pc", "complete", "content"} : run'[w][f] = run[w][f]
  BY <1>1, <1>3, StepFields DEF LocalFields
<1>6. IsLocal(run'[w])
  BY <1>3, <1>4, <1>5 DEF IsLocal, LocalFields
<1>7. /\ run'[w].workflow = run[w].workflow /\ run'[w].page = run[w].page
      /\ run'[w].items = run[w].items /\ run'[w].hasNext = run[w].hasNext
      /\ run'[w].state = run[w].state
  BY <1>5 DEF LocalFields
<1>8. Passed(run[w])'
  BY <1>2, <1>3, <1>5, <1>7 DEF Passed, Reached, Covered, Before
<1>9. Quiet
  BY <1>2 DEF IndexInv, IndexTypeOK, Quiet
<1>10. QED
  BY <1>5, <1>6, <1>8, <1>9, QuietMove

\* A worker that is done with its page, or stops on it.
LEMMA PageDoneKeepsIndexInv ==
    ASSUME IndexInv, NEW w \in Indexers,
           NextPage(w) \/ LastPage(w) \/ StopIndex(w) \/ ExactSyncDone(w)
    PROVE  IndexInv'
<1>1. Runs /\ IsLocal(run[w]) /\ Passed(run[w])
  BY DEF IndexInv, IndexTypeOK, Runs
<1>2. Quiet
  BY IndexAssumption
     DEF IndexInv, IndexTypeOK, Quiet, NextPage, LastPage, StopIndex, ExactSyncDone
<1>3. run[w].items = <<>> => Range(run[w].items) = {}
  BY DEF Range
<1>4. CASE NextPage(w)
  <2>1. PICK pc \in {"checkpoint", "finish"} : Step(w, [pc |-> pc, page |-> run[w].page + 1])
    BY <1>4 DEF NextPage
  <2>2. /\ run[w].pc = "item" /\ run[w].workflow = "index" /\ run[w].items = <<>>
    BY <1>4 DEF NextPage
  <2>3. /\ DOMAIN run' = Indexers /\ DOMAIN run'[w] = LocalFields
        /\ \A v \in Indexers : v # w => run'[v] = run[v]
        /\ run'[w].pc = pc /\ run'[w].page = run[w].page + 1
        /\ \A f \in LocalFields \ {"pc", "page"} : run'[w][f] = run[w][f]
    BY <1>1, <2>1, StepFields DEF LocalFields
  <2>4. run[w].page + 1 \in Nat \ {0} /\ run[w].state = "truncated"
    BY <1>1, <2>2 DEF IsLocal, Passed
  <2>5. IsLocal(run'[w]) /\ run'[w].state = "truncated"
    BY <1>1, <2>3, <2>4 DEF IsLocal, LocalFields
  <2>6. \A p \in Before(run[w].page + 1) \ missed : Covered(p)
    BY <1>1, <1>3, <2>2 DEF Passed
  <2>7. Passed(run[w])'
    BY <1>2, <2>3, <2>5, <2>6 DEF Quiet, Passed, Reached, Covered, Before
  <2>8. QED
    BY <1>2, <2>3, <2>5, <2>7, QuietMove
<1>5. CASE LastPage(w)
  <2>1. /\ run[w].pc = "item" /\ run[w].workflow = "index" /\ run[w].items = <<>>
        /\ ~run[w].hasNext /\ Step(w, [pc |-> "finish", state |-> "complete"])
    BY <1>5 DEF LastPage
  <2>2. /\ DOMAIN run' = Indexers /\ DOMAIN run'[w] = LocalFields
        /\ \A v \in Indexers : v # w => run'[v] = run[v]
        /\ run'[w].pc = "finish" /\ run'[w].state = "complete"
        /\ \A f \in LocalFields \ {"pc", "state"} : run'[w][f] = run[w][f]
    BY <1>1, <2>1, StepFields DEF LocalFields
  <2>3. IsLocal(run'[w])
    BY <1>1, <2>2 DEF IsLocal, LocalFields
  <2>4. \A p \in Range(listing) \ missed : Covered(p)
    BY <1>1, <1>3, <2>1 DEF Passed
  <2>5. Passed(run[w])'
    BY <1>2, <2>2, <2>4 DEF Quiet, Passed, Reached, Covered
  <2>6. QED
    BY <1>2, <2>2, <2>3, <2>5, QuietMove
<1>6. CASE StopIndex(w)
  <2>1. /\ run[w].pc = "list" \/ (run[w].pc = "item" /\ run[w].workflow = "index")
        /\ Step(w, [pc |-> "finish", items |-> <<>>])
    BY <1>6 DEF StopIndex
  <2>2. /\ DOMAIN run' = Indexers /\ DOMAIN run'[w] = LocalFields
        /\ \A v \in Indexers : v # w => run'[v] = run[v]
        /\ run'[w].pc = "finish" /\ run'[w].items = <<>>
        /\ \A f \in LocalFields \ {"pc", "items"} : run'[w][f] = run[w][f]
    BY <1>1, <2>1, StepFields DEF LocalFields
  <2>3. IsLocal(run'[w]) /\ run'[w].page = run[w].page /\ run'[w].state = "truncated"
    BY <1>1, <2>1, <2>2 DEF IsLocal, LocalFields, Passed
  <2>4. \A p \in Before(run[w].page) \ missed : Covered(p)
    BY <1>1, <2>1 DEF Passed, Reached
  <2>5. Passed(run[w])'
    BY <1>2, <2>2, <2>3, <2>4 DEF Quiet, Passed, Reached, Covered, Before
  <2>6. QED
    BY <1>2, <2>2, <2>3, <2>5, QuietMove
<1>7. CASE ExactSyncDone(w)
  <2>1. Step(w, [pc |-> "mark"])
    BY <1>7 DEF ExactSyncDone
  <2>2. /\ DOMAIN run' = Indexers /\ DOMAIN run'[w] = LocalFields
        /\ \A v \in Indexers : v # w => run'[v] = run[v]
        /\ run'[w].pc = "mark"
        /\ \A f \in LocalFields \ {"pc"} : run'[w][f] = run[w][f]
    BY <1>1, <2>1, StepFields DEF LocalFields
  <2>3. IsLocal(run'[w])
    BY <1>1, <2>2 DEF IsLocal, LocalFields
  <2>4. Passed(run[w])'
    BY <2>2 DEF Passed
  <2>5. QED
    BY <1>2, <2>2, <2>3, <2>4, QuietMove
<1>8. QED
  BY <1>4, <1>5, <1>6, <1>7

LEMMA HeadOfItems ==
    ASSUME NEW local, IsLocal(local), local.items # <<>>
    PROVE  /\ Head(local.items) \in Pulls
           /\ Tail(local.items) \in Seq(Pulls)
           /\ Range(local.items) \subseteq Range(Tail(local.items)) \cup {Head(local.items)}
<1>1. local.items \in Seq(Pulls)
  BY DEF IsLocal
<1> DEFINE items == local.items
           n == Len(items)
<1>2. items \in Seq(Pulls) /\ n \in Nat \ {0} /\ DOMAIN items = 1 .. n
  BY <1>1, EmptySeq
<1>3. /\ Head(items) \in Pulls /\ Tail(items) \in Seq(Pulls) /\ Head(items) = items[1]
      /\ Len(Tail(items)) = n - 1 /\ \A i \in 1 .. n - 1 : Tail(items)[i] = items[i + 1]
  BY <1>1, <1>2
<1>4. DOMAIN Tail(items) = 1 .. n - 1
  BY <1>3, LenProperties
<1> HIDE DEF items, n
<1>5. ASSUME NEW i \in 1 .. n, i # 1 PROVE items[i] \in Range(Tail(items))
  <2>1. i - 1 \in 1 .. n - 1 /\ (i - 1) + 1 = i
    BY <1>2, <1>5
  <2>2. QED
    BY <1>3, <1>4, <2>1 DEF Range
<1>6. Range(items) \subseteq Range(Tail(items)) \cup {Head(items)}
  BY <1>2, <1>3, <1>5 DEF Range
<1>7. QED
  BY <1>3, <1>6 DEF items

LEMMA FeedbackFailsKeepsIndexInv ==
    ASSUME IndexInv, NEW w \in Indexers, FeedbackFails(w)
    PROVE  IndexInv'
<1> DEFINE items == run[w].items
<1>1. /\ run[w].pc = "item" /\ items # <<>>
      /\ failures < MaxFailures /\ failures' = failures + 1
      /\ missed' = missed \cup {Head(items)}
      /\ Step(w, [items |-> Tail(items)])
      /\ UNCHANGED <<listing, updates, stored, facet, discovery, projection, search, jobs>>
  BY DEF FeedbackFails
<1>2. IndexTypeOK /\ Runs /\ IsLocal(run[w]) /\ Passed(run[w])
  BY DEF IndexInv, Runs
<1>3. /\ Head(items) \in Pulls /\ Tail(items) \in Seq(Pulls)
      /\ Range(items) \subseteq Range(Tail(items)) \cup {Head(items)}
  BY <1>1, <1>2, HeadOfItems
<1> DEFINE rest == Tail(items)
<1> HIDE DEF rest
<1>4. /\ DOMAIN run' = Indexers /\ DOMAIN run'[w] = LocalFields
      /\ \A v \in Indexers : v # w => run'[v] = run[v]
      /\ run'[w].items = rest
      /\ \A f \in LocalFields \ {"items"} : run'[w][f] = run[w][f]
  <2>1. Step(w, [items |-> rest])
    BY <1>1 DEF rest
  <2>2. QED
    BY <1>2, <2>1, StepFields DEF LocalFields
<1>5. /\ run'[w].pc = "item" /\ run'[w].workflow = run[w].workflow
      /\ run'[w].page = run[w].page
      /\ run'[w].hasNext = run[w].hasNext /\ run'[w].state = run[w].state
  BY <1>1, <1>4 DEF LocalFields
<1>6. IsLocal(run'[w])
  BY <1>2, <1>3, <1>4 DEF IsLocal, LocalFields, rest
<1>7. IndexTypeOK'
  <2>1. failures' \in 0 .. MaxFailures
    BY <1>1, <1>2, IndexAssumption DEF IndexTypeOK
  <2>2. QED
    BY <1>1, <1>2, <1>3, <2>1 DEF IndexTypeOK
<1>8. Grows
  BY <1>1 DEF Grows, Before
<1>9. Reached(discovery.next, discovery.state)'
  BY <1>1 DEF IndexInv, Reached, Covered, Before
<1> HIDE DEF items
<1>10. Passed(run[w])'
  <2>1. run[w].workflow = "index" =>
           /\ \A p \in Before(run[w].page) \ missed : Covered(p)
           /\ \A p \in Before(run[w].page + 1) \ (missed' \cup Range(Tail(items))) : Covered(p)
           /\ ~run[w].hasNext =>
                 \A p \in Range(listing) \ (missed' \cup Range(Tail(items))) : Covered(p)
    BY <1>1, <1>2, <1>3 DEF Passed, Reached, items
  <2>2. run[w].state = "truncated"
    BY <1>1, <1>2 DEF Passed
  <2>3. QED
    BY <1>1, <1>4, <1>5, <2>1, <2>2 DEF Passed, Reached, Covered, Before, rest
<1>11. QED
  BY <1>4, <1>6, <1>7, <1>8, <1>9, <1>10, LocalMove

LEMMA CrashKeepsIndexInv ==
    ASSUME IndexInv, NEW w \in Indexers, Crash(w)
    PROVE  IndexInv'
<1>1. run' = [run EXCEPT ![w] = NoRun]
  BY DEF Crash
<1>2. /\ DOMAIN run' = Indexers /\ run'[w] = NoRun
      /\ \A v \in Indexers : v # w => run'[v] = run[v]
  BY <1>1 DEF IndexInv, Runs
<1>3. IsLocal(run'[w])
  BY <1>2, NoRunFields
<1>4. Passed(run[w])'
  BY <1>2, NoRunFields DEF Passed
<1>5. Quiet
  BY IndexAssumption DEF Crash, IndexInv, IndexTypeOK, Quiet
<1>6. QED
  BY <1>2, <1>3, <1>4, <1>5, QuietMove
-----------------------------------------------------------------------------
(***************************************************************************)
(* The steps that write the corpus.                                        *)
(***************************************************************************)
LEMMA RevisedType ==
    ASSUME IndexTypeOK, Revised
    PROVE  /\ search' \in [pc : {"idle", "begun", "fresh", "read", "answered"},
                          changed : BOOLEAN, rows : [Pulls -> Nat \cup {-1}],
                          complete : BOOLEAN]
           /\ search'.pc = search.pc
           /\ search'.pc \in {"begun", "fresh", "read"} => search'.changed
<1>1. search \in [pc : {"idle", "begun", "fresh", "read", "answered"}, changed : BOOLEAN,
                  rows : [Pulls -> Nat \cup {-1}], complete : BOOLEAN]
  BY DEF IndexTypeOK
<1> DEFINE unfinished == search.pc \in {"begun", "fresh", "read"}
<1>2. unfinished \in BOOLEAN /\ search' = [search EXCEPT !.changed = unfinished]
  BY DEF Revised
<1>3. search.pc \in {"begun", "fresh", "read"} => unfinished
  OBVIOUS
<1> HIDE DEF unfinished
<1>4. QED
  BY <1>1, <1>2, <1>3

LEMMA PersistIdentityKeepsIndexInv ==
    ASSUME IndexInv, NEW w \in Indexers, PersistIdentity(w)
    PROVE  IndexInv'
<1> DEFINE items == run[w].items
<1>1. /\ run[w].pc = "identity"
      /\ stored' = stored \cup {Head(items)}
      /\ Step(w, [pc |-> "facet"])
      /\ Revised
      /\ UNCHANGED <<listing, updates, facet, discovery, projection, jobs, failures, missed>>
  BY DEF PersistIdentity
<1>2. IndexTypeOK /\ Runs /\ IsLocal(run[w]) /\ Passed(run[w])
  BY DEF IndexInv, Runs
<1>3. items # <<>> /\ Head(items) \in Pulls /\ run[w].state = "truncated"
  BY <1>1, <1>2, HeadOfItems DEF Passed
<1>4. /\ DOMAIN run' = Indexers /\ DOMAIN run'[w] = LocalFields
      /\ \A v \in Indexers : v # w => run'[v] = run[v]
      /\ run'[w].pc = "facet"
      /\ \A f \in LocalFields \ {"pc"} : run'[w][f] = run[w][f]
  BY <1>1, <1>2, StepFields DEF LocalFields
<1>5. /\ run'[w].items = items /\ run'[w].workflow = run[w].workflow
      /\ run'[w].page = run[w].page
      /\ run'[w].hasNext = run[w].hasNext /\ run'[w].state = run[w].state
  BY <1>4 DEF LocalFields
<1>6. IsLocal(run'[w])
  BY <1>2, <1>4 DEF IsLocal, LocalFields
<1>7. IndexTypeOK'
  BY <1>1, <1>2, <1>3, RevisedType DEF IndexTypeOK
<1>8. Grows
  BY <1>1 DEF Grows, Before
<1>9. Reached(discovery.next, discovery.state)'
  BY <1>1 DEF IndexInv, Reached, Covered, Before
<1> HIDE DEF items
<1>10. Passed(run[w])'
  <2>1. run[w].workflow = "index" =>
           /\ \A p \in Before(run[w].page) \ missed : Covered(p)
           /\ \A p \in Before(run[w].page + 1) \ (missed \cup Range(items)) : Covered(p)
           /\ ~run[w].hasNext =>
                 \A p \in Range(listing) \ (missed \cup Range(items)) : Covered(p)
    BY <1>1, <1>2 DEF Passed, Reached, items
  <2>2. QED
    BY <1>1, <1>3, <1>4, <1>5, <2>1 DEF Passed, Reached, Covered, Before
<1>11. QED
  BY <1>4, <1>6, <1>7, <1>8, <1>9, <1>10, LocalMove

LEMMA PersistFeedbackKeepsIndexInv ==
    ASSUME IndexInv, NEW w \in Indexers, PersistFeedback(w)
    PROVE  IndexInv'
<1> DEFINE items == run[w].items
           p == Head(items)
           src == run[w].content
           complete == run[w].complete
           covered == [src |-> src, complete |-> complete,
                        content |-> IF complete THEN src ELSE facet[p].content]
<1>1. /\ run[w].pc = "facet"
      /\ facet' = IF src < facet[p].src THEN facet ELSE [facet EXCEPT ![p] = covered]
      /\ Step(w, [pc |-> "item", items |-> Tail(items), content |-> 0,
                  complete |-> FALSE])
      /\ Revised
      /\ UNCHANGED <<listing, updates, stored, discovery, projection, jobs, failures, missed>>
  BY DEF PersistFeedback
<1>2. IndexTypeOK /\ Runs /\ IsLocal(run[w]) /\ Passed(run[w])
  BY DEF IndexInv, Runs
<1>3. /\ items # <<>> /\ p \in Pulls /\ p \in stored /\ Tail(items) \in Seq(Pulls)
      /\ Range(items) \subseteq Range(Tail(items)) \cup {p}
      /\ run[w].state = "truncated"
  BY <1>1, <1>2, HeadOfItems DEF Passed
<1>4. /\ facet \in [Pulls -> [src : Nat \cup {-1}, complete : BOOLEAN,
                              content : Nat \cup {-1}]]
      /\ \A q \in Pulls : facet[q].src >= 0 => q \in stored
      /\ src \in Nat /\ complete \in BOOLEAN
  BY <1>2 DEF IndexTypeOK, IsLocal
<1>5. covered \in [src : Nat \cup {-1}, complete : BOOLEAN, content : Nat \cup {-1}]
      /\ covered.src = src
  BY <1>3, <1>4
<1> DEFINE rest == Tail(items)
<1> HIDE DEF rest
<1>6. /\ DOMAIN run' = Indexers /\ DOMAIN run'[w] = LocalFields
      /\ \A v \in Indexers : v # w => run'[v] = run[v]
      /\ run'[w].pc = "item" /\ run'[w].items = rest
      /\ run'[w].content = 0 /\ run'[w].complete = FALSE
      /\ \A f \in LocalFields \ {"pc", "items", "content", "complete"} :
            run'[w][f] = run[w][f]
  <2>1. Step(w, [pc |-> "item", items |-> rest, content |-> 0, complete |-> FALSE])
    BY <1>1 DEF rest
  <2>2. QED
    BY <1>2, <2>1, StepFields DEF LocalFields
<1>7. /\ run'[w].workflow = run[w].workflow /\ run'[w].page = run[w].page
      /\ run'[w].hasNext = run[w].hasNext /\ run'[w].state = run[w].state
  BY <1>6 DEF LocalFields
<1>8. IsLocal(run'[w])
  <2>1. rest \in Seq(Pulls)
    BY <1>3 DEF rest
  <2>2. /\ run'[w].generation \in Nat /\ run'[w].page \in Nat \ {0}
        /\ run'[w].hasNext \in BOOLEAN /\ run'[w].state \in {"truncated", "complete"}
    BY <1>2, <1>6 DEF IsLocal, LocalFields
  <2>3. run'[w].content \in Nat
    BY <1>6
  <2>4. run'[w].complete \in BOOLEAN
    BY <1>6, Zenon
  <2>5. QED
    BY <1>6, <2>1, <2>2, <2>3, <2>4 DEF IsLocal
<1> HIDE DEF items, p, src, complete, covered
<1>9. /\ facet' \in [Pulls -> [src : Nat \cup {-1}, complete : BOOLEAN,
                               content : Nat \cup {-1}]]
      /\ facet'[p].src >= 0
      /\ \A q \in Pulls : q # p => facet'[q] = facet[q]
  BY <1>1, <1>3, <1>4, <1>5
<1>10. IndexTypeOK'
  <2>1. \A q \in Pulls : facet'[q].src >= 0 => q \in stored'
    BY <1>1, <1>3, <1>4, <1>9
  <2>2. QED
    BY <1>1, <1>2, <1>9, <2>1, RevisedType DEF IndexTypeOK
<1>11. Grows
  BY <1>1, <1>9 DEF Grows, Before
<1>12. \A q \in Pulls : Covered(q) => Covered(q)'
  BY <1>1, <1>9 DEF Covered
<1>13. \A q \in Pulls : q = p => Covered(q)'
  BY <1>1, <1>3, <1>9 DEF Covered
<1>14. Reached(discovery.next, discovery.state)'
  <2>1. PICK page, state : page = discovery.next /\ state = discovery.state
    OBVIOUS
  <2>2. page \in Nat \ {0} /\ Reached(page, state)
    BY <2>1 DEF IndexInv, IndexTypeOK
  <2>3. Reached(page, state)'
    BY <1>2, <1>11, <2>2, ReachedStays
  <2>4. QED
    BY <1>1, <2>1, <2>3 DEF Reached, Covered, Before
<1>15. Passed(run[w])'
  <2>1. run[w].workflow = "index" =>
           /\ \A q \in Before(run[w].page) \ missed : Covered(q)'
           /\ \A q \in Before(run[w].page + 1) \ (missed \cup Range(Tail(items))) : Covered(q)'
           /\ ~run[w].hasNext =>
                 \A q \in Range(listing) \ (missed \cup Range(Tail(items))) : Covered(q)'
    <3>1. Range(listing) \subseteq Pulls /\ \A n : Before(n) \subseteq Range(listing)
      BY <1>2, ListedPulls DEF IndexTypeOK
    <3>2. run[w].workflow = "index" =>
             /\ \A q \in Before(run[w].page) \ missed : Covered(q)
             /\ \A q \in Before(run[w].page + 1) \ (missed \cup Range(items)) : Covered(q)
             /\ ~run[w].hasNext =>
                   \A q \in Range(listing) \ (missed \cup Range(items)) : Covered(q)
      BY <1>1, <1>2 DEF Passed, Reached, items
    <3>3. QED
      BY <1>3, <1>12, <1>13, <3>1, <3>2
  <2>2. QED
    BY <1>1, <1>3, <1>6, <1>7, <2>1 DEF Passed, Reached, Covered, Before, rest
<1>16. QED
  BY <1>6, <1>8, <1>10, <1>11, <1>14, <1>15, LocalMove

LEMMA CheckpointKeepsIndexInv ==
    ASSUME IndexInv, NEW w \in Indexers,
           UpsertFeedbackDiscovery(w) \/ AdvanceDiscoveryFacet(w)
    PROVE  IndexInv'
<1>1. IndexTypeOK /\ Runs /\ IsLocal(run[w]) /\ Passed(run[w])
  BY DEF IndexInv, Runs
<1>2. CASE UpsertFeedbackDiscovery(w)
  <2> DEFINE r == run[w]
             saved == [generation |-> r.generation, next |-> r.page, state |-> r.state]
  <2>1. /\ r.pc \in {"checkpoint", "finish"}
        /\ UNCHANGED <<listing, updates, stored, facet, projection, search,
                       jobs, failures, missed>>
        /\ discovery' = discovery \/ discovery' = saved
        /\ \E pc \in {"list", "mark", "advance", "advance last"} :
              Step(w, [pc |-> pc]) /\ (pc \in {"list", "advance"} => r.pc = "checkpoint")
    BY <1>2 DEF UpsertFeedbackDiscovery
  <2>2. PICK pc \in {"list", "mark", "advance", "advance last"} :
           Step(w, [pc |-> pc]) /\ (pc \in {"list", "advance"} => r.pc = "checkpoint")
    BY <2>1
  <2>3. /\ DOMAIN run' = Indexers /\ DOMAIN run'[w] = LocalFields
        /\ \A v \in Indexers : v # w => run'[v] = run[v]
        /\ run'[w].pc = pc
        /\ \A f \in LocalFields \ {"pc"} : run'[w][f] = run[w][f]
    <3> DEFINE fields == [pc |-> pc]
    <3>1. Step(w, fields)
      BY <2>2
    <3>2. DOMAIN fields = {"pc"} /\ fields["pc"] = pc
      OBVIOUS
    <3> HIDE DEF fields
    <3>3. /\ DOMAIN run' = Indexers /\ DOMAIN run'[w] = LocalFields
          /\ \A v \in Indexers : v # w => run'[v] = run[v]
          /\ \A f \in LocalFields :
                run'[w][f] = IF f \in DOMAIN fields THEN fields[f] ELSE run[w][f]
      BY <1>1, <3>1, StepFields
    <3>4. QED
      BY <3>2, <3>3 DEF LocalFields
  <2>4. IsLocal(run'[w])
    BY <1>1, <2>3 DEF IsLocal, LocalFields
  <2>5. /\ run'[w].page = r.page /\ run'[w].state = r.state
        /\ Reached(r.page, r.state)
        /\ r.pc = "checkpoint" => r.state = "truncated"
    BY <1>1, <2>1, <2>3 DEF Passed, LocalFields
  <2>6. Passed(run[w])'
    <3>1. CASE pc \in {"list", "advance"}
      <4>1. \A p \in Before(run[w].page) \ missed : Covered(p)
        BY <2>2, <2>5, <3>1 DEF Reached
      <4>2. run'[w].page = run[w].page /\ run'[w].state = "truncated"
        BY <2>2, <2>5, <3>1
      <4>3. run'[w].pc \in {"list", "advance"}
        BY <2>3, <3>1
      <4>4. QED
        BY <2>1, <4>1, <4>2, <4>3 DEF Passed, Reached, Covered, Before
    <3>2. CASE pc \in {"mark", "advance last"}
      BY <2>3, <3>2 DEF Passed
    <3>3. QED
      BY <3>1, <3>2
  <2>7. IndexTypeOK'
    <3>1. saved \in [generation : Nat, next : Nat \ {0},
                     state : {"pending", "truncated", "complete"}]
      BY <1>1 DEF IsLocal
    <3>2. QED
      BY <1>1, <2>1, <3>1 DEF IndexTypeOK
  <2>8. Grows
    BY <2>1 DEF Grows, Before
  <2>9. Reached(discovery.next, discovery.state)'
    <3>1. CASE discovery' = discovery
      BY <2>1, <3>1 DEF IndexInv, Reached, Covered, Before
    <3>2. CASE discovery' = saved
      BY <2>1, <2>5, <3>2 DEF Reached, Covered, Before
    <3>3. QED
      BY <2>1, <3>1, <3>2
  <2>10. QED
    BY <2>3, <2>4, <2>6, <2>7, <2>8, <2>9, LocalMove
<1>3. CASE AdvanceDiscoveryFacet(w)
  <2>1. /\ run[w].pc \in {"advance", "advance last"}
        /\ Step(w, [pc |-> IF run[w].pc = "advance" THEN "list" ELSE "mark"])
        /\ Revised
        /\ UNCHANGED <<listing, updates, stored, facet, discovery, projection,
                       jobs, failures, missed>>
    BY <1>3 DEF AdvanceDiscoveryFacet
  <2>2. /\ DOMAIN run' = Indexers /\ DOMAIN run'[w] = LocalFields
        /\ \A v \in Indexers : v # w => run'[v] = run[v]
        /\ run'[w].pc = IF run[w].pc = "advance" THEN "list" ELSE "mark"
        /\ \A f \in LocalFields \ {"pc"} : run'[w][f] = run[w][f]
    <3> DEFINE pc == IF run[w].pc = "advance" THEN "list" ELSE "mark"
    <3>1. Step(w, [pc |-> pc])
      BY <2>1
    <3> HIDE DEF pc
    <3>2. /\ DOMAIN run' = Indexers /\ DOMAIN run'[w] = LocalFields
          /\ \A v \in Indexers : v # w => run'[v] = run[v]
          /\ run'[w].pc = pc
          /\ \A f \in LocalFields \ {"pc"} : run'[w][f] = run[w][f]
      BY <1>1, <3>1, StepFields DEF LocalFields
    <3>3. QED
      BY <3>2 DEF pc
  <2>3. IsLocal(run'[w])
    BY <1>1, <2>2 DEF IsLocal, LocalFields
  <2>4. /\ run'[w].page = run[w].page /\ run'[w].state = run[w].state
        /\ run[w].pc = "advance" =>
              Reached(run[w].page, run[w].state) /\ run[w].state = "truncated"
    BY <1>1, <2>2 DEF Passed, LocalFields
  <2>5. Passed(run[w])'
    <3>1. CASE run[w].pc = "advance"
      <4>1. \A p \in Before(run[w].page) \ missed : Covered(p)
        BY <2>4, <3>1 DEF Reached
      <4>2. /\ run'[w].page = run[w].page /\ run'[w].state = "truncated"
            /\ run'[w].pc = "list"
        BY <2>2, <2>4, <3>1
      <4>3. QED
        BY <2>1, <4>1, <4>2 DEF Passed, Reached, Covered, Before
    <3>2. CASE run[w].pc # "advance"
      BY <2>2, <3>2 DEF Passed
    <3>3. QED
      BY <3>1, <3>2
  <2>6. IndexTypeOK'
    BY <1>1, <2>1, RevisedType DEF IndexTypeOK
  <2>7. Grows
    BY <2>1 DEF Grows, Before
  <2>8. Reached(discovery.next, discovery.state)'
    BY <2>1 DEF IndexInv, Reached, Covered, Before
  <2>9. QED
    BY <2>2, <2>3, <2>5, <2>6, <2>7, <2>8, LocalMove
<1>4. QED
  BY <1>2, <1>3

LEMMA ContentsType ==
    IndexTypeOK => Contents \in [Pulls -> Nat \cup {-1}]
BY DEF IndexTypeOK, Contents

LEMMA RebuildKeepsIndexInv ==
    ASSUME IndexInv, NEW w \in Indexers,
           MarkBuilding(w) \/ Rebuild(w) \/ RebuildFails(w)
    PROVE  IndexInv'
<1>1. IndexTypeOK /\ Runs /\ IsLocal(run[w]) /\ Passed(run[w])
  BY DEF IndexInv, Runs
<1>2. UNCHANGED <<listing, updates, stored, facet, discovery, jobs, missed>>
  BY DEF MarkBuilding, Rebuild, RebuildFails
<1>3. Grows
  BY <1>2 DEF Grows, Before
<1>4. Reached(discovery.next, discovery.state)'
  BY <1>2 DEF IndexInv, Reached, Covered, Before
<1>5. projection \in [status : {"absent", "building", "current", "failed"}, built : BOOLEAN,
                      hash : [Pulls -> Nat \cup {-1}], rows : [Pulls -> Nat \cup {-1}]]
  BY <1>1 DEF IndexTypeOK
<1>6. IndexTypeOK'
  <2>1. /\ projection' \in [status : {"absent", "building", "current", "failed"},
                            built : BOOLEAN, hash : [Pulls -> Nat \cup {-1}],
                            rows : [Pulls -> Nat \cup {-1}]]
        /\ UNCHANGED search \/ Revised
        /\ failures' \in 0 .. MaxFailures
    <3>1. CASE MarkBuilding(w)
      BY <1>1, <1>5, <3>1 DEF MarkBuilding, IndexTypeOK
    <3>2. CASE Rebuild(w)
      <4>1. /\ projection' = [status |-> "current", built |-> TRUE,
                              hash |-> Contents, rows |-> Contents]
            /\ Revised /\ UNCHANGED failures
        BY <3>2 DEF Rebuild
      <4>2. QED
        BY <1>1, <4>1, ContentsType DEF IndexTypeOK
    <3>3. CASE RebuildFails(w)
      <4>1. failures' \in 0 .. MaxFailures
        BY <1>1, <3>3, IndexAssumption DEF RebuildFails, IndexTypeOK
      <4>2. QED
        BY <1>5, <3>3, <4>1 DEF RebuildFails
    <3>4. QED
      BY <3>1, <3>2, <3>3
  <2>2. CASE UNCHANGED search
    <3>1. UNCHANGED updates
      BY DEF MarkBuilding, Rebuild, RebuildFails
    <3>2. QED
      BY <1>1, <1>2, <2>1, <2>2, <3>1 DEF IndexTypeOK
  <2>3. CASE Revised
    BY <1>1, <1>2, <2>1, <2>3, RevisedType DEF IndexTypeOK
  <2>4. QED
    BY <2>1, <2>2, <2>3
<1>7. /\ DOMAIN run' = Indexers
      /\ \A v \in Indexers : v # w => run'[v] = run[v]
      /\ IsLocal(run'[w]) /\ run'[w].pc \in {"idle", "rebuild"}
      /\ run'[w].pc = "idle" => run'[w].state = "truncated"
  <2>1. CASE MarkBuilding(w)
    <3>1. Step(w, [pc |-> "rebuild"])
      BY <2>1 DEF MarkBuilding
    <3>2. /\ DOMAIN run' = Indexers /\ DOMAIN run'[w] = LocalFields
          /\ \A v \in Indexers : v # w => run'[v] = run[v]
          /\ run'[w].pc = "rebuild"
          /\ \A f \in LocalFields \ {"pc"} : run'[w][f] = run[w][f]
      BY <1>1, <3>1, StepFields DEF LocalFields
    <3>3. IsLocal(run'[w])
      BY <1>1, <3>2 DEF IsLocal, LocalFields
    <3>4. QED
      BY <3>2, <3>3
  <2>2. CASE Rebuild(w) \/ RebuildFails(w)
    <3>1. run' = [run EXCEPT ![w] = NoRun]
      BY <2>2 DEF Rebuild, RebuildFails
    <3>2. /\ DOMAIN run' = Indexers /\ run'[w] = NoRun
          /\ \A v \in Indexers : v # w => run'[v] = run[v]
      BY <1>1, <3>1 DEF Runs
    <3>3. QED
      BY <3>2, NoRunFields
  <2>3. QED
    BY <2>1, <2>2
<1>8. Passed(run[w])'
  BY <1>7 DEF Passed
<1>9. QED
  BY <1>3, <1>4, <1>6, <1>7, <1>8, LocalMove

\* A search reads.
LEMMA SearchKeepsIndexInv ==
    ASSUME IndexInv,
           \/ BeginSearch \/ RequireFreshProjection \/ SearchFeedback
           \/ FinishSearch \/ EndSearch
    PROVE  IndexInv'
<1>1. UNCHANGED <<listing, updates, stored, facet, discovery, projection, run,
                  jobs, failures, missed>>
  BY DEF BeginSearch, RequireFreshProjection, SearchFeedback, FinishSearch, EndSearch
<1>2. IndexTypeOK
  BY DEF IndexInv
<1> DEFINE Searches == [pc : {"idle", "begun", "fresh", "read", "answered"},
                        changed : BOOLEAN, rows : [Pulls -> Nat \cup {-1}],
                        complete : BOOLEAN]
<1>3. /\ search \in Searches /\ projection.rows \in [Pulls -> Nat \cup {-1}]
  BY <1>2 DEF IndexTypeOK
<1>4. NoSearch \in Searches
  BY DEF NoSearch, NoContents
<1>5. search' \in Searches
  <2>1. CASE SearchFeedback
    <3>1. CoverageIsComplete \in BOOLEAN
      BY DEF CoverageIsComplete
    <3> DEFINE complete == CoverageIsComplete
    <3>2. search' = [search EXCEPT !.pc = "read", !.rows = projection.rows,
                                   !.complete = complete]
      BY <2>1 DEF SearchFeedback
    <3> HIDE DEF complete
    <3>3. complete \in BOOLEAN
      BY <3>1 DEF complete
    <3>4. QED
      BY <1>3, <3>2, <3>3
  <2>2. CASE ~SearchFeedback
    BY <1>3, <1>4, <2>2 DEF BeginSearch, RequireFreshProjection, FinishSearch, EndSearch
  <2>3. QED
    BY <2>1, <2>2
<1>6. IndexTypeOK'
  BY <1>1, <1>2, <1>5 DEF IndexTypeOK
<1>7. Runs' /\ Reached(discovery.next, discovery.state)'
  BY <1>1 DEF IndexInv, Runs, IsLocal, Reached, Covered, Before
<1>8. ASSUME NEW w \in Indexers PROVE Passed(run[w])'
  <2>1. Passed(run[w])
    BY DEF IndexInv
  <2>2. QED
    BY <1>1, <2>1 DEF Passed, Reached, Covered, Before
<1>9. QED
  BY <1>6, <1>7, <1>8 DEF IndexInv

LEMMA StepKeepsIndexInv == IndexInv /\ [IndexNext]_indexVars => IndexInv'
<1>1. SUFFICES ASSUME IndexInv, [IndexNext]_indexVars PROVE IndexInv'
  OBVIOUS
<1>2. CASE UNCHANGED indexVars
  <2>1. IndexTypeOK' /\ Runs' /\ Reached(discovery.next, discovery.state)'
    BY <1>1, <1>2
       DEF indexVars, IndexInv, IndexTypeOK, Runs, IsLocal, Reached, Covered, Before
  <2>2. ASSUME NEW w \in Indexers PROVE Passed(run[w])'
    BY <1>1, <1>2 DEF indexVars, IndexInv, Passed, Reached, Covered, Before
  <2>3. QED
    BY <2>1, <2>2 DEF IndexInv
<1>3. CASE \E p \in Pulls : Update(p)
  BY <1>1, <1>3, UpdateKeepsIndexInv
<1>4. ASSUME NEW w \in Indexers, IndexerNext(w) PROVE IndexInv'
  BY <1>1, <1>4, StartIndexKeepsIndexInv, ListKeepsIndexInv, StartExactKeepsIndexInv,
     GetFeedbackKeepsIndexInv, PageDoneKeepsIndexInv, FeedbackFailsKeepsIndexInv,
     CrashKeepsIndexInv, PersistIdentityKeepsIndexInv, PersistFeedbackKeepsIndexInv,
     CheckpointKeepsIndexInv, RebuildKeepsIndexInv
     DEF IndexerNext
<1>5. QED
  BY <1>1, <1>2, <1>3, <1>4, SearchKeepsIndexInv DEF IndexNext
-----------------------------------------------------------------------------
(***************************************************************************)
(* The search.  Whatever changes what is stored tells the search so.       *)
(***************************************************************************)
LEMMA InitSearchInv == IndexInit => SearchInv
BY DEF IndexInit, SearchInv, NoSearch

\* A change of the corpus is seen by the search, whatever else it does.
LEMMA RevisedKeepsSearchInv ==
    ASSUME IndexTypeOK, Revised, projection'.rows = projection'.hash
    PROVE  SearchInv'
BY RevisedType DEF SearchInv

LEMMA StepKeepsSearchInv ==
    IndexInv /\ SearchInv /\ [IndexNext]_indexVars => SearchInv'
<1>1. SUFFICES ASSUME IndexInv, SearchInv, [IndexNext]_indexVars PROVE SearchInv'
  OBVIOUS
<1>2. IndexTypeOK /\ projection.rows = projection.hash
  BY <1>1 DEF IndexInv, SearchInv
<1>3. CASE UNCHANGED <<stored, facet, search>> /\ projection'.hash = projection.hash
             /\ projection'.rows = projection.rows
  BY <1>1, <1>3 DEF SearchInv, Contents
<1>4. /\ projection \in [status : {"absent", "building", "current", "failed"},
                         built : BOOLEAN, hash : [Pulls -> Nat \cup {-1}],
                         rows : [Pulls -> Nat \cup {-1}]]
      /\ search \in [pc : {"idle", "begun", "fresh", "read", "answered"},
                     changed : BOOLEAN, rows : [Pulls -> Nat \cup {-1}],
                     complete : BOOLEAN]
  BY <1>2 DEF IndexTypeOK
<1>5. ASSUME NEW w \in Indexers, IndexerNext(w) PROVE SearchInv'
  <2>1. CASE \/ StartIndex(w) \/ ListPullRequests(w) \/ StartExactSync(w)
             \/ GetPullRequestFeedback(w) \/ FeedbackFails(w) \/ NextPage(w)
             \/ LastPage(w) \/ StopIndex(w) \/ UpsertFeedbackDiscovery(w)
             \/ ExactSyncDone(w) \/ MarkBuilding(w) \/ RebuildFails(w) \/ Crash(w)
    <3>1. UNCHANGED <<stored, facet, search>>
      BY <2>1
         DEF StartIndex, ListPullRequests, StartExactSync, GetPullRequestFeedback,
             FeedbackFails, NextPage, LastPage, StopIndex, UpsertFeedbackDiscovery,
             ExactSyncDone, MarkBuilding, RebuildFails, Crash
    <3>2. \/ UNCHANGED projection
          \/ projection' = [projection EXCEPT !.status = "building"]
          \/ projection' = [projection EXCEPT !.status = "failed"]
      BY <2>1
         DEF StartIndex, ListPullRequests, StartExactSync, GetPullRequestFeedback,
             FeedbackFails, NextPage, LastPage, StopIndex, UpsertFeedbackDiscovery,
             ExactSyncDone, MarkBuilding, RebuildFails, Crash
    <3>3. projection'.hash = projection.hash /\ projection'.rows = projection.rows
      BY <1>4, <3>2
    <3>4. QED
      BY <1>3, <3>1, <3>3
  <2>2. CASE \/ PersistIdentity(w) \/ PersistFeedback(w) \/ AdvanceDiscoveryFacet(w)
    <3>1. Revised /\ UNCHANGED projection
      BY <2>2 DEF PersistIdentity, PersistFeedback, AdvanceDiscoveryFacet
    <3>2. QED
      BY <1>2, <3>1, RevisedKeepsSearchInv
  <2>3. CASE Rebuild(w)
    <3>1. Revised /\ projection'.rows = projection'.hash
      BY <2>3 DEF Rebuild
    <3>2. QED
      BY <1>2, <3>1, RevisedKeepsSearchInv
  <2>4. QED
    BY <1>5, <2>1, <2>2, <2>3 DEF IndexerNext
<1>6. CASE \E p \in Pulls : Update(p)
  <2>1. UNCHANGED <<stored, facet, search, projection>>
    BY <1>6 DEF Update
  <2>2. QED
    BY <1>3, <2>1
<1>7. CASE BeginSearch \/ FinishSearch \/ EndSearch
  <2>1. UNCHANGED <<stored, facet, projection>> /\ search'.pc \in {"idle", "begun", "answered"}
    BY <1>4, <1>7 DEF BeginSearch, FinishSearch, EndSearch, NoSearch
  <2>2. QED
    BY <1>2, <2>1 DEF SearchInv
<1>8. CASE RequireFreshProjection
  <2>1. UNCHANGED <<stored, facet, projection>>
    BY <1>8 DEF RequireFreshProjection
  <2>2. CASE search' = NoSearch
    BY <1>2, <2>1, <2>2 DEF SearchInv, NoSearch
  <2>3. CASE search' = [search EXCEPT !.pc = "fresh"] /\ projection.hash = Contents
    BY <1>2, <1>4, <2>1, <2>3 DEF SearchInv, Contents
  <2>4. QED
    BY <1>8, <2>2, <2>3 DEF RequireFreshProjection
<1>9. CASE SearchFeedback
  <2> DEFINE complete == CoverageIsComplete
  <2>1. /\ search.pc = "fresh"
        /\ search' = [search EXCEPT !.pc = "read", !.rows = projection.rows,
                                    !.complete = complete]
        /\ UNCHANGED <<stored, facet, projection>>
    BY <1>9 DEF SearchFeedback
  <2>2. complete => \A p \in stored : facet[p].complete
    BY DEF CoverageIsComplete
  <2> HIDE DEF complete
  <2>3. /\ search'.pc = "read" /\ search'.changed = search.changed
        /\ search'.rows = projection.rows /\ search'.complete = complete
    BY <1>4, <2>1
  <2>4. ~search.changed => projection.rows = Contents
    BY <1>1, <2>1 DEF SearchInv
  <2>5. QED
    BY <1>2, <2>1, <2>2, <2>3, <2>4 DEF SearchInv, Contents
<1>10. CASE UNCHANGED indexVars
  BY <1>3, <1>10 DEF indexVars
<1>11. QED
  BY <1>1, <1>5, <1>6, <1>7, <1>8, <1>9, <1>10 DEF IndexNext
-----------------------------------------------------------------------------
\* The inductive invariant holds of every behaviour.
THEOREM IndexInvariant == IndexSpec => [](IndexInv /\ SearchInv)
<1>1. IndexInit => IndexInv /\ SearchInv
  BY InitIndexInv, InitSearchInv
<1>2. IndexInv /\ SearchInv /\ [IndexNext]_indexVars => (IndexInv /\ SearchInv)'
  BY StepKeepsIndexInv, StepKeepsSearchInv
<1>3. QED
  BY <1>1, <1>2, PTL DEF IndexSpec

\* The variables have their types.
THEOREM IndexTypeCorrect == IndexSpec => []IndexTypeOK
<1>1. IndexInv => IndexTypeOK
  BY DEF IndexInv
<1>2. QED
  BY <1>1, IndexInvariant, PTL

\* A checkpoint skips nothing, for every page size, every number of indexers that
\* overwrite each other's checkpoint and every number of stops, crashes and
\* updates.
THEOREM CheckpointsSkipNothing == IndexSpec => []CheckpointSkipsNothing
<1>1. IndexInv => CheckpointSkipsNothing
  BY DEF IndexInv, Reached, Covered, CheckpointSkipsNothing, Range
<1>2. QED
  BY <1>1, IndexInvariant, PTL

\* An answer shows what is stored when it is given.
THEOREM AnswersAreAlwaysCurrent == IndexSpec => AnswersAreCurrent
<1>1. IndexInv /\ SearchInv /\ [IndexNext]_indexVars =>
         [search'.pc = "answered" /\ search.pc # "answered" =>
             /\ search'.rows = Contents
             /\ search'.complete => \A p \in stored : facet[p].complete]_indexVars
  <2>1. SUFFICES ASSUME IndexInv, SearchInv, IndexNext,
                        search'.pc = "answered", search.pc # "answered"
                 PROVE  /\ search'.rows = Contents
                        /\ search'.complete => \A p \in stored : facet[p].complete
    BY DEF indexVars
  <2>2. search \in [pc : {"idle", "begun", "fresh", "read", "answered"}, changed : BOOLEAN,
                    rows : [Pulls -> Nat \cup {-1}], complete : BOOLEAN]
    BY <2>1 DEF IndexInv, IndexTypeOK
  <2>3. FinishSearch
    <3>1. ~Revised
      BY <2>1, RevisedType DEF IndexInv
    <3>2. ASSUME NEW w \in Indexers PROVE ~IndexerNext(w)
      <4>1. UNCHANGED search \/ Revised \/ ~IndexerNext(w)
        BY DEF IndexerNext, StartIndex, ListPullRequests, StartExactSync,
               GetPullRequestFeedback, FeedbackFails, PersistIdentity, PersistFeedback,
               NextPage, LastPage, StopIndex, UpsertFeedbackDiscovery,
               AdvanceDiscoveryFacet, ExactSyncDone, MarkBuilding, Rebuild,
               RebuildFails, Crash
      <4>2. QED
        BY <2>1, <3>1, <4>1
    <3>3. \A p \in Pulls : ~Update(p)
      BY <2>1 DEF Update
    <3>4. ~BeginSearch /\ ~RequireFreshProjection /\ ~EndSearch
      BY <2>1, <2>2 DEF BeginSearch, RequireFreshProjection, EndSearch, NoSearch
    <3>5. ~SearchFeedback
      <4>1. SUFFICES ASSUME SearchFeedback PROVE FALSE
        OBVIOUS
      <4> DEFINE complete == CoverageIsComplete
      <4>2. search' = [search EXCEPT !.pc = "read", !.rows = projection.rows,
                                     !.complete = complete]
        BY <4>1 DEF SearchFeedback
      <4> HIDE DEF complete
      <4>3. QED
        BY <2>1, <2>2, <4>2
    <3>6. QED
      BY <2>1, <3>2, <3>3, <3>4, <3>5 DEF IndexNext
  <2>4. /\ search.pc = "read"
        /\ search' = IF search.changed THEN NoSearch ELSE [search EXCEPT !.pc = "answered"]
    BY <2>3 DEF FinishSearch
  <2>5. ~search.changed
    BY <2>1, <2>4 DEF NoSearch
  <2>6. search'.rows = search.rows /\ search'.complete = search.complete
    BY <2>2, <2>4, <2>5
  <2>7. QED
    BY <2>1, <2>4, <2>5, <2>6 DEF SearchInv
<1>2. QED
  BY <1>1, IndexInvariant, PTL DEF IndexSpec, AnswersAreCurrent
-----------------------------------------------------------------------------
(***************************************************************************)
(* The two beside each other.                                              *)
(***************************************************************************)
LEMMA DerivedStarts == DerivedInit => Init /\ IndexInit
BY DEF DerivedInit, FacetAtRest, IndexAtRest

\* A step of the whole is a step of each component, or leaves it as it was.
LEMMA DerivedSteps ==
    [DerivedNext]_derivedVars => [Next]_vars /\ [IndexNext]_indexVars
BY DEF DerivedNext, derivedVars

(***************************************************************************)
(* The facet of a thread and the feedback index share no table: beside the *)
(* other, each has the behaviours of its own specification (facets.go and  *)
(* pull_request_feedback_projection.go), so that what is proved of one     *)
(* holds of both.                                                          *)
(***************************************************************************)
THEOREM DerivedComposes == DerivedSpec => Spec /\ IndexSpec
BY DerivedStarts, DerivedSteps, PTL DEF DerivedSpec, Spec, IndexSpec

\* The rows, coverage and refreshes of a facet, and the comments, checkpoints
\* and runs of the index stay well formed.
THEOREM DerivedTypeCorrect == DerivedSpec => []DerivedTypeOK
BY DerivedComposes, FacetsTypeCorrect, IndexTypeCorrect, PTL DEF DerivedTypeOK
=============================================================================

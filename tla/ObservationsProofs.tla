------------------------- MODULE ObservationsProofs -------------------------
(***************************************************************************)
(* What holds of a pull request in the corpus for any number of workers,   *)
(* any contents and any bounds on the two clocks.                          *)
(***************************************************************************)
EXTENDS Observations, TLAPS
-----------------------------------------------------------------------------
(***************************************************************************)
(* The inductive invariant: the types and, of the properties, those about  *)
(* a state, with what they rest on                                         *)
(*   - that every stored sequence was drawn already, so that the next one  *)
(*     is newer than any;                                                  *)
(*   - that an observation with the revision of the projection, or of a    *)
(*     copy of it, has its payload;                                        *)
(*   - that only a worker about to project has applied a details facet.    *)
(***************************************************************************)
SequencesAreDrawn ==
    /\ \A o \in observations : o.seq <= sequence
    /\ thread.seq <= sequence
    /\ coverage.seq <= sequence
    /\ investigation.seq <= sequence

RevisionsAreExact ==
    /\ \A o \in observations : Cited(o, thread) => o.payload = thread.payload
    /\ investigation.pc = "copied" =>
          \A o \in observations : Cited(o, investigation) => o.payload = investigation.payload

AppliedIsWriting == \A w \in Workers : work[w].applied => work[w].pc = "writing"

IInv ==
    /\ TypeOK
    /\ SequencesAreDrawn
    /\ RevisionsAreExact
    /\ AppliedIsWriting
    /\ ProjectionIsNewest
    /\ DetailsReachProjection
    /\ BaselineIsExact
-----------------------------------------------------------------------------
(***************************************************************************)
(* Types of the operators.                                                 *)
(***************************************************************************)
LEMMA NoPayloadIsAPayload == NoPayload \in Payload
<1>1. SomeContent \in Contents
  BY BoundsAssumption DEF SomeContent
<1> QED
  BY <1>1 DEF NoPayload, Payload

LEMMA IdleIsWork == Idle \in Work /\ Idle.pc = "idle" /\ ~Idle.applied
  BY NoPayloadIsAPayload DEF Idle, Work

LEMMA FetchedPayloads ==
    ASSUME TypeOK
    PROVE  /\ HeaderOf(github) \in Payload
           /\ DetailsOf(github) \in Payload
           /\ github.src \in Nat
  BY BoundsAssumption DEF TypeOK, HeaderOf, DetailsOf, Payload

\* Only its own worker, and nothing stored, is changed by a fetch.
LEMMA FetchKeepsInv ==
    ASSUME IInv, NEW w \in Workers, NEW local \in Work, Fetched(w, local),
           ~work[w].applied, ~local.applied
    PROVE  IInv'
<1>1. TypeOK /\ work \in [Workers -> Work]
  BY DEF IInv, TypeOK
<1>2. /\ work' = [work EXCEPT ![w] = local]
      /\ UNCHANGED <<github, sequence, thread, observations, coverage,
                     investigation, stranded>>
  BY DEF Fetched
<1>3. TypeOK'
  BY <1>1, <1>2 DEF TypeOK
<1>4. \A v \in Workers : work'[v] = IF v = w THEN local ELSE work[v]
  BY <1>1, <1>2
<1>5. DetailsReachProjection'
  BY <1>2, <1>4 DEF IInv, DetailsReachProjection
<1>6. AppliedIsWriting'
  BY <1>4 DEF IInv, AppliedIsWriting
<1> QED
  BY <1>2, <1>3, <1>5, <1>6
  DEF IInv, SequencesAreDrawn, RevisionsAreExact, ProjectionIsNewest, ThreadExists,
      BaselineIsExact

LEMMA FetchesKeepInv ==
    ASSUME IInv, NEW w \in Workers,
           FetchHeader(w) \/ FetchIdentity(w) \/ BeginDetails(w) \/ FetchDetails(w)
    PROVE  IInv'
<1>1. TypeOK /\ work[w] \in Work
  BY DEF IInv, TypeOK
<1>2. ~work[w].applied
  BY DEF IInv, AppliedIsWriting, FetchHeader, FetchIdentity, BeginDetails, FetchDetails
<1>3. CASE FetchHeader(w)
  <2>1. PICK src \in SourceTimes :
           Fetched(w, [Idle EXCEPT !.pc = "writing", !.src = src,
                                   !.payload = HeaderOf(github)])
    BY <1>3 DEF FetchHeader
  <2> DEFINE local == [Idle EXCEPT !.pc = "writing", !.src = src,
                                   !.payload = HeaderOf(github)]
  <2>2. src \in Nat
    BY <1>1, <2>1, FetchedPayloads DEF SourceTimes
  <2>3. local \in Work /\ ~local.applied
    BY <1>1, <2>2, IdleIsWork, FetchedPayloads DEF Work
  <2> QED
    BY <1>2, <2>1, <2>3, FetchKeepsInv
<1>4. CASE FetchIdentity(w)
  <2>1. PICK src \in SourceTimes :
           Fetched(w, [Idle EXCEPT !.pc = "writing", !.src = src,
                                   !.payload = DetailsOf(github)])
    BY <1>4 DEF FetchIdentity
  <2> DEFINE local == [Idle EXCEPT !.pc = "writing", !.src = src,
                                   !.payload = DetailsOf(github)]
  <2>2. src \in Nat
    BY <1>1, <2>1, FetchedPayloads DEF SourceTimes
  <2>3. local \in Work /\ ~local.applied
    BY <1>1, <2>2, IdleIsWork, FetchedPayloads DEF Work
  <2> QED
    BY <1>2, <2>1, <2>3, FetchKeepsInv
<1>5. CASE BeginDetails(w)
  <2> DEFINE local == [Idle EXCEPT !.pc = "fetching", !.src = thread.src,
                                   !.baseline = coverage.seq]
  <2>1. Fetched(w, local)
    BY <1>5 DEF BeginDetails
  <2>2. thread.src \in Nat /\ coverage.seq \in Nat
    BY <1>1, <1>5 DEF BeginDetails, ThreadExists, TypeOK, Thread, CoverageRow
  <2>3. local \in Work /\ ~local.applied
    BY <2>2, IdleIsWork DEF Work
  <2> QED
    BY <1>2, <2>1, <2>3, FetchKeepsInv
<1>6. CASE FetchDetails(w)
  <2>1. PICK src \in {work[w].src, github.src} :
           Fetched(w, [work[w] EXCEPT !.pc = "fetched", !.src = src,
                                      !.payload = DetailsOf(github)])
    BY <1>6 DEF FetchDetails
  <2> DEFINE local == [work[w] EXCEPT !.pc = "fetched", !.src = src,
                                      !.payload = DetailsOf(github)]
  <2>2. src \in Nat
    BY <1>1, <2>1, FetchedPayloads DEF Work
  <2>3. local \in Work /\ ~local.applied
    BY <1>1, <1>2, <2>2, FetchedPayloads DEF Work
  <2> QED
    BY <1>2, <2>1, <2>3, FetchKeepsInv
<1> QED
  BY <1>3, <1>4, <1>5, <1>6
-----------------------------------------------------------------------------
(***************************************************************************)
(* The two transactions of a details refresh.                              *)
(***************************************************************************)
LEMMA ApplyKeepsInv ==
    ASSUME IInv, NEW w \in Workers, ApplyDetails(w)
    PROVE  IInv'
<1> DEFINE applied == /\ SequenceIsCurrent(coverage, work[w].baseline)
                      /\ Replaces(coverage, work[w].src, TRUE)
<1>1. TypeOK /\ work \in [Workers -> Work] /\ work[w] \in Work
  BY DEF IInv, TypeOK
<1>2. /\ work[w].pc = "fetched"
      /\ UNCHANGED <<github, thread, observations, investigation>>
  BY DEF ApplyDetails
<1>3. ~work[w].applied
  BY <1>2 DEF IInv, AppliedIsWriting
<1>4. CASE applied
  <2>1. /\ coverage' = AdvanceCoverage(coverage, work[w].src, sequence + 2, TRUE)
        /\ sequence' = sequence + 2 /\ sequence + 2 <= MaxSequence
        /\ work' = [work EXCEPT ![w].pc = "writing", ![w].applied = TRUE]
        /\ stranded' = FALSE
    BY <1>4 DEF ApplyDetails
  <2>2. /\ sequence \in Nat /\ MaxSequence \in Nat /\ sequence' \in 0..MaxSequence
        /\ sequence <= sequence'
    BY <1>1, <2>1, BoundsAssumption DEF TypeOK
  <2>3. coverage \in CoverageRow /\ work[w].src \in Nat /\ coverage.seq <= sequence
    BY <1>1 DEF IInv, TypeOK, SequencesAreDrawn, Work
  <2>4. /\ coverage'.src = work[w].src /\ coverage'.seq = sequence + 2
        /\ coverage' \in CoverageRow
    BY <1>4, <2>1, <2>2, <2>3 DEF AdvanceCoverage, Newer, Replaces, CoverageRow
  <2>5. /\ work'[w] = [work[w] EXCEPT !.pc = "writing", !.applied = TRUE]
        /\ \A v \in Workers \ {w} : work'[v] = work[v]
    BY <1>1, <2>1
  <2>6. work'[w] \in Work /\ work'[w].applied /\ work'[w].pc = "writing"
        /\ work'[w].src = work[w].src
    BY <1>1, <2>5 DEF Work
  <2>7. work' \in [Workers -> Work]
    BY <1>1, <2>1, <2>5, <2>6
  <2>8. TypeOK'
    BY <1>1, <1>2, <2>1, <2>2, <2>4, <2>7 DEF TypeOK
  <2>9. SequencesAreDrawn'
    <3>1. /\ \A o \in observations : o.seq \in Nat
          /\ thread.seq \in Nat /\ investigation.seq \in Nat
      <4>1. /\ \A o \in observations : o \in Observation
            /\ thread \in Thread /\ investigation \in Investigation
        BY <1>1 DEF TypeOK
      <4> QED
        BY <4>1 DEF Observation, Thread, Investigation
    <3>2. /\ \A o \in observations : o.seq <= sequence + 2
          /\ thread.seq <= sequence + 2 /\ investigation.seq <= sequence + 2
      BY <2>2, <3>1 DEF IInv, SequencesAreDrawn
    <3>3. sequence + 2 <= sequence + 2
      BY <2>2
    <3> QED
      BY <1>2, <2>1, <2>4, <3>2, <3>3 DEF SequencesAreDrawn
  <2>10. AppliedIsWriting'
    BY <2>5, <2>6 DEF IInv, AppliedIsWriting
  <2>11. DetailsReachProjection'
    BY <2>4, <2>6 DEF DetailsReachProjection
  <2> QED
    BY <1>2, <2>8, <2>9, <2>10, <2>11
    DEF IInv, RevisionsAreExact, ProjectionIsNewest, ThreadExists, BaselineIsExact
<1>5. CASE ~applied
  <2>1. Fetched(w, Idle)
    BY <1>2, <1>5 DEF ApplyDetails, Fetched
  <2> QED
    BY <1>3, <2>1, IdleIsWork, FetchKeepsInv
<1> QED
  BY <1>4, <1>5

LEMMA UpsertKeepsInv ==
    ASSUME IInv, NEW w \in Workers, UpsertThread(w)
    PROVE  IInv'
<1> DEFINE src == work[w].src
           seq == sequence + 1
           payload == work[w].payload
           new == [src |-> src, seq |-> seq, payload |-> payload]
<1>1. TypeOK /\ work \in [Workers -> Work] /\ work[w] \in Work
  BY DEF IInv, TypeOK
<1>2. /\ sequence < MaxSequence /\ sequence' = seq
      /\ thread' = IF ProjectionWins(src, seq) THEN Projected(src, seq, payload) ELSE thread
      /\ observations' = IF AlreadyObserved(src, payload) THEN observations
                         ELSE observations \cup {new}
      /\ work' = [work EXCEPT ![w] = Idle]
      /\ UNCHANGED <<github, coverage, investigation, stranded>>
  BY DEF UpsertThread
<1>3. /\ src \in Nat /\ seq \in Nat /\ sequence \in Nat /\ payload \in Payload
      /\ sequence' \in 0..MaxSequence /\ payload.merge \in Merges
  BY <1>1, <1>2, BoundsAssumption DEF TypeOK, Work, Payload, Merges
<1>4. /\ thread \in Thread /\ \A o \in observations : o \in Observation
      /\ investigation \in Investigation /\ coverage \in CoverageRow
  BY <1>1 DEF TypeOK
<1>5. /\ thread.src \in Int /\ thread.seq \in Nat /\ thread.seq <= sequence
      /\ \A o \in observations : o.src \in Nat /\ o.seq \in Nat /\ o.seq <= sequence
      /\ investigation.seq \in Nat /\ investigation.seq <= sequence
      /\ coverage.src \in Int /\ coverage.seq \in Nat /\ coverage.seq <= sequence
  BY <1>4 DEF IInv, SequencesAreDrawn, Thread, Observation, Investigation, CoverageRow
<1>6. new \in Observation /\ new.src = src /\ new.seq = seq /\ new.payload = payload
  BY <1>3 DEF Observation
<1>7. /\ Projected(src, seq, payload) \in Thread
      /\ Projected(src, seq, payload).src = src
      /\ Projected(src, seq, payload).seq = seq
      /\ Projected(src, seq, payload).payload = payload
  BY <1>3, <1>4 DEF Projected, Thread
<1>8. \A o \in observations' : o \in observations \/ o = new
  BY <1>2
<1>9. \E o \in observations' : o.src = src /\ o.payload = payload
  BY <1>2, <1>6 DEF AlreadyObserved
<1>10. TypeOK'
  <2>1. work' \in [Workers -> Work]
    BY <1>1, <1>2, IdleIsWork
  <2>2. thread' \in Thread /\ observations' \subseteq Observation
    BY <1>2, <1>4, <1>6, <1>7
  <2> QED
    BY <1>1, <1>2, <1>3, <2>1, <2>2 DEF TypeOK
<1>11. SequencesAreDrawn'
  BY <1>2, <1>3, <1>5, <1>6, <1>7, <1>8 DEF SequencesAreDrawn
<1>12. RevisionsAreExact'
  <2>1. \A o \in observations' : Cited(o, thread') => o.payload = thread'.payload
    BY <1>2, <1>3, <1>5, <1>6, <1>7, <1>8 DEF IInv, RevisionsAreExact, Cited
  <2>2. \A o \in observations' : Cited(o, investigation) => o \in observations
    BY <1>3, <1>5, <1>6, <1>8 DEF Cited
  <2> QED
    BY <1>2, <2>1, <2>2 DEF IInv, RevisionsAreExact, Cited
<1>13. AppliedIsWriting'
  BY <1>1, <1>2, IdleIsWork DEF IInv, AppliedIsWriting
<1>14. ProjectionIsNewest'
  <2>1. CASE ProjectionWins(src, seq)
    <3>1. thread'.src = src /\ thread'.seq = seq /\ thread'.payload = payload
      BY <1>2, <1>7, <2>1
    <3>2. \A o \in observations' : ~Newer(o.src, o.seq, thread')
      BY <1>3, <1>5, <1>6, <1>8, <2>1, <3>1
      DEF IInv, ProjectionIsNewest, ProjectionWins, Newer
    <3> QED
      BY <1>9, <3>1, <3>2 DEF ProjectionIsNewest, ThreadExists
  <2>2. CASE ~ProjectionWins(src, seq)
    <3>1. thread' = thread
      BY <1>2, <2>2
    <3>2. \A o \in observations' : ~Newer(o.src, o.seq, thread)
      BY <1>6, <1>8, <2>2 DEF IInv, ProjectionIsNewest, ProjectionWins
    <3>3. observations \subseteq observations'
      BY <1>2
    <3> QED
      BY <3>1, <3>2, <3>3 DEF IInv, ProjectionIsNewest, ThreadExists
  <2> QED
    BY <2>1, <2>2
<1>15. DetailsReachProjection'
  <2>1. thread'.src \in Int /\ src <= thread'.src /\ thread.src <= thread'.src
    BY <1>2, <1>3, <1>5, <1>7 DEF ProjectionWins, Newer
  <2>2. ASSUME coverage.src > thread'.src
        PROVE  \/ stranded
               \/ \E v \in Workers : work'[v].applied /\ work'[v].src = coverage.src
    <3>1. coverage.src > thread.src /\ coverage.src # src
      BY <1>3, <1>5, <2>1, <2>2
    <3> QED
      BY <1>1, <1>2, <3>1 DEF IInv, DetailsReachProjection
  <2> QED
    BY <1>2, <2>2 DEF DetailsReachProjection
<1> QED
  BY <1>2, <1>10, <1>11, <1>12, <1>13, <1>14, <1>15 DEF IInv, BaselineIsExact

LEMMA AbandonKeepsInv ==
    ASSUME IInv, NEW w \in Workers, Abandon(w)
    PROVE  IInv'
<1>1. TypeOK /\ work \in [Workers -> Work] /\ work[w] \in Work
  BY DEF IInv, TypeOK
<1>2. /\ work' = [work EXCEPT ![w] = Idle]
      /\ stranded' = (stranded \/ (work[w].applied /\ work[w].src = coverage.src))
      /\ UNCHANGED <<github, sequence, thread, observations, coverage, investigation>>
  BY DEF Abandon
<1>3. work' \in [Workers -> Work]
  BY <1>1, <1>2, IdleIsWork
<1>4. TypeOK'
  BY <1>1, <1>2, <1>3 DEF TypeOK, Work
<1>5. \A v \in Workers : work'[v] = IF v = w THEN Idle ELSE work[v]
  BY <1>1, <1>2
<1>6. AppliedIsWriting'
  BY <1>5, IdleIsWork DEF IInv, AppliedIsWriting
<1>7. DetailsReachProjection'
  BY <1>2, <1>5 DEF IInv, DetailsReachProjection
<1> QED
  BY <1>2, <1>4, <1>6, <1>7
  DEF IInv, SequencesAreDrawn, RevisionsAreExact, ProjectionIsNewest, ThreadExists,
      BaselineIsExact
-----------------------------------------------------------------------------
(***************************************************************************)
(* GitHub and the investigation.                                           *)
(***************************************************************************)
LEMMA GitHubKeepsInv ==
    ASSUME IInv, GitHubChanges
    PROVE  IInv'
<1>1. /\ github' \in [src : 1..MaxSource, content : Contents, merged : BOOLEAN]
      /\ UNCHANGED <<sequence, thread, observations, coverage, work, investigation, stranded>>
  BY DEF GitHubChanges
<1> QED
  BY <1>1
  DEF IInv, TypeOK, SequencesAreDrawn, RevisionsAreExact, AppliedIsWriting,
      ProjectionIsNewest, ThreadExists, DetailsReachProjection, BaselineIsExact

LEMMA InvestigationKeepsInv ==
    ASSUME IInv, CopyProjection \/ FindRevision
    PROVE  IInv'
<1>1. /\ TypeOK /\ thread \in Thread /\ investigation \in Investigation /\ sequence \in Nat
      /\ UNCHANGED <<github, sequence, thread, observations, coverage, work, stranded>>
  BY DEF IInv, TypeOK, CopyProjection, FindRevision
<1>2. /\ investigation' \in Investigation /\ investigation'.pc # "other"
      /\ investigation'.seq <= sequence
      /\ investigation'.pc = "copied" =>
            \A o \in observations :
               Cited(o, investigation') => o.payload = investigation'.payload
  <2>1. CASE CopyProjection
    <3>1. investigation' = [pc |-> "copied", src |-> thread.src, seq |-> thread.seq,
                            payload |-> thread.payload]
      BY <2>1 DEF CopyProjection
    <3>2. thread.src \in Nat
      BY <1>1, <2>1 DEF CopyProjection, ThreadExists, Thread
    <3> QED
      BY <1>1, <3>1, <3>2
      DEF IInv, SequencesAreDrawn, RevisionsAreExact, Cited, Investigation, Thread
  <2>2. CASE FindRevision
    <3>1. investigation' \in {[NotCopied EXCEPT !.pc = "idle"],
                              [NotCopied EXCEPT !.pc = "missing"]}
      BY <2>2 DEF FindRevision, IInv, RevisionsAreExact
    <3> QED
      BY <1>1, <3>1, NoPayloadIsAPayload DEF NotCopied, Investigation
  <2> QED
    BY <2>1, <2>2
<1> QED
  BY <1>1, <1>2
  DEF IInv, TypeOK, SequencesAreDrawn, RevisionsAreExact, AppliedIsWriting,
      ProjectionIsNewest, ThreadExists, DetailsReachProjection, BaselineIsExact
-----------------------------------------------------------------------------
(***************************************************************************)
(* The invariant.                                                          *)
(***************************************************************************)
LEMMA InitInv == Init => IInv
<1> SUFFICES ASSUME Init PROVE IInv
  OBVIOUS
<1>1. TypeOK
  <2>1. github \in [src : 1..MaxSource, content : Contents, merged : BOOLEAN]
    <3>1. 1 \in 1..MaxSource
      BY BoundsAssumption
    <3> QED
      BY <3>1 DEF Init
  <2>2. thread \in Thread /\ investigation \in Investigation
    BY NoPayloadIsAPayload
    DEF Init, NoThread, Thread, Merges, NotCopied, Investigation
  <2>3. coverage \in CoverageRow /\ work \in [Workers -> Work]
    <3>1. NoCoverage \in CoverageRow
      BY DEF NoCoverage, CoverageRow
    <3> QED
      BY <3>1, IdleIsWork DEF Init
  <2>4. sequence \in 0..MaxSequence /\ observations = {} /\ stranded \in BOOLEAN
    <3>1. sequence = 0 /\ observations = {} /\ stranded = FALSE
      BY DEF Init
    <3>2. 0 \in 0..MaxSequence
      BY BoundsAssumption
    <3> QED
      BY <3>1, <3>2
  <2> QED
    BY <2>1, <2>2, <2>3, <2>4 DEF TypeOK
<1>2. SequencesAreDrawn
  BY DEF Init, SequencesAreDrawn, NoThread, NoCoverage, NotCopied
<1>3. RevisionsAreExact /\ ProjectionIsNewest /\ BaselineIsExact
  BY DEF Init, RevisionsAreExact, ProjectionIsNewest, ThreadExists, BaselineIsExact,
         NoThread, NotCopied
<1>4. AppliedIsWriting
  BY IdleIsWork DEF Init, AppliedIsWriting
<1>5. DetailsReachProjection
  BY DEF Init, DetailsReachProjection, NoThread, NoCoverage
<1> QED
  BY <1>1, <1>2, <1>3, <1>4, <1>5 DEF IInv

LEMMA NextInv == IInv /\ [Next]_vars => IInv'
<1> SUFFICES ASSUME IInv, [Next]_vars PROVE IInv'
  OBVIOUS
<1>1. CASE UNCHANGED vars
  BY <1>1
  DEF vars, IInv, TypeOK, SequencesAreDrawn, RevisionsAreExact, AppliedIsWriting,
      ProjectionIsNewest, ThreadExists, DetailsReachProjection, BaselineIsExact
<1> QED
  BY <1>1, FetchesKeepInv, ApplyKeepsInv, UpsertKeepsInv, AbandonKeepsInv,
     GitHubKeepsInv, InvestigationKeepsInv
  DEF Next, Step
LEMMA InvAlways == Spec => []IInv
<1> QED
  BY InitInv, NextInv, PTL DEF Spec
-----------------------------------------------------------------------------
(***************************************************************************)
(* The theorems.                                                           *)
(***************************************************************************)
\* The types of the rows and of the local variables.
THEOREM ObservationsTypeCorrect == Spec => []TypeOK
<1>1. IInv => TypeOK
  BY DEF IInv
<1> QED
  BY <1>1, InvAlways, PTL

\* UpsertThread: no stored observation is newer than the projection, and the
\* projection was observed, whatever order fetches are stored in.
THEOREM ProjectionIsAlwaysNewest == Spec => []ProjectionIsNewest
<1>1. IInv => ProjectionIsNewest
  BY DEF IInv
<1> QED
  BY <1>1, InvAlways, PTL

\* hydratePullRequestDetails: only a stop between its two transactions leaves the
\* projection behind the details facet.
THEOREM DetailsAlwaysReachProjection == Spec => []DetailsReachProjection
<1>1. IInv => DetailsReachProjection
  BY DEF IInv
<1> QED
  BY <1>1, InvAlways, PTL

\* GetThreadObservationRevision never cites an observation of something else.
THEOREM BaselineIsAlwaysExact == Spec => []BaselineIsExact
<1>1. IInv => BaselineIsExact
  BY DEF IInv
<1> QED
  BY <1>1, InvAlways, PTL

\* What the steps of one worker do to the history.
LEMMA UpsertRecords ==
    ASSUME NEW w, UpsertThread(w)
    PROVE  /\ observations \subseteq observations'
           /\ \E o \in observations' : o.src = work[w].src /\ o.payload = work[w].payload
<1> DEFINE new == [src |-> work[w].src, seq |-> sequence + 1, payload |-> work[w].payload]
<1>1. /\ new.src = work[w].src /\ new.payload = work[w].payload
      /\ observations' = IF AlreadyObserved(work[w].src, work[w].payload)
                         THEN observations ELSE observations \cup {new}
  BY DEF UpsertThread
<1> QED
  BY <1>1 DEF AlreadyObserved

\* UpsertThread appends to the history also what loses the projection.
THEOREM EveryFetchIsAlwaysRecorded == Spec => EveryFetchIsRecorded
<1> DEFINE Recorded ==
       /\ observations \subseteq observations'
       /\ \A w \in Workers :
             work[w].pc = "writing" /\ sequence' # sequence /\ work'[w] # work[w] =>
                \E o \in observations' :
                   o.src = work[w].src /\ o.payload = work[w].payload
<1>1. ASSUME IInv, [Next]_vars
      PROVE  Recorded \/ UNCHANGED vars
  <2>1. work \in [Workers -> Work]
    BY <1>1 DEF IInv, TypeOK
  <2>2. CASE sequence' = sequence /\ observations' = observations
    BY <2>2
  <2>3. ASSUME NEW v \in Workers, UpsertThread(v)
        PROVE  Recorded
    <3>1. \A w \in Workers : w # v => work'[w] = work[w]
      BY <2>1, <2>3 DEF UpsertThread
    <3> QED
      BY <2>3, <3>1, UpsertRecords
  <2>4. ASSUME NEW v \in Workers, ApplyDetails(v)
        PROVE  Recorded
    <3>1. \A w \in Workers : w # v => work'[w] = work[w]
      BY <2>1, <2>4 DEF ApplyDetails
    <3>2. work[v].pc = "fetched" /\ observations' = observations
      BY <2>4 DEF ApplyDetails
    <3> QED
      BY <3>1, <3>2
  <2> QED
    BY <1>1, <2>2, <2>3, <2>4
    DEF Next, Step, GitHubChanges, FetchHeader, FetchIdentity, BeginDetails, FetchDetails,
        Fetched, Abandon, CopyProjection, FindRevision
<1>2. IInv /\ [Next]_vars => [Recorded]_vars
  BY <1>1
<1> QED
  BY <1>2, InvAlways, PTL DEF Spec, EveryFetchIsRecorded

\* UpsertThread: a known merge status is replaced by a known one only.
THEOREM KnownMergeIsAlwaysKept == Spec => KnownMergeIsKept
<1> DEFINE Kept == thread'.merge # thread.merge =>
                      thread'.merge # "unknown" /\ thread'.merge = thread'.payload.merge
<1>1. ASSUME IInv, [Next]_vars
      PROVE  Kept
  <2>1. CASE thread' = thread
    BY <2>1
  <2>2. ASSUME NEW w \in Workers, UpsertThread(w)
        PROVE  Kept
    <3>1. \/ thread' = thread
          \/ thread' = Projected(work[w].src, sequence + 1, work[w].payload)
      BY <2>2 DEF UpsertThread
    <3> QED
      BY <3>1 DEF Projected
  <2> QED
    BY <1>1, <2>1, <2>2
    DEF Next, Step, vars, GitHubChanges, FetchHeader, FetchIdentity, BeginDetails,
        FetchDetails, ApplyDetails, Fetched, Abandon, CopyProjection, FindRevision
<1>2. IInv /\ [Next]_vars => [Kept]_vars
  BY <1>1
<1> QED
  BY <1>2, InvAlways, PTL DEF Spec, KnownMergeIsKept
=============================================================================

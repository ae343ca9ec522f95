--------------------------- MODULE WorkflowProofs ---------------------------
(***************************************************************************)
(* What holds of the records of contributions for any number of users,     *)
(* concerns, threads and commands.                                         *)
(***************************************************************************)
EXTENDS Workflow, Integers, TLAPS
-----------------------------------------------------------------------------
(***************************************************************************)
(* Rows                                                                    *)
(***************************************************************************)
LEMMA TrailsGrow ==
    ASSUME NEW trail \in Trail, NEW n \in Stamps, NEW entry \in Trail
    PROVE  /\ Append(trail, n) \in Trail /\ trail \o entry \in Trail
           /\ IsPrefix(trail, trail) /\ IsPrefix(trail, Append(trail, n))
           /\ trail # Append(trail, n)
<1>1. Append(trail, n) \in Trail /\ Len(Append(trail, n)) = Len(trail) + 1
  BY DEF Trail
<1>2. Len(trail) \in Nat
  BY DEF Trail
<1>3. trail \o entry \in Trail
  BY DEF Trail
<1>4. IsPrefix(trail, trail)
  BY <1>2 DEF IsPrefix, Trail
<1>5. SubSeq(trail, 1, Len(trail)) = SubSeq(Append(trail, n), 1, Len(trail))
  BY <1>2 DEF Trail
<1>6. IsPrefix(trail, Append(trail, n))
  BY <1>1, <1>2, <1>5 DEF IsPrefix
<1> QED
  BY <1>1, <1>2, <1>3, <1>4, <1>6

LEMMA EmptyTrail == <<>> \in Trail /\ \A n \in Stamps : <<n>> \in Trail
  BY DEF Trail

LEMMA ConcernMoves ==
    ASSUME NEW row \in Concern, NEW to \in DOMAIN ConcernTransitions, NEW n \in Stamps
    PROVE  LET next == Moved(row, to, n) IN
           /\ next \in Concern
           /\ next.status = to /\ next.audit = Append(row.audit, n)
           /\ next.promotion = row.promotion
<1>1. Append(row.audit, n) \in Trail
  BY TrailsGrow, EmptyTrail DEF Concern
<1> QED
  BY <1>1 DEF Concern, Moved

LEMMA HypothesisMoves ==
    ASSUME NEW row \in Hypothesis, NEW to \in DOMAIN HypothesisTransitions, NEW n \in Stamps
    PROVE  Moved(row, to, n) \in Hypothesis /\ Moved(row, to, n).status = to
<1>1. Append(row.audit, n) \in Trail
  BY TrailsGrow, EmptyTrail DEF Hypothesis
<1> QED
  BY <1>1 DEF Hypothesis, Moved

LEMMA OpportunityMoves ==
    ASSUME NEW row \in Opportunity, NEW to \in DOMAIN OpportunityTransitions, NEW n \in Stamps
    PROVE  LET next == Moved(row, to, n) IN
           /\ next \in Opportunity
           /\ next.status = to /\ next.audit = Append(row.audit, n)
           /\ next.hypothesis = row.hypothesis
<1>1. Append(row.audit, n) \in Trail
  BY TrailsGrow, EmptyTrail DEF Opportunity
<1> QED
  BY <1>1 DEF Opportunity, Moved

LEMMA ConcernIsEdited ==
    ASSUME NEW row \in Concern, NEW fields \in [Fields -> Stamps]
    PROVE  LET next == Edited(row, fields, <<>>) IN
           /\ next \in Concern /\ next.status = row.status
           /\ next.audit = row.audit /\ next.promotion = row.promotion
<1>1. row.audit \o <<>> = row.audit
  BY DEF Concern, Trail
<1> QED
  BY <1>1 DEF Concern, Edited

LEMMA HypothesisIsEdited ==
    ASSUME NEW row \in Hypothesis, NEW fields \in [Fields -> Stamps], NEW entry \in Trail
    PROVE  /\ Edited(row, fields, entry) \in Hypothesis
           /\ Edited(row, fields, entry).status = row.status
<1>1. row.audit \o entry \in Trail
  BY DEF Hypothesis, Trail
<1> QED
  BY <1>1 DEF Hypothesis, Edited

LEMMA ConcernIsPromoted ==
    ASSUME NEW row \in Concern, NEW n \in Stamps
    PROVE  LET next == Promoted(row, n) IN
           /\ next \in Concern /\ next.status = "promoted"
           /\ next.audit = Append(row.audit, n) /\ next.promotion = n
<1>1. "promoted" \in DOMAIN ConcernTransitions
  BY DEF ConcernTransitions
<1>2. Moved(row, "promoted", n) \in Concern
  BY <1>1, ConcernMoves
<1>3. /\ Moved(row, "promoted", n).status = "promoted"
      /\ Moved(row, "promoted", n).audit = Append(row.audit, n)
  BY <1>1, ConcernMoves
<1> QED
  BY <1>2, <1>3 DEF Promoted, Concern

LEMMA OpportunityIsReassessed ==
    ASSUME NEW row \in Opportunity, NEW n \in Stamps
    PROVE  LET next == Reassessed(row, n) IN
           /\ next \in Opportunity /\ next.status = row.status
           /\ next.audit = Append(row.audit, n) /\ next.hypothesis = row.hypothesis
<1>1. Append(row.audit, n) \in Trail
  BY TrailsGrow, EmptyTrail DEF Opportunity
<1> QED
  BY <1>1 DEF Opportunity, Reassessed

LEMMA NewRows ==
    ASSUME NEW n \in Stamps, NEW h \in Stamps, NEW fields \in [Fields -> Stamps],
           NEW status \in DOMAIN HypothesisTransitions, NEW trail \in Trail
    PROVE  /\ NewConcern(n) \in Concern
           /\ NewConcern(n).status = "untriaged"
           /\ Adopted(fields, status, trail) \in Hypothesis
           /\ Adopted(fields, status, trail).status = status
           /\ NewHypothesis(status, n, trail) \in Hypothesis
           /\ NewHypothesis(status, n, trail).status = status
           /\ NewOpportunity(h) \in Opportunity
           /\ NewOpportunity(h).status = "hypothesis"
           /\ NewOpportunity(h).hypothesis = h
<1>1. [f \in Fields |-> n] \in [Fields -> Stamps] /\ 0 \in Stamps
  BY WorkflowAssumption DEF Stamps
<1>2. NewConcern(n) \in Concern /\ NewConcern(n).status = "untriaged"
  BY <1>1, EmptyTrail DEF NewConcern, Concern, ConcernTransitions
<1>3. /\ NewOpportunity(h) \in Opportunity
      /\ NewOpportunity(h).status = "hypothesis" /\ NewOpportunity(h).hypothesis = h
  BY <1>1, EmptyTrail DEF NewOpportunity, Opportunity, OpportunityTransitions
<1>4. \A g \in [Fields -> Stamps] :
         Adopted(g, status, trail) \in Hypothesis /\ Adopted(g, status, trail).status = status
  BY DEF Adopted, Hypothesis
<1> QED
  BY <1>1, <1>2, <1>3, <1>4 DEF NewHypothesis
-----------------------------------------------------------------------------
(***************************************************************************)
(* Lifecycles                                                              *)
(***************************************************************************)
LEMMA ConcernLifecycle ==
    \A from \in DOMAIN ConcernTransitions :
       /\ ConcernTransitions[from] \subseteq DOMAIN ConcernTransitions
       /\ "promoted" \notin ConcernTransitions[from]
  BY DEF ConcernTransitions

LEMMA HypothesisLifecycle ==
    /\ {"proposed", "promoted"} \subseteq DOMAIN HypothesisTransitions
    /\ "promoted" \in HypothesisTransitions["proposed"]
    /\ \A from \in DOMAIN HypothesisTransitions :
          /\ HypothesisTransitions[from] \subseteq DOMAIN HypothesisTransitions
          /\ "proposed" \notin HypothesisTransitions[from]
  BY DEF HypothesisTransitions, Ends

LEMMA OpportunityLifecycle ==
    /\ "hypothesis" \notin Advancing
    /\ \A from \in DOMAIN OpportunityTransitions :
          OpportunityTransitions[from] \subseteq DOMAIN OpportunityTransitions
  BY DEF OpportunityTransitions, Ends, Advancing
-----------------------------------------------------------------------------
(***************************************************************************)
(* The inductive invariant.  What a command is about to write follows from *)
(* what it read: an edge of the lifecycle, a longer trail, the promotion   *)
(* and the hypothesis of the row.  The numbers of the promotions under way *)
(* are not those of any record.                                            *)
(***************************************************************************)
Follows(old, new, transitions) ==
    ChangesStatus(old, new, transitions) /\ KeepsTrail(old, new)

Faithful(s) ==
    /\ s.pc = "update_concern" =>
          /\ Follows(s.previous, s.next, ConcernTransitions)
          /\ s.next.promotion = s.previous.promotion
    /\ s.pc = "update_hypothesis" =>
          ChangesStatus(s.previous, s.next, HypothesisTransitions)
    /\ s.pc = "promote_hypothesis" => s.next.status = "promoted"
    /\ s.pc \in {"list_evidence", "update_opportunity"} =>
          /\ Follows(s.previous, s.next, OpportunityTransitions)
          /\ s.next.hypothesis = s.previous.hypothesis
          /\ s.next.status # s.previous.status /\ s.next.status \in Advancing
             => s.blocks

Promoting == {"promote_concern", "promote_hypothesis"}

Ids == DOMAIN investigations \cup DOMAIN hypotheses \cup DOMAIN opportunities

StampsAreFresh ==
    /\ Ids \subseteq 0..begun
    /\ \A u \in Users :
          session[u].pc \in Promoting => session[u].stamp \in (0..begun) \ Ids
    /\ \A u, v \in Users :
          /\ session[u].pc \in Promoting /\ session[v].pc \in Promoting
          /\ session[u].stamp = session[v].stamp
          => u = v

RecordsInv ==
    /\ WorkflowTypeOK
    /\ \A u \in Users : Faithful(session[u])
    /\ StampsAreFresh
    /\ PromotionsAreWhole
    /\ PromotedOnce

Tables ==
    /\ IsTable(concerns, Concerns, Concern)
    /\ links \in [Concerns -> SUBSET Targets]
    /\ IsTable(investigations, Stamps, Threads \cup {NullOrigin, EmptyOrigin})
    /\ IsTable(hypotheses, Stamps, Hypothesis)
    /\ IsTable(opportunities, Stamps, Opportunity)
    /\ contradicted \subseteq DOMAIN opportunities

LEMMA IdleCommands ==
    NoSession \in Session /\ Faithful(NoSession) /\ WorksOnRows(NoSession)
    /\ NoSession.pc \notin Promoting
  BY DEF NoSession, Session, Faithful, WorksOnRows, Promoting

LEMMA RowsAreTyped ==
    ASSUME Tables
    PROVE  /\ \A c \in DOMAIN concerns : c \in Concerns /\ concerns[c] \in Concern
           /\ \A h \in DOMAIN hypotheses : h \in Stamps /\ hypotheses[h] \in Hypothesis
           /\ \A o \in DOMAIN opportunities : o \in Stamps /\ opportunities[o] \in Opportunity
           /\ \A i \in DOMAIN investigations : i \in Stamps
  BY DEF Tables, IsTable

(***************************************************************************)
(* The steps that change a session and no record.                          *)
(***************************************************************************)
LEMMA SessionsChange ==
    ASSUME RecordsInv, NEW u \in Users, NEW s \in Session,
           session' = [session EXCEPT ![u] = s],
           UNCHANGED recordVars,
           Faithful(s), WorksOnRows(s),
           begun' \in 0..MaxCommands, begun <= begun',
           s.pc \in Promoting => s.stamp = begun' /\ begun < begun'
    PROVE  RecordsInv'
<1>1. UNCHANGED <<concerns, links, investigations, hypotheses, opportunities,
                  contradicted>>
  BY DEF recordVars
<1>2. session' \in [Users -> Session] /\ begun \in 0..MaxCommands /\ MaxCommands \in Nat
  BY WorkflowAssumption DEF RecordsInv, WorkflowTypeOK
<1>3. /\ session'[u] = s
      /\ \A v \in Users : v # u => session'[v] = session[v]
  BY DEF RecordsInv, WorkflowTypeOK
<1>4. \A v \in Users : Faithful(session[v])' /\ WorksOnRows(session[v])'
  <2> SUFFICES ASSUME NEW v \in Users
               PROVE  Faithful(session[v])' /\ WorksOnRows(session[v])'
    OBVIOUS
  <2>1. CASE v = u
    <3>1. Faithful(session'[v])
      BY <2>1, <1>3
    <3>2. WorksOnRows(session[v])'
      BY <2>1, <1>3, <1>1 DEF WorksOnRows
    <3> QED
      BY <3>1, <3>2 DEF Faithful, Follows
  <2>2. CASE v # u
    <3>1. session'[v] = session[v]
      BY <2>2, <1>3
    <3> QED
      BY <3>1, <1>1 DEF RecordsInv, WorkflowTypeOK, WorksOnRows, Faithful
  <2> QED
    BY <2>1, <2>2
<1>5. WorkflowTypeOK'
  BY <1>1, <1>2, <1>4 DEF RecordsInv, WorkflowTypeOK
<1>6. Ids' = Ids
  BY <1>1 DEF Ids
<1>7. StampsAreFresh'
  <2>1. Ids \subseteq 0..begun'
    BY <1>2 DEF RecordsInv, StampsAreFresh
  <2>2. \A v \in Users :
           session'[v].pc \in Promoting => session'[v].stamp \in (0..begun') \ Ids
    BY <1>2, <1>3 DEF RecordsInv, StampsAreFresh
  <2>3. \A v, w \in Users :
           /\ session'[v].pc \in Promoting /\ session'[w].pc \in Promoting
           /\ session'[v].stamp = session'[w].stamp
           => v = w
    BY <1>2, <1>3 DEF RecordsInv, StampsAreFresh
  <2> QED
    BY <1>6, <2>1, <2>2, <2>3 DEF StampsAreFresh, Promoting
<1>8. PromotionsAreWhole' /\ PromotedOnce'
  BY <1>1 DEF RecordsInv, PromotionsAreWhole, PromotedOnce
<1> QED
  BY <1>4, <1>5, <1>7, <1>8 DEF RecordsInv

(***************************************************************************)
(* The steps that change records: a command with one write, or the last    *)
(* step of another.                                                        *)
(***************************************************************************)
LEMMA RecordsChange ==
    ASSUME RecordsInv, NEW u \in Users,
           session' = session \/ session' = [session EXCEPT ![u] = NoSession],
           begun' \in 0..MaxCommands, begun <= begun',
           Tables',
           DOMAIN concerns \subseteq DOMAIN concerns',
           DOMAIN hypotheses \subseteq DOMAIN hypotheses',
           DOMAIN opportunities \subseteq DOMAIN opportunities',
           Ids' \subseteq 0..begun',
           \A v \in Users : session'[v].pc \in Promoting => session'[v].stamp \notin Ids',
           PromotionsAreWhole', PromotedOnce'
    PROVE  RecordsInv'
<1>1. /\ session' \in [Users -> Session]
      /\ \A v \in Users : session'[v] = session[v] \/ session'[v] = NoSession
  BY IdleCommands DEF RecordsInv, WorkflowTypeOK
<1>2. begun \in 0..MaxCommands /\ MaxCommands \in Nat
  BY WorkflowAssumption DEF RecordsInv, WorkflowTypeOK
<1>3. \A v \in Users : Faithful(session[v])' /\ WorksOnRows(session[v])'
  <2> SUFFICES ASSUME NEW v \in Users
               PROVE  Faithful(session[v])' /\ WorksOnRows(session[v])'
    OBVIOUS
  <2>1. CASE session'[v] = session[v]
    BY <2>1 DEF RecordsInv, WorkflowTypeOK, WorksOnRows, Faithful
  <2>2. CASE session'[v] = NoSession
    BY <2>2 DEF NoSession, WorksOnRows, Faithful
  <2> QED
    BY <1>1, <2>1, <2>2
<1>4. WorkflowTypeOK'
  BY <1>1, <1>3 DEF WorkflowTypeOK, Tables
<1>5. StampsAreFresh'
  <2>1. \A v \in Users : session'[v].pc \in Promoting => session'[v] = session[v]
    BY <1>1, IdleCommands
  <2>2. \A v \in Users :
           session'[v].pc \in Promoting => session'[v].stamp \in (0..begun') \ Ids'
    BY <1>2, <2>1 DEF RecordsInv, StampsAreFresh
  <2>3. \A v, w \in Users :
           /\ session'[v].pc \in Promoting /\ session'[w].pc \in Promoting
           /\ session'[v].stamp = session'[w].stamp
           => v = w
    BY <2>1 DEF RecordsInv, StampsAreFresh
  <2> QED
    BY <2>2, <2>3 DEF StampsAreFresh, Promoting
<1> QED
  BY <1>3, <1>4, <1>5 DEF RecordsInv
-----------------------------------------------------------------------------
(***************************************************************************)
(* The reads                                                               *)
(***************************************************************************)
LEMMA NumbersAreNew ==
    ASSUME RecordsInv, NEW u \in Users, NEW n, Begins(u, n)
    PROVE  /\ n \in Stamps /\ n # 0 /\ n = begun + 1 /\ begun' = n
           /\ n \in 0..MaxCommands /\ begun \in Nat /\ begun <= n
           /\ n \notin Ids
           /\ \A v \in Users : session[v].pc \in Promoting => session[v].stamp # n
<1>1. begun \in 0..MaxCommands /\ MaxCommands \in Nat
  BY WorkflowAssumption DEF RecordsInv, WorkflowTypeOK
<1>2. n \in 0..MaxCommands /\ n = begun + 1 /\ begun' = n
  BY <1>1 DEF Begins
<1> QED
  BY <1>1, <1>2 DEF RecordsInv, StampsAreFresh, Stamps

LEMMA ReadsKeepInv ==
    ASSUME RecordsInv, NEW u \in Users, NEW n, NEW s \in Session, Reads(u, n, s),
           Faithful(s), WorksOnRows(s), s.pc \in Promoting => s.stamp = n
    PROVE  RecordsInv'
<1>1. Begins(u, n) /\ session' = [session EXCEPT ![u] = s] /\ UNCHANGED recordVars
  BY DEF Reads
<1>2. /\ n \in 0..MaxCommands /\ begun' = n /\ n = begun + 1 /\ begun \in Nat
  BY <1>1, NumbersAreNew
<1>3. begun <= begun' /\ begun < begun' /\ begun' \in 0..MaxCommands
  BY <1>2
<1> QED
  BY <1>1, <1>2, <1>3, SessionsChange

LEMMA ContinuesKeepsInv ==
    ASSUME RecordsInv, NEW u \in Users, NEW s \in Session, Continues(u, s),
           Faithful(s), WorksOnRows(s), s.pc \notin Promoting
    PROVE  RecordsInv'
<1>1. session' = [session EXCEPT ![u] = s] /\ UNCHANGED recordVars /\ begun' = begun
  BY DEF Continues
<1>2. begun \in 0..MaxCommands /\ MaxCommands \in Nat
  BY WorkflowAssumption DEF RecordsInv, WorkflowTypeOK
<1>3. begun <= begun' /\ begun' \in 0..MaxCommands
  BY <1>1, <1>2
<1> QED
  BY <1>1, <1>3, SessionsChange

LEMMA InvIsTyped ==
    ASSUME RecordsInv
    PROVE  /\ Tables
           /\ \A u \in Users :
                 session[u] \in Session /\ Faithful(session[u]) /\ WorksOnRows(session[u])
  BY DEF RecordsInv, WorkflowTypeOK, Tables

LEMMA UpdateConcernFieldsKeepsInv ==
    ASSUME RecordsInv, NEW u \in Users, NEW n, NEW c \in Concerns, NEW f \in Fields,
           UpdateConcernFields(u, n, c, f)
    PROVE  RecordsInv'
<1> DEFINE fields == [concerns[c].fields EXCEPT ![f] = n]
           s == [pc |-> "edit_concern", id |-> c, fields |-> fields]
<1>1. c \in DOMAIN concerns /\ Reads(u, n, s)
  BY DEF UpdateConcernFields
<1>2. n \in Stamps
  BY <1>1, NumbersAreNew DEF Reads
<1>3. fields \in [Fields -> Stamps]
  BY <1>1, <1>2, InvIsTyped, RowsAreTyped DEF Concern
<1>4. s \in Session
  BY <1>3 DEF Session
<1>5. Faithful(s) /\ WorksOnRows(s) /\ s.pc \notin Promoting
  BY <1>1 DEF Faithful, WorksOnRows, Promoting
<1> QED
  BY <1>1, <1>4, <1>5, ReadsKeepInv

LEMMA PromoteConcernKeepsInv ==
    ASSUME RecordsInv, NEW u \in Users, NEW n, NEW c \in Concerns, PromoteConcern(u, n, c)
    PROVE  RecordsInv'
<1>1. PICK opportunity \in BOOLEAN :
         Reads(u, n, [pc |-> "promote_concern", id |-> c,
                      fields |-> concerns[c].fields,
                      opportunity |-> opportunity, stamp |-> n])
  BY DEF PromoteConcern
<1> DEFINE s == [pc |-> "promote_concern", id |-> c, fields |-> concerns[c].fields,
                 opportunity |-> opportunity, stamp |-> n]
<1>2. n \in Stamps
  BY <1>1, NumbersAreNew DEF Reads
<1>3. c \in DOMAIN concerns /\ concerns[c].fields \in [Fields -> Stamps]
  BY InvIsTyped, RowsAreTyped DEF Concern, PromoteConcern
<1>4. s \in Session
  BY <1>2, <1>3 DEF Session
<1>5. Faithful(s) /\ WorksOnRows(s) /\ s.stamp = n
  BY <1>3 DEF Faithful, WorksOnRows
<1> QED
  BY <1>1, <1>4, <1>5, ReadsKeepInv

LEMMA UpdateHypothesisFieldsKeepsInv ==
    ASSUME RecordsInv, NEW u \in Users, NEW n, NEW h \in Stamps, NEW f \in Fields,
           UpdateHypothesisFields(u, n, h, f)
    PROVE  RecordsInv'
<1>1. PICK entry \in {<<>>, <<n>>} :
         Reads(u, n, [pc |-> "edit_hypothesis", id |-> h,
                      fields |-> [hypotheses[h].fields EXCEPT ![f] = n],
                      entry |-> entry])
  BY DEF UpdateHypothesisFields
<1> DEFINE fields == [hypotheses[h].fields EXCEPT ![f] = n]
           s == [pc |-> "edit_hypothesis", id |-> h, fields |-> fields, entry |-> entry]
<1>2. n \in Stamps /\ h \in DOMAIN hypotheses
  BY <1>1, NumbersAreNew DEF Reads, UpdateHypothesisFields
<1>3. fields \in [Fields -> Stamps] /\ entry \in Trail
  BY <1>2, EmptyTrail, InvIsTyped, RowsAreTyped DEF Hypothesis
<1>4. s \in Session
  BY <1>3 DEF Session
<1>5. Faithful(s) /\ WorksOnRows(s) /\ s.pc \notin Promoting
  BY <1>2 DEF Faithful, WorksOnRows, Promoting
<1> QED
  BY <1>1, <1>4, <1>5, ReadsKeepInv

LEMMA MovesFollow ==
    ASSUME NEW old \in Concern \cup Opportunity, NEW new, NEW transitions, NEW n \in Stamps,
           new.status \in transitions[old.status], new.audit = Append(old.audit, n)
    PROVE  Follows(old, new, transitions)
<1>1. old.audit \in Trail
  BY DEF Concern, Opportunity
<1> QED
  BY <1>1, TrailsGrow, EmptyTrail DEF Follows, ChangesStatus, KeepsTrail

LEMMA SetConcernStatusKeepsInv ==
    ASSUME RecordsInv, NEW u \in Users, NEW n, NEW c \in Concerns, SetConcernStatus(u, n, c)
    PROVE  RecordsInv'
<1> DEFINE row == concerns[c]
<1>1. PICK to \in ConcernTransitions[row.status] :
         Reads(u, n, [pc |-> "update_concern", id |-> c, previous |-> row,
                      next |-> Moved(row, to, n)])
  BY DEF SetConcernStatus
<1> DEFINE s == [pc |-> "update_concern", id |-> c, previous |-> row,
                 next |-> Moved(row, to, n)]
<1>2. n \in Stamps /\ c \in DOMAIN concerns
  BY <1>1, NumbersAreNew DEF Reads, SetConcernStatus
<1>3. row \in Concern /\ row.status \in DOMAIN ConcernTransitions
  BY <1>2, InvIsTyped, RowsAreTyped DEF Concern
<1>4. to \in DOMAIN ConcernTransitions
  BY <1>3, ConcernLifecycle
<1>5. /\ Moved(row, to, n) \in Concern /\ Moved(row, to, n).status = to
      /\ Moved(row, to, n).audit = Append(row.audit, n)
      /\ Moved(row, to, n).promotion = row.promotion
  BY <1>2, <1>3, <1>4, ConcernMoves
<1>6. s \in Session
  BY <1>3, <1>5 DEF Session
<1>7. Follows(row, Moved(row, to, n), ConcernTransitions)
  BY <1>2, <1>3, <1>5, MovesFollow
<1>8. Faithful(s) /\ WorksOnRows(s) /\ s.pc \notin Promoting
  BY <1>2, <1>5, <1>7 DEF Faithful, WorksOnRows, Promoting
<1> QED
  BY <1>1, <1>6, <1>8, ReadsKeepInv

LEMMA TransitionHypothesisKeepsInv ==
    ASSUME RecordsInv, NEW u \in Users, NEW n, NEW h \in Stamps, TransitionHypothesis(u, n, h)
    PROVE  RecordsInv'
<1> DEFINE row == hypotheses[h]
<1>1. PICK to \in HypothesisTransitions[row.status] :
         Reads(u, n, [pc |-> "update_hypothesis", id |-> h, previous |-> row,
                      next |-> Moved(row, to, n)])
  BY DEF TransitionHypothesis
<1> DEFINE s == [pc |-> "update_hypothesis", id |-> h, previous |-> row,
                 next |-> Moved(row, to, n)]
<1>2. n \in Stamps /\ h \in DOMAIN hypotheses
  BY <1>1, NumbersAreNew DEF Reads, TransitionHypothesis
<1>3. row \in Hypothesis /\ row.status \in DOMAIN HypothesisTransitions
  BY <1>2, InvIsTyped, RowsAreTyped DEF Hypothesis
<1>4. to \in DOMAIN HypothesisTransitions
  BY <1>3, HypothesisLifecycle
<1>5. Moved(row, to, n) \in Hypothesis /\ Moved(row, to, n).status = to
  BY <1>2, <1>3, <1>4, HypothesisMoves
<1>6. s \in Session
  BY <1>3, <1>5 DEF Session
<1>7. Faithful(s) /\ WorksOnRows(s) /\ s.pc \notin Promoting
  BY <1>2, <1>5 DEF Faithful, WorksOnRows, Promoting, ChangesStatus
<1> QED
  BY <1>1, <1>6, <1>7, ReadsKeepInv

LEMMA PromoteOpportunityKeepsInv ==
    ASSUME RecordsInv, NEW u \in Users, NEW n, NEW h \in Stamps, PromoteOpportunity(u, n, h)
    PROVE  RecordsInv'
<1> DEFINE row == hypotheses[h]
           s == [pc |-> "promote_hypothesis", id |-> h,
                 next |-> Moved(row, "promoted", n), stamp |-> n]
<1>1. h \in DOMAIN hypotheses /\ Reads(u, n, s)
  BY DEF PromoteOpportunity
<1>2. n \in Stamps /\ row \in Hypothesis
  BY <1>1, NumbersAreNew, InvIsTyped, RowsAreTyped DEF Reads
<1>3. /\ Moved(row, "promoted", n) \in Hypothesis
      /\ Moved(row, "promoted", n).status = "promoted"
  BY <1>2, HypothesisMoves, HypothesisLifecycle
<1>4. s \in Session
  BY <1>2, <1>3 DEF Session
<1>5. Faithful(s) /\ WorksOnRows(s) /\ s.stamp = n
  BY <1>1, <1>3 DEF Faithful, WorksOnRows
<1> QED
  BY <1>1, <1>4, <1>5, ReadsKeepInv

LEMMA SetOpportunityStatusKeepsInv ==
    ASSUME RecordsInv, NEW u \in Users, NEW n, NEW o \in Stamps, SetOpportunityStatus(u, n, o)
    PROVE  RecordsInv'
<1> DEFINE row == opportunities[o]
           Command(to) ==
              [pc |-> IF to \in Advancing THEN "list_evidence" ELSE "update_opportunity",
               id |-> o, previous |-> row, next |-> Moved(row, to, n),
               blocks |-> to \in Advancing]
<1>1. PICK to \in OpportunityTransitions[row.status] : Reads(u, n, Command(to))
  BY DEF SetOpportunityStatus
<1>2. n \in Stamps /\ o \in DOMAIN opportunities
  BY <1>1, NumbersAreNew DEF Reads, SetOpportunityStatus
<1>3. row \in Opportunity /\ row.status \in DOMAIN OpportunityTransitions
  BY <1>2, InvIsTyped, RowsAreTyped DEF Opportunity
<1>4. to \in DOMAIN OpportunityTransitions
  BY <1>3, OpportunityLifecycle
<1>5. /\ Moved(row, to, n) \in Opportunity /\ Moved(row, to, n).status = to
      /\ Moved(row, to, n).audit = Append(row.audit, n)
      /\ Moved(row, to, n).hypothesis = row.hypothesis
  BY <1>2, <1>3, <1>4, OpportunityMoves
<1>6. (to \in Advancing) \in BOOLEAN
  OBVIOUS
<1>7. Command(to) \in Session
  BY <1>2, <1>3, <1>5, <1>6 DEF Session
<1>8. Follows(row, Moved(row, to, n), OpportunityTransitions)
  BY <1>2, <1>3, <1>5, MovesFollow
<1>9. Faithful(Command(to)) /\ WorksOnRows(Command(to)) /\ Command(to).pc \notin Promoting
  BY <1>2, <1>5, <1>8 DEF Faithful, WorksOnRows, Promoting
<1> QED
  BY <1>1, <1>7, <1>9, ReadsKeepInv

LEMMA UpdateCollisionStatusKeepsInv ==
    ASSUME RecordsInv, NEW u \in Users, NEW n, NEW o \in Stamps, UpdateCollisionStatus(u, n, o)
    PROVE  RecordsInv'
<1> DEFINE row == opportunities[o]
           s == [pc |-> "update_opportunity", id |-> o, previous |-> row,
                 next |-> Reassessed(row, n), blocks |-> FALSE]
<1>1. o \in DOMAIN opportunities /\ Reads(u, n, s)
  BY DEF UpdateCollisionStatus
<1>2. n \in Stamps /\ row \in Opportunity
  BY <1>1, NumbersAreNew, InvIsTyped, RowsAreTyped DEF Reads
<1>3. /\ Reassessed(row, n) \in Opportunity /\ Reassessed(row, n).status = row.status
      /\ Reassessed(row, n).audit = Append(row.audit, n)
      /\ Reassessed(row, n).hypothesis = row.hypothesis
  BY <1>2, OpportunityIsReassessed
<1>4. s \in Session
  BY <1>2, <1>3, <1>1 DEF Session
<1>5. row.audit \in Trail
  BY <1>2 DEF Opportunity
<1>6. Follows(row, Reassessed(row, n), OpportunityTransitions)
  BY <1>2, <1>3, <1>5, TrailsGrow, EmptyTrail DEF Follows, ChangesStatus, KeepsTrail
<1>7. Faithful(s) /\ WorksOnRows(s) /\ s.pc \notin Promoting
  BY <1>1, <1>3, <1>6 DEF Faithful, WorksOnRows, Promoting
<1> QED
  BY <1>1, <1>4, <1>7, ReadsKeepInv

LEMMA SessionsByCommand ==
    ASSUME NEW s \in Session
    PROVE  /\ s.pc = "edit_concern" =>
                 s \in [pc : {"edit_concern"}, id : Concerns, fields : [Fields -> Stamps]]
           /\ s.pc = "update_concern" =>
                 s \in [pc : {"update_concern"}, id : Concerns, previous : Concern,
                        next : Concern]
           /\ s.pc = "promote_concern" =>
                 s \in [pc : {"promote_concern"}, id : Concerns,
                        fields : [Fields -> Stamps], opportunity : BOOLEAN, stamp : Stamps]
           /\ s.pc = "edit_hypothesis" =>
                 s \in [pc : {"edit_hypothesis"}, id : Stamps,
                        fields : [Fields -> Stamps], entry : Trail]
           /\ s.pc = "update_hypothesis" =>
                 s \in [pc : {"update_hypothesis"}, id : Stamps, previous : Hypothesis,
                        next : Hypothesis]
           /\ s.pc = "promote_hypothesis" =>
                 s \in [pc : {"promote_hypothesis"}, id : Stamps, next : Hypothesis,
                        stamp : Stamps]
           /\ s.pc \in {"list_evidence", "update_opportunity"} =>
                 s \in [pc : {"list_evidence", "update_opportunity"}, id : Stamps,
                        previous : Opportunity, next : Opportunity, blocks : BOOLEAN]
<1>1. CASE s = NoSession
  BY <1>1 DEF NoSession
<1>2. CASE s # NoSession
  BY <1>2 DEF Session
<1> QED
  BY <1>1, <1>2

LEMMA EditConcernKeepsInv ==
    ASSUME RecordsInv, NEW u \in Users, EditConcern(u)
    PROVE  RecordsInv'
<1> DEFINE s == session[u]
           row == concerns[s.id]
           next == Edited(row, s.fields, <<>>)
           t == [pc |-> "update_concern", id |-> s.id, previous |-> row, next |-> next]
<1>1. s.pc = "edit_concern" /\ Continues(u, t)
  BY DEF EditConcern
<1>2. s.id \in Concerns /\ s.fields \in [Fields -> Stamps] /\ s.id \in DOMAIN concerns
  BY <1>1, InvIsTyped, SessionsByCommand DEF WorksOnRows
<1>3. row \in Concern
  BY <1>2, InvIsTyped, RowsAreTyped
<1>4. /\ next \in Concern /\ next.status = row.status
      /\ next.audit = row.audit /\ next.promotion = row.promotion
  BY <1>2, <1>3, ConcernIsEdited
<1>5. t \in Session
  BY <1>2, <1>3, <1>4 DEF Session
<1>6. 0 \in Stamps /\ row.audit \in Trail
  BY <1>3, WorkflowAssumption DEF Stamps, Concern
<1>7. Follows(row, next, ConcernTransitions)
  BY <1>4, <1>6, TrailsGrow DEF Follows, ChangesStatus, KeepsTrail
<1>8. Faithful(t) /\ WorksOnRows(t) /\ t.pc \notin Promoting
  BY <1>2, <1>4, <1>7 DEF Faithful, WorksOnRows, Promoting
<1> HIDE DEF s, row, next
<1> QED
  BY <1>1, <1>5, <1>8, ContinuesKeepsInv

LEMMA EditHypothesisKeepsInv ==
    ASSUME RecordsInv, NEW u \in Users, EditHypothesis(u)
    PROVE  RecordsInv'
<1> DEFINE s == session[u]
           row == hypotheses[s.id]
           next == Edited(row, s.fields, s.entry)
           t == [pc |-> "update_hypothesis", id |-> s.id, previous |-> row, next |-> next]
<1>1. s.pc = "edit_hypothesis" /\ Continues(u, t)
  BY DEF EditHypothesis
<1>2. /\ s.id \in Stamps /\ s.fields \in [Fields -> Stamps] /\ s.entry \in Trail
      /\ s.id \in DOMAIN hypotheses
  BY <1>1, InvIsTyped, SessionsByCommand DEF WorksOnRows
<1>3. row \in Hypothesis
  BY <1>2, InvIsTyped, RowsAreTyped
<1>4. next \in Hypothesis /\ next.status = row.status
  BY <1>2, <1>3, HypothesisIsEdited
<1>5. t \in Session
  BY <1>2, <1>3, <1>4 DEF Session
<1>6. Faithful(t) /\ WorksOnRows(t) /\ t.pc \notin Promoting
  BY <1>2, <1>4 DEF Faithful, WorksOnRows, Promoting, ChangesStatus
<1> HIDE DEF s, row, next
<1> QED
  BY <1>1, <1>5, <1>6, ContinuesKeepsInv

LEMMA ListEvidenceKeepsInv ==
    ASSUME RecordsInv, NEW u \in Users, ListEvidence(u)
    PROVE  RecordsInv'
<1> DEFINE s == session[u]
           t == [s EXCEPT !.pc = "update_opportunity"]
<1>1. s.pc = "list_evidence" /\ (Continues(u, NoSession) \/ Continues(u, t))
  BY DEF ListEvidence
<1>2. s \in [pc : {"list_evidence", "update_opportunity"}, id : Stamps,
             previous : Opportunity, next : Opportunity, blocks : BOOLEAN]
  BY <1>1, InvIsTyped, SessionsByCommand
<1>3. /\ t \in [pc : {"list_evidence", "update_opportunity"}, id : Stamps,
                previous : Opportunity, next : Opportunity, blocks : BOOLEAN]
      /\ t.pc = "update_opportunity" /\ t.id = s.id /\ t.previous = s.previous
      /\ t.next = s.next /\ t.blocks = s.blocks
  BY <1>2
<1>4. Faithful(s) /\ WorksOnRows(s)
  BY InvIsTyped
<1>5. t \in Session
  BY <1>3 DEF Session
<1>6. Faithful(t) /\ WorksOnRows(t) /\ t.pc \notin Promoting
  BY <1>1, <1>3, <1>4 DEF Faithful, WorksOnRows, Promoting
<1>7. CASE Continues(u, NoSession)
  BY <1>7, IdleCommands, ContinuesKeepsInv
<1>8. CASE Continues(u, t)
  BY <1>5, <1>6, <1>8, ContinuesKeepsInv
<1> QED
  BY <1>1, <1>7, <1>8

LEMMA EndsKeepInv ==
    ASSUME RecordsInv, NEW u \in Users,
           UpdateRefused(u) \/ PromotionRefused(u) \/ ReportCollision(u)
    PROVE  RecordsInv'
<1>1. Continues(u, NoSession)
  BY DEF UpdateRefused, PromotionRefused, ReportCollision, Returns, Continues, recordVars
<1> QED
  BY <1>1, IdleCommands, ContinuesKeepsInv

LEMMA PromotionCollidesKeepsInv ==
    ASSUME RecordsInv, NEW u \in Users, PromotionCollides(u)
    PROVE  RecordsInv'
<1> DEFINE s == session[u]
           t == [pc |-> "collided", id |-> s.id]
<1>1. s.pc = "promote_concern" /\ Continues(u, t)
  BY DEF PromotionCollides
<1>2. s.id \in Concerns
  BY <1>1, InvIsTyped, SessionsByCommand
<1>3. t \in Session
  BY <1>2 DEF Session
<1>4. Faithful(t) /\ WorksOnRows(t) /\ t.pc \notin Promoting
  BY DEF Faithful, WorksOnRows, Promoting
<1> QED
  BY <1>1, <1>3, <1>4, ContinuesKeepsInv
-----------------------------------------------------------------------------
(***************************************************************************)
(* The commands with one write                                             *)
(***************************************************************************)
LEMMA SmallWritesKeepInv ==
    ASSUME RecordsInv, NEW u \in Users, NEW n,
           \/ \E c \in Concerns : CreateConcern(u, n, c)
           \/ \E c \in Concerns, i \in Targets : LinkConcern(u, n, c, i)
           \/ \E o \in Stamps : RecordEvidence(u, n, o)
    PROVE  RecordsInv'
<1>1. Begins(u, n) /\ session' = session
  BY DEF CreateConcern, LinkConcern, RecordEvidence
<1>2. /\ n \in Stamps /\ begun' = n /\ n \in 0..MaxCommands /\ begun \in Nat
      /\ begun <= begun' /\ n = begun + 1
  BY <1>1, NumbersAreNew
<1>3. Tables
  BY InvIsTyped
<1>4. UNCHANGED <<investigations, hypotheses, opportunities>>
  BY DEF CreateConcern, LinkConcern, RecordEvidence
<1>5. Ids' = Ids /\ Ids \subseteq 0..begun'
  BY <1>2, <1>4 DEF Ids, RecordsInv, StampsAreFresh
<1>6. \A v \in Users : session'[v].pc \in Promoting => session'[v].stamp \notin Ids'
  BY <1>1, <1>5 DEF RecordsInv, StampsAreFresh
<1>7. PromotedOnce'
  BY <1>4 DEF RecordsInv, PromotedOnce
<1>8. /\ Tables' /\ PromotionsAreWhole'
      /\ DOMAIN concerns \subseteq DOMAIN concerns'
  <2>1. CASE \E c \in Concerns : CreateConcern(u, n, c)
    <3>1. PICK c \in Concerns : CreateConcern(u, n, c)
      BY <2>1
    <3>2. c \notin DOMAIN concerns /\ concerns' = Put(concerns, c, NewConcern(n))
      BY <3>1 DEF CreateConcern
    <3>3. UNCHANGED <<links, contradicted>>
      BY <3>1 DEF CreateConcern
    <3>4. NewConcern(n) \in Concern /\ NewConcern(n).status = "untriaged"
      <4>1. \E fields : fields \in [Fields -> Stamps]
        <5>1. [f \in Fields |-> n] \in [Fields -> Stamps]
          BY <1>2
        <5> QED
          BY <5>1
      <4> QED
        BY <4>1, <1>2, NewRows, HypothesisLifecycle, EmptyTrail
    <3>5. IsTable(concerns', Concerns, Concern)
      BY <1>3, <3>2, <3>4 DEF Tables, Put, IsTable
    <3>6. /\ DOMAIN concerns' = DOMAIN concerns \cup {c}
          /\ concerns'[c].status = "untriaged"
          /\ \A d \in DOMAIN concerns : concerns'[d] = concerns[d]
      <4>1. IsTable(concerns, Concerns, Concern)
        BY <1>3 DEF Tables
      <4>2. /\ DOMAIN concerns' = DOMAIN concerns \cup {c}
            /\ concerns'[c] = NewConcern(n)
            /\ \A d \in DOMAIN concerns : d # c => concerns'[d] = concerns[d]
        BY <3>2, <3>4, <4>1 DEF Put, IsTable
      <4> QED
        BY <3>2, <3>4, <4>2
    <3>7. Tables'
      BY <1>3, <1>4, <3>3, <3>5 DEF Tables
    <3>8. PromotionsAreWhole'
      BY <1>4, <3>3, <3>6 DEF RecordsInv, PromotionsAreWhole
    <3> QED
      BY <3>6, <3>7, <3>8
  <2>2. CASE \E c \in Concerns, i \in Targets : LinkConcern(u, n, c, i)
    <3>1. PICK c \in Concerns, i \in Targets : LinkConcern(u, n, c, i)
      BY <2>2
    <3>2. links' = [links EXCEPT ![c] = @ \cup {i}] /\ UNCHANGED <<concerns, contradicted>>
      BY <3>1 DEF LinkConcern
    <3>3. links' \in [Concerns -> SUBSET Targets]
      BY <1>3, <3>2 DEF Tables
    <3>4. \A d \in Concerns : links[d] \subseteq links'[d]
      BY <1>3, <3>2 DEF Tables
    <3>5. Tables'
      BY <1>3, <1>4, <3>2, <3>3 DEF Tables
    <3>6. DOMAIN concerns \subseteq Concerns
      BY <1>3 DEF Tables, IsTable
    <3>7. PromotionsAreWhole'
      BY <1>4, <3>2, <3>4, <3>6 DEF RecordsInv, PromotionsAreWhole
    <3> QED
      BY <3>2, <3>5, <3>7
  <2>3. CASE \E o \in Stamps : RecordEvidence(u, n, o)
    <3>1. PICK o \in Stamps : RecordEvidence(u, n, o)
      BY <2>3
    <3>2. /\ o \in DOMAIN opportunities /\ contradicted' = contradicted \cup {o}
          /\ UNCHANGED <<concerns, links>>
      BY <3>1 DEF RecordEvidence
    <3>3. Tables'
      BY <1>3, <1>4, <3>2 DEF Tables
    <3>4. PromotionsAreWhole'
      BY <1>4, <3>2 DEF RecordsInv, PromotionsAreWhole
    <3> QED
      BY <3>2, <3>3, <3>4
  <2> QED
    BY <2>1, <2>2, <2>3
<1> QED
  BY <1>1, <1>2, <1>4, <1>5, <1>6, <1>7, <1>8, RecordsChange

(***************************************************************************)
(* The records a number may be given to: a promoted concern and an         *)
(* opportunity keep theirs.                                                *)
(***************************************************************************)
LEMMA FreshRecords ==
    ASSUME RecordsInv, NEW n, n \notin Ids
    PROVE  /\ n \notin DOMAIN investigations /\ n \notin DOMAIN hypotheses
           /\ n \notin DOMAIN opportunities
           /\ \A o \in DOMAIN opportunities : opportunities[o].hypothesis # n
           /\ \A c \in DOMAIN concerns :
                 concerns[c].status = "promoted" => concerns[c].promotion # n
  BY DEF RecordsInv, Ids, PromotionsAreWhole, PromotedOnce

LEMMA StartsKeepInv ==
    ASSUME RecordsInv, NEW u \in Users, NEW n,
           \/ StartInvestigation(u, n)
           \/ \E t \in Threads : StartThreadInvestigation(u, n, t)
           \/ CreateHypothesis(u, n)
    PROVE  RecordsInv'
<1>1. Begins(u, n) /\ session' = session
  BY DEF StartInvestigation, StartThreadInvestigation, CreateHypothesis
<1>2. /\ n \in Stamps /\ begun' = n /\ n \in 0..MaxCommands /\ begun \in Nat
      /\ begun <= begun' /\ n = begun + 1 /\ n \notin Ids
      /\ \A v \in Users : session[v].pc \in Promoting => session[v].stamp # n
  BY <1>1, NumbersAreNew
<1>3. Tables
  BY InvIsTyped
<1>4. UNCHANGED <<concerns, links, opportunities, contradicted>>
  BY DEF StartInvestigation, StartThreadInvestigation, CreateHypothesis
<1>5. /\ n \notin DOMAIN investigations /\ n \notin DOMAIN hypotheses
      /\ \A o \in DOMAIN opportunities : opportunities[o].hypothesis # n
      /\ \A c \in DOMAIN concerns :
            concerns[c].status = "promoted" => concerns[c].promotion # n
  BY <1>2, FreshRecords
<1>6. \/ investigations' = investigations
      \/ \E origin \in Threads \cup {NullOrigin, EmptyOrigin} :
            investigations' = Put(investigations, n, origin)
  BY DEF StartInvestigation, StartThreadInvestigation, CreateHypothesis
<1>7. \/ hypotheses' = hypotheses
      \/ \E list \in {<<>>, <<n>>} :
            hypotheses' = Put(hypotheses, n, NewHypothesis("proposed", n, list))
  BY DEF StartInvestigation, StartThreadInvestigation, CreateHypothesis
<1>8. /\ IsTable(investigations', Stamps, Threads \cup {NullOrigin, EmptyOrigin})
      /\ DOMAIN investigations \subseteq DOMAIN investigations'
      /\ DOMAIN investigations' \subseteq DOMAIN investigations \cup {n}
      /\ \A i \in DOMAIN investigations : investigations'[i] = investigations[i]
  <2>1. CASE investigations' = investigations
    BY <1>3, <2>1 DEF Tables
  <2>2. ASSUME NEW origin \in Threads \cup {NullOrigin, EmptyOrigin},
               investigations' = Put(investigations, n, origin)
        PROVE  <1>8
    <3>1. IsTable(investigations, Stamps, Threads \cup {NullOrigin, EmptyOrigin})
      BY <1>3 DEF Tables
    <3>2. /\ IsTable(investigations', Stamps, Threads \cup {NullOrigin, EmptyOrigin})
          /\ DOMAIN investigations' = DOMAIN investigations \cup {n}
          /\ \A i \in DOMAIN investigations :
                i # n => investigations'[i] = investigations[i]
      BY <1>2, <2>2, <3>1 DEF Put, IsTable
    <3> QED
      BY <1>5, <3>2
  <2> QED
    BY <1>6, <2>1, <2>2
<1>9. /\ IsTable(hypotheses', Stamps, Hypothesis)
      /\ DOMAIN hypotheses \subseteq DOMAIN hypotheses'
      /\ DOMAIN hypotheses' \subseteq DOMAIN hypotheses \cup {n}
      /\ \A h \in DOMAIN hypotheses : hypotheses'[h] = hypotheses[h]
  <2>1. CASE hypotheses' = hypotheses
    BY <1>3, <2>1 DEF Tables
  <2>2. ASSUME NEW list \in {<<>>, <<n>>},
               hypotheses' = Put(hypotheses, n, NewHypothesis("proposed", n, list))
        PROVE  <1>9
    <3>1. [f \in Fields |-> n] \in [Fields -> Stamps] /\ list \in Trail
      BY <1>2, EmptyTrail
    <3>2. NewHypothesis("proposed", n, list) \in Hypothesis
      BY <1>2, <3>1, HypothesisLifecycle, NewRows
    <3>3. PICK row \in Hypothesis : hypotheses' = Put(hypotheses, n, row)
      BY <2>2, <3>2
    <3>4. IsTable(hypotheses, Stamps, Hypothesis)
      BY <1>3 DEF Tables
    <3>5. n \in Stamps
      BY <1>2
    <3>6. /\ IsTable(hypotheses', Stamps, Hypothesis)
          /\ DOMAIN hypotheses' = DOMAIN hypotheses \cup {n}
          /\ \A h \in DOMAIN hypotheses : h # n => hypotheses'[h] = hypotheses[h]
      BY <3>3, <3>4, <3>5 DEF Put, IsTable
    <3> QED
      BY <1>5, <3>6
  <2> QED
    BY <1>7, <2>1, <2>2
<1>10. Tables'
  BY <1>3, <1>4, <1>8, <1>9 DEF Tables
<1>11. Ids' \subseteq Ids \cup {n} /\ Ids \subseteq 0..begun
  BY <1>4, <1>8, <1>9 DEF Ids, RecordsInv, StampsAreFresh
<1>12. Ids' \subseteq 0..begun'
  BY <1>2, <1>11
<1>13. \A v \in Users : session'[v].pc \in Promoting => session'[v].stamp \notin Ids'
  BY <1>1, <1>2, <1>11 DEF RecordsInv, StampsAreFresh
<1>14. PromotionsAreWhole'
  BY <1>4, <1>8, <1>9 DEF RecordsInv, PromotionsAreWhole
<1>15. PromotedOnce'
  BY <1>4, <1>9 DEF RecordsInv, PromotedOnce
<1> QED
  BY <1>1, <1>2, <1>4, <1>8, <1>9, <1>10, <1>12, <1>13, <1>14, <1>15, RecordsChange
-----------------------------------------------------------------------------
(***************************************************************************)
(* The last steps of the other commands                                    *)
(***************************************************************************)
LEMMA ReturnsAre ==
    ASSUME RecordsInv, NEW u \in Users, Returns(u)
    PROVE  /\ session' = [session EXCEPT ![u] = NoSession]
           /\ begun' = begun /\ begun' \in 0..MaxCommands /\ begun <= begun'
           /\ Ids \subseteq 0..begun'
           /\ \A v \in Users : session'[v].pc \in Promoting =>
                 /\ v # u /\ session'[v] = session[v]
                 /\ session'[v].stamp \notin Ids
                 /\ session[u].pc \in Promoting => session'[v].stamp # session[u].stamp
<1>1. session' = [session EXCEPT ![u] = NoSession] /\ begun' = begun
  BY DEF Returns
<1>2. session \in [Users -> Session] /\ begun \in 0..MaxCommands /\ MaxCommands \in Nat
  BY WorkflowAssumption DEF RecordsInv, WorkflowTypeOK
<1>3. session'[u] = NoSession /\ \A v \in Users : v # u => session'[v] = session[v]
  BY <1>1, <1>2
<1>4. Ids \subseteq 0..begun' /\ begun <= begun' /\ begun' \in 0..MaxCommands
  BY <1>1, <1>2 DEF RecordsInv, StampsAreFresh
<1> QED
  BY <1>1, <1>3, <1>4, IdleCommands DEF RecordsInv, StampsAreFresh

LEMMA UpdateConcernKeepsInv ==
    ASSUME RecordsInv, NEW u \in Users, UpdateConcern(u)
    PROVE  RecordsInv'
<1> DEFINE s == session[u]
<1>1. /\ s.pc = "update_concern" /\ concerns[s.id] = s.previous
      /\ concerns' = Put(concerns, s.id, s.next) /\ Returns(u)
      /\ UNCHANGED <<links, investigations, hypotheses, opportunities, contradicted>>
  BY DEF UpdateConcern
<1>2. /\ s.id \in Concerns /\ s.previous \in Concern /\ s.next \in Concern
      /\ s.id \in DOMAIN concerns
  BY <1>1, InvIsTyped, SessionsByCommand DEF WorksOnRows
<1>3. /\ ChangesStatus(s.previous, s.next, ConcernTransitions)
      /\ s.next.promotion = s.previous.promotion
  BY <1>1, InvIsTyped DEF Faithful, Follows
<1>4. s.next.status = "promoted" => s.previous.status = "promoted"
  BY <1>2, <1>3, ConcernLifecycle DEF ChangesStatus, Concern
<1>5. Tables
  BY InvIsTyped
<1>6. /\ IsTable(concerns', Concerns, Concern)
      /\ DOMAIN concerns' = DOMAIN concerns /\ concerns'[s.id] = s.next
      /\ \A c \in DOMAIN concerns : c # s.id => concerns'[c] = concerns[c]
  BY <1>1, <1>2, <1>5 DEF Tables, Put, IsTable
<1>7. Tables'
  BY <1>1, <1>5, <1>6 DEF Tables
<1>8. PromotionsAreWhole'
  <2> SUFFICES ASSUME NEW c \in DOMAIN concerns, concerns'[c].status = "promoted"
               PROVE  /\ concerns'[c].promotion \in DOMAIN investigations
                      /\ concerns'[c].promotion \in DOMAIN hypotheses
                      /\ investigations[concerns'[c].promotion] = EmptyOrigin
                      /\ concerns'[c].promotion \in links[c]
    BY <1>1, <1>6 DEF PromotionsAreWhole
  <2>1. /\ concerns[c].status = "promoted"
        /\ concerns'[c].promotion = concerns[c].promotion
    BY <1>1, <1>3, <1>4, <1>6
  <2> QED
    BY <2>1 DEF RecordsInv, PromotionsAreWhole
<1>9. PromotedOnce' /\ Ids' = Ids
  BY <1>1 DEF RecordsInv, PromotedOnce, Ids
<1> HIDE DEF s
<1> QED
  BY <1>1, <1>6, <1>7, <1>8, <1>9, ReturnsAre, RecordsChange

LEMMA UpdateHypothesisKeepsInv ==
    ASSUME RecordsInv, NEW u \in Users, UpdateHypothesis(u)
    PROVE  RecordsInv'
<1> DEFINE s == session[u]
<1>1. /\ s.pc = "update_hypothesis" /\ hypotheses[s.id] = s.previous
      /\ hypotheses' = Put(hypotheses, s.id, s.next) /\ Returns(u)
      /\ UNCHANGED <<concerns, links, investigations, opportunities, contradicted>>
  BY DEF UpdateHypothesis
<1>2. /\ s.id \in Stamps /\ s.previous \in Hypothesis /\ s.next \in Hypothesis
      /\ s.id \in DOMAIN hypotheses
  BY <1>1, InvIsTyped, SessionsByCommand DEF WorksOnRows
<1>3. ChangesStatus(s.previous, s.next, HypothesisTransitions)
  BY <1>1, InvIsTyped DEF Faithful
<1>4. s.next.status = "proposed" => s.previous.status = "proposed"
  BY <1>2, <1>3, HypothesisLifecycle DEF ChangesStatus, Hypothesis
<1>5. Tables
  BY InvIsTyped
<1>6. /\ IsTable(hypotheses', Stamps, Hypothesis)
      /\ DOMAIN hypotheses' = DOMAIN hypotheses /\ hypotheses'[s.id] = s.next
      /\ \A h \in DOMAIN hypotheses : h # s.id => hypotheses'[h] = hypotheses[h]
  BY <1>1, <1>2, <1>5 DEF Tables, Put, IsTable
<1>7. Tables'
  BY <1>1, <1>5, <1>6 DEF Tables
<1>8. PromotionsAreWhole' /\ Ids' = Ids
  BY <1>1, <1>6 DEF RecordsInv, PromotionsAreWhole, Ids
<1>9. \A h \in DOMAIN hypotheses :
         hypotheses[h].status # "proposed" => hypotheses'[h].status # "proposed"
  BY <1>1, <1>4, <1>6
<1>10. PromotedOnce'
  BY <1>1, <1>6, <1>9 DEF RecordsInv, PromotedOnce
<1> HIDE DEF s
<1> QED
  BY <1>1, <1>6, <1>7, <1>8, <1>10, ReturnsAre, RecordsChange

LEMMA UpdateOpportunityKeepsInv ==
    ASSUME RecordsInv, NEW u \in Users, UpdateOpportunity(u)
    PROVE  RecordsInv'
<1> DEFINE s == session[u]
<1>1. /\ s.pc = "update_opportunity" /\ opportunities[s.id] = s.previous
      /\ opportunities' = Put(opportunities, s.id, s.next) /\ Returns(u)
      /\ UNCHANGED <<concerns, links, investigations, hypotheses, contradicted>>
  BY DEF UpdateOpportunity
<1>2. /\ s.id \in Stamps /\ s.next \in Opportunity /\ s.id \in DOMAIN opportunities
  BY <1>1, InvIsTyped, SessionsByCommand DEF WorksOnRows
<1>3. s.next.hypothesis = s.previous.hypothesis
  BY <1>1, InvIsTyped DEF Faithful
<1>5. Tables
  BY InvIsTyped
<1>6. /\ IsTable(opportunities', Stamps, Opportunity)
      /\ DOMAIN opportunities' = DOMAIN opportunities /\ opportunities'[s.id] = s.next
      /\ \A o \in DOMAIN opportunities : o # s.id => opportunities'[o] = opportunities[o]
  BY <1>1, <1>2, <1>5 DEF Tables, Put, IsTable
<1>7. Tables'
  BY <1>1, <1>5, <1>6 DEF Tables
<1>8. PromotionsAreWhole' /\ Ids' = Ids
  BY <1>1, <1>6 DEF RecordsInv, PromotionsAreWhole, Ids
<1>9. \A o \in DOMAIN opportunities :
         opportunities'[o].hypothesis = opportunities[o].hypothesis
  BY <1>1, <1>3, <1>6
<1>10. PromotedOnce'
  <2>1. hypotheses' = hypotheses /\ DOMAIN opportunities' = DOMAIN opportunities
    BY <1>1, <1>6
  <2>2. PromotedOnce
    BY DEF RecordsInv
  <2> QED
    BY <1>9, <2>1, <2>2 DEF PromotedOnce
<1> HIDE DEF s
<1> QED
  BY <1>1, <1>6, <1>7, <1>8, <1>10, ReturnsAre, RecordsChange

LEMMA PromoteHypothesisKeepsInv ==
    ASSUME RecordsInv, NEW u \in Users, PromoteHypothesis(u)
    PROVE  RecordsInv'
<1> DEFINE s == session[u]
           n == session[u].stamp
           row == NewOpportunity(session[u].id)
<1>1. /\ s.pc = "promote_hypothesis" /\ hypotheses[s.id].status = "proposed"
      /\ hypotheses' = Put(hypotheses, s.id, s.next)
      /\ opportunities' = Put(opportunities, n, row) /\ Returns(u)
      /\ UNCHANGED <<concerns, links, investigations, contradicted>>
  BY DEF PromoteHypothesis
<1>2. /\ s.id \in Stamps /\ s.next \in Hypothesis /\ n \in Stamps
      /\ s.id \in DOMAIN hypotheses
  BY <1>1, InvIsTyped, SessionsByCommand DEF WorksOnRows
<1>3. s.next.status = "promoted"
  BY <1>1, InvIsTyped DEF Faithful
<1>4. s.pc \in Promoting /\ n \in 0..begun /\ n \notin Ids
  BY <1>1 DEF RecordsInv, StampsAreFresh, Promoting
<1>5. Tables
  BY InvIsTyped
<1>6. row \in Opportunity /\ row.hypothesis = s.id
  <2>1. \E fields : fields \in [Fields -> Stamps]
    <3>1. [f \in Fields |-> n] \in [Fields -> Stamps]
      BY <1>2
    <3> QED
      BY <3>1
  <2> QED
    BY <1>2, <2>1, NewRows, HypothesisLifecycle, EmptyTrail
<1>7. /\ IsTable(hypotheses', Stamps, Hypothesis)
      /\ DOMAIN hypotheses' = DOMAIN hypotheses /\ hypotheses'[s.id] = s.next
      /\ \A h \in DOMAIN hypotheses : h # s.id => hypotheses'[h] = hypotheses[h]
  BY <1>1, <1>2, <1>5 DEF Tables, Put, IsTable
<1>8. /\ IsTable(opportunities', Stamps, Opportunity)
      /\ DOMAIN opportunities' = DOMAIN opportunities \cup {n}
      /\ opportunities'[n] = row
      /\ \A o \in DOMAIN opportunities : o # n => opportunities'[o] = opportunities[o]
  BY <1>1, <1>2, <1>5, <1>6 DEF Tables, Put, IsTable
<1>9. Tables'
  BY <1>1, <1>5, <1>7, <1>8 DEF Tables
<1>10. PromotionsAreWhole' /\ Ids' = Ids \cup {n}
  BY <1>1, <1>7, <1>8 DEF RecordsInv, PromotionsAreWhole, Ids
<1>11. \A o \in DOMAIN opportunities :
          o # n /\ opportunities'[o] = opportunities[o]
          /\ opportunities[o].hypothesis # s.id
  BY <1>1, <1>4, <1>8 DEF RecordsInv, PromotedOnce, Ids
<1>12. PromotedOnce'
  <2>1. \A o \in DOMAIN opportunities' :
           /\ opportunities'[o].hypothesis \in DOMAIN hypotheses'
           /\ hypotheses'[opportunities'[o].hypothesis].status # "proposed"
    BY <1>2, <1>3, <1>6, <1>7, <1>8, <1>11 DEF RecordsInv, PromotedOnce
  <2>2. \A o, p \in DOMAIN opportunities' :
           opportunities'[o].hypothesis = opportunities'[p].hypothesis => o = p
    BY <1>6, <1>8, <1>11 DEF RecordsInv, PromotedOnce
  <2> QED
    BY <2>1, <2>2 DEF PromotedOnce
<1>13. /\ Ids' \subseteq 0..begun'
       /\ \A v \in Users : session'[v].pc \in Promoting => session'[v].stamp \notin Ids'
  BY <1>1, <1>4, <1>10, ReturnsAre
<1>14. /\ DOMAIN concerns \subseteq DOMAIN concerns'
       /\ DOMAIN hypotheses \subseteq DOMAIN hypotheses'
       /\ DOMAIN opportunities \subseteq DOMAIN opportunities'
  BY <1>1, <1>7, <1>8
<1> HIDE DEF s, n, row
<1> QED
  BY <1>1, <1>9, <1>10, <1>12, <1>13, <1>14, ReturnsAre, RecordsChange

LEMMA PromoteConcernTxKeepsInv ==
    ASSUME RecordsInv, NEW u \in Users, PromoteConcernTx(u)
    PROVE  RecordsInv'
<1> DEFINE s == session[u]
           c == session[u].id
           n == session[u].stamp
           row == IF session[u].opportunity
                  THEN Adopted(session[u].fields, "promoted", <<n>>)
                  ELSE Adopted(session[u].fields, "proposed", <<>>)
           promoted == Promoted(concerns[c], n)
<1>1. /\ s.pc = "promote_concern"
      /\ investigations' = Put(investigations, n, EmptyOrigin)
      /\ hypotheses' = Put(hypotheses, n, row)
      /\ concerns' = Put(concerns, c, promoted)
      /\ links' = [links EXCEPT ![c] = @ \cup {n}]
      /\ Returns(u) /\ UNCHANGED contradicted
  BY DEF PromoteConcernTx
<1>2. opportunities' = IF s.opportunity THEN Put(opportunities, n, NewOpportunity(n))
                                        ELSE opportunities
  BY DEF PromoteConcernTx
<1>3. /\ c \in Concerns /\ n \in Stamps /\ s.fields \in [Fields -> Stamps]
      /\ s.opportunity \in BOOLEAN /\ c \in DOMAIN concerns
  BY <1>1, InvIsTyped, SessionsByCommand DEF WorksOnRows
<1>4. s.pc \in Promoting /\ n \in 0..begun /\ n \notin Ids
  BY <1>1 DEF RecordsInv, StampsAreFresh, Promoting
<1>5. /\ n \notin DOMAIN investigations /\ n \notin DOMAIN hypotheses
      /\ n \notin DOMAIN opportunities
      /\ \A o \in DOMAIN opportunities : opportunities[o].hypothesis # n
      /\ \A d \in DOMAIN concerns :
            concerns[d].status = "promoted" => concerns[d].promotion # n
  BY <1>4, FreshRecords
<1>6. Tables
  BY InvIsTyped
<1>7. promoted \in Concern /\ promoted.status = "promoted" /\ promoted.promotion = n
  BY <1>3, <1>6, RowsAreTyped, ConcernIsPromoted
<1>8. /\ row \in Hypothesis
      /\ s.opportunity => row.status = "promoted"
      /\ NewOpportunity(n) \in Opportunity /\ NewOpportunity(n).hypothesis = n
  BY <1>3, NewRows, HypothesisLifecycle, EmptyTrail
<1>9. /\ IsTable(investigations', Stamps, Threads \cup {NullOrigin, EmptyOrigin})
      /\ DOMAIN investigations' = DOMAIN investigations \cup {n}
      /\ investigations'[n] = EmptyOrigin
      /\ \A i \in DOMAIN investigations : investigations'[i] = investigations[i]
  BY <1>1, <1>3, <1>5, <1>6 DEF Tables, Put, IsTable
<1>10. /\ IsTable(hypotheses', Stamps, Hypothesis)
       /\ DOMAIN hypotheses' = DOMAIN hypotheses \cup {n}
       /\ s.opportunity => hypotheses'[n].status = "promoted"
       /\ \A h \in DOMAIN hypotheses : hypotheses'[h] = hypotheses[h]
  <2>1. PICK r \in Hypothesis :
           hypotheses' = Put(hypotheses, n, r) /\ (s.opportunity => r.status = "promoted")
    <3> HIDE DEF row
    <3> QED
      BY <1>1, <1>8
  <2>2. IsTable(hypotheses, Stamps, Hypothesis)
    BY <1>6 DEF Tables
  <2>3. /\ IsTable(hypotheses', Stamps, Hypothesis)
        /\ DOMAIN hypotheses' = DOMAIN hypotheses \cup {n} /\ hypotheses'[n] = r
        /\ \A h \in DOMAIN hypotheses : h # n => hypotheses'[h] = hypotheses[h]
    BY <1>3, <2>1, <2>2 DEF Put, IsTable
  <2> QED
    BY <1>5, <2>1, <2>3
<1>11. /\ IsTable(concerns', Concerns, Concern)
       /\ DOMAIN concerns' = DOMAIN concerns /\ concerns'[c] = promoted
       /\ \A d \in DOMAIN concerns : d # c => concerns'[d] = concerns[d]
  BY <1>1, <1>3, <1>6, <1>7 DEF Tables, Put, IsTable
<1>12. /\ IsTable(opportunities', Stamps, Opportunity)
       /\ DOMAIN opportunities \subseteq DOMAIN opportunities'
       /\ DOMAIN opportunities' \subseteq DOMAIN opportunities \cup {n}
       /\ n \in DOMAIN opportunities' =>
             s.opportunity /\ opportunities'[n].hypothesis = n
       /\ \A o \in DOMAIN opportunities : opportunities'[o] = opportunities[o]
  <2>1. IsTable(opportunities, Stamps, Opportunity)
    BY <1>6 DEF Tables
  <2>2. CASE s.opportunity
    <3>1. opportunities' = Put(opportunities, n, NewOpportunity(n))
      BY <1>2, <2>2
    <3>2. /\ IsTable(opportunities', Stamps, Opportunity)
          /\ DOMAIN opportunities' = DOMAIN opportunities \cup {n}
          /\ opportunities'[n] = NewOpportunity(n)
          /\ \A o \in DOMAIN opportunities : o # n => opportunities'[o] = opportunities[o]
      BY <1>3, <1>8, <2>1, <3>1 DEF Put, IsTable
    <3> QED
      BY <1>5, <1>8, <2>2, <3>2
  <2>3. CASE ~s.opportunity
    BY <1>2, <1>5, <2>1, <2>3
  <2> QED
    BY <2>2, <2>3
<1>13. links' \in [Concerns -> SUBSET Targets] /\ n \in links'[c]
       /\ \A d \in Concerns : links[d] \subseteq links'[d]
  BY <1>1, <1>3, <1>6 DEF Tables, Targets
<1>14. Tables'
  BY <1>1, <1>6, <1>9, <1>10, <1>11, <1>12, <1>13 DEF Tables
<1>15. PromotionsAreWhole'
  <2> SUFFICES ASSUME NEW d \in DOMAIN concerns, concerns'[d].status = "promoted"
               PROVE  /\ concerns'[d].promotion \in DOMAIN investigations'
                      /\ concerns'[d].promotion \in DOMAIN hypotheses'
                      /\ investigations'[concerns'[d].promotion] = EmptyOrigin
                      /\ concerns'[d].promotion \in links'[d]
    BY <1>11 DEF PromotionsAreWhole
  <2>1. CASE d = c
    BY <1>7, <1>9, <1>10, <1>11, <1>13, <2>1
  <2>2. CASE d # c
    <3>1. concerns'[d] = concerns[d] /\ d \in Concerns
      BY <1>6, <1>11, <2>2 DEF Tables, IsTable
    <3>2. /\ concerns[d].promotion \in DOMAIN investigations
          /\ concerns[d].promotion \in DOMAIN hypotheses
          /\ investigations[concerns[d].promotion] = EmptyOrigin
          /\ concerns[d].promotion \in links[d]
      BY <3>1 DEF RecordsInv, PromotionsAreWhole
    <3> QED
      BY <1>9, <1>10, <1>13, <3>1, <3>2
  <2> QED
    BY <2>1, <2>2
<1>16. PromotedOnce'
  <2>1. ASSUME NEW o \in DOMAIN opportunities'
        PROVE  /\ opportunities'[o].hypothesis \in DOMAIN hypotheses'
               /\ hypotheses'[opportunities'[o].hypothesis].status # "proposed"
    <3>1. CASE o = n
      BY <1>10, <1>12, <2>1, <3>1
    <3>2. CASE o \in DOMAIN opportunities
      <4>1. /\ opportunities'[o] = opportunities[o]
            /\ opportunities[o].hypothesis \in DOMAIN hypotheses
            /\ hypotheses[opportunities[o].hypothesis].status # "proposed"
        BY <1>12, <3>2 DEF RecordsInv, PromotedOnce
      <4> QED
        BY <1>10, <4>1
    <3> QED
      BY <1>12, <2>1, <3>1, <3>2
  <2>2. \A o, p \in DOMAIN opportunities' :
           opportunities'[o].hypothesis = opportunities'[p].hypothesis => o = p
    BY <1>5, <1>12 DEF RecordsInv, PromotedOnce
  <2> QED
    BY <2>1, <2>2 DEF PromotedOnce
<1>17. Ids' \subseteq Ids \cup {n}
  BY <1>9, <1>10, <1>12 DEF Ids
<1>18. /\ Ids' \subseteq 0..begun'
       /\ \A v \in Users : session'[v].pc \in Promoting => session'[v].stamp \notin Ids'
  BY <1>1, <1>4, <1>17, ReturnsAre
<1>19. /\ DOMAIN concerns \subseteq DOMAIN concerns'
       /\ DOMAIN hypotheses \subseteq DOMAIN hypotheses'
  BY <1>10, <1>11
<1> HIDE DEF s, c, n, row, promoted
<1> QED
  BY <1>1, <1>12, <1>14, <1>15, <1>16, <1>18, <1>19, ReturnsAre, RecordsChange
-----------------------------------------------------------------------------
(***************************************************************************)
(* The specification                                                       *)
(***************************************************************************)
LEMMA InitRecordsInv == WorkflowInit => RecordsInv
<1> SUFFICES ASSUME WorkflowInit
             PROVE  RecordsInv
  OBVIOUS
<1>1. 0 \in Stamps /\ MaxCommands \in Nat /\ <<>> \in Trail
  BY WorkflowAssumption, EmptyTrail DEF Stamps
<1>2. [f \in Fields |-> 0] \in [Fields -> Stamps]
  BY <1>1
<1>3. /\ NewConcern(0) \in Concern
      /\ NewOpportunity(0) \in Opportunity /\ NewOpportunity(0).hypothesis = 0
      /\ NewHypothesis("proposed", 0, <<>>) \in Hypothesis
      /\ NewHypothesis("promoted", 0, <<>>) \in Hypothesis
      /\ NewHypothesis("promoted", 0, <<>>).status = "promoted"
  <2>1. "proposed" \in DOMAIN HypothesisTransitions
    BY HypothesisLifecycle
  <2>2. "promoted" \in DOMAIN HypothesisTransitions
    BY HypothesisLifecycle
  <2>3. /\ NewConcern(0) \in Concern
        /\ NewOpportunity(0) \in Opportunity /\ NewOpportunity(0).hypothesis = 0
    BY <1>1, <1>2, <2>1, NewRows
  <2>4. NewHypothesis("proposed", 0, <<>>) \in Hypothesis
    BY <1>1, <1>2, <2>1, NewRows
  <2>5. /\ NewHypothesis("promoted", 0, <<>>) \in Hypothesis
        /\ NewHypothesis("promoted", 0, <<>>).status = "promoted"
    BY <1>1, <1>2, <2>2 DEF NewHypothesis, Adopted, Hypothesis
  <2> QED
    BY <2>3, <2>4, <2>5
<1>4. IsTable(concerns, Concerns, Concern)
      /\ \A c \in DOMAIN concerns : concerns[c].status # "promoted"
  <2>1. PICK recorded \in SUBSET Concerns, status \in Promotable :
           concerns = [c \in recorded |-> [NewConcern(0) EXCEPT !.status = status]]
    BY DEF WorkflowInit
  <2>2. /\ [NewConcern(0) EXCEPT !.status = status] \in Concern
        /\ [NewConcern(0) EXCEPT !.status = status].status # "promoted"
    BY <1>3 DEF Concern, Promotable, ConcernTransitions
  <2> QED
    BY <2>1, <2>2 DEF IsTable
<1>5. /\ DOMAIN investigations = {0}
      /\ IsTable(investigations, Stamps, Threads \cup {NullOrigin, EmptyOrigin})
  BY <1>1 DEF WorkflowInit, IsTable
<1>6. /\ IsTable(hypotheses, Stamps, Hypothesis)
      /\ IsTable(opportunities, Stamps, Opportunity)
      /\ DOMAIN hypotheses = {0} /\ DOMAIN opportunities \subseteq {0}
      /\ \A o \in DOMAIN opportunities :
            opportunities[o].hypothesis = 0 /\ hypotheses[0].status = "promoted"
  <2>1. CASE /\ hypotheses = [h \in {0} |-> NewHypothesis("proposed", 0, <<>>)]
             /\ opportunities = [o \in {} |-> NewOpportunity(0)]
    BY <1>1, <1>3, <2>1 DEF IsTable
  <2>2. CASE /\ hypotheses = [h \in {0} |-> NewHypothesis("promoted", 0, <<>>)]
             /\ \E status \in DOMAIN OpportunityTransitions :
                   opportunities = [o \in {0} |-> [NewOpportunity(0) EXCEPT !.status = status]]
    <3>1. PICK status \in DOMAIN OpportunityTransitions :
             opportunities = [o \in {0} |-> [NewOpportunity(0) EXCEPT !.status = status]]
      BY <2>2
    <3>2. /\ [NewOpportunity(0) EXCEPT !.status = status] \in Opportunity
          /\ [NewOpportunity(0) EXCEPT !.status = status].hypothesis = 0
      BY <1>3 DEF Opportunity
    <3>3. IsTable(hypotheses, Stamps, Hypothesis) /\ hypotheses[0].status = "promoted"
          /\ DOMAIN hypotheses = {0}
      BY <1>1, <1>3, <2>2 DEF IsTable
    <3>4. /\ IsTable(opportunities, Stamps, Opportunity)
          /\ DOMAIN opportunities = {0} /\ opportunities[0].hypothesis = 0
      BY <1>1, <3>1, <3>2 DEF IsTable
    <3> QED
      BY <3>3, <3>4
  <2> QED
    BY <2>1, <2>2 DEF WorkflowInit
<1>7. \A u \in Users : session[u] = NoSession
  BY DEF WorkflowInit
<1>8. WorkflowTypeOK
  <2>1. links \in [Concerns -> SUBSET Targets] /\ contradicted \subseteq DOMAIN opportunities
    BY DEF WorkflowInit
  <2>2. session \in [Users -> Session] /\ begun \in 0..MaxCommands
    BY <1>1, IdleCommands DEF WorkflowInit
  <2>3. \A u \in Users : WorksOnRows(session[u])
    BY <1>7 DEF WorksOnRows, NoSession
  <2> QED
    BY <1>4, <1>5, <1>6, <2>1, <2>2, <2>3 DEF WorkflowTypeOK
<1>9. \A u \in Users : Faithful(session[u]) /\ session[u].pc \notin Promoting
  BY <1>7, IdleCommands
<1>10. StampsAreFresh
  <2>1. begun = 0
    BY DEF WorkflowInit
  <2> QED
    BY <1>5, <1>6, <1>9, <2>1 DEF StampsAreFresh, Ids
<1>11. PromotionsAreWhole /\ PromotedOnce
  BY <1>4, <1>6 DEF PromotionsAreWhole, PromotedOnce
<1> QED
  BY <1>8, <1>9, <1>10, <1>11 DEF RecordsInv

LEMMA UserKeepsInv ==
    ASSUME RecordsInv, NEW u \in Users, NEW n, UserNext(u, n)
    PROVE  RecordsInv'
<1>1. CASE \E c \in Concerns : CreateConcern(u, n, c)
  BY <1>1, SmallWritesKeepInv
<1>2. CASE \E c \in Concerns : SetConcernStatus(u, n, c)
  BY <1>2, SetConcernStatusKeepsInv
<1>3. CASE \E c \in Concerns : PromoteConcern(u, n, c)
  BY <1>3, PromoteConcernKeepsInv
<1>4. CASE \E c \in Concerns, i \in Targets : LinkConcern(u, n, c, i)
  BY <1>4, SmallWritesKeepInv
<1>5. CASE \E c \in Concerns, f \in Fields : UpdateConcernFields(u, n, c, f)
  BY <1>5, UpdateConcernFieldsKeepsInv
<1>6. CASE StartInvestigation(u, n) \/ CreateHypothesis(u, n)
  BY <1>6, StartsKeepInv
<1>7. CASE \E t \in Threads : StartThreadInvestigation(u, n, t)
  BY <1>7, StartsKeepInv
<1>8. CASE \E h \in Stamps : TransitionHypothesis(u, n, h)
  BY <1>8, TransitionHypothesisKeepsInv
<1>9. CASE \E h \in Stamps : PromoteOpportunity(u, n, h)
  BY <1>9, PromoteOpportunityKeepsInv
<1>10. CASE \E h \in Stamps, f \in Fields : UpdateHypothesisFields(u, n, h, f)
  BY <1>10, UpdateHypothesisFieldsKeepsInv
<1>11. CASE \E o \in Stamps : RecordEvidence(u, n, o)
  BY <1>11, SmallWritesKeepInv
<1>12. CASE \E o \in Stamps : SetOpportunityStatus(u, n, o)
  BY <1>12, SetOpportunityStatusKeepsInv
<1>13. CASE \E o \in Stamps : UpdateCollisionStatus(u, n, o)
  BY <1>13, UpdateCollisionStatusKeepsInv
<1>14. CASE EditConcern(u)
  BY <1>14, EditConcernKeepsInv
<1>15. CASE EditHypothesis(u)
  BY <1>15, EditHypothesisKeepsInv
<1>16. CASE ListEvidence(u)
  BY <1>16, ListEvidenceKeepsInv
<1>17. CASE UpdateConcern(u)
  BY <1>17, UpdateConcernKeepsInv
<1>18. CASE UpdateHypothesis(u)
  BY <1>18, UpdateHypothesisKeepsInv
<1>19. CASE UpdateOpportunity(u)
  BY <1>19, UpdateOpportunityKeepsInv
<1>20. CASE UpdateRefused(u) \/ PromotionRefused(u) \/ ReportCollision(u)
  BY <1>20, EndsKeepInv
<1>21. CASE PromoteHypothesis(u)
  BY <1>21, PromoteHypothesisKeepsInv
<1>22. CASE PromoteConcernTx(u)
  BY <1>22, PromoteConcernTxKeepsInv
<1>23. CASE PromotionCollides(u)
  BY <1>23, PromotionCollidesKeepsInv
<1> QED
  BY <1>1, <1>2, <1>3, <1>4, <1>5, <1>6, <1>7, <1>8, <1>9, <1>10, <1>11, <1>12,
     <1>13, <1>14, <1>15, <1>16, <1>17, <1>18, <1>19, <1>20, <1>21, <1>22, <1>23
     DEF UserNext

LEMMA NextKeepsInv == RecordsInv /\ [WorkflowNext]_workflowVars => RecordsInv'
<1> SUFFICES ASSUME RecordsInv, [WorkflowNext]_workflowVars
             PROVE  RecordsInv'
  OBVIOUS
<1>1. CASE WorkflowNext
  BY <1>1, UserKeepsInv DEF WorkflowNext
<1>2. CASE UNCHANGED workflowVars
  BY <1>2 DEF workflowVars, recordVars, RecordsInv, WorkflowTypeOK, IsTable, WorksOnRows,
     Faithful, Follows, StampsAreFresh, Ids, PromotionsAreWhole, PromotedOnce
<1> QED
  BY <1>1, <1>2

LEMMA RecordsInvAlways == WorkflowSpec => []RecordsInv
<1>1. WorkflowInit => RecordsInv
  BY InitRecordsInv
<1>2. RecordsInv /\ [WorkflowNext]_workflowVars => RecordsInv'
  BY NextKeepsInv
<1> QED
  BY <1>1, <1>2, PTL DEF WorkflowSpec

\* Rows, commands and counters have their types, for any number of users,
\* concerns, threads and commands.
THEOREM WorkflowTypeCorrect == WorkflowSpec => []WorkflowTypeOK
<1>1. RecordsInv => WorkflowTypeOK
  BY DEF RecordsInv
<1> QED
  BY <1>1, RecordsInvAlways, PTL

\* A promoted concern names the records its promotion created and links to
\* them, whatever edits of the concern the promotion overtakes (promoteConcernTx,
\* UpdateConcern of the corpus).
THEOREM PromotionsAlwaysWhole == WorkflowSpec => []PromotionsAreWhole
<1>1. RecordsInv => PromotionsAreWhole
  BY DEF RecordsInv
<1> QED
  BY <1>1, RecordsInvAlways, PTL

\* However many commands promote a hypothesis at once, it becomes one
\* opportunity and is not proposed any more (promoteHypothesis).
THEOREM PromotedAtMostOnce == WorkflowSpec => []PromotedOnce
<1>1. RecordsInv => PromotedOnce
  BY DEF RecordsInv
<1> QED
  BY <1>1, RecordsInvAlways, PTL
-----------------------------------------------------------------------------
(***************************************************************************)
(* What one step does to the rows there are                                *)
(***************************************************************************)
ConcernsFollow ==
    \A c \in DOMAIN concerns :
       /\ \/ ChangesStatus(concerns[c], concerns'[c], ConcernTransitions)
          \/ concerns[c].status \in Promotable /\ concerns'[c].status = "promoted"
       /\ KeepsTrail(concerns[c], concerns'[c])

HypothesesFollow ==
    \A h \in DOMAIN hypotheses :
       ChangesStatus(hypotheses[h], hypotheses'[h], HypothesisTransitions)

OpportunitiesFollow ==
    \A o \in DOMAIN opportunities :
       Follows(opportunities[o], opportunities'[o], OpportunityTransitions)

AdvancesFollow ==
    \A o \in DOMAIN opportunities :
       /\ opportunities'[o].status # opportunities[o].status
       /\ opportunities'[o].status \in Advancing
       => o \notin contradicted

LEMMA PutKeeps ==
    ASSUME NEW table, NEW id, NEW row
    PROVE  /\ \A i \in DOMAIN table : i # id => Put(table, id, row)[i] = table[i]
           /\ id \in DOMAIN table => Put(table, id, row)[id] = row
  BY DEF Put

\* Which steps replace rows: the others insert a row with a new number, or
\* write none.
LEMMA RowsAreReplaced ==
    ASSUME RecordsInv, NEW u \in Users, NEW n, UserNext(u, n)
    PROVE  /\ \/ UpdateConcern(u) \/ PromoteConcernTx(u)
              \/ \A c \in DOMAIN concerns : concerns'[c] = concerns[c]
           /\ \/ UpdateHypothesis(u) \/ PromoteHypothesis(u)
              \/ \A h \in DOMAIN hypotheses : hypotheses'[h] = hypotheses[h]
           /\ \/ UpdateOpportunity(u)
              \/ \A o \in DOMAIN opportunities : opportunities'[o] = opportunities[o]
<1>1. CASE \E c \in Concerns : CreateConcern(u, n, c)
  BY <1>1, PutKeeps DEF CreateConcern
<1>2. CASE \/ StartInvestigation(u, n) \/ CreateHypothesis(u, n)
           \/ \E t \in Threads : StartThreadInvestigation(u, n, t)
  <2>1. Begins(u, n) /\ UNCHANGED <<concerns, opportunities>>
    BY <1>2 DEF StartInvestigation, StartThreadInvestigation, CreateHypothesis
  <2>2. n \notin DOMAIN hypotheses
    BY <2>1, NumbersAreNew, FreshRecords
  <2>3. \/ hypotheses' = hypotheses
        \/ \E row : hypotheses' = Put(hypotheses, n, row)
    BY <1>2 DEF StartInvestigation, StartThreadInvestigation, CreateHypothesis
  <2> QED
    BY <2>1, <2>2, <2>3, PutKeeps
<1>3. CASE \/ \E c \in Concerns, i \in Targets : LinkConcern(u, n, c, i)
           \/ \E o \in Stamps : RecordEvidence(u, n, o)
  BY <1>3 DEF LinkConcern, RecordEvidence
<1>4. CASE \E c \in Concerns : SetConcernStatus(u, n, c) \/ PromoteConcern(u, n, c)
  BY <1>4 DEF SetConcernStatus, PromoteConcern, Reads, recordVars
<1>5. CASE \E c \in Concerns, f \in Fields : UpdateConcernFields(u, n, c, f)
  BY <1>5 DEF UpdateConcernFields, Reads, recordVars
<1>6. CASE \E h \in Stamps : TransitionHypothesis(u, n, h) \/ PromoteOpportunity(u, n, h)
  BY <1>6 DEF TransitionHypothesis, PromoteOpportunity, Reads, recordVars
<1>7. CASE \E h \in Stamps, f \in Fields : UpdateHypothesisFields(u, n, h, f)
  BY <1>7 DEF UpdateHypothesisFields, Reads, recordVars
<1>8. CASE \E o \in Stamps : SetOpportunityStatus(u, n, o) \/ UpdateCollisionStatus(u, n, o)
  BY <1>8 DEF SetOpportunityStatus, UpdateCollisionStatus, Reads, recordVars
<1>9. CASE EditConcern(u) \/ EditHypothesis(u) \/ ListEvidence(u) \/ PromotionCollides(u)
  BY <1>9 DEF EditConcern, EditHypothesis, ListEvidence, PromotionCollides, Continues,
     recordVars
<1>10. CASE UpdateRefused(u) \/ PromotionRefused(u) \/ ReportCollision(u)
  BY <1>10 DEF UpdateRefused, PromotionRefused, ReportCollision, recordVars
<1>11. CASE UpdateConcern(u)
  BY <1>11 DEF UpdateConcern
<1>12. CASE UpdateHypothesis(u)
  BY <1>12 DEF UpdateHypothesis
<1>13. CASE UpdateOpportunity(u)
  BY <1>13 DEF UpdateOpportunity
<1>14. CASE PromoteHypothesis(u)
  <2>1. session[u].pc = "promote_hypothesis" /\ UNCHANGED concerns
        /\ opportunities' = Put(opportunities, session[u].stamp,
                                NewOpportunity(session[u].id))
    BY <1>14 DEF PromoteHypothesis
  <2>2. session[u].stamp \notin DOMAIN opportunities
    BY <2>1 DEF RecordsInv, StampsAreFresh, Promoting, Ids
  <2> QED
    BY <1>14, <2>1, <2>2, PutKeeps
<1>15. CASE PromoteConcernTx(u)
  <2>1. /\ session[u].pc = "promote_concern"
        /\ \E row : hypotheses' = Put(hypotheses, session[u].stamp, row)
        /\ \/ opportunities' = opportunities
           \/ \E row : opportunities' = Put(opportunities, session[u].stamp, row)
    BY <1>15 DEF PromoteConcernTx
  <2>2. /\ session[u].stamp \notin DOMAIN hypotheses
        /\ session[u].stamp \notin DOMAIN opportunities
    BY <2>1 DEF RecordsInv, StampsAreFresh, Promoting, Ids
  <2> QED
    BY <1>15, <2>1, <2>2, PutKeeps
<1> QED
  BY <1>1, <1>2, <1>3, <1>4, <1>5, <1>6, <1>7, <1>8, <1>9, <1>10, <1>11, <1>12,
     <1>13, <1>14, <1>15 DEF UserNext

LEMMA KeptRowsFollow ==
    ASSUME RecordsInv
    PROVE  /\ (\A c \in DOMAIN concerns : concerns'[c] = concerns[c]) => ConcernsFollow
           /\ (\A h \in DOMAIN hypotheses : hypotheses'[h] = hypotheses[h])
              => HypothesesFollow
           /\ (\A o \in DOMAIN opportunities : opportunities'[o] = opportunities[o])
              => OpportunitiesFollow /\ AdvancesFollow
<1>1. 0 \in Stamps /\ <<>> \in Trail
  BY WorkflowAssumption, EmptyTrail DEF Stamps
<1>2. \A trail \in Trail : IsPrefix(trail, trail)
  BY <1>1, TrailsGrow
<1>3. /\ \A c \in DOMAIN concerns : concerns[c].audit \in Trail
      /\ \A o \in DOMAIN opportunities : opportunities[o].audit \in Trail
  BY InvIsTyped, RowsAreTyped DEF Concern, Opportunity
<1> QED
  BY <1>2, <1>3 DEF ConcernsFollow, HypothesesFollow, OpportunitiesFollow, AdvancesFollow,
     Follows, ChangesStatus, KeepsTrail

LEMMA ConcernSteps ==
    ASSUME RecordsInv, NEW u \in Users, NEW n, UserNext(u, n)
    PROVE  ConcernsFollow
<1> DEFINE s == session[u]
<1>1. CASE UpdateConcern(u)
  <2>1. s.pc = "update_concern" /\ concerns[s.id] = s.previous
        /\ concerns' = Put(concerns, s.id, s.next)
    BY <1>1 DEF UpdateConcern
  <2>2. Follows(s.previous, s.next, ConcernTransitions) /\ s.id \in DOMAIN concerns
    BY <2>1, InvIsTyped DEF Faithful, WorksOnRows
  <2>3. concerns'[s.id] = s.next
        /\ \A c \in DOMAIN concerns : c # s.id => concerns'[c] = concerns[c]
    BY <2>1, <2>2, PutKeeps
  <2>4. Follows(concerns[s.id], concerns'[s.id], ConcernTransitions)
    BY <2>1, <2>2, <2>3
  <2>5. \A c \in DOMAIN concerns : IsPrefix(concerns[c].audit, concerns[c].audit)
    BY InvIsTyped, RowsAreTyped, TrailsGrow, EmptyTrail, WorkflowAssumption
       DEF Concern, Stamps
  <2> QED
    BY <2>3, <2>4, <2>5 DEF ConcernsFollow, Follows, ChangesStatus, KeepsTrail
<1>2. CASE PromoteConcernTx(u)
  <2>1. /\ s.pc = "promote_concern" /\ concerns[s.id].status \in Promotable
        /\ concerns' = Put(concerns, s.id, Promoted(concerns[s.id], s.stamp))
    BY <1>2 DEF PromoteConcernTx
  <2>2. s.id \in DOMAIN concerns /\ s.stamp \in Stamps
    BY <2>1, InvIsTyped, SessionsByCommand DEF WorksOnRows
  <2>3. concerns'[s.id] = Promoted(concerns[s.id], s.stamp)
        /\ \A c \in DOMAIN concerns : c # s.id => concerns'[c] = concerns[c]
    BY <2>1, <2>2, PutKeeps
  <2>4. /\ concerns'[s.id].status = "promoted"
        /\ concerns'[s.id].audit = Append(concerns[s.id].audit, s.stamp)
    BY <2>2, <2>3, InvIsTyped, RowsAreTyped, ConcernIsPromoted
  <2>5. \A c \in DOMAIN concerns : concerns[c].audit \in Trail
    BY InvIsTyped, RowsAreTyped DEF Concern
  <2>6. \A c \in DOMAIN concerns : IsPrefix(concerns[c].audit, concerns[c].audit)
    BY <2>2, <2>5, TrailsGrow, EmptyTrail
  <2>7. KeepsTrail(concerns[s.id], concerns'[s.id])
    <3>1. concerns[s.id].audit \in Trail
      BY <2>2, <2>5
    <3> HIDE DEF s
    <3>2. /\ IsPrefix(concerns[s.id].audit, Append(concerns[s.id].audit, s.stamp))
          /\ concerns[s.id].audit # Append(concerns[s.id].audit, s.stamp)
      BY <2>2, <3>1, TrailsGrow, EmptyTrail
    <3> QED
      BY <2>4, <3>2 DEF KeepsTrail
  <2> QED
    BY <2>1, <2>3, <2>4, <2>6, <2>7 DEF ConcernsFollow, ChangesStatus, KeepsTrail
<1> QED
  BY <1>1, <1>2, RowsAreReplaced, KeptRowsFollow

LEMMA HypothesisSteps ==
    ASSUME RecordsInv, NEW u \in Users, NEW n, UserNext(u, n)
    PROVE  HypothesesFollow
<1> DEFINE s == session[u]
<1>1. CASE UpdateHypothesis(u) \/ PromoteHypothesis(u)
  <2>1. hypotheses' = Put(hypotheses, s.id, s.next)
        /\ \/ s.pc = "update_hypothesis" /\ hypotheses[s.id] = s.previous
           \/ s.pc = "promote_hypothesis" /\ hypotheses[s.id].status = "proposed"
    BY <1>1 DEF UpdateHypothesis, PromoteHypothesis
  <2>2. s.id \in DOMAIN hypotheses
    BY <2>1, InvIsTyped DEF WorksOnRows
  <2>3. ChangesStatus(hypotheses[s.id], s.next, HypothesisTransitions)
    BY <2>1, InvIsTyped, HypothesisLifecycle DEF Faithful, ChangesStatus
  <2>4. hypotheses'[s.id] = s.next
        /\ \A h \in DOMAIN hypotheses : h # s.id => hypotheses'[h] = hypotheses[h]
    BY <2>1, <2>2, PutKeeps
  <2> QED
    BY <2>3, <2>4 DEF HypothesesFollow, ChangesStatus
<1> QED
  BY <1>1, RowsAreReplaced, KeptRowsFollow

\* An update that advances carries blocks, which its write looks at again.
LEMMA OpportunitySteps ==
    ASSUME RecordsInv, NEW u \in Users, NEW n, UserNext(u, n)
    PROVE  OpportunitiesFollow /\ AdvancesFollow
<1> DEFINE s == session[u]
<1>1. CASE UpdateOpportunity(u)
  <2>1. /\ s.pc = "update_opportunity" /\ opportunities[s.id] = s.previous
        /\ s.blocks => s.id \notin contradicted
        /\ opportunities' = Put(opportunities, s.id, s.next)
    BY <1>1 DEF UpdateOpportunity
  <2>2. /\ Follows(s.previous, s.next, OpportunityTransitions)
        /\ s.next.status # s.previous.status /\ s.next.status \in Advancing => s.blocks
        /\ s.id \in DOMAIN opportunities
    BY <2>1, InvIsTyped DEF Faithful, WorksOnRows
  <2>3. opportunities'[s.id] = s.next
        /\ \A o \in DOMAIN opportunities : o # s.id => opportunities'[o] = opportunities[o]
    BY <2>1, <2>2, PutKeeps
  <2>4. Follows(opportunities[s.id], opportunities'[s.id], OpportunityTransitions)
    BY <2>1, <2>2, <2>3
  <2>5. \A o \in DOMAIN opportunities :
           IsPrefix(opportunities[o].audit, opportunities[o].audit)
    BY InvIsTyped, RowsAreTyped, TrailsGrow, EmptyTrail, WorkflowAssumption
       DEF Opportunity, Stamps
  <2>6. OpportunitiesFollow
    BY <2>3, <2>4, <2>5 DEF OpportunitiesFollow, Follows, ChangesStatus, KeepsTrail
  <2>7. AdvancesFollow
    BY <2>1, <2>2, <2>3 DEF AdvancesFollow
  <2> QED
    BY <2>6, <2>7
<1> QED
  BY <1>1, RowsAreReplaced, KeptRowsFollow

LEMMA StepsFollow ==
    RecordsInv /\ [WorkflowNext]_workflowVars
    => ConcernsFollow /\ HypothesesFollow /\ OpportunitiesFollow /\ AdvancesFollow
<1> SUFFICES ASSUME RecordsInv, [WorkflowNext]_workflowVars
             PROVE  ConcernsFollow /\ HypothesesFollow /\ OpportunitiesFollow
                    /\ AdvancesFollow
  OBVIOUS
<1>1. CASE WorkflowNext
  BY <1>1, ConcernSteps, HypothesisSteps, OpportunitySteps DEF WorkflowNext
<1>2. CASE UNCHANGED workflowVars
  BY <1>2, KeptRowsFollow DEF workflowVars, recordVars
<1> QED
  BY <1>1, <1>2

\* No opportunity advances while evidence contradicts it, also when the evidence
\* is recorded between the check and the write (UpdateOpportunity of the corpus).
THEOREM AdvancesAlwaysUncontradicted == WorkflowSpec => AdvancesAreUncontradicted
<1>1. RecordsInv /\ [WorkflowNext]_workflowVars
      => [\A o \in DOMAIN opportunities :
             /\ opportunities'[o].status # opportunities[o].status
             /\ opportunities'[o].status \in Advancing
             => o \notin contradicted]_workflowVars
  BY StepsFollow DEF AdvancesFollow
<1> QED
  BY <1>1, RecordsInvAlways, PTL DEF WorkflowSpec, AdvancesAreUncontradicted
-----------------------------------------------------------------------------
(***************************************************************************)
(* The refinement.  What a command is about to write is one step on the    *)
(* row it read, and the row is written where it is still that one.  Only a *)
(* promotion may write a step on the row as it was some notes ago; its     *)
(* status is the same since then.                                          *)
(***************************************************************************)
Moves(old, new, transitions) ==
    \E to \in transitions[old.status], n \in Stamps :
       new.status = to /\ new.audit = Append(old.audit, n)

Keeps(old, new) == new.status = old.status /\ new.audit = old.audit

Notes(old, new) ==
    new.status = old.status /\ \E n \in Stamps : new.audit = Append(old.audit, n)

IsOneStep(s) ==
    /\ s.pc = "update_concern" =>
          Moves(s.previous, s.next, ConcernTransitions) \/ Keeps(s.previous, s.next)
    /\ s.pc = "edit_hypothesis" => s.entry = <<>> \/ \E n \in Stamps : s.entry = <<n>>
    /\ s.pc = "update_hypothesis" =>
          \/ Moves(s.previous, s.next, HypothesisTransitions)
          \/ Keeps(s.previous, s.next) \/ Notes(s.previous, s.next)
    /\ s.pc \in {"list_evidence", "update_opportunity"} =>
          Moves(s.previous, s.next, OpportunityTransitions) \/ Notes(s.previous, s.next)

TakesBackNotes(s) ==
    s.pc = "promote_hypothesis" /\ hypotheses[s.id].status = "proposed" =>
       \E k \in 0..Len(hypotheses[s.id].audit) :
          s.next.audit = Append(SubSeq(hypotheses[s.id].audit, 1, k), s.stamp)

CommandsAreSteps ==
    \A u \in Users : IsOneStep(session[u]) /\ TakesBackNotes(session[u])

\* The steps that set a session: the first reads of a command, and the later ones.
SetsSession(u, n) ==
    \/ \E c \in Concerns :
          \/ SetConcernStatus(u, n, c) \/ PromoteConcern(u, n, c)
          \/ \E f \in Fields : UpdateConcernFields(u, n, c, f)
    \/ \E h \in Stamps :
          \/ TransitionHypothesis(u, n, h) \/ PromoteOpportunity(u, n, h)
          \/ \E f \in Fields : UpdateHypothesisFields(u, n, h, f)
    \/ \E o \in Stamps : SetOpportunityStatus(u, n, o) \/ UpdateCollisionStatus(u, n, o)
    \/ EditConcern(u) \/ EditHypothesis(u) \/ ListEvidence(u) \/ PromotionCollides(u)

LEMMA SessionIsSet ==
    ASSUME RecordsInv, NEW u \in Users, NEW s, session' = [session EXCEPT ![u] = s]
    PROVE  session'[u] = s /\ \A v \in Users : v # u => session'[v] = session[v]
  BY DEF RecordsInv, WorkflowTypeOK

LEMMA SessionAfterRead ==
    ASSUME RecordsInv, NEW u \in Users, NEW n, NEW s, Reads(u, n, s) \/ Continues(u, s)
    PROVE  session'[u] = s
  BY SessionIsSet DEF Reads, Continues

LEMMA SessionsStay ==
    ASSUME RecordsInv, NEW u \in Users, NEW n, UserNext(u, n), NEW v \in Users
    PROVE  \/ session'[v] \in {session[v], NoSession}
           \/ v = u /\ SetsSession(u, n)
<1>1. CASE SetsSession(u, n)
  <2>1. \E s : session' = [session EXCEPT ![u] = s]
    BY <1>1 DEF SetsSession, SetConcernStatus, PromoteConcern, UpdateConcernFields,
       TransitionHypothesis, PromoteOpportunity, UpdateHypothesisFields,
       SetOpportunityStatus, UpdateCollisionStatus, EditConcern, EditHypothesis,
       ListEvidence, PromotionCollides, Reads, Continues
  <2> QED
    BY <1>1, <2>1, SessionIsSet
<1>2. CASE session' = session
  BY <1>2
<1>3. CASE Returns(u)
  BY <1>3, SessionIsSet DEF Returns
<1>4. SetsSession(u, n) \/ session' = session \/ Returns(u)
  BY DEF UserNext, SetsSession, CreateConcern, LinkConcern, StartInvestigation,
     StartThreadInvestigation, CreateHypothesis, RecordEvidence, UpdateConcern,
     UpdateHypothesis, UpdateOpportunity, UpdateRefused, PromoteHypothesis,
     PromoteConcernTx, PromotionRefused, ReportCollision
<1> QED
  BY <1>1, <1>2, <1>3, <1>4

LEMMA PrefixesStay ==
    ASSUME NEW trail \in Trail, NEW n \in Stamps, NEW k \in 0..Len(trail)
    PROVE  /\ k \in 0..Len(Append(trail, n))
           /\ SubSeq(Append(trail, n), 1, k) = SubSeq(trail, 1, k)
<1>1. trail \in Seq(Stamps) /\ Len(trail) \in Nat /\ k \in Nat /\ k <= Len(trail)
  BY DEF Trail
<1>2. Len(Append(trail, n)) = Len(trail) + 1
  BY <1>1
<1>3. SubSeq(Append(trail, n), 1, k) = SubSeq(trail, 1, k)
  BY <1>1, <1>2
<1> QED
  BY <1>1, <1>2, <1>3

\* What a command that only reads has come to is one step on what it read.
LEMMA ReadsAreSteps ==
    ASSUME RecordsInv, CommandsAreSteps, NEW u \in Users, NEW n, SetsSession(u, n)
    PROVE  IsOneStep(session'[u]) /\ TakesBackNotes(session[u])'
<1>1. CASE \E c \in Concerns : SetConcernStatus(u, n, c)
  <2>1. PICK c \in Concerns : SetConcernStatus(u, n, c)
    BY <1>1
  <2> DEFINE row == concerns[c]
  <2>2. PICK to \in ConcernTransitions[row.status] :
           Reads(u, n, [pc |-> "update_concern", id |-> c, previous |-> row,
                        next |-> Moved(row, to, n)])
    BY <2>1 DEF SetConcernStatus
  <2>3. n \in Stamps /\ row \in Concern /\ row.status \in DOMAIN ConcernTransitions
    BY <2>1, <2>2, NumbersAreNew, InvIsTyped, RowsAreTyped
       DEF Reads, SetConcernStatus, Concern
  <2>4. Moved(row, to, n).status = to /\ Moved(row, to, n).audit = Append(row.audit, n)
    BY <2>3, ConcernLifecycle, ConcernMoves
  <2>5. Moves(row, Moved(row, to, n), ConcernTransitions)
    BY <2>3, <2>4 DEF Moves
  <2>6. session'[u] = [pc |-> "update_concern", id |-> c, previous |-> row,
                       next |-> Moved(row, to, n)]
    BY <2>2, SessionAfterRead
  <2> HIDE DEF row
  <2> QED
    BY <2>5, <2>6 DEF IsOneStep, TakesBackNotes
<1>2. CASE \E c \in Concerns, f \in Fields : UpdateConcernFields(u, n, c, f)
  <2>1. PICK c \in Concerns, f \in Fields :
           Reads(u, n, [pc |-> "edit_concern", id |-> c,
                        fields |-> [concerns[c].fields EXCEPT ![f] = n]])
    BY <1>2 DEF UpdateConcernFields
  <2> DEFINE fields == [concerns[c].fields EXCEPT ![f] = n]
  <2> HIDE DEF fields
  <2>2. Reads(u, n, [pc |-> "edit_concern", id |-> c, fields |-> fields])
    BY <2>1 DEF fields
  <2>3. session'[u].pc = "edit_concern"
    BY <2>2, SessionAfterRead
  <2> QED
    BY <2>3 DEF IsOneStep, TakesBackNotes
<1>3. CASE \E c \in Concerns : PromoteConcern(u, n, c)
  <2>1. PICK c \in Concerns, opportunity \in BOOLEAN :
           Reads(u, n, [pc |-> "promote_concern", id |-> c, fields |-> concerns[c].fields,
                        opportunity |-> opportunity, stamp |-> n])
    BY <1>3 DEF PromoteConcern
  <2>2. session'[u].pc = "promote_concern"
    BY <2>1, SessionAfterRead
  <2> QED
    BY <2>2 DEF IsOneStep, TakesBackNotes
<1>4. CASE \E h \in Stamps : TransitionHypothesis(u, n, h)
  <2>1. PICK h \in Stamps : TransitionHypothesis(u, n, h)
    BY <1>4
  <2> DEFINE row == hypotheses[h]
  <2>2. PICK to \in HypothesisTransitions[row.status] :
           Reads(u, n, [pc |-> "update_hypothesis", id |-> h, previous |-> row,
                        next |-> Moved(row, to, n)])
    BY <2>1 DEF TransitionHypothesis
  <2>3. n \in Stamps /\ row \in Hypothesis
    BY <2>1, <2>2, NumbersAreNew, InvIsTyped, RowsAreTyped
       DEF Reads, TransitionHypothesis
  <2>4. Moved(row, to, n).status = to /\ Moved(row, to, n).audit = Append(row.audit, n)
    BY <2>3 DEF Moved, Hypothesis
  <2>5. Moves(row, Moved(row, to, n), HypothesisTransitions)
    BY <2>3, <2>4 DEF Moves
  <2>6. session'[u] = [pc |-> "update_hypothesis", id |-> h, previous |-> row,
                       next |-> Moved(row, to, n)]
    BY <2>2, SessionAfterRead
  <2> HIDE DEF row
  <2> QED
    BY <2>5, <2>6 DEF IsOneStep, TakesBackNotes
<1>5. CASE \E h \in Stamps : PromoteOpportunity(u, n, h)
  <2>1. PICK h \in Stamps : PromoteOpportunity(u, n, h)
    BY <1>5
  <2> DEFINE row == hypotheses[h]
  <2>2. Reads(u, n, [pc |-> "promote_hypothesis", id |-> h,
                     next |-> Moved(row, "promoted", n), stamp |-> n])
    BY <2>1 DEF PromoteOpportunity
  <2>3. n \in Stamps /\ row \in Hypothesis /\ hypotheses' = hypotheses
    BY <2>1, <2>2, NumbersAreNew, InvIsTyped, RowsAreTyped
       DEF Reads, PromoteOpportunity, recordVars
  <2>4. Moved(row, "promoted", n).audit = Append(row.audit, n) /\ row.audit \in Trail
    BY <2>3 DEF Moved, Hypothesis
  <2>5. /\ Len(row.audit) \in 0..Len(row.audit)
        /\ row.audit = SubSeq(row.audit, 1, Len(row.audit))
    BY <2>4 DEF Trail
  <2>6. session'[u] = [pc |-> "promote_hypothesis", id |-> h,
                       next |-> Moved(row, "promoted", n), stamp |-> n]
    BY <2>2, SessionAfterRead
  <2>7. /\ session'[u].pc = "promote_hypothesis" /\ hypotheses'[session'[u].id] = row
        /\ session'[u].next.audit = Append(SubSeq(row.audit, 1, Len(row.audit)), n)
        /\ session'[u].stamp = n
    BY <2>3, <2>4, <2>5, <2>6
  <2> HIDE DEF row
  <2> QED
    BY <2>5, <2>7 DEF IsOneStep, TakesBackNotes
<1>6. CASE \E h \in Stamps, f \in Fields : UpdateHypothesisFields(u, n, h, f)
  <2>1. PICK h \in Stamps, f \in Fields : UpdateHypothesisFields(u, n, h, f)
    BY <1>6
  <2>2. PICK entry \in {<<>>, <<n>>} :
           Reads(u, n, [pc |-> "edit_hypothesis", id |-> h,
                        fields |-> [hypotheses[h].fields EXCEPT ![f] = n],
                        entry |-> entry])
    BY <2>1 DEF UpdateHypothesisFields
  <2>3. n \in Stamps
    BY <2>2, NumbersAreNew DEF Reads
  <2>4. session'[u].pc = "edit_hypothesis" /\ session'[u].entry = entry
    BY <2>2, SessionAfterRead
  <2> QED
    BY <2>2, <2>3, <2>4 DEF IsOneStep, TakesBackNotes
<1>7. CASE \E o \in Stamps : SetOpportunityStatus(u, n, o)
  <2>1. PICK o \in Stamps : SetOpportunityStatus(u, n, o)
    BY <1>7
  <2> DEFINE row == opportunities[o]
  <2>2. PICK to \in OpportunityTransitions[row.status] :
           Reads(u, n, [pc |-> IF to \in Advancing THEN "list_evidence"
                                                   ELSE "update_opportunity",
                        id |-> o, previous |-> row,
                        next |-> Moved(row, to, n), blocks |-> to \in Advancing])
    BY <2>1 DEF SetOpportunityStatus
  <2>3. n \in Stamps /\ row \in Opportunity
    BY <2>1, <2>2, NumbersAreNew, InvIsTyped, RowsAreTyped
       DEF Reads, SetOpportunityStatus
  <2>4. Moved(row, to, n).status = to /\ Moved(row, to, n).audit = Append(row.audit, n)
    BY <2>3 DEF Moved, Opportunity
  <2>5. Moves(row, Moved(row, to, n), OpportunityTransitions)
    BY <2>3, <2>4 DEF Moves
  <2>6. session'[u] = [pc |-> IF to \in Advancing THEN "list_evidence"
                                                  ELSE "update_opportunity",
                       id |-> o, previous |-> row,
                       next |-> Moved(row, to, n), blocks |-> to \in Advancing]
    BY <2>2, SessionAfterRead
  <2>7. /\ session'[u].pc \in {"list_evidence", "update_opportunity"}
        /\ session'[u].previous = row /\ session'[u].next = Moved(row, to, n)
    BY <2>6
  <2> HIDE DEF row
  <2> QED
    BY <2>5, <2>7 DEF IsOneStep, TakesBackNotes
<1>8. CASE \E o \in Stamps : UpdateCollisionStatus(u, n, o)
  <2>1. PICK o \in Stamps : UpdateCollisionStatus(u, n, o)
    BY <1>8
  <2> DEFINE row == opportunities[o]
  <2>2. Reads(u, n, [pc |-> "update_opportunity", id |-> o, previous |-> row,
                     next |-> Reassessed(row, n), blocks |-> FALSE])
    BY <2>1 DEF UpdateCollisionStatus
  <2>3. n \in Stamps /\ row \in Opportunity
    BY <2>1, <2>2, NumbersAreNew, InvIsTyped, RowsAreTyped
       DEF Reads, UpdateCollisionStatus
  <2>4. Notes(row, Reassessed(row, n))
    BY <2>3, OpportunityIsReassessed DEF Notes
  <2>5. /\ session'[u].pc = "update_opportunity"
        /\ session'[u].previous = row /\ session'[u].next = Reassessed(row, n)
    BY <2>2, SessionAfterRead
  <2> HIDE DEF row
  <2> QED
    BY <2>4, <2>5 DEF IsOneStep, TakesBackNotes
<1> DEFINE s == session[u]
<1>9. CASE EditConcern(u)
  <2> DEFINE row == concerns[s.id]
             next == Edited(row, s.fields, <<>>)
  <2>1. /\ s.pc = "edit_concern"
        /\ Continues(u, [pc |-> "update_concern", id |-> s.id, previous |-> row,
                         next |-> next])
    BY <1>9 DEF EditConcern
  <2>2. s.fields \in [Fields -> Stamps] /\ row \in Concern
    BY <2>1, InvIsTyped, RowsAreTyped, SessionsByCommand DEF WorksOnRows
  <2>3. Keeps(row, next)
    BY <2>2, ConcernIsEdited DEF Keeps
  <2> HIDE DEF row, next
  <2>4. session'[u] = [pc |-> "update_concern", id |-> s.id, previous |-> row,
                       next |-> next]
    BY <2>1, SessionAfterRead
  <2>5. /\ session'[u].pc = "update_concern" /\ session'[u].previous = row
        /\ session'[u].next = next
    BY <2>4
  <2> HIDE DEF s
  <2> QED
    BY <2>3, <2>5 DEF IsOneStep, TakesBackNotes
<1>10. CASE EditHypothesis(u)
  <2> DEFINE row == hypotheses[s.id]
             next == Edited(row, s.fields, s.entry)
  <2>1. /\ s.pc = "edit_hypothesis"
        /\ Continues(u, [pc |-> "update_hypothesis", id |-> s.id, previous |-> row,
                         next |-> next])
    BY <1>10 DEF EditHypothesis
  <2>2. row \in Hypothesis /\ row.audit \in Seq(Stamps)
    BY <2>1, InvIsTyped, RowsAreTyped DEF WorksOnRows, Hypothesis, Trail
  <2>3. next.status = row.status /\ next.audit = row.audit \o s.entry
    BY <2>2 DEF Edited, Hypothesis
  <2>4. IsOneStep(session[u])
    BY DEF CommandsAreSteps
  <2>5. s.entry = <<>> \/ \E m \in Stamps : s.entry = <<m>>
    BY <2>1, <2>4 DEF IsOneStep
  <2> HIDE DEF row, next
  <2>6. session'[u] = [pc |-> "update_hypothesis", id |-> s.id, previous |-> row,
                       next |-> next]
    BY <2>1, SessionAfterRead
  <2>7. /\ session'[u].pc = "update_hypothesis" /\ session'[u].previous = row
        /\ session'[u].next = next
    BY <2>6
  <2> HIDE DEF s
  <2>8. row.audit \o <<>> = row.audit
        /\ \A m \in Stamps : row.audit \o <<m>> = Append(row.audit, m)
    BY <2>2
  <2>9. Keeps(row, next) \/ Notes(row, next)
    <3>1. CASE s.entry = <<>>
      BY <2>3, <2>8, <3>1 DEF Keeps
    <3>2. CASE \E m \in Stamps : s.entry = <<m>>
      BY <2>3, <2>8, <3>2 DEF Notes
    <3> QED
      BY <2>5, <3>1, <3>2
  <2> QED
    BY <2>7, <2>9 DEF IsOneStep, TakesBackNotes
<1>11. CASE ListEvidence(u)
  <2>1. s.pc = "list_evidence"
        /\ \/ session' = [session EXCEPT ![u] = NoSession]
           \/ session' = [session EXCEPT ![u] = [s EXCEPT !.pc = "update_opportunity"]]
    BY <1>11 DEF ListEvidence, Continues
  <2>2. s \in [pc : {"list_evidence", "update_opportunity"}, id : Stamps,
               previous : Opportunity, next : Opportunity, blocks : BOOLEAN]
    BY <2>1, InvIsTyped, SessionsByCommand
  <2>3. session'[u] = NoSession \/ session'[u] = [s EXCEPT !.pc = "update_opportunity"]
    BY <2>1, SessionIsSet
  <2>4. CASE session'[u] = NoSession
    BY <2>4 DEF NoSession, IsOneStep, TakesBackNotes
  <2>5. CASE session'[u] = [s EXCEPT !.pc = "update_opportunity"]
    <3>1. /\ session'[u].pc = "update_opportunity" /\ session'[u].previous = s.previous
          /\ session'[u].next = s.next
      BY <2>2, <2>5
    <3>2. Moves(s.previous, s.next, OpportunityTransitions) \/ Notes(s.previous, s.next)
      BY <2>1 DEF CommandsAreSteps, IsOneStep
    <3> HIDE DEF s
    <3> QED
      BY <3>1, <3>2 DEF IsOneStep, TakesBackNotes
  <2> QED
    BY <2>3, <2>4, <2>5
<1>12. CASE PromotionCollides(u)
  <2>1. session'[u] = [pc |-> "collided", id |-> s.id]
    BY <1>12, SessionAfterRead DEF PromotionCollides
  <2> QED
    BY <2>1 DEF IsOneStep, TakesBackNotes
<1> QED
  BY <1>1, <1>2, <1>3, <1>4, <1>5, <1>6, <1>7, <1>8, <1>9, <1>10, <1>11, <1>12
     DEF SetsSession

\* A row that is still proposed has at most one note more.
LEMMA ProposedRowsGrow ==
    ASSUME RecordsInv, CommandsAreSteps, NEW u \in Users, NEW n, UserNext(u, n),
           NEW h \in DOMAIN hypotheses, hypotheses'[h].status = "proposed"
    PROVE  Keeps(hypotheses[h], hypotheses'[h]) \/ Notes(hypotheses[h], hypotheses'[h])
<1> DEFINE s == session[u]
<1>1. hypotheses[h] \in Hypothesis
  BY InvIsTyped, RowsAreTyped
<1>2. CASE hypotheses'[h] = hypotheses[h]
  BY <1>2 DEF Keeps
<1>3. CASE UpdateHypothesis(u) /\ h = s.id
  <2>1. /\ s.pc = "update_hypothesis" /\ hypotheses[h] = s.previous
        /\ hypotheses' = Put(hypotheses, h, s.next)
    BY <1>3 DEF UpdateHypothesis
  <2>2. hypotheses'[h] = s.next
    BY <2>1, PutKeeps
  <2>3. IsOneStep(session[u])
    BY DEF CommandsAreSteps
  <2>4. s.previous.status \in DOMAIN HypothesisTransitions
    BY <1>1, <2>1 DEF Hypothesis
  <2>5. ~ Moves(s.previous, s.next, HypothesisTransitions)
    BY <2>2, <2>4, HypothesisLifecycle DEF Moves
  <2> QED
    BY <2>1, <2>2, <2>3, <2>5 DEF IsOneStep
<1>4. CASE PromoteHypothesis(u) /\ h = s.id
  <2>1. s.pc = "promote_hypothesis" /\ hypotheses' = Put(hypotheses, h, s.next)
    BY <1>4 DEF PromoteHypothesis
  <2>2. hypotheses'[h] = s.next
    BY <2>1, PutKeeps
  <2>3. s.next.status = "promoted"
    BY <2>1, InvIsTyped DEF Faithful
  <2> QED
    BY <2>2, <2>3
<1>5. CASE (UpdateHypothesis(u) \/ PromoteHypothesis(u)) /\ h # s.id
  <2>1. hypotheses' = Put(hypotheses, s.id, s.next)
    BY <1>5 DEF UpdateHypothesis, PromoteHypothesis
  <2> QED
    BY <1>2, <1>5, <2>1, PutKeeps
<1> QED
  BY <1>2, <1>3, <1>4, <1>5, RowsAreReplaced

LEMMA UserKeepsSteps ==
    ASSUME RecordsInv, CommandsAreSteps, NEW u \in Users, NEW n, UserNext(u, n),
           NEW v \in Users
    PROVE  IsOneStep(session'[v]) /\ TakesBackNotes(session[v])'
<1>1. CASE v = u /\ SetsSession(u, n)
  BY <1>1, ReadsAreSteps
<1>2. CASE session'[v] = NoSession
  BY <1>2 DEF NoSession, IsOneStep, TakesBackNotes
<1>3. CASE session'[v] = session[v]
  <2> DEFINE h == session[v].id
  <2>1. IsOneStep(session'[v])
    BY <1>3 DEF CommandsAreSteps
  <2>2. SUFFICES ASSUME session[v].pc = "promote_hypothesis",
                        hypotheses'[h].status = "proposed"
                 PROVE  \E k \in 0..Len(hypotheses'[h].audit) :
                           session[v].next.audit =
                              Append(SubSeq(hypotheses'[h].audit, 1, k), session[v].stamp)
    BY <1>3, <2>1 DEF TakesBackNotes
  <2>3. h \in DOMAIN hypotheses /\ hypotheses[h] \in Hypothesis
    BY <2>2, InvIsTyped, RowsAreTyped DEF WorksOnRows
  <2>4. hypotheses[h].audit \in Trail
    BY <2>3 DEF Hypothesis
  <2>5. Keeps(hypotheses[h], hypotheses'[h]) \/ Notes(hypotheses[h], hypotheses'[h])
    BY <2>2, <2>3, ProposedRowsGrow
  <2>6. hypotheses[h].status = "proposed"
    BY <2>2, <2>5 DEF Keeps, Notes
  <2>7. PICK k \in 0..Len(hypotheses[h].audit) :
           session[v].next.audit =
              Append(SubSeq(hypotheses[h].audit, 1, k), session[v].stamp)
    BY <2>2, <2>6 DEF CommandsAreSteps, TakesBackNotes
  <2>8. CASE Keeps(hypotheses[h], hypotheses'[h])
    BY <2>7, <2>8 DEF Keeps
  <2>9. CASE Notes(hypotheses[h], hypotheses'[h])
    <3>1. PICK m \in Stamps : hypotheses'[h].audit = Append(hypotheses[h].audit, m)
      BY <2>9 DEF Notes
    <3>2. /\ k \in 0..Len(hypotheses'[h].audit)
          /\ SubSeq(hypotheses'[h].audit, 1, k) = SubSeq(hypotheses[h].audit, 1, k)
      BY <2>4, <3>1, PrefixesStay
    <3> QED
      BY <2>7, <3>2
  <2> QED
    BY <2>5, <2>8, <2>9
<1> QED
  BY <1>1, <1>2, <1>3, SessionsStay

LEMMA NextKeepsSteps ==
    RecordsInv /\ CommandsAreSteps /\ [WorkflowNext]_workflowVars => CommandsAreSteps'
<1> SUFFICES ASSUME RecordsInv, CommandsAreSteps, [WorkflowNext]_workflowVars
             PROVE  CommandsAreSteps'
  OBVIOUS
<1>1. CASE WorkflowNext
  <2>1. PICK u \in Users : UserNext(u, begun + 1)
    BY <1>1 DEF WorkflowNext
  <2>2. \A v \in Users : IsOneStep(session'[v]) /\ TakesBackNotes(session[v])'
    BY <2>1, UserKeepsSteps
  <2> QED
    BY <2>2 DEF CommandsAreSteps, IsOneStep, Moves, Keeps, Notes
<1>2. CASE UNCHANGED workflowVars
  BY <1>2 DEF workflowVars, recordVars, CommandsAreSteps, IsOneStep, TakesBackNotes
<1> QED
  BY <1>1, <1>2

LEMMA StepsAlways == WorkflowSpec => [](RecordsInv /\ CommandsAreSteps)
<1>1. WorkflowInit => CommandsAreSteps
  BY DEF WorkflowInit, NoSession, CommandsAreSteps, IsOneStep, TakesBackNotes
<1> QED
  BY <1>1, RecordsInvAlways, NextKeepsSteps, PTL DEF WorkflowSpec

-----------------------------------------------------------------------------
(***************************************************************************)
(* The trails                                                              *)
(***************************************************************************)
HypothesisTrailsFollow ==
    \A h \in DOMAIN hypotheses :
       \/ KeepsTrail(hypotheses[h], hypotheses'[h])
       \/ IsPromoted(hypotheses[h], hypotheses'[h])

LEMMA TrailsOfSteps ==
    ASSUME NEW old \in Hypothesis, NEW new,
           \/ Moves(old, new, HypothesisTransitions)
           \/ Keeps(old, new) \/ Notes(old, new)
    PROVE  KeepsTrail(old, new)
<1>1. old.audit \in Trail /\ 0 \in Stamps
  BY WorkflowAssumption DEF Hypothesis, Stamps
<1>2. \A n \in Stamps :
         /\ IsPrefix(old.audit, old.audit) /\ IsPrefix(old.audit, Append(old.audit, n))
         /\ old.audit # Append(old.audit, n)
  BY <1>1, TrailsGrow, EmptyTrail
<1> QED
  BY <1>1, <1>2 DEF Moves, Keeps, Notes, KeepsTrail

LEMMA TrailsOfPromotions ==
    ASSUME NEW trail \in Trail, NEW k \in 0..Len(trail), NEW n \in Stamps
    PROVE  LET new == Append(SubSeq(trail, 1, k), n) IN
           new # <<>> /\ IsPrefix(Front(new), trail)
<1> DEFINE old == SubSeq(trail, 1, k)
           new == Append(old, n)
<1>1. trail \in Seq(Stamps) /\ Len(trail) \in Nat /\ k \in Nat /\ k <= Len(trail)
  BY DEF Trail
<1>2. /\ old \in Seq(Stamps) /\ Len(old) = k
      /\ \A i \in 1..k : old[i] = trail[i]
  BY <1>1
<1> HIDE DEF old
<1>3. /\ new \in Seq(Stamps) /\ Len(new) = k + 1
      /\ \A i \in 1..k : new[i] = old[i]
  BY <1>1, <1>2
<1> HIDE DEF new
<1>4. /\ Front(new) \in Seq(Stamps) /\ Len(Front(new)) = k
      /\ \A i \in 1..k : Front(new)[i] = trail[i]
  BY <1>1, <1>2, <1>3 DEF Front
<1>5. IsPrefix(Front(new), trail)
  BY <1>1, <1>4 DEF IsPrefix
<1> QED
  BY <1>1, <1>3, <1>5 DEF new, old

LEMMA HypothesisTrails ==
    ASSUME RecordsInv, CommandsAreSteps, NEW u \in Users, NEW n, UserNext(u, n)
    PROVE  HypothesisTrailsFollow
<1> DEFINE s == session[u]
           h == session[u].id
           old == hypotheses[h]
           new == session[u].next
<1>1. \A g \in DOMAIN hypotheses : hypotheses[g] \in Hypothesis
  BY InvIsTyped, RowsAreTyped
<1>2. \A g \in DOMAIN hypotheses :
         hypotheses'[g] = hypotheses[g] => KeepsTrail(hypotheses[g], hypotheses'[g])
  BY <1>1, TrailsOfSteps DEF Keeps
<1>3. CASE UpdateHypothesis(u)
  <2>1. s.pc = "update_hypothesis" /\ old = s.previous
        /\ hypotheses' = Put(hypotheses, h, new)
    BY <1>3 DEF UpdateHypothesis
  <2>2. h \in DOMAIN hypotheses
    BY <2>1, InvIsTyped DEF WorksOnRows
  <2>3. Moves(old, new, HypothesisTransitions) \/ Keeps(old, new) \/ Notes(old, new)
    BY <2>1 DEF CommandsAreSteps, IsOneStep
  <2>4. KeepsTrail(old, new)
    BY <1>1, <2>2, <2>3, TrailsOfSteps
  <2> HIDE DEF s, h, new
  <2>5. hypotheses'[h] = new
        /\ \A g \in DOMAIN hypotheses : g # h => hypotheses'[g] = hypotheses[g]
    BY <2>1, <2>2, PutKeeps
  <2> QED
    BY <1>2, <2>4, <2>5 DEF HypothesisTrailsFollow
<1>4. CASE PromoteHypothesis(u)
  <2>1. s.pc = "promote_hypothesis" /\ old.status = "proposed"
        /\ hypotheses' = Put(hypotheses, h, new)
    BY <1>4 DEF PromoteHypothesis
  <2>2. h \in DOMAIN hypotheses /\ new.status = "promoted" /\ s.stamp \in Stamps
    BY <2>1, InvIsTyped, SessionsByCommand DEF WorksOnRows, Faithful
  <2>3. PICK k \in 0..Len(old.audit) : new.audit = Append(SubSeq(old.audit, 1, k), s.stamp)
    BY <2>1 DEF CommandsAreSteps, TakesBackNotes
  <2>4. old.audit \in Trail
    BY <1>1, <2>2 DEF Hypothesis
  <2>5. IsPromoted(old, new)
    BY <2>1, <2>2, <2>3, <2>4, TrailsOfPromotions DEF IsPromoted
  <2> HIDE DEF s, h, new
  <2>6. hypotheses'[h] = new
        /\ \A g \in DOMAIN hypotheses : g # h => hypotheses'[g] = hypotheses[g]
    BY <2>1, <2>2, PutKeeps
  <2> QED
    BY <1>2, <2>5, <2>6 DEF HypothesisTrailsFollow
<1> QED
  BY <1>2, <1>3, <1>4, RowsAreReplaced DEF HypothesisTrailsFollow

LEMMA TrailsFollow ==
    RecordsInv /\ CommandsAreSteps /\ [WorkflowNext]_workflowVars
    => HypothesisTrailsFollow
<1> SUFFICES ASSUME RecordsInv, CommandsAreSteps, [WorkflowNext]_workflowVars
             PROVE  HypothesisTrailsFollow
  OBVIOUS
<1>1. CASE WorkflowNext
  BY <1>1, HypothesisTrails DEF WorkflowNext
<1>2. CASE UNCHANGED workflowVars
  BY <1>2, InvIsTyped, RowsAreTyped, TrailsOfSteps
     DEF workflowVars, recordVars, HypothesisTrailsFollow, Keeps
<1> QED
  BY <1>1, <1>2

\* The status of a row moves along its lifecycle, although every transition was
\* judged on a copy, and no command but the promotion of a hypothesis loses what
\* an audit trail said before; that one may take back the last entries of the
\* trail, and none before them (Service.SetStatus, TransitionHypothesis,
\* SetOpportunityStatus and the promotions).
THEOREM LifecyclesAlwaysRecorded == WorkflowSpec => LifecyclesAreRecorded
<1>1. RecordsInv /\ CommandsAreSteps /\ [WorkflowNext]_workflowVars
      => [/\ \A c \in DOMAIN concerns :
                /\ \/ ChangesStatus(concerns[c], concerns'[c], ConcernTransitions)
                   \/ concerns[c].status \in Promotable /\ concerns'[c].status = "promoted"
                /\ KeepsTrail(concerns[c], concerns'[c])
          /\ \A h \in DOMAIN hypotheses :
                /\ ChangesStatus(hypotheses[h], hypotheses'[h], HypothesisTransitions)
                /\ \/ KeepsTrail(hypotheses[h], hypotheses'[h])
                   \/ IsPromoted(hypotheses[h], hypotheses'[h])
          /\ \A o \in DOMAIN opportunities :
                /\ ChangesStatus(opportunities[o], opportunities'[o], OpportunityTransitions)
                /\ KeepsTrail(opportunities[o], opportunities'[o])]_workflowVars
  BY StepsFollow, TrailsFollow
     DEF ConcernsFollow, HypothesesFollow, HypothesisTrailsFollow, OpportunitiesFollow, Follows
<1> QED
  BY <1>1, StepsAlways, PTL DEF WorkflowSpec, LifecyclesAreRecorded
-----------------------------------------------------------------------------
(***************************************************************************)
(* The rows that the promise sees.                                         *)
(***************************************************************************)
LEMMA RecordsArePut ==
    ASSUME NEW id, NEW row
    PROVE  /\ concerns' = Put(concerns, id, row)
              => ConcernRecords' = Records!With(ConcernRecords, id, ConcernRecord(row))
           /\ hypotheses' = Put(hypotheses, id, row)
              => HypothesisRecords'
                 = Records!With(HypothesisRecords, id, HypothesisRecord(row))
           /\ opportunities' = Put(opportunities, id, row)
              => OpportunityRecords'
                 = Records!With(OpportunityRecords, id, OpportunityRecord(row))
           /\ Put(investigations, id, row) = Records!With(investigations, id, row)
<1>1. ASSUME concerns' = Put(concerns, id, row)
      PROVE  ConcernRecords' = Records!With(ConcernRecords, id, ConcernRecord(row))
  <2>1. DOMAIN concerns' = DOMAIN concerns \cup {id}
    BY <1>1 DEF Put
  <2>2. \A i \in DOMAIN concerns \cup {id} :
           concerns'[i] = IF i = id THEN row ELSE concerns[i]
    BY <1>1 DEF Put
  <2>3. ConcernRecords' = [i \in DOMAIN concerns \cup {id} |-> ConcernRecord(concerns'[i])]
    BY <2>1 DEF ConcernRecords, ConcernRecord
  <2> QED
    BY <2>2, <2>3 DEF ConcernRecords, Records!With
<1>2. ASSUME hypotheses' = Put(hypotheses, id, row)
      PROVE  HypothesisRecords'
             = Records!With(HypothesisRecords, id, HypothesisRecord(row))
  <2>1. DOMAIN hypotheses' = DOMAIN hypotheses \cup {id}
    BY <1>2 DEF Put
  <2>2. \A i \in DOMAIN hypotheses \cup {id} :
           hypotheses'[i] = IF i = id THEN row ELSE hypotheses[i]
    BY <1>2 DEF Put
  <2>3. HypothesisRecords'
        = [i \in DOMAIN hypotheses \cup {id} |-> HypothesisRecord(hypotheses'[i])]
    BY <2>1 DEF HypothesisRecords, HypothesisRecord
  <2> QED
    BY <2>2, <2>3 DEF HypothesisRecords, Records!With
<1>3. ASSUME opportunities' = Put(opportunities, id, row)
      PROVE  OpportunityRecords'
             = Records!With(OpportunityRecords, id, OpportunityRecord(row))
  <2>1. DOMAIN opportunities' = DOMAIN opportunities \cup {id}
    BY <1>3 DEF Put
  <2>2. \A i \in DOMAIN opportunities \cup {id} :
           opportunities'[i] = IF i = id THEN row ELSE opportunities[i]
    BY <1>3 DEF Put
  <2>3. OpportunityRecords'
        = [i \in DOMAIN opportunities \cup {id} |-> OpportunityRecord(opportunities'[i])]
    BY <2>1 DEF OpportunityRecords, OpportunityRecord
  <2> QED
    BY <2>2, <2>3 DEF OpportunityRecords, Records!With
<1>4. Put(investigations, id, row) = Records!With(investigations, id, row)
  BY DEF Put, Records!With
<1> QED
  BY <1>1, <1>2, <1>3, <1>4

LEMMA RecordsAreReplaced ==
    ASSUME NEW id, NEW row
    PROVE  /\ id \in DOMAIN concerns
              => Records!With(ConcernRecords, id, row)
                 = [ConcernRecords EXCEPT ![id] = row]
           /\ id \in DOMAIN hypotheses
              => Records!With(HypothesisRecords, id, row)
                 = [HypothesisRecords EXCEPT ![id] = row]
           /\ id \in DOMAIN opportunities
              => Records!With(OpportunityRecords, id, row)
                 = [OpportunityRecords EXCEPT ![id] = row]
  BY DEF Records!With, ConcernRecords, HypothesisRecords, OpportunityRecords

LEMMA RecordsStay ==
    /\ concerns' = concerns => ConcernRecords' = ConcernRecords
    /\ hypotheses' = hypotheses => HypothesisRecords' = HypothesisRecords
    /\ opportunities' = opportunities => OpportunityRecords' = OpportunityRecords
  BY DEF ConcernRecords, HypothesisRecords, OpportunityRecords, ConcernRecord,
     HypothesisRecord, OpportunityRecord

LEMMA RecordsOfRows ==
    /\ DOMAIN ConcernRecords = DOMAIN concerns
    /\ DOMAIN HypothesisRecords = DOMAIN hypotheses
    /\ DOMAIN OpportunityRecords = DOMAIN opportunities
    /\ \A c \in DOMAIN concerns : ConcernRecords[c] = ConcernRecord(concerns[c])
    /\ \A h \in DOMAIN hypotheses : HypothesisRecords[h] = HypothesisRecord(hypotheses[h])
    /\ \A o \in DOMAIN opportunities :
          OpportunityRecords[o] = OpportunityRecord(opportunities[o])
  BY DEF ConcernRecords, HypothesisRecords, OpportunityRecords

LEMMA RecordsMove ==
    ASSUME NEW old, NEW new, NEW n, new.audit = Append(old.audit, n)
    PROVE  /\ new.promotion = old.promotion
              => ConcernRecord(new) = Records!Moved(ConcernRecord(old), new.status, n)
           /\ HypothesisRecord(new) = Records!Moved(HypothesisRecord(old), new.status, n)
           /\ new.hypothesis = old.hypothesis
              => OpportunityRecord(new) = Records!Moved(OpportunityRecord(old), new.status, n)
<1>1. ASSUME new.promotion = old.promotion
      PROVE  ConcernRecord(new) = Records!Moved(ConcernRecord(old), new.status, n)
  <2> DEFINE row == ConcernRecord(new)
             moved == Records!Moved(ConcernRecord(old), new.status, n)
             fields == {"status", "audit", "promotion"}
  <2>1. row = [f \in fields |-> row[f]] /\ moved = [f \in fields |-> moved[f]]
    BY DEF ConcernRecord, Records!Moved
  <2>2. row.status = moved.status /\ row.audit = moved.audit /\ row.promotion = moved.promotion
    BY <1>1 DEF ConcernRecord, Records!Moved
  <2> HIDE DEF row, moved
  <2>3. \A f \in fields : row[f] = moved[f]
    BY <2>2
  <2>4. row = moved
    BY <2>1, <2>3
  <2> QED
    BY <2>4 DEF row, moved
<1>2. HypothesisRecord(new) = Records!Moved(HypothesisRecord(old), new.status, n)
  <2> DEFINE row == HypothesisRecord(new)
             moved == Records!Moved(HypothesisRecord(old), new.status, n)
             fields == {"status", "audit"}
  <2>1. row = [f \in fields |-> row[f]] /\ moved = [f \in fields |-> moved[f]]
    BY DEF HypothesisRecord, Records!Moved
  <2>2. row.status = moved.status /\ row.audit = moved.audit
    BY DEF HypothesisRecord, Records!Moved
  <2> HIDE DEF row, moved
  <2>3. \A f \in fields : row[f] = moved[f]
    BY <2>2
  <2>4. row = moved
    BY <2>1, <2>3
  <2> QED
    BY <2>4 DEF row, moved
<1>3. ASSUME new.hypothesis = old.hypothesis
      PROVE  OpportunityRecord(new) = Records!Moved(OpportunityRecord(old), new.status, n)
  <2> DEFINE row == OpportunityRecord(new)
             moved == Records!Moved(OpportunityRecord(old), new.status, n)
             fields == {"status", "audit", "hypothesis"}
  <2>1. row = [f \in fields |-> row[f]] /\ moved = [f \in fields |-> moved[f]]
    BY DEF OpportunityRecord, Records!Moved
  <2>2. row.status = moved.status /\ row.audit = moved.audit /\ row.hypothesis = moved.hypothesis
    BY <1>3 DEF OpportunityRecord, Records!Moved
  <2> HIDE DEF row, moved
  <2>3. \A f \in fields : row[f] = moved[f]
    BY <2>2
  <2>4. row = moved
    BY <2>1, <2>3
  <2> QED
    BY <2>4 DEF row, moved
<1> QED
  BY <1>1, <1>2, <1>3

LEMMA RecordsAreNoted ==
    ASSUME NEW old, NEW new, NEW n, new.status = old.status,
           new.audit = Append(old.audit, n)
    PROVE  /\ HypothesisRecord(new) = Records!Noted(HypothesisRecord(old), n)
           /\ new.hypothesis = old.hypothesis
              => OpportunityRecord(new) = Records!Noted(OpportunityRecord(old), n)
<1>1. HypothesisRecord(new) = Records!Noted(HypothesisRecord(old), n)
  <2> DEFINE row == HypothesisRecord(new)
             moved == Records!Noted(HypothesisRecord(old), n)
             fields == {"status", "audit"}
  <2>1. row = [f \in fields |-> row[f]] /\ moved = [f \in fields |-> moved[f]]
    BY DEF HypothesisRecord, Records!Noted
  <2>2. row.status = moved.status /\ row.audit = moved.audit
    BY DEF HypothesisRecord, Records!Noted
  <2> HIDE DEF row, moved
  <2>3. \A f \in fields : row[f] = moved[f]
    BY <2>2
  <2>4. row = moved
    BY <2>1, <2>3
  <2> QED
    BY <2>4 DEF row, moved
<1>2. ASSUME new.hypothesis = old.hypothesis
      PROVE  OpportunityRecord(new) = Records!Noted(OpportunityRecord(old), n)
  <2> DEFINE row == OpportunityRecord(new)
             moved == Records!Noted(OpportunityRecord(old), n)
             fields == {"status", "audit", "hypothesis"}
  <2>1. row = [f \in fields |-> row[f]] /\ moved = [f \in fields |-> moved[f]]
    BY DEF OpportunityRecord, Records!Noted
  <2>2. row.status = moved.status /\ row.audit = moved.audit /\ row.hypothesis = moved.hypothesis
    BY <1>2 DEF OpportunityRecord, Records!Noted
  <2> HIDE DEF row, moved
  <2>3. \A f \in fields : row[f] = moved[f]
    BY <2>2
  <2>4. row = moved
    BY <2>1, <2>3
  <2> QED
    BY <2>4 DEF row, moved
<1> QED
  BY <1>1, <1>2

LEMMA RecordsOfPromoted ==
    ASSUME NEW old \in Concern, NEW n \in Stamps
    PROVE  ConcernRecord(Promoted(old, n))
           = [Records!Moved(ConcernRecord(old), "promoted", n) EXCEPT !.promotion = n]
<1> DEFINE new == Promoted(old, n)
<1>1. /\ new.status = "promoted" /\ new.audit = Append(old.audit, n)
      /\ new.promotion = n
  BY ConcernIsPromoted
<1> HIDE DEF new
<1>2. ConcernRecord(new)
      = [Records!Moved(ConcernRecord(old), "promoted", n) EXCEPT !.promotion = n]
  <2> DEFINE row == ConcernRecord(new)
             moved ==
                [Records!Moved(ConcernRecord(old), "promoted", n) EXCEPT !.promotion = n]
             fields == {"status", "audit", "promotion"}
  <2>1. row = [f \in fields |-> row[f]] /\ moved = [f \in fields |-> moved[f]]
    BY DEF ConcernRecord, Records!Moved
  <2>2. row.status = moved.status /\ row.audit = moved.audit /\ row.promotion = moved.promotion
    BY <1>1 DEF ConcernRecord, Records!Moved
  <2> HIDE DEF row, moved
  <2>3. \A f \in fields : row[f] = moved[f]
    BY <2>2
  <2>4. row = moved
    BY <2>1, <2>3
  <2> QED
    BY <2>4 DEF row, moved
<1> QED
  BY <1>2 DEF new

LEMMA RecordsOfNewRows ==
    /\ \A n : ConcernRecord(NewConcern(n))
             = [status |-> "untriaged", audit |-> <<>>, promotion |-> 0]
    /\ \A h : OpportunityRecord(NewOpportunity(h)) = Records!OpportunityOf(h)
    /\ \A fields, status, trail :
          HypothesisRecord(Adopted(fields, status, trail)) = Records!Proposal(status, trail)
  BY DEF ConcernRecord, NewConcern, OpportunityRecord, NewOpportunity, Records!OpportunityOf,
     HypothesisRecord, Adopted, Records!Proposal

(***************************************************************************)
(* Each write is one step on the rows.                                     *)
(***************************************************************************)
LEMMA UpdateConcernIsStep ==
    ASSUME RecordsInv, CommandsAreSteps, NEW u \in Users, UpdateConcern(u)
    PROVE  Records!Next
<1> DEFINE s == session[u]
           c == session[u].id
           old == concerns[c]
           new == session[u].next
<1>1. /\ s.pc = "update_concern" /\ old = s.previous /\ concerns' = Put(concerns, c, new)
      /\ UNCHANGED <<links, investigations, hypotheses, opportunities, contradicted>>
  BY DEF UpdateConcern
<1>2. c \in DOMAIN concerns /\ new.promotion = old.promotion
  BY <1>1, InvIsTyped DEF WorksOnRows, Faithful
<1>3. Moves(old, new, ConcernTransitions) \/ Keeps(old, new)
  BY <1>1 DEF CommandsAreSteps, IsOneStep
<1> HIDE DEF s, c, old, new
<1>4. /\ ConcernRecords' = [ConcernRecords EXCEPT ![c] = ConcernRecord(new)]
      /\ UNCHANGED <<links, investigations, HypothesisRecords, OpportunityRecords,
                     contradicted>>
  BY <1>1, <1>2, RecordsArePut, RecordsAreReplaced, RecordsStay
<1>5. c \in DOMAIN ConcernRecords /\ ConcernRecords[c] = ConcernRecord(old)
  BY <1>2, RecordsOfRows DEF old
<1>6. CASE Moves(old, new, ConcernTransitions)
  <2>1. PICK to \in ConcernTransitions[old.status], n \in Stamps :
           new.status = to /\ new.audit = Append(old.audit, n)
    BY <1>6 DEF Moves
  <2>2. ConcernRecord(new) = Records!Moved(ConcernRecords[c], to, n)
    <3>1. ConcernRecord(new) = Records!Moved(ConcernRecord(old), new.status, n)
      BY <1>2, <2>1, RecordsMove
    <3> QED
      BY <1>5, <2>1, <3>1
  <2>3. ConcernRecords[c].status = old.status
    BY <1>5 DEF ConcernRecord
  <2>4. Records!MoveConcern(c)
    BY <1>4, <2>1, <2>2, <2>3 DEF Records!MoveConcern
  <2> QED
    BY <1>5, <2>4 DEF Records!Next
<1>7. CASE Keeps(old, new)
  <2>1. ConcernRecord(new) = ConcernRecords[c]
    BY <1>2, <1>5, <1>7 DEF Keeps, ConcernRecord
  <2>2. ConcernRecords' = ConcernRecords
    BY <1>4, <2>1 DEF ConcernRecords
  <2> QED
    BY <1>4, <2>2 DEF Records!Next, Records!ChangeNothing, Records!recordVars
<1> QED
  BY <1>3, <1>6, <1>7

LEMMA UpdateHypothesisIsStep ==
    ASSUME RecordsInv, CommandsAreSteps, NEW u \in Users, UpdateHypothesis(u)
    PROVE  Records!Next
<1> DEFINE s == session[u]
           h == session[u].id
           old == hypotheses[h]
           new == session[u].next
<1>1. /\ s.pc = "update_hypothesis" /\ old = s.previous
      /\ hypotheses' = Put(hypotheses, h, new)
      /\ UNCHANGED <<concerns, links, investigations, opportunities, contradicted>>
  BY DEF UpdateHypothesis
<1>2. h \in DOMAIN hypotheses
  BY <1>1, InvIsTyped DEF WorksOnRows
<1>3. Moves(old, new, HypothesisTransitions) \/ Keeps(old, new) \/ Notes(old, new)
  BY <1>1 DEF CommandsAreSteps, IsOneStep
<1> HIDE DEF s, h, old, new
<1>4. /\ HypothesisRecords' = [HypothesisRecords EXCEPT ![h] = HypothesisRecord(new)]
      /\ UNCHANGED <<ConcernRecords, links, investigations, OpportunityRecords,
                     contradicted>>
  BY <1>1, <1>2, RecordsArePut, RecordsAreReplaced, RecordsStay
<1>5. h \in DOMAIN HypothesisRecords /\ HypothesisRecords[h] = HypothesisRecord(old)
  BY <1>2, RecordsOfRows DEF old
<1>6. CASE Moves(old, new, HypothesisTransitions)
  <2>1. PICK to \in HypothesisTransitions[old.status], n \in Stamps :
           new.status = to /\ new.audit = Append(old.audit, n)
    BY <1>6 DEF Moves
  <2>2. HypothesisRecord(new) = Records!Moved(HypothesisRecords[h], to, n)
    BY <1>5, <2>1, RecordsMove
  <2>3. HypothesisRecords[h].status = old.status
    BY <1>5 DEF HypothesisRecord
  <2>4. Records!MoveHypothesis(h)
    BY <1>4, <2>1, <2>2, <2>3 DEF Records!MoveHypothesis
  <2> QED
    BY <1>5, <2>4 DEF Records!Next
<1>7. CASE Notes(old, new)
  <2>1. PICK n \in Stamps : new.status = old.status /\ new.audit = Append(old.audit, n)
    BY <1>7 DEF Notes
  <2>2. HypothesisRecord(new) = Records!Noted(HypothesisRecords[h], n)
    BY <1>5, <2>1, RecordsAreNoted
  <2>3. Records!NoteHypothesis(h)
    BY <1>4, <2>2 DEF Records!NoteHypothesis
  <2> QED
    BY <1>5, <2>3 DEF Records!Next
<1>8. CASE Keeps(old, new)
  <2>1. HypothesisRecord(new) = HypothesisRecords[h]
    BY <1>5, <1>8 DEF Keeps, HypothesisRecord
  <2>2. HypothesisRecords' = HypothesisRecords
    BY <1>4, <2>1 DEF HypothesisRecords
  <2> QED
    BY <1>4, <2>2 DEF Records!Next, Records!ChangeNothing, Records!recordVars
<1> QED
  BY <1>3, <1>6, <1>7, <1>8

LEMMA StatusesChange ==
    \A from \in DOMAIN OpportunityTransitions : from \notin OpportunityTransitions[from]
  BY DEF OpportunityTransitions, Ends

LEMMA UpdateOpportunityIsStep ==
    ASSUME RecordsInv, CommandsAreSteps, NEW u \in Users, UpdateOpportunity(u)
    PROVE  Records!Next
<1> DEFINE s == session[u]
           o == session[u].id
           old == opportunities[o]
           new == session[u].next
<1>1. /\ s.pc = "update_opportunity" /\ old = s.previous
      /\ s.blocks => o \notin contradicted
      /\ opportunities' = Put(opportunities, o, new)
      /\ UNCHANGED <<concerns, links, investigations, hypotheses, contradicted>>
  BY DEF UpdateOpportunity
<1>2. /\ o \in DOMAIN opportunities /\ new.hypothesis = old.hypothesis
      /\ new.status # old.status /\ new.status \in Advancing => s.blocks
  BY <1>1, InvIsTyped DEF WorksOnRows, Faithful
<1>3. Moves(old, new, OpportunityTransitions) \/ Notes(old, new)
  BY <1>1 DEF CommandsAreSteps, IsOneStep
<1>4. old.status \in DOMAIN OpportunityTransitions
  BY <1>2, InvIsTyped, RowsAreTyped DEF Opportunity
<1> HIDE DEF s, o, old, new
<1>5. /\ OpportunityRecords' = [OpportunityRecords EXCEPT ![o] = OpportunityRecord(new)]
      /\ UNCHANGED <<ConcernRecords, links, investigations, HypothesisRecords,
                     contradicted>>
  BY <1>1, <1>2, RecordsArePut, RecordsAreReplaced, RecordsStay
<1>6. o \in DOMAIN OpportunityRecords /\ OpportunityRecords[o] = OpportunityRecord(old)
  BY <1>2, RecordsOfRows DEF old
<1>7. CASE Moves(old, new, OpportunityTransitions)
  <2>1. PICK to \in OpportunityTransitions[old.status], n \in Stamps :
           new.status = to /\ new.audit = Append(old.audit, n)
    BY <1>7 DEF Moves
  <2>2. OpportunityRecord(new) = Records!Moved(OpportunityRecords[o], to, n)
    <3>1. OpportunityRecord(new) = Records!Moved(OpportunityRecord(old), new.status, n)
      BY <1>2, <2>1, RecordsMove
    <3> QED
      BY <1>6, <2>1, <3>1
  <2>3. OpportunityRecords[o].status = old.status
    BY <1>6 DEF OpportunityRecord
  <2>4. to \in Advancing => o \notin contradicted
    BY <1>1, <1>2, <1>4, <2>1, StatusesChange
  <2>5. Records!MoveOpportunity(o)
    BY <1>5, <2>1, <2>2, <2>3, <2>4 DEF Records!MoveOpportunity
  <2> QED
    BY <1>6, <2>5 DEF Records!Next
<1>8. CASE Notes(old, new)
  <2>1. PICK n \in Stamps : new.status = old.status /\ new.audit = Append(old.audit, n)
    BY <1>8 DEF Notes
  <2>2. OpportunityRecord(new) = Records!Noted(OpportunityRecords[o], n)
    BY <1>2, <1>6, <2>1, RecordsAreNoted
  <2>3. Records!NoteOpportunity(o)
    BY <1>5, <2>2 DEF Records!NoteOpportunity
  <2> QED
    BY <1>6, <2>3 DEF Records!Next
<1> QED
  BY <1>3, <1>7, <1>8

LEMMA FreshIsUnused ==
    ASSUME NEW n, n \in Stamps, n \notin Ids
    PROVE  n \in Stamps \ Records!Used
  BY RecordsOfRows DEF Ids, Records!Used

LEMMA PromotionsAreFresh ==
    ASSUME RecordsInv, NEW u \in Users, session[u].pc \in Promoting
    PROVE  session[u].stamp \in Stamps /\ session[u].stamp \notin Ids
<1>1. begun \in 0..MaxCommands /\ MaxCommands \in Nat
  BY WorkflowAssumption DEF RecordsInv, WorkflowTypeOK
<1> QED
  BY <1>1 DEF RecordsInv, StampsAreFresh, Stamps

LEMMA PromoteHypothesisIsStep ==
    ASSUME RecordsInv, CommandsAreSteps, NEW u \in Users, PromoteHypothesis(u)
    PROVE  Records!Next
<1> DEFINE s == session[u]
           h == session[u].id
           n == session[u].stamp
           old == hypotheses[h]
           new == session[u].next
<1>1. /\ s.pc = "promote_hypothesis" /\ old.status = "proposed"
      /\ hypotheses' = Put(hypotheses, h, new)
      /\ opportunities' = Put(opportunities, n, NewOpportunity(h))
      /\ UNCHANGED <<concerns, links, investigations, contradicted>>
  BY DEF PromoteHypothesis
<1>2. h \in DOMAIN hypotheses /\ new.status = "promoted"
  BY <1>1, InvIsTyped DEF WorksOnRows, Faithful
<1>3. PICK k \in 0..Len(old.audit) : new.audit = Append(SubSeq(old.audit, 1, k), n)
  BY <1>1 DEF CommandsAreSteps, TakesBackNotes
<1>4. n \in Stamps \ Records!Used
  BY <1>1, PromotionsAreFresh, FreshIsUnused DEF Promoting
<1> HIDE DEF s, h, n, old, new
<1>5. /\ HypothesisRecords' = [HypothesisRecords EXCEPT ![h] = HypothesisRecord(new)]
      /\ OpportunityRecords' = Records!With(OpportunityRecords, n, Records!OpportunityOf(h))
      /\ UNCHANGED <<ConcernRecords, links, investigations, contradicted>>
  BY <1>1, <1>2, RecordsArePut, RecordsAreReplaced, RecordsStay, RecordsOfNewRows
<1>6. h \in DOMAIN HypothesisRecords /\ HypothesisRecords[h] = HypothesisRecord(old)
  BY <1>2, RecordsOfRows DEF old
<1>7. HypothesisRecords[h].status = "proposed" /\ HypothesisRecords[h].audit = old.audit
  BY <1>1, <1>6 DEF HypothesisRecord
<1>8. HypothesisRecord(new)
      = Records!Proposal("promoted", Append(SubSeq(HypothesisRecords[h].audit, 1, k), n))
  BY <1>2, <1>3, <1>7 DEF HypothesisRecord, Records!Proposal
<1>9. Records!PromoteHypothesis(h, n)
  BY <1>3, <1>5, <1>7, <1>8 DEF Records!PromoteHypothesis
<1> QED
  BY <1>4, <1>6, <1>9 DEF Records!Next

LEMMA PromoteConcernIsStep ==
    ASSUME RecordsInv, NEW u \in Users, PromoteConcernTx(u)
    PROVE  Records!Next
<1> DEFINE s == session[u]
           c == session[u].id
           n == session[u].stamp
           old == concerns[c]
           status == IF session[u].opportunity THEN "promoted" ELSE "proposed"
           trail == IF session[u].opportunity THEN <<session[u].stamp>> ELSE <<>>
<1>1. /\ s.pc = "promote_concern" /\ old.status \in Promotable
      /\ ~OriginIsTaken(EmptyOrigin)
      /\ investigations' = Put(investigations, n, EmptyOrigin)
      /\ hypotheses' = Put(hypotheses, n, Adopted(s.fields, status, trail))
      /\ IF s.opportunity THEN opportunities' = Put(opportunities, n, NewOpportunity(n))
                          ELSE opportunities' = opportunities
      /\ concerns' = Put(concerns, c, Promoted(old, n))
      /\ links' = [links EXCEPT ![c] = @ \cup {n}]
      /\ UNCHANGED contradicted
  BY DEF PromoteConcernTx
<1>2. c \in DOMAIN concerns /\ old \in Concern
  BY <1>1, InvIsTyped, RowsAreTyped DEF WorksOnRows
<1>3. n \in Stamps \ Records!Used
  BY <1>1, PromotionsAreFresh, FreshIsUnused DEF Promoting
<1>4. \/ s.opportunity /\ status = "promoted" /\ trail = <<n>>
      \/ ~s.opportunity /\ status = "proposed" /\ trail = <<>>
  OBVIOUS
<1> HIDE DEF s, c, n, old, status, trail
<1>5. /\ ConcernRecords' = [ConcernRecords EXCEPT ![c] = ConcernRecord(Promoted(old, n))]
      /\ HypothesisRecords'
         = Records!With(HypothesisRecords, n, Records!Proposal(status, trail))
      /\ investigations' = Records!With(investigations, n, EmptyOrigin)
  BY <1>1, <1>2, RecordsArePut, RecordsAreReplaced, RecordsOfNewRows
<1>6. /\ s.opportunity => OpportunityRecords'
                          = Records!With(OpportunityRecords, n, Records!OpportunityOf(n))
      /\ ~s.opportunity => OpportunityRecords' = OpportunityRecords
  BY <1>1, RecordsArePut, RecordsStay, RecordsOfNewRows
<1>7. c \in DOMAIN ConcernRecords /\ ConcernRecords[c] = ConcernRecord(old)
  BY <1>2, RecordsOfRows DEF old
<1>8. ConcernRecords[c].status \in Promotable
  BY <1>1, <1>7 DEF ConcernRecord
<1>9. ConcernRecord(Promoted(old, n))
      = [Records!Moved(ConcernRecords[c], "promoted", n) EXCEPT !.promotion = n]
  BY <1>2, <1>3, <1>7, RecordsOfPromoted
<1>10. Records!IsFree(EmptyOrigin)
  BY <1>1 DEF OriginIsTaken, Records!IsFree
<1>11. Records!PromoteConcern(c, n)
  BY <1>1, <1>4, <1>5, <1>6, <1>8, <1>9, <1>10 DEF Records!PromoteConcern
<1> QED
  BY <1>3, <1>7, <1>11 DEF Records!Next

\* A new row: of a concern, of an investigation or of a hypothesis.
LEMMA SmallWritesAreSteps ==
    ASSUME RecordsInv, NEW u \in Users, NEW n,
           \/ \E c \in Concerns : CreateConcern(u, n, c)
           \/ \E c \in Concerns, i \in Targets : LinkConcern(u, n, c, i)
           \/ \E o \in Stamps : RecordEvidence(u, n, o)
           \/ StartInvestigation(u, n) \/ CreateHypothesis(u, n)
           \/ \E t \in Threads : StartThreadInvestigation(u, n, t)
    PROVE  Records!Next
<1>1. CASE \E c \in Concerns : CreateConcern(u, n, c)
  <2>1. PICK c \in Concerns : CreateConcern(u, n, c)
    BY <1>1
  <2>2. /\ c \notin DOMAIN concerns /\ concerns' = Put(concerns, c, NewConcern(n))
        /\ UNCHANGED <<links, investigations, hypotheses, opportunities, contradicted>>
    BY <2>1 DEF CreateConcern
  <2>3. ConcernRecords'
        = Records!With(ConcernRecords, c, [status |-> "untriaged", audit |-> <<>>,
                                           promotion |-> 0])
    BY <2>2, RecordsArePut, RecordsOfNewRows
  <2>4. c \notin DOMAIN ConcernRecords /\ UNCHANGED <<HypothesisRecords, OpportunityRecords>>
    BY <2>2, RecordsOfRows, RecordsStay
  <2>5. Records!CreateConcern(c)
    BY <2>2, <2>3, <2>4 DEF Records!CreateConcern
  <2> QED
    BY <2>5 DEF Records!Next
<1>2. CASE \E c \in Concerns, i \in Targets : LinkConcern(u, n, c, i)
  <2>1. PICK c \in Concerns, i \in Targets : LinkConcern(u, n, c, i)
    BY <1>2
  <2>2. /\ c \in DOMAIN concerns /\ i \in DOMAIN investigations \cup {Elsewhere}
        /\ links' = [links EXCEPT ![c] = @ \cup {i}]
        /\ UNCHANGED <<concerns, investigations, hypotheses, opportunities, contradicted>>
    BY <2>1 DEF LinkConcern
  <2>3. /\ c \in DOMAIN ConcernRecords
        /\ UNCHANGED <<ConcernRecords, HypothesisRecords, OpportunityRecords>>
    BY <2>2, RecordsOfRows, RecordsStay
  <2>4. Records!Link(c)
    BY <2>2, <2>3 DEF Records!Link
  <2> QED
    BY <2>3, <2>4 DEF Records!Next
<1>3. CASE \E o \in Stamps : RecordEvidence(u, n, o)
  <2>1. PICK o \in Stamps : RecordEvidence(u, n, o)
    BY <1>3
  <2>2. /\ o \in DOMAIN opportunities /\ contradicted' = contradicted \cup {o}
        /\ UNCHANGED <<concerns, links, investigations, hypotheses, opportunities>>
    BY <2>1 DEF RecordEvidence
  <2>3. /\ o \in DOMAIN OpportunityRecords
        /\ UNCHANGED <<ConcernRecords, HypothesisRecords, OpportunityRecords>>
    BY <2>2, RecordsOfRows, RecordsStay
  <2>4. Records!Contradict(o)
    BY <2>2, <2>3 DEF Records!Contradict
  <2> QED
    BY <2>3, <2>4 DEF Records!Next
<1>4. CASE StartInvestigation(u, n)
  <2>1. /\ Begins(u, n) /\ investigations' = Put(investigations, n, NullOrigin)
        /\ UNCHANGED <<concerns, links, hypotheses, opportunities, contradicted>>
    BY <1>4 DEF StartInvestigation
  <2>2. n \in Stamps \ Records!Used
    BY <2>1, NumbersAreNew, FreshIsUnused
  <2>3. Records!Investigate(n)
    BY <2>1, RecordsArePut, RecordsStay DEF Records!Investigate
  <2> QED
    BY <2>2, <2>3 DEF Records!Next
<1>5. CASE CreateHypothesis(u, n)
  <2>1. /\ Begins(u, n)
        /\ hypotheses' = Put(hypotheses, n, NewHypothesis("proposed", n, <<>>))
        /\ UNCHANGED <<concerns, links, investigations, opportunities, contradicted>>
    BY <1>5 DEF CreateHypothesis
  <2>2. n \in Stamps \ Records!Used
    BY <2>1, NumbersAreNew, FreshIsUnused
  <2>3. HypothesisRecords'
        = Records!With(HypothesisRecords, n, Records!Proposal("proposed", <<>>))
    BY <2>1, RecordsArePut, RecordsOfNewRows DEF NewHypothesis
  <2>4. Records!Propose(n)
    BY <2>1, <2>3, RecordsStay DEF Records!Propose
  <2> QED
    BY <2>2, <2>4 DEF Records!Next
<1>6. CASE \E t \in Threads : StartThreadInvestigation(u, n, t)
  <2>1. PICK t \in Threads : StartThreadInvestigation(u, n, t)
    BY <1>6
  <2>2. /\ Begins(u, n) /\ ~OriginIsTaken(t)
        /\ investigations' = Put(investigations, n, t)
        /\ hypotheses' = Put(hypotheses, n, NewHypothesis("proposed", n, <<n>>))
        /\ UNCHANGED <<concerns, links, opportunities, contradicted>>
    BY <2>1 DEF StartThreadInvestigation
  <2>3. n \in Stamps \ Records!Used
    BY <2>2, NumbersAreNew, FreshIsUnused
  <2>4. HypothesisRecords'
        = Records!With(HypothesisRecords, n, Records!Proposal("proposed", <<n>>))
    BY <2>2, RecordsArePut, RecordsOfNewRows DEF NewHypothesis
  <2>5. Records!IsFree(t)
    BY <2>2 DEF OriginIsTaken, Records!IsFree
  <2>6. investigations' = Records!With(investigations, n, t)
    BY <2>2, RecordsArePut
  <2>7. Records!InvestigateThread(n)
    BY <2>2, <2>4, <2>5, <2>6, RecordsStay DEF Records!InvestigateThread
  <2> QED
    BY <2>3, <2>7 DEF Records!Next
<1> QED
  BY <1>1, <1>2, <1>3, <1>4, <1>5, <1>6

LEMMA NextIsStep ==
    RecordsInv /\ CommandsAreSteps /\ [WorkflowNext]_workflowVars
    => [Records!Next]_(Records!recordVars)
<1> SUFFICES ASSUME RecordsInv, CommandsAreSteps, [WorkflowNext]_workflowVars
             PROVE  Records!Next
  OBVIOUS
<1>1. CASE UNCHANGED recordVars
  BY <1>1, RecordsStay DEF recordVars, Records!Next, Records!ChangeNothing,
     Records!recordVars
<1>2. CASE WorkflowNext
  <2>1. PICK u \in Users : UserNext(u, begun + 1)
    BY <1>2 DEF WorkflowNext
  <2> DEFINE n == begun + 1
  <2>2. SetsSession(u, n) => UNCHANGED recordVars
    BY DEF SetsSession, SetConcernStatus, PromoteConcern, UpdateConcernFields,
       TransitionHypothesis, PromoteOpportunity, UpdateHypothesisFields,
       SetOpportunityStatus, UpdateCollisionStatus, EditConcern, EditHypothesis,
       ListEvidence, PromotionCollides, Reads, Continues
  <2>3. UpdateRefused(u) \/ PromotionRefused(u) \/ ReportCollision(u) => UNCHANGED recordVars
    BY DEF UpdateRefused, PromotionRefused, ReportCollision
  <2>4. \/ SetsSession(u, n)
        \/ UpdateRefused(u) \/ PromotionRefused(u) \/ ReportCollision(u)
        \/ UpdateConcern(u) \/ UpdateHypothesis(u) \/ UpdateOpportunity(u)
        \/ PromoteHypothesis(u) \/ PromoteConcernTx(u)
        \/ \E c \in Concerns : CreateConcern(u, n, c)
        \/ \E c \in Concerns, i \in Targets : LinkConcern(u, n, c, i)
        \/ \E o \in Stamps : RecordEvidence(u, n, o)
        \/ StartInvestigation(u, n) \/ CreateHypothesis(u, n)
        \/ \E t \in Threads : StartThreadInvestigation(u, n, t)
    BY <2>1 DEF UserNext, SetsSession
  <2> QED
    BY <1>1, <2>2, <2>3, <2>4, UpdateConcernIsStep, UpdateHypothesisIsStep,
       UpdateOpportunityIsStep, PromoteHypothesisIsStep, PromoteConcernIsStep,
       SmallWritesAreSteps
<1> QED
  BY <1>1, <1>2 DEF workflowVars

LEMMA InitIsStart == WorkflowInit => Records!Init
<1> SUFFICES ASSUME WorkflowInit
             PROVE  Records!Init
  OBVIOUS
<1>1. RecordsInv
  BY InitRecordsInv
<1>2. \A c \in DOMAIN concerns :
         concerns[c].status \in Promotable /\ concerns[c].audit = <<>>
  BY DEF WorkflowInit, NewConcern
<1>3. \A c \in DOMAIN ConcernRecords :
         ConcernRecords[c].status \in Promotable /\ ConcernRecords[c].audit = <<>>
  BY <1>2, RecordsOfRows DEF ConcernRecord
<1>4. DOMAIN ConcernRecords \subseteq Concerns
  BY <1>1, InvIsTyped, RowsAreTyped, RecordsOfRows
<1>5. \A o \in DOMAIN opportunities :
         /\ opportunities[o].hypothesis \in DOMAIN hypotheses
         /\ hypotheses[opportunities[o].hypothesis].status = "promoted"
  <2>1. CASE opportunities = [o \in {} |-> NewOpportunity(0)]
    BY <2>1
  <2>2. CASE \E status \in DOMAIN OpportunityTransitions :
                opportunities = [o \in {0} |-> [NewOpportunity(0) EXCEPT !.status = status]]
    <3>1. \A o \in DOMAIN opportunities : opportunities[o].hypothesis = 0
      BY <2>2 DEF NewOpportunity
    <3>2. CASE hypotheses = [h \in {0} |-> NewHypothesis("promoted", 0, <<>>)]
      BY <3>1, <3>2 DEF NewHypothesis, Adopted
    <3> QED
      BY <2>1, <3>2 DEF WorkflowInit
  <2> QED
    BY <2>1, <2>2 DEF WorkflowInit
<1>6. \A o \in DOMAIN OpportunityRecords :
         /\ OpportunityRecords[o].hypothesis \in DOMAIN HypothesisRecords
         /\ HypothesisRecords[OpportunityRecords[o].hypothesis].status = "promoted"
  BY <1>5, RecordsOfRows DEF OpportunityRecord, HypothesisRecord
<1>7. /\ links = [c \in Concerns |-> {}]
      /\ \A i \in DOMAIN investigations : investigations[i] = NullOrigin
      /\ contradicted \subseteq DOMAIN OpportunityRecords
  BY RecordsOfRows DEF WorkflowInit
<1> QED
  BY <1>3, <1>4, <1>6, <1>7 DEF Records!Init

\* However the commands of several users interleave, and whatever each has read
\* before it writes, every write is one step on the records as they are: one
\* change of status with one entry, one note, one new row, a whole promotion, or
\* nothing (the conditional updates and the promotions of the corpus).
THEOREM CommandsImplementRecords == WorkflowSpec => ImplementsRecords
  BY InitIsStart, NextIsStep, StepsAlways, PTL DEF WorkflowSpec, ImplementsRecords,
     Records!Spec
=============================================================================

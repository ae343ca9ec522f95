------------------------------ MODULE Workflow ------------------------------
(***************************************************************************)
(* The local records of a contribution (internal/concern, internal/        *)
(* investigation, internal/corpus/workflow.go, concerns.go and             *)
(* investigation_thread.go): concerns, investigations, hypotheses,         *)
(* opportunities and the evidence that contradicts an opportunity, edited  *)
(* by several commands at once (CLI, MCP tools, TUI).                      *)
(*                                                                         *)
(* A command reads a row, computes its successor and writes it where the   *)
(* row is still the one it read (optimistic concurrency on the payload).   *)
(* An edit of single fields reads twice: once to fill in the fields it was *)
(* not given, once for the row it replaces.  Promotions are transactions   *)
(* that check the status and not the payload.                              *)
(*                                                                         *)
(* The number of a command stands for what it makes up: the identities and *)
(* times of its records, the values it edits, its entry in an audit trail. *)
(* Supporting evidence changes no decision and is left out; evidence is    *)
(* identified by its content and never removed.                            *)
(***************************************************************************)
EXTENDS Naturals, Sequences, SequencesExt

CONSTANTS
    Users,          \* processes that run one command at a time
    Concerns,       \* identities of concerns
    Threads,        \* stored threads an investigation may start from
    MaxCommands     \* bound on the commands begun

\* The origins of the investigations that start without a thread: NULL, and
\* the empty string (insertConcernWorkflowTx).
NullOrigin == "null"
EmptyOrigin == ""

ASSUME WorkflowAssumption ==
    /\ MaxCommands \in Nat
    /\ NullOrigin \notin Threads /\ EmptyOrigin \notin Threads

VARIABLES
    concerns,       \* the rows of concerns, by identity
    links,          \* the investigations each concern links to, or Elsewhere
    investigations, \* the origin_key of each investigation, all of them open
    hypotheses,     \* the rows of hypotheses
    opportunities,  \* the rows of opportunities
    contradicted,   \* the opportunities that evidence contradicts
    session,        \* the local variables of each user's command
    begun           \* commands begun

recordVars == <<concerns, links, investigations, hypotheses, opportunities,
                contradicted>>
workflowVars == <<recordVars, session, begun>>
-----------------------------------------------------------------------------
Fields == {"title", "notes"}
Stamps == 0..MaxCommands

\* What a link may name: an investigation, or anything that is none.
Elsewhere == MaxCommands + 1
Targets == Stamps \cup {Elsewhere}

ConcernTransitions ==
    [untriaged     |-> {"accepted", "deferred", "resolved"},
     accepted      |-> {"investigating", "deferred", "resolved"},
     investigating |-> {"deferred", "resolved"},
     deferred      |-> {"accepted"},
     resolved      |-> {"accepted"},
     promoted      |-> {"resolved"}]

Promotable == {"accepted", "investigating"}

Ends == {"rejected", "deferred", "superseded"}

HypothesisTransitions ==
    [proposed |-> {"promoted"} \cup Ends, promoted |-> Ends,
     rejected |-> {}, deferred |-> {}, superseded |-> {}]

OpportunityTransitions ==
    [hypothesis |-> {"reproduced"} \cup Ends,
     reproduced |-> {"validated"} \cup Ends,
     validated |-> {"maintainer_aligned"} \cup Ends,
     maintainer_aligned |-> {"implemented"} \cup Ends,
     implemented |-> {"submitted"} \cup Ends,
     submitted |-> {"merged"} \cup Ends,
     merged |-> {}, rejected |-> {}, deferred |-> {}, superseded |-> {}]

Advancing == {"validated", "maintainer_aligned", "implemented", "submitted", "merged"}

Trail == Seq(Stamps)

\* The downstream records of a concern carry one number; 0: never promoted.
Concern == [status : DOMAIN ConcernTransitions, fields : [Fields -> Stamps],
            audit : Trail, promotion : Stamps]
Hypothesis == [status : DOMAIN HypothesisTransitions,
               fields : [Fields -> Stamps], audit : Trail]
Opportunity == [status : DOMAIN OpportunityTransitions, hypothesis : Stamps,
                collision : Stamps, audit : Trail]

NoSession == [pc |-> "idle"]

Session ==
    {NoSession}
    \cup [pc : {"edit_concern"}, id : Concerns, fields : [Fields -> Stamps]]
    \cup [pc : {"update_concern"}, id : Concerns, previous : Concern, next : Concern]
    \cup [pc : {"promote_concern"}, id : Concerns, fields : [Fields -> Stamps],
          opportunity : BOOLEAN, stamp : Stamps]
    \cup [pc : {"collided"}, id : Concerns]
    \cup [pc : {"edit_hypothesis"}, id : Stamps, fields : [Fields -> Stamps],
          entry : Trail]
    \cup [pc : {"update_hypothesis"}, id : Stamps, previous : Hypothesis,
          next : Hypothesis]
    \cup [pc : {"promote_hypothesis"}, id : Stamps, next : Hypothesis, stamp : Stamps]
    \cup [pc : {"list_evidence", "update_opportunity"}, id : Stamps,
          previous : Opportunity, next : Opportunity, blocks : BOOLEAN]

\* A table with one row inserted or replaced.
Put(table, id, row) ==
    [i \in DOMAIN table \cup {id} |-> IF i = id THEN row ELSE table[i]]

\* The unique index on the origin of the open investigations leaves out NULL.
OriginIsTaken(origin) ==
    /\ origin # NullOrigin
    /\ \E i \in DOMAIN investigations : investigations[i] = origin

\* A row after a transition, an edit with an entry or none, a promotion, and a
\* new collision status.
Moved(row, to, n) == [row EXCEPT !.status = to, !.audit = Append(@, n)]
Edited(row, fields, entry) == [row EXCEPT !.fields = fields, !.audit = @ \o entry]
Promoted(concern, n) == [Moved(concern, "promoted", n) EXCEPT !.promotion = n]
Reassessed(row, n) == [row EXCEPT !.collision = n, !.audit = Append(@, n)]

NewConcern(n) ==
    [status |-> "untriaged", fields |-> [f \in Fields |-> n], audit |-> <<>>,
     promotion |-> 0]

Adopted(fields, status, trail) == [status |-> status, fields |-> fields, audit |-> trail]

NewHypothesis(status, n, trail) == Adopted([f \in Fields |-> n], status, trail)

NewOpportunity(h) ==
    [status |-> "hypothesis", hypothesis |-> h, collision |-> 0, audit |-> <<>>]
-----------------------------------------------------------------------------
(***************************************************************************)
(* A command with one write.  n is its number.                             *)
(***************************************************************************)
Begins(u, n) ==
    /\ session[u] = NoSession
    /\ begun < MaxCommands
    /\ n = begun + 1
    /\ begun' = n

CreateConcern(u, n, c) ==
    /\ Begins(u, n)
    /\ c \notin DOMAIN concerns
    /\ concerns' = Put(concerns, c, NewConcern(n))
    /\ UNCHANGED <<links, investigations, hypotheses, opportunities,
                   contradicted, session>>

\* AddConcernLink looks for the concern, and for its target not at all.
LinkConcern(u, n, c, i) ==
    /\ Begins(u, n)
    /\ c \in DOMAIN concerns
    /\ i \in DOMAIN investigations \cup {Elsewhere}
    /\ links' = [links EXCEPT ![c] = @ \cup {i}]
    /\ UNCHANGED <<concerns, investigations, hypotheses, opportunities,
                   contradicted, session>>

StartInvestigation(u, n) ==
    /\ Begins(u, n)
    /\ investigations' = Put(investigations, n, NullOrigin)
    /\ UNCHANGED <<concerns, links, hypotheses, opportunities, contradicted, session>>

\* A thread with an open investigation is answered with the stored pair, which
\* changes nothing.
StartThreadInvestigation(u, n, t) ==
    /\ Begins(u, n)
    /\ ~OriginIsTaken(t)
    /\ investigations' = Put(investigations, n, t)
    /\ hypotheses' = Put(hypotheses, n, NewHypothesis("proposed", n, <<n>>))
    /\ UNCHANGED <<concerns, links, opportunities, contradicted, session>>

\* No investigation is ever removed, so that reading it first decides nothing.
CreateHypothesis(u, n) ==
    /\ Begins(u, n)
    /\ DOMAIN investigations # {}
    /\ hypotheses' = Put(hypotheses, n, NewHypothesis("proposed", n, <<>>))
    /\ UNCHANGED <<concerns, links, investigations, opportunities,
                   contradicted, session>>

\* RecordEvidence of the application, and imports of manifests and receipts.
RecordEvidence(u, n, o) ==
    /\ Begins(u, n)
    /\ o \in DOMAIN opportunities
    /\ contradicted' = contradicted \cup {o}
    /\ UNCHANGED <<concerns, links, investigations, hypotheses, opportunities,
                   session>>
-----------------------------------------------------------------------------
(***************************************************************************)
(* The reads of the other commands.                                        *)
(***************************************************************************)
Reads(u, n, command) ==
    /\ Begins(u, n)
    /\ session' = [session EXCEPT ![u] = command]
    /\ UNCHANGED recordVars

Continues(u, command) ==
    /\ session' = [session EXCEPT ![u] = command]
    /\ UNCHANGED <<recordVars, begun>>

\* The commands that update single fields fill in the others from this read.
UpdateConcernFields(u, n, c, f) ==
    /\ c \in DOMAIN concerns
    /\ Reads(u, n, [pc |-> "edit_concern", id |-> c,
                    fields |-> [concerns[c].fields EXCEPT ![f] = n]])

\* Status, trail and promotion are those of the row read now.
EditConcernStale(u) ==
    LET s == session[u] IN
    /\ s.pc = "edit_concern"
    /\ Continues(u, [pc |-> "update_concern", id |-> s.id,
                     previous |-> concerns[s.id],
                     next |-> [Edited(concerns[s.id], s.fields, <<>>)
                               EXCEPT !.promotion = 0]])

EditConcern(u) ==
    LET s == session[u] IN
    /\ s.pc = "edit_concern"
    /\ Continues(u, [pc |-> "update_concern", id |-> s.id,
                     previous |-> concerns[s.id],
                     next |-> Edited(concerns[s.id], s.fields, <<>>)])

SetConcernStatus(u, n, c) ==
    /\ c \in DOMAIN concerns
    /\ \E to \in ConcernTransitions[concerns[c].status] :
          Reads(u, n, [pc |-> "update_concern", id |-> c,
                       previous |-> concerns[c],
                       next |-> Moved(concerns[c], to, n)])

PromoteConcern(u, n, c) ==
    /\ c \in DOMAIN concerns
    /\ \E opportunity \in BOOLEAN :
          Reads(u, n, [pc |-> "promote_concern", id |-> c,
                       fields |-> concerns[c].fields,
                       opportunity |-> opportunity, stamp |-> n])

UpdateHypothesisFields(u, n, h, f) ==
    /\ h \in DOMAIN hypotheses
    /\ \E entry \in {<<>>, <<n>>} :
          Reads(u, n, [pc |-> "edit_hypothesis", id |-> h,
                       fields |-> [hypotheses[h].fields EXCEPT ![f] = n],
                       entry |-> entry])

EditHypothesis(u) ==
    LET s == session[u] IN
    /\ s.pc = "edit_hypothesis"
    /\ Continues(u, [pc |-> "update_hypothesis", id |-> s.id,
                     previous |-> hypotheses[s.id],
                     next |-> Edited(hypotheses[s.id], s.fields, s.entry)])

\* A transition to the status a row has writes the row it read, here and in
\* SetOpportunityStatus; it is left out.
TransitionHypothesis(u, n, h) ==
    /\ h \in DOMAIN hypotheses
    /\ \E to \in HypothesisTransitions[hypotheses[h].status] :
          Reads(u, n, [pc |-> "update_hypothesis", id |-> h,
                       previous |-> hypotheses[h],
                       next |-> Moved(hypotheses[h], to, n)])

PromoteOpportunity(u, n, h) ==
    /\ h \in DOMAIN hypotheses
    /\ hypotheses[h].status = "proposed"
    /\ Reads(u, n, [pc |-> "promote_hypothesis", id |-> h,
                    next |-> Moved(hypotheses[h], "promoted", n), stamp |-> n])

SetOpportunityStatus(u, n, o) ==
    /\ o \in DOMAIN opportunities
    /\ \E to \in OpportunityTransitions[opportunities[o].status] :
          Reads(u, n, [pc |-> IF to \in Advancing THEN "list_evidence"
                                                  ELSE "update_opportunity",
                       id |-> o, previous |-> opportunities[o],
                       next |-> Moved(opportunities[o], to, n),
                       blocks |-> to \in Advancing])

ListEvidence(u) ==
    LET s == session[u] IN
    /\ s.pc = "list_evidence"
    /\ Continues(u, IF s.id \in contradicted
                    THEN NoSession
                    ELSE [s EXCEPT !.pc = "update_opportunity"])

UpdateCollisionStatus(u, n, o) ==
    /\ o \in DOMAIN opportunities
    /\ Reads(u, n, [pc |-> "update_opportunity", id |-> o,
                    previous |-> opportunities[o],
                    next |-> Reassessed(opportunities[o], n), blocks |-> FALSE])
-----------------------------------------------------------------------------
(***************************************************************************)
(* The writes.                                                             *)
(***************************************************************************)
Returns(u) == session' = [session EXCEPT ![u] = NoSession] /\ UNCHANGED begun

UpdateConcernUnchecked(u) ==
    LET s == session[u] IN
    /\ s.pc = "update_concern"
    /\ concerns' = Put(concerns, s.id, s.next)
    /\ Returns(u)
    /\ UNCHANGED <<links, investigations, hypotheses, opportunities, contradicted>>

\* The payload is compared without its links, which have a table of their own.
UpdateConcern(u) ==
    LET s == session[u] IN
    /\ s.pc = "update_concern"
    /\ concerns[s.id] = s.previous
    /\ concerns' = Put(concerns, s.id, s.next)
    /\ Returns(u)
    /\ UNCHANGED <<links, investigations, hypotheses, opportunities, contradicted>>

UpdateHypothesis(u) ==
    LET s == session[u] IN
    /\ s.pc = "update_hypothesis"
    /\ hypotheses[s.id] = s.previous
    /\ hypotheses' = Put(hypotheses, s.id, s.next)
    /\ Returns(u)
    /\ UNCHANGED <<concerns, links, investigations, opportunities, contradicted>>

UpdateOpportunityUnblocked(u) ==
    LET s == session[u] IN
    /\ s.pc = "update_opportunity"
    /\ opportunities[s.id] = s.previous
    /\ opportunities' = Put(opportunities, s.id, s.next)
    /\ Returns(u)
    /\ UNCHANGED <<concerns, links, investigations, hypotheses, contradicted>>

\* The evidence is looked for again in the statement that writes the row.
UpdateOpportunity(u) ==
    LET s == session[u] IN
    /\ s.pc = "update_opportunity"
    /\ opportunities[s.id] = s.previous
    /\ s.blocks => s.id \notin contradicted
    /\ opportunities' = Put(opportunities, s.id, s.next)
    /\ Returns(u)
    /\ UNCHANGED <<concerns, links, investigations, hypotheses, contradicted>>

\* ErrConflict, ErrContradictingEvidence.
UpdateRefused(u) ==
    LET s == session[u] IN
    /\ \/ s.pc = "update_concern" /\ concerns[s.id] # s.previous
       \/ s.pc = "update_hypothesis" /\ hypotheses[s.id] # s.previous
       \/ /\ s.pc = "update_opportunity"
          /\ opportunities[s.id] # s.previous \/ (s.blocks /\ s.id \in contradicted)
    /\ Returns(u)
    /\ UNCHANGED recordVars

PromoteHypothesisOfAnyStatus(u) ==
    LET s == session[u] IN
    /\ s.pc = "promote_hypothesis"
    /\ hypotheses' = Put(hypotheses, s.id, s.next)
    /\ opportunities' = Put(opportunities, s.stamp, NewOpportunity(s.id))
    /\ Returns(u)
    /\ UNCHANGED <<concerns, links, investigations, contradicted>>

\* The row is replaced where its status is still proposed, whatever else
\* changed since it was read.
PromoteHypothesis(u) ==
    LET s == session[u] IN
    /\ s.pc = "promote_hypothesis"
    /\ hypotheses[s.id].status = "proposed"
    /\ hypotheses' = Put(hypotheses, s.id, s.next)
    /\ opportunities' = Put(opportunities, s.stamp, NewOpportunity(s.id))
    /\ Returns(u)
    /\ UNCHANGED <<concerns, links, investigations, contradicted>>

PromotionRefused(u) ==
    LET s == session[u] IN
    /\ \/ s.pc = "promote_hypothesis" /\ hypotheses[s.id].status # "proposed"
       \/ s.pc = "promote_concern" /\ concerns[s.id].status \notin Promotable
    /\ Returns(u)
    /\ UNCHANGED recordVars

\* The transaction of PromoteConcern reads the row again; what it copies into
\* the hypothesis is what was read before it.
PromoteConcernTx(u) ==
    LET s == session[u]
        n == s.stamp
    IN
    /\ s.pc = "promote_concern"
    /\ concerns[s.id].status \in Promotable
    /\ ~OriginIsTaken(EmptyOrigin)
    /\ investigations' = Put(investigations, n, EmptyOrigin)
    /\ hypotheses' = Put(hypotheses, n,
          IF s.opportunity THEN Adopted(s.fields, "promoted", <<n>>)
                           ELSE Adopted(s.fields, "proposed", <<>>))
    /\ opportunities' = IF s.opportunity
                        THEN Put(opportunities, n, NewOpportunity(n))
                        ELSE opportunities
    /\ concerns' = Put(concerns, s.id, Promoted(concerns[s.id], n))
    /\ links' = [links EXCEPT ![s.id] = @ \cup {n}]
    /\ Returns(u)
    /\ UNCHANGED contradicted

\* The unique index refuses the investigation and the transaction is rolled back.
PromotionCollides(u) ==
    LET s == session[u] IN
    /\ s.pc = "promote_concern"
    /\ concerns[s.id].status \in Promotable
    /\ OriginIsTaken(EmptyOrigin)
    /\ Continues(u, [pc |-> "collided", id |-> s.id])

ReportCollision(u) ==
    /\ session[u].pc = "collided"
    /\ Returns(u)
    /\ UNCHANGED recordVars
-----------------------------------------------------------------------------
UserNext(u, n) ==
    \/ \E c \in Concerns :
          \/ CreateConcern(u, n, c) \/ SetConcernStatus(u, n, c) \/ PromoteConcern(u, n, c)
          \/ \E i \in Targets : LinkConcern(u, n, c, i)
          \/ \E f \in Fields : UpdateConcernFields(u, n, c, f)
    \/ StartInvestigation(u, n) \/ CreateHypothesis(u, n)
    \/ \E t \in Threads : StartThreadInvestigation(u, n, t)
    \/ \E h \in Stamps :
          \/ TransitionHypothesis(u, n, h) \/ PromoteOpportunity(u, n, h)
          \/ \E f \in Fields : UpdateHypothesisFields(u, n, h, f)
    \/ \E o \in Stamps :
          \/ RecordEvidence(u, n, o) \/ SetOpportunityStatus(u, n, o)
          \/ UpdateCollisionStatus(u, n, o)
    \/ EditConcern(u) \/ EditHypothesis(u) \/ ListEvidence(u)
    \/ UpdateConcern(u) \/ UpdateHypothesis(u) \/ UpdateOpportunity(u) \/ UpdateRefused(u)
    \/ PromoteHypothesis(u) \/ PromoteConcernTx(u)
    \/ PromotionRefused(u) \/ PromotionCollides(u) \/ ReportCollision(u)

WorkflowNext == \E u \in Users : UserNext(u, begun + 1)

(***************************************************************************)
(* An investigation of earlier commands, whose hypothesis 0 is proposed,   *)
(* or promoted to an opportunity that came anywhere; some concerns.        *)
(***************************************************************************)
WorkflowInit ==
    /\ \E recorded \in SUBSET Concerns, status \in Promotable :
          concerns = [c \in recorded |-> [NewConcern(0) EXCEPT !.status = status]]
    /\ links = [c \in Concerns |-> {}]
    /\ investigations = [i \in {0} |-> NullOrigin]
    /\ \/ /\ hypotheses = [h \in {0} |-> NewHypothesis("proposed", 0, <<>>)]
          /\ opportunities = [o \in {} |-> NewOpportunity(0)]
       \/ /\ hypotheses = [h \in {0} |-> NewHypothesis("promoted", 0, <<>>)]
          /\ \E status \in DOMAIN OpportunityTransitions :
                opportunities = [o \in {0} |-> [NewOpportunity(0) EXCEPT !.status = status]]
    /\ contradicted \in SUBSET DOMAIN opportunities
    /\ session = [u \in Users |-> NoSession]
    /\ begun = 0

WorkflowSpec == WorkflowInit /\ [][WorkflowNext]_workflowVars
-----------------------------------------------------------------------------
IsTable(table, Ids, Rows) ==
    /\ table = [i \in DOMAIN table |-> table[i]]
    /\ DOMAIN table \subseteq Ids
    /\ \A i \in DOMAIN table : table[i] \in Rows

\* A command works on rows that exist: none is ever removed.
WorksOnRows(s) ==
    /\ s.pc \in {"edit_concern", "update_concern", "promote_concern"}
       => s.id \in DOMAIN concerns
    /\ s.pc \in {"edit_hypothesis", "update_hypothesis", "promote_hypothesis"}
       => s.id \in DOMAIN hypotheses
    /\ s.pc \in {"list_evidence", "update_opportunity"}
       => s.id \in DOMAIN opportunities

\* Rows, sessions and counters have their types.
WorkflowTypeOK ==
    /\ IsTable(concerns, Concerns, Concern)
    /\ links \in [Concerns -> SUBSET Targets]
    /\ IsTable(investigations, Stamps, Threads \cup {NullOrigin, EmptyOrigin})
    /\ IsTable(hypotheses, Stamps, Hypothesis)
    /\ IsTable(opportunities, Stamps, Opportunity)
    /\ contradicted \subseteq DOMAIN opportunities
    /\ session \in [Users -> Session]
    /\ begun \in 0..MaxCommands
    /\ \A u \in Users : WorksOnRows(session[u])

(***************************************************************************)
(* A row changes its status along an edge of its lifecycle, although the   *)
(* transition was judged on a copy (Service.SetStatus, TransitionHypothesis*)
(* and SetOpportunityStatus), and only a promotion makes a concern         *)
(* promoted.  The change is in the audit trail, and what the trail said    *)
(* before is not lost to a command that read the row before it was said -  *)
(* but to the promotion of a hypothesis, which writes the trail it read    *)
(* and may take back the last notes (corpus.PromoteHypothesis).            *)
(***************************************************************************)
ChangesStatus(old, new, transitions) ==
    new.status \in transitions[old.status] \cup {old.status}

KeepsTrail(old, new) ==
    /\ IsPrefix(old.audit, new.audit)
    /\ old.status # new.status => old.audit # new.audit

\* Entries of after the read are gone, and the promotion has its own.
IsPromoted(old, new) ==
    /\ old.status = "proposed" /\ new.status = "promoted"
    /\ new.audit # <<>> /\ IsPrefix(Front(new.audit), old.audit)

LifecyclesAreRecorded ==
    [][/\ \A c \in DOMAIN concerns :
             /\ \/ ChangesStatus(concerns[c], concerns'[c], ConcernTransitions)
                \/ concerns[c].status \in Promotable /\ concerns'[c].status = "promoted"
             /\ KeepsTrail(concerns[c], concerns'[c])
       /\ \A h \in DOMAIN hypotheses :
             /\ ChangesStatus(hypotheses[h], hypotheses'[h], HypothesisTransitions)
             /\ \/ KeepsTrail(hypotheses[h], hypotheses'[h])
                \/ IsPromoted(hypotheses[h], hypotheses'[h])
       /\ \A o \in DOMAIN opportunities :
             /\ ChangesStatus(opportunities[o], opportunities'[o], OpportunityTransitions)
             /\ KeepsTrail(opportunities[o], opportunities'[o])]_workflowVars

(***************************************************************************)
(* No opportunity advances while evidence contradicts it, also when the    *)
(* evidence is recorded between the check and the write (UpdateOpportunity *)
(* of the corpus).                                                         *)
(***************************************************************************)
AdvancesAreUncontradicted ==
    [][\A o \in DOMAIN opportunities :
          /\ opportunities'[o].status # opportunities[o].status
          /\ opportunities'[o].status \in Advancing
          => o \notin contradicted]_workflowVars

(***************************************************************************)
(* A promoted concern names the investigation and the hypothesis that were *)
(* created with its status, and links to them, whatever edits of the       *)
(* concern were under way.                                                 *)
(***************************************************************************)
PromotionsAreWhole ==
    \A c \in DOMAIN concerns :
       concerns[c].status = "promoted" =>
          /\ concerns[c].promotion \in DOMAIN investigations
          /\ concerns[c].promotion \in DOMAIN hypotheses
          /\ investigations[concerns[c].promotion] = EmptyOrigin
          /\ concerns[c].promotion \in links[c]

(***************************************************************************)
(* A hypothesis becomes one opportunity, however many commands promote it, *)
(* and is no longer proposed then.                                         *)
(***************************************************************************)
PromotedOnce ==
    /\ \A o \in DOMAIN opportunities :
          /\ opportunities[o].hypothesis \in DOMAIN hypotheses
          /\ hypotheses[opportunities[o].hypothesis].status # "proposed"
    /\ \A o, p \in DOMAIN opportunities :
          opportunities[o].hypothesis = opportunities[p].hypothesis => o = p

(***************************************************************************)
(* The promotion of a concern that is accepted or under investigation      *)
(* succeeds: it is refused for its status only (allowedTransition,         *)
(* promoteConcernTx).                                                      *)
(***************************************************************************)
PromotableConcernsArePromoted ==
    \A u \in Users : session[u].pc # "collided"

\* What the promise to the commands sees of a row.
ConcernRecord(row) ==
    [status |-> row.status, audit |-> row.audit, promotion |-> row.promotion]
HypothesisRecord(row) == [status |-> row.status, audit |-> row.audit]
OpportunityRecord(row) ==
    [status |-> row.status, audit |-> row.audit, hypothesis |-> row.hypothesis]

ConcernRecords == [c \in DOMAIN concerns |-> ConcernRecord(concerns[c])]
HypothesisRecords == [h \in DOMAIN hypotheses |-> HypothesisRecord(hypotheses[h])]
OpportunityRecords == [o \in DOMAIN opportunities |-> OpportunityRecord(opportunities[o])]

(***************************************************************************)
(* However the commands of several users interleave, the records change as *)
(* if each command were one step on the rows as they are, with one entry   *)
(* for each change of status, or none at all (UpdateConcern,               *)
(* UpdateHypothesis, UpdateOpportunity and the promotions of the corpus).  *)
(***************************************************************************)
Records == INSTANCE ContributionRecords WITH
    concerns <- ConcernRecords, hypotheses <- HypothesisRecords,
    opportunities <- OpportunityRecords

ImplementsRecords == Records!Spec
=============================================================================

------------------------ MODULE ContributionRecords ------------------------
(***************************************************************************)
(* What the records of contributions promise the commands that edit them:  *)
(* however many are under way, each is one step on the rows as they are.   *)
(* What a command read before it writes, and conflicts between commands,   *)
(* do not appear.                                                          *)
(*                                                                         *)
(* Of a row there is its status, its trail and what it belongs to.  What   *)
(* its edited fields hold is not promised: an edit may write back those    *)
(* that others have changed since it read them.                            *)
(***************************************************************************)
EXTENDS Naturals, Sequences

CONSTANTS
    Concerns,               \* identities of concerns
    Threads,                \* stored threads
    NullOrigin, EmptyOrigin,\* the origins of investigations without a thread
    Elsewhere,              \* what else a link may name
    Stamps,                 \* what commands make up: identities, times, values
    ConcernTransitions, HypothesisTransitions, OpportunityTransitions,
    Promotable,             \* the statuses a concern is promoted from
    Advancing               \* the statuses of an opportunity that is getting on

VARIABLES concerns, links, investigations, hypotheses, opportunities, contradicted

recordVars == <<concerns, links, investigations, hypotheses, opportunities,
                contradicted>>

Used == DOMAIN investigations \cup DOMAIN hypotheses \cup DOMAIN opportunities

IsFree(origin) ==
    origin = NullOrigin \/ \A i \in DOMAIN investigations : investigations[i] # origin

With(table, id, row) == [i \in DOMAIN table \cup {id} |-> IF i = id THEN row ELSE table[i]]

\* One entry in the trail for each change of status.
Moved(row, to, n) == [row EXCEPT !.status = to, !.audit = Append(@, n)]

Noted(row, n) == [row EXCEPT !.audit = Append(@, n)]

Proposal(status, trail) == [status |-> status, audit |-> trail]

OpportunityOf(h) ==
    [status |-> "hypothesis", hypothesis |-> h, audit |-> <<>>]

\* Records of earlier days.
Init ==
    /\ DOMAIN concerns \subseteq Concerns
    /\ \A c \in DOMAIN concerns : concerns[c].status \in Promotable /\ concerns[c].audit = <<>>
    /\ links = [c \in Concerns |-> {}]
    /\ \A i \in DOMAIN investigations : investigations[i] = NullOrigin
    /\ \A o \in DOMAIN opportunities :
          /\ opportunities[o].hypothesis \in DOMAIN hypotheses
          /\ hypotheses[opportunities[o].hypothesis].status = "promoted"
    /\ contradicted \subseteq DOMAIN opportunities

CreateConcern(c) ==
    /\ c \notin DOMAIN concerns
    /\ concerns' = With(concerns, c, [status |-> "untriaged", audit |-> <<>>,
                                      promotion |-> 0])
    /\ UNCHANGED <<links, investigations, hypotheses, opportunities, contradicted>>

MoveConcern(c) ==
    /\ \E to \in ConcernTransitions[concerns[c].status], n \in Stamps :
          concerns' = [concerns EXCEPT ![c] = Moved(@, to, n)]
    /\ UNCHANGED <<links, investigations, hypotheses, opportunities, contradicted>>

Link(c) ==
    /\ \E i \in DOMAIN investigations \cup {Elsewhere} : links' = [links EXCEPT ![c] = @ \cup {i}]
    /\ UNCHANGED <<concerns, investigations, hypotheses, opportunities, contradicted>>

Investigate(n) ==
    /\ investigations' = With(investigations, n, NullOrigin)
    /\ UNCHANGED <<concerns, links, hypotheses, opportunities, contradicted>>

\* A thread has one open investigation, which comes with its hypothesis.
InvestigateThread(n) ==
    /\ \E t \in Threads : IsFree(t) /\ investigations' = With(investigations, n, t)
    /\ hypotheses' = With(hypotheses, n, Proposal("proposed", <<n>>))
    /\ UNCHANGED <<concerns, links, opportunities, contradicted>>

Propose(n) ==
    /\ hypotheses' = With(hypotheses, n, Proposal("proposed", <<>>))
    /\ UNCHANGED <<concerns, links, investigations, opportunities, contradicted>>

MoveHypothesis(h) ==
    /\ \E to \in HypothesisTransitions[hypotheses[h].status], n \in Stamps :
          hypotheses' = [hypotheses EXCEPT ![h] = Moved(@, to, n)]
    /\ UNCHANGED <<concerns, links, investigations, opportunities, contradicted>>

NoteHypothesis(h) ==
    /\ \E n \in Stamps : hypotheses' = [hypotheses EXCEPT ![h] = Noted(@, n)]
    /\ UNCHANGED <<concerns, links, investigations, opportunities, contradicted>>

MoveOpportunity(o) ==
    /\ \E to \in OpportunityTransitions[opportunities[o].status], n \in Stamps :
          /\ to \in Advancing => o \notin contradicted
          /\ opportunities' = [opportunities EXCEPT ![o] = Moved(@, to, n)]
    /\ UNCHANGED <<concerns, links, investigations, hypotheses, contradicted>>

NoteOpportunity(o) ==
    /\ \E n \in Stamps : opportunities' = [opportunities EXCEPT ![o] = Noted(@, n)]
    /\ UNCHANGED <<concerns, links, investigations, hypotheses, contradicted>>

Contradict(o) ==
    /\ contradicted' = contradicted \cup {o}
    /\ UNCHANGED <<concerns, links, investigations, hypotheses, opportunities>>

\* A promotion may take back the last notes on its hypothesis, and no change of
\* its status.
PromoteHypothesis(h, n) ==
    /\ hypotheses[h].status = "proposed"
    /\ opportunities' = With(opportunities, n, OpportunityOf(h))
    /\ \E k \in 0..Len(hypotheses[h].audit) :
          hypotheses' = [hypotheses EXCEPT ![h] =
             Proposal("promoted", Append(SubSeq(@.audit, 1, k), n))]
    /\ UNCHANGED <<concerns, links, investigations, contradicted>>

\* The investigation, the hypothesis and the opportunity of a concern come with
\* its status, its link and its entry, or not at all.
PromoteConcern(c, n) ==
    /\ concerns[c].status \in Promotable
    /\ IsFree(EmptyOrigin)
    /\ concerns' = [concerns EXCEPT ![c] = [Moved(@, "promoted", n) EXCEPT !.promotion = n]]
    /\ links' = [links EXCEPT ![c] = @ \cup {n}]
    /\ investigations' = With(investigations, n, EmptyOrigin)
    /\ \/ /\ hypotheses' = With(hypotheses, n, Proposal("promoted", <<n>>))
          /\ opportunities' = With(opportunities, n, OpportunityOf(n))
       \/ /\ hypotheses' = With(hypotheses, n, Proposal("proposed", <<>>))
          /\ UNCHANGED opportunities
    /\ UNCHANGED contradicted

\* Reads, and commands that are refused.
ChangeNothing == UNCHANGED recordVars

Next ==
    \/ ChangeNothing
    \/ \E c \in Concerns : CreateConcern(c)
    \/ \E c \in DOMAIN concerns : MoveConcern(c) \/ Link(c)
    \/ \E h \in DOMAIN hypotheses : MoveHypothesis(h) \/ NoteHypothesis(h)
    \/ \E o \in DOMAIN opportunities :
          MoveOpportunity(o) \/ NoteOpportunity(o) \/ Contradict(o)
    \/ \E n \in Stamps \ Used :
          \/ Investigate(n) \/ InvestigateThread(n) \/ Propose(n)
          \/ \E h \in DOMAIN hypotheses : PromoteHypothesis(h, n)
          \/ \E c \in DOMAIN concerns : PromoteConcern(c, n)

Spec == Init /\ [][Next]_recordVars
=============================================================================

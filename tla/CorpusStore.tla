----------------------------- MODULE CorpusStore -----------------------------
(***************************************************************************)
(* What a corpus promises whoever uses it (docs/architecture.md, corpus    *)
(* lifecycle): one versioned content that is read and changed in whole     *)
(* transactions, and backups of contents it really had.  Files, logs,      *)
(* leases and the order in which they are handled do not appear.           *)
(***************************************************************************)
EXTENDS Naturals

CONSTANTS
    Processes,  \* users of the corpus
    Backups,    \* where backups may be kept
    Writes,     \* the transactions there may be
    Release     \* the schema version each process works with

VARIABLES
    content,    \* the schema version and the transactions
    generation, \* counts the contents that restores put in place
    users,      \* the processes that have the corpus open
    drafts,     \* the copies some processes have taken and not yet published
    copies      \* the published backups

storeVars == <<content, generation, users, drafts, copies>>

Nothing == [x \in {} |-> {}]
With(f, x, v) == [y \in DOMAIN f \cup {x} |-> IF y = x THEN v ELSE f[y]]
Without(f, x) == [y \in DOMAIN f \ {x} |-> f[y]]

Init ==
    /\ content \in [version : 0..2, writes : {{}}]
    /\ generation = 1 /\ users = {} /\ drafts = Nothing /\ copies = Nothing

Open(p) ==
    /\ content.version = Release[p]
    /\ users' = users \cup {p}
    /\ UNCHANGED <<content, generation, drafts, copies>>

Leave(p) ==
    /\ p \in users
    /\ users' = users \ {p}
    /\ UNCHANGED <<content, generation, drafts, copies>>

\* A transaction keeps what was committed before it.
Commit(p) ==
    /\ p \in users
    /\ \E w \in Writes : content' = [content EXCEPT !.writes = @ \cup {w}]
    /\ UNCHANGED <<generation, users, drafts, copies>>

TakeCopy(p) ==
    /\ drafts' = With(drafts, p, content)
    /\ UNCHANGED <<content, generation, users, copies>>

Discard(p) ==
    /\ p \in DOMAIN drafts
    /\ drafts' = Without(drafts, p)
    /\ UNCHANGED <<content, generation, users, copies>>

\* A backup replaces none.
Publish(p) ==
    /\ p \in DOMAIN drafts
    /\ \E b \in Backups \ DOMAIN copies : copies' = With(copies, b, drafts[p])
    /\ drafts' = Without(drafts, p)
    /\ UNCHANGED <<content, generation, users>>

\* The schema, and the whole content, change under nobody.
Upgrade(p) ==
    /\ users = {}
    /\ content.version < Release[p]
    /\ content' = [content EXCEPT !.version = @ + 1]
    /\ UNCHANGED <<generation, users, drafts, copies>>

Restore(p) ==
    /\ users = {}
    /\ \E b \in DOMAIN copies :
          copies[b].version <= Release[p] /\ content' = copies[b]
    /\ generation' = generation + 1
    /\ UNCHANGED <<users, drafts, copies>>

\* Reads, and what does not come to anything.
ChangeNothing == UNCHANGED storeVars

Next ==
    \/ ChangeNothing
    \/ \E p \in Processes :
          \/ Open(p) \/ Leave(p) \/ Commit(p)
          \/ TakeCopy(p) \/ Discard(p) \/ Publish(p)
          \/ Upgrade(p) \/ Restore(p)

Spec == Init /\ [][Next]_storeVars
=============================================================================

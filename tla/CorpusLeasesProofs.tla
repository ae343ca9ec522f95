------------------------- MODULE CorpusLeasesProofs -------------------------
(***************************************************************************)
(* What holds of the corpus file, its log, its lease and its backups for   *)
(* every number of processes, releases mixed in any way, backup paths,     *)
(* transactions and breakdowns.                                            *)
(***************************************************************************)
EXTENDS CorpusLeases, TLAPS
-----------------------------------------------------------------------------
(***************************************************************************)
(* The inductive invariant.  The lease excludes; each step of a process    *)
(* holds the lease it needs (Leased); and what a process has read of the   *)
(* file (Seen) and of the backups (Copied) still is so.                    *)
(***************************************************************************)
Exclusion ==
    \A p, q \in Processes : p # q /\ lease[p] = "exclusive" => lease[q] = "none"

ReplacingSteps == {"restore_checkpoint", "restore_sidecars", "restore_replace"}
RestoreSteps == ReplacingSteps \cup {"restore_stage"}
ExclusiveSteps == RestoreSteps \cup {"initialize", "migrate_open", "migrate"}
BackupSteps == {"backup_stage", "backup_publish", "backup_manifest"}
SharingSteps == {"open", "readonly", "reopen_validate", "readonly_validate"}

Leased(p) ==
    /\ at[p] \in ExclusiveSteps => lease[p] = "exclusive"
    /\ at[p] \in SharingSteps => lease[p] # "none"
    /\ at[p] = "open_recheck" =>
          lease[p] = IF local[p].needs THEN "exclusive" ELSE "shared"
    /\ at[p] \in BackupSteps =>
          /\ local[p].target \in Backups
          /\ \/ local[p].then = "return" /\ lease[p] = "shared"
             \/ local[p].then \in {"migrate_open", "restore_stage"} /\ lease[p] = "exclusive"
    /\ at[p] \in {"restore_acquire"} \cup RestoreSteps =>
          /\ local[p].source \in Backups
          /\ local[p].found => local[p].target \in Backups
    /\ at[p] \in BackupSteps /\ local[p].then = "restore_stage" =>
          local[p].source \in Backups

Seen(p) ==
    /\ at[p] \in {"open", "readonly"} =>
          local[p].file = db.id /\ Stored.version = Target(p)
    /\ at[p] \in {"initialize", "migrate"} => local[p].file = db.id /\ db.id # 0
    /\ at[p] \in ReplacingSteps => db.id < MaxFiles
    /\ at[p] = "restore_sidecars" /\ wal.of # 0 => db.content = wal.content
    /\ at[p] = "restore_replace" => wal.of = 0
    /\ at[p] \in {"backup_publish", "backup_manifest"} /\ local[p].then = "restore_stage" =>
          local[p].staged = Stored

SafetyCopy(b) ==
    backup[b].file /\ backup[b].manifest /\ Stored.writes \subseteq backup[b].content.writes

Copied(p) ==
    /\ at[p] = "backup_manifest" =>
          LET b == backup[local[p].target] IN
          b.file /\ ~b.manifest /\ b.content = local[p].staged
    /\ at[p] \in RestoreSteps /\ local[p].found => SafetyCopy(local[p].target)

Fits(p) == Leased(p) /\ Seen(p) /\ Copied(p)

OneManifest ==
    \A p, q \in Processes :
        at[p] = "backup_manifest" /\ at[q] = "backup_manifest"
        /\ local[p].target = local[q].target => p = q

NoFileIsEmpty == db.id = 0 => db.content = Empty

LeasesInv ==
    /\ LeasesTypeOK
    /\ Exclusion
    /\ \A p \in Processes : Fits(p)
    /\ OneManifest
    /\ DatabaseIsWhole /\ NoFileIsEmpty
    /\ BackupsAreWhole
    /\ WritesSurvive
-----------------------------------------------------------------------------
(***************************************************************************)
(* What a step of p may do to the others.                                  *)
(***************************************************************************)
Mine(p) ==
    \A q \in Processes : q # p =>
        at'[q] = at[q] /\ local'[q] = local[q] /\ lease'[q] = lease[q]

LeaseMove(p) ==
    \/ lease'[p] \in {lease[p], "none"}
    \/ lease'[p] = "shared" /\ CanShare
    \/ lease'[p] = "exclusive" /\ CanExclude

\* Under a shared lease, no file that is read is replaced and no backup that is
\* there is touched, except the one whose manifest p publishes.
Gentle(p) ==
    /\ lease[p] # "none"
    /\ \/ lease[p] = "exclusive"
       \/ /\ Stored'.version = Stored.version
          /\ db'.id = db.id \/ Stored.version = 0
          /\ \A b \in Backups :
                \/ backup'[b] = backup[b]
                \/ ~backup[b].file
                \/ at[p] = "backup_manifest" /\ local[p].target = b

ManifestMove(p) ==
    at'[p] = "backup_manifest" => ~backup[local'[p].target].file

LEMMA TargetRange == \A p : Target(p) \in {1, 2}
BY DEF Target

\* The two mutual exclusions are kept: that of the lease, and that of the
\* processes which publish a manifest.
LEMMA ExclusionsKept ==
    ASSUME LeasesInv, NEW p \in Processes,
           Mine(p), LeaseMove(p), ManifestMove(p)
    PROVE  Exclusion' /\ OneManifest'
<1>1. Exclusion'
  BY DEF Exclusion, Mine, LeaseMove, CanShare, CanExclude, LeasesInv
<1>2. OneManifest'
  <2> SUFFICES ASSUME NEW q \in Processes, NEW r \in Processes,
                      q # r, at'[q] = "backup_manifest", at'[r] = "backup_manifest",
                      local'[q].target = local'[r].target
               PROVE  FALSE
    BY DEF OneManifest
  <2>1. \A s \in Processes : s # p /\ at'[s] = "backup_manifest" =>
            at[s] = "backup_manifest" /\ backup[local'[s].target].file
    BY DEF Mine, LeasesInv, Fits, Copied
  <2>2. q # p /\ r # p => FALSE
    BY <2>1 DEF LeasesInv, OneManifest, Mine
  <2> QED  BY <2>1, <2>2 DEF ManifestMove
<1> QED  BY <1>1, <1>2

\* A step of p leaves what the others know of the file and the backups true.
LEMMA OthersFit ==
    ASSUME LeasesInv, NEW p \in Processes, NEW q \in Processes, q # p,
           Mine(p), UNCHANGED <<db, wal, backup>> \/ Gentle(p)
    PROVE  Fits(q)'
<1>1. at'[q] = at[q] /\ local'[q] = local[q] /\ lease'[q] = lease[q]
  BY DEF Mine
<1>2. Fits(q) /\ Exclusion /\ DatabaseIsWhole
  BY DEF LeasesInv
<1>3. Leased(q)'
  BY <1>1, <1>2 DEF Fits, Leased
<1>4. CASE UNCHANGED <<db, wal, backup>>
  BY <1>1, <1>2, <1>3, <1>4 DEF Fits, Seen, Copied, SafetyCopy, Stored
<1>5. CASE Gentle(p)
  <2>1. lease[q] # "exclusive"
    BY <1>2, <1>5 DEF Gentle, Exclusion
  <2>2. at[q] \notin ExclusiveSteps
    BY <1>2, <2>1 DEF Fits, Leased
  <2>3. at[q] \in {"backup_publish", "backup_manifest"} => local[q].then # "restore_stage"
    BY <1>2, <2>1 DEF Fits, Leased, BackupSteps
  <2>4. at[q] \in {"open", "readonly"} =>
            local[q].file = db'.id /\ Stored'.version = Target(q)
    <3> SUFFICES ASSUME at[q] \in {"open", "readonly"}
                 PROVE  local[q].file = db'.id /\ Stored'.version = Target(q)
      OBVIOUS
    <3>1. lease[p] # "exclusive"
      BY <1>2 DEF Fits, Leased, SharingSteps, Exclusion
    <3>2. local[q].file = db.id /\ Stored.version = Target(q)
      BY <1>2 DEF Fits, Seen
    <3> QED  BY <3>1, <3>2, <1>5, TargetRange DEF Gentle
  <2>5. Seen(q)'
    BY <1>1, <2>2, <2>3, <2>4 DEF Seen, ExclusiveSteps, RestoreSteps, ReplacingSteps, Target
  <2>6. Copied(q)'
    <3>1. ASSUME at[q] = "backup_manifest"
          PROVE  backup'[local[q].target] = backup[local[q].target]
      <4>1. local[q].target \in Backups /\ lease[q] # "none" /\ backup[local[q].target].file
        BY <1>2, <3>1 DEF Fits, Leased, Copied, BackupSteps
      <4>2. ~(at[p] = "backup_manifest" /\ local[p].target = local[q].target)
        BY <3>1 DEF LeasesInv, OneManifest
      <4> QED  BY <4>1, <4>2, <1>2, <1>5 DEF Gentle, Exclusion
    <3>2. at[q] \notin RestoreSteps
      BY <2>2 DEF ExclusiveSteps
    <3> QED  BY <1>1, <1>2, <3>1, <3>2 DEF Fits, Copied
  <2> QED  BY <1>3, <2>5, <2>6 DEF Fits
<1> QED  BY <1>4, <1>5

\* What is left to show of a step.
LEMMA StepKeeps ==
    ASSUME LeasesInv, NEW p \in Processes,
           LeasesTypeOK', Mine(p), LeaseMove(p), ManifestMove(p),
           UNCHANGED <<db, wal, backup>> \/ Gentle(p),
           Fits(p)',
           (DatabaseIsWhole /\ NoFileIsEmpty)', BackupsAreWhole', WritesSurvive'
    PROVE  LeasesInv'
<1>1. Exclusion' /\ OneManifest'
  BY ExclusionsKept
<1>2. \A q \in Processes : Fits(q)'
  BY OthersFit
<1> QED  BY <1>1, <1>2 DEF LeasesInv

\* A step that reads files at most.
LEMMA LocalStepKeeps ==
    ASSUME LeasesInv, NEW p \in Processes,
           LeasesTypeOK', Mine(p), LeaseMove(p), ManifestMove(p),
           UNCHANGED <<db, wal, backup, written, unguarded>>,
           Fits(p)'
    PROVE  LeasesInv'
<1>1. (DatabaseIsWhole /\ NoFileIsEmpty)' /\ BackupsAreWhole' /\ WritesSurvive'
  BY DEF LeasesInv, DatabaseIsWhole, NoFileIsEmpty, BackupsAreWhole, WritesSurvive, Survives, Stored
<1> QED  BY <1>1, StepKeeps
-----------------------------------------------------------------------------
(***************************************************************************)
(* The helpers of the model.                                               *)
(***************************************************************************)
LocalType ==
    [needs : BOOLEAN, file : 0..MaxFiles, target : Backups \cup {NoPath},
     source : Backups \cup {NoPath},
     then : {"none", "return", "migrate_open", "restore_stage"},
     staged : Content, found : BOOLEAN]
BackupType == [file : BOOLEAN, manifest : BOOLEAN, content : Content, claimed : Content]

LEMMA BackupUpdates ==
    ASSUME NEW r \in BackupType, NEW t \in BOOLEAN, NEW c \in Content
    PROVE  /\ [r EXCEPT !.file = t, !.content = c] \in BackupType
           /\ [r EXCEPT !.manifest = t, !.claimed = c] \in BackupType
<1>1. [r EXCEPT !.file = t, !.content = c] \in BackupType
  BY DEF BackupType
<1>2. [r EXCEPT !.manifest = t, !.claimed = c] \in BackupType
  BY DEF BackupType
<1> QED  BY <1>1, <1>2

LEMMA LocalUpdates ==
    ASSUME NEW r \in LocalType, NEW t \in BOOLEAN, NEW f \in 0..MaxFiles
    PROVE  [r EXCEPT !.needs = t, !.file = f] \in LocalType
<1>1. [r EXCEPT !.needs = t] \in LocalType
  BY DEF LocalType
<1>2. \A s \in LocalType : [s EXCEPT !.file = f] \in LocalType
  BY DEF LocalType
<1>3. [r EXCEPT !.needs = t, !.file = f] = [[r EXCEPT !.needs = t] EXCEPT !.file = f]
  OBVIOUS
<1> QED  BY <1>1, <1>2, <1>3

LEMMA ContentTypes ==
    ASSUME LeasesTypeOK
    PROVE  Stored \in Content /\ Empty \in Content
BY DEF LeasesTypeOK, Stored, Content, Empty

LEMMA NoOperationType == NoOperation \in LocalType
<1>1. 0 \in 0..MaxFiles
  BY LeasesAssumption
<1>2. Empty \in Content
  BY DEF Empty, Content
<1> QED  BY <1>1, <1>2 DEF NoOperation, LocalType

\* The deferred calls leave a process that holds and claims nothing.
LEMMA ReturnFits ==
    ASSUME LeasesTypeOK, NEW p \in Processes, Return(p)
    PROVE  /\ at' \in [Processes -> Steps]
           /\ local' \in [Processes -> LocalType]
           /\ lease' \in [Processes -> {"none", "shared", "exclusive"}]
           /\ Mine(p) /\ LeaseMove(p) /\ ManifestMove(p)
           /\ Fits(p)'
<1>1. at'[p] = "idle" /\ lease'[p] = "none"
  BY DEF Return, Goto, LeasesTypeOK
<1>2. at' \in [Processes -> Steps] /\ lease' \in [Processes -> {"none", "shared", "exclusive"}]
  BY DEF Return, Goto, LeasesTypeOK, Steps
<1>3. local' \in [Processes -> LocalType]
  BY NoOperationType DEF Return, LeasesTypeOK, LocalType
<1>4. Mine(p)
  BY DEF Mine, Return, Goto, LeasesTypeOK
<1>5. Fits(p)'
  BY <1>1 DEF Fits, Leased, Seen, Copied, ExclusiveSteps, SharingSteps, RestoreSteps,
              ReplacingSteps, BackupSteps
<1> QED  BY <1>1, <1>2, <1>3, <1>4, <1>5 DEF LeaseMove, ManifestMove

\* Folding the log changes nothing that is read.
LEMMA CloseKeeps ==
    ASSUME LeasesInv, NEW p \in Processes, CloseConnection(p)
    PROVE  /\ db' \in [id : 0..MaxFiles, content : Content]
           /\ wal' \in [of : 0..MaxFiles, content : Content]
           /\ Stored' = Stored /\ db'.id = db.id
           /\ DatabaseIsWhole' /\ NoFileIsEmpty'
           /\ UNCHANGED <<db, wal>> \/ at[p] \in Connected
<1>1. LeasesTypeOK /\ DatabaseIsWhole /\ NoFileIsEmpty /\ 0 \in 0..MaxFiles
  BY LeasesAssumption DEF LeasesInv
<1>2. CASE UNCHANGED <<db, wal>>
  BY <1>1, <1>2 DEF LeasesTypeOK, Stored, DatabaseIsWhole, NoFileIsEmpty
<1>3. CASE /\ Connections = {p} /\ wal.of # 0
           /\ db' = [db EXCEPT !.content = Stored]
           /\ wal' = [of |-> 0, content |-> Empty]
  <2>1. db.id # 0
    BY <1>1, <1>3 DEF DatabaseIsWhole
  <2>2. at[p] \in Connected
    BY <1>3 DEF Connections
  <2>3. db' \in [id : 0..MaxFiles, content : Content] /\ db'.id = db.id /\ db'.content = Stored
    BY <1>1, <1>3, ContentTypes DEF LeasesTypeOK
  <2>4. wal' \in [of : 0..MaxFiles, content : Content] /\ wal'.of = 0
    BY <1>1, <1>3, ContentTypes
  <2>5. Stored' = Stored
    BY <2>3, <2>4 DEF Stored
  <2> QED  BY <2>1, <2>2, <2>3, <2>4, <2>5 DEF DatabaseIsWhole, NoFileIsEmpty
<1> QED  BY <1>2, <1>3 DEF CloseConnection

\* A transaction of a connection to the file at the path.
LEMMA CommitStores ==
    ASSUME LeasesInv, NEW p \in Processes, NEW c \in Content, Commit(p, c), UNCHANGED db,
           local[p].file = db.id, db.id # 0
    PROVE  /\ wal' \in [of : 0..MaxFiles, content : Content]
           /\ Stored' = c
           /\ DatabaseIsWhole' /\ NoFileIsEmpty'
BY DEF Commit, Stored, LeasesInv, LeasesTypeOK, DatabaseIsWhole, NoFileIsEmpty

\* An empty file is what a missing one reads as.
LEMMA PrepareKeeps ==
    ASSUME LeasesInv, PrepareFile, UNCHANGED wal
    PROVE  /\ db' \in [id : 0..MaxFiles, content : Content]
           /\ db'.id # 0
           /\ Stored' = Stored
           /\ DatabaseIsWhole' /\ NoFileIsEmpty'
           /\ db' = db \/ Stored.version = 0
<1>1. LeasesTypeOK /\ DatabaseIsWhole /\ NoFileIsEmpty /\ Empty \in Content /\ 1 \in 0..MaxFiles
  BY ContentTypes, LeasesAssumption DEF LeasesInv
<1>2. CASE db.id = 0
  <2>1. db' = [id |-> 1, content |-> Empty]
    BY <1>2 DEF PrepareFile
  <2>2. wal.of = 0 /\ Stored = Empty /\ Empty.version = 0
    BY <1>1, <1>2 DEF DatabaseIsWhole, NoFileIsEmpty, Stored, Empty
  <2> QED  BY <1>1, <2>1, <2>2 DEF Stored, DatabaseIsWhole, NoFileIsEmpty
<1>3. CASE db.id # 0
  BY <1>1, <1>3 DEF PrepareFile, Stored, DatabaseIsWhole, NoFileIsEmpty, LeasesTypeOK
<1> QED  BY <1>2, <1>3

\* Nothing is lost while the corpus and the restorable backups only grow.
LEMMA SurvivalKept ==
    ASSUME LeasesInv, NEW new,
           written' \ unguarded' \subseteq (written \ unguarded) \cup new,
           Stored.writes \cup new \subseteq Stored'.writes,
           \A b \in Backups : backup[b].file /\ backup[b].manifest =>
               /\ backup'[b].file /\ backup'[b].manifest
               /\ backup'[b].content = backup[b].content
    PROVE  WritesSurvive'
BY DEF LeasesInv, WritesSurvive, Survives
-----------------------------------------------------------------------------
(***************************************************************************)
(* A step of p is a new place, new local variables and a new hold of the   *)
(* lease.  The first lemmas are for the steps that leave the files alone.  *)
(***************************************************************************)
Holds == {"none", "shared", "exclusive"}

Moves(p, step, l, m) ==
    /\ at' = [at EXCEPT ![p] = step]
    /\ local' = [local EXCEPT ![p] = l]
    /\ lease' = [lease EXCEPT ![p] = m]

MayHold(p, m) ==
    \/ m \in {lease[p], "none"}
    \/ m = "shared" /\ CanShare
    \/ m = "exclusive" /\ CanExclude

LEMMA MoveFrame ==
    ASSUME LeasesTypeOK, NEW p \in Processes, NEW step \in Steps, NEW l \in LocalType,
           NEW m \in Holds, Moves(p, step, l, m)
    PROVE  /\ at' \in [Processes -> Steps]
           /\ local' \in [Processes -> LocalType]
           /\ lease' \in [Processes -> Holds]
           /\ Mine(p)
           /\ at'[p] = step /\ local'[p] = l /\ lease'[p] = m
BY DEF LeasesTypeOK, LocalType, Mine, Moves, Holds

LEMMA MyTypes ==
    ASSUME LeasesTypeOK, NEW p \in Processes
    PROVE  at[p] \in Steps /\ local[p] \in LocalType /\ lease[p] \in Holds
BY DEF LeasesTypeOK, LocalType, Holds

LEMMA LocalMoveKeeps ==
    ASSUME LeasesInv, NEW p \in Processes, NEW step \in Steps, NEW l \in LocalType,
           NEW m \in Holds, Moves(p, step, l, m), MayHold(p, m),
           UNCHANGED <<db, wal, backup, written, unguarded, breakdowns>>,
           step # "backup_manifest",
           at'[p] = step /\ local'[p] = l /\ lease'[p] = m => Fits(p)'
    PROVE  LeasesInv'
<1>1. LeasesTypeOK
  BY DEF LeasesInv
<1>2. /\ at' \in [Processes -> Steps]
      /\ local' \in [Processes -> LocalType]
      /\ lease' \in [Processes -> Holds]
      /\ Mine(p)
      /\ at'[p] = step /\ local'[p] = l /\ lease'[p] = m
  BY <1>1, MoveFrame
<1>3. LeasesTypeOK'
  BY <1>1, <1>2 DEF LeasesTypeOK, LocalType, Holds
<1>4. LeaseMove(p) /\ ManifestMove(p)
  BY <1>2 DEF LeaseMove, ManifestMove, MayHold
<1> QED  BY <1>2, <1>3, <1>4, LocalStepKeeps

LEMMA ReturnKeeps ==
    ASSUME LeasesInv, NEW p \in Processes, Return(p), breakdowns' \in 0..MaxBreakdowns,
           UNCHANGED <<db, wal, backup, written, unguarded>>
    PROVE  LeasesInv'
<1>1. LeasesTypeOK
  BY DEF LeasesInv
<1>2. LeasesTypeOK'
  BY <1>1, ReturnFits DEF LeasesTypeOK, LocalType
<1> QED  BY <1>1, <1>2, ReturnFits, LocalStepKeeps

\* The operation closes its connection and returns.
LEMMA CloseReturnKeeps ==
    ASSUME LeasesInv, NEW p \in Processes, CloseConnection(p), Return(p), breakdowns' \in 0..MaxBreakdowns,
           UNCHANGED <<backup, written, unguarded>>
    PROVE  LeasesInv'
<1>1. LeasesTypeOK /\ Fits(p)
  BY DEF LeasesInv
<1>2. LeasesTypeOK'
  BY <1>1, ReturnFits, CloseKeeps DEF LeasesTypeOK, LocalType
<1>3. UNCHANGED <<db, wal, backup>> \/ Gentle(p)
  BY <1>1, CloseKeeps DEF Gentle, Connected, Fits, Leased, ExclusiveSteps, SharingSteps
<1>4. BackupsAreWhole' /\ WritesSurvive'
  BY CloseKeeps DEF LeasesInv, BackupsAreWhole, WritesSurvive, Survives
<1> QED  BY <1>1, <1>2, <1>3, <1>4, ReturnFits, CloseKeeps, StepKeeps

\* The file is made if there is none.
LEMMA PrepareMoveKeeps ==
    ASSUME LeasesInv, NEW p \in Processes, PrepareFile, lease[p] # "none",
           at' \in [Processes -> Steps], local' \in [Processes -> LocalType],
           lease' \in [Processes -> Holds],
           Mine(p), LeaseMove(p), ManifestMove(p), Fits(p)',
           UNCHANGED <<wal, backup, written, unguarded, breakdowns>>
    PROVE  LeasesInv'
<1>1. LeasesTypeOK
  BY DEF LeasesInv
<1>2. LeasesTypeOK'
  BY <1>1, PrepareKeeps DEF LeasesTypeOK, LocalType, Holds
<1>3. Gentle(p)
  BY PrepareKeeps DEF Gentle
<1>4. BackupsAreWhole' /\ WritesSurvive'
  BY PrepareKeeps DEF LeasesInv, BackupsAreWhole, WritesSurvive, Survives
<1> QED  BY <1>2, <1>3, <1>4, PrepareKeeps, StepKeeps

\* A transaction that keeps what was written.
LEMMA CommitKeeps ==
    ASSUME LeasesInv, NEW p \in Processes, NEW c \in Content, Commit(p, c),
           local[p].file = db.id, db.id # 0,
           \/ lease[p] = "exclusive" /\ at[p] \in {"initialize", "migrate"}
           \/ lease[p] # "none" /\ at[p] = "open" /\ c.version = Stored.version,
           written' \subseteq Writes, written' \subseteq written \cup c.writes,
           Stored.writes \subseteq c.writes,
           UNCHANGED <<db, lease, backup, at, local, unguarded, breakdowns>>
    PROVE  LeasesInv'
<1>1. LeasesTypeOK /\ Fits(p)
  BY DEF LeasesInv
<1>2. /\ wal' \in [of : 0..MaxFiles, content : Content]
      /\ Stored' = c
      /\ DatabaseIsWhole' /\ NoFileIsEmpty'
  BY CommitStores
<1>3. LeasesTypeOK'
  BY <1>1, <1>2 DEF LeasesTypeOK
<1>4. Mine(p) /\ LeaseMove(p) /\ ManifestMove(p)
  BY DEF Mine, LeaseMove, ManifestMove
<1>5. Gentle(p)
  BY <1>2 DEF Gentle
<1>6. Fits(p)'
  BY <1>1, <1>2 DEF Fits, Leased, Seen, Copied, ExclusiveSteps, SharingSteps, RestoreSteps,
                    ReplacingSteps, BackupSteps, Target
<1>7. WritesSurvive'
  BY <1>2, SurvivalKept
<1>8. BackupsAreWhole'
  BY DEF LeasesInv, BackupsAreWhole
<1> QED  BY <1>2, <1>3, <1>4, <1>5, <1>6, <1>7, <1>8, StepKeeps
-----------------------------------------------------------------------------
(***************************************************************************)
(* The steps that open a corpus.                                           *)
(***************************************************************************)
\* Where a process has not looked at anything under its lease yet.
LEMMA FreshFits ==
    ASSUME NEW p \in Processes,
           \/ at'[p] \in {"open_acquire", "reopen", "readonly_acquire", "migrate_acquire"}
           \/ at'[p] = "open_recheck" /\ lease'[p] = IF local'[p].needs THEN "exclusive" ELSE "shared"
           \/ at'[p] \in {"readonly_validate", "reopen_validate"} /\ lease'[p] # "none"
    PROVE  Fits(p)'
BY DEF Fits, Leased, Seen, Copied, ExclusiveSteps, SharingSteps, RestoreSteps,
       ReplacingSteps, BackupSteps

LEMMA InspectionsKeep ==
    ASSUME LeasesInv, NEW p \in Processes,
           \/ OpenInspect(p) \/ OpenAcquire(p)
           \/ ReadOnlyInspect(p) \/ ReadOnlyAcquire(p) \/ Reopen(p)
    PROVE  LeasesInv'
<1>1. LeasesTypeOK
  BY DEF LeasesInv
<1>2. CASE OpenInspect(p)
  <2> DEFINE l == [local[p] EXCEPT !.needs = NeedsInitialization]
  <2>1. l \in LocalType
    <3>1. \A b \in BOOLEAN : [local[p] EXCEPT !.needs = b] \in LocalType
      BY <1>1 DEF LeasesTypeOK, LocalType
    <3>2. NeedsInitialization \in BOOLEAN
      BY DEF NeedsInitialization
    <3> QED  BY <3>1, <3>2
  <2>2. Moves(p, "open_acquire", l, lease[p])
    BY <1>1, <1>2 DEF OpenInspect, Goto, LeasesTypeOK, Moves
  <2> HIDE DEF l
  <2> QED  BY <1>1, <1>2, <2>1, <2>2, MyTypes, FreshFits, LocalMoveKeeps
           DEF OpenInspect, Steps, MayHold
<1>3. CASE OpenAcquire(p)
  <2> DEFINE m == IF local[p].needs THEN "exclusive" ELSE "shared"
  <2>1. Moves(p, "open_recheck", local[p], m)
    BY <1>1, <1>3 DEF OpenAcquire, Goto, LeasesTypeOK, Moves
  <2>2. m \in Holds /\ MayHold(p, m)
    BY <1>3 DEF OpenAcquire, Holds, MayHold
  <2>3. at'[p] = "open_recheck" /\ local'[p] = local[p] /\ lease'[p] = m => Fits(p)'
    BY FreshFits
  <2> HIDE DEF m
  <2> QED  BY <1>1, <1>3, <2>1, <2>2, <2>3, MyTypes, LocalMoveKeeps DEF OpenAcquire, Steps
<1>4. CASE ReadOnlyInspect(p)
  <2>1. Moves(p, "readonly_acquire", local[p], lease[p])
    BY <1>1, <1>4 DEF ReadOnlyInspect, Goto, LeasesTypeOK, Moves
  <2> QED  BY <1>1, <1>4, <2>1, MyTypes, FreshFits, LocalMoveKeeps
           DEF ReadOnlyInspect, Steps, MayHold
<1>5. CASE ReadOnlyAcquire(p)
  <2>1. Moves(p, "readonly_validate", local[p], "shared")
    BY <1>1, <1>5 DEF ReadOnlyAcquire, Goto, LeasesTypeOK, Moves
  <2> QED  BY <1>1, <1>5, <2>1, MyTypes, FreshFits, LocalMoveKeeps
           DEF ReadOnlyAcquire, Steps, MayHold, Holds
<1>6. CASE Reopen(p)
  <2>1. Moves(p, "reopen_validate", local[p], "shared")
    BY <1>1, <1>6 DEF Reopen, Goto, LeasesTypeOK, Moves
  <2> QED  BY <1>1, <1>6, <2>1, MyTypes, FreshFits, LocalMoveKeeps
           DEF Reopen, Steps, MayHold, Holds
<1> QED  BY <1>2, <1>3, <1>4, <1>5, <1>6

\* An open handle is one to a file that was validated under the lease.
LEMMA HandleFits ==
    ASSUME NEW p \in Processes, lease'[p] # "none",
           at'[p] \in {"open", "readonly"},
           local'[p].file = db.id, Stored.version = Target(p),
           UNCHANGED <<db, wal>>
    PROVE  Fits(p)'
BY DEF Fits, Leased, Seen, Copied, ExclusiveSteps, SharingSteps, RestoreSteps,
       ReplacingSteps, BackupSteps, Stored, Target

LEMMA ValidationsKeep ==
    ASSUME LeasesInv, NEW p \in Processes,
           OpenCurrent(p) \/ ReopenValidate(p) \/ ReadOnlyValidate(p)
    PROVE  LeasesInv'
<1>1. LeasesTypeOK /\ Fits(p)
  BY DEF LeasesInv
<1>2. breakdowns' \in 0..MaxBreakdowns /\ UNCHANGED <<db, wal, backup, written, unguarded>>
  BY <1>1 DEF OpenCurrent, ReopenValidate, ReadOnlyValidate, LeasesTypeOK
<1>3. CASE Return(p)
  BY <1>2, <1>3, ReturnKeeps
<1>4. CASE ~Return(p)
  <2> DEFINE l == [local[p] EXCEPT !.file = db.id]
  <2>1. l \in LocalType /\ l.file = db.id
    BY <1>1 DEF LeasesTypeOK, LocalType
  <2>2. lease[p] # "none"
    BY <1>1 DEF OpenCurrent, ReopenValidate, ReadOnlyValidate, Fits, Leased, SharingSteps
  <2>3. Stored.version = Target(p)
    BY <1>4 DEF OpenCurrent, ReopenValidate, ReadOnlyValidate
  <2>4. Moves(p, "open", l, lease[p]) \/ Moves(p, "readonly", l, lease[p])
    BY <1>1, <1>4 DEF OpenCurrent, ReopenValidate, ReadOnlyValidate, Goto, LeasesTypeOK, Moves
  <2>5. UNCHANGED breakdowns
    BY DEF OpenCurrent, ReopenValidate, ReadOnlyValidate
  <2> HIDE DEF l
  <2>6. ASSUME NEW step \in {"open", "readonly"}, Moves(p, step, l, lease[p])
        PROVE  LeasesInv'
    <3>1. at'[p] = step /\ local'[p] = l /\ lease'[p] = lease[p] => Fits(p)'
      BY <1>2, <2>1, <2>2, <2>3, HandleFits
    <3>2. step \in Steps /\ step # "backup_manifest" /\ MayHold(p, lease[p])
      BY DEF Steps, MayHold
    <3> QED  BY <1>1, <1>2, <2>1, <2>5, <2>6, <3>1, <3>2, MyTypes, LocalMoveKeeps
  <2> QED  BY <2>4, <2>6
<1> QED  BY <1>3, <1>4

LEMMA OpenUninitializedKeeps ==
    ASSUME LeasesInv, NEW p \in Processes, OpenUninitialized(p)
    PROVE  LeasesInv'
<1>1. LeasesTypeOK /\ Fits(p)
  BY DEF LeasesInv
<1>2. at[p] = "open_recheck" /\ lease[p] # "none" /\ PrepareFile
      /\ UNCHANGED <<wal, backup, written, unguarded, breakdowns>>
  BY <1>1 DEF OpenUninitialized, Fits, Leased
<1>3. CASE ~local[p].needs
  <2>1. Return(p)
    BY <1>3 DEF OpenUninitialized
  <2> QED  BY <1>1, <1>2, <2>1, ReturnFits, PrepareMoveKeeps DEF Holds
<1>4. CASE local[p].needs
  <2> DEFINE l == [local[p] EXCEPT !.file = db'.id]
  <2>1. db' \in [id : 0..MaxFiles, content : Content] /\ db'.id # 0
    BY <1>2, PrepareKeeps
  <2>2. l \in LocalType /\ l.file = db'.id
    BY <1>1, <2>1 DEF LeasesTypeOK, LocalType
  <2>3. lease[p] = "exclusive"
    BY <1>1, <1>2, <1>4 DEF Fits, Leased
  <2>4. Moves(p, "initialize", l, "exclusive")
    BY <1>1, <1>4, <2>3 DEF OpenUninitialized, Goto, LeasesTypeOK, Moves
  <2> HIDE DEF l
  <2>5. /\ at' \in [Processes -> Steps]
        /\ local' \in [Processes -> LocalType]
        /\ lease' \in [Processes -> Holds]
        /\ Mine(p)
        /\ at'[p] = "initialize" /\ local'[p] = l /\ lease'[p] = "exclusive"
    BY <1>1, <2>2, <2>4, MoveFrame DEF Steps, Holds
  <2>6. Fits(p)'
    BY <2>1, <2>2, <2>5 DEF Fits, Leased, Seen, Copied, ExclusiveSteps, SharingSteps,
        RestoreSteps, ReplacingSteps, BackupSteps
  <2> QED  BY <1>2, <2>3, <2>5, <2>6, PrepareMoveKeeps DEF LeaseMove, ManifestMove
<1> QED  BY <1>3, <1>4

LEMMA InitializationKeeps ==
    ASSUME LeasesInv, NEW p \in Processes, Initialize(p) \/ Migrate(p)
    PROVE  LeasesInv'
<1>1. LeasesTypeOK /\ Fits(p)
  BY DEF LeasesInv
<1>2. at[p] \in {"initialize", "migrate"} /\ Stored.version < Target(p) /\ Commit(p, NextVersion)
      /\ UNCHANGED <<db, lease, backup, at, local, written, unguarded, breakdowns>>
  BY DEF Initialize, Migrate
<1>3. lease[p] = "exclusive" /\ local[p].file = db.id /\ db.id # 0
  BY <1>1, <1>2 DEF Fits, Leased, Seen, ExclusiveSteps
<1>4. NextVersion \in Content /\ NextVersion.writes = Stored.writes
  BY <1>1, <1>2, ContentTypes, TargetRange DEF NextVersion, Content
<1> HIDE DEF NextVersion
<1>5. written' \subseteq Writes /\ written' \subseteq written
  BY <1>1, <1>2 DEF LeasesTypeOK
<1> QED  BY <1>2, <1>3, <1>4, <1>5, CommitKeeps

LEMMA WriteKeeps ==
    ASSUME LeasesInv, NEW p \in Processes, Write(p)
    PROVE  LeasesInv'
<1>1. LeasesTypeOK /\ Fits(p) /\ DatabaseIsWhole /\ NoFileIsEmpty
  BY DEF LeasesInv
<1>2. PICK w \in Writes \ written :
          /\ written' = written \cup {w}
          /\ Commit(p, [Stored EXCEPT !.writes = @ \cup {w}])
  BY DEF Write
<1> DEFINE c == [Stored EXCEPT !.writes = @ \cup {w}]
<1>3. at[p] = "open" /\ lease[p] # "none" /\ local[p].file = db.id /\ Stored.version = Target(p)
  BY <1>1 DEF Write, Fits, Leased, Seen, SharingSteps
<1>4. db.id # 0
  BY <1>1, <1>3, TargetRange DEF DatabaseIsWhole, NoFileIsEmpty, Stored, Empty
<1>5. c \in Content /\ c.version = Stored.version /\ c.writes = Stored.writes \cup {w}
  BY <1>1, ContentTypes DEF Content
<1>6. Commit(p, c)
  BY <1>2
<1> HIDE DEF c
<1>7. written' \subseteq Writes /\ written' \subseteq written \cup c.writes
  BY <1>1, <1>2, <1>5 DEF LeasesTypeOK
<1>8. Stored.writes \subseteq c.writes
  BY <1>5
<1> QED  BY <1>3, <1>4, <1>5, <1>6, <1>7, <1>8, CommitKeeps DEF Write

LEMMA HandOffKeeps ==
    ASSUME LeasesInv, NEW p \in Processes, HandOff(p)
    PROVE  LeasesInv'
<1>1. LeasesTypeOK /\ Fits(p)
  BY DEF LeasesInv
<1> DEFINE l == [local[p] EXCEPT !.needs = FALSE, !.file = 0]
<1>2. l \in LocalType
  <2>1. 0 \in 0..MaxFiles
    BY LeasesAssumption
  <2> QED  BY <1>1, <2>1, MyTypes, LocalUpdates
<1>3. Moves(p, "reopen", l, "none")
  BY <1>1 DEF HandOff, Goto, LeasesTypeOK, Moves
<1> HIDE DEF l
<1>4. /\ at' \in [Processes -> Steps]
      /\ local' \in [Processes -> LocalType]
      /\ lease' \in [Processes -> Holds]
      /\ Mine(p)
      /\ at'[p] = "reopen" /\ local'[p] = l /\ lease'[p] = "none"
  BY <1>1, <1>2, <1>3, MoveFrame DEF Steps, Holds
<1>5. CloseConnection(p) /\ UNCHANGED <<backup, written, unguarded, breakdowns>> /\ lease[p] = "exclusive"
  BY <1>1 DEF HandOff, Fits, Leased, ExclusiveSteps
<1>6. LeasesTypeOK'
  BY <1>1, <1>4, <1>5, CloseKeeps DEF LeasesTypeOK, LocalType, Holds
<1>7. Gentle(p)
  BY <1>5 DEF Gentle
<1>8. BackupsAreWhole' /\ WritesSurvive'
  BY <1>5, CloseKeeps DEF LeasesInv, BackupsAreWhole, WritesSurvive, Survives
<1>9. LeaseMove(p) /\ ManifestMove(p) /\ Fits(p)'
  BY <1>4, FreshFits DEF LeaseMove, ManifestMove
<1> QED  BY <1>4, <1>5, <1>6, <1>7, <1>8, <1>9, CloseKeeps, StepKeeps

LEMMA CloseKeepsInv ==
    ASSUME LeasesInv, NEW p \in Processes,
           Close(p) \/ MigrateDone(p) \/ Fails(p)
    PROVE  LeasesInv'
<1>1. CloseConnection(p) /\ Return(p) /\ UNCHANGED <<backup, written, unguarded>>
  BY DEF Close, MigrateDone, Fails
<1>2. breakdowns' \in 0..MaxBreakdowns
  BY LeasesAssumption DEF Close, MigrateDone, Fails, LeasesInv, LeasesTypeOK
<1> QED  BY <1>1, <1>2, CloseReturnKeeps

LEMMA AbandonKeeps ==
    ASSUME LeasesInv, NEW p \in Processes, Busy(p) \/ ProcessDies(p)
    PROVE  LeasesInv'
<1>1. Return(p) /\ UNCHANGED <<db, wal, backup, written, unguarded>>
  BY DEF Busy, ProcessDies
<1>2. breakdowns' \in 0..MaxBreakdowns
  BY LeasesAssumption DEF Busy, ProcessDies, LeasesInv, LeasesTypeOK
<1> QED  BY <1>1, <1>2, ReturnKeeps
-----------------------------------------------------------------------------
(***************************************************************************)
(* Backups.                                                                *)
(***************************************************************************)
LEMMA BackupAcquireKeeps ==
    ASSUME LeasesInv, NEW p \in Processes, BackupAcquire(p)
    PROVE  LeasesInv'
<1>1. LeasesTypeOK
  BY DEF LeasesInv
<1>2. PICK b \in Backups : local' = [local EXCEPT ![p].target = b, ![p].then = "return"]
  BY DEF BackupAcquire
<1> DEFINE l == [local[p] EXCEPT !.target = b, !.then = "return"]
<1>3. l \in LocalType /\ l.target = b /\ l.then = "return"
  BY <1>1 DEF LeasesTypeOK, LocalType
<1>4. Moves(p, "backup_stage", l, "shared")
  BY <1>1, <1>2 DEF BackupAcquire, Goto, LeasesTypeOK, Moves
<1> HIDE DEF l
<1>5. at'[p] = "backup_stage" /\ local'[p] = l /\ lease'[p] = "shared" => Fits(p)'
  BY <1>3 DEF Fits, Leased, Seen, Copied, ExclusiveSteps, SharingSteps,
        RestoreSteps, ReplacingSteps, BackupSteps
<1> QED  BY <1>1, <1>3, <1>4, <1>5, MyTypes, LocalMoveKeeps
         DEF BackupAcquire, Steps, MayHold, Holds

LEMMA BackupStageKeeps ==
    ASSUME LeasesInv, NEW p \in Processes, BackupStage(p)
    PROVE  LeasesInv'
<1>1. LeasesTypeOK /\ Fits(p)
  BY DEF LeasesInv
<1>2. CASE Return(p)
  BY <1>1, <1>2, ReturnKeeps DEF BackupStage, LeasesTypeOK
<1>3. CASE ~Return(p)
  <2> DEFINE l == [local[p] EXCEPT !.staged = Stored]
  <2>1. /\ l \in LocalType /\ l.staged = Stored /\ l.target = local[p].target
        /\ l.then = local[p].then /\ l.found = local[p].found
        /\ l.source = local[p].source
    BY <1>1, ContentTypes DEF LeasesTypeOK, LocalType
  <2>2. Moves(p, "backup_publish", l, lease[p])
    BY <1>1, <1>3 DEF BackupStage, Goto, LeasesTypeOK, Moves
  <2> HIDE DEF l
  <2>3. at'[p] = "backup_publish" /\ local'[p] = l /\ lease'[p] = lease[p] => Fits(p)'
    BY <1>1, <2>1 DEF BackupStage, Fits, Leased, Seen, Copied, ExclusiveSteps, SharingSteps,
        RestoreSteps, ReplacingSteps, BackupSteps, Stored
  <2> QED  BY <1>1, <2>1, <2>2, <2>3, MyTypes, LocalMoveKeeps DEF BackupStage, Steps, MayHold
<1> QED  BY <1>2, <1>3

LEMMA BackupPublishKeeps ==
    ASSUME LeasesInv, NEW p \in Processes, BackupPublish(p)
    PROVE  LeasesInv'
<1> DEFINE b == local[p].target
<1>1. LeasesTypeOK /\ Fits(p) /\ BackupsAreWhole
  BY DEF LeasesInv
<1>2. at[p] = "backup_publish" /\ UNCHANGED <<db, wal, written, unguarded, breakdowns>>
  BY DEF BackupPublish
<1>3. CASE backup[b].file
  BY <1>1, <1>2, <1>3, ReturnKeeps DEF BackupPublish, LeasesTypeOK
<1>4. CASE ~backup[b].file
  <2>1. b \in Backups /\ lease[p] # "none"
    BY <1>1, <1>2 DEF Fits, Leased, BackupSteps
  <2>2. backup' = [backup EXCEPT ![b].file = TRUE, ![b].content = local[p].staged]
        /\ UNCHANGED <<lease, local>> /\ at' = [at EXCEPT ![p] = "backup_manifest"]
    BY <1>4 DEF BackupPublish, Goto
  <2>3. at' \in [Processes -> Steps] /\ at'[p] = "backup_manifest" /\ Mine(p)
    BY <1>1, <2>2 DEF LeasesTypeOK, Steps, Mine
  <2>4. backup' \in [Backups -> BackupType]
    <3>1. backup \in [Backups -> BackupType] /\ local[p].staged \in Content
      BY <1>1, MyTypes DEF LeasesTypeOK, BackupType, LocalType
    <3> QED  BY <2>1, <2>2, <3>1, BackupUpdates
  <2>5. /\ \A a \in Backups : a # b => backup'[a] = backup[a]
        /\ backup'[b].file /\ backup'[b].content = local[p].staged
        /\ backup'[b].manifest = backup[b].manifest
    BY <1>1, <2>1, <2>2 DEF LeasesTypeOK
  <2>6. ~backup[b].manifest
    BY <1>1, <1>4, <2>1 DEF BackupsAreWhole
  <2>7. LeasesTypeOK'
    BY <1>1, <1>2, <2>2, <2>3, <2>4 DEF LeasesTypeOK, BackupType
  <2>8. Fits(p)'
    BY <1>1, <1>2, <2>2, <2>3, <2>5, <2>6 DEF Fits, Leased, Seen, Copied, ExclusiveSteps,
        SharingSteps, RestoreSteps, ReplacingSteps, BackupSteps, Stored
  <2>9. Gentle(p)
    BY <1>2, <1>4, <2>1, <2>5 DEF Gentle, Stored
  <2>10. BackupsAreWhole'
    BY <1>1, <2>5, <2>6 DEF BackupsAreWhole
  <2>11. WritesSurvive'
    BY <1>2, <1>4, <2>5, SurvivalKept DEF Stored
  <2>12. (DatabaseIsWhole /\ NoFileIsEmpty)'
    BY <1>2 DEF LeasesInv, DatabaseIsWhole, NoFileIsEmpty
  <2>13. LeaseMove(p) /\ ManifestMove(p)
    BY <1>4, <2>2 DEF LeaseMove, ManifestMove
  <2> QED  BY <2>3, <2>7, <2>8, <2>9, <2>10, <2>11, <2>12, <2>13, StepKeeps
<1> QED  BY <1>3, <1>4

\* A backup without its manifest is removed again.
LEMMA BackupManifestFailsKeeps ==
    ASSUME LeasesInv, NEW p \in Processes, BackupManifestFails(p)
    PROVE  LeasesInv'
<1> DEFINE b == local[p].target
<1>1. LeasesTypeOK /\ Fits(p) /\ BackupsAreWhole
  BY DEF LeasesInv
<1>2. /\ at[p] = "backup_manifest" /\ Return(p)
      /\ UNCHANGED <<db, wal, written, unguarded>>
      /\ backup' = [backup EXCEPT ![b].file = FALSE, ![b].content = Empty]
  BY DEF BackupManifestFails
<1>3. b \in Backups /\ lease[p] # "none" /\ ~backup[b].manifest
  BY <1>1, <1>2 DEF Fits, Leased, Copied, BackupSteps
<1>4. breakdowns' \in 0..MaxBreakdowns
  BY <1>1, LeasesAssumption DEF BackupManifestFails, LeasesTypeOK
<1>5. backup' \in [Backups -> BackupType]
  <2>1. backup \in [Backups -> BackupType] /\ Empty \in Content
    BY <1>1, ContentTypes DEF LeasesTypeOK, BackupType
  <2> QED  BY <1>2, <1>3, <2>1, BackupUpdates
<1>6. /\ \A a \in Backups : a # b => backup'[a] = backup[a]
      /\ backup'[b].manifest = backup[b].manifest
  BY <1>1, <1>2, <1>3 DEF LeasesTypeOK
<1>7. LeasesTypeOK'
  BY <1>1, <1>2, <1>4, <1>5, ReturnFits DEF LeasesTypeOK, BackupType, LocalType
<1>8. Gentle(p)
  BY <1>2, <1>3, <1>6 DEF Gentle, Stored
<1>9. BackupsAreWhole'
  BY <1>1, <1>3, <1>6 DEF BackupsAreWhole
<1>10. WritesSurvive'
  BY <1>2, <1>3, <1>6, SurvivalKept DEF Stored
<1>11. (DatabaseIsWhole /\ NoFileIsEmpty)'
  BY <1>2 DEF LeasesInv, DatabaseIsWhole, NoFileIsEmpty
<1> QED  BY <1>1, <1>2, <1>7, <1>8, <1>9, <1>10, <1>11, ReturnFits, StepKeeps

LEMMA BackupManifestKeeps ==
    ASSUME LeasesInv, NEW p \in Processes, BackupManifest(p)
    PROVE  LeasesInv'
<1> DEFINE b == local[p].target
<1>1. LeasesTypeOK /\ Fits(p) /\ BackupsAreWhole
  BY DEF LeasesInv
<1>2. at[p] = "backup_manifest" /\ UNCHANGED <<db, wal, written, unguarded, breakdowns>>
  BY DEF BackupManifest
<1>3. /\ b \in Backups /\ lease[p] # "none"
      /\ backup[b].file /\ ~backup[b].manifest /\ backup[b].content = local[p].staged
  BY <1>1, <1>2 DEF Fits, Leased, Copied, BackupSteps
<1>4. /\ backup' = [backup EXCEPT ![b].manifest = TRUE, ![b].claimed = local[p].staged]
      /\ \/ local[p].then = "return" /\ Return(p)
         \/ /\ local[p].then # "return" /\ UNCHANGED <<lease, local>>
            /\ at' = [at EXCEPT ![p] = local[p].then]
  BY <1>3 DEF BackupManifest, Goto
<1>5. backup' \in [Backups -> BackupType]
  <2>1. backup \in [Backups -> BackupType] /\ local[p].staged \in Content
    BY <1>1, MyTypes DEF LeasesTypeOK, BackupType, LocalType
  <2> QED  BY <1>3, <1>4, <2>1, BackupUpdates
<1>6. /\ \A a \in Backups : a # b => backup'[a] = backup[a]
      /\ backup'[b].file /\ backup'[b].manifest
      /\ backup'[b].content = backup[b].content /\ backup'[b].claimed = local[p].staged
  BY <1>1, <1>3, <1>4 DEF LeasesTypeOK
<1>7. Gentle(p)
  BY <1>2, <1>3, <1>6 DEF Gentle, Stored
<1>8. BackupsAreWhole'
  BY <1>1, <1>3, <1>6 DEF BackupsAreWhole
<1>9. WritesSurvive'
  BY <1>2, <1>3, <1>6, SurvivalKept DEF Stored
<1>10. (DatabaseIsWhole /\ NoFileIsEmpty)'
  BY <1>2 DEF LeasesInv, DatabaseIsWhole, NoFileIsEmpty
<1>11. CASE local[p].then = "return" /\ Return(p)
  <2>1. LeasesTypeOK'
    BY <1>1, <1>2, <1>5, <1>11, ReturnFits DEF LeasesTypeOK, BackupType, LocalType
  <2> QED  BY <1>1, <1>7, <1>8, <1>9, <1>10, <1>11, <2>1, ReturnFits, StepKeeps
<1>12. CASE /\ local[p].then # "return" /\ UNCHANGED <<lease, local>>
            /\ at' = [at EXCEPT ![p] = local[p].then]
  <2>1. /\ local[p].then \in {"migrate_open", "restore_stage"} /\ lease[p] = "exclusive"
        /\ local[p].then = "restore_stage" => local[p].source \in Backups
    BY <1>1, <1>2, <1>12 DEF Fits, Leased, BackupSteps
  <2>2. at' \in [Processes -> Steps] /\ at'[p] = local[p].then /\ Mine(p)
    BY <1>1, <1>12, <2>1 DEF LeasesTypeOK, Steps, Mine
  <2>3. LeasesTypeOK'
    BY <1>1, <1>2, <1>5, <1>12, <2>2 DEF LeasesTypeOK, BackupType
  <2>4. at'[p] = "restore_stage" => SafetyCopy(b)'
    BY <1>1, <1>2, <1>3, <1>6, <1>12, <2>2 DEF Fits, Seen, SafetyCopy, Stored
  <2>5. Fits(p)'
    BY <1>3, <1>12, <2>1, <2>2, <2>4 DEF Fits, Leased, Seen, Copied, ExclusiveSteps,
        SharingSteps, RestoreSteps, ReplacingSteps, BackupSteps
  <2>6. LeaseMove(p) /\ ManifestMove(p)
    BY <1>12, <2>1, <2>2 DEF LeaseMove, ManifestMove
  <2> QED  BY <1>7, <1>8, <1>9, <1>10, <2>2, <2>3, <2>5, <2>6, StepKeeps
<1> QED  BY <1>4, <1>11, <1>12
-----------------------------------------------------------------------------
(***************************************************************************)
(* Migrations and restores.                                                *)
(***************************************************************************)
LEMMA MigrateInspectKeeps ==
    ASSUME LeasesInv, NEW p \in Processes, MigrateInspect(p)
    PROVE  LeasesInv'
<1>1. LeasesTypeOK
  BY DEF LeasesInv
<1>2. PICK l \in LocalType : local' = [local EXCEPT ![p] = l]
  <2>1. CASE db.id = 0
    <3> DEFINE l == [local[p] EXCEPT !.found = FALSE]
    <3>1. l \in LocalType
      BY <1>1 DEF LeasesTypeOK, LocalType
    <3>2. local' = [local EXCEPT ![p] = l]
      BY <1>1, <2>1 DEF MigrateInspect, LeasesTypeOK
    <3> QED  BY <3>1, <3>2
  <2>2. CASE db.id # 0
    <3>1. PICK b \in Backups \cup {NoPath} : local' = [local EXCEPT ![p].target = b]
      BY <2>2 DEF MigrateInspect
    <3> DEFINE l == [local[p] EXCEPT !.target = b]
    <3>2. local[p] \in LocalType
      BY <1>1, MyTypes
    <3>3. l \in LocalType
      BY <3>2 DEF LocalType
    <3>4. local' = [local EXCEPT ![p] = l]
      BY <1>1, <3>1 DEF LeasesTypeOK
    <3> QED  BY <3>3, <3>4
  <2> QED  BY <2>1, <2>2
<1>3. Moves(p, "migrate_acquire", l, lease[p])
  BY <1>1, <1>2 DEF MigrateInspect, Goto, LeasesTypeOK, Moves
<1> QED  BY <1>1, <1>3, MyTypes, FreshFits, LocalMoveKeeps DEF MigrateInspect, Steps, MayHold

LEMMA RestoreInspectKeeps ==
    ASSUME LeasesInv, NEW p \in Processes, RestoreInspect(p)
    PROVE  LeasesInv'
<1>1. LeasesTypeOK
  BY DEF LeasesInv
<1>2. PICK source \in Backups :
        \/ local' = [local EXCEPT ![p].source = source, ![p].found = FALSE]
        \/ \E b \in Backups : local' = [local EXCEPT ![p].source = source, ![p].target = b]
  BY DEF RestoreInspect
<1>3. PICK l \in LocalType : /\ local' = [local EXCEPT ![p] = l]
                             /\ l.source \in Backups
                             /\ l.found => l.target \in Backups
  <2> DEFINE k == [local[p] EXCEPT !.source = source]
  <2>1. k \in LocalType /\ k.source = source
    BY <1>1 DEF LeasesTypeOK, LocalType
  <2>2. CASE local' = [local EXCEPT ![p].source = source, ![p].found = FALSE]
    <3> DEFINE l == [k EXCEPT !.found = FALSE]
    <3>1. l \in LocalType /\ l.source = source /\ ~l.found
      <4> HIDE DEF k
      <4> QED  BY <2>1 DEF LocalType
    <3>2. l = [local[p] EXCEPT !.source = source, !.found = FALSE]
      OBVIOUS
    <3>3. local' = [local EXCEPT ![p] = l]
      BY <1>1, <2>2, <3>2 DEF LeasesTypeOK
    <3> QED  BY <3>1, <3>3
  <2>3. CASE \E b \in Backups :
                local' = [local EXCEPT ![p].source = source, ![p].target = b]
    <3>1. PICK b \in Backups : local' = [local EXCEPT ![p].source = source, ![p].target = b]
      BY <2>3
    <3> DEFINE l == [k EXCEPT !.target = b]
    <3>2. l \in LocalType /\ l.source = source /\ l.target = b
      <4> HIDE DEF k
      <4> QED  BY <2>1 DEF LocalType
    <3>3. l = [local[p] EXCEPT !.source = source, !.target = b]
      OBVIOUS
    <3>4. local' = [local EXCEPT ![p] = l]
      BY <1>1, <3>1, <3>3 DEF LeasesTypeOK
    <3> QED  BY <3>2, <3>4
  <2> QED  BY <1>2, <2>2, <2>3
<1>4. Moves(p, "restore_acquire", l, lease[p])
  BY <1>1, <1>3 DEF RestoreInspect, Goto, LeasesTypeOK, Moves
<1>5. at'[p] = "restore_acquire" /\ local'[p] = l /\ lease'[p] = lease[p] => Fits(p)'
  BY <1>3 DEF Fits, Leased, Seen, Copied, ExclusiveSteps, SharingSteps,
        RestoreSteps, ReplacingSteps, BackupSteps
<1> QED  BY <1>1, <1>4, <1>5, MyTypes, LocalMoveKeeps DEF RestoreInspect, Steps, MayHold

LEMMA ExclusiveAcquireKeeps ==
    ASSUME LeasesInv, NEW p \in Processes, MigrateAcquire(p) \/ RestoreAcquire(p)
    PROVE  LeasesInv'
<1>1. LeasesTypeOK /\ Fits(p)
  BY DEF LeasesInv
<1>2. PICK then \in {"migrate_open", "restore_stage"} :
        /\ local' = [local EXCEPT ![p].then = then]
        /\ Goto(p, IF local[p].target = NoPath THEN then ELSE "backup_stage")
        /\ then = "restore_stage" => at[p] = "restore_acquire"
  BY DEF MigrateAcquire, RestoreAcquire
<1> DEFINE l == [local[p] EXCEPT !.then = then]
           step == IF local[p].target = NoPath THEN then ELSE "backup_stage"
<1>3. /\ l \in LocalType /\ l.then = then /\ l.target = local[p].target
      /\ l.found = local[p].found /\ l.source = local[p].source
  BY <1>1 DEF LeasesTypeOK, LocalType
<1>4. Moves(p, step, l, "exclusive")
  BY <1>1, <1>2 DEF MigrateAcquire, RestoreAcquire, Goto, LeasesTypeOK, Moves
<1>5. step # "backup_stage" => local[p].target = NoPath /\ step = then
  OBVIOUS
<1>6. step = "backup_stage" => local[p].target \in Backups
  BY <1>1, MyTypes DEF LocalType
<1>7. step = "restore_stage" => ~local[p].found
  BY <1>1, <1>2, <1>5, LeasesAssumption DEF Fits, Leased
<1>8. step \in {"backup_stage", "migrate_open", "restore_stage"}
  OBVIOUS
<1> HIDE DEF l, step
<1>9. then = "restore_stage" => local[p].source \in Backups
  BY <1>1, <1>2 DEF Fits, Leased
<1>10. at'[p] = step /\ local'[p] = l /\ lease'[p] = "exclusive" => Fits(p)'
  BY <1>3, <1>5, <1>6, <1>7, <1>8, <1>9 DEF Fits, Leased, Seen, Copied, ExclusiveSteps, SharingSteps,
        RestoreSteps, ReplacingSteps, BackupSteps
<1>11. CanExclude /\ UNCHANGED <<db, wal, backup, written, unguarded, breakdowns>>
  BY DEF MigrateAcquire, RestoreAcquire
<1> QED  BY <1>3, <1>4, <1>8, <1>10, <1>11, LocalMoveKeeps DEF Steps, MayHold, Holds

LEMMA MigrateOpenKeeps ==
    ASSUME LeasesInv, NEW p \in Processes, MigrateOpen(p)
    PROVE  LeasesInv'
<1>1. LeasesTypeOK /\ Fits(p)
  BY DEF LeasesInv
<1>2. at[p] = "migrate_open" /\ lease[p] = "exclusive" /\ PrepareFile
      /\ UNCHANGED <<wal, backup, written, unguarded, breakdowns>>
  BY <1>1 DEF MigrateOpen, Fits, Leased, ExclusiveSteps
<1>3. CASE Return(p)
  BY <1>1, <1>2, <1>3, ReturnFits, PrepareMoveKeeps DEF Holds
<1>4. CASE ~Return(p)
  <2> DEFINE l == [local[p] EXCEPT !.file = db'.id]
  <2>1. db' \in [id : 0..MaxFiles, content : Content] /\ db'.id # 0
    BY <1>2, PrepareKeeps
  <2>2. l \in LocalType /\ l.file = db'.id
    BY <1>1, <2>1 DEF LeasesTypeOK, LocalType
  <2>3. Moves(p, "migrate", l, "exclusive")
    BY <1>1, <1>2, <1>4 DEF MigrateOpen, Goto, LeasesTypeOK, Moves
  <2> HIDE DEF l
  <2>4. /\ at' \in [Processes -> Steps]
        /\ local' \in [Processes -> LocalType]
        /\ lease' \in [Processes -> Holds]
        /\ Mine(p)
        /\ at'[p] = "migrate" /\ local'[p] = l /\ lease'[p] = "exclusive"
    BY <1>1, <2>2, <2>3, MoveFrame DEF Steps, Holds
  <2>5. Fits(p)'
    BY <2>1, <2>2, <2>4 DEF Fits, Leased, Seen, Copied, ExclusiveSteps, SharingSteps,
        RestoreSteps, ReplacingSteps, BackupSteps
  <2> QED  BY <1>2, <2>4, <2>5, PrepareMoveKeeps DEF LeaseMove, ManifestMove
<1> QED  BY <1>3, <1>4

LEMMA RestoreStageKeeps ==
    ASSUME LeasesInv, NEW p \in Processes, RestoreStage(p)
    PROVE  LeasesInv'
<1> DEFINE c == backup[local[p].source].content
           l == [local[p] EXCEPT !.staged = c]
<1>1. LeasesTypeOK /\ Fits(p)
  BY DEF LeasesInv
<1>2. at[p] = "restore_stage" /\ UNCHANGED <<db, wal, backup, written, unguarded, breakdowns>>
  BY DEF RestoreStage
<1>3. CASE Return(p)
  BY <1>1, <1>2, <1>3, ReturnKeeps DEF LeasesTypeOK
<1>4. CASE ~Return(p)
  <2>1. /\ db.id < MaxFiles /\ c.version <= Target(p) /\ lease[p] = "exclusive"
        /\ Moves(p, "restore_checkpoint", l, lease[p])
    BY <1>1, <1>2, <1>4 DEF RestoreStage, Goto, LeasesTypeOK, Moves, Fits, Leased, ExclusiveSteps,
        RestoreSteps
  <2>2. c \in Content
    BY <1>1, <1>2 DEF LeasesTypeOK, Fits, Leased, RestoreSteps
  <2> HIDE DEF c
  <2>3. /\ l \in LocalType /\ l.target = local[p].target
        /\ l.found = local[p].found /\ l.source = local[p].source
    BY <1>1, <2>2 DEF LeasesTypeOK, LocalType
  <2> HIDE DEF l
  <2>4. at'[p] = "restore_checkpoint" /\ local'[p] = l /\ lease'[p] = lease[p] => Fits(p)'
    BY <1>1, <1>2, <2>1, <2>3 DEF Fits, Leased, Seen, Copied, ExclusiveSteps, SharingSteps,
      RestoreSteps, ReplacingSteps, BackupSteps, SafetyCopy, Stored
  <2> QED  BY <1>1, <1>2, <2>1, <2>3, <2>4, MyTypes, LocalMoveKeeps DEF Steps, MayHold
<1> QED  BY <1>3, <1>4

\* Until the rename, the steps of a replacement change nothing that is read.
LEMMA ReplacementKeeps ==
    ASSUME LeasesInv, NEW p \in Processes, NEW step \in Steps,
           lease[p] = "exclusive", step # "backup_manifest",
           at' = [at EXCEPT ![p] = step],
           db' \in [id : 0..MaxFiles, content : Content],
           wal' \in [of : 0..MaxFiles, content : Content],
           Stored' = Stored, DatabaseIsWhole', NoFileIsEmpty',
           at'[p] = step => Fits(p)',
           UNCHANGED <<lease, local, backup, written, unguarded, breakdowns>>
    PROVE  LeasesInv'
<1>1. LeasesTypeOK
  BY DEF LeasesInv
<1>2. at' \in [Processes -> Steps] /\ at'[p] = step /\ Mine(p)
  BY <1>1 DEF LeasesTypeOK, Mine
<1>3. LeasesTypeOK'
  BY <1>1, <1>2 DEF LeasesTypeOK
<1>4. BackupsAreWhole' /\ WritesSurvive'
  BY DEF LeasesInv, BackupsAreWhole, WritesSurvive, Survives
<1>5. Gentle(p) /\ LeaseMove(p) /\ ManifestMove(p)
  BY <1>2 DEF Gentle, LeaseMove, ManifestMove
<1> QED  BY <1>2, <1>3, <1>4, <1>5, StepKeeps

LEMMA RestoreCheckpointKeeps ==
    ASSUME LeasesInv, NEW p \in Processes, RestoreCheckpoint(p)
    PROVE  LeasesInv'
<1>1. LeasesTypeOK /\ Fits(p) /\ DatabaseIsWhole /\ NoFileIsEmpty
  BY DEF LeasesInv
<1>2. /\ at[p] = "restore_checkpoint" /\ lease[p] = "exclusive" /\ db.id < MaxFiles
      /\ at' = [at EXCEPT ![p] = "restore_sidecars"]
      /\ UNCHANGED <<wal, lease, backup, local, written, unguarded, breakdowns>>
  BY <1>1 DEF RestoreCheckpoint, Goto, Fits, Leased, Seen, ExclusiveSteps, RestoreSteps,
      ReplacingSteps
<1>3. /\ db' \in [id : 0..MaxFiles, content : Content] /\ db'.id = db.id
      /\ wal.of # 0 => db'.content = wal.content
      /\ wal.of = 0 => db' = db
  BY <1>1, ContentTypes DEF RestoreCheckpoint, LeasesTypeOK, Stored
<1>4. Stored' = Stored
  BY <1>2, <1>3 DEF Stored
<1>5. DatabaseIsWhole' /\ NoFileIsEmpty'
  BY <1>1, <1>2, <1>3 DEF DatabaseIsWhole, NoFileIsEmpty
<1>6. at'[p] = "restore_sidecars" => Fits(p)'
  BY <1>1, <1>2, <1>3, <1>4 DEF Fits, Leased, Seen, Copied, ExclusiveSteps, SharingSteps,
      RestoreSteps, ReplacingSteps, BackupSteps, SafetyCopy
<1> QED  BY <1>1, <1>2, <1>3, <1>4, <1>5, <1>6, ReplacementKeeps DEF LeasesTypeOK, Steps

LEMMA RestoreSidecarsKeeps ==
    ASSUME LeasesInv, NEW p \in Processes, RestoreSidecars(p)
    PROVE  LeasesInv'
<1>1. LeasesTypeOK /\ Fits(p) /\ NoFileIsEmpty
  BY DEF LeasesInv
<1>2. /\ at[p] = "restore_sidecars" /\ lease[p] = "exclusive" /\ db.id < MaxFiles
      /\ wal.of # 0 => db.content = wal.content
      /\ at' = [at EXCEPT ![p] = "restore_replace"]
      /\ wal' = [of |-> 0, content |-> Empty]
      /\ UNCHANGED <<db, lease, backup, local, written, unguarded, breakdowns>>
  BY <1>1 DEF RestoreSidecars, Goto, Fits, Leased, Seen, ExclusiveSteps, RestoreSteps,
      ReplacingSteps
<1>3. wal' \in [of : 0..MaxFiles, content : Content] /\ wal'.of = 0
  BY <1>1, <1>2, ContentTypes, LeasesAssumption
<1>4. Stored' = Stored
  BY <1>2, <1>3 DEF Stored
<1>5. DatabaseIsWhole' /\ NoFileIsEmpty'
  BY <1>1, <1>2, <1>3 DEF DatabaseIsWhole, NoFileIsEmpty
<1>6. at'[p] = "restore_replace" => Fits(p)'
  BY <1>1, <1>2, <1>3, <1>4 DEF Fits, Leased, Seen, Copied, ExclusiveSteps, SharingSteps,
      RestoreSteps, ReplacingSteps, BackupSteps, SafetyCopy
<1> QED  BY <1>1, <1>2, <1>3, <1>4, <1>5, <1>6, ReplacementKeeps DEF LeasesTypeOK, Steps

LEMMA RestoreReplaceKeeps ==
    ASSUME LeasesInv, NEW p \in Processes, RestoreReplace(p)
    PROVE  LeasesInv'
<1> DEFINE b == local[p].target
<1>1. LeasesTypeOK /\ Fits(p) /\ BackupsAreWhole
  BY DEF LeasesInv
<1>2. /\ at[p] = "restore_replace" /\ lease[p] = "exclusive"
      /\ db.id < MaxFiles /\ wal.of = 0
      /\ db' = [id |-> db.id + 1, content |-> local[p].staged] /\ Return(p)
      /\ UNCHANGED <<wal, backup, written, breakdowns>>
  BY <1>1 DEF RestoreReplace, Fits, Leased, Seen, ExclusiveSteps, RestoreSteps, ReplacingSteps
<1>3. /\ local[p].found => b \in Backups /\ SafetyCopy(b) /\ unguarded' = unguarded
      /\ ~local[p].found => unguarded' = unguarded \cup Stored.writes
  BY <1>1, <1>2 DEF RestoreReplace, Fits, Leased, Copied, RestoreSteps, ReplacingSteps
<1>4. db' \in [id : 0..MaxFiles, content : Content] /\ db'.id # 0
  <2>1. db.id \in 0..MaxFiles /\ local[p].staged \in Content
    BY <1>1, MyTypes DEF LeasesTypeOK, LocalType
  <2>2. db.id + 1 \in 0..MaxFiles /\ db.id + 1 # 0
    BY <1>2, <2>1, LeasesAssumption
  <2> QED  BY <1>2, <2>1, <2>2
<1>5. unguarded' \subseteq Writes
  BY <1>1, <1>3, ContentTypes DEF LeasesTypeOK, Content
<1>6. LeasesTypeOK'
  BY <1>1, <1>2, <1>4, <1>5, ReturnFits DEF LeasesTypeOK, LocalType
<1>7. Gentle(p)
  BY <1>2 DEF Gentle
<1>8. (DatabaseIsWhole /\ NoFileIsEmpty)' /\ BackupsAreWhole'
  BY <1>1, <1>2, <1>4 DEF DatabaseIsWhole, NoFileIsEmpty, BackupsAreWhole
<1>9. WritesSurvive'
  <2> SUFFICES ASSUME NEW w \in written \ unguarded'
               PROVE  Survives(w)'
    BY <1>2 DEF WritesSurvive
  <2>1. w \notin unguarded /\ Survives(w)
    BY <1>3 DEF LeasesInv, WritesSurvive
  <2>2. w \in Stored.writes => local[p].found /\ w \in backup[b].content.writes
    BY <1>3 DEF SafetyCopy
  <2> QED  BY <1>2, <1>3, <2>1, <2>2 DEF Survives, SafetyCopy
<1> QED  BY <1>1, <1>2, <1>6, <1>7, <1>8, <1>9, ReturnFits, StepKeeps
-----------------------------------------------------------------------------
(***************************************************************************)
(* The theorems.                                                           *)
(***************************************************************************)
LEMMA InitLeasesInv == LeaseInit => LeasesInv
<1> SUFFICES ASSUME LeaseInit PROVE LeasesInv
  OBVIOUS
<1>1. 0 \in 0..MaxFiles /\ 1 \in 0..MaxFiles /\ 0 \in 0..MaxBreakdowns /\ Empty \in Content
  BY LeasesAssumption DEF Content, Empty
<1>2. db \in [id : 0..MaxFiles, content : Content]
  BY <1>1 DEF LeaseInit, Content, Writes
<1>3. NoBackup \in BackupType
  BY <1>1 DEF NoBackup, BackupType
<1>4. LeasesTypeOK
  BY <1>1, <1>2, <1>3, NoOperationType DEF LeasesTypeOK, LeaseInit, Steps, LocalType, BackupType
<1>5. \A p \in Processes : Fits(p)
  BY DEF LeaseInit, Fits, Leased, Seen, Copied, ExclusiveSteps, SharingSteps, RestoreSteps,
      ReplacingSteps, BackupSteps
<1>6. Exclusion /\ OneManifest
  BY DEF LeaseInit, Exclusion, OneManifest
<1>7. DatabaseIsWhole /\ NoFileIsEmpty
  BY DEF LeaseInit, DatabaseIsWhole, NoFileIsEmpty
<1>8. BackupsAreWhole /\ WritesSurvive
  BY DEF LeaseInit, BackupsAreWhole, WritesSurvive, NoBackup
<1> QED  BY <1>4, <1>5, <1>6, <1>7, <1>8 DEF LeasesInv

LEMMA NextKeeps == LeasesInv /\ [LeaseNext]_leaseVars => LeasesInv'
<1> SUFFICES ASSUME LeasesInv, [LeaseNext]_leaseVars PROVE LeasesInv'
  OBVIOUS
<1>1. CASE UNCHANGED leaseVars
  BY <1>1 DEF leaseVars, LeasesInv, LeasesTypeOK, Exclusion, Fits, Leased, Seen, Copied, SafetyCopy,
      OneManifest, DatabaseIsWhole, NoFileIsEmpty, BackupsAreWhole, WritesSurvive, Survives, Stored
<1>2. CASE LeaseNext
  <2>1. PICK p \in Processes :
            OpenStep(p) \/ BackupStep(p) \/ ReplaceStep(p) \/ Busy(p) \/ Fails(p) \/ ProcessDies(p)
    BY <1>2 DEF LeaseNext
  <2>2. OpenStep(p) => LeasesInv'
    BY InspectionsKeep, ValidationsKeep, OpenUninitializedKeeps, InitializationKeeps,
       HandOffKeeps, WriteKeeps, CloseKeepsInv DEF OpenStep
  <2>3. BackupStep(p) => LeasesInv'
    BY BackupAcquireKeeps, BackupStageKeeps, BackupPublishKeeps, BackupManifestKeeps,
       BackupManifestFailsKeeps DEF BackupStep
  <2>4. ReplaceStep(p) => LeasesInv'
    BY MigrateInspectKeeps, ExclusiveAcquireKeeps, MigrateOpenKeeps, InitializationKeeps,
       CloseKeepsInv, RestoreInspectKeeps, RestoreStageKeeps, RestoreCheckpointKeeps,
       RestoreSidecarsKeeps, RestoreReplaceKeeps DEF ReplaceStep
  <2>5. Busy(p) \/ Fails(p) \/ ProcessDies(p) => LeasesInv'
    BY AbandonKeeps, CloseKeepsInv
  <2> QED  BY <2>1, <2>2, <2>3, <2>4, <2>5
<1> QED  BY <1>1, <1>2

\* The invariant is inductive: every reachable state of the corpus, of its lease
\* and of its backups satisfies it.
THEOREM LeasesInvariant == LeaseSpec => []LeasesInv
<1> QED  BY InitLeasesInv, NextKeeps, PTL DEF LeaseSpec

\* The state of files, leases and processes stays well formed, whatever fails:
\* in particular no migration takes a schema past what its binary knows
\* (LeasesTypeOK; ApplyMigrations).
THEOREM LeasesTypeCorrect == LeaseSpec => []LeasesTypeOK
<1>1. LeasesInv => LeasesTypeOK
  BY DEF LeasesInv
<1> QED  BY <1>1, LeasesInvariant, PTL

\* The flock excludes, and every step that replaces, migrates or initializes the
\* file holds it exclusively, for any number of processes (lock.go).
THEOREM LeasesExclude ==
    LeaseSpec => [](Exclusion /\ \A p \in Processes : Leased(p))
<1>1. LeasesInv => Exclusion /\ \A p \in Processes : Leased(p)
  BY DEF LeasesInv, Fits
<1> QED  BY <1>1, LeasesInvariant, PTL

\* An open corpus stays the file at the path, at the schema of its binary, while
\* other processes initialize, migrate and restore (HandlesAreCurrent).
THEOREM HandlesStayCurrent == LeaseSpec => []HandlesAreCurrent
<1>1. LeasesInv => HandlesAreCurrent
  BY DEF LeasesInv, Fits, Seen, HandlesAreCurrent
<1> QED  BY <1>1, LeasesInvariant, PTL

\* The log at the path is never that of another file, wherever a restore dies
\* (DatabaseIsWhole).
THEOREM DatabaseStaysWhole == LeaseSpec => []DatabaseIsWhole
<1>1. LeasesInv => DatabaseIsWhole
  BY DEF LeasesInv
<1> QED  BY <1>1, LeasesInvariant, PTL

\* A published manifest describes the copy beside it, however many processes
\* back up to one path (BackupsAreWhole).
THEOREM BackupsStayWhole == LeaseSpec => []BackupsAreWhole
<1>1. LeasesInv => BackupsAreWhole
  BY DEF LeasesInv
<1> QED  BY <1>1, LeasesInvariant, PTL

\* No acknowledged transaction is lost to a crash, a migration or a restore that
\* had found the corpus it replaces (WritesSurvive).
THEOREM WritesAlwaysSurvive == LeaseSpec => []WritesSurvive
<1>1. LeasesInv => WritesSurvive
  BY DEF LeasesInv
<1> QED  BY <1>1, LeasesInvariant, PTL
-----------------------------------------------------------------------------
(***************************************************************************)
(* The refinement.  What a restore is about to put at the path is a copy   *)
(* that is published all the while, and the path held a corpus before; the *)
(* rest follows from the invariant.                                        *)
(***************************************************************************)
RestoresCopy(p) ==
    at[p] \in ReplacingSteps =>
        LET b == backup[local[p].source] IN
        /\ b.file /\ b.manifest
        /\ b.content = local[p].staged /\ b.content.version <= Target(p)

PublishingSteps == {"backup_publish", "backup_manifest"}

\* There is nothing to restore before there is a corpus to copy.
NoCopyWithoutCorpus ==
    db.id = 0 =>
        /\ \A b \in Backups : ~backup[b].manifest
        /\ \A p \in Processes : at[p] \notin PublishingSteps

RestoresCopies == NoCopyWithoutCorpus /\ \A p \in Processes : RestoresCopy(p)

StepOf(p) ==
    OpenStep(p) \/ BackupStep(p) \/ ReplaceStep(p) \/ Busy(p) \/ Fails(p) \/ ProcessDies(p)

LEMMA StepsAreMine ==
    ASSUME LeasesTypeOK, NEW p \in Processes, StepOf(p)
    PROVE  Mine(p)
<1>1. CASE OpenStep(p)
  BY <1>1 DEF OpenStep, OpenInspect, OpenAcquire, OpenCurrent, OpenUninitialized, Initialize,
      HandOff, Reopen, ReopenValidate, ReadOnlyInspect, ReadOnlyAcquire, ReadOnlyValidate, Write,
      Close, Return, Goto, Mine, LeasesTypeOK
<1>2. CASE BackupStep(p)
  BY <1>2 DEF BackupStep, BackupAcquire, BackupStage, BackupPublish, BackupManifest,
      BackupManifestFails, Return, Goto, Mine, LeasesTypeOK
<1>3. CASE ReplaceStep(p)
  BY <1>3 DEF ReplaceStep, MigrateInspect, MigrateAcquire, MigrateOpen, Migrate, MigrateDone,
      RestoreInspect, RestoreAcquire, RestoreStage, RestoreCheckpoint, RestoreSidecars,
      RestoreReplace, Return, Goto, Mine, LeasesTypeOK
<1>4. CASE Busy(p) \/ Fails(p) \/ ProcessDies(p)
  BY <1>4 DEF Busy, Fails, ProcessDies, Return, Goto, Mine, LeasesTypeOK
<1> QED  BY <1>1, <1>2, <1>3, <1>4 DEF StepOf

\* Only three steps bring a process to a replacement, and only those that publish
\* touch a backup.
LEMMA ReplacementsBegin ==
    ASSUME LeasesTypeOK, NEW p \in Processes, Leased(p), StepOf(p), at'[p] \in ReplacingSteps
    PROVE  RestoreStage(p) \/ RestoreCheckpoint(p) \/ RestoreSidecars(p)
<1>1. \A step \in Steps : Goto(p, step) => at'[p] = step
  BY DEF Goto, LeasesTypeOK
<1>2. Return(p) => at'[p] = "idle"
  BY DEF Return, Goto, LeasesTypeOK
<1>3. ~OpenStep(p)
  BY <1>1, <1>2 DEF OpenStep, OpenInspect, OpenAcquire, OpenCurrent, OpenUninitialized, Initialize,
      HandOff, Reopen, ReopenValidate, ReadOnlyInspect, ReadOnlyAcquire, ReadOnlyValidate, Write,
      Close, ReplacingSteps, Steps
<1>4. ~BackupStep(p)
  BY <1>1, <1>2 DEF BackupStep, BackupAcquire, BackupStage, BackupPublish, BackupManifest,
      BackupManifestFails, Leased, BackupSteps, ReplacingSteps, Steps
<1>5. ReplaceStep(p) => RestoreStage(p) \/ RestoreCheckpoint(p) \/ RestoreSidecars(p)
  BY <1>1, <1>2 DEF ReplaceStep, MigrateInspect, MigrateAcquire, MigrateOpen, Migrate, MigrateDone,
      RestoreInspect, RestoreAcquire, RestoreReplace, ReplacingSteps, Steps
<1>6. ~(Busy(p) \/ Fails(p) \/ ProcessDies(p))
  BY <1>2 DEF Busy, Fails, ProcessDies, ReplacingSteps
<1> QED  BY <1>3, <1>4, <1>5, <1>6 DEF StepOf

LEMMA BackupsStay ==
    ASSUME NEW p \in Processes, StepOf(p), at[p] \notin PublishingSteps
    PROVE  UNCHANGED backup
BY DEF StepOf, OpenStep, OpenInspect, OpenAcquire, OpenCurrent, OpenUninitialized, Initialize,
       HandOff, Reopen, ReopenValidate, ReadOnlyInspect, ReadOnlyAcquire, ReadOnlyValidate, Write,
       Close, BackupStep, BackupAcquire, BackupStage, BackupPublish, BackupManifest,
       BackupManifestFails, ReplaceStep, MigrateInspect, MigrateAcquire, MigrateOpen, Migrate,
       MigrateDone, RestoreInspect, RestoreAcquire, RestoreStage, RestoreCheckpoint,
       RestoreSidecars, RestoreReplace, Busy, Fails, ProcessDies, PublishingSteps

LEMMA CopiesBegin ==
    ASSUME LeasesTypeOK, NEW p \in Processes, Leased(p), StepOf(p), at'[p] \in PublishingSteps
    PROVE  at[p] \in PublishingSteps \/ db.id # 0
<1>1. \A step \in Steps : Goto(p, step) => at'[p] = step
  BY DEF Goto, LeasesTypeOK
<1>2. Return(p) => at'[p] = "idle"
  BY DEF Return, Goto, LeasesTypeOK
<1>3. ~OpenStep(p)
  BY <1>1, <1>2 DEF OpenStep, OpenInspect, OpenAcquire, OpenCurrent, OpenUninitialized, Initialize,
      HandOff, Reopen, ReopenValidate, ReadOnlyInspect, ReadOnlyAcquire, ReadOnlyValidate, Write,
      Close, PublishingSteps, Steps
<1>4. BackupStep(p) => at[p] \in PublishingSteps \/ db.id # 0
  BY <1>1, <1>2 DEF BackupStep, BackupAcquire, BackupStage, BackupPublish, BackupManifest,
      BackupManifestFails, PublishingSteps, Steps
<1>5. ~ReplaceStep(p)
  BY <1>1, <1>2 DEF ReplaceStep, MigrateInspect, MigrateAcquire, MigrateOpen, Migrate, MigrateDone,
      RestoreInspect, RestoreAcquire, RestoreStage, RestoreCheckpoint, RestoreSidecars,
      RestoreReplace, PublishingSteps, Steps
<1>6. ~(Busy(p) \/ Fails(p) \/ ProcessDies(p))
  BY <1>2 DEF Busy, Fails, ProcessDies, PublishingSteps
<1> QED  BY <1>3, <1>4, <1>5, <1>6 DEF StepOf

LEMMA CorpusStays ==
    ASSUME LeasesTypeOK, NEW p \in Processes, StepOf(p), db.id # 0
    PROVE  db'.id # 0
<1>1. CloseConnection(p) \/ PrepareFile => db'.id = db.id
  BY DEF CloseConnection, PrepareFile, LeasesTypeOK
<1>2. OpenStep(p) => db'.id = db.id
  BY <1>1 DEF OpenStep, OpenInspect, OpenAcquire, OpenCurrent, OpenUninitialized, Initialize,
      HandOff, Reopen, ReopenValidate, ReadOnlyInspect, ReadOnlyAcquire, ReadOnlyValidate, Write,
      Close
<1>3. BackupStep(p) => db'.id = db.id
  BY DEF BackupStep, BackupAcquire, BackupStage, BackupPublish, BackupManifest, BackupManifestFails
<1>4. RestoreCheckpoint(p) => db'.id = db.id
  BY DEF RestoreCheckpoint, LeasesTypeOK
<1>5. RestoreReplace(p) => db'.id # 0
  BY DEF RestoreReplace, LeasesTypeOK
<1>6. ReplaceStep(p) /\ ~RestoreReplace(p) => db'.id = db.id
  BY <1>1, <1>4 DEF ReplaceStep, MigrateInspect, MigrateAcquire, MigrateOpen, Migrate, MigrateDone,
      RestoreInspect, RestoreAcquire, RestoreStage, RestoreSidecars
<1>7. Busy(p) \/ Fails(p) \/ ProcessDies(p) => db'.id = db.id
  BY <1>1 DEF Busy, Fails, ProcessDies
<1> QED  BY <1>2, <1>3, <1>5, <1>6, <1>7 DEF StepOf

LEMMA NoCopyWithoutCorpusKept ==
    ASSUME LeasesInv, NoCopyWithoutCorpus, NEW p \in Processes, StepOf(p)
    PROVE  NoCopyWithoutCorpus'
<1> SUFFICES ASSUME db'.id = 0
             PROVE  /\ \A b \in Backups : ~backup'[b].manifest
                    /\ \A q \in Processes : at'[q] \notin PublishingSteps
  BY DEF NoCopyWithoutCorpus
<1>1. LeasesTypeOK /\ Leased(p) /\ Mine(p)
  BY StepsAreMine DEF LeasesInv, Fits
<1>2. db.id = 0
  BY <1>1, CorpusStays
<1>3. /\ \A b \in Backups : ~backup[b].manifest
      /\ \A q \in Processes : at[q] \notin PublishingSteps
  BY <1>2 DEF NoCopyWithoutCorpus
<1>4. UNCHANGED backup
  BY <1>3, BackupsStay
<1>5. at'[p] \notin PublishingSteps
  BY <1>1, <1>2, <1>3, CopiesBegin
<1> QED  BY <1>1, <1>3, <1>4, <1>5 DEF Mine

LEMMA RestoresCopiesKept ==
    ASSUME LeasesInv, RestoresCopies, NEW p \in Processes, StepOf(p)
    PROVE  RestoresCopies'
<1> SUFFICES ASSUME NEW q \in Processes, at'[q] \in ReplacingSteps
             PROVE  RestoresCopy(q)'
  BY NoCopyWithoutCorpusKept DEF RestoresCopies, RestoresCopy
<1>1. LeasesTypeOK /\ Fits(p) /\ Fits(q) /\ Exclusion /\ RestoresCopy(q) /\ Mine(p)
  BY StepsAreMine DEF LeasesInv, RestoresCopies
<1>2. CASE q # p
  <2>1. at[q] = at'[q] /\ local[q] = local'[q]
    BY <1>1, <1>2 DEF Mine
  <2>2. at[p] \notin BackupSteps
    <3>1. lease[q] = "exclusive"
      BY <1>1, <2>1 DEF Fits, Leased, ExclusiveSteps, RestoreSteps
    <3>2. lease[p] = "none"
      BY <1>1, <1>2, <3>1 DEF Exclusion
    <3> QED  BY <1>1, <3>2 DEF Fits, Leased
  <2> QED  BY <1>1, <2>1, <2>2, BackupsStay DEF RestoresCopy, Target, BackupSteps, PublishingSteps
<1>3. CASE q = p
  <2>1. RestoreStage(p) \/ RestoreCheckpoint(p) \/ RestoreSidecars(p)
    BY <1>1, <1>3, ReplacementsBegin DEF Fits
  <2>2. CASE RestoreStage(p)
    <3>1. ~Return(p)
      BY <1>1, <1>3 DEF Return, Goto, LeasesTypeOK, ReplacingSteps
    <3>2. /\ local' = [local EXCEPT ![p].staged = backup[local[p].source].content]
          /\ backup[local[p].source].file /\ backup[local[p].source].manifest
          /\ backup[local[p].source].content.version <= Target(p)
          /\ backup' = backup
      BY <2>2, <3>1 DEF RestoreStage
    <3>3. /\ local'[p].source = local[p].source
          /\ local'[p].staged = backup[local[p].source].content
      BY <1>1, <3>2 DEF LeasesTypeOK
    <3> QED  BY <1>3, <3>2, <3>3 DEF RestoresCopy, Target
  <2>3. CASE RestoreCheckpoint(p) \/ RestoreSidecars(p)
    BY <1>1, <1>3, <2>3 DEF RestoreCheckpoint, RestoreSidecars, RestoresCopy, ReplacingSteps, Target
  <2> QED  BY <2>1, <2>2, <2>3
<1> QED  BY <1>2, <1>3
-----------------------------------------------------------------------------
\* What a step of p does to what the store shows of the processes.
LEMMA StoreFrame ==
    ASSUME NEW p \in Processes, Mine(p)
    PROVE  /\ Handles' = IF at'[p] \in {"open", "readonly"} THEN Handles \cup {p} ELSE Handles \ {p}
           /\ Drafts' = IF at'[p] \in {"backup_publish", "backup_manifest"}
                        THEN Store!With(Drafts, p, local'[p].staged)
                        ELSE Store!Without(Drafts, p)
<1>1. Handles' = IF at'[p] \in {"open", "readonly"} THEN Handles \cup {p} ELSE Handles \ {p}
  BY DEF Mine, Handles
<1>2. CASE at'[p] \in {"backup_publish", "backup_manifest"}
  BY <1>1, <1>2 DEF Mine, Drafts, Store!With
<1>3. CASE at'[p] \notin {"backup_publish", "backup_manifest"}
  BY <1>1, <1>3 DEF Mine, Drafts, Store!Without
<1> QED  BY <1>1, <1>2, <1>3

LEMMA WithoutNothing ==
    ASSUME NEW p \in Processes, at[p] \notin {"backup_publish", "backup_manifest"}
    PROVE  Store!Without(Drafts, p) = Drafts
<1>1. DOMAIN Drafts \ {p} = DOMAIN Drafts
  BY DEF Drafts
<1>2. Drafts = [q \in DOMAIN Drafts |-> Drafts[q]]
  BY DEF Drafts
<1> QED  BY <1>1, <1>2 DEF Store!Without

SameContents == Stored' = Stored /\ Copies' = Copies /\ Generation' = Generation

\* Neither an open handle nor a copy under way appears or goes.
LEMMA QuietStep ==
    ASSUME NEW p \in Processes, Mine(p), SameContents,
           at[p] \notin {"open", "readonly", "backup_publish", "backup_manifest"},
           at'[p] \notin {"open", "readonly", "backup_publish", "backup_manifest"}
    PROVE  UNCHANGED Store!storeVars
<1>1. Handles' = Handles
  BY StoreFrame DEF Handles
<1>2. Drafts' = Drafts
  BY WithoutNothing, StoreFrame
<1> QED  BY <1>1, <1>2 DEF Store!storeVars, SameContents

\* Whoever returns leaves the store, or gives up its copy.
LEMMA ReturnLeaves ==
    ASSUME LeasesTypeOK, NEW p \in Processes, Return(p), SameContents
    PROVE  Store!Leave(p) \/ Store!Discard(p) \/ UNCHANGED Store!storeVars
<1>1. Mine(p) /\ at'[p] = "idle"
  BY ReturnFits DEF Return, Goto, LeasesTypeOK
<1>2. Handles' = Handles \ {p} /\ Drafts' = Store!Without(Drafts, p)
  BY <1>1, StoreFrame
<1>3. CASE at[p] \in {"open", "readonly"}
  <2>1. p \in Handles /\ Drafts' = Drafts
    BY <1>2, <1>3, WithoutNothing DEF Handles
  <2> QED  BY <1>2, <2>1 DEF Store!Leave, SameContents
<1>4. CASE at[p] \in {"backup_publish", "backup_manifest"}
  <2>1. p \in DOMAIN Drafts /\ Handles' = Handles
    BY <1>2, <1>4 DEF Handles, Drafts
  <2> QED  BY <1>2, <2>1 DEF Store!Discard, SameContents
<1>5. CASE at[p] \notin {"open", "readonly", "backup_publish", "backup_manifest"}
  BY <1>1, <1>5, QuietStep
<1> QED  BY <1>3, <1>4, <1>5

StoreStep(p) ==
    \/ Store!Open(p) \/ Store!Leave(p) \/ Store!Commit(p)
    \/ Store!TakeCopy(p) \/ Store!Discard(p) \/ Store!Publish(p)
    \/ Store!Upgrade(p) \/ Store!Restore(p)
    \/ UNCHANGED Store!storeVars

LEMMA FilesUnchanged ==
    ASSUME UNCHANGED <<db, wal, backup>>
    PROVE  SameContents
BY DEF SameContents, Stored, Copies, Generation

\* The steps that inspect, take a lease or stage leave the store alone.
LEMMA InspectionsStutter ==
    ASSUME LeasesInv, NEW p \in Processes, StepOf(p),
           \/ OpenInspect(p) \/ OpenAcquire(p) \/ Reopen(p)
           \/ ReadOnlyInspect(p) \/ ReadOnlyAcquire(p) \/ BackupAcquire(p)
           \/ MigrateInspect(p) \/ MigrateAcquire(p)
           \/ RestoreInspect(p) \/ RestoreAcquire(p) \/ RestoreStage(p)
    PROVE  StoreStep(p)
<1>1. LeasesTypeOK /\ Mine(p)
  BY StepsAreMine DEF LeasesInv
<1>2. at'[p] \notin {"open", "readonly", "backup_publish", "backup_manifest"}
  BY <1>1 DEF OpenInspect, OpenAcquire, Reopen, ReadOnlyInspect, ReadOnlyAcquire, BackupAcquire,
      MigrateInspect, MigrateAcquire, RestoreInspect, RestoreAcquire, RestoreStage, Return, Goto,
      LeasesTypeOK
<1>3. /\ at[p] \notin {"open", "readonly", "backup_publish", "backup_manifest"}
      /\ UNCHANGED <<db, wal, backup>>
  BY DEF OpenInspect, OpenAcquire, Reopen, ReadOnlyInspect, ReadOnlyAcquire, BackupAcquire,
      MigrateInspect, MigrateAcquire, RestoreInspect, RestoreAcquire, RestoreStage
<1> QED  BY <1>1, <1>2, <1>3, FilesUnchanged, QuietStep DEF StoreStep

\* A file that is made to be initialized or migrated reads as none did.
LEMMA PreparationsStutter ==
    ASSUME LeasesInv, NEW p \in Processes, StepOf(p), OpenUninitialized(p) \/ MigrateOpen(p)
    PROVE  StoreStep(p)
<1>1. LeasesTypeOK /\ Mine(p)
  BY StepsAreMine DEF LeasesInv
<1>2. at'[p] \notin {"open", "readonly", "backup_publish", "backup_manifest"}
  BY <1>1 DEF OpenUninitialized, MigrateOpen, Return, Goto, LeasesTypeOK
<1>3. /\ at[p] \notin {"open", "readonly", "backup_publish", "backup_manifest"}
      /\ PrepareFile /\ UNCHANGED <<wal, backup>>
  BY DEF OpenUninitialized, MigrateOpen
<1>4. SameContents
  <2>1. Stored' = Stored /\ Copies' = Copies
    BY <1>3, PrepareKeeps DEF Copies
  <2>2. Generation' = Generation
    BY <1>3 DEF PrepareFile, Generation
  <2> QED  BY <2>1, <2>2 DEF SameContents
<1> QED  BY <1>1, <1>2, <1>3, <1>4, QuietStep DEF StoreStep

\* What is validated under the lease is opened at the schema of the binary.
LEMMA ValidationsOpen ==
    ASSUME LeasesInv, NEW p \in Processes, StepOf(p),
           OpenCurrent(p) \/ ReopenValidate(p) \/ ReadOnlyValidate(p)
    PROVE  StoreStep(p)
<1>1. LeasesTypeOK /\ Mine(p)
  BY StepsAreMine DEF LeasesInv
<1>2. /\ at[p] \in {"open_recheck", "reopen_validate", "readonly_validate"}
      /\ UNCHANGED <<db, wal, backup>>
      /\ \/ Return(p)
         \/ /\ Stored.version = Target(p)
            /\ Goto(p, "open") \/ Goto(p, "readonly")
  BY DEF OpenCurrent, ReopenValidate, ReadOnlyValidate
<1>3. SameContents
  BY <1>2, FilesUnchanged
<1>4. CASE Return(p)
  BY <1>1, <1>3, <1>4, ReturnLeaves DEF StoreStep
<1>5. CASE /\ Stored.version = Target(p)
           /\ Goto(p, "open") \/ Goto(p, "readonly")
  <2>1. at'[p] \in {"open", "readonly"}
    BY <1>1, <1>5 DEF Goto, LeasesTypeOK
  <2>2. Handles' = Handles \cup {p} /\ Drafts' = Drafts
    BY <1>1, <1>2, <2>1, StoreFrame, WithoutNothing
  <2>3. Stored.version = Releases[p]
    BY <1>5 DEF Releases
  <2> QED  BY <1>3, <2>2, <2>3 DEF Store!Open, StoreStep, SameContents
<1> QED  BY <1>2, <1>4, <1>5

\* Closing folds a log and loses nothing.
LEMMA ClosingLeaves ==
    ASSUME LeasesInv, NEW p \in Processes, StepOf(p),
           \/ HandOff(p) \/ Close(p) \/ MigrateDone(p)
           \/ Busy(p) \/ Fails(p) \/ ProcessDies(p)
    PROVE  StoreStep(p)
<1>1. LeasesTypeOK /\ Mine(p)
  BY StepsAreMine DEF LeasesInv
<1>2. CloseConnection(p) \/ UNCHANGED <<db, wal>>
  BY DEF HandOff, Close, MigrateDone, Busy, Fails, ProcessDies
<1>3. UNCHANGED backup
  BY DEF HandOff, Close, MigrateDone, Busy, Fails, ProcessDies
<1>4. SameContents
  BY <1>2, <1>3, CloseKeeps DEF SameContents, Stored, Copies, Generation
<1>5. CASE HandOff(p)
  <2>1. at[p] = "initialize" /\ at'[p] = "reopen"
    BY <1>1, <1>5 DEF HandOff, Goto, LeasesTypeOK
  <2> QED  BY <1>1, <1>4, <2>1, QuietStep DEF StoreStep
<1>6. CASE ~HandOff(p)
  <2>1. Return(p)
    BY <1>6 DEF Close, MigrateDone, Busy, Fails, ProcessDies
  <2> QED  BY <1>1, <1>4, <2>1, ReturnLeaves DEF StoreStep
<1> QED  BY <1>5, <1>6

\* A transaction is read by everybody once it is committed.
LEMMA WritesCommit ==
    ASSUME LeasesInv, NEW p \in Processes, Write(p)
    PROVE  StoreStep(p)
<1>1. LeasesTypeOK /\ Fits(p) /\ DatabaseIsWhole /\ NoFileIsEmpty
  BY DEF LeasesInv
<1>2. PICK w \in Writes : Commit(p, [Stored EXCEPT !.writes = @ \cup {w}])
  BY DEF Write
<1>3. /\ at[p] = "open" /\ UNCHANGED <<db, backup, at, local>>
      /\ local[p].file = db.id /\ Stored.version = Target(p)
  BY <1>1 DEF Write, Fits, Seen
<1>4. db.id # 0
  BY <1>1, <1>3, TargetRange DEF DatabaseIsWhole, NoFileIsEmpty, Stored, Empty
<1>5. [Stored EXCEPT !.writes = @ \cup {w}] \in Content
  BY <1>1, ContentTypes DEF Content
<1>6. Stored' = [Stored EXCEPT !.writes = @ \cup {w}]
  BY <1>2, <1>3, <1>4, <1>5, CommitStores
<1>7. p \in Handles /\ Handles' = Handles /\ Drafts' = Drafts /\ Copies' = Copies
      /\ Generation' = Generation
  BY <1>3 DEF Handles, Drafts, Copies, Generation
<1> QED  BY <1>6, <1>7 DEF Store!Commit, StoreStep

\* Under an exclusive lease the corpus is open nowhere.
LEMMA ExclusiveUseIsAlone ==
    ASSUME LeasesInv, NEW p \in Processes, lease[p] = "exclusive", at[p] \notin {"open", "readonly"}
    PROVE  Handles = {}
BY DEF LeasesInv, Exclusion, Fits, Leased, SharingSteps, Handles

LEMMA MigrationsUpgrade ==
    ASSUME LeasesInv, NEW p \in Processes, Initialize(p) \/ Migrate(p)
    PROVE  StoreStep(p)
<1>1. LeasesTypeOK /\ Fits(p)
  BY DEF LeasesInv
<1>2. at[p] \in {"initialize", "migrate"} /\ Stored.version < Target(p) /\ Commit(p, NextVersion)
      /\ UNCHANGED <<db, backup, at, local>>
  BY DEF Initialize, Migrate
<1>3. lease[p] = "exclusive" /\ local[p].file = db.id /\ db.id # 0
  BY <1>1, <1>2 DEF Fits, Leased, Seen, ExclusiveSteps
<1>4. NextVersion \in Content
  BY <1>1, <1>2, ContentTypes, TargetRange DEF NextVersion, Content
<1>5. Stored' = NextVersion
  BY <1>2, <1>3, <1>4, CommitStores
<1>6. Handles = {} /\ Handles' = Handles /\ Drafts' = Drafts /\ Copies' = Copies
      /\ Generation' = Generation
  BY <1>2, <1>3, ExclusiveUseIsAlone DEF Handles, Drafts, Copies, Generation
<1>7. Stored.version < Releases[p]
  BY <1>2 DEF Releases
<1> QED  BY <1>5, <1>6, <1>7 DEF Store!Upgrade, StoreStep, NextVersion

\* A copy is taken of what is read then.
LEMMA StagingTakesCopy ==
    ASSUME LeasesInv, NEW p \in Processes, StepOf(p), BackupStage(p)
    PROVE  StoreStep(p)
<1>1. LeasesTypeOK /\ Mine(p) /\ at[p] = "backup_stage" /\ UNCHANGED <<db, wal, backup>>
  BY StepsAreMine DEF LeasesInv, BackupStage
<1>2. SameContents
  BY <1>1, FilesUnchanged
<1>3. CASE Return(p)
  BY <1>1, <1>2, <1>3, ReturnLeaves DEF StoreStep
<1>4. CASE ~Return(p)
  <2>1. at'[p] = "backup_publish" /\ local'[p].staged = Stored
    BY <1>1, <1>4 DEF BackupStage, Goto, LeasesTypeOK
  <2>2. Handles' = Handles \ {p} /\ Drafts' = Store!With(Drafts, p, Stored)
    BY <1>1, <2>1, StoreFrame
  <2>3. Handles' = Handles
    BY <1>1, <2>2 DEF Handles
  <2> QED  BY <1>2, <2>2, <2>3 DEF Store!TakeCopy, StoreStep, SameContents
<1> QED  BY <1>3, <1>4

\* What is published is what its process took.
LEMMA DraftOf ==
    ASSUME NEW p \in Processes, at[p] \in {"backup_publish", "backup_manifest"}
    PROVE  /\ p \in DOMAIN Drafts /\ Drafts[p] = local[p].staged
           /\ Store!With(Drafts, p, local[p].staged) = Drafts
<1>1. p \in DOMAIN Drafts /\ Drafts[p] = local[p].staged
  BY DEF Drafts
<1>2. DOMAIN Drafts \cup {p} = DOMAIN Drafts
  BY <1>1
<1>3. Drafts = [q \in DOMAIN Drafts |-> Drafts[q]]
  BY DEF Drafts
<1> QED  BY <1>1, <1>2, <1>3 DEF Store!With

\* A copy without its manifest is no backup yet.
LEMMA PublishingStutters ==
    ASSUME LeasesInv, NEW p \in Processes, StepOf(p), BackupPublish(p)
    PROVE  StoreStep(p)
<1> DEFINE b == local[p].target
<1>1. /\ LeasesTypeOK /\ Fits(p) /\ BackupsAreWhole /\ Mine(p)
      /\ at[p] = "backup_publish" /\ UNCHANGED <<db, wal>>
  BY StepsAreMine DEF LeasesInv, BackupPublish
<1>2. Stored' = Stored /\ Generation' = Generation
  BY <1>1 DEF Stored, Generation
<1>3. CASE backup[b].file
  <2>1. Return(p) /\ SameContents
    BY <1>2, <1>3 DEF BackupPublish, Copies, SameContents
  <2> QED  BY <1>1, <1>2, <2>1, ReturnLeaves DEF StoreStep
<1>4. CASE ~backup[b].file
  <2>1. b \in Backups /\ ~backup[b].manifest
    BY <1>1, <1>4 DEF Fits, Leased, BackupSteps, BackupsAreWhole
  <2>2. /\ backup' = [backup EXCEPT ![b].file = TRUE, ![b].content = local[p].staged]
        /\ Goto(p, "backup_manifest") /\ UNCHANGED local
    BY <1>4 DEF BackupPublish
  <2>3. \A a \in Backups : backup'[a].manifest = backup[a].manifest /\ (a # b => backup'[a] = backup[a])
    BY <1>1, <2>1, <2>2 DEF LeasesTypeOK
  <2>4. Copies' = Copies
    BY <2>1, <2>3 DEF Copies
  <2>5. at'[p] = "backup_manifest"
    BY <1>1, <2>2 DEF Goto, LeasesTypeOK
  <2>6. Drafts' = Drafts /\ Handles' = Handles \ {p}
    BY <1>1, <2>2, <2>5, StoreFrame, DraftOf
  <2>7. Handles' = Handles
    BY <1>1, <2>6 DEF Handles
  <2> QED  BY <1>2, <2>4, <2>6, <2>7 DEF Store!storeVars, StoreStep
<1> QED  BY <1>3, <1>4

LEMMA ManifestPublishes ==
    ASSUME LeasesInv, NEW p \in Processes, StepOf(p), BackupManifest(p)
    PROVE  StoreStep(p)
<1> DEFINE b == local[p].target
<1>1. /\ LeasesTypeOK /\ Fits(p) /\ Mine(p)
      /\ at[p] = "backup_manifest" /\ UNCHANGED <<db, wal>>
  BY StepsAreMine DEF LeasesInv, BackupManifest
<1>2. b \in Backups /\ ~backup[b].manifest /\ backup[b].content = local[p].staged
  BY <1>1 DEF Fits, Leased, Copied, BackupSteps
<1>3. /\ backup' = [backup EXCEPT ![b].manifest = TRUE, ![b].claimed = local[p].staged]
      /\ Return(p) \/ Goto(p, local[p].then)
  BY <1>2 DEF BackupManifest
<1>4. /\ \A a \in Backups : a # b => backup'[a] = backup[a]
      /\ backup'[b].manifest /\ backup'[b].content = local[p].staged
  BY <1>1, <1>2, <1>3 DEF LeasesTypeOK
<1>5. b \in Backups \ DOMAIN Copies /\ Copies' = Store!With(Copies, b, local[p].staged)
  <2>1. b \in Backups \ DOMAIN Copies
    BY <1>2 DEF Copies
  <2>2. DOMAIN Copies' = DOMAIN Copies \cup {b}
    BY <1>2, <1>4 DEF Copies
  <2>3. \A a \in DOMAIN Copies' : Copies'[a] = IF a = b THEN local[p].staged ELSE Copies[a]
    BY <1>2, <1>4 DEF Copies
  <2>4. Copies' = [a \in DOMAIN Copies' |-> Copies'[a]]
    BY DEF Copies
  <2> QED  BY <2>1, <2>2, <2>3, <2>4 DEF Store!With
<1>6. at'[p] \notin {"open", "readonly", "backup_publish", "backup_manifest"}
  <2>1. Goto(p, local[p].then) => at'[p] = local[p].then
    BY <1>1, MyTypes DEF Goto, LeasesTypeOK
  <2>2. local[p].then \in {"none", "return", "migrate_open", "restore_stage"}
    BY <1>1, MyTypes DEF LocalType
  <2>3. Return(p) => at'[p] = "idle"
    BY <1>1 DEF Return, Goto, LeasesTypeOK
  <2> QED  BY <1>3, <2>1, <2>2, <2>3
<1>7. Drafts' = Store!Without(Drafts, p) /\ Handles' = Handles \ {p}
  BY <1>1, <1>6, StoreFrame
<1>8. Handles' = Handles /\ Stored' = Stored /\ Generation' = Generation
  BY <1>1, <1>7 DEF Handles, Stored, Generation
<1>9. p \in DOMAIN Drafts /\ Drafts[p] = local[p].staged
  BY <1>1, DraftOf
<1> QED  BY <1>5, <1>7, <1>8, <1>9 DEF Store!Publish, StoreStep

LEMMA FailedManifestDiscards ==
    ASSUME LeasesInv, NEW p \in Processes, StepOf(p), BackupManifestFails(p)
    PROVE  StoreStep(p)
<1> DEFINE b == local[p].target
<1>1. /\ LeasesTypeOK /\ Fits(p)
      /\ at[p] = "backup_manifest" /\ Return(p) /\ UNCHANGED <<db, wal>>
      /\ backup' = [backup EXCEPT ![b].file = FALSE, ![b].content = Empty]
  BY DEF LeasesInv, BackupManifestFails
<1>2. b \in Backups /\ ~backup[b].manifest
  BY <1>1 DEF Fits, Leased, Copied, BackupSteps
<1>3. \A a \in Backups : backup'[a].manifest = backup[a].manifest /\ (a # b => backup'[a] = backup[a])
  BY <1>1, <1>2 DEF LeasesTypeOK
<1>4. Copies' = Copies
  BY <1>2, <1>3 DEF Copies
<1>5. Stored' = Stored /\ Generation' = Generation
  BY <1>1 DEF Stored, Generation
<1> QED  BY <1>1, <1>4, <1>5, ReturnLeaves DEF StoreStep, SameContents

\* Until the rename, a restore changes nothing that is read.
LEMMA PreparedRestoresStutter ==
    ASSUME LeasesInv, NEW p \in Processes, StepOf(p), RestoreCheckpoint(p) \/ RestoreSidecars(p)
    PROVE  StoreStep(p)
<1>1. LeasesTypeOK /\ Fits(p) /\ Mine(p) /\ UNCHANGED backup
  BY StepsAreMine DEF LeasesInv, RestoreCheckpoint, RestoreSidecars
<1>2. at[p] \notin {"open", "readonly", "backup_publish", "backup_manifest"}
  BY DEF RestoreCheckpoint, RestoreSidecars
<1>3. at'[p] \notin {"open", "readonly", "backup_publish", "backup_manifest"}
  BY <1>1 DEF RestoreCheckpoint, RestoreSidecars, Goto, LeasesTypeOK
<1>4. Stored' = Stored
  <2>1. RestoreCheckpoint(p) => Stored' = Stored
    BY DEF RestoreCheckpoint, Stored
  <2>2. RestoreSidecars(p) => Stored' = Stored
    BY <1>1 DEF RestoreSidecars, Stored, Fits, Seen
  <2> QED  BY <2>1, <2>2
<1>5. Copies' = Copies
  BY <1>1 DEF Copies
<1>6. Generation' = Generation
  <2>1. db'.id = db.id
    BY <1>1 DEF RestoreCheckpoint, RestoreSidecars, LeasesTypeOK
  <2> QED  BY <2>1 DEF Generation
<1> QED  BY <1>1, <1>2, <1>3, <1>4, <1>5, <1>6, QuietStep DEF StoreStep, SameContents

LEMMA ReplacementRestores ==
    ASSUME LeasesInv, RestoresCopies, NEW p \in Processes, StepOf(p), RestoreReplace(p)
    PROVE  StoreStep(p)
<1> DEFINE b == local[p].source
<1>1. /\ LeasesTypeOK /\ Fits(p) /\ Mine(p) /\ RestoresCopy(p)
      /\ at[p] = "restore_replace" /\ Return(p) /\ UNCHANGED <<wal, backup>>
      /\ db' = [id |-> db.id + 1, content |-> local[p].staged]
  BY StepsAreMine DEF LeasesInv, RestoresCopies, RestoreReplace
<1>2. wal.of = 0 /\ b \in Backups /\ lease[p] = "exclusive"
  BY <1>1 DEF Fits, Seen, Leased, ExclusiveSteps, RestoreSteps, ReplacingSteps
<1>3. b \in DOMAIN Copies /\ Copies[b] = local[p].staged /\ Copies[b].version <= Releases[p]
  BY <1>1, <1>2 DEF RestoresCopy, ReplacingSteps, Copies, Releases
<1>4. Stored' = local[p].staged /\ Generation' = Generation + 1
  <2>1. db.id # 0
    BY <1>1, <1>2 DEF RestoresCopies, NoCopyWithoutCorpus, RestoresCopy, ReplacingSteps
  <2>2. db.id \in Nat
    BY <1>1 DEF LeasesTypeOK
  <2> QED  BY <1>1, <1>2, <2>1, <2>2 DEF Stored, Generation
<1>5. at'[p] = "idle"
  BY <1>1 DEF Return, Goto, LeasesTypeOK
<1>6. Handles = {} /\ Handles' = Handles \ {p} /\ Drafts' = Drafts /\ Copies' = Copies
  BY <1>1, <1>2, <1>5, ExclusiveUseIsAlone, StoreFrame, WithoutNothing DEF Copies
<1> QED  BY <1>3, <1>4, <1>6 DEF Store!Restore, StoreStep

LEMMA InitIsEmptyStore == LeaseInit => Store!Init
<1> SUFFICES ASSUME LeaseInit PROVE Store!Init
  OBVIOUS
<1>1. Stored \in [version : 0..2, writes : {{}}] /\ Generation = 1
  BY DEF LeaseInit, Stored, Empty, Generation
<1>2. Handles = {}
  BY DEF LeaseInit, Handles
<1>3. DOMAIN Drafts = {} /\ DOMAIN Copies = {}
  BY DEF LeaseInit, Drafts, Copies, NoBackup
<1>4. Drafts = Store!Nothing
  BY <1>3 DEF Drafts, Store!Nothing
<1>5. Copies = Store!Nothing
  BY <1>3 DEF Copies, Store!Nothing
<1> QED  BY <1>1, <1>2, <1>4, <1>5 DEF Store!Init

LEMMA EveryStepIsTheStores ==
    ASSUME LeasesInv, RestoresCopies, [LeaseNext]_leaseVars
    PROVE  [Store!Next]_Store!storeVars
<1>1. CASE UNCHANGED leaseVars
  BY <1>1 DEF leaseVars, Store!storeVars, Stored, Generation, Handles, Drafts, Copies
<1>2. CASE LeaseNext
  <2>1. PICK p \in Processes : StepOf(p)
    BY <1>2 DEF LeaseNext, StepOf
  <2>2. OpenStep(p) => StoreStep(p)
    BY <2>1, InspectionsStutter, PreparationsStutter, ValidationsOpen, ClosingLeaves,
       WritesCommit, MigrationsUpgrade DEF OpenStep
  <2>3. BackupStep(p) => StoreStep(p)
    BY <2>1, InspectionsStutter, StagingTakesCopy, PublishingStutters, ManifestPublishes,
       FailedManifestDiscards DEF BackupStep
  <2>4. ReplaceStep(p) => StoreStep(p)
    BY <2>1, InspectionsStutter, PreparationsStutter, MigrationsUpgrade, ClosingLeaves,
       PreparedRestoresStutter, ReplacementRestores DEF ReplaceStep
  <2>5. Busy(p) \/ Fails(p) \/ ProcessDies(p) => StoreStep(p)
    BY <2>1, ClosingLeaves
  <2>6. StoreStep(p)
    BY <2>1, <2>2, <2>3, <2>4, <2>5 DEF StepOf
  <2> QED  BY <2>6 DEF StoreStep, Store!Next
<1> QED  BY <1>1, <1>2

\* What a restore puts at the path is a backup that is published until then, and
\* that the binary may read (RestoreStage, RestoreReplace).
THEOREM RestoresAreOfBackups == LeaseSpec => []RestoresCopies
<1>1. LeaseInit => RestoresCopies
  BY DEF LeaseInit, RestoresCopies, RestoresCopy, ReplacingSteps, NoCopyWithoutCorpus, NoBackup,
      PublishingSteps
<1>2. LeasesInv /\ RestoresCopies /\ [LeaseNext]_leaseVars => RestoresCopies'
  <2> SUFFICES ASSUME LeasesInv, RestoresCopies, [LeaseNext]_leaseVars PROVE RestoresCopies'
    OBVIOUS
  <2>1. CASE UNCHANGED leaseVars
    BY <2>1 DEF leaseVars, RestoresCopies, NoCopyWithoutCorpus, RestoresCopy, Target
  <2>2. CASE LeaseNext
    BY <2>2, RestoresCopiesKept DEF LeaseNext, StepOf
  <2> QED  BY <2>1, <2>2
<1> QED  BY <1>1, <1>2, LeasesInvariant, PTL DEF LeaseSpec

\* The files, the log and the lease implement the store that a corpus promises to
\* be (ImplementsStore), for any number of processes of either release.
THEOREM FilesImplementStore == LeaseSpec => ImplementsStore
<1>1. LeaseInit => Store!Init
  BY InitIsEmptyStore
<1>2. LeasesInv /\ RestoresCopies /\ [LeaseNext]_leaseVars => [Store!Next]_Store!storeVars
  BY EveryStepIsTheStores
<1> QED  BY <1>1, <1>2, LeasesInvariant, RestoresAreOfBackups, PTL
         DEF LeaseSpec, ImplementsStore, Store!Spec
=============================================================================

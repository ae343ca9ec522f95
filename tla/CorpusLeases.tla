---------------------------- MODULE CorpusLeases ----------------------------
(***************************************************************************)
(* The corpus file, its write-ahead log, the lease on it and its backups   *)
(* (internal/corpus/corpus.go, lock.go, lifecycle.go, restore.go), as used *)
(* by internal/app/corpus_lifecycle.go.  A process is one caller of the    *)
(* package: it opens the corpus, backs it up, migrates it or restores it.  *)
(* The lease is an flock on a sidecar file: it is tried, never waited for, *)
(* and the kernel drops it when its holder dies.                           *)
(*                                                                         *)
(* Inspections that precede an operation take no lease, or one they give   *)
(* back at once: what they decided may be old when the operation gets its  *)
(* own.  Binaries of two releases may run at a time.                       *)
(*                                                                         *)
(* SQLite is the external part: a committed transaction is seen by every   *)
(* connection to the same file, a backup copies one committed state, and   *)
(* the last connection to close folds the log into the file.               *)
(***************************************************************************)
EXTENDS Naturals, FiniteSets

CONSTANTS
    Processes,      \* callers of the package
    OldBinaries,    \* those whose binary knows only the first schema version
    Backups,        \* paths a backup may be written to
    NoPath,         \* no backup was asked for
    MaxWrites,      \* bound on the transactions of open corpora
    MaxFiles,       \* bound on the files that are ever put at the path
    MaxBreakdowns   \* bound on crashes and failed steps

ASSUME LeasesAssumption ==
    /\ OldBinaries \subseteq Processes
    /\ NoPath \notin Backups
    /\ MaxWrites \in Nat /\ MaxFiles \in Nat \ {0} /\ MaxBreakdowns \in Nat

VARIABLES
    db,             \* the file at the path: its identity (0: none) and content
    wal,            \* its log: the file it belongs to (0: none) and what is
                    \* read through it
    lease,          \* what each process holds of the flock
    backup,         \* the published backups, each with its manifest
    at,             \* the next step of each process
    local,          \* the local variables of each process
    written,        \* history: the transactions that were acknowledged
    unguarded,      \* history: those a restore replaced without a safety
                    \* backup, having found no corpus when it looked
    breakdowns      \* crashes and failed steps so far

leaseVars == <<db, wal, lease, backup, at, local, written, unguarded, breakdowns>>
-----------------------------------------------------------------------------
\* latestSchemaVersion of the binary.
Target(p) == IF p \in OldBinaries THEN 1 ELSE 2

Writes == 1..MaxWrites
Content == [version : 0..2, writes : SUBSET Writes]
Empty == [version |-> 0, writes |-> {}]
NoBackup == [file |-> FALSE, manifest |-> FALSE, content |-> Empty, claimed |-> Empty]

\* What a connection to the path reads.
Stored == IF wal.of = 0 THEN db.content ELSE wal.content

NoOperation ==
    [needs |-> FALSE, file |-> 0, target |-> NoPath, source |-> NoPath,
     then |-> "none", staged |-> Empty, found |-> TRUE]

\* A connection is open from here on.
Connected == {"initialize", "open", "readonly", "migrate"}
Connections == {p \in Processes : at[p] \in Connected}

\* flock: shared with shared, exclusive with none.
CanShare == \A q \in Processes : lease[q] # "exclusive"
CanExclude == \A q \in Processes : lease[q] = "none"

Goto(p, step) == at' = [at EXCEPT ![p] = step]
\* The operation returns: the deferred calls drop the lease and what it staged.
Return(p) ==
    /\ Goto(p, "idle")
    /\ local' = [local EXCEPT ![p] = NoOperation]
    /\ lease' = [lease EXCEPT ![p] = "none"]

\* Closing a connection; the last one folds the log into the file.
CloseConnection(p) ==
    IF Connections = {p} /\ wal.of # 0
    THEN /\ db' = [db EXCEPT !.content = Stored]
         /\ wal' = [of |-> 0, content |-> Empty]
    ELSE UNCHANGED <<db, wal>>

\* A transaction committed through p's connection.
Commit(p, content) ==
    IF local[p].file = db.id
    THEN wal' = [of |-> db.id, content |-> content]
    ELSE UNCHANGED wal              \* into a file no longer at the path

\* prepareDatabaseFile.
PrepareFile ==
    IF db.id = 0 THEN db' = [id |-> 1, content |-> Empty] ELSE UNCHANGED db
-----------------------------------------------------------------------------
(***************************************************************************)
(* Opening.                                                                *)
(***************************************************************************)
NeedsInitialization == db.id = 0 \/ Stored.version = 0

\* inspectOpenRequest, before any lease.
OpenInspect(p) ==
    /\ at[p] = "idle"
    /\ NeedsInitialization \/ Stored.version = Target(p)
    /\ Goto(p, "open_acquire")
    /\ local' = [local EXCEPT ![p].needs = NeedsInitialization]
    /\ UNCHANGED <<db, wal, lease, backup, written, unguarded, breakdowns>>

OpenAcquire(p) ==
    /\ at[p] = "open_acquire"
    /\ IF local[p].needs THEN CanExclude ELSE CanShare
    /\ lease' = [lease EXCEPT ![p] =
           IF local[p].needs THEN "exclusive" ELSE "shared"]
    /\ Goto(p, "open_recheck")
    /\ UNCHANGED <<db, wal, backup, local, written, unguarded, breakdowns>>

\* inspectOpenRequestUnderLease, then validateOpenCorpusSchema.  A file that
\* another process has initialized meanwhile is opened under the lease held.
OpenCurrent(p) ==
    /\ at[p] = "open_recheck"
    /\ ~NeedsInitialization
    /\ IF Stored.version = Target(p)
       THEN /\ Goto(p, "open")
            /\ local' = [local EXCEPT ![p].file = db.id]
            /\ UNCHANGED lease
       ELSE Return(p)
    /\ UNCHANGED <<db, wal, backup, written, unguarded, breakdowns>>

\* A missing or empty file is only initialized by the one who asked to.
OpenUninitialized(p) ==
    /\ at[p] = "open_recheck"
    /\ NeedsInitialization
    /\ PrepareFile
    /\ IF local[p].needs
       THEN /\ Goto(p, "initialize")
            /\ local' = [local EXCEPT ![p].file = db'.id]
            /\ UNCHANGED lease
       ELSE Return(p)
    /\ UNCHANGED <<wal, backup, written, unguarded, breakdowns>>

\* One embedded migration, one transaction.
NextVersion == [Stored EXCEPT !.version = @ + 1]

Initialize(p) ==
    /\ at[p] = "initialize"
    /\ Stored.version < Target(p)
    /\ Commit(p, NextVersion)
    /\ UNCHANGED <<db, lease, backup, at, local, written, unguarded, breakdowns>>

\* releaseInitializedCorpus: close, then release.
HandOff(p) ==
    /\ at[p] = "initialize"
    /\ Stored.version = Target(p)
    /\ CloseConnection(p)
    /\ lease' = [lease EXCEPT ![p] = "none"]
    /\ Goto(p, "reopen")
    /\ local' = [local EXCEPT ![p].needs = FALSE, ![p].file = 0]
    /\ UNCHANGED <<backup, written, unguarded, breakdowns>>

\* reopenInitializedCorpus.
Reopen(p) ==
    /\ at[p] = "reopen"
    /\ CanShare
    /\ lease' = [lease EXCEPT ![p] = "shared"]
    /\ Goto(p, "reopen_validate")
    /\ UNCHANGED <<db, wal, backup, local, written, unguarded, breakdowns>>

\* Whatever the path holds by now is opened: mutant.
ReopenUnvalidated(p) ==
    /\ at[p] = "reopen_validate"
    /\ Goto(p, "open")
    /\ local' = [local EXCEPT ![p].file = db.id]
    /\ UNCHANGED <<db, wal, lease, backup, written, unguarded, breakdowns>>

ReopenValidate(p) ==
    /\ at[p] = "reopen_validate"
    /\ IF db.id # 0 /\ Stored.version = Target(p)
       THEN /\ Goto(p, "open")
            /\ local' = [local EXCEPT ![p].file = db.id]
            /\ UNCHANGED lease
       ELSE Return(p)
    /\ UNCHANGED <<db, wal, backup, written, unguarded, breakdowns>>

\* OpenReadOnly.
ReadOnlyInspect(p) ==
    /\ at[p] = "idle"
    /\ db.id # 0 /\ Stored.version = Target(p)
    /\ Goto(p, "readonly_acquire")
    /\ UNCHANGED <<db, wal, lease, backup, local, written, unguarded, breakdowns>>

ReadOnlyAcquire(p) ==
    /\ at[p] = "readonly_acquire"
    /\ CanShare
    /\ lease' = [lease EXCEPT ![p] = "shared"]
    /\ Goto(p, "readonly_validate")
    /\ UNCHANGED <<db, wal, backup, local, written, unguarded, breakdowns>>

ReadOnlyValidate(p) ==
    /\ at[p] = "readonly_validate"
    /\ IF db.id # 0 /\ Stored.version = Target(p)
       THEN /\ Goto(p, "readonly")
            /\ local' = [local EXCEPT ![p].file = db.id]
            /\ UNCHANGED lease
       ELSE Return(p)
    /\ UNCHANGED <<db, wal, backup, written, unguarded, breakdowns>>

\* A transaction of an open corpus.
Write(p) ==
    /\ at[p] = "open"
    /\ \E w \in Writes \ written :
        /\ \A v \in Writes : v < w => v \in written
        /\ written' = written \cup {w}
        /\ Commit(p, [Stored EXCEPT !.writes = @ \cup {w}])
    /\ UNCHANGED <<db, lease, backup, at, local, unguarded, breakdowns>>

Close(p) ==
    /\ at[p] \in {"open", "readonly"}
    /\ CloseConnection(p)
    /\ Return(p)
    /\ UNCHANGED <<backup, written, unguarded, breakdowns>>
-----------------------------------------------------------------------------
(***************************************************************************)
(* Backup: a private copy, published by hard links that replace nothing,   *)
(* the copy first and its manifest last.                                   *)
(***************************************************************************)
BackupAcquire(p) ==
    /\ at[p] = "idle"
    /\ db.id # 0
    /\ CanShare
    /\ lease' = [lease EXCEPT ![p] = "shared"]
    /\ Goto(p, "backup_stage")
    /\ \E b \in Backups : local' = [local EXCEPT ![p].target = b, ![p].then = "return"]
    /\ UNCHANGED <<db, wal, backup, written, unguarded, breakdowns>>

\* The file is copied without its log: mutant.
BackupStageFileOnly(p) ==
    /\ at[p] = "backup_stage"
    /\ IF db.id = 0 \/ backup[local[p].target].file \/ backup[local[p].target].manifest
       THEN Return(p)
       ELSE /\ Goto(p, "backup_publish")
            /\ local' = [local EXCEPT ![p].staged = db.content]
            /\ UNCHANGED lease
    /\ UNCHANGED <<db, wal, backup, written, unguarded, breakdowns>>

\* prepareBackup and createStagedBackup.
BackupStage(p) ==
    /\ at[p] = "backup_stage"
    /\ IF db.id = 0 \/ backup[local[p].target].file \/ backup[local[p].target].manifest
       THEN Return(p)
       ELSE /\ Goto(p, "backup_publish")
            /\ local' = [local EXCEPT ![p].staged = Stored]
            /\ UNCHANGED lease
    /\ UNCHANGED <<db, wal, backup, written, unguarded, breakdowns>>

\* The copy is renamed over whatever is there: mutant.
BackupPublishReplacing(p) ==
    LET b == local[p].target IN
    /\ at[p] = "backup_publish"
    /\ backup' = [backup EXCEPT ![b].file = TRUE, ![b].content = local[p].staged]
    /\ Goto(p, "backup_manifest")
    /\ UNCHANGED <<db, wal, lease, local, written, unguarded, breakdowns>>

\* publishFileNoReplace of the copy.
BackupPublish(p) ==
    LET b == local[p].target IN
    /\ at[p] = "backup_publish"
    /\ IF backup[b].file
       THEN Return(p) /\ UNCHANGED backup
       ELSE /\ backup' = [backup EXCEPT ![b].file = TRUE,
                                        ![b].content = local[p].staged]
            /\ Goto(p, "backup_manifest")
            /\ UNCHANGED <<lease, local>>
    /\ UNCHANGED <<db, wal, written, unguarded, breakdowns>>

\* publishFileNoReplace of the manifest; the caller goes on.
BackupManifest(p) ==
    LET b == local[p].target IN
    /\ at[p] = "backup_manifest"
    /\ IF backup[b].manifest
       THEN /\ backup' = [backup EXCEPT ![b].file = FALSE, ![b].content = Empty]
            /\ Return(p)
       ELSE /\ backup' = [backup EXCEPT ![b].manifest = TRUE,
                                        ![b].claimed = local[p].staged]
            /\ IF local[p].then = "return"
               THEN Return(p)
               ELSE /\ Goto(p, local[p].then)
                    /\ UNCHANGED <<lease, local>>
    /\ UNCHANGED <<db, wal, written, unguarded, breakdowns>>

\* The manifest cannot be published: the copy is removed again.
BackupManifestFails(p) ==
    /\ at[p] = "backup_manifest"
    /\ breakdowns < MaxBreakdowns
    /\ breakdowns' = breakdowns + 1
    /\ backup' = [backup EXCEPT ![local[p].target].file = FALSE,
                                ![local[p].target].content = Empty]
    /\ Return(p)
    /\ UNCHANGED <<db, wal, written, unguarded>>
-----------------------------------------------------------------------------
(***************************************************************************)
(* Migration and restore.  InspectSchema finds the corpus and decides      *)
(* whether a safety backup is taken; the exclusive lease comes later.      *)
(***************************************************************************)
\* InspectSchema is refused while another process holds the lease exclusively,
\* unless it finds no file.
Inspectable == db.id = 0 \/ CanShare

\* MigrateCorpus: by default with a backup, if there is anything to back up.
MigrateInspect(p) ==
    /\ at[p] = "idle"
    /\ Inspectable
    /\ db.id = 0 \/ Stored.version < Target(p)
    /\ Goto(p, "migrate_acquire")
    /\ IF db.id = 0
       THEN local' = [local EXCEPT ![p].found = FALSE]
       ELSE \E b \in Backups \cup {NoPath} : local' = [local EXCEPT ![p].target = b]
    /\ UNCHANGED <<db, wal, lease, backup, written, unguarded, breakdowns>>

\* MigrateWithBackup: one lease for the backup and the migration.
MigrateAcquire(p) ==
    /\ at[p] = "migrate_acquire"
    /\ CanExclude
    /\ lease' = [lease EXCEPT ![p] = "exclusive"]
    /\ Goto(p, IF local[p].target = NoPath THEN "migrate_open" ELSE "backup_stage")
    /\ local' = [local EXCEPT ![p].then = "migrate_open"]
    /\ UNCHANGED <<db, wal, backup, written, unguarded, breakdowns>>

\* migrateWithLease up to ApplyMigrations, which refuses a newer schema.
MigrateOpen(p) ==
    /\ at[p] = "migrate_open"
    /\ PrepareFile
    /\ IF Stored.version > Target(p)
       THEN Return(p)
       ELSE /\ Goto(p, "migrate")
            /\ local' = [local EXCEPT ![p].file = db'.id]
            /\ UNCHANGED lease
    /\ UNCHANGED <<wal, backup, written, unguarded, breakdowns>>

\* One migration too many: mutant.
MigratePast(p) ==
    /\ at[p] = "migrate"
    /\ Stored.version <= Target(p)
    /\ Commit(p, NextVersion)
    /\ UNCHANGED <<db, lease, backup, at, local, written, unguarded, breakdowns>>

Migrate(p) ==
    /\ at[p] = "migrate"
    /\ Stored.version < Target(p)
    /\ Commit(p, NextVersion)
    /\ UNCHANGED <<db, lease, backup, at, local, written, unguarded, breakdowns>>

MigrateDone(p) ==
    /\ at[p] = "migrate"
    /\ Stored.version = Target(p)
    /\ CloseConnection(p)
    /\ Return(p)
    /\ UNCHANGED <<backup, written, unguarded, breakdowns>>

\* RestoreCorpus: a safety backup to the path it was given, or to one it makes up
\* if a corpus was found.
RestoreInspect(p) ==
    /\ at[p] = "idle"
    /\ Inspectable
    /\ Goto(p, "restore_acquire")
    /\ \E source \in Backups :
        \/ /\ db.id = 0
           /\ local' = [local EXCEPT ![p].source = source, ![p].found = FALSE]
        \/ \E b \in Backups : local' = [local EXCEPT ![p].source = source, ![p].target = b]
    /\ UNCHANGED <<db, wal, lease, backup, written, unguarded, breakdowns>>

\* RestoreWithSafetyBackup: one lease for the backup and the restore.
RestoreAcquire(p) ==
    /\ at[p] = "restore_acquire"
    /\ CanExclude
    /\ lease' = [lease EXCEPT ![p] = "exclusive"]
    /\ Goto(p, IF local[p].target = NoPath THEN "restore_stage" ELSE "backup_stage")
    /\ local' = [local EXCEPT ![p].then = "restore_stage"]
    /\ UNCHANGED <<db, wal, backup, written, unguarded, breakdowns>>

\* readBackupManifest, snapshotRestoreSource, validateRestoreArtifact,
\* createStagedRestore.  MaxFiles bounds how often a restore gets this far.
RestoreStage(p) ==
    LET b == backup[local[p].source] IN
    /\ at[p] = "restore_stage"
    /\ IF /\ b.file /\ b.manifest
          /\ b.content = b.claimed
          /\ b.content.version <= Target(p)
          /\ db.id < MaxFiles
       THEN /\ Goto(p, "restore_checkpoint")
            /\ local' = [local EXCEPT ![p].staged = b.content]
            /\ UNCHANGED lease
       ELSE Return(p)
    /\ UNCHANGED <<db, wal, backup, written, unguarded, breakdowns>>

\* The log is folded and left beside the file: mutant.
RestoreCheckpointOnly(p) ==
    /\ at[p] = "restore_checkpoint"
    /\ db' = IF wal.of = 0 THEN db ELSE [db EXCEPT !.content = Stored]
    /\ Goto(p, "restore_replace")
    /\ UNCHANGED <<wal, lease, backup, local, written, unguarded, breakdowns>>

\* checkpointDestinationForReplacement: the log is folded, then removed.
RestoreCheckpoint(p) ==
    /\ at[p] = "restore_checkpoint"
    /\ db' = IF wal.of = 0 THEN db ELSE [db EXCEPT !.content = Stored]
    /\ Goto(p, "restore_sidecars")
    /\ UNCHANGED <<wal, lease, backup, local, written, unguarded, breakdowns>>

RestoreSidecars(p) ==
    /\ at[p] = "restore_sidecars"
    /\ wal' = [of |-> 0, content |-> Empty]
    /\ Goto(p, "restore_replace")
    /\ UNCHANGED <<db, lease, backup, local, written, unguarded, breakdowns>>

\* replaceDatabaseFile: a rename over the path.
RestoreReplace(p) ==
    /\ at[p] = "restore_replace"
    /\ db' = [id |-> db.id + 1, content |-> local[p].staged]
    /\ unguarded' = IF local[p].found THEN unguarded
                                      ELSE unguarded \cup Stored.writes
    /\ Return(p)
    /\ UNCHANGED <<wal, backup, written, breakdowns>>
-----------------------------------------------------------------------------
\* BusyError: the lease is not available.
Busy(p) ==
    /\ \/ at[p] \in {"reopen", "readonly_acquire"} /\ ~CanShare
       \/ at[p] = "open_acquire" /\ ~(IF local[p].needs THEN CanExclude ELSE CanShare)
       \/ at[p] \in {"migrate_acquire", "restore_acquire"} /\ ~CanExclude
    /\ Return(p)
    /\ UNCHANGED <<db, wal, backup, written, unguarded, breakdowns>>

\* Any other step fails, or the context is cancelled: everything deferred runs.
Fails(p) ==
    /\ at[p] \notin {"idle", "open", "readonly", "backup_manifest"}
    /\ breakdowns < MaxBreakdowns
    /\ breakdowns' = breakdowns + 1
    /\ CloseConnection(p)
    /\ Return(p)
    /\ UNCHANGED <<backup, written, unguarded>>

\* The process dies: the kernel drops its lease; files stay as they are.
ProcessDies(p) ==
    /\ at[p] # "idle"
    /\ breakdowns < MaxBreakdowns
    /\ breakdowns' = breakdowns + 1
    /\ Return(p)
    /\ UNCHANGED <<db, wal, backup, written, unguarded>>

OpenStep(p) ==
    \/ OpenInspect(p) \/ OpenAcquire(p) \/ OpenCurrent(p) \/ OpenUninitialized(p)
    \/ Initialize(p) \/ HandOff(p) \/ Reopen(p) \/ ReopenValidate(p)
    \/ ReadOnlyInspect(p) \/ ReadOnlyAcquire(p) \/ ReadOnlyValidate(p)
    \/ Write(p) \/ Close(p)

BackupStep(p) ==
    \/ BackupAcquire(p) \/ BackupStage(p) \/ BackupPublish(p)
    \/ BackupManifest(p) \/ BackupManifestFails(p)

ReplaceStep(p) ==
    \/ MigrateInspect(p) \/ MigrateAcquire(p) \/ MigrateOpen(p)
    \/ Migrate(p) \/ MigrateDone(p)
    \/ RestoreInspect(p) \/ RestoreAcquire(p) \/ RestoreStage(p)
    \/ RestoreCheckpoint(p) \/ RestoreSidecars(p) \/ RestoreReplace(p)

LeaseNext ==
    \E p \in Processes :
        OpenStep(p) \/ BackupStep(p) \/ ReplaceStep(p)
        \/ Busy(p) \/ Fails(p) \/ ProcessDies(p)

\* The path is empty, or holds a corpus of either release.
LeaseInit ==
    /\ db \in [id : {0}, content : {Empty}]
              \cup [id : {1}, content : [version : {1, 2}, writes : {{}}]]
    /\ wal = [of |-> 0, content |-> Empty]
    /\ lease = [p \in Processes |-> "none"]
    /\ backup = [b \in Backups |-> NoBackup]
    /\ at = [p \in Processes |-> "idle"]
    /\ local = [p \in Processes |-> NoOperation]
    /\ written = {}
    /\ unguarded = {}
    /\ breakdowns = 0

LeaseSpec == LeaseInit /\ [][LeaseNext]_leaseVars
-----------------------------------------------------------------------------
Steps == {"idle", "open_acquire", "open_recheck", "initialize", "reopen",
          "reopen_validate", "open", "readonly_acquire", "readonly_validate",
          "readonly", "backup_stage", "backup_publish", "backup_manifest",
          "migrate_acquire", "migrate_open", "migrate", "restore_acquire",
          "restore_stage", "restore_checkpoint", "restore_sidecars",
          "restore_replace"}

\* The state of files, leases and processes is well formed.
LeasesTypeOK ==
    /\ db \in [id : 0..MaxFiles, content : Content]
    /\ wal \in [of : 0..MaxFiles, content : Content]
    /\ lease \in [Processes -> {"none", "shared", "exclusive"}]
    /\ backup \in [Backups -> [file : BOOLEAN, manifest : BOOLEAN,
                               content : Content, claimed : Content]]
    /\ at \in [Processes -> Steps]
    /\ local \in [Processes ->
           [needs : BOOLEAN, file : 0..MaxFiles, target : Backups \cup {NoPath},
            source : Backups \cup {NoPath},
            then : {"none", "return", "migrate_open", "restore_stage"},
            staged : Content, found : BOOLEAN]]
    /\ written \subseteq Writes
    /\ unguarded \subseteq Writes
    /\ breakdowns \in 0..MaxBreakdowns

\* An open corpus is a connection to the file now at the path, and that file
\* has the schema of the process's binary: nobody replaces or migrates a
\* corpus under an open handle (Open, handoffInitializedCorpus, Restore,
\* MigrateWithBackup), whatever was inspected before the lease was held.
HandlesAreCurrent ==
    \A p \in Processes :
        at[p] \in {"open", "readonly"} =>
            local[p].file = db.id /\ Stored.version = Target(p)

\* The log at the path belongs to the file at the path, also when a restore
\* dies between folding, removing and replacing
\* (checkpointDestinationForReplacement, replaceDatabaseFile): SQLite would
\* replay the frames of one database into the other.
DatabaseIsWhole == wal.of \in {0, db.id}

\* A backup with a manifest is the copy the manifest describes, even when two
\* processes back up to one path (publishBackup, publishFileNoReplace).
BackupsAreWhole ==
    \A b \in Backups :
        backup[b].manifest => backup[b].file /\ backup[b].content = backup[b].claimed

\* A transaction is in the corpus, or in a backup that can be restored.
Survives(w) ==
    \/ w \in Stored.writes
    \/ \E b \in Backups :
          /\ backup[b].file /\ backup[b].manifest
          /\ w \in backup[b].content.writes

\* Every acknowledged transaction survives any number of crashes, migrations
\* and restores (RestoreWithSafetyBackup holds one lease from the safety backup
\* to the replacement), unless the restore that replaced it had found no corpus
\* to back up and was given no path.  Those are not covered.
WritesSurvive == \A w \in written \ unguarded : Survives(w)

\* The files implement the store that a corpus promises to be: a commit reaches
\* what everybody reads, folding or dropping a log loses nothing, a restore takes
\* effect in one step and with a published backup, and neither it nor a migration
\* happens under an open handle - whatever dies or fails in between (OpenReadOnly,
\* handoffInitializedCorpus, MigrateWithBackup, restoreWithLease, publishBackup).
Handles == {p \in Processes : at[p] \in {"open", "readonly"}}
Drafts == [p \in {q \in Processes : at[q] \in {"backup_publish", "backup_manifest"}} |->
              local[p].staged]
Copies == [b \in {c \in Backups : backup[c].manifest} |-> backup[b].content]
Generation == IF db.id = 0 THEN 1 ELSE db.id
Releases == [p \in Processes |-> Target(p)]

Store == INSTANCE CorpusStore WITH
    Release <- Releases, content <- Stored, generation <- Generation,
    users <- Handles, drafts <- Drafts, copies <- Copies
ImplementsStore == Store!Spec

\* docs/architecture.md: "Normal readers hold shared leases".
OpenCorporaShare ==
    \A p \in Processes : at[p] \in {"open", "readonly"} => lease[p] = "shared"
=============================================================================

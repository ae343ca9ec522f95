--------------------------- MODULE Registrations ---------------------------
(***************************************************************************)
(* The MCP registrations of the coding clients, and the private runtimes   *)
(* they name: setup and removal (internal/app/setup.go and Run of          *)
(* internal/setup/setup.go), activation of a release by an upgrade and     *)
(* repair of stale registrations (internal/app/upgrade.go,                 *)
(* upgrade_activation.go, ActivateExistingAndVerify and RepairExisting of  *)
(* setup.go), by several processes and beside the clients and users, who   *)
(* edit the same files without the lease.                                  *)
(*                                                                         *)
(* Of a client's configuration file the GitContribute entry and the mode   *)
(* are modelled: runtime 0 stands for no entry, "canonical" says that the  *)
(* arguments are those of the current launcher.  The rest of the file is   *)
(* written back as it was read.                                            *)
(***************************************************************************)
EXTENDS Integers, FiniteSets, FiniteSetsExt

CONSTANTS
    Clients,        \* supported clients, numbered in the order of clientAdapters
    Versions,       \* releases, numbered in their order
    Operators,      \* processes that run setup, remove or upgrade
    MaxBegins,      \* bound on the commands begun
    MaxEdits,       \* bound on the edits of others
    MaxMishaps      \* bound on failing writes, cancellations and crashes

ASSUME RegistrationsAssumption ==
    /\ Clients \subseteq Nat /\ IsFiniteSet(Clients)
    /\ Versions \subseteq Nat \ {0} /\ Versions # {}
    /\ MaxBegins \in Nat /\ MaxEdits \in Nat /\ MaxMishaps \in Nat

VARIABLES
    config,         \* the file of each client
    runtimes,       \* the private runtimes installed
    setupLease,     \* the holder of .gitcontribute-setup.lock, or {}
    command,        \* the local variables of each process
    began, edits, mishaps,
    edited          \* history: files that others changed since each process
                    \* took the lease or wrote them last

registrationVars == <<config, runtimes, setupLease, command, began, edits,
                      mishaps, edited>>
-----------------------------------------------------------------------------
Files == {f \in [runtime : Versions \cup {0}, canonical : BOOLEAN, private : BOOLEAN] :
             f.runtime = 0 => ~f.canonical}

Registered(file) == file.runtime # 0

\* What a registration of runtime v looks like after writeAtomic.
Launcher(v) == [runtime |-> v, canonical |-> TRUE, private |-> TRUE]
Unregistered == [runtime |-> 0, canonical |-> FALSE, private |-> TRUE]

SameEntry(a, b) == a.runtime = b.runtime /\ a.canonical = b.canonical

\* configureClient: an entry that is right already is not written.
Configured(file, v) == IF SameEntry(file, Launcher(v)) THEN file ELSE Launcher(v)
Removed(file) == IF Registered(file) THEN Unregistered ELSE file

NoCommand == [pc |-> "idle", kind |-> "none", target |-> 0, todo |-> {},
              chosen |-> {}, want |-> [c \in Clients |-> 0],
              snapshot |-> [c \in Clients |-> Unregistered],
              activated |-> {}, result |-> "none"]

\* Process p goes on to a phase without any other change of its variables.
Go(p, phase) == command' = [command EXCEPT ![p].pc = phase]

Finish(p, outcome) ==
    command' = [command EXCEPT ![p].pc = "finish", ![p].result = outcome]

Write(p, c, file) ==
    /\ config' = [config EXCEPT ![c] = file]
    /\ edited' = [edited EXCEPT ![p] = @ \ {c}]

\* Goes on without the lease: mutant.
TakeLeaseAnyway(p) == setupLease' = {p}

\* TryLock: fails at once when another process has the lease.
TakeLease(p) == setupLease = {} /\ setupLease' = {p}

RegistrationsInit ==
    /\ runtimes \in {vs \in SUBSET Versions : vs # {}}
    /\ config \in [Clients -> {f \in Files : f.runtime \in runtimes \cup {0}}]
    /\ setupLease = {}
    /\ command = [p \in Operators |-> NoCommand]
    /\ began = 0 /\ edits = 0 /\ mishaps = 0
    /\ edited = [p \in Operators |-> {}]
-----------------------------------------------------------------------------
(***************************************************************************)
(* The commands up to the lease.                                           *)
(***************************************************************************)
Begin(p, next) ==
    /\ command[p].pc = "idle"
    /\ began < MaxBegins /\ began' = began + 1
    /\ command' = [command EXCEPT ![p] = next]
    /\ UNCHANGED <<config, runtimes, setupLease, edits, mishaps, edited>>

\* setup of release v for some clients; installManagedRuntime refuses when a
\* newer private runtime is installed.
BeginSetup(p) ==
    \E v \in Versions : \E clients \in SUBSET Clients \ {{}} :
        /\ \A installed \in runtimes : installed <= v
        /\ Begin(p, [NoCommand EXCEPT !.pc = "install", !.kind = "setup",
                     !.target = v, !.chosen = clients])

BeginRemove(p) ==
    \E clients \in SUBSET Clients \ {{}} :
        Begin(p, [NoCommand EXCEPT !.pc = "lock", !.kind = "remove", !.chosen = clients])

\* upgrade --yes, by release own, to the registry's latest release v: the clients
\* registered for something older than any release in sight (a stale one only
\* when it is older than v).
BeginUpgrade(p) ==
    \E own, v \in Versions :
        LET newest   == Max(runtimes \cup {own, v})
            outdated == {c \in Clients : /\ Registered(config[c])
                                         /\ config[c].runtime <
                                              IF config[c].canonical THEN newest ELSE v}
        IN  /\ outdated # {}
            /\ Begin(p, [NoCommand EXCEPT !.pc = "install", !.kind = "upgrade",
                         !.target = v, !.chosen = outdated])

\* upgrade --yes, for the registrations with stale arguments.
BeginRepair(p) ==
    LET stale == {c \in Clients : Registered(config[c]) /\ ~config[c].canonical}
    IN  /\ stale # {}
        /\ Begin(p, [NoCommand EXCEPT !.pc = "lock", !.kind = "repair", !.chosen = stale])

\* The registrations come first: mutant.
InstallLater(p) ==
    /\ command[p].pc = "install"
    /\ Go(p, "lock")
    /\ UNCHANGED <<config, runtimes, setupLease, began, edits, mishaps, edited>>

\* managedbinary.Install: the runtime gets its own path, by an atomic rename,
\* before any registration names it.
InstallRuntime(p) ==
    /\ command[p].pc = "install"
    /\ runtimes' = runtimes \cup {command[p].target}
    /\ Go(p, "lock")
    /\ UNCHANGED <<config, setupLease, began, edits, mishaps, edited>>

\* The installation fails, the release is not to be had, or another process has
\* the lease: nothing has been registered.
GiveUp(p) ==
    /\ \/ command[p].pc = "install" /\ mishaps < MaxMishaps /\ mishaps' = mishaps + 1
       \/ command[p].pc = "lock" /\ setupLease # {} /\ UNCHANGED mishaps
    /\ command' = [command EXCEPT ![p] = NoCommand]
    /\ UNCHANGED <<config, runtimes, setupLease, began, edits, edited>>
-----------------------------------------------------------------------------
(***************************************************************************)
(* Run: every selected client in turn, each on its own.                    *)
(***************************************************************************)
LockForRun(p) ==
    /\ command[p].pc = "lock" /\ command[p].kind \in {"setup", "remove"}
    /\ TakeLease(p)
    /\ command' = [command EXCEPT ![p].pc = "run", ![p].todo = command[p].chosen]
    /\ UNCHANGED <<config, runtimes, began, edits, mishaps, edited>>

RunOne(p) ==
    LET c == Min(command[p].todo)
    IN  /\ command[p].pc = "run" /\ command[p].todo # {}
        /\ \/ /\ Write(p, c, IF command[p].kind = "remove" THEN Removed(config[c])
                             ELSE Configured(config[c], command[p].target))
              /\ UNCHANGED mishaps
           \/ /\ mishaps < MaxMishaps /\ mishaps' = mishaps + 1
              /\ UNCHANGED <<config, edited>>
        /\ command' = [command EXCEPT ![p].todo = @ \ {c}]
        /\ UNCHANGED <<runtimes, setupLease, began, edits>>

\* Keeps the lease: mutant.
RunEndsLocked(p) ==
    /\ command[p].pc = "run" /\ command[p].todo = {}
    /\ command' = [command EXCEPT ![p] = NoCommand]
    /\ UNCHANGED <<config, runtimes, setupLease, began, edits, mishaps, edited>>

RunEnds(p) ==
    /\ command[p].pc = "run" /\ command[p].todo = {}
    /\ setupLease' = {}
    /\ command' = [command EXCEPT ![p] = NoCommand]
    /\ UNCHANGED <<config, runtimes, began, edits, mishaps, edited>>
-----------------------------------------------------------------------------
(***************************************************************************)
(* activateExistingLaunchers: all the clients or none.                     *)
(***************************************************************************)
\* Nothing has been written; the result is about no client.
Refused(p) ==
    command' = [command EXCEPT ![p].pc = "finish", ![p].result = "failed",
                               ![p].chosen = {}]

Rollback(p) ==
    command' = [command EXCEPT ![p].pc = "rollback", ![p].result = "failed"]

\* RepairExisting keeps the runtime of each registration it inspects.
LockForActivation(p) ==
    /\ command[p].pc = "lock" /\ command[p].kind \in {"upgrade", "repair"}
    /\ TakeLease(p)
    /\ IF command[p].kind = "repair" /\ \E c \in command[p].chosen : ~Registered(config[c])
       THEN Refused(p)
       ELSE command' = [command EXCEPT
                ![p] = [@ EXCEPT !.pc = "snapshot",
                     !.want = [c \in Clients |->
                         CASE c \notin command[p].chosen    -> 0
                           [] command[p].kind = "upgrade" -> command[p].target
                           [] OTHER                       -> config[c].runtime]]]
    /\ edited' = [edited EXCEPT ![p] = {}]
    /\ UNCHANGED <<config, runtimes, began, edits, mishaps>>

\* snapshotRegistrations: each of them must be there.
TakeSnapshots(p) ==
    /\ command[p].pc = "snapshot"
    /\ IF \A c \in command[p].chosen : Registered(config[c])
       THEN command' = [command EXCEPT ![p].pc = "activate", ![p].snapshot = config,
                                       ![p].todo = command[p].chosen]
       ELSE Refused(p)
    /\ UNCHANGED <<config, runtimes, setupLease, began, edits, mishaps, edited>>

ActivateOne(p) ==
    LET c == Min(command[p].todo)
    IN  /\ command[p].pc = "activate" /\ command[p].todo # {}
        /\ Write(p, c, Configured(config[c], command[p].want[c]))
        /\ command' = [command EXCEPT ![p].todo = @ \ {c}, ![p].activated = @ \cup {c}]
        /\ UNCHANGED <<runtimes, setupLease, began, edits, mishaps>>

\* verifyRegistrations and verifyPrivateActivation.
VerifyActivation(p) ==
    /\ command[p].pc = "activate" /\ command[p].todo = {}
    /\ IF \A c \in command[p].chosen : SameEntry(config[c], Launcher(command[p].want[c]))
       THEN Finish(p, "activated")
       ELSE Rollback(p)
    /\ UNCHANGED <<config, runtimes, setupLease, began, edits, mishaps, edited>>

\* Returns the error and not rollback(error): mutant.
ActivationFailsAsIs(p) ==
    /\ command[p].pc = "activate"
    /\ mishaps < MaxMishaps /\ mishaps' = mishaps + 1
    /\ Finish(p, "failed")
    /\ UNCHANGED <<config, runtimes, setupLease, began, edits, edited>>

\* A registration cannot be written, the command is cancelled, or a check fails.
ActivationFails(p) ==
    /\ command[p].pc = "activate"
    /\ mishaps < MaxMishaps /\ mishaps' = mishaps + 1
    /\ Rollback(p)
    /\ UNCHANGED <<config, runtimes, setupLease, began, edits, edited>>
-----------------------------------------------------------------------------
(***************************************************************************)
(* restoreRegistrationSnapshots: from the last to the first, going on past *)
(* what cannot be restored.                                                *)
(***************************************************************************)
NotRestored(p, c) ==
    command' = [command EXCEPT ![p].pc = "rollback", ![p].activated = @ \ {c},
                               ![p].result = "rollback_failed"]

\* The file is read: it must be what the activation wrote.
RestoreRead(p) ==
    LET c == Max(command[p].activated)
    IN  /\ command[p].pc = "rollback" /\ command[p].activated # {}
        /\ IF config[c] = Launcher(command[p].want[c])
           THEN Go(p, "restore")
           ELSE NotRestored(p, c)
        /\ UNCHANGED <<config, runtimes, setupLease, began, edits, mishaps, edited>>

RestoreWrite(p) ==
    LET c == Max(command[p].activated)
    IN  /\ command[p].pc = "restore"
        /\ Write(p, c, command[p].snapshot[c])
        /\ command' = [command EXCEPT ![p].pc = "rollback", ![p].activated = @ \ {c}]
        /\ UNCHANGED <<runtimes, setupLease, began, edits, mishaps>>

\* The entry cannot be written, or its old mode cannot be set afterwards.
RestoreFails(p) ==
    LET c == Max(command[p].activated)
    IN  /\ command[p].pc = "restore"
        /\ mishaps < MaxMishaps /\ mishaps' = mishaps + 1
        /\ \/ UNCHANGED <<config, edited>>
           \/ Write(p, c, [command[p].snapshot[c] EXCEPT !.private = TRUE])
        /\ NotRestored(p, c)
        /\ UNCHANGED <<runtimes, setupLease, began, edits>>

RollbackEnds(p) ==
    /\ command[p].pc = "rollback" /\ command[p].activated = {}
    /\ Go(p, "finish")
    /\ UNCHANGED <<config, runtimes, setupLease, began, edits, mishaps, edited>>

\* The result is reported and the lease released.
ActivationEnds(p) ==
    /\ command[p].pc = "finish"
    /\ setupLease' = {}
    /\ command' = [command EXCEPT ![p] = NoCommand]
    /\ UNCHANGED <<config, runtimes, began, edits, mishaps, edited>>
-----------------------------------------------------------------------------
(***************************************************************************)
(* The others.                                                             *)
(***************************************************************************)
\* A client or its user changes the entry or the mode of the file; an entry made
\* by hand names a runtime that is installed.
Edit(c) ==
    /\ edits < MaxEdits /\ edits' = edits + 1
    /\ \E file \in Files \ {config[c]} :
          /\ file.runtime \in runtimes \cup {0}
          /\ config' = [config EXCEPT ![c] = file]
    /\ edited' = [p \in Operators |-> edited[p] \cup {c}]
    /\ UNCHANGED <<runtimes, setupLease, command, began, mishaps>>

\* The process dies; the system releases its lease.
Die(p) ==
    /\ command[p].pc # "idle"
    /\ mishaps < MaxMishaps /\ mishaps' = mishaps + 1
    /\ setupLease' = setupLease \ {p}
    /\ command' = [command EXCEPT ![p] = NoCommand]
    /\ UNCHANGED <<config, runtimes, began, edits, edited>>

RegistrationsNext ==
    \/ \E p \in Operators :
          \/ BeginSetup(p) \/ BeginRemove(p) \/ BeginUpgrade(p) \/ BeginRepair(p)
          \/ InstallRuntime(p) \/ GiveUp(p)
          \/ LockForRun(p) \/ RunOne(p) \/ RunEnds(p)
          \/ LockForActivation(p) \/ TakeSnapshots(p) \/ ActivateOne(p)
          \/ VerifyActivation(p) \/ ActivationFails(p)
          \/ RestoreRead(p) \/ RestoreWrite(p) \/ RestoreFails(p)
          \/ RollbackEnds(p) \/ ActivationEnds(p) \/ Die(p)
    \/ \E c \in Clients : Edit(c)

RegistrationsSpec == RegistrationsInit /\ [][RegistrationsNext]_registrationVars
-----------------------------------------------------------------------------
(***************************************************************************)
(* Properties                                                              *)
(***************************************************************************)
Phases == {"idle", "install", "lock", "run", "snapshot", "activate",
           "rollback", "restore", "finish"}

\* Types; a process that changes files has the lease and no other process has.
RegistrationsTypeOK ==
    /\ config \in [Clients -> Files]
    /\ runtimes \subseteq Versions
    /\ setupLease \subseteq Operators
    /\ command \in [Operators ->
           [pc : Phases,
            kind : {"none", "setup", "remove", "upgrade", "repair"},
            target : Versions \cup {0},
            todo : SUBSET Clients,
            chosen : SUBSET Clients,
            want : [Clients -> Versions \cup {0}],
            snapshot : [Clients -> Files],
            activated : SUBSET Clients,
            result : {"none", "activated", "failed", "rollback_failed"}]]
    /\ began \in 0..MaxBegins /\ edits \in 0..MaxEdits /\ mishaps \in 0..MaxMishaps
    /\ edited \in [Operators -> SUBSET Clients]
    /\ \A p \in Operators :
          command[p].pc \notin {"idle", "install", "lock"} <=> setupLease = {p}

\* No client is left with a runtime that is not installed, wherever a setup, an
\* activation or a rollback stops.
RegisteredRuntimesExist ==
    \A c \in Clients : Registered(config[c]) => config[c].runtime \in runtimes

\* An activation that reports success has registered every client it chose; one
\* that reports failure with its registrations preserved has left each of them
\* as it found it; except for what others changed meanwhile.
ActivationIsAllOrNothing ==
    \A p \in Operators : command[p].pc = "finish" =>
        \A c \in command[p].chosen \ edited[p] :
            CASE command[p].result = "activated" ->
                    SameEntry(config[c], Launcher(command[p].want[c]))
              [] command[p].result = "failed" -> config[c] = command[p].snapshot[c]
              [] OTHER -> TRUE

\* What an activation overwrites is what its rollback would put back, unless a
\* client or its user changed it since the lease was taken: it creates no
\* registration, takes no other process's from it, and a repair keeps the runtime.
ActivationsReplaceWhatTheySaw ==
    [][\A p \in Operators : ActivateOne(p) =>
          LET c == Min(command[p].todo)
          IN  c \in edited[p] \/ /\ config[c] = command[p].snapshot[c]
                                 /\ Registered(config[c])
                                 /\ command[p].kind = "repair" =>
                                        config'[c].runtime = config[c].runtime
      ]_registrationVars

\* "setup never replaces a newer managed runtime with an older cached bootstrap"
\* (docs/onboarding.md): whoever installed the newer one, and whenever.
SetupNeverGoesBack ==
    [][\A p \in Operators : RunOne(p) /\ command[p].kind = "setup" =>
          LET c == Min(command[p].todo)
          IN  config'[c].runtime >= config[c].runtime]_registrationVars
=============================================================================

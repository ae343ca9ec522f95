---------------------------- MODULE ProcessProofs ----------------------------
(***************************************************************************)
(* What holds of the parts of a process that share no state with each      *)
(* other: the registrations, for any supported clients, any releases and   *)
(* any number of processes, edits, failures and crashes; the retry         *)
(* transport, for any finite number of callers, any number of attempts and *)
(* failures, and any wait and probe timeout; and all parts beside each     *)
(* other.                                                                  *)
(***************************************************************************)
EXTENDS MCProcess, WorkflowProofs, FiniteSetTheorems, WellFoundedInduction
-----------------------------------------------------------------------------
(***************************************************************************)
(* The inductive invariant: the types, with who has the lease (one process *)
(* at most), that registered runtimes exist, and of each process on its own*)
(*   - that what it will register, and what a rollback will put back, is   *)
(*     installed;                                                          *)
(*   - that an activation finds a client it has not come to as its         *)
(*     snapshot has it, and one that a rollback has passed too.            *)
(***************************************************************************)
Unlocked == {"idle", "install", "lock"}

TargetInstalled(p) ==
    /\ command[p].pc = "install" => command[p].target \in Versions
    /\ command[p].pc \in {"lock", "run"} /\ command[p].kind \in {"setup", "upgrade"} =>
          command[p].target \in runtimes
    /\ command[p].pc = "run" => command[p].kind \in {"setup", "remove"}

WantInstalled(p) ==
    command[p].pc \in {"snapshot", "activate"} =>
        \A c \in command[p].chosen : command[p].want[c] \in runtimes

SnapshotInstalled(p) ==
    command[p].pc \in {"activate", "rollback", "restore"} =>
        \A c \in Clients :
            Registered(command[p].snapshot[c]) => command[p].snapshot[c].runtime \in runtimes

RepairKeepsRuntime(p) ==
    command[p].pc = "snapshot" /\ command[p].kind = "repair" =>
        \A c \in command[p].chosen \ edited[p] : config[c].runtime = command[p].want[c]

ToDoIsRegistered(p) ==
    command[p].pc = "activate" =>
        /\ command[p].todo = command[p].chosen \ command[p].activated
        /\ \A c \in command[p].todo \ edited[p] :
              /\ Registered(config[c])
              /\ command[p].kind = "repair" => config[c].runtime = command[p].want[c]

NothingActivated(p) ==
    command[p].pc \in {"idle", "install", "lock", "snapshot"} => command[p].activated = {}

RestPreserved(p) ==
    /\ command[p].pc \in {"rollback", "restore"} =>
          command[p].result \in {"failed", "rollback_failed"}
    /\ \/ command[p].pc = "activate"
       \/ command[p].pc \in {"rollback", "restore"} /\ command[p].result = "failed"
       => \A c \in (command[p].chosen \ command[p].activated) \ edited[p] :
              config[c] = command[p].snapshot[c]

AllOrNothing(p) ==
    command[p].pc = "finish" =>
        \A c \in command[p].chosen \ edited[p] :
            CASE command[p].result = "activated" ->
                    SameEntry(config[c], Launcher(command[p].want[c]))
              [] command[p].result = "failed" -> config[c] = command[p].snapshot[c]
              [] OTHER -> TRUE

CommandInv(p) ==
    /\ TargetInstalled(p) /\ WantInstalled(p) /\ SnapshotInstalled(p)
    /\ RepairKeepsRuntime(p) /\ ToDoIsRegistered(p) /\ NothingActivated(p)
    /\ RestPreserved(p) /\ AllOrNothing(p)

IInv ==
    /\ RegistrationsTypeOK
    /\ \A p \in setupLease : setupLease = {p}
    /\ RegisteredRuntimesExist
    /\ \A p \in Operators : CommandInv(p)

Command ==
    [pc : Phases,
     kind : {"none", "setup", "remove", "upgrade", "repair"},
     target : Versions \cup {0},
     todo : SUBSET Clients,
     chosen : SUBSET Clients,
     want : [Clients -> Versions \cup {0}],
     snapshot : [Clients -> Files],
     activated : SUBSET Clients,
     result : {"none", "activated", "failed", "rollback_failed"}]

CommandStep(p) ==
    \/ BeginSetup(p) \/ BeginRemove(p) \/ BeginUpgrade(p) \/ BeginRepair(p)
    \/ InstallRuntime(p) \/ GiveUp(p)
    \/ LockForRun(p) \/ RunOne(p) \/ RunEnds(p)
    \/ LockForActivation(p) \/ TakeSnapshots(p) \/ ActivateOne(p)
    \/ VerifyActivation(p) \/ ActivationFails(p)
    \/ RestoreRead(p) \/ RestoreWrite(p) \/ RestoreFails(p)
    \/ RollbackEnds(p) \/ ActivationEnds(p) \/ Die(p)
-----------------------------------------------------------------------------
(***************************************************************************)
(* The next client, and what is written of it.                             *)
(***************************************************************************)
NatLess == {pair \in Nat \X Nat : pair[1] < pair[2]}

LEMMA NextClientIsOneOfThem ==
    ASSUME NEW S \in SUBSET Clients, S # {}
    PROVE  Min(S) \in S
<1>1. S \subseteq Nat
  BY RegistrationsAssumption
<1>2. IsWellFoundedOn(NatLess, Nat)
  BY NatLessThanWellFounded, Zenon DEF OpToRel, NatLess
<1>3. \E x \in S : \A y \in S : ~ (<<y, x>> \in NatLess)
  BY <1>1, <1>2, WFMin, Zenon
<1>4. \A x, y \in S : y < x => <<y, x>> \in NatLess
  BY <1>1 DEF NatLess
<1>5. \A x, y \in S : ~ (y < x) => x <= y
  BY <1>1
<1>6. \E x \in S : \A y \in S : x <= y
  BY <1>3, <1>4, <1>5
<1> QED
  BY <1>6, Zenon DEF Min

LEMMA WrittenFilesAreFiles ==
    /\ \A v \in Versions : Launcher(v) \in Files
    /\ Unregistered \in Files
    /\ \A file \in Files : Removed(file) \in Files
    /\ \A file \in Files : [file EXCEPT !.private = TRUE] \in Files
    /\ \A file \in Files, v \in Versions : Configured(file, v) \in Files
<1>1. \A v \in Versions : Launcher(v) \in Files
  BY RegistrationsAssumption DEF Launcher, Files
<1>2. Unregistered \in Files
  BY DEF Unregistered, Files
<1>3. \A file \in Files : [file EXCEPT !.private = TRUE] \in Files
  BY DEF Files
<1> QED
  BY <1>1, <1>2, <1>3 DEF Removed, Configured

LEMMA NoCommandIsACommand == NoCommand \in Command
  BY WrittenFilesAreFiles DEF NoCommand, Command, Phases
-----------------------------------------------------------------------------
(***************************************************************************)
(* A step of one process is its own.                                       *)
(***************************************************************************)
LEMMA StepIsItsOwn ==
    ASSUME RegistrationsTypeOK, NEW p \in Operators, CommandStep(p),
           NEW q \in Operators, q # p
    PROVE  command'[q] = command[q] /\ edited'[q] = edited[q]
  BY DEF RegistrationsTypeOK, CommandStep, BeginSetup, BeginRemove, BeginUpgrade,
         BeginRepair, Begin, InstallRuntime, GiveUp, LockForRun, RunOne, RunEnds,
         LockForActivation, TakeSnapshots, ActivateOne, VerifyActivation,
         ActivationFails, RestoreRead, RestoreWrite, RestoreFails, RollbackEnds,
         ActivationEnds, Die, Go, Finish, Refused, Rollback, NotRestored, Write

LEMMA RuntimesStay ==
    ASSUME NEW p \in Operators, CommandStep(p)
    PROVE  runtimes \subseteq runtimes'
  BY DEF CommandStep, BeginSetup, BeginRemove, BeginUpgrade,
         BeginRepair, Begin, InstallRuntime, GiveUp, LockForRun, RunOne, RunEnds,
         LockForActivation, TakeSnapshots, ActivateOne, VerifyActivation,
         ActivationFails, RestoreRead, RestoreWrite, RestoreFails, RollbackEnds,
         ActivationEnds, Die

\* Files are changed under the lease only, and not while another process has it.
LEMMA OthersAreUnlocked ==
    ASSUME RegistrationsTypeOK, NEW p \in Operators, NEW q \in Operators, q # p,
           command[p].pc \notin Unlocked \/ setupLease = {}
    PROVE  command[q].pc \in Unlocked
  BY DEF RegistrationsTypeOK, Unlocked

LEMMA WritersAreLocked ==
    ASSUME NEW p \in Operators, CommandStep(p)
    PROVE  config' = config \/ command[p].pc \notin Unlocked
  BY DEF CommandStep, BeginSetup, BeginRemove, BeginUpgrade,
         BeginRepair, Begin, InstallRuntime, GiveUp, LockForRun, RunOne, RunEnds,
         LockForActivation, TakeSnapshots, ActivateOne, VerifyActivation,
         ActivationFails, RestoreRead, RestoreWrite, RestoreFails, RollbackEnds,
         ActivationEnds, Die, Unlocked

LEMMA OthersKeepCommandInv ==
    ASSUME IInv, NEW p \in Operators, CommandStep(p), NEW q \in Operators, q # p
    PROVE  CommandInv(q)'
<1>1. command'[q] = command[q] /\ edited'[q] = edited[q] /\ runtimes \subseteq runtimes'
  BY StepIsItsOwn, RuntimesStay DEF IInv
<1>2. CommandInv(q)
  BY DEF IInv
<1>3. CASE config' = config
  BY <1>1, <1>2, <1>3
  DEF CommandInv, TargetInstalled, WantInstalled, SnapshotInstalled, RepairKeepsRuntime,
      ToDoIsRegistered, NothingActivated, RestPreserved, AllOrNothing
<1>4. CASE command[q].pc \in Unlocked
  BY <1>1, <1>2, <1>4
  DEF Unlocked, CommandInv, TargetInstalled, WantInstalled, SnapshotInstalled,
      RepairKeepsRuntime, ToDoIsRegistered, NothingActivated, RestPreserved, AllOrNothing
<1> QED
  BY <1>3, <1>4, WritersAreLocked, OthersAreUnlocked DEF IInv
-----------------------------------------------------------------------------
(***************************************************************************)
(* What a step makes of the variables of its process.                      *)
(***************************************************************************)
LEMMA CommandsAreCommands ==
    ASSUME RegistrationsTypeOK, NEW p \in Operators
    PROVE  command[p] \in Command
  BY DEF RegistrationsTypeOK, Command

LEMMA CommandIsReplaced ==
    ASSUME RegistrationsTypeOK, NEW p \in Operators, NEW r,
           command' = [command EXCEPT ![p] = r]
    PROVE  command'[p] = r
  BY DEF RegistrationsTypeOK

\* The variables of a process after BeginSetup or BeginUpgrade, and after
\* BeginRemove or BeginRepair.
Installing(kind, v, clients) ==
    [NoCommand EXCEPT !.pc = "install", !.kind = kind, !.target = v, !.chosen = clients]
Locking(kind, clients) == [NoCommand EXCEPT !.pc = "lock", !.kind = kind, !.chosen = clients]

LEMMA BegunCommand ==
    ASSUME RegistrationsTypeOK, NEW p \in Operators,
           BeginSetup(p) \/ BeginRemove(p) \/ BeginUpgrade(p) \/ BeginRepair(p)
    PROVE  \/ \E kind \in {"setup", "upgrade"}, v \in Versions, clients \in SUBSET Clients :
                 command'[p] = Installing(kind, v, clients)
           \/ \E kind \in {"remove", "repair"}, clients \in SUBSET Clients :
                 command'[p] = Locking(kind, clients)
<1>1. \A r : command' = [command EXCEPT ![p] = r] => command'[p] = r
  BY DEF RegistrationsTypeOK
<1>2. CASE BeginSetup(p)
  <2>1. PICK v \in Versions, clients \in SUBSET Clients :
           command' = [command EXCEPT ![p] = Installing("setup", v, clients)]
    BY <1>2, Zenon DEF BeginSetup, Begin, Installing
  <2> QED
    BY <1>1, <2>1
<1>3. CASE BeginRemove(p)
  <2>1. PICK clients \in SUBSET Clients :
           command' = [command EXCEPT ![p] = Locking("remove", clients)]
    BY <1>3, Zenon DEF BeginRemove, Begin, Locking
  <2> QED
    BY <1>1, <2>1
<1>4. CASE BeginUpgrade(p)
  <2>1. PICK own \in Versions, v \in Versions :
          LET newest   == Max(runtimes \cup {own, v})
              outdated == {c \in Clients : /\ Registered(config[c])
                                           /\ config[c].runtime <
                                                IF config[c].canonical THEN newest ELSE v}
          IN  command' = [command EXCEPT ![p] = Installing("upgrade", v, outdated)]
    BY <1>4, Zenon DEF BeginUpgrade, Begin, Installing
  <2>2. PICK clients \in SUBSET Clients :
           command' = [command EXCEPT ![p] = Installing("upgrade", v, clients)]
    BY <2>1
  <2> QED
    BY <1>1, <2>2
<1>5. CASE BeginRepair(p)
  <2>1. command' = [command EXCEPT ![p] = Locking("repair",
           {c \in Clients : Registered(config[c]) /\ ~config[c].canonical})]
    BY <1>5, Zenon DEF BeginRepair, Begin, Locking
  <2>2. PICK clients \in SUBSET Clients :
           command' = [command EXCEPT ![p] = Locking("repair", clients)]
    BY <2>1
  <2> QED
    BY <1>1, <2>2
<1> QED
  BY <1>2, <1>3, <1>4, <1>5

LEMMA EndedCommand ==
    ASSUME RegistrationsTypeOK, NEW p \in Operators,
           GiveUp(p) \/ RunEnds(p) \/ ActivationEnds(p) \/ Die(p)
    PROVE  command'[p] = NoCommand
<1>1. command' = [command EXCEPT ![p] = NoCommand]
  BY DEF GiveUp, RunEnds, ActivationEnds, Die
<1> QED
  BY <1>1, CommandIsReplaced

\* The variables of a process after each of the steps that change some of them.
At(r, x)          == [r EXCEPT !.pc = x]
Finished(r, x)    == [r EXCEPT !.pc = "finish", !.result = x]
Declined(r)       == [r EXCEPT !.pc = "finish", !.result = "failed", !.chosen = {}]
RollingBack(r)    == [r EXCEPT !.pc = "rollback", !.result = "failed"]
Running(r)        == [r EXCEPT !.pc = "run", !.todo = r.chosen]
RunPast(r, c)     == [r EXCEPT !.todo = r.todo \ {c}]
Wanting(r, want)  == [r EXCEPT !.pc = "snapshot", !.want = want]
Activating(r, snapshot) ==
    [r EXCEPT !.pc = "activate", !.snapshot = snapshot, !.todo = r.chosen]
Activated(r, c) ==
    [r EXCEPT !.todo = r.todo \ {c}, !.activated = r.activated \cup {c}]
Restored(r, c) ==
    [r EXCEPT !.pc = "rollback", !.activated = r.activated \ {c}]
Unrestored(r, c) ==
    [r EXCEPT !.pc = "rollback", !.activated = r.activated \ {c},
              !.result = "rollback_failed"]

Wanted(p) ==
    [c \in Clients |->
        CASE c \notin command[p].chosen    -> 0
          [] command[p].kind = "upgrade" -> command[p].target
          [] OTHER                       -> config[c].runtime]

LEMMA ChangedCommand ==
    ASSUME RegistrationsTypeOK, NEW p \in Operators
    PROVE  /\ \A x : Go(p, x) => command'[p] = At(command[p], x)
           /\ \A x : Finish(p, x) => command'[p] = Finished(command[p], x)
           /\ Refused(p) => command'[p] = Declined(command[p])
           /\ Rollback(p) => command'[p] = RollingBack(command[p])
           /\ \A c : NotRestored(p, c) => command'[p] = Unrestored(command[p], c)
           /\ LockForRun(p) => command'[p] = Running(command[p])
           /\ RunOne(p) => command'[p] = RunPast(command[p], Min(command[p].todo))
           /\ ActivateOne(p) => command'[p] = Activated(command[p], Min(command[p].todo))
           /\ RestoreWrite(p) => command'[p] = Restored(command[p], Max(command[p].activated))
<1> USE CommandsAreCommands
<1>1. command \in [Operators -> Command]
  BY DEF RegistrationsTypeOK, Command
<1>2. \A x : Go(p, x) => command'[p] = At(command[p], x)
  BY <1>1 DEF Go, At, Command
<1>3. \A x : Finish(p, x) => command'[p] = Finished(command[p], x)
  BY <1>1 DEF Finish, Finished, Command
<1>4. Refused(p) => command'[p] = Declined(command[p])
  BY <1>1 DEF Refused, Declined, Command
<1>5. Rollback(p) => command'[p] = RollingBack(command[p])
  BY <1>1 DEF Rollback, RollingBack, Command
<1>6. \A c : NotRestored(p, c) => command'[p] = Unrestored(command[p], c)
  BY <1>1 DEF NotRestored, Unrestored, Command
<1>7. LockForRun(p) => command'[p] = Running(command[p])
  BY <1>1 DEF LockForRun, Running, Command
<1>8. RunOne(p) => command'[p] = RunPast(command[p], Min(command[p].todo))
  BY <1>1 DEF RunOne, RunPast, Command
<1>9. ActivateOne(p) => command'[p] = Activated(command[p], Min(command[p].todo))
  BY <1>1 DEF ActivateOne, Activated, Command
<1>10. RestoreWrite(p) => command'[p] = Restored(command[p], Max(command[p].activated))
  BY <1>1 DEF RestoreWrite, Restored, Command
<1> QED
  BY <1>2, <1>3, <1>4, <1>5, <1>6, <1>7, <1>8, <1>9, <1>10

LEMMA LockedCommand ==
    ASSUME RegistrationsTypeOK, NEW p \in Operators, LockForActivation(p)
    PROVE  \/ Refused(p)
           \/ /\ command[p].kind = "repair" => \A c \in command[p].chosen : Registered(config[c])
              /\ command'[p] = Wanting(command[p], Wanted(p))
<1>1. CASE command[p].kind = "repair" /\ \E c \in command[p].chosen : ~Registered(config[c])
  BY <1>1 DEF LockForActivation
<1>2. CASE ~(command[p].kind = "repair" /\ \E c \in command[p].chosen : ~Registered(config[c]))
  <2>1. command' = [command EXCEPT ![p] = [@ EXCEPT !.pc = "snapshot",
                      !.want = [c \in Clients |->
                         CASE c \notin command[p].chosen    -> 0
                           [] command[p].kind = "upgrade" -> command[p].target
                           [] OTHER                       -> config[c].runtime]]]
    BY <1>2, Zenon DEF LockForActivation
  <2>2. \A r : command' = [command EXCEPT ![p] = r] => command'[p] = r
    BY DEF RegistrationsTypeOK
  <2> QED
    BY <1>2, <2>1, <2>2 DEF Wanting, Wanted
<1> QED
  BY <1>1, <1>2

LEMMA SnapshotCommand ==
    ASSUME RegistrationsTypeOK, NEW p \in Operators, TakeSnapshots(p)
    PROVE  \/ Refused(p)
           \/ /\ \A c \in command[p].chosen : Registered(config[c])
              /\ command'[p] = Activating(command[p], config)
<1>1. command \in [Operators -> Command]
  BY DEF RegistrationsTypeOK, Command
<1> QED
  BY <1>1, CommandsAreCommands DEF TakeSnapshots, Activating, Command
-----------------------------------------------------------------------------
(***************************************************************************)
(* Types, one conjunct after the other.                                    *)
(***************************************************************************)
\* What an activation wants of each client.
LEMMA WantedIsTyped ==
    ASSUME RegistrationsTypeOK, NEW p \in Operators
    PROVE  Wanted(p) \in [Clients -> Versions \cup {0}]
<1>1. ASSUME NEW c \in Clients
      PROVE  config[c].runtime \in Versions \cup {0}
  <2>1. config[c] \in Files
    BY DEF RegistrationsTypeOK
  <2> QED
    BY <2>1 DEF Files
<1>2. command[p].target \in Versions \cup {0}
  <2>1. command[p] \in Command
    BY DEF RegistrationsTypeOK, Command
  <2> QED
    BY <2>1 DEF Command
<1>3. ASSUME NEW c \in Clients
      PROVE  (CASE c \notin command[p].chosen    -> 0
                [] command[p].kind = "upgrade" -> command[p].target
                [] OTHER                       -> config[c].runtime) \in Versions \cup {0}
  BY <1>1, <1>2
<1> QED
  BY <1>3, Zenon DEF Wanted

Results == {"none", "activated", "failed", "rollback_failed"}

LEMMA ChangesAreCommands ==
    \A r \in Command :
        /\ \A x \in Phases : At(r, x) \in Command
        /\ \A x \in Results : Finished(r, x) \in Command
        /\ Declined(r) \in Command
        /\ RollingBack(r) \in Command
        /\ Running(r) \in Command
        /\ \A c : RunPast(r, c) \in Command
        /\ \A want \in [Clients -> Versions \cup {0}] : Wanting(r, want) \in Command
        /\ \A snapshot \in [Clients -> Files] : Activating(r, snapshot) \in Command
        /\ \A c \in Clients : Activated(r, c) \in Command
        /\ \A c : Restored(r, c) \in Command
        /\ \A c : Unrestored(r, c) \in Command
<1>1. \A r \in Command, x \in Phases : At(r, x) \in Command
  BY DEF At, Command, Phases
<1>2. \A r \in Command, x \in Results : Finished(r, x) \in Command
  BY ZenonT(60) DEF Finished, Command, Phases, Results
<1>3. \A r \in Command : Declined(r) \in Command
  BY ZenonT(60) DEF Declined, Command, Phases
<1>4. \A r \in Command : RollingBack(r) \in Command
  BY ZenonT(60) DEF RollingBack, Command, Phases
<1>5. \A r \in Command : Running(r) \in Command
  BY ZenonT(60) DEF Running, Command, Phases
<1>6. \A r \in Command : \A c : RunPast(r, c) \in Command
  BY DEF RunPast, Command, Phases
<1>7. \A r \in Command, want \in [Clients -> Versions \cup {0}] : Wanting(r, want) \in Command
  BY ZenonT(60) DEF Wanting, Command, Phases
<1>8. \A r \in Command, snapshot \in [Clients -> Files] : Activating(r, snapshot) \in Command
  BY ZenonT(60) DEF Activating, Command, Phases
<1>9. \A r \in Command, c \in Clients : Activated(r, c) \in Command
  BY ZenonT(60) DEF Activated, Command, Phases
<1>10. \A r \in Command : \A c : Restored(r, c) \in Command
  BY ZenonT(60) DEF Restored, Command, Phases
<1>11. \A r \in Command : \A c : Unrestored(r, c) \in Command
  BY ZenonT(60) DEF Unrestored, Command, Phases
<1> QED
  BY <1>1, <1>2, <1>3, <1>4, <1>5, <1>6, <1>7, <1>8, <1>9, <1>10, <1>11

LEMMA BegunIsACommand ==
    /\ \A kind \in {"setup", "upgrade"}, v \in Versions, clients \in SUBSET Clients :
          Installing(kind, v, clients) \in Command
    /\ \A kind \in {"remove", "repair"}, clients \in SUBSET Clients :
          Locking(kind, clients) \in Command
<1>1. ASSUME NEW kind \in {"setup", "upgrade"}, NEW v \in Versions,
             NEW clients \in SUBSET Clients
      PROVE  Installing(kind, v, clients) \in Command
  BY NoCommandIsACommand DEF Installing, Command, Phases
<1>2. ASSUME NEW kind \in {"remove", "repair"}, NEW clients \in SUBSET Clients
      PROVE  Locking(kind, clients) \in Command
  BY NoCommandIsACommand DEF Locking, Command, Phases
<1> QED
  BY <1>1, <1>2

LEMMA CommandIsTyped ==
    ASSUME RegistrationsTypeOK, NEW p \in Operators, CommandStep(p)
    PROVE  command'[p] \in Command
<1>1. command[p] \in Command
  BY CommandsAreCommands
<1>2. /\ \A x \in Phases : Go(p, x) => command'[p] \in Command
      /\ \A x \in Results : Finish(p, x) => command'[p] \in Command
      /\ Refused(p) => command'[p] \in Command
      /\ Rollback(p) => command'[p] \in Command
      /\ \A c : NotRestored(p, c) => command'[p] \in Command
  BY <1>1, ChangedCommand, ChangesAreCommands, Zenon
<1>3. CASE BeginSetup(p) \/ BeginRemove(p) \/ BeginUpgrade(p) \/ BeginRepair(p)
  BY <1>3, BegunCommand, BegunIsACommand
<1>4. CASE GiveUp(p) \/ RunEnds(p) \/ ActivationEnds(p) \/ Die(p)
  BY <1>4, EndedCommand, NoCommandIsACommand
<1>5. CASE InstallRuntime(p) \/ RollbackEnds(p)
  BY <1>2, <1>5 DEF InstallRuntime, RollbackEnds, Phases
<1>6. CASE LockForRun(p) \/ RunOne(p) \/ RestoreWrite(p)
  BY <1>1, <1>6, ChangedCommand, ChangesAreCommands, Zenon
<1>7. CASE LockForActivation(p)
  BY <1>1, <1>2, <1>7, LockedCommand, WantedIsTyped, ChangesAreCommands, Zenon
<1>8. CASE TakeSnapshots(p)
  <2>1. config \in [Clients -> Files]
    BY DEF RegistrationsTypeOK
  <2> QED
    BY <1>1, <1>2, <1>8, <2>1, SnapshotCommand, ChangesAreCommands, Zenon
<1>9. CASE ActivateOne(p)
  <2>1. command[p].todo \in SUBSET Clients /\ command[p].todo # {}
    BY <1>1, <1>9 DEF ActivateOne, Command
  <2>2. Min(command[p].todo) \in Clients
    BY <2>1, NextClientIsOneOfThem
  <2> QED
    BY <1>1, <1>9, <2>2, ChangedCommand, ChangesAreCommands, Zenon
<1>10. CASE VerifyActivation(p) \/ ActivationFails(p)
  BY <1>2, <1>10 DEF VerifyActivation, ActivationFails, Results
<1>11. CASE RestoreRead(p) \/ RestoreFails(p)
  BY <1>2, <1>11 DEF RestoreRead, RestoreFails, Phases
<1> QED
  BY <1>3, <1>4, <1>5, <1>6, <1>7, <1>8, <1>9, <1>10, <1>11 DEF CommandStep

LEMMA CommandsKeepTypes ==
    ASSUME RegistrationsTypeOK, NEW p \in Operators, CommandStep(p)
    PROVE  command' \in [Operators -> Command]
<1>1. command \in [Operators -> Command]
  BY DEF RegistrationsTypeOK, Command
<1>2. DOMAIN command' = Operators /\ \E r : command' = [command EXCEPT ![p] = r]
  BY <1>1, Zenon
  DEF CommandStep, BeginSetup, BeginRemove, BeginUpgrade, BeginRepair, Begin,
      InstallRuntime, GiveUp, LockForRun, RunOne, RunEnds, LockForActivation,
      TakeSnapshots, ActivateOne, VerifyActivation, ActivationFails, RestoreRead,
      RestoreWrite, RestoreFails, RollbackEnds, ActivationEnds, Die,
      Go, Finish, Refused, Rollback, NotRestored
<1>3. PICK r : command' = [command EXCEPT ![p] = r]
  BY <1>2
<1>4. r \in Command
  BY <1>1, <1>3, CommandIsTyped
<1> QED
  BY <1>1, <1>3, <1>4

\* A process writes in its turn at one client of its choice.
LEMMA WritesAreTyped ==
    ASSUME RegistrationsTypeOK, NEW p \in Operators, NEW c, NEW file \in Files,
           Write(p, c, file)
    PROVE  config' \in [Clients -> Files] /\ edited' \in [Operators -> SUBSET Clients]
  BY DEF RegistrationsTypeOK, Write

LEMMA FilesKeepTypes ==
    ASSUME IInv, NEW p \in Operators, CommandStep(p)
    PROVE  /\ config' \in [Clients -> Files]
           /\ edited' \in [Operators -> SUBSET Clients]
<1>1. RegistrationsTypeOK /\ command[p] \in Command
  BY CommandsAreCommands DEF IInv
<1>2. config \in [Clients -> Files] /\ edited \in [Operators -> SUBSET Clients]
  BY <1>1 DEF RegistrationsTypeOK
<1>3. CASE RunOne(p)
  <2> DEFINE c == Min(command[p].todo)
  <2>1. command[p].todo \in SUBSET Clients /\ command[p].todo # {}
    BY <1>1, <1>3 DEF RunOne, Command
  <2>2. config[c] \in Files
    BY <1>2, <2>1, NextClientIsOneOfThem
  <2>3. command[p].kind # "remove" => command[p].target \in Versions
    BY <1>1, <1>3 DEF RunOne, IInv, CommandInv, TargetInstalled, RegistrationsTypeOK
  <2>4. (IF command[p].kind = "remove" THEN Removed(config[c])
         ELSE Configured(config[c], command[p].target)) \in Files
    BY <2>2, <2>3, WrittenFilesAreFiles
  <2>5. CASE UNCHANGED <<config, edited>>
    BY <1>2, <2>5
  <2>6. CASE Write(p, c, IF command[p].kind = "remove" THEN Removed(config[c])
                         ELSE Configured(config[c], command[p].target))
    BY <1>1, <2>4, <2>6, WritesAreTyped
  <2> QED
    BY <1>3, <2>5, <2>6, Zenon DEF RunOne
<1>4. CASE ActivateOne(p)
  <2> DEFINE c == Min(command[p].todo)
  <2>1. command[p].todo \in SUBSET Clients /\ command[p].todo # {}
    BY <1>1, <1>4 DEF ActivateOne, Command
  <2>2. c \in command[p].todo /\ config[c] \in Files
    BY <1>2, <2>1, NextClientIsOneOfThem
  <2>3. command[p].want[c] \in Versions
    BY <1>1, <1>4, <2>2
    DEF ActivateOne, IInv, CommandInv, WantInstalled, ToDoIsRegistered, RegistrationsTypeOK
  <2>4. Configured(config[c], command[p].want[c]) \in Files
    BY <2>2, <2>3, WrittenFilesAreFiles
  <2> QED
    BY <1>1, <1>4, <2>4, WritesAreTyped DEF ActivateOne
<1>5. CASE RestoreWrite(p) \/ RestoreFails(p)
  <2> DEFINE c == Max(command[p].activated)
  <2>1. CASE UNCHANGED <<config, edited>>
    BY <1>2, <2>1
  <2>2. CASE /\ ~UNCHANGED <<config, edited>>
             /\ \/ Write(p, c, command[p].snapshot[c])
                \/ Write(p, c, [command[p].snapshot[c] EXCEPT !.private = TRUE])
    <3>1. CASE c \in Clients
      <4>1. command[p].snapshot[c] \in Files
        BY <1>1, <3>1 DEF Command
      <4>2. [command[p].snapshot[c] EXCEPT !.private = TRUE] \in Files
        BY <4>1, WrittenFilesAreFiles, Zenon
      <4> QED
        BY <1>1, <2>2, <4>1, <4>2, WritesAreTyped
    <3>2. CASE c \notin Clients
      BY <1>2, <2>2, <3>2 DEF Write
    <3> QED
      BY <3>1, <3>2
  <2> QED
    BY <1>5, <2>1, <2>2, Zenon DEF RestoreWrite, RestoreFails
<1>6. CASE config' = config /\ (edited' = edited \/ edited' = [edited EXCEPT ![p] = {}])
  BY <1>2, <1>6
<1> QED
  BY <1>3, <1>4, <1>5, <1>6
  DEF CommandStep, BeginSetup, BeginRemove, BeginUpgrade, BeginRepair, Begin,
      InstallRuntime, GiveUp, LockForRun, RunEnds, LockForActivation,
      TakeSnapshots, VerifyActivation, ActivationFails, RestoreRead,
      RollbackEnds, ActivationEnds, Die

LEMMA LeasesChange ==
    ASSUME NEW p \in Operators, CommandStep(p)
    PROVE  \/ setupLease' = setupLease \/ setupLease' = {} \/ setupLease' = {p}
           \/ setupLease' = setupLease \ {p}
  BY Zenon DEF TakeLease,
      CommandStep, BeginSetup, BeginRemove, BeginUpgrade, BeginRepair, Begin,
      InstallRuntime, GiveUp, LockForRun, RunOne, RunEnds, LockForActivation,
      TakeSnapshots, ActivateOne, VerifyActivation, ActivationFails, RestoreRead,
      RestoreWrite, RestoreFails, RollbackEnds, ActivationEnds, Die

LEMMA RestKeepsTypes ==
    ASSUME IInv, NEW p \in Operators, CommandStep(p)
    PROVE  /\ runtimes' \subseteq Versions
           /\ setupLease' \subseteq Operators
           /\ began' \in 0..MaxBegins /\ edits' \in 0..MaxEdits
           /\ mishaps' \in 0..MaxMishaps
<1> USE RegistrationsAssumption DEF IInv
<1>1. runtimes' \subseteq Versions
  <2>1. runtimes \subseteq Versions
    BY DEF RegistrationsTypeOK
  <2>2. CASE InstallRuntime(p)
    <3>1. command[p].target \in Versions /\ runtimes' = runtimes \cup {command[p].target}
      BY <2>2 DEF InstallRuntime, CommandInv, TargetInstalled
    <3> QED
      BY <2>1, <3>1
  <2>3. CASE runtimes' = runtimes
    BY <2>1, <2>3
  <2> QED
    BY <2>2, <2>3
    DEF CommandStep, BeginSetup, BeginRemove, BeginUpgrade, BeginRepair, Begin,
        GiveUp, LockForRun, RunOne, RunEnds, LockForActivation,
        TakeSnapshots, ActivateOne, VerifyActivation, ActivationFails, RestoreRead,
        RestoreWrite, RestoreFails, RollbackEnds, ActivationEnds, Die
<1>2. \/ setupLease' = setupLease \/ setupLease' = {} \/ setupLease' = {p}
      \/ setupLease' = setupLease \ {p}
  BY LeasesChange
<1>3. began' \in 0..MaxBegins /\ edits' \in 0..MaxEdits /\ mishaps' \in 0..MaxMishaps
  <2>1. /\ began' = began \/ (began < MaxBegins /\ began' = began + 1)
        /\ edits' = edits
        /\ mishaps' = mishaps \/ (mishaps < MaxMishaps /\ mishaps' = mishaps + 1)
    BY DEF CommandStep, BeginSetup, BeginRemove, BeginUpgrade, BeginRepair, Begin,
        InstallRuntime, GiveUp, LockForRun, RunOne, RunEnds, LockForActivation,
        TakeSnapshots, ActivateOne, VerifyActivation, ActivationFails, RestoreRead,
        RestoreWrite, RestoreFails, RollbackEnds, ActivationEnds, Die
  <2>2. /\ began \in 0..MaxBegins /\ edits \in 0..MaxEdits /\ mishaps \in 0..MaxMishaps
        /\ MaxBegins \in Nat /\ MaxEdits \in Nat /\ MaxMishaps \in Nat
    BY DEF RegistrationsTypeOK
  <2> QED
    BY <2>1, <2>2
<1>4. setupLease \subseteq Operators
  BY DEF RegistrationsTypeOK
<1> QED
  BY <1>1, <1>2, <1>3, <1>4
-----------------------------------------------------------------------------
(***************************************************************************)
(* The lease is with the process that needs it, and with no other.         *)
(***************************************************************************)
\* What each change leaves of the variables.
SameBut(r, s, fields) ==
    /\ "pc" \in fields \/ s.pc = r.pc
    /\ s.kind = r.kind /\ s.target = r.target
    /\ "todo" \in fields \/ s.todo = r.todo
    /\ "chosen" \in fields \/ s.chosen = r.chosen
    /\ "want" \in fields \/ s.want = r.want
    /\ "snapshot" \in fields \/ s.snapshot = r.snapshot
    /\ "activated" \in fields \/ s.activated = r.activated
    /\ "result" \in fields \/ s.result = r.result

LEMMA ChangedVariables ==
    \A r \in Command :
        /\ \A x : /\ SameBut(r, At(r, x), {"pc"})
                  /\ At(r, x).pc = x
        /\ \A x : /\ SameBut(r, Finished(r, x), {"pc", "result"})
                  /\ Finished(r, x).pc = "finish"
                  /\ Finished(r, x).result = x
        /\ /\ SameBut(r, Declined(r), {"pc", "result", "chosen"})
           /\ Declined(r).pc = "finish"
           /\ Declined(r).result = "failed"
           /\ Declined(r).chosen = {}
        /\ /\ SameBut(r, RollingBack(r), {"pc", "result"})
           /\ RollingBack(r).pc = "rollback"
           /\ RollingBack(r).result = "failed"
        /\ /\ SameBut(r, Running(r), {"pc", "todo"})
           /\ Running(r).pc = "run"
           /\ Running(r).todo = r.chosen
        /\ \A c : /\ SameBut(r, RunPast(r, c), {"todo"})
                  /\ RunPast(r, c).todo = r.todo \ {c}
        /\ \A x : /\ SameBut(r, Wanting(r, x), {"pc", "want"})
                  /\ Wanting(r, x).pc = "snapshot"
                  /\ Wanting(r, x).want = x
        /\ \A x : /\ SameBut(r, Activating(r, x), {"pc", "snapshot", "todo"})
                  /\ Activating(r, x).pc = "activate"
                  /\ Activating(r, x).snapshot = x
                  /\ Activating(r, x).todo = r.chosen
        /\ \A c : /\ SameBut(r, Activated(r, c), {"todo", "activated"})
                  /\ Activated(r, c).todo = r.todo \ {c}
                  /\ Activated(r, c).activated = r.activated \cup {c}
        /\ \A c : /\ SameBut(r, Restored(r, c), {"pc", "activated"})
                  /\ Restored(r, c).pc = "rollback"
                  /\ Restored(r, c).activated = r.activated \ {c}
        /\ \A c : /\ SameBut(r, Unrestored(r, c), {"pc", "activated", "result"})
                  /\ Unrestored(r, c).pc = "rollback"
                  /\ Unrestored(r, c).activated = r.activated \ {c}
                  /\ Unrestored(r, c).result = "rollback_failed"
<1>1. \A r \in Command : \A x : /\ SameBut(r, At(r, x), {"pc"})
                                /\ At(r, x).pc = x
  BY DEF At, SameBut, Command
<1>2. \A r \in Command : \A x : /\ SameBut(r, Finished(r, x), {"pc", "result"})
                                /\ Finished(r, x).pc = "finish"
                                /\ Finished(r, x).result = x
  BY DEF Finished, SameBut, Command
<1>3. \A r \in Command : /\ SameBut(r, Declined(r), {"pc", "result", "chosen"})
                         /\ Declined(r).pc = "finish"
                         /\ Declined(r).result = "failed"
                         /\ Declined(r).chosen = {}
  BY DEF Declined, SameBut, Command
<1>4. \A r \in Command : /\ SameBut(r, RollingBack(r), {"pc", "result"})
                         /\ RollingBack(r).pc = "rollback"
                         /\ RollingBack(r).result = "failed"
  BY DEF RollingBack, SameBut, Command
<1>5. \A r \in Command : /\ SameBut(r, Running(r), {"pc", "todo"})
                         /\ Running(r).pc = "run"
                         /\ Running(r).todo = r.chosen
  BY DEF Running, SameBut, Command
<1>6. \A r \in Command : \A c : /\ SameBut(r, RunPast(r, c), {"todo"})
                                /\ RunPast(r, c).todo = r.todo \ {c}
  BY DEF RunPast, SameBut, Command
<1>7. \A r \in Command : \A x : /\ SameBut(r, Wanting(r, x), {"pc", "want"})
                                /\ Wanting(r, x).pc = "snapshot"
                                /\ Wanting(r, x).want = x
  BY DEF Wanting, SameBut, Command
<1>8. \A r \in Command : \A x : /\ SameBut(r, Activating(r, x), {"pc", "snapshot", "todo"})
                                /\ Activating(r, x).pc = "activate"
                                /\ Activating(r, x).snapshot = x
                                /\ Activating(r, x).todo = r.chosen
  BY DEF Activating, SameBut, Command
<1>9. \A r \in Command : \A c : /\ SameBut(r, Activated(r, c), {"todo", "activated"})
                                /\ Activated(r, c).todo = r.todo \ {c}
                                /\ Activated(r, c).activated = r.activated \cup {c}
  BY DEF Activated, SameBut, Command
<1>10. \A r \in Command : \A c : /\ SameBut(r, Restored(r, c), {"pc", "activated"})
                                 /\ Restored(r, c).pc = "rollback"
                                 /\ Restored(r, c).activated = r.activated \ {c}
  BY DEF Restored, SameBut, Command
<1>11. \A r \in Command : \A c : /\ SameBut(r, Unrestored(r, c), {"pc", "activated", "result"})
                                 /\ Unrestored(r, c).pc = "rollback"
                                 /\ Unrestored(r, c).activated = r.activated \ {c}
                                 /\ Unrestored(r, c).result = "rollback_failed"
  BY DEF Unrestored, SameBut, Command
<1> QED
  BY <1>1, <1>2, <1>3, <1>4, <1>5, <1>6, <1>7, <1>8, <1>9, <1>10, <1>11

LEMMA LeasePhases ==
    ASSUME IInv, NEW p \in Operators, CommandStep(p), ~Die(p)
    PROVE  \/ /\ command[p].pc \in Unlocked /\ command'[p].pc \in Unlocked
              /\ setupLease' = setupLease
           \/ setupLease = {} /\ setupLease' = {p} /\ command'[p].pc \notin Unlocked
           \/ /\ command[p].pc \notin Unlocked /\ command'[p].pc \notin Unlocked
              /\ setupLease' = setupLease
           \/ /\ command[p].pc \notin Unlocked /\ command'[p].pc \in Unlocked
              /\ setupLease' = {}
<1>1. RegistrationsTypeOK /\ command[p] \in Command
  BY CommandsAreCommands DEF IInv
<1>2. CASE BeginSetup(p) \/ BeginRemove(p) \/ BeginUpgrade(p) \/ BeginRepair(p)
  <2>1. command'[p].pc \in {"install", "lock"}
    BY <1>1, <1>2, BegunCommand DEF Installing, Locking, NoCommand
  <2>2. command[p].pc = "idle" /\ setupLease' = setupLease
    BY <1>2, Zenon DEF BeginSetup, BeginRemove, BeginUpgrade, BeginRepair, Begin
  <2> QED
    BY <2>1, <2>2 DEF Unlocked
<1>3. CASE GiveUp(p) \/ RunEnds(p) \/ ActivationEnds(p)
  <2>1. command'[p].pc = "idle"
    BY <1>1, <1>3, EndedCommand DEF NoCommand
  <2> QED
    BY <1>3, <2>1 DEF GiveUp, RunEnds, ActivationEnds, Unlocked
<1>4. CASE InstallRuntime(p) \/ RollbackEnds(p) \/ ActivationFails(p)
  BY <1>1, <1>4, ChangedCommand, ChangedVariables
  DEF InstallRuntime, RollbackEnds, ActivationFails, Unlocked
<1>5. CASE LockForRun(p)
  BY <1>1, <1>5, ChangedCommand, ChangedVariables DEF LockForRun, TakeLease, Unlocked
<1>6. CASE LockForActivation(p)
  <2>1. command'[p].pc \in {"finish", "snapshot"}
    BY <1>1, <1>6, LockedCommand, ChangedCommand, ChangedVariables
  <2> QED
    BY <1>6, <2>1 DEF LockForActivation, TakeLease, Unlocked
<1>7. CASE TakeSnapshots(p)
  <2>1. command'[p].pc \in {"finish", "activate"}
    BY <1>1, <1>7, SnapshotCommand, ChangedCommand, ChangedVariables
  <2> QED
    BY <1>7, <2>1 DEF TakeSnapshots, Unlocked
<1>8. CASE RunOne(p) \/ ActivateOne(p) \/ RestoreWrite(p)
  <2>1. command'[p].pc \in {"rollback", command[p].pc}
    BY <1>1, <1>8, ChangedCommand, ChangedVariables DEF SameBut
  <2> QED
    BY <1>8, <2>1 DEF RunOne, ActivateOne, RestoreWrite, Unlocked
<1>9. CASE VerifyActivation(p)
  <2>1. command'[p].pc \in {"finish", "rollback"}
    BY <1>1, <1>9, ChangedCommand, ChangedVariables DEF VerifyActivation
  <2> QED
    BY <1>9, <2>1 DEF VerifyActivation, Unlocked
<1>10. CASE RestoreRead(p) \/ RestoreFails(p)
  <2>1. command'[p].pc \in {"restore", "rollback"}
    BY <1>1, <1>10, ChangedCommand, ChangedVariables DEF RestoreRead, RestoreFails
  <2> QED
    BY <1>10, <2>1 DEF RestoreRead, RestoreFails, Unlocked
<1> QED
  BY <1>2, <1>3, <1>4, <1>5, <1>6, <1>7, <1>8, <1>9, <1>10 DEF CommandStep

LEMMA LeaseIsKept ==
    ASSUME IInv, NEW p \in Operators, CommandStep(p)
    PROVE  \A q \in Operators : command'[q].pc \notin Unlocked <=> setupLease' = {q}
<1>1. \A q \in Operators : command[q].pc \notin Unlocked <=> setupLease = {q}
  BY DEF IInv, RegistrationsTypeOK, Unlocked
<1>2. ASSUME NEW q \in Operators, q # p
      PROVE  command'[q] = command[q]
  BY <1>2, StepIsItsOwn DEF IInv
<1>3. CASE Die(p)
  <2>1. command'[p].pc \in Unlocked
    BY <1>3, EndedCommand DEF NoCommand, Unlocked, IInv
  <2>2. setupLease' = setupLease \ {p}
    BY <1>3 DEF Die
  <2>3. setupLease' # {p}
    BY <2>2
  <2>4. ASSUME NEW q \in Operators, q # p
        PROVE  setupLease' = {q} <=> setupLease = {q}
    <3>1. p \notin setupLease \/ setupLease = {p}
      BY DEF IInv
    <3> QED
      BY <2>2, <2>4, <3>1
  <2> QED
    BY <1>1, <1>2, <2>1, <2>3, <2>4
<1>4. CASE ~Die(p)
  BY <1>1, <1>2, <1>4, LeasePhases
<1> QED
  BY <1>3, <1>4

LEMMA LeaseIsSingle ==
    ASSUME IInv, NEW p \in Operators, CommandStep(p)
    PROVE  \A q \in setupLease' : setupLease' = {q}
<1>1. \A q \in setupLease : setupLease = {q}
  BY DEF IInv
<1>2. \/ setupLease' = setupLease \/ setupLease' = {} \/ setupLease' = {p}
      \/ setupLease' = setupLease \ {p}
  BY LeasesChange
<1> QED
  BY <1>1, <1>2

LEMMA StepKeepsTypes ==
    ASSUME IInv, NEW p \in Operators, CommandStep(p)
    PROVE  RegistrationsTypeOK' /\ \A q \in setupLease' : setupLease' = {q}
<1>1. command' \in [Operators -> Command]
  BY CommandsKeepTypes DEF IInv
<1> QED
  BY <1>1, FilesKeepTypes, RestKeepsTypes, LeaseIsKept, LeaseIsSingle
  DEF RegistrationsTypeOK, Command, Unlocked
-----------------------------------------------------------------------------
(***************************************************************************)
(* No client is left with a runtime that is not installed.                 *)
(***************************************************************************)
\* The next client of a process is a supported one.
LEMMA NextIsAClient ==
    ASSUME RegistrationsTypeOK, NEW p \in Operators, command[p].todo # {}
    PROVE  Min(command[p].todo) \in command[p].todo /\ Min(command[p].todo) \in Clients
<1>1. command[p].todo \in SUBSET Clients
  BY CommandsAreCommands DEF Command
<1> QED
  BY <1>1, NextClientIsOneOfThem

\* What is written of one client names an installed runtime.
LEMMA WrittenRuntimeExists ==
    ASSUME RegistrationsTypeOK, RegisteredRuntimesExist, runtimes' = runtimes,
           NEW p \in Operators, NEW c, NEW file, Write(p, c, file),
           c \in Clients => (Registered(file) => file.runtime \in runtimes)
    PROVE  RegisteredRuntimesExist'
  BY DEF RegistrationsTypeOK, RegisteredRuntimesExist, Write

LEMMA StepKeepsRuntimesRegistered ==
    ASSUME IInv, NEW p \in Operators, CommandStep(p)
    PROVE  RegisteredRuntimesExist'
<1>1. RegistrationsTypeOK /\ RegisteredRuntimesExist /\ CommandInv(p)
  BY DEF IInv
<1>2. ASSUME config' = config
      PROVE  RegisteredRuntimesExist'
  BY <1>1, <1>2, RuntimesStay DEF RegisteredRuntimesExist
<1>3. CASE RunOne(p) /\ ~(config' = config)
  <2> DEFINE c == Min(command[p].todo)
  <2>1. /\ c \in Clients /\ runtimes' = runtimes
        /\ Write(p, c, IF command[p].kind = "remove" THEN Removed(config[c])
                       ELSE Configured(config[c], command[p].target))
    BY <1>1, <1>3, NextIsAClient DEF RunOne
  <2>2. Registered(config[c]) => config[c].runtime \in runtimes
    BY <1>1, <2>1 DEF RegisteredRuntimesExist
  <2>3. command[p].kind # "remove" => command[p].target \in runtimes
    BY <1>1, <1>3 DEF RunOne, CommandInv, TargetInstalled
  <2>4. CASE command[p].kind = "remove"
    <3>1. Registered(Removed(config[c])) => Removed(config[c]).runtime \in runtimes
      BY <2>2 DEF Removed, Unregistered, Registered
    <3> QED
      BY <1>1, <2>1, <2>4, <3>1, WrittenRuntimeExists
  <2>5. CASE command[p].kind # "remove"
    <3>1. Registered(Configured(config[c], command[p].target)) =>
             Configured(config[c], command[p].target).runtime \in runtimes
      BY <2>2, <2>3, <2>5 DEF Configured, Launcher, Registered
    <3> QED
      BY <1>1, <2>1, <2>5, <3>1, WrittenRuntimeExists
  <2> QED
    BY <2>4, <2>5
<1>4. CASE ActivateOne(p)
  <2> DEFINE c == Min(command[p].todo)
  <2>1. /\ c \in Clients /\ c \in command[p].todo /\ runtimes' = runtimes
        /\ Write(p, c, Configured(config[c], command[p].want[c]))
    BY <1>1, <1>4, NextIsAClient DEF ActivateOne
  <2>2. Registered(config[c]) => config[c].runtime \in runtimes
    BY <1>1, <2>1 DEF RegisteredRuntimesExist
  <2>3. command[p].want[c] \in runtimes
    BY <1>1, <1>4, <2>1 DEF ActivateOne, CommandInv, WantInstalled, ToDoIsRegistered
  <2>4. Registered(Configured(config[c], command[p].want[c])) =>
           Configured(config[c], command[p].want[c]).runtime \in runtimes
    BY <2>2, <2>3 DEF Configured, Launcher, Registered
  <2> QED
    BY <1>1, <2>1, <2>4, WrittenRuntimeExists
<1>5. CASE (RestoreWrite(p) \/ RestoreFails(p)) /\ ~(config' = config)
  <2> DEFINE c == Max(command[p].activated)
  <2>1. /\ runtimes' = runtimes /\ command[p].pc = "restore"
        /\ \/ Write(p, c, command[p].snapshot[c])
           \/ Write(p, c, [command[p].snapshot[c] EXCEPT !.private = TRUE])
    BY <1>5, Zenon DEF RestoreWrite, RestoreFails
  <2>2. c \in Clients =>
           (Registered(command[p].snapshot[c]) => command[p].snapshot[c].runtime \in runtimes)
    BY <1>1, <2>1 DEF CommandInv, SnapshotInstalled
  <2>3. c \in Clients => command[p].snapshot[c] \in Files
    BY <1>1, CommandsAreCommands DEF Command
  <2>4. c \in Clients =>
           [command[p].snapshot[c] EXCEPT !.private = TRUE].runtime = command[p].snapshot[c].runtime
    BY <2>3 DEF Files
  <2>5. CASE Write(p, c, command[p].snapshot[c])
    BY <1>1, <2>1, <2>2, <2>5, WrittenRuntimeExists
  <2>6. CASE Write(p, c, [command[p].snapshot[c] EXCEPT !.private = TRUE])
    <3>1. c \in Clients =>
             (Registered([command[p].snapshot[c] EXCEPT !.private = TRUE]) =>
                 [command[p].snapshot[c] EXCEPT !.private = TRUE].runtime \in runtimes)
      BY <2>2, <2>4 DEF Registered
    <3> QED
      BY <1>1, <2>1, <2>6, <3>1, WrittenRuntimeExists
  <2> QED
    BY <2>1, <2>5, <2>6
<1> QED
  BY <1>2, <1>3, <1>4, <1>5
  DEF CommandStep, BeginSetup, BeginRemove, BeginUpgrade, BeginRepair, Begin,
      InstallRuntime, GiveUp, LockForRun, RunEnds, LockForActivation,
      TakeSnapshots, VerifyActivation, ActivationFails, RestoreRead,
      RollbackEnds, ActivationEnds, Die
-----------------------------------------------------------------------------
(***************************************************************************)
(* What holds of a process holds after each of its steps.                  *)
(***************************************************************************)
\* Without the lease, and after a refusal, there is little to hold.
LEMMA IdleKeepsInv ==
    ASSUME NEW p \in Operators, command'[p] = NoCommand
    PROVE  CommandInv(p)'
  BY DEF NoCommand, CommandInv, TargetInstalled, WantInstalled, SnapshotInstalled,
         RepairKeepsRuntime, ToDoIsRegistered, NothingActivated, RestPreserved, AllOrNothing

LEMMA BeginKeepsInv ==
    ASSUME IInv, NEW p \in Operators,
           BeginSetup(p) \/ BeginRemove(p) \/ BeginUpgrade(p) \/ BeginRepair(p)
    PROVE  CommandInv(p)'
<1>1. CASE \E kind \in {"setup", "upgrade"}, v \in Versions, clients \in SUBSET Clients :
              command'[p] = Installing(kind, v, clients)
  <2>1. /\ command'[p].pc = "install" /\ command'[p].target \in Versions
        /\ command'[p].activated = {}
    BY <1>1 DEF Installing, NoCommand
  <2> QED
    BY <2>1
    DEF CommandInv, TargetInstalled, WantInstalled, SnapshotInstalled,
        RepairKeepsRuntime, ToDoIsRegistered, NothingActivated, RestPreserved, AllOrNothing
<1>2. CASE \E kind \in {"remove", "repair"}, clients \in SUBSET Clients :
              command'[p] = Locking(kind, clients)
  <2>1. /\ command'[p].pc = "lock" /\ command'[p].kind \in {"remove", "repair"}
        /\ command'[p].activated = {}
    BY <1>2 DEF Locking, NoCommand
  <2> QED
    BY <2>1
    DEF CommandInv, TargetInstalled, WantInstalled, SnapshotInstalled,
        RepairKeepsRuntime, ToDoIsRegistered, NothingActivated, RestPreserved, AllOrNothing
<1> QED
  BY <1>1, <1>2, BegunCommand DEF IInv

LEMMA InstallKeepsInv ==
    ASSUME IInv, NEW p \in Operators, InstallRuntime(p)
    PROVE  CommandInv(p)'
<1>1. RegistrationsTypeOK /\ command[p] \in Command /\ CommandInv(p)
  BY CommandsAreCommands DEF IInv
<1>2. command'[p].pc = "lock" /\ SameBut(command[p], command'[p], {"pc"})
  BY <1>1, ChangedCommand, ChangedVariables DEF InstallRuntime
<1>3. command[p].pc = "install" /\ command[p].target \in runtimes'
  BY DEF InstallRuntime
<1> QED
  BY <1>1, <1>2, <1>3
  DEF SameBut, CommandInv, TargetInstalled, WantInstalled, SnapshotInstalled,
      RepairKeepsRuntime, ToDoIsRegistered, NothingActivated, RestPreserved, AllOrNothing

LEMMA RunKeepsInv ==
    ASSUME IInv, NEW p \in Operators, LockForRun(p) \/ RunOne(p)
    PROVE  CommandInv(p)'
<1>1. RegistrationsTypeOK /\ command[p] \in Command /\ CommandInv(p)
  BY CommandsAreCommands DEF IInv
<1>2. /\ command'[p].pc = "run" /\ SameBut(command[p], command'[p], {"pc", "todo"})
      /\ \/ command[p].pc = "lock" /\ command[p].kind \in {"setup", "remove"}
         \/ command[p].pc = "run"
      /\ runtimes' = runtimes
  BY <1>1, ChangedCommand, ChangedVariables DEF LockForRun, RunOne, SameBut
<1> QED
  BY <1>1, <1>2, SMTT(30)
  DEF SameBut, CommandInv, TargetInstalled, WantInstalled, SnapshotInstalled,
      RepairKeepsRuntime, ToDoIsRegistered, NothingActivated, RestPreserved, AllOrNothing

LEMMA RefusalKeepsInv ==
    ASSUME RegistrationsTypeOK, NEW p \in Operators, Refused(p)
    PROVE  CommandInv(p)'
<1>1. command'[p].pc = "finish" /\ command'[p].chosen = {}
  BY CommandsAreCommands, ChangedCommand, ChangedVariables
<1> QED
  BY <1>1
  DEF CommandInv, TargetInstalled, WantInstalled, SnapshotInstalled,
      RepairKeepsRuntime, ToDoIsRegistered, NothingActivated, RestPreserved, AllOrNothing

LEMMA LockKeepsInv ==
    ASSUME IInv, NEW p \in Operators, LockForActivation(p)
    PROVE  CommandInv(p)'
<1>1. /\ RegistrationsTypeOK /\ RegisteredRuntimesExist
      /\ command[p] \in Command /\ CommandInv(p)
  BY CommandsAreCommands DEF IInv
<1>2. CASE Refused(p)
  BY <1>1, <1>2, RefusalKeepsInv
<1>3. CASE ~Refused(p)
  <2>1. /\ command[p].kind = "repair" => \A c \in command[p].chosen : Registered(config[c])
        /\ command'[p] = Wanting(command[p], Wanted(p))
    BY <1>1, <1>3, LockedCommand
  <2>2. /\ command'[p].pc = "snapshot" /\ command'[p].want = Wanted(p)
        /\ SameBut(command[p], command'[p], {"pc", "want"})
    BY <1>1, <2>1, ChangedVariables
  <2>3. /\ command[p].pc = "lock" /\ command[p].kind \in {"upgrade", "repair"}
        /\ config' = config /\ runtimes' = runtimes
    BY DEF LockForActivation
  <2>4. command[p].chosen \subseteq Clients
    BY <1>1 DEF Command
  <2>5. ASSUME NEW c \in command[p].chosen
        PROVE  /\ Wanted(p)[c] \in runtimes
               /\ command[p].kind = "repair" => Wanted(p)[c] = config[c].runtime
    <3>1. CASE command[p].kind = "upgrade"
      <4>1. Wanted(p)[c] = command[p].target
        BY <2>4, <3>1 DEF Wanted
      <4> QED
        BY <1>1, <2>3, <3>1, <4>1 DEF CommandInv, TargetInstalled
    <3>2. CASE command[p].kind = "repair"
      <4>1. Wanted(p)[c] = config[c].runtime
        BY <2>4, <3>2 DEF Wanted
      <4> QED
        BY <1>1, <2>1, <2>4, <3>2, <4>1 DEF RegisteredRuntimesExist
    <3> QED
      BY <2>3, <3>1, <3>2
  <2> QED
    BY <1>1, <2>2, <2>3, <2>5
    DEF SameBut, CommandInv, TargetInstalled, WantInstalled, SnapshotInstalled,
        RepairKeepsRuntime, ToDoIsRegistered, NothingActivated, RestPreserved, AllOrNothing
<1> QED
  BY <1>2, <1>3

LEMMA SnapshotKeepsInv ==
    ASSUME IInv, NEW p \in Operators, TakeSnapshots(p)
    PROVE  CommandInv(p)'
<1>1. /\ RegistrationsTypeOK /\ RegisteredRuntimesExist
      /\ command[p] \in Command /\ CommandInv(p)
  BY CommandsAreCommands DEF IInv
<1>2. CASE Refused(p)
  BY <1>1, <1>2, RefusalKeepsInv
<1>3. CASE ~Refused(p)
  <2>1. /\ \A c \in command[p].chosen : Registered(config[c])
        /\ command'[p] = Activating(command[p], config)
    BY <1>1, <1>3, SnapshotCommand
  <2>2. /\ command'[p].pc = "activate" /\ command'[p].snapshot = config
        /\ command'[p].todo = command[p].chosen
        /\ SameBut(command[p], command'[p], {"pc", "snapshot", "todo"})
    BY <1>1, <2>1, ChangedVariables
  <2>3. /\ command[p].pc = "snapshot"
        /\ config' = config /\ runtimes' = runtimes /\ edited' = edited
    BY DEF TakeSnapshots
  <2>4. SnapshotInstalled(p)'
    BY <1>1, <2>2, <2>3 DEF SnapshotInstalled, RegisteredRuntimesExist
  <2>5. ToDoIsRegistered(p)'
    BY <1>1, <2>1, <2>2, <2>3
    DEF SameBut, CommandInv, ToDoIsRegistered, RepairKeepsRuntime, NothingActivated
  <2>6. WantInstalled(p)'
    BY <1>1, <2>2, <2>3 DEF SameBut, CommandInv, WantInstalled
  <2>7. RestPreserved(p)'
    BY <2>2, <2>3 DEF RestPreserved
  <2> QED
    BY <2>2, <2>4, <2>5, <2>6, <2>7
    DEF CommandInv, TargetInstalled, RepairKeepsRuntime, NothingActivated, AllOrNothing
<1> QED
  BY <1>2, <1>3

\* A client the activation has come to belongs to its rollback.
LEMMA ActivateKeepsInv ==
    ASSUME IInv, NEW p \in Operators, ActivateOne(p)
    PROVE  CommandInv(p)'
<1> DEFINE c == Min(command[p].todo)
<1>1. /\ RegistrationsTypeOK /\ command[p] \in Command /\ CommandInv(p)
  BY CommandsAreCommands DEF IInv
<1>2. /\ command'[p].todo = command[p].todo \ {c}
      /\ command'[p].activated = command[p].activated \cup {c}
      /\ SameBut(command[p], command'[p], {"todo", "activated"})
  BY <1>1, ChangedCommand, ChangedVariables
<1>3. command[p].pc = "activate" /\ runtimes' = runtimes
  BY DEF ActivateOne
<1>4. \A d \in Clients \ {c} : config'[d] = config[d]
  BY DEF ActivateOne, Write, RegistrationsTypeOK
<1>5. edited'[p] = edited[p] \ {c}
  BY <1>1 DEF ActivateOne, Write, RegistrationsTypeOK
<1>6. command[p].chosen \subseteq Clients
  BY <1>1 DEF Command
<1>7. ToDoIsRegistered(p)'
  BY <1>1, <1>2, <1>3, <1>4, <1>5, <1>6 DEF SameBut, CommandInv, ToDoIsRegistered
<1>8. RestPreserved(p)'
  BY <1>1, <1>2, <1>3, <1>4, <1>5, <1>6 DEF SameBut, CommandInv, RestPreserved
<1>9. WantInstalled(p)' /\ SnapshotInstalled(p)'
  BY <1>1, <1>2, <1>3 DEF SameBut, CommandInv, WantInstalled, SnapshotInstalled
<1> QED
  BY <1>2, <1>3, <1>7, <1>8, <1>9
  DEF SameBut, CommandInv, TargetInstalled, RepairKeepsRuntime, NothingActivated, AllOrNothing

LEMMA RollbackKeepsInv ==
    ASSUME IInv, NEW p \in Operators, Rollback(p), command[p].pc = "activate",
           UNCHANGED <<config, runtimes, edited>>
    PROVE  CommandInv(p)'
<1>1. /\ RegistrationsTypeOK /\ command[p] \in Command /\ CommandInv(p)
  BY CommandsAreCommands DEF IInv
<1>2. /\ command'[p].pc = "rollback" /\ command'[p].result = "failed"
      /\ SameBut(command[p], command'[p], {"pc", "result"})
  BY <1>1, ChangedCommand, ChangedVariables
<1> QED
  BY <1>1, <1>2
  DEF SameBut, CommandInv, TargetInstalled, WantInstalled, SnapshotInstalled,
      RepairKeepsRuntime, ToDoIsRegistered, NothingActivated, RestPreserved, AllOrNothing

LEMMA VerifyKeepsInv ==
    ASSUME IInv, NEW p \in Operators, VerifyActivation(p)
    PROVE  CommandInv(p)'
<1>1. /\ RegistrationsTypeOK /\ command[p] \in Command
  BY CommandsAreCommands DEF IInv
<1>2. command[p].pc = "activate" /\ UNCHANGED <<config, runtimes, edited>>
  BY DEF VerifyActivation
<1>3. CASE Rollback(p)
  BY <1>2, <1>3, RollbackKeepsInv
<1>4. CASE ~Rollback(p)
  <2>1. /\ \A c \in command[p].chosen : SameEntry(config[c], Launcher(command[p].want[c]))
        /\ Finish(p, "activated")
    BY <1>4 DEF VerifyActivation
  <2>2. /\ command'[p].pc = "finish" /\ command'[p].result = "activated"
        /\ SameBut(command[p], command'[p], {"pc", "result"})
    BY <1>1, <2>1, ChangedCommand, ChangedVariables
  <2>3. AllOrNothing(p)'
    BY <1>2, <2>1, <2>2 DEF SameBut, AllOrNothing
  <2> QED
    BY <2>2, <2>3
    DEF CommandInv, TargetInstalled, WantInstalled, SnapshotInstalled,
        RepairKeepsRuntime, ToDoIsRegistered, NothingActivated, RestPreserved
<1> QED
  BY <1>3, <1>4

\* A rollback that has restored what it could so far, and reports what it could not.
LEMMA NotRestoredKeepsInv ==
    ASSUME IInv, NEW p \in Operators, NEW c, NotRestored(p, c),
           command[p].pc \in {"rollback", "restore"}, runtimes' = runtimes
    PROVE  CommandInv(p)'
<1>1. /\ RegistrationsTypeOK /\ command[p] \in Command /\ CommandInv(p)
  BY CommandsAreCommands DEF IInv
<1>2. /\ command'[p].pc = "rollback" /\ command'[p].result = "rollback_failed"
      /\ SameBut(command[p], command'[p], {"pc", "activated", "result"})
  BY <1>1, ChangedCommand, ChangedVariables
<1> QED
  BY <1>1, <1>2
  DEF SameBut, CommandInv, TargetInstalled, WantInstalled, SnapshotInstalled,
      RepairKeepsRuntime, ToDoIsRegistered, NothingActivated, RestPreserved, AllOrNothing

LEMMA RestoreReadKeepsInv ==
    ASSUME IInv, NEW p \in Operators, RestoreRead(p)
    PROVE  CommandInv(p)'
<1>1. /\ RegistrationsTypeOK /\ command[p] \in Command /\ CommandInv(p)
  BY CommandsAreCommands DEF IInv
<1>2. command[p].pc = "rollback" /\ UNCHANGED <<config, runtimes, edited>>
  BY DEF RestoreRead
<1>3. CASE Go(p, "restore")
  <2>1. command'[p].pc = "restore" /\ SameBut(command[p], command'[p], {"pc"})
    BY <1>1, <1>3, ChangedCommand, ChangedVariables
  <2> QED
    BY <1>1, <1>2, <2>1
    DEF SameBut, CommandInv, TargetInstalled, WantInstalled, SnapshotInstalled,
        RepairKeepsRuntime, ToDoIsRegistered, NothingActivated, RestPreserved, AllOrNothing
<1>4. CASE ~Go(p, "restore")
  <2>1. NotRestored(p, Max(command[p].activated))
    BY <1>4 DEF RestoreRead
  <2> QED
    BY <1>2, <2>1, NotRestoredKeepsInv
<1> QED
  BY <1>3, <1>4

LEMMA RestoreWriteKeepsInv ==
    ASSUME IInv, NEW p \in Operators, RestoreWrite(p)
    PROVE  CommandInv(p)'
<1> DEFINE c == Max(command[p].activated)
<1>1. /\ RegistrationsTypeOK /\ command[p] \in Command /\ CommandInv(p)
  BY CommandsAreCommands DEF IInv
<1>2. /\ command'[p].pc = "rollback" /\ command'[p].activated = command[p].activated \ {c}
      /\ SameBut(command[p], command'[p], {"pc", "activated"})
  BY <1>1, ChangedCommand, ChangedVariables
<1>3. command[p].pc = "restore" /\ runtimes' = runtimes
  BY DEF RestoreWrite
<1>4. /\ \A d \in Clients \ {c} : config'[d] = config[d]
      /\ c \in Clients => config'[c] = command[p].snapshot[c]
  BY DEF RestoreWrite, Write, IInv, RegistrationsTypeOK
<1>5. edited'[p] = edited[p] \ {c}
  BY <1>1 DEF RestoreWrite, Write, RegistrationsTypeOK
<1>6. command[p].chosen \subseteq Clients
  BY <1>1 DEF Command
<1>7. RestPreserved(p)'
  <2>1. command[p].result \in {"failed", "rollback_failed"}
    BY <1>1, <1>3 DEF CommandInv, RestPreserved
  <2>2. ASSUME command[p].result = "failed",
               NEW d \in (command[p].chosen \ (command[p].activated \ {c})) \ (edited[p] \ {c})
        PROVE  config'[d] = command[p].snapshot[d]
    <3>1. CASE d = c
      BY <1>4, <1>6, <3>1
    <3>2. CASE d # c
      BY <1>1, <1>3, <1>4, <1>6, <2>2, <3>2 DEF CommandInv, RestPreserved
    <3> QED
      BY <3>1, <3>2
  <2> QED
    BY <1>2, <1>5, <2>1, <2>2 DEF SameBut, RestPreserved
<1>8. SnapshotInstalled(p)'
  BY <1>1, <1>2, <1>3 DEF SameBut, CommandInv, SnapshotInstalled
<1> QED
  BY <1>2, <1>7, <1>8
  DEF CommandInv, TargetInstalled, WantInstalled,
      RepairKeepsRuntime, ToDoIsRegistered, NothingActivated, AllOrNothing

LEMMA RollbackEndKeepsInv ==
    ASSUME IInv, NEW p \in Operators, RollbackEnds(p)
    PROVE  CommandInv(p)'
<1>1. /\ RegistrationsTypeOK /\ command[p] \in Command /\ CommandInv(p)
  BY CommandsAreCommands DEF IInv
<1>2. command'[p].pc = "finish" /\ SameBut(command[p], command'[p], {"pc"})
  BY <1>1, ChangedCommand, ChangedVariables DEF RollbackEnds
<1>3. /\ command[p].pc = "rollback" /\ command[p].activated = {}
      /\ UNCHANGED <<config, runtimes, edited>>
  BY DEF RollbackEnds
<1>4. command[p].result \in {"failed", "rollback_failed"}
  BY <1>1, <1>3 DEF CommandInv, RestPreserved
<1>5. command[p].result = "failed" =>
         \A c \in command[p].chosen \ edited[p] : config[c] = command[p].snapshot[c]
  BY <1>1, <1>3 DEF CommandInv, RestPreserved
<1>6. AllOrNothing(p)'
  BY <1>2, <1>3, <1>4, <1>5 DEF SameBut, AllOrNothing
<1> QED
  BY <1>2, <1>6
  DEF CommandInv, TargetInstalled, WantInstalled, SnapshotInstalled,
      RepairKeepsRuntime, ToDoIsRegistered, NothingActivated, RestPreserved

LEMMA OwnStepKeepsInv ==
    ASSUME IInv, NEW p \in Operators, CommandStep(p)
    PROVE  CommandInv(p)'
<1>1. CASE GiveUp(p) \/ RunEnds(p) \/ ActivationEnds(p) \/ Die(p)
  BY <1>1, EndedCommand, IdleKeepsInv DEF IInv
<1>2. CASE ActivationFails(p)
  BY <1>2, RollbackKeepsInv DEF ActivationFails
<1>3. CASE RestoreFails(p)
  BY <1>3, NotRestoredKeepsInv DEF RestoreFails
<1> QED
  BY <1>1, <1>2, <1>3, BeginKeepsInv, InstallKeepsInv, RunKeepsInv, LockKeepsInv,
     SnapshotKeepsInv, ActivateKeepsInv, VerifyKeepsInv, RestoreReadKeepsInv,
     RestoreWriteKeepsInv, RollbackEndKeepsInv
  DEF CommandStep
-----------------------------------------------------------------------------
(***************************************************************************)
(* The others, and the invariant.                                          *)
(***************************************************************************)
LEMMA EditKeepsInv ==
    ASSUME IInv, NEW c \in Clients, Edit(c)
    PROVE  IInv'
<1>1. PICK file \in Files \ {config[c]} :
         /\ file.runtime \in runtimes \cup {0}
         /\ config' = [config EXCEPT ![c] = file]
  BY DEF Edit
<1>2. /\ edited' = [p \in Operators |-> edited[p] \cup {c}]
      /\ UNCHANGED <<runtimes, setupLease, command, began, mishaps>>
      /\ edits < MaxEdits /\ edits' = edits + 1
  BY DEF Edit
<1>3. /\ config \in [Clients -> Files] /\ edited \in [Operators -> SUBSET Clients]
      /\ edits \in 0..MaxEdits /\ MaxEdits \in Nat
  BY RegistrationsAssumption DEF IInv, RegistrationsTypeOK
<1>4. /\ config' \in [Clients -> Files] /\ edited' \in [Operators -> SUBSET Clients]
      /\ edits' \in 0..MaxEdits
  BY <1>1, <1>2, <1>3
<1>5. RegistrationsTypeOK'
  BY <1>2, <1>4 DEF IInv, RegistrationsTypeOK
<1>6. RegisteredRuntimesExist'
  BY <1>1, <1>2, <1>3 DEF IInv, RegisteredRuntimesExist, Registered
<1>7. ASSUME NEW p \in Operators
      PROVE  CommandInv(p)'
  <2>1. CommandInv(p) /\ command[p].chosen \subseteq Clients
    BY CommandsAreCommands DEF IInv, Command
  <2>2. \A d \in Clients \ {c} : config'[d] = config[d]
    BY <1>1, <1>3
  <2>3. edited'[p] = edited[p] \cup {c}
    BY <1>2
  <2> QED
    BY <1>2, <2>1, <2>2, <2>3
    DEF CommandInv, TargetInstalled, WantInstalled, SnapshotInstalled,
        RepairKeepsRuntime, ToDoIsRegistered, NothingActivated, RestPreserved, AllOrNothing
<1> QED
  BY <1>2, <1>5, <1>6, <1>7 DEF IInv

LEMMA InitInv == RegistrationsInit => IInv
<1> SUFFICES ASSUME RegistrationsInit PROVE IInv
  OBVIOUS
<1>1. command \in [Operators -> Command] /\ \A p \in Operators : command[p] = NoCommand
  BY NoCommandIsACommand DEF RegistrationsInit
<1>2. /\ config \in [Clients -> Files] /\ runtimes \subseteq Versions /\ setupLease = {}
      /\ edited \in [Operators -> SUBSET Clients]
      /\ \A c \in Clients : config[c].runtime \in runtimes \cup {0}
  BY DEF RegistrationsInit
<1>3. began \in 0..MaxBegins /\ edits \in 0..MaxEdits /\ mishaps \in 0..MaxMishaps
  BY RegistrationsAssumption DEF RegistrationsInit
<1>4. RegistrationsTypeOK
  BY <1>1, <1>2, <1>3 DEF RegistrationsTypeOK, Command, NoCommand
<1>5. RegisteredRuntimesExist
  BY <1>2 DEF RegisteredRuntimesExist, Registered
<1>6. ASSUME NEW p \in Operators
      PROVE  CommandInv(p)
  BY <1>1
  DEF NoCommand, CommandInv, TargetInstalled, WantInstalled, SnapshotInstalled,
      RepairKeepsRuntime, ToDoIsRegistered, NothingActivated, RestPreserved, AllOrNothing
<1> QED
  BY <1>2, <1>4, <1>5, <1>6 DEF IInv

LEMMA StepKeepsInv ==
    ASSUME IInv, [RegistrationsNext]_registrationVars
    PROVE  IInv'
<1>1. ASSUME NEW p \in Operators, CommandStep(p)
      PROVE  IInv'
  BY <1>1, StepKeepsTypes, StepKeepsRuntimesRegistered, OwnStepKeepsInv,
     OthersKeepCommandInv
  DEF IInv
<1>2. CASE UNCHANGED registrationVars
  BY <1>2
  DEF registrationVars, IInv, RegistrationsTypeOK, RegisteredRuntimesExist,
      CommandInv, TargetInstalled, WantInstalled, SnapshotInstalled,
      RepairKeepsRuntime, ToDoIsRegistered, NothingActivated, RestPreserved, AllOrNothing
<1> QED
  BY <1>1, <1>2, EditKeepsInv DEF RegistrationsNext, CommandStep
-----------------------------------------------------------------------------
(***************************************************************************)
(* The theorems.                                                           *)
(***************************************************************************)
LEMMA InvAlways == RegistrationsSpec => []IInv
<1>1. IInv /\ [RegistrationsNext]_registrationVars => IInv'
  BY StepKeepsInv
<1> QED
  BY <1>1, InitInv, PTL DEF RegistrationsSpec

\* Types; only the process that has the lease of the setup changes files
\* (acquireSetupLease).
THEOREM RegistrationsTypeCorrect == RegistrationsSpec => []RegistrationsTypeOK
<1>1. IInv => RegistrationsTypeOK
  BY DEF IInv
<1> QED
  BY <1>1, InvAlways, PTL

\* A runtime is installed before any registration names it, and a rollback puts
\* back none that is gone: every registered runtime exists, wherever a setup, an
\* activation or a rollback stops.
THEOREM RegisteredRuntimesAlwaysExist == RegistrationsSpec => []RegisteredRuntimesExist
<1>1. IInv => RegisteredRuntimesExist
  BY DEF IInv
<1> QED
  BY <1>1, InvAlways, PTL

\* activateExistingLaunchers: all the chosen clients are registered, or each is as
\* it was found, or the failure says that the rollback failed too.
THEOREM ActivationIsAlwaysAllOrNothing == RegistrationsSpec => []ActivationIsAllOrNothing
<1>1. IInv => ActivationIsAllOrNothing
  BY DEF IInv, CommandInv, AllOrNothing, ActivationIsAllOrNothing
<1> QED
  BY <1>1, InvAlways, PTL

\* What an activation overwrites is what its snapshot would put back.
LEMMA ActivationReplacesWhatItSaw ==
    ASSUME IInv, NEW p \in Operators, ActivateOne(p),
           Min(command[p].todo) \notin edited[p]
    PROVE  LET c == Min(command[p].todo)
           IN  /\ config[c] = command[p].snapshot[c]
               /\ Registered(config[c])
               /\ command[p].kind = "repair" => config'[c].runtime = config[c].runtime
<1> DEFINE c == Min(command[p].todo)
<1>1. /\ RegistrationsTypeOK /\ CommandInv(p) /\ command[p].pc = "activate"
      /\ c \in command[p].todo /\ c \in Clients
  BY NextIsAClient DEF IInv, ActivateOne
<1>2. /\ c \in (command[p].chosen \ command[p].activated) \ edited[p]
      /\ Registered(config[c])
      /\ command[p].kind = "repair" => config[c].runtime = command[p].want[c]
  BY <1>1 DEF CommandInv, ToDoIsRegistered
<1>3. config[c] = command[p].snapshot[c]
  BY <1>1, <1>2 DEF CommandInv, RestPreserved
<1>4. config'[c] = Configured(config[c], command[p].want[c])
  BY <1>1 DEF ActivateOne, Write, RegistrationsTypeOK
<1>5. Configured(config[c], command[p].want[c]).runtime = command[p].want[c]
  BY DEF Configured, SameEntry, Launcher
<1> QED
  BY <1>2, <1>3, <1>4, <1>5

\* No activation creates a registration or takes another process's from it, and a
\* repair keeps the runtime it found (RepairExisting).
THEOREM ActivationsAlwaysReplaceWhatTheySaw ==
    RegistrationsSpec => ActivationsReplaceWhatTheySaw
<1>1. IInv => \A p \in Operators : ActivateOne(p) =>
                 LET c == Min(command[p].todo)
                 IN  c \in edited[p] \/ /\ config[c] = command[p].snapshot[c]
                                        /\ Registered(config[c])
                                        /\ command[p].kind = "repair" =>
                                               config'[c].runtime = config[c].runtime
  BY ActivationReplacesWhatItSaw
<1>2. IInv /\ [RegistrationsNext]_registrationVars =>
         [\A p \in Operators : ActivateOne(p) =>
             LET c == Min(command[p].todo)
             IN  c \in edited[p] \/ /\ config[c] = command[p].snapshot[c]
                                    /\ Registered(config[c])
                                    /\ command[p].kind = "repair" =>
                                           config'[c].runtime = config[c].runtime
         ]_registrationVars
  BY <1>1
<1> QED
  BY <1>2, InvAlways, PTL DEF RegistrationsSpec, ActivationsReplaceWhatTheySaw
-----------------------------------------------------------------------------
(***************************************************************************)
(* The retry transport                                                     *)
(***************************************************************************)

Steps(q) ==
    \/ AllowClosed(q) \/ AllowProbe(q) \/ RefuseOpen(q) \/ RefuseHalfOpen(q)
    \/ Succeed(q) \/ ContextEnds(q) \/ Retry(q) \/ Exhaust(q)
-----------------------------------------------------------------------------
(***************************************************************************)
(* Types                                                                   *)
(***************************************************************************)
LEMMA CallersAreCounted ==
    Cardinality(Requests) \in Nat /\ LongestBlackout \in Nat
<1>1. Cardinality(Requests) \in Nat
  BY FS_CardinalityType, TransportAssumption
<1>2. Cardinality(Requests) * HalfOpenWait \in Nat
  BY <1>1, TransportAssumption
<1> QED
  BY <1>1, <1>2, TransportAssumption DEF LongestBlackout

LEMMA OlderIsWithin ==
    ASSUME NEW limit \in Nat, NEW age \in 0..limit
    PROVE  Older(age, limit) \in 0..limit
  BY DEF Older

LEMMA TickKeepsTypes ==
    ASSUME TransportTypeOK, Tick
    PROVE  TransportTypeOK'
<1>1. failureAge' \in 0..HalfOpenWait /\ probeGap' \in 0..HalfOpenWait
  BY OlderIsWithin, TransportAssumption DEF TransportTypeOK, Tick
<1>2. probeAge' \in 0..ProbeTimeout
  BY OlderIsWithin, TransportAssumption DEF TransportTypeOK, Tick
<1>3. LongestBlackout + 1 \in Nat /\ LongestBlackout' = LongestBlackout
  BY CallersAreCounted DEF LongestBlackout
<1>4. blackout' \in 0..(LongestBlackout + 1)'
  BY OlderIsWithin, <1>3 DEF TransportTypeOK, Tick
<1> QED
  BY <1>1, <1>2, <1>4 DEF TransportTypeOK, Tick

LEMMA CallKeepsTypes ==
    ASSUME TransportTypeOK, NEW q \in Requests, Steps(q)
    PROVE  TransportTypeOK'
<1> USE TransportAssumption, CallersAreCounted
<1>1. attempt' \in [Requests -> 0..MaxAttempts]
  BY DEF TransportTypeOK, Steps, AllowClosed, AllowProbe, RefuseOpen, RefuseHalfOpen,
         LetThrough, Refuse, Succeed, ContextEnds, Retry, Exhaust, Return
<1>2. failed' \in 0..FailureLimit /\ (circuit' = "closed" => failed' < FailureLimit)
  <2>1. CASE Exhaust(q)
    <3>1. failed' \in 0..FailureLimit
      BY <2>1, OlderIsWithin DEF TransportTypeOK, Exhaust
    <3> QED
      BY <2>1, <3>1 DEF TransportTypeOK, Exhaust
  <2>2. CASE ~Exhaust(q)
    BY <2>2 DEF TransportTypeOK, Steps, AllowClosed, AllowProbe, RefuseOpen,
                RefuseHalfOpen, Succeed, ContextEnds, Retry
  <2> QED
    BY <2>1, <2>2
<1>3. /\ circuit' \in {"closed", "open", "half_open"}
      /\ failureAge' \in 0..HalfOpenWait /\ probeAge' \in 0..ProbeTimeout
      /\ probeGap' \in 0..HalfOpenWait
  BY DEF TransportTypeOK, Steps, AllowClosed, AllowProbe, RefuseOpen, RefuseHalfOpen,
         Succeed, ContextEnds, Retry, Exhaust
<1>4. /\ refused' = refused \/ refused' = TRUE \/ refused' = FALSE
      /\ blackout' = blackout \/ blackout' = 0
  BY Zenon DEF Steps, AllowClosed, AllowProbe, RefuseOpen, RefuseHalfOpen,
         LetThrough, Refuse, Succeed, ContextEnds, Retry, Exhaust
<1>5. refused' \in BOOLEAN
  BY <1>4, Zenon DEF TransportTypeOK
<1>6. blackout' \in 0..(LongestBlackout + 1)'
  BY <1>4 DEF TransportTypeOK, LongestBlackout
<1> QED
  BY <1>1, <1>2, <1>3, <1>5, <1>6 DEF TransportTypeOK

\* The breaker, the requests and the histories keep their types, and a circuit
\* with FailureLimit failures in a row is never closed, whatever requests that
\* started before it opened report (recordSuccess, recordFailure).
THEOREM TransportTypeCorrect == TransportSpec => []TransportTypeOK
<1>1. TransportInit => TransportTypeOK
  <2> SUFFICES ASSUME TransportInit
               PROVE  TransportTypeOK
    OBVIOUS
  <2>1. refused \in BOOLEAN
    BY Zenon DEF TransportInit
  <2> QED
    BY <2>1, TransportAssumption, CallersAreCounted DEF TransportInit, TransportTypeOK
<1>2. TransportTypeOK /\ [TransportNext]_transportVars => TransportTypeOK'
  <2> SUFFICES ASSUME TransportTypeOK, [TransportNext]_transportVars
               PROVE  TransportTypeOK'
    OBVIOUS
  <2>1. CASE Tick
    BY <2>1, TickKeepsTypes
  <2>2. CASE \E q \in Requests : Steps(q)
    BY <2>2, CallKeepsTypes
  <2>3. CASE UNCHANGED transportVars
    BY <2>3 DEF transportVars, TransportTypeOK, LongestBlackout
  <2> QED
    BY <2>1, <2>2, <2>3 DEF TransportNext, Steps
<1> QED
  BY <1>1, <1>2, PTL DEF TransportSpec
-----------------------------------------------------------------------------
(***************************************************************************)
(* An open circuit has been open for no longer than since the last probe,  *)
(* so that the wait it makes callers wait separates the probes.            *)
(***************************************************************************)
OpenedAfterProbe == circuit = "open" => failureAge <= probeGap

LEMMA StepKeepsOpenedAfterProbe ==
    ASSUME TransportTypeOK, OpenedAfterProbe, [TransportNext]_transportVars
    PROVE  OpenedAfterProbe'
<1> USE TransportAssumption
<1>1. CASE Tick
  BY <1>1 DEF TransportTypeOK, OpenedAfterProbe, Tick, Older
<1>2. ASSUME NEW q \in Requests, Steps(q)
      PROVE  OpenedAfterProbe'
  BY <1>2 DEF TransportTypeOK, OpenedAfterProbe, Steps, AllowClosed, AllowProbe,
              RefuseOpen, RefuseHalfOpen, Succeed, ContextEnds, Retry, Exhaust
<1>3. CASE UNCHANGED transportVars
  BY <1>3 DEF transportVars, OpenedAfterProbe
<1> QED
  BY <1>1, <1>2, <1>3 DEF TransportNext, Steps

\* allow lets no two probes through within one wait, whatever becomes of the
\* first: it fails, is given up, its caller goes away, or the circuit closes and
\* opens again meanwhile.
THEOREM ProbesAreAlwaysSpaced == TransportSpec => ProbesAreSpaced
<1>1. TransportInit => OpenedAfterProbe
  BY DEF TransportInit, OpenedAfterProbe
<1>2. TransportTypeOK /\ OpenedAfterProbe /\ [TransportNext]_transportVars
      => OpenedAfterProbe'
  BY StepKeepsOpenedAfterProbe
<1>3. TransportTypeOK /\ OpenedAfterProbe /\ [TransportNext]_transportVars
      => [(\E q \in Requests : AllowProbe(q)) => probeGap >= HalfOpenWait]_transportVars
  BY TransportAssumption DEF TransportTypeOK, OpenedAfterProbe, AllowProbe
<1> QED
  BY <1>1, <1>2, <1>3, TransportTypeCorrect, PTL DEF TransportSpec, ProbesAreSpaced
-----------------------------------------------------------------------------
(***************************************************************************)
(* What the breaker may still refuse.  Each request under way may report a *)
(* failure and so grant one more wait; a probe that is waited for grants   *)
(* what is left of its timeout, then a wait, and the caller that finds it  *)
(* overdue is not itself under way.                                        *)
(***************************************************************************)
UnderWay == {q \in Requests : attempt[q] > 0}

\* How many requests are under way, of how many callers.
n == Cardinality(UnderWay)
N == Cardinality(Requests)
Grants == n * HalfOpenWait
HalfOpenGrants == IF n < N THEN n * HalfOpenWait ELSE (n - 1) * HalfOpenWait

Remaining ==
    CASE circuit = "closed" -> Grants
      [] circuit = "open" -> (HalfOpenWait - failureAge) + Grants
      [] circuit = "half_open" ->
            (ProbeTimeout - probeAge) + HalfOpenWait + HalfOpenGrants

\* A refusal in this tick counts when the tick ends; until then what remains
\* covers it, unless a success has closed the circuit.
Pending == IF refused /\ circuit = "closed" THEN 1 ELSE 0

RefusedInTime ==
    /\ refused /\ circuit = "open" => failureAge < HalfOpenWait
    /\ refused /\ circuit = "half_open" => probeAge < ProbeTimeout

BlackoutInv ==
    /\ TransportTypeOK
    /\ RefusedInTime
    /\ blackout + Pending + Remaining <= LongestBlackout

LEMMA UnderWayIsCounted ==
    ASSUME TransportTypeOK
    PROVE  /\ IsFiniteSet(UnderWay) /\ n \in Nat /\ N \in Nat /\ n <= N
           /\ \A q \in Requests : attempt[q] = 0 => n < N
           /\ \A q \in Requests : attempt[q] > 0 => n > 0
<1>1. UnderWay \in SUBSET Requests
  BY DEF UnderWay
<1>2. IsFiniteSet(UnderWay) /\ n <= N /\ (n = N => UnderWay = Requests)
  BY <1>1, FS_Subset, TransportAssumption DEF n, N
<1>3. n \in Nat /\ N \in Nat
  BY <1>2, FS_CardinalityType, TransportAssumption DEF n, N
<1>4. ASSUME NEW q \in Requests, attempt[q] = 0
      PROVE  n < N
  <2>1. q \notin UnderWay
    BY <1>4 DEF UnderWay
  <2> QED
    BY <1>2, <1>3, <2>1
<1>5. ASSUME NEW q \in Requests, attempt[q] > 0
      PROVE  n > 0
  <2>1. UnderWay # {}
    BY <1>5 DEF UnderWay
  <2>2. n # 0
    BY <2>1, <1>2, FS_EmptySet DEF n
  <2> QED
    BY <2>2, <1>3
<1> QED
  BY <1>2, <1>3, <1>4, <1>5

LEMMA OneMoreUnderWay ==
    ASSUME TransportTypeOK, NEW q \in Requests, attempt[q] = 0,
           attempt' = [attempt EXCEPT ![q] = 1]
    PROVE  n' = n + 1
<1>1. UnderWay' = UnderWay \cup {q}
  BY DEF UnderWay, TransportTypeOK
<1>2. q \notin UnderWay
  BY DEF UnderWay
<1> QED
  BY <1>1, <1>2, UnderWayIsCounted, FS_AddElement DEF n

LEMMA OneFewerUnderWay ==
    ASSUME TransportTypeOK, NEW q \in Requests, attempt[q] > 0, Return(q)
    PROVE  n' = n - 1
<1>1. UnderWay' = UnderWay \ {q}
  BY DEF UnderWay, TransportTypeOK, Return
<1>2. q \in UnderWay
  BY DEF UnderWay
<1> QED
  BY <1>1, <1>2, UnderWayIsCounted, FS_RemoveElement DEF n

LEMMA SameUnderWay ==
    ASSUME attempt' = attempt
    PROVE  n' = n
  BY DEF n, UnderWay

\* Waits are added and compared.
LEMMA WaitsAddUp ==
    ASSUME NEW k \in Nat, NEW m \in Nat, k <= m
    PROVE  /\ k * HalfOpenWait \in Nat /\ m * HalfOpenWait \in Nat
           /\ k * HalfOpenWait <= m * HalfOpenWait
           /\ (k - 1) * HalfOpenWait = k * HalfOpenWait - HalfOpenWait
           /\ k < m => k * HalfOpenWait + HalfOpenWait <= m * HalfOpenWait
<1> USE TransportAssumption
<1>1. k * HalfOpenWait \in Nat /\ m * HalfOpenWait \in Nat
  OBVIOUS
<1>2. \A i, j \in Nat : i <= j => i * HalfOpenWait <= j * HalfOpenWait
  OBVIOUS
<1>3. (k - 1) * HalfOpenWait = k * HalfOpenWait - HalfOpenWait
  OBVIOUS
<1>4. (k + 1) * HalfOpenWait = k * HalfOpenWait + HalfOpenWait
  OBVIOUS
<1>5. k < m => k + 1 \in Nat /\ k + 1 <= m
  OBVIOUS
<1> QED
  BY <1>1, <1>2, <1>3, <1>4, <1>5

\* What is used up and what remains: a step may move it from one to the other.
LEMMA SumsOfThree ==
    ASSUME NEW a \in Int, NEW b \in Int, NEW c \in Int,
           NEW x \in Int, NEW y \in Int, NEW z \in Int
    PROVE  /\ a <= x + 1 /\ b + c + 1 <= y + z => a + b + c <= x + y + z
           /\ a = x /\ b + c <= y + z => a + b + c <= x + y + z
           /\ a = x /\ b = 0 /\ c <= z /\ y \in 0..1 => a + b + c <= x + y + z
  OBVIOUS

LEMMA SumStaysWithin ==
    ASSUME NEW a \in Int, NEW b \in Int, NEW c \in Int,
           NEW x \in Int, NEW y \in Int, NEW z \in Int, NEW limit \in Int,
           a + b + c <= x + y + z, x + y + z <= limit
    PROVE  a + b + c <= limit
  OBVIOUS

LEMMA SumOfOne ==
    ASSUME NEW a, NEW b, NEW c \in Int, NEW limit \in Int, a = 0, b = 0, c <= limit
    PROVE  a + b + c <= limit
  OBVIOUS

LEMMA BoundIsKept ==
    ASSUME TransportTypeOK', RefusedInTime',
           blackout + Pending + Remaining <= LongestBlackout,
           blackout' + Pending' + Remaining' <= blackout + Pending + Remaining,
           blackout \in Int, Pending \in Int, Remaining \in Int,
           blackout' \in Int, Pending' \in Int, Remaining' \in Int
    PROVE  BlackoutInv'
<1>4. blackout' + Pending' + Remaining' <= LongestBlackout
  <2>1. LongestBlackout \in Int
    BY CallersAreCounted
  <2> QED
    BY <2>1, SumStaysWithin
<1>5. LongestBlackout' = LongestBlackout
  BY DEF LongestBlackout
<1> QED
  BY <1>4, <1>5, Zenon DEF BlackoutInv

LEMMA TickKeepsBlackoutInv ==
    ASSUME BlackoutInv, Tick
    PROVE  BlackoutInv'
<1> USE TransportAssumption, CallersAreCounted, UnderWayIsCounted DEF BlackoutInv
<1>1. TransportTypeOK'
  BY TickKeepsTypes
<1>2. n' = n /\ N' = N /\ LongestBlackout' = LongestBlackout
  BY SameUnderWay DEF Tick, N, LongestBlackout
<1>3. Grants' = Grants /\ HalfOpenGrants' = HalfOpenGrants
  BY <1>2 DEF Grants, HalfOpenGrants
<1>4. RefusedInTime'
  BY DEF Tick, RefusedInTime
<1>5. Grants \in Int /\ HalfOpenGrants \in Int
  BY DEF Grants, HalfOpenGrants
<1>6. Pending' = 0 /\ Pending' \in Int
  BY DEF Tick, Pending
<1>7. Pending' \in Int
  BY <1>6
<1>8. CASE refused
  <2>1. blackout' <= blackout + 1
    BY <1>8 DEF Tick, Older, TransportTypeOK
  <2>2. Pending' + Remaining' + 1 <= Pending + Remaining
    BY <1>3, <1>5, <1>6, <1>8
    DEF Tick, Older, TransportTypeOK, Remaining, Pending, RefusedInTime
  <2>3. /\ Pending \in Int /\ Remaining \in Int /\ Remaining' \in Int
        /\ blackout \in Int /\ blackout' \in Int
    BY <1>3, <1>5, <1>1, <1>2 DEF TransportTypeOK, Remaining, Pending
  <2>4. blackout' + Pending' + Remaining' <= blackout + Pending + Remaining
    BY <1>7, <2>1, <2>2, <2>3, SumsOfThree
  <2> QED
    BY <1>1, <1>4, <1>6, <2>3, <2>4, BoundIsKept
<1>9. CASE ~refused
  <2>1. blackout' = blackout
    BY <1>9 DEF Tick
  <2>2. Remaining' <= Remaining /\ Remaining \in Int /\ Remaining' \in Int
    BY <1>3, <1>5, <1>1 DEF Tick, Older, TransportTypeOK, Remaining
  <2>3. Pending \in 0..1
    BY DEF Pending
  <2>4. blackout \in Int
    BY DEF TransportTypeOK
  <2>5. Pending \in Int /\ Pending' \in Int /\ blackout' \in Int
    BY <1>6, <2>1, <2>3, <2>4
  <2>6. blackout' + Pending' + Remaining' <= blackout + Pending + Remaining
    BY <1>6, <2>1, <2>2, <2>3, <2>4, <2>5, SumsOfThree
  <2> QED
    BY <1>1, <1>4, <2>2, <2>4, <2>5, <2>6, BoundIsKept
<1> QED
  BY <1>8, <1>9

\* The waits that the requests under way grant.
LEMMA GrantsAreCounted ==
    ASSUME TransportTypeOK
    PROVE  /\ Grants \in Nat /\ Grants <= N * HalfOpenWait
           /\ N * HalfOpenWait \in Nat
           /\ n < N => Grants + HalfOpenWait <= N * HalfOpenWait
           /\ n < N => HalfOpenGrants = Grants
           /\ n = N => HalfOpenGrants = Grants - HalfOpenWait
<1>1. n \in Nat /\ N \in Nat /\ n <= N
  BY UnderWayIsCounted
<1>2. n = N \/ n < N
  BY <1>1
<1> QED
  BY <1>1, <1>2, WaitsAddUp DEF Grants, HalfOpenGrants

LEMMA OneFewerGrant ==
    ASSUME TransportTypeOK, NEW q \in Requests, attempt[q] > 0, Return(q)
    PROVE  Grants' = Grants - HalfOpenWait /\ n' < N
<1>1. n' = n - 1 /\ n \in Nat /\ N \in Nat /\ n <= N /\ n > 0
  BY OneFewerUnderWay, UnderWayIsCounted
<1>2. (n - 1) * HalfOpenWait = n * HalfOpenWait - HalfOpenWait
  BY <1>1, TransportAssumption
<1> QED
  BY <1>1, <1>2 DEF Grants

\* A request that ends, whatever it reports, takes its grant with it.
LEMMA ReturnKeepsBlackoutInv ==
    ASSUME BlackoutInv, NEW q \in Requests, Succeed(q) \/ ContextEnds(q) \/ Exhaust(q)
    PROVE  BlackoutInv'
<1> USE TransportAssumption, CallersAreCounted, UnderWayIsCounted DEF BlackoutInv
<1>1. TransportTypeOK'
  BY CallKeepsTypes DEF Steps
<1>2. N' = N /\ LongestBlackout' = LongestBlackout
  BY DEF N, LongestBlackout
<1>3. attempt[q] > 0 /\ Return(q)
  BY DEF Succeed, ContextEnds, Exhaust, TransportTypeOK
<1>4. Grants' = Grants - HalfOpenWait /\ HalfOpenGrants' = Grants'
  BY <1>1, <1>2, <1>3, OneFewerGrant, GrantsAreCounted DEF HalfOpenGrants, Grants
<1>5. Grants \in Nat /\ (HalfOpenGrants = Grants \/ HalfOpenGrants = Grants - HalfOpenWait)
  BY GrantsAreCounted
<1>6. refused' = refused /\ blackout' = blackout
  BY DEF Succeed, ContextEnds, Exhaust
<1>7. RefusedInTime'
  BY <1>6 DEF Succeed, ContextEnds, Exhaust, RefusedInTime, TransportTypeOK
<1>8. Pending \in 0..1 /\ Pending' \in 0..1
  BY DEF Pending
<1>9. Pending' + Remaining' <= Pending + Remaining
  <2>1. CASE circuit = "closed" /\ circuit' = "closed"
    BY <2>1, <1>4, <1>5, <1>6 DEF Pending, Remaining
  <2>2. CASE circuit = "closed" /\ circuit' = "open"
    <3>1. failureAge' = 0
      BY <2>2 DEF Succeed, ContextEnds, Exhaust
    <3> QED
      BY <2>2, <3>1, <1>4, <1>5, <1>8 DEF Pending, Remaining
  <2>3. CASE circuit = "open" /\ circuit' = "open"
    <3>1. failureAge' \in 0..HalfOpenWait
      BY <1>1 DEF TransportTypeOK
    <3> QED
      BY <2>3, <3>1, <1>4, <1>5 DEF Pending, Remaining, TransportTypeOK
  <2>4. CASE circuit = "half_open"
    <3>1. probeAge' = probeAge /\ failureAge' \in 0..HalfOpenWait
      BY <1>1 DEF Succeed, ContextEnds, Exhaust, TransportTypeOK
    <3> QED
      BY <2>4, <3>1, <1>1, <1>4, <1>5, <1>8 DEF Pending, Remaining, TransportTypeOK
  <2> QED
    BY <2>1, <2>2, <2>3, <2>4
    DEF Succeed, ContextEnds, Exhaust, TransportTypeOK
<1>10. Remaining \in Int /\ Remaining' \in Int
  BY <1>1, <1>4, <1>5 DEF Remaining, TransportTypeOK
<1>11. blackout \in Int
  BY DEF TransportTypeOK
<1>12. /\ Pending \in Int /\ Pending' \in Int
       /\ blackout \in Int /\ blackout' \in Int
  BY <1>6, <1>8, <1>11
<1>13. blackout' + Pending' + Remaining' <= blackout + Pending + Remaining
  BY <1>6, <1>9, <1>10, <1>12, SumsOfThree
<1> QED
  BY <1>1, <1>7, <1>10, <1>13, <1>12, BoundIsKept

\* A request that is let through ends a blackout.
LEMMA AllowKeepsBlackoutInv ==
    ASSUME BlackoutInv, NEW q \in Requests, AllowClosed(q) \/ AllowProbe(q)
    PROVE  BlackoutInv'
<1> USE TransportAssumption, CallersAreCounted, UnderWayIsCounted DEF BlackoutInv
<1>1. TransportTypeOK'
  BY CallKeepsTypes DEF Steps
<1>2. N' = N /\ LongestBlackout' = LongestBlackout
  BY DEF N, LongestBlackout
<1>3. n' = n + 1 /\ blackout' = 0 /\ refused' = FALSE
  BY OneMoreUnderWay DEF AllowClosed, AllowProbe, LetThrough
<1>4. RefusedInTime' /\ Pending' = 0
  BY <1>3, Zenon DEF RefusedInTime, Pending
<1>5. /\ Grants' \in Nat /\ Grants' <= N * HalfOpenWait
      /\ HalfOpenGrants' <= N * HalfOpenWait - HalfOpenWait
  <2>1. n' \in Nat /\ n' <= N
    BY <1>3 DEF AllowClosed, AllowProbe
  <2>2. Grants' = n' * HalfOpenWait
    BY DEF Grants
  <2>3. HalfOpenGrants' = IF n' < N THEN n' * HalfOpenWait ELSE (n' - 1) * HalfOpenWait
    BY <1>2 DEF HalfOpenGrants
  <2>4. CASE n' = N
    <3>1. Grants' = N * HalfOpenWait
          /\ HalfOpenGrants' = (N - 1) * HalfOpenWait
      BY <2>1, <2>2, <2>3, <2>4
    <3> QED
      BY <3>1, WaitsAddUp
  <2>5. CASE n' < N
    <3>1. Grants' = n' * HalfOpenWait /\ HalfOpenGrants' = n' * HalfOpenWait
      BY <2>1, <2>2, <2>3, <2>5
    <3>2. \A k \in Nat : k < N => /\ k * HalfOpenWait \in Nat
                                  /\ k * HalfOpenWait <= N * HalfOpenWait
                                  /\ k * HalfOpenWait <= N * HalfOpenWait - HalfOpenWait
      BY WaitsAddUp
    <3> QED
      BY <2>1, <2>5, <3>1, <3>2
  <2> QED
    BY <2>1, <2>4, <2>5
<1>6. Remaining' <= LongestBlackout
  <2>1. CASE AllowClosed(q)
    BY <2>1, <1>5, GrantsAreCounted DEF AllowClosed, Remaining, LongestBlackout, N
  <2>2. CASE AllowProbe(q)
    <3>1. HalfOpenGrants' \in Int
      BY <1>2, <1>3 DEF HalfOpenGrants
    <3>2. Remaining' = ProbeTimeout + HalfOpenWait + HalfOpenGrants'
      BY <2>2, <3>1 DEF AllowProbe, Remaining
    <3> QED
      BY <3>1, <3>2, <1>5, GrantsAreCounted DEF LongestBlackout, N
  <2> QED
    BY <2>1, <2>2
<1>7. Remaining' \in Int
  <2>1. HalfOpenGrants' \in Int
    BY <1>2, <1>3 DEF HalfOpenGrants
  <2> QED
    BY <2>1, <1>1, <1>5 DEF Remaining, TransportTypeOK
<1>8. blackout' + Pending' + Remaining' <= LongestBlackout
  <2>1. LongestBlackout \in Int
    BY CallersAreCounted
  <2> QED
    BY <1>3, <1>4, <1>6, <1>7, <2>1, SumOfOne
<1> QED
  BY <1>1, <1>2, <1>4, <1>8

\* A refusal is covered by what remains; the caller that finds the probe overdue
\* is not under way, so that every request may still grant a wait.
LEMMA RefuseKeepsBlackoutInv ==
    ASSUME BlackoutInv, NEW q \in Requests, RefuseOpen(q) \/ RefuseHalfOpen(q)
    PROVE  BlackoutInv'
<1> USE TransportAssumption, CallersAreCounted, UnderWayIsCounted DEF BlackoutInv
<1>1. TransportTypeOK'
  BY CallKeepsTypes DEF Steps
<1>2. N' = N /\ LongestBlackout' = LongestBlackout
  BY DEF N, LongestBlackout
<1>3. n' = n /\ n < N /\ blackout' = blackout /\ refused'
  BY SameUnderWay DEF RefuseOpen, RefuseHalfOpen, Refuse
<1>4. Grants' = Grants /\ HalfOpenGrants' = Grants /\ HalfOpenGrants = Grants
      /\ Grants \in Nat
  BY <1>2, <1>3, GrantsAreCounted DEF Grants, HalfOpenGrants
<1>5. circuit # "closed" /\ circuit' # "closed"
  BY DEF RefuseOpen, RefuseHalfOpen
<1>6. Pending = 0 /\ Pending' = 0
  BY <1>5, Zenon DEF Pending
<1>7. RefusedInTime'
  BY DEF RefuseOpen, RefuseHalfOpen, RefusedInTime, TransportTypeOK
<1>8. Remaining' = Remaining
  BY <1>4 DEF RefuseOpen, RefuseHalfOpen, Remaining, TransportTypeOK
<1>9. Remaining \in Int
  BY <1>4 DEF Remaining, TransportTypeOK
<1> QED
  BY <1>1, <1>2, <1>3, <1>6, <1>7, <1>8, <1>9

LEMMA RetryKeepsBlackoutInv ==
    ASSUME BlackoutInv, NEW q \in Requests, Retry(q)
    PROVE  BlackoutInv'
<1> USE TransportAssumption, CallersAreCounted, UnderWayIsCounted DEF BlackoutInv
<1>1. TransportTypeOK'
  BY CallKeepsTypes DEF Steps
<1>2. N' = N /\ LongestBlackout' = LongestBlackout
  BY DEF N, LongestBlackout
<1>3. UnderWay' = UnderWay
  BY DEF Retry, UnderWay, TransportTypeOK
<1>4. n' = n
  BY <1>3 DEF n
<1>5. Grants' = Grants /\ HalfOpenGrants' = HalfOpenGrants
  BY <1>2, <1>4 DEF Grants, HalfOpenGrants
<1>6. Remaining' = Remaining
  BY <1>5, Zenon DEF Remaining, Retry
<1>7. Pending' = Pending
  BY Zenon DEF Pending, Retry
<1>8. RefusedInTime'
  BY DEF RefusedInTime, Retry
<1> QED
  BY <1>1, <1>2, <1>6, <1>7, <1>8 DEF Retry

LEMMA StepKeepsBlackoutInv ==
    ASSUME BlackoutInv, [TransportNext]_transportVars
    PROVE  BlackoutInv'
<1>1. CASE Tick
  BY <1>1, TickKeepsBlackoutInv
<1>2. ASSUME NEW q \in Requests, Steps(q)
      PROVE  BlackoutInv'
  BY <1>2, AllowKeepsBlackoutInv, RefuseKeepsBlackoutInv, RetryKeepsBlackoutInv,
     ReturnKeepsBlackoutInv DEF Steps
<1>3. CASE UNCHANGED transportVars
  BY <1>3 DEF transportVars, BlackoutInv, TransportTypeOK, RefusedInTime, Pending,
              Remaining, Grants, HalfOpenGrants, n, N, UnderWay, LongestBlackout
<1> QED
  BY <1>1, <1>2, <1>3 DEF TransportNext, Steps

\* The breaker refuses callers for at most LongestBlackout at a stretch: a probe
\* whose outcome nobody reports is given up after its timeout, and the failures
\* of requests that started before the circuit opened restart its wait once each
\* (allow, recordSuccess, recordFailure).
THEOREM BlackoutIsAlwaysBounded == TransportSpec => []BlackoutIsBounded
<1>1. TransportInit => BlackoutInv
  <2> SUFFICES ASSUME TransportInit
               PROVE  BlackoutInv
    OBVIOUS
  <2>1. TransportTypeOK
    <3>1. refused \in BOOLEAN
      BY Zenon DEF TransportInit
    <3> QED
      BY <3>1, TransportAssumption, CallersAreCounted DEF TransportInit, TransportTypeOK
  <2>2. RefusedInTime /\ Pending = 0
    BY Zenon DEF TransportInit, RefusedInTime, Pending
  <2>3. Remaining = Grants /\ blackout = 0
    BY DEF TransportInit, Remaining
  <2>4. Grants \in Nat /\ Grants <= LongestBlackout
    BY <2>1, GrantsAreCounted, TransportAssumption DEF LongestBlackout, N
  <2> QED
    BY <2>1, <2>2, <2>3, <2>4, CallersAreCounted DEF BlackoutInv
<1>2. BlackoutInv /\ [TransportNext]_transportVars => BlackoutInv'
  BY StepKeepsBlackoutInv
<1>3. BlackoutInv => BlackoutIsBounded
  <2> SUFFICES ASSUME BlackoutInv
               PROVE  BlackoutIsBounded
    OBVIOUS
  <2>1. Pending \in Nat
    BY DEF Pending
  <2>2. Remaining \in Nat
    BY UnderWayIsCounted, GrantsAreCounted, TransportAssumption
    DEF BlackoutInv, Remaining, TransportTypeOK
  <2> QED
    BY <2>1, <2>2, CallersAreCounted DEF BlackoutInv, BlackoutIsBounded, TransportTypeOK
<1> QED
  BY <1>1, <1>2, <1>3, PTL DEF TransportSpec
-----------------------------------------------------------------------------
(***************************************************************************)
(* The parts beside each other.                                            *)
(***************************************************************************)
LEMMA ProcessStarts ==
    ProcessInit => Init /\ TransportInit /\ RegistrationsInit /\ WorkflowInit
BY DEF ProcessInit, RegistrationsAtRest, RegistrationsStart, RecordsAtRest, RecordsStart

\* A step of the whole is a step of each part, or leaves it as it was.
LEMMA ProcessSteps ==
    [ProcessNext]_processVars =>
       /\ [Next]_vars /\ [TransportNext]_transportVars
       /\ [RegistrationsNext]_registrationVars /\ [WorkflowNext]_workflowVars
BY DEF ProcessNext, processVars

(***************************************************************************)
(* The job executor, the transport, the registrations and the records of   *)
(* contributions share no state: beside the others, each has the           *)
(* behaviours of its own specification, so that what is proved of one      *)
(* holds of the process (job_executor.go, circuitbreaker.go, setup.go and  *)
(* workflow.go keep locks, files and tables of their own).                 *)
(***************************************************************************)
THEOREM ProcessComposes ==
    ProcessSpec => Spec /\ TransportSpec /\ RegistrationsSpec /\ WorkflowSpec
BY ProcessStarts, ProcessSteps, PTL
   DEF ProcessSpec, Spec, TransportSpec, RegistrationsSpec, WorkflowSpec

\* The circuit of the transport, the registrations and runtimes, and the
\* records of contributions stay well formed beside each other.
THEOREM ProcessTypeCorrect == ProcessSpec => []ProcessTypeOK
BY ProcessComposes, TransportTypeCorrect, RegistrationsTypeCorrect,
   WorkflowTypeCorrect, PTL DEF ProcessTypeOK
=============================================================================

---------------------------- MODULE InstallProofs ----------------------------
(***************************************************************************)
(* Theorems about the journaled installer, for every set of runs and every *)
(* bound on disturbances.                                                  *)
(***************************************************************************)
EXTENDS InstallInv, TLAPS

(* Process names: the kind and the run can be read off, and differ.        *)
LEMMA ProcNames ==
  /\ \A r, s \in Run : Installer(r) = Installer(s) => r = s
  /\ \A r, s \in Run : Guard(r) = Guard(s) => r = s
  /\ \A r, s \in Run : Installer(r) # Guard(s)
  /\ \A r \in Run : Installer(r) # Restorer /\ Guard(r) # Restorer
  /\ \A r \in Run : Installer(r)[1] = "install" /\ Guard(r)[1] = "guard"
  /\ Restorer[1] = "restore"
  /\ \A r \in Run : Installer(r) \in Proc /\ Guard(r) \in Proc
  /\ Restorer \in Proc
  /\ NoProc \notin Proc
  /\ \A p \in Proc : \/ \E r \in Run : p = Installer(r)
                     \/ \E r \in Run : p = Guard(r)
                     \/ p = Restorer
  BY NameAssumption DEF Installer, Guard, Restorer, Proc

(* The journal of no transaction is a journal.                             *)
LEMMA NoJournalType == NoJournal \in Journal
  BY DEF NoJournal, Journal, Phase, Flags, Stopped, Disk, Content, File

(* Updates of one journal field, one unit's flags, one file.               *)
LEMMA JournalUpdate ==
  ASSUME NEW j \in Journal
  PROVE  /\ \A x \in Phase : /\ [j EXCEPT !.phase = x] \in Journal
                            /\ [j EXCEPT !.phase = x].phase = x
                            /\ [j EXCEPT !.phase = x].fresh = j.fresh
                            /\ [j EXCEPT !.phase = x].activation_started = j.activation_started
                            /\ [j EXCEPT !.phase = x].filter_touched = j.filter_touched
                            /\ [j EXCEPT !.phase = x].prior = j.prior
                            /\ [j EXCEPT !.phase = x].backup = j.backup
         /\ [j EXCEPT !.activation_started = TRUE] \in Journal
         /\ [j EXCEPT !.filter_touched = TRUE] \in Journal
         /\ j.phase \in Phase /\ j.fresh \in BOOLEAN /\ j.activation_started \in BOOLEAN
         /\ j.filter_touched \in BOOLEAN /\ j.prior \in [Unit -> Flags] /\ j.backup \in Disk
  BY DEF Journal

(* Updates of one unit's flags and of one file stay well typed.            *)
LEMMA FlagsUpdate ==
  /\ Stopped \in Flags /\ Running \in Flags
  /\ \A f \in Flags, b \in BOOLEAN :
       [f EXCEPT !.active = b] \in Flags /\ [f EXCEPT !.enabled = b] \in Flags
  /\ \A u \in [Unit -> Flags], n \in Unit, f \in Flags : [u EXCEPT ![n] = f] \in [Unit -> Flags]
  /\ \A d \in Disk, f \in File, c \in Content : [d EXCEPT ![f] = c] \in Disk
  /\ \A d \in Disk, f \in File : d[f] \in Content
  /\ \A f \in Flags : f.enabled \in BOOLEAN /\ f.active \in BOOLEAN
  BY DEF Flags, Stopped, Running, Disk

(* A disturbance happens only below the bound, so the count stays in       *)
(* range.                                                                  *)
LEMMA Counted == ASSUME EnvOK, NEW k, Disturb(k) PROVE faults' \in 0..MaxFaults
  BY FaultAssumption DEF EnvOK, Disturb

(* The named paths, units and contents belong to their sets.               *)
LEMMA Names ==
  /\ {Cli, Plugin, FilterUnit, Lifecycle, RestoreUnit, TimerUnit, State, Config} \subseteq File
  /\ {"filter", "restore", "timer"} \subseteq Unit
  /\ Run \subseteq Content /\ {Absent, Old, Cleared, Edited} \subseteq Content
  BY DEF File, Unit, Content, Cli, Plugin, FilterUnit, Lifecycle, RestoreUnit, TimerUnit, State, Config

(* Every initial state satisfies the invariant.                            *)
LEMMA InitBase == Init => BaseInv
  <1> SUFFICES ASSUME Init PROVE BaseInv
    OBVIOUS
  <1> USE DEF Init
  <1>1. disk \in Disk /\ unit \in [Unit -> Flags] /\ loaded \in Content
    <2>1. Nothing \in Disk /\ Installed \in Disk /\ Legacy \in Disk
      BY DEF Nothing, Installed, Legacy, Disk, Content
    <2>2. Stopped \in Flags /\ Running \in Flags
      BY DEF Stopped, Running, Flags
    <2>3. \A f \in Flags, b \in BOOLEAN, t \in Flags : FlagsOf(f, b, t) \in [Unit -> Flags]
      BY DEF FlagsOf, Unit, Flags
    <2>4. unit \in [Unit -> Flags]
      <3>1. PICK f \in Flags, b \in BOOLEAN, t \in Flags : unit = FlagsOf(f, b, t)
        BY <2>2 DEF InitHost
      <3>2. QED BY <2>3, <3>1
    <2>5. QED
      BY <2>1, <2>4 DEF Content, InitHost
  <1>2. TypeOK
    BY <1>1, NoJournalType, FaultAssumption DEF TypeOK, HostOK, TxnOK, ProcOK, EnvOK, Label, File
  <1>3. LabelInv /\ LockInv
    BY ProcNames DEF LabelInv, LockInv, InstallerLabel, GuardLabel, RestorerLabel,
       LockedLabel, ApplyLabel, RollbackLabel
  <1>4. TxnInv /\ OwnerInv
    BY ProcNames DEF TxnInv, OwnerInv, OneTransaction, ApplyLabel, RollbackLabel
  <1>5. QED
    BY <1>2, <1>3, <1>4 DEF BaseInv

(* A step of an installer keeps files, unit flags and the loaded plugin    *)
(* well typed.                                                             *)
LEMMA HostInstaller ==
  ASSUME BaseInv, NEW r \in Run, InstallerStep(r)
  PROVE  HostOK'
  <1> USE FlagsUpdate, Names DEF BaseInv, TypeOK, HostOK, Goto, host, txn, procs, env
  <1>0. /\ \A n \in Unit : unit[n] \in Flags
        /\ \A f \in File : disk[f] \in Content
    BY DEF HostOK, Disk
  <1>1. CASE PublishHelper(r)
    <2>1. todo[Installer(r)] \in File
      BY <1>1, ProcNames DEF ProcOK
    <2>2. QED BY <1>1, <2>1 DEF PublishHelper, Publish
  <1>2. CASE RetireTimer(r)
    BY <1>0, <1>2 DEF RetireTimer
  <1>3. CASE EnableRestore(r)
    BY <1>0, <1>3 DEF EnableRestore
  <1>4. CASE PublishProgram(r)
    <2>1. todo[Installer(r)] \in File
      BY <1>4, ProcNames DEF ProcOK
    <2>2. QED BY <1>4, <2>1 DEF PublishProgram, Publish
  <1>5. CASE Activate(r)
    BY <1>0, <1>5 DEF Activate
  <1>6. CASE RestartFilter(r)
    BY <1>0, <1>6 DEF RestartFilter
  <1>7. CASE Prepare(r) \/ Arm(r) \/ SpawnGuard(r) \/ Switch(r) \/ Commit(r)
          \/ Cleanup(r) \/ Abort(r)
    BY <1>7 DEF Prepare, Arm, SpawnGuard, Switch, Commit, Cleanup, Leave, Remove, Abort
  <1>8. QED BY <1>1, <1>2, <1>3, <1>4, <1>5, <1>6, <1>7 DEF InstallerStep

(* A step of recover or rollback, in any process, keeps files, unit flags  *)
(* and the loaded plugin well typed.                                       *)
LEMMA HostRecovery ==
  ASSUME BaseInv, NEW p \in Proc, RecoveryStep(p)
  PROVE  HostOK'
  <1> USE FlagsUpdate, Names DEF BaseInv, TypeOK, HostOK, Goto, host, txn, procs, env
  <1>0. /\ \A n \in Unit : unit[n] \in Flags
        /\ \A f \in File : disk[f] \in Content
    BY DEF HostOK, Disk
  <1>j. pc[p] \in RolledBack => target[p] \in Run /\ journal[target[p]] \in Journal
    BY DEF OwnerInv, TxnOK, RolledBack, RollbackLabel
  <1>k. pc[p] \in RolledBack => /\ journal[target[p]].prior \in [Unit -> Flags]
                               /\ journal[target[p]].backup \in Disk
    BY <1>j, JournalUpdate
  <1>1. CASE RbOff(p)
    <2>1. CASE CliOff
      <3>1. CASE EffectPresent
        <4>1. PICK c \in Content : disk' = [disk EXCEPT ![Config] = Absent, ![State] = c]
          BY <1>0, <2>1, <3>1 DEF CliOff
        <4>2. unit' = [unit EXCEPT !["filter"] = Stopped] /\ loaded' = Absent
          BY <2>1, <3>1 DEF CliOff
        <4>3. disk' \in Disk /\ unit' \in [Unit -> Flags] /\ loaded' \in Content
          BY <4>1, <4>2
        <4>4. QED BY <4>3
      <3>2. CASE ~EffectPresent
        BY <2>1, <3>2 DEF CliOff
      <3>3. QED BY <3>1, <3>2
    <2>2. CASE /\ unit' = [unit EXCEPT !["filter"].active = FALSE]
               /\ loaded' = Absent
               /\ UNCHANGED disk
      <3>1. unit' \in [Unit -> Flags]
        BY <1>0, <2>2
      <3>2. QED BY <2>2, <3>1
    <2>3. CASE UNCHANGED host
      BY <2>3
    <2>4. QED BY <1>1, <2>1, <2>2, <2>3 DEF RbOff
  <1>2. CASE RbAux(p)
    BY <1>0, <1>k, <1>2 DEF RbAux, Quieted, RolledBack, Flags
  <1>3. CASE RbFile(p)
    <2>1. todo[p] \in File /\ journal[target[p]].backup[todo[p]] \in Content
      BY <1>k, <1>3 DEF RbFile, ProcOK, RolledBack, Disk
    <2>2. QED BY <1>3, <2>1 DEF RbFile
  <1>4. CASE RbFlags(p)
    <2>1. PICK prior \in [Unit -> Flags] : unit' = [u \in Unit |-> IF u = "filter" THEN unit[u]
                   ELSE [enabled |-> prior[u].enabled,
                         active  |-> unit[u].active \/ prior[u].active]]
      BY <1>k, <1>4 DEF RbFlags, RolledBack
    <2>2. \A f, g \in Flags : [enabled |-> g.enabled, active |-> f.active \/ g.active] \in Flags
      BY DEF Flags
    <2>3. unit' \in [Unit -> Flags]
      BY <1>0, <2>1, <2>2
    <2>4. QED BY <1>4, <2>3 DEF RbFlags
  <1>5. CASE RbFilter(p)
    BY <1>0, <1>k, <1>5 DEF RbFilter, RolledBack
  <1>6. CASE Scan(p) \/ Scanned(p) \/ RbRead(p) \/ RbSave(p) \/ Rmtree(p)
          \/ RollbackRaises(p)
    BY <1>6 DEF Scan, Scanned, RbRead, Applying, RbSave, Rmtree, Leave, Remove,
       AfterRollback, RollbackRaises
  <1>7. QED BY <1>1, <1>2, <1>3, <1>4, <1>5, <1>6 DEF RecoveryStep

(* A disturbance of an installer keeps files, unit flags and the loaded    *)
(* plugin well typed.                                                      *)
LEMMA HostFault ==
  ASSUME BaseInv, NEW r \in Run, InstallFault(r)
  PROVE  HostOK'
  <1> USE FlagsUpdate, Names DEF BaseInv, TypeOK, HostOK, Goto, host, txn, procs, env
  <1>0. /\ \A n \in Unit : unit[n] \in Flags
        /\ \A f \in File : disk[f] \in Content
    BY DEF HostOK, Disk
  <1>1. CASE ActivateFails(r)
    <2>1. PICK c \in Content, s \in Content, a \in BOOLEAN :
            /\ disk' = [disk EXCEPT ![Config] = c, ![State] = s]
            /\ unit' = [unit EXCEPT !["filter"] = IF a THEN Running ELSE Stopped]
            /\ loaded' = IF a THEN disk[Plugin] ELSE Absent
      BY <1>0, <1>1 DEF ActivateFails
    <2>2. QED BY <1>0, <2>1
  <1>2. CASE RestartFails(r)
    BY <1>0, <1>2 DEF RestartFails, Disturb
  <1>3. CASE InstallFails(r) \/ CommitGap(r) \/ CleanupFails(r)
          \/ KillLeavingChild(r)
    BY <1>3 DEF InstallFails, Disturb, CommitGap, CleanupFails, Leave, KillLeavingChild,
       Dies
  <1>4. QED BY <1>1, <1>2, <1>3 DEF InstallFault

(* Starting an installer, its guard's wake-up and check, its orphan, keeps *)
(* files, unit flags and the loaded plugin well typed.                     *)
LEMMA HostRun ==
  ASSUME BaseInv, NEW r \in Run, RunStep(r)
  PROVE  HostOK'
  <1> USE FlagsUpdate, Names DEF BaseInv, TypeOK, HostOK, Goto, host, txn, procs, env
  <1>0. /\ \A n \in Unit : unit[n] \in Flags
        /\ \A f \in File : disk[f] \in Content
    BY DEF HostOK, Disk
  <1>1. CASE OrphanActs(r)
    BY <1>0, <1>1 DEF OrphanActs
  <1>2. CASE StartInstall(r) \/ GuardWakes(r) \/ Check(r)
    BY <1>2 DEF StartInstall, GuardWakes, Check, Leave
  <1>3. QED BY <1>1, <1>2 DEF RunStep

(* Taking the lock, failing or dying keeps files, unit flags and the       *)
(* loaded plugin well typed.                                               *)
LEMMA HostProc ==
  ASSUME BaseInv, NEW p \in Proc, ProcStep(p)
  PROVE  HostOK'
  <1> USE FlagsUpdate, Names DEF BaseInv, TypeOK, HostOK, Goto, host, txn, procs, env
  <1>1. CASE Acquire(p) \/ RecoveryFails(p) \/ Kill(p)
    BY <1>1 DEF Acquire, RecoveryFails, Disturb, Leave, Kill, Dies
  <1>2. QED BY <1>1 DEF ProcStep

(* The oneshot's own steps, crashes, bounces and mix keeps files, unit     *)
(* flags and the loaded plugin well typed.                                 *)
LEMMA HostEnv ==
  ASSUME BaseInv, EnvStep
  PROVE  HostOK'
  <1> USE FlagsUpdate, Names DEF BaseInv, TypeOK, HostOK, Goto, host, txn, procs, env
  <1>0. /\ \A n \in Unit : unit[n] \in Flags
        /\ \A f \in File : disk[f] \in Content
    BY DEF HostOK, Disk
  <1>1. CASE BringUpFilter
    <2>1. CASE UNCHANGED <<unit, loaded>>
      BY <1>1, <2>1 DEF BringUpFilter
    <2>2. CASE ~UNCHANGED <<unit, loaded>>
      <3>1. PICK a \in BOOLEAN :
              /\ unit' = [unit EXCEPT !["filter"] =
                           [enabled |-> @.enabled \/ ~@.active, active |-> a]]
              /\ loaded' = IF a THEN disk[Plugin] ELSE Absent
              /\ UNCHANGED disk
        BY <1>1, <2>2 DEF BringUpFilter
      <3>2. [enabled |-> unit["filter"].enabled \/ ~unit["filter"].active, active |-> a] \in Flags
        BY <1>0 DEF Flags
      <3>3. QED BY <1>0, <3>1, <3>2
    <2>3. QED BY <2>1, <2>2
  <1>2. CASE Crash
    <2>1. PICK a \in BOOLEAN :
            /\ unit' = [unit EXCEPT !["filter"].active = a,
                                    !["timer"].active = unit["timer"].enabled]
            /\ loaded' = IF a THEN disk[Plugin] ELSE Absent
            /\ UNCHANGED disk
      BY <1>0, <1>2 DEF Crash
    <2>2. QED BY <1>0, <2>1
  <1>3. CASE FilterBounces
    BY <1>0, <1>3 DEF FilterBounces, Disturb
  <1>4. CASE SetMix
    BY <1>0, <1>4 DEF SetMix, Disturb
  <1>5. CASE StartRestore
    BY <1>5 DEF StartRestore
  <1>6. QED BY <1>1, <1>2, <1>3, <1>4, <1>5 DEF EnvStep

(* A step of an installer keeps directories, journals and commits well     *)
(* typed.                                                                  *)
LEMMA TxnInstaller ==
  ASSUME BaseInv, NEW r \in Run, InstallerStep(r)
  PROVE  TxnOK'
  <1> USE NoJournalType DEF BaseInv, TypeOK, TxnOK, Goto, host, txn, procs, env
  <1>0. journal[r] \in Journal
    BY DEF TxnOK
  <1>1. CASE Prepare(r)
    BY <1>1 DEF Prepare, Journal, Phase, HostOK, Flags
  <1>2. CASE Arm(r)
    BY <1>0, <1>2, JournalUpdate DEF Arm, Phase
  <1>3. CASE Switch(r)
    <2>1. PICK j \in Journal : journal' = [journal EXCEPT ![r] = j]
      <3>1. \/ journal' = journal
            \/ journal' = [journal EXCEPT ![r] = [journal[r] EXCEPT !.activation_started = TRUE]]
            \/ journal' = [journal EXCEPT ![r] = [journal[r] EXCEPT !.filter_touched = TRUE]]
        BY <1>3 DEF Switch
      <3>2. journal = [journal EXCEPT ![r] = journal[r]]
        BY DEF TxnOK
      <3>3. QED BY <1>0, <3>1, <3>2, JournalUpdate
    <2>2. journal' \in [Run -> Journal]
      BY <2>1
    <2>3. QED BY <1>3, <2>2 DEF Switch
  <1>4. CASE Commit(r)
    <2>1. PICK j \in Journal : journal' = [journal EXCEPT ![r] = j]
      <3>1. [journal[r] EXCEPT !.phase = "committed"] \in Journal
        BY <1>0, JournalUpdate DEF Phase
      <3>2. QED BY <1>4, <3>1 DEF Commit
    <2>2. journal' \in [Run -> Journal] /\ committed' \subseteq Run
      BY <1>4, <2>1 DEF Commit
    <2>3. QED BY <1>4, <2>2 DEF Commit
  <1>5. CASE SpawnGuard(r) \/ PublishHelper(r) \/ RetireTimer(r)
          \/ EnableRestore(r) \/ PublishProgram(r) \/ Activate(r)
          \/ RestartFilter(r) \/ Cleanup(r) \/ Abort(r)
    BY <1>5 DEF SpawnGuard, PublishHelper, Publish, RetireTimer, EnableRestore,
       PublishProgram, Activate, RestartFilter, Cleanup, Leave, Remove, Abort
  <1>6. QED BY <1>1, <1>2, <1>3, <1>4, <1>5 DEF InstallerStep

(* A step of recover or rollback, in any process, keeps directories,       *)
(* journals and commits well typed.                                        *)
LEMMA TxnRecovery ==
  ASSUME BaseInv, NEW p \in Proc, RecoveryStep(p)
  PROVE  TxnOK'
  <1> USE NoJournalType DEF BaseInv, TypeOK, TxnOK, Goto, host, txn, procs, env
  <1>1. CASE RbSave(p)
    <2>1. target[p] \in Run /\ journal[target[p]] \in Journal
      BY <1>1 DEF RbSave, OwnerInv, RollbackLabel
    <2>2. QED BY <1>1, <2>1, JournalUpdate DEF RbSave, Phase
  <1>2. CASE Scan(p) \/ Scanned(p) \/ RbRead(p) \/ RbOff(p) \/ RbAux(p)
          \/ RbFile(p) \/ RbFlags(p) \/ RbFilter(p) \/ Rmtree(p)
          \/ RollbackRaises(p)
    BY <1>2 DEF Scan, Scanned, RbRead, Applying, RbOff, RbAux, RbFile, RbFlags, RbFilter,
       Rmtree, Leave, Remove, AfterRollback, RollbackRaises
  <1>3. QED BY <1>1, <1>2 DEF RecoveryStep

(* A disturbance of an installer keeps directories, journals and commits   *)
(* well typed.                                                             *)
LEMMA TxnFault ==
  ASSUME BaseInv, NEW r \in Run, InstallFault(r)
  PROVE  TxnOK'
  <1> USE NoJournalType DEF BaseInv, TypeOK, TxnOK, Goto, host, txn, procs, env
  <1>0. journal[r] \in Journal
    BY DEF TxnOK
  <1>1. CASE CommitGap(r)
    BY <1>0, <1>1, JournalUpdate DEF CommitGap, Phase
  <1>2. CASE InstallFails(r) \/ ActivateFails(r) \/ RestartFails(r)
          \/ CleanupFails(r) \/ KillLeavingChild(r)
    BY <1>2 DEF InstallFails, Disturb, ActivateFails, RestartFails, CleanupFails, Leave,
       KillLeavingChild, Dies
  <1>3. QED BY <1>1, <1>2 DEF InstallFault

(* Starting an installer, its guard's wake-up and check, its orphan, keeps *)
(* directories, journals and commits well typed.                           *)
LEMMA TxnRun ==
  ASSUME BaseInv, NEW r \in Run, RunStep(r)
  PROVE  TxnOK'
  <1> USE NoJournalType DEF BaseInv, TypeOK, TxnOK, Goto, host, txn, procs, env
  <1>1. CASE StartInstall(r) \/ GuardWakes(r) \/ Check(r) \/ OrphanActs(r)
    BY <1>1 DEF StartInstall, GuardWakes, Check, Leave, OrphanActs
  <1>2. QED BY <1>1 DEF RunStep

(* Taking the lock, failing or dying keeps directories, journals and       *)
(* commits well typed.                                                     *)
LEMMA TxnProc ==
  ASSUME BaseInv, NEW p \in Proc, ProcStep(p)
  PROVE  TxnOK'
  <1> USE NoJournalType DEF BaseInv, TypeOK, TxnOK, Goto, host, txn, procs, env
  <1>1. CASE Acquire(p) \/ RecoveryFails(p) \/ Kill(p)
    BY <1>1 DEF Acquire, RecoveryFails, Disturb, Leave, Kill, Dies
  <1>2. QED BY <1>1 DEF ProcStep

(* The oneshot's own steps, crashes, bounces and mix keeps directories,    *)
(* journals and commits well typed.                                        *)
LEMMA TxnEnv ==
  ASSUME BaseInv, EnvStep
  PROVE  TxnOK'
  <1> USE NoJournalType DEF BaseInv, TypeOK, TxnOK, Goto, host, txn, procs, env
  <1>1. CASE StartRestore \/ BringUpFilter \/ Crash \/ FilterBounces \/ SetMix
    BY <1>1 DEF StartRestore, BringUpFilter, Leave, Crash, Disturb, FilterBounces, SetMix
  <1>2. QED BY <1>1 DEF EnvStep

(* A step of an installer keeps the lock, the labels, targets and file     *)
(* indices well typed.                                                     *)
LEMMA ProcInstaller ==
  ASSUME BaseInv, NEW r \in Run, InstallerStep(r)
  PROVE  ProcOK'
  <1> USE ProcNames, Names DEF BaseInv, TypeOK, ProcOK, Goto, host, txn, procs, env, Label,
       LockedLabel, ApplyLabel, RollbackLabel, EndLabel
  <1>1. CASE PublishHelper(r)
    <2>1. todo[Installer(r)] \in {3, 4}
      BY <1>1 DEF PublishHelper, Publish, OwnerInv, Lifecycle, RestoreUnit
    <2>2. todo' \in [Proc -> File]
      BY <1>1, <2>1 DEF PublishHelper, Publish, RestoreUnit, File
    <2>3. QED BY <1>1, <2>2 DEF PublishHelper, Publish
  <1>2. CASE PublishProgram(r)
    <2>1. todo[Installer(r)] \in {0, 1, 2}
      BY <1>2 DEF PublishProgram, Publish, OwnerInv, Cli, Plugin, FilterUnit
    <2>2. todo' \in [Proc -> File]
      BY <1>2, <2>1 DEF PublishProgram, Publish, FilterUnit, File
    <2>3. QED BY <1>2, <2>2 DEF PublishProgram, Publish
  <1>3. CASE Prepare(r) \/ Arm(r) \/ SpawnGuard(r) \/ RetireTimer(r)
          \/ EnableRestore(r) \/ Switch(r) \/ Activate(r) \/ RestartFilter(r)
          \/ Commit(r) \/ Cleanup(r) \/ Abort(r)
    BY <1>3 DEF Prepare, Arm, SpawnGuard, RetireTimer, EnableRestore, Switch, Activate,
       RestartFilter, Commit, Cleanup, Leave, Remove, Abort
  <1>4. QED BY <1>1, <1>2, <1>3 DEF InstallerStep

(* A step of recover or rollback, in any process, keeps the lock, the      *)
(* labels, targets and file indices well typed.                            *)
LEMMA ProcRecovery ==
  ASSUME BaseInv, NEW p \in Proc, RecoveryStep(p)
  PROVE  ProcOK'
  <1> USE ProcNames, Names DEF BaseInv, TypeOK, ProcOK, Goto, host, txn, procs, env, Label,
       LockedLabel, ApplyLabel, RollbackLabel, EndLabel
  <1>1. CASE Scan(p)
    BY <1>1 DEF Scan, TxnOK
  <1>2. CASE RbFile(p)
    <2>1. todo' \in [Proc -> File]
      BY <1>2 DEF RbFile, File
    <2>2. QED BY <1>2, <2>1 DEF RbFile
  <1>3. CASE Scanned(p) \/ RbRead(p) \/ RbOff(p) \/ RbAux(p) \/ RbFlags(p)
          \/ RbFilter(p) \/ RbSave(p) \/ Rmtree(p) \/ RollbackRaises(p)
    BY <1>3 DEF Scanned, RbRead, Applying, RbOff, RbAux, RbFlags, RbFilter, RbSave, Rmtree,
       Leave, Remove, AfterRollback, RollbackRaises
  <1>4. QED BY <1>1, <1>2, <1>3 DEF RecoveryStep

(* A disturbance of an installer keeps the lock, the labels, targets and   *)
(* file indices well typed.                                                *)
LEMMA ProcFault ==
  ASSUME BaseInv, NEW r \in Run, InstallFault(r)
  PROVE  ProcOK'
  <1> USE ProcNames DEF BaseInv, TypeOK, ProcOK, Goto, host, txn, procs, env, Label,
       LockedLabel, ApplyLabel, RollbackLabel, EndLabel
  <1>1. CASE InstallFails(r) \/ ActivateFails(r) \/ RestartFails(r)
          \/ CommitGap(r) \/ CleanupFails(r) \/ KillLeavingChild(r)
    BY <1>1 DEF InstallFails, Disturb, ActivateFails, RestartFails, CommitGap,
       CleanupFails, Leave, KillLeavingChild, Dies
  <1>2. QED BY <1>1 DEF InstallFault

(* Starting an installer, its guard's wake-up and check, its orphan, keeps *)
(* the lock, the labels, targets and file indices well typed.              *)
LEMMA ProcRun ==
  ASSUME BaseInv, NEW r \in Run, RunStep(r)
  PROVE  ProcOK'
  <1> USE ProcNames DEF BaseInv, TypeOK, ProcOK, Goto, host, txn, procs, env, Label,
       LockedLabel, ApplyLabel, RollbackLabel, EndLabel
  <1>1. CASE StartInstall(r) \/ GuardWakes(r) \/ Check(r) \/ OrphanActs(r)
    BY <1>1 DEF StartInstall, GuardWakes, Check, Leave, OrphanActs
  <1>2. QED BY <1>1 DEF RunStep

(* Taking the lock, failing or dying keeps the lock, the labels, targets   *)
(* and file indices well typed.                                            *)
LEMMA ProcProc ==
  ASSUME BaseInv, NEW p \in Proc, ProcStep(p)
  PROVE  ProcOK'
  <1> USE ProcNames DEF BaseInv, TypeOK, ProcOK, Goto, host, txn, procs, env, Label,
       LockedLabel, ApplyLabel, RollbackLabel, EndLabel
  <1>1. CASE Acquire(p) \/ RecoveryFails(p) \/ Kill(p)
    BY <1>1 DEF Acquire, RecoveryFails, Disturb, Leave, Kill, Dies
  <1>2. QED BY <1>1 DEF ProcStep

(* The oneshot's own steps, crashes, bounces and mix keeps the lock, the   *)
(* labels, targets and file indices well typed.                            *)
LEMMA ProcEnv ==
  ASSUME BaseInv, EnvStep
  PROVE  ProcOK'
  <1> USE ProcNames DEF BaseInv, TypeOK, ProcOK, Goto, host, txn, procs, env, Label,
       LockedLabel, ApplyLabel, RollbackLabel, EndLabel
  <1>1. CASE StartRestore \/ BringUpFilter \/ Crash \/ FilterBounces \/ SetMix
    BY <1>1 DEF StartRestore, BringUpFilter, Leave, Crash, Disturb, FilterBounces, SetMix
  <1>2. QED BY <1>1 DEF EnvStep

(* A step of an installer keeps the orphans and the count of disturbances  *)
(* well typed.                                                             *)
LEMMA EnvInstaller ==
  ASSUME BaseInv, NEW r \in Run, InstallerStep(r)
  PROVE  EnvOK'
  <1> USE Counted DEF BaseInv, TypeOK, EnvOK, Goto, host, txn, procs, env
  <1>1. CASE Prepare(r) \/ Arm(r) \/ SpawnGuard(r) \/ PublishHelper(r)
          \/ RetireTimer(r) \/ EnableRestore(r) \/ PublishProgram(r)
          \/ Switch(r) \/ Activate(r) \/ RestartFilter(r) \/ Commit(r)
          \/ Cleanup(r) \/ Abort(r)
    BY <1>1 DEF Prepare, Arm, SpawnGuard, PublishHelper, Publish, RetireTimer,
       EnableRestore, PublishProgram, Switch, Activate, RestartFilter, Commit, Cleanup,
       Leave, Remove, Abort
  <1>2. QED BY <1>1 DEF InstallerStep

(* A step of recover or rollback, in any process, keeps the orphans and    *)
(* the count of disturbances well typed.                                   *)
LEMMA EnvRecovery ==
  ASSUME BaseInv, NEW p \in Proc, RecoveryStep(p)
  PROVE  EnvOK'
  <1> USE Counted DEF BaseInv, TypeOK, EnvOK, Goto, host, txn, procs, env
  <1>1. CASE Scan(p) \/ Scanned(p) \/ RbRead(p) \/ RbOff(p) \/ RbAux(p)
          \/ RbFile(p) \/ RbFlags(p) \/ RbFilter(p) \/ RbSave(p) \/ Rmtree(p)
          \/ RollbackRaises(p)
    BY <1>1 DEF Scan, Scanned, RbRead, Applying, RbOff, RbAux, RbFile, RbFlags, RbFilter,
       RbSave, Rmtree, Leave, Remove, AfterRollback, RollbackRaises
  <1>2. QED BY <1>1 DEF RecoveryStep

(* A disturbance of an installer keeps the orphans and the count of        *)
(* disturbances well typed.                                                *)
LEMMA EnvFault ==
  ASSUME BaseInv, NEW r \in Run, InstallFault(r)
  PROVE  EnvOK'
  <1> USE Counted DEF BaseInv, TypeOK, EnvOK, Goto, host, txn, procs, env
  <1>1. CASE InstallFails(r) \/ ActivateFails(r) \/ RestartFails(r)
          \/ CommitGap(r) \/ CleanupFails(r) \/ KillLeavingChild(r)
    BY <1>1 DEF InstallFails, Disturb, ActivateFails, RestartFails, CommitGap,
       CleanupFails, Leave, KillLeavingChild, Dies
  <1>2. QED BY <1>1 DEF InstallFault

(* Starting an installer, its guard's wake-up and check, its orphan, keeps *)
(* the orphans and the count of disturbances well typed.                   *)
LEMMA EnvRun ==
  ASSUME BaseInv, NEW r \in Run, RunStep(r)
  PROVE  EnvOK'
  <1> USE Counted DEF BaseInv, TypeOK, EnvOK, Goto, host, txn, procs, env
  <1>1. CASE StartInstall(r) \/ GuardWakes(r) \/ Check(r) \/ OrphanActs(r)
    BY <1>1 DEF StartInstall, GuardWakes, Check, Leave, OrphanActs
  <1>2. QED BY <1>1 DEF RunStep

(* Taking the lock, failing or dying keeps the orphans and the count of    *)
(* disturbances well typed.                                                *)
LEMMA EnvProc ==
  ASSUME BaseInv, NEW p \in Proc, ProcStep(p)
  PROVE  EnvOK'
  <1> USE Counted DEF BaseInv, TypeOK, EnvOK, Goto, host, txn, procs, env
  <1>1. CASE Acquire(p) \/ RecoveryFails(p) \/ Kill(p)
    BY <1>1 DEF Acquire, RecoveryFails, Disturb, Leave, Kill, Dies
  <1>2. QED BY <1>1 DEF ProcStep

(* The oneshot's own steps, crashes, bounces and mix keeps the orphans and *)
(* the count of disturbances well typed.                                   *)
LEMMA EnvEnv ==
  ASSUME BaseInv, EnvStep
  PROVE  EnvOK'
  <1> USE Counted DEF BaseInv, TypeOK, EnvOK, Goto, host, txn, procs, env
  <1>1. CASE StartRestore \/ BringUpFilter \/ Crash \/ FilterBounces \/ SetMix
    BY <1>1 DEF StartRestore, BringUpFilter, Leave, Crash, Disturb, FilterBounces, SetMix
  <1>2. QED BY <1>1 DEF EnvStep

(* A step of an installer keeps every process in its own part of the       *)
(* program, and the lock with the one process that is inside `with         *)
(* locked(base)`.                                                          *)
LEMMA LabelInstaller ==
  ASSUME BaseInv, NEW r \in Run, InstallerStep(r)
  PROVE  LabelInv' /\ LockInv'
  <1> USE ProcNames DEF BaseInv, TypeOK, TxnOK, ProcOK, Goto, host, env, txn, procs,
       LabelInv, LockInv, LockedLabel, ApplyLabel, RollbackLabel, EndLabel, InstallerLabel,
       GuardLabel, RestorerLabel
  <1>1. CASE Prepare(r)
    BY <1>1 DEF Prepare
  <1>2. CASE Arm(r)
    BY <1>2 DEF Arm
  <1>3. CASE SpawnGuard(r)
    BY <1>3 DEF SpawnGuard
  <1>4. CASE PublishHelper(r)
    BY <1>4 DEF PublishHelper, Publish
  <1>5. CASE RetireTimer(r)
    BY <1>5 DEF RetireTimer
  <1>6. CASE EnableRestore(r)
    BY <1>6 DEF EnableRestore
  <1>7. CASE PublishProgram(r)
    BY <1>7 DEF PublishProgram, Publish
  <1>8. CASE Switch(r)
    BY <1>8 DEF Switch
  <1>9. CASE Activate(r)
    BY <1>9 DEF Activate
  <1>10. CASE RestartFilter(r)
    BY <1>10 DEF RestartFilter
  <1>11. CASE Commit(r)
    BY <1>11 DEF Commit
  <1>12. CASE Cleanup(r)
    BY <1>12 DEF Cleanup, Leave, Remove
  <1>13. CASE Abort(r)
    BY <1>13 DEF Abort
  <1>14. QED BY <1>1, <1>2, <1>3, <1>4, <1>5, <1>6, <1>7, <1>8, <1>9, <1>10, <1>11, <1>12,
       <1>13 DEF InstallerStep

(* A step of recover or rollback, in any process, keeps every process in   *)
(* its own part of the program, and the lock with the one process that is  *)
(* inside `with locked(base)`.                                             *)
LEMMA LabelRecovery ==
  ASSUME BaseInv, NEW p \in Proc, RecoveryStep(p)
  PROVE  LabelInv' /\ LockInv'
  <1> USE ProcNames DEF BaseInv, TypeOK, TxnOK, ProcOK, Goto, host, env, txn, procs,
       LabelInv, LockInv, LockedLabel, ApplyLabel, RollbackLabel, EndLabel, InstallerLabel,
       GuardLabel, RestorerLabel
  <1>1. CASE Scan(p)
    BY <1>1 DEF Scan
  <1>2. CASE Scanned(p)
    BY <1>2 DEF Scanned
  <1>3. CASE RbRead(p)
    BY <1>3 DEF RbRead, Applying
  <1>4. CASE RbOff(p)
    BY <1>4 DEF RbOff
  <1>5. CASE RbAux(p)
    BY <1>5 DEF RbAux
  <1>6. CASE RbFile(p)
    BY <1>6 DEF RbFile
  <1>7. CASE RbFlags(p)
    BY <1>7 DEF RbFlags
  <1>8. CASE RbFilter(p)
    BY <1>8 DEF RbFilter
  <1>9. CASE RbSave(p)
    BY <1>9 DEF RbSave
  <1>10. CASE Rmtree(p)
    BY <1>10 DEF Rmtree, Leave, Remove, AfterRollback, Forced, OwnerInv, AfterRollback
  <1>11. CASE RollbackRaises(p)
    BY <1>11 DEF RollbackRaises, Leave
  <1>12. QED BY <1>1, <1>2, <1>3, <1>4, <1>5, <1>6, <1>7, <1>8, <1>9, <1>10, <1>11 DEF RecoveryStep

(* A disturbance of an installer keeps every process in its own part of    *)
(* the program, and the lock with the one process that is inside `with     *)
(* locked(base)`.                                                          *)
LEMMA LabelFault ==
  ASSUME BaseInv, NEW r \in Run, InstallFault(r)
  PROVE  LabelInv' /\ LockInv'
  <1> USE ProcNames DEF BaseInv, TypeOK, TxnOK, ProcOK, Goto, host, env, txn, procs,
       LabelInv, LockInv, LockedLabel, ApplyLabel, RollbackLabel, EndLabel, InstallerLabel,
       GuardLabel, RestorerLabel
  <1>1. CASE InstallFails(r)
    BY <1>1 DEF InstallFails, Disturb
  <1>2. CASE ActivateFails(r)
    BY <1>2 DEF ActivateFails, Disturb
  <1>3. CASE RestartFails(r)
    BY <1>3 DEF RestartFails, Disturb
  <1>4. CASE CommitGap(r)
    BY <1>4 DEF CommitGap, Disturb
  <1>5. CASE CleanupFails(r)
    BY <1>5 DEF CleanupFails, Disturb, Leave
  <1>6. CASE KillLeavingChild(r)
    BY <1>6 DEF KillLeavingChild, Disturb, Dies
  <1>7. QED BY <1>1, <1>2, <1>3, <1>4, <1>5, <1>6 DEF InstallFault

(* Starting an installer, its guard's wake-up and check, its orphan, keeps *)
(* every process in its own part of the program, and the lock with the one *)
(* process that is inside `with locked(base)`.                             *)
LEMMA LabelRun ==
  ASSUME BaseInv, NEW r \in Run, RunStep(r)
  PROVE  LabelInv' /\ LockInv'
  <1> USE ProcNames DEF BaseInv, TypeOK, TxnOK, ProcOK, Goto, host, env, txn, procs,
       LabelInv, LockInv, LockedLabel, ApplyLabel, RollbackLabel, EndLabel, InstallerLabel,
       GuardLabel, RestorerLabel
  <1>1. CASE StartInstall(r)
    BY <1>1 DEF StartInstall
  <1>2. CASE GuardWakes(r)
    BY <1>2 DEF GuardWakes
  <1>3. CASE Check(r)
    BY <1>3 DEF Check, Leave
  <1>4. CASE OrphanActs(r)
    BY <1>4 DEF OrphanActs
  <1>5. QED BY <1>1, <1>2, <1>3, <1>4 DEF RunStep

(* Taking the lock, failing or dying keeps every process in its own part   *)
(* of the program, and the lock with the one process that is inside `with  *)
(* locked(base)`.                                                          *)
LEMMA LabelProc ==
  ASSUME BaseInv, NEW p \in Proc, ProcStep(p)
  PROVE  LabelInv' /\ LockInv'
  <1> USE ProcNames DEF BaseInv, TypeOK, TxnOK, ProcOK, Goto, host, env, txn, procs,
       LabelInv, LockInv, LockedLabel, ApplyLabel, RollbackLabel, EndLabel, InstallerLabel,
       GuardLabel, RestorerLabel
  <1>1. CASE Acquire(p)
    BY <1>1 DEF Acquire
  <1>2. CASE RecoveryFails(p)
    BY <1>2 DEF RecoveryFails, Disturb, Leave
  <1>3. CASE Kill(p)
    BY <1>3 DEF Kill, Disturb, Dies
  <1>4. QED BY <1>1, <1>2, <1>3 DEF ProcStep

(* The oneshot's own steps, crashes, bounces and mix keeps every process   *)
(* in its own part of the program, and the lock with the one process that  *)
(* is inside `with locked(base)`.                                          *)
LEMMA LabelEnv ==
  ASSUME BaseInv, EnvStep
  PROVE  LabelInv' /\ LockInv'
  <1> USE ProcNames DEF BaseInv, TypeOK, TxnOK, ProcOK, Goto, host, env, txn, procs,
       LabelInv, LockInv, LockedLabel, ApplyLabel, RollbackLabel, EndLabel, InstallerLabel,
       GuardLabel, RestorerLabel
  <1>1. CASE StartRestore
    BY <1>1 DEF StartRestore
  <1>2. CASE BringUpFilter
    BY <1>2 DEF BringUpFilter, Leave
  <1>3. CASE Crash
    BY <1>3 DEF Crash, Disturb
  <1>4. CASE FilterBounces
    BY <1>4 DEF FilterBounces, Disturb
  <1>5. CASE SetMix
    BY <1>5 DEF SetMix, Disturb
  <1>6. QED BY <1>1, <1>2, <1>3, <1>4, <1>5 DEF EnvStep

(* A step of an installer keeps the journal of a missing directory empty,  *)
(* the directory unique and a committed run resolved.                      *)
LEMMA TransactionInstaller ==
  ASSUME BaseInv, NEW r \in Run, InstallerStep(r)
  PROVE  TxnInv'
  <1> USE ProcNames, JournalUpdate DEF BaseInv, TypeOK, TxnOK, ProcOK, Goto, host, env,
       txn, procs, LabelInv, LockInv, OwnerInv, TxnInv, OneTransaction, Applying,
       LockedLabel, ApplyLabel, RollbackLabel, EndLabel, InstallerLabel, GuardLabel,
       RestorerLabel
  <1>1. CASE Prepare(r)
    BY <1>1 DEF Prepare
  <1>2. CASE Arm(r)
    BY <1>2 DEF Arm
  <1>3. CASE SpawnGuard(r)
    BY <1>3 DEF SpawnGuard
  <1>4. CASE PublishHelper(r)
    BY <1>4 DEF PublishHelper, Publish
  <1>5. CASE RetireTimer(r)
    BY <1>5 DEF RetireTimer
  <1>6. CASE EnableRestore(r)
    BY <1>6 DEF EnableRestore
  <1>7. CASE PublishProgram(r)
    BY <1>7 DEF PublishProgram, Publish
  <1>8. CASE Switch(r)
    BY <1>8 DEF Switch
  <1>9. CASE Activate(r)
    BY <1>9 DEF Activate
  <1>10. CASE RestartFilter(r)
    BY <1>10 DEF RestartFilter
  <1>11. CASE Commit(r)
    BY <1>11 DEF Commit
  <1>12. CASE Cleanup(r)
    <2>1. r \in Run /\ dirs = {r}
      BY <1>12 DEF Cleanup
    <2>2. /\ dirs' = {}
          /\ journal' = [journal EXCEPT ![r] = NoJournal]
      BY <1>12, <2>1 DEF Cleanup, Remove
    <2>3. NoJournal.phase = "none"
      BY DEF NoJournal
    <2>4. /\ \A s \in Run : s \notin dirs' => journal'[s] = NoJournal
          /\ \A s \in committed : journal'[s].phase # "applying"
      BY <2>1, <2>2, <2>3
    <2>5. QED BY <1>12, <2>2, <2>4 DEF Cleanup, Leave, Remove
  <1>13. CASE Abort(r)
    BY <1>13 DEF Abort
  <1>14. QED BY <1>1, <1>2, <1>3, <1>4, <1>5, <1>6, <1>7, <1>8, <1>9, <1>10, <1>11, <1>12,
       <1>13 DEF InstallerStep

(* A step of recover or rollback, in any process, keeps the journal of a   *)
(* missing directory empty, the directory unique and a committed run       *)
(* resolved.                                                               *)
LEMMA TransactionRecovery ==
  ASSUME BaseInv, NEW p \in Proc, RecoveryStep(p)
  PROVE  TxnInv'
  <1> USE ProcNames, JournalUpdate DEF BaseInv, TypeOK, TxnOK, ProcOK, Goto, host, env,
       txn, procs, LabelInv, LockInv, OwnerInv, TxnInv, OneTransaction, Applying,
       LockedLabel, ApplyLabel, RollbackLabel, EndLabel, InstallerLabel, GuardLabel,
       RestorerLabel
  <1>1. CASE Scan(p)
    BY <1>1 DEF Scan
  <1>2. CASE Scanned(p)
    BY <1>2 DEF Scanned
  <1>3. CASE RbRead(p)
    BY <1>3 DEF RbRead, Applying
  <1>4. CASE RbOff(p)
    BY <1>4 DEF RbOff
  <1>5. CASE RbAux(p)
    BY <1>5 DEF RbAux
  <1>6. CASE RbFile(p)
    BY <1>6 DEF RbFile
  <1>7. CASE RbFlags(p)
    BY <1>7 DEF RbFlags
  <1>8. CASE RbFilter(p)
    BY <1>8 DEF RbFilter
  <1>9. CASE RbSave(p)
    BY <1>9 DEF RbSave
  <1>10. CASE Rmtree(p)
    <2>1. target[p] \in Run /\ dirs = {target[p]}
      BY <1>10 DEF Rmtree
    <2>2. /\ dirs' = {}
          /\ journal' = [journal EXCEPT ![target[p]] = NoJournal]
      BY <1>10, <2>1 DEF Rmtree, Remove
    <2>3. NoJournal.phase = "none"
      BY DEF NoJournal
    <2>4. /\ \A s \in Run : s \notin dirs' => journal'[s] = NoJournal
          /\ \A s \in committed : journal'[s].phase # "applying"
      BY <2>1, <2>2, <2>3
    <2>5. QED BY <1>10, <2>2, <2>4 DEF Rmtree, Leave, Remove, AfterRollback
  <1>11. CASE RollbackRaises(p)
    BY <1>11 DEF RollbackRaises, Leave
  <1>12. QED BY <1>1, <1>2, <1>3, <1>4, <1>5, <1>6, <1>7, <1>8, <1>9, <1>10, <1>11 DEF RecoveryStep

(* A disturbance of an installer keeps the journal of a missing directory  *)
(* empty, the directory unique and a committed run resolved.               *)
LEMMA TransactionFault ==
  ASSUME BaseInv, NEW r \in Run, InstallFault(r)
  PROVE  TxnInv'
  <1> USE ProcNames, JournalUpdate DEF BaseInv, TypeOK, TxnOK, ProcOK, Goto, host, env,
       txn, procs, LabelInv, LockInv, OwnerInv, TxnInv, OneTransaction, Applying,
       LockedLabel, ApplyLabel, RollbackLabel, EndLabel, InstallerLabel, GuardLabel,
       RestorerLabel
  <1>1. CASE InstallFails(r)
    BY <1>1 DEF InstallFails, Disturb
  <1>2. CASE ActivateFails(r)
    BY <1>2 DEF ActivateFails, Disturb
  <1>3. CASE RestartFails(r)
    BY <1>3 DEF RestartFails, Disturb
  <1>4. CASE CommitGap(r)
    BY <1>4 DEF CommitGap, Disturb
  <1>5. CASE CleanupFails(r)
    BY <1>5 DEF CleanupFails, Disturb, Leave
  <1>6. CASE KillLeavingChild(r)
    BY <1>6 DEF KillLeavingChild, Disturb, Dies
  <1>7. QED BY <1>1, <1>2, <1>3, <1>4, <1>5, <1>6 DEF InstallFault

(* Starting an installer, its guard's wake-up and check, its orphan, keeps *)
(* the journal of a missing directory empty, the directory unique and a    *)
(* committed run resolved.                                                 *)
LEMMA TransactionRun ==
  ASSUME BaseInv, NEW r \in Run, RunStep(r)
  PROVE  TxnInv'
  <1> USE ProcNames, JournalUpdate DEF BaseInv, TypeOK, TxnOK, ProcOK, Goto, host, env,
       txn, procs, LabelInv, LockInv, OwnerInv, TxnInv, OneTransaction, Applying,
       LockedLabel, ApplyLabel, RollbackLabel, EndLabel, InstallerLabel, GuardLabel,
       RestorerLabel
  <1>1. CASE StartInstall(r)
    BY <1>1 DEF StartInstall
  <1>2. CASE GuardWakes(r)
    BY <1>2 DEF GuardWakes
  <1>3. CASE Check(r)
    BY <1>3 DEF Check, Leave
  <1>4. CASE OrphanActs(r)
    BY <1>4 DEF OrphanActs
  <1>5. QED BY <1>1, <1>2, <1>3, <1>4 DEF RunStep

(* Taking the lock, failing or dying keeps the journal of a missing        *)
(* directory empty, the directory unique and a committed run resolved.     *)
LEMMA TransactionProc ==
  ASSUME BaseInv, NEW p \in Proc, ProcStep(p)
  PROVE  TxnInv'
  <1> USE ProcNames, JournalUpdate DEF BaseInv, TypeOK, TxnOK, ProcOK, Goto, host, env,
       txn, procs, LabelInv, LockInv, OwnerInv, TxnInv, OneTransaction, Applying,
       LockedLabel, ApplyLabel, RollbackLabel, EndLabel, InstallerLabel, GuardLabel,
       RestorerLabel
  <1>1. CASE Acquire(p)
    BY <1>1 DEF Acquire
  <1>2. CASE RecoveryFails(p)
    BY <1>2 DEF RecoveryFails, Disturb, Leave
  <1>3. CASE Kill(p)
    BY <1>3 DEF Kill, Disturb, Dies
  <1>4. QED BY <1>1, <1>2, <1>3 DEF ProcStep

(* The oneshot's own steps, crashes, bounces and mix keeps the journal of  *)
(* a missing directory empty, the directory unique and a committed run     *)
(* resolved.                                                               *)
LEMMA TransactionEnv ==
  ASSUME BaseInv, EnvStep
  PROVE  TxnInv'
  <1> USE ProcNames, JournalUpdate DEF BaseInv, TypeOK, TxnOK, ProcOK, Goto, host, env,
       txn, procs, LabelInv, LockInv, OwnerInv, TxnInv, OneTransaction, Applying,
       LockedLabel, ApplyLabel, RollbackLabel, EndLabel, InstallerLabel, GuardLabel,
       RestorerLabel
  <1>1. CASE StartRestore
    BY <1>1 DEF StartRestore
  <1>2. CASE BringUpFilter
    BY <1>2 DEF BringUpFilter, Leave
  <1>3. CASE Crash
    BY <1>3 DEF Crash, Disturb
  <1>4. CASE FilterBounces
    BY <1>4 DEF FilterBounces, Disturb
  <1>5. CASE SetMix
    BY <1>5 DEF SetMix, Disturb
  <1>6. QED BY <1>1, <1>2, <1>3, <1>4, <1>5 DEF EnvStep

(* A step of an installer keeps the transaction in the hands of the        *)
(* process that holds the lock.                                            *)
LEMMA OwnerInstaller ==
  ASSUME BaseInv, NEW r \in Run, InstallerStep(r)
  PROVE  OwnerInv'
  <1> USE ProcNames, JournalUpdate DEF BaseInv, TypeOK, TxnOK, ProcOK, Goto, host, env,
       txn, procs, RolledBack, LabelInv, LockInv, OwnerInv, TxnInv, OneTransaction,
       Applying, Saved, Forced, Cli, Plugin, FilterUnit, Lifecycle, RestoreUnit,
       LockedLabel, ApplyLabel, RollbackLabel, EndLabel, InstallerLabel, GuardLabel,
       RestorerLabel
  <1>1. CASE Prepare(r)
    BY <1>1 DEF Prepare
  <1>2. CASE Arm(r)
    BY <1>2 DEF Arm
  <1>3. CASE SpawnGuard(r)
    BY <1>3 DEF SpawnGuard
  <1>4. CASE PublishHelper(r)
    BY <1>4 DEF PublishHelper, Publish
  <1>5. CASE RetireTimer(r)
    BY <1>5 DEF RetireTimer
  <1>6. CASE EnableRestore(r)
    BY <1>6 DEF EnableRestore
  <1>7. CASE PublishProgram(r)
    BY <1>7 DEF PublishProgram, Publish
  <1>8. CASE Switch(r)
    <2>1. \A s \in Run : journal'[s].phase = journal[s].phase
      <3>1. journal[r] \in Journal
        BY DEF TxnOK
      <3>2. [journal[r] EXCEPT !.activation_started = TRUE].phase = journal[r].phase
        BY <3>1 DEF Journal
      <3>3. [journal[r] EXCEPT !.filter_touched = TRUE].phase = journal[r].phase
        BY <3>1 DEF Journal
      <3>4. \/ journal' = journal
            \/ journal' = [journal EXCEPT ![r] = [journal[r] EXCEPT !.activation_started = TRUE]]
            \/ journal' = [journal EXCEPT ![r] = [journal[r] EXCEPT !.filter_touched = TRUE]]
        BY <1>8 DEF Switch
      <3>5. CASE journal' = journal
        BY <3>5
      <3>6. CASE journal' = [journal EXCEPT ![r] = [journal[r] EXCEPT !.activation_started = TRUE]]
        BY <3>2, <3>6
      <3>7. CASE journal' = [journal EXCEPT ![r] = [journal[r] EXCEPT !.filter_touched = TRUE]]
        BY <3>3, <3>7
      <3>8. QED BY <3>4, <3>5, <3>6, <3>7
    <2>2. QED BY <1>8, <2>1 DEF Switch
  <1>9. CASE Activate(r)
    BY <1>9 DEF Activate
  <1>10. CASE RestartFilter(r)
    BY <1>10 DEF RestartFilter
  <1>11. CASE Commit(r)
    BY <1>11 DEF Commit
  <1>12. CASE Cleanup(r)
    BY <1>12 DEF Cleanup, Leave, Remove
  <1>13. CASE Abort(r)
    BY <1>13 DEF Abort
  <1>14. QED BY <1>1, <1>2, <1>3, <1>4, <1>5, <1>6, <1>7, <1>8, <1>9, <1>10, <1>11, <1>12,
       <1>13 DEF InstallerStep

(* A step of recover or rollback, in any process, keeps the transaction in *)
(* the hands of the process that holds the lock.                           *)
LEMMA OwnerRecovery ==
  ASSUME BaseInv, NEW p \in Proc, RecoveryStep(p)
  PROVE  OwnerInv'
  <1> USE ProcNames, JournalUpdate DEF BaseInv, TypeOK, TxnOK, ProcOK, Goto, host, env,
       txn, procs, RolledBack, LabelInv, LockInv, OwnerInv, TxnInv, OneTransaction,
       Applying, Saved, Forced, Cli, Plugin, FilterUnit, Lifecycle, RestoreUnit,
       LockedLabel, ApplyLabel, RollbackLabel, EndLabel, InstallerLabel, GuardLabel,
       RestorerLabel
  <1>1. CASE Scan(p)
    <2>1. PICK r \in dirs : /\ target' = [target EXCEPT ![p] = r]
                           /\ pc' = [pc EXCEPT ![p] = IF Saved(r) THEN "rb_read" ELSE "rmtree"]
      BY <1>1 DEF Scan
    <2>2. dirs = {r}
      BY DEF OneTransaction
    <2>3. QED BY <1>1, <2>1, <2>2 DEF Scan
  <1>2. CASE Scanned(p)
    BY <1>2 DEF Scanned
  <1>3. CASE RbRead(p)
    BY <1>3 DEF RbRead, Applying
  <1>4. CASE RbOff(p)
    BY <1>4 DEF RbOff
  <1>5. CASE RbAux(p)
    BY <1>5 DEF RbAux
  <1>6. CASE RbFile(p)
    BY <1>6 DEF RbFile
  <1>7. CASE RbFlags(p)
    BY <1>7 DEF RbFlags
  <1>8. CASE RbFilter(p)
    BY <1>8 DEF RbFilter
  <1>9. CASE RbSave(p)
    BY <1>9 DEF RbSave
  <1>10. CASE Rmtree(p)
    BY <1>10 DEF Rmtree, Leave, Remove, AfterRollback
  <1>11. CASE RollbackRaises(p)
    BY <1>11 DEF RollbackRaises, Leave
  <1>12. QED BY <1>1, <1>2, <1>3, <1>4, <1>5, <1>6, <1>7, <1>8, <1>9, <1>10, <1>11 DEF RecoveryStep

(* A disturbance of an installer keeps the transaction in the hands of the *)
(* process that holds the lock.                                            *)
LEMMA OwnerFault ==
  ASSUME BaseInv, NEW r \in Run, InstallFault(r)
  PROVE  OwnerInv'
  <1> USE ProcNames, JournalUpdate DEF BaseInv, TypeOK, TxnOK, ProcOK, Goto, host, env,
       txn, procs, RolledBack, LabelInv, LockInv, OwnerInv, TxnInv, OneTransaction,
       Applying, Saved, Forced, Cli, Plugin, FilterUnit, Lifecycle, RestoreUnit,
       LockedLabel, ApplyLabel, RollbackLabel, EndLabel, InstallerLabel, GuardLabel,
       RestorerLabel
  <1>1. CASE InstallFails(r)
    BY <1>1 DEF InstallFails, Disturb
  <1>2. CASE ActivateFails(r)
    BY <1>2 DEF ActivateFails, Disturb
  <1>3. CASE RestartFails(r)
    BY <1>3 DEF RestartFails, Disturb
  <1>4. CASE CommitGap(r)
    BY <1>4 DEF CommitGap, Disturb
  <1>5. CASE CleanupFails(r)
    BY <1>5 DEF CleanupFails, Disturb, Leave
  <1>6. CASE KillLeavingChild(r)
    BY <1>6 DEF KillLeavingChild, Disturb, Dies
  <1>7. QED BY <1>1, <1>2, <1>3, <1>4, <1>5, <1>6 DEF InstallFault

(* Starting an installer, its guard's wake-up and check, its orphan, keeps *)
(* the transaction in the hands of the process that holds the lock.        *)
LEMMA OwnerRun ==
  ASSUME BaseInv, NEW r \in Run, RunStep(r)
  PROVE  OwnerInv'
  <1> USE ProcNames, JournalUpdate DEF BaseInv, TypeOK, TxnOK, ProcOK, Goto, host, env,
       txn, procs, RolledBack, LabelInv, LockInv, OwnerInv, TxnInv, OneTransaction,
       Applying, Saved, Forced, Cli, Plugin, FilterUnit, Lifecycle, RestoreUnit,
       LockedLabel, ApplyLabel, RollbackLabel, EndLabel, InstallerLabel, GuardLabel,
       RestorerLabel
  <1>1. CASE StartInstall(r)
    BY <1>1 DEF StartInstall
  <1>2. CASE GuardWakes(r)
    BY <1>2 DEF GuardWakes
  <1>3. CASE Check(r)
    BY <1>3 DEF Check, Leave
  <1>4. CASE OrphanActs(r)
    BY <1>4 DEF OrphanActs
  <1>5. QED BY <1>1, <1>2, <1>3, <1>4 DEF RunStep

(* Taking the lock, failing or dying keeps the transaction in the hands of *)
(* the process that holds the lock.                                        *)
LEMMA OwnerProc ==
  ASSUME BaseInv, NEW p \in Proc, ProcStep(p)
  PROVE  OwnerInv'
  <1> USE ProcNames, JournalUpdate DEF BaseInv, TypeOK, TxnOK, ProcOK, Goto, host, env,
       txn, procs, RolledBack, LabelInv, LockInv, OwnerInv, TxnInv, OneTransaction,
       Applying, Saved, Forced, Cli, Plugin, FilterUnit, Lifecycle, RestoreUnit,
       LockedLabel, ApplyLabel, RollbackLabel, EndLabel, InstallerLabel, GuardLabel,
       RestorerLabel
  <1>1. CASE Acquire(p)
    BY <1>1 DEF Acquire
  <1>2. CASE RecoveryFails(p)
    BY <1>2 DEF RecoveryFails, Disturb, Leave
  <1>3. CASE Kill(p)
    BY <1>3 DEF Kill, Disturb, Dies
  <1>4. QED BY <1>1, <1>2, <1>3 DEF ProcStep

(* The oneshot's own steps, crashes, bounces and mix keeps the transaction *)
(* in the hands of the process that holds the lock.                        *)
LEMMA OwnerEnv ==
  ASSUME BaseInv, EnvStep
  PROVE  OwnerInv'
  <1> USE ProcNames, JournalUpdate DEF BaseInv, TypeOK, TxnOK, ProcOK, Goto, host, env,
       txn, procs, RolledBack, LabelInv, LockInv, OwnerInv, TxnInv, OneTransaction,
       Applying, Saved, Forced, Cli, Plugin, FilterUnit, Lifecycle, RestoreUnit,
       LockedLabel, ApplyLabel, RollbackLabel, EndLabel, InstallerLabel, GuardLabel,
       RestorerLabel
  <1>1. CASE StartRestore
    BY <1>1 DEF StartRestore
  <1>2. CASE BringUpFilter
    BY <1>2 DEF BringUpFilter, Leave
  <1>3. CASE Crash
    BY <1>3 DEF Crash, Disturb
  <1>4. CASE FilterBounces
    BY <1>4 DEF FilterBounces, Disturb
  <1>5. CASE SetMix
    BY <1>5 DEF SetMix, Disturb
  <1>6. QED BY <1>1, <1>2, <1>3, <1>4, <1>5 DEF EnvStep

(* Every step preserves the invariant: one step per group of actions, each *)
(* from the seven lemmas about that group.                                 *)
LEMMA NextBase ==
  ASSUME BaseInv, [Next]_vars
  PROVE  BaseInv'
  <1>1. ASSUME NEW r \in Run, InstallerStep(r) PROVE BaseInv'
    BY <1>1, HostInstaller, TxnInstaller, ProcInstaller, EnvInstaller, LabelInstaller,
       TransactionInstaller, OwnerInstaller DEF BaseInv, TypeOK
  <1>2. ASSUME NEW r \in Run, InstallFault(r) PROVE BaseInv'
    BY <1>2, HostFault, TxnFault, ProcFault, EnvFault, LabelFault,
       TransactionFault, OwnerFault DEF BaseInv, TypeOK
  <1>3. ASSUME NEW r \in Run, RunStep(r) PROVE BaseInv'
    BY <1>3, HostRun, TxnRun, ProcRun, EnvRun, LabelRun,
       TransactionRun, OwnerRun DEF BaseInv, TypeOK
  <1>4. ASSUME NEW p \in Proc, RecoveryStep(p) PROVE BaseInv'
    BY <1>4, HostRecovery, TxnRecovery, ProcRecovery, EnvRecovery, LabelRecovery,
       TransactionRecovery, OwnerRecovery DEF BaseInv, TypeOK
  <1>5. ASSUME NEW p \in Proc, ProcStep(p) PROVE BaseInv'
    BY <1>5, HostProc, TxnProc, ProcProc, EnvProc, LabelProc,
       TransactionProc, OwnerProc DEF BaseInv, TypeOK
  <1>6. ASSUME EnvStep PROVE BaseInv'
    BY <1>6, HostEnv, TxnEnv, ProcEnv, EnvEnv, LabelEnv,
       TransactionEnv, OwnerEnv DEF BaseInv, TypeOK
  <1>7. CASE UNCHANGED vars
    BY <1>7 DEF vars, BaseInv, TypeOK, HostOK, TxnOK, ProcOK, EnvOK, LabelInv, LockInv,
       TxnInv, OneTransaction, OwnerInv, Applying, Saved
  <1>8. QED BY <1>1, <1>2, <1>3, <1>4, <1>5, <1>6, <1>7 DEF Next

(* The invariant holds in every reachable state, for every set of runs and *)
(* every selection and number of disturbances.                             *)
THEOREM BaseInvariant == Spec => []BaseInv
  <1>1. QED BY InitBase, NextBase, PTL DEF Spec

(* Every variable stays in its type.                                       *)
THEOREM TypeCorrect == Spec => []TypeOK
  <1>1. BaseInv => TypeOK
    BY DEF BaseInv
  <1>2. QED BY <1>1, BaseInvariant, PTL

(* However many installers, guards and oneshots contend, fail and die, at  *)
(* most one transaction exists: recover empties the directory before the   *)
(* next mkdtemp, and nobody else makes one.                                *)
THEOREM OneTransactionHolds == Spec => []OneTransaction
  <1>1. BaseInv => OneTransaction
    BY DEF BaseInv, TxnInv
  <1>2. QED BY <1>1, BaseInvariant, PTL

(* A directory disappears only in the hands of a process whose transaction *)
(* is not pending: by the rmtree that follows a commit, a completed        *)
(* rollback, or the finding that nothing was ever journaled.               *)
LEMMA DirsShrink ==
  ASSUME BaseInv, [Next]_vars, NEW r \in dirs, r \notin dirs'
  PROVE  ~Applying(r)
  <1> USE ProcNames DEF BaseInv, TypeOK, Goto, host, txn, procs, env, OwnerInv, Remove
  <1>1. ASSUME NEW s \in Run, InstallerStep(s) PROVE ~Applying(r)
    <2>1. CASE Cleanup(s)
      BY <2>1 DEF Cleanup, Applying
    <2>2. CASE ~Cleanup(s)
      BY <1>1, <2>2 DEF InstallerStep, Prepare, Arm, SpawnGuard, PublishHelper, Publish,
         RetireTimer, EnableRestore, PublishProgram, Switch, Activate, RestartFilter,
         Commit, Abort
    <2>3. QED BY <2>1, <2>2
  <1>2. ASSUME NEW s \in Run, InstallFault(s) PROVE ~Applying(r)
    BY <1>2 DEF InstallFault, InstallFails, ActivateFails, RestartFails, CommitGap,
       CleanupFails, KillLeavingChild, Dies
  <1>3. ASSUME NEW s \in Run, RunStep(s) PROVE ~Applying(r)
    BY <1>3 DEF RunStep, StartInstall, GuardWakes, Check, OrphanActs
  <1>4. ASSUME NEW p \in Proc, RecoveryStep(p) PROVE ~Applying(r)
    <2>1. CASE Rmtree(p)
      <3>1. pc[p] = "rmtree" /\ dirs = {target[p]} /\ ~Applying(target[p])
        BY <2>1 DEF Rmtree, RollbackLabel
      <3>2. QED BY <3>1
    <2>2. CASE ~Rmtree(p)
      BY <1>4, <2>2 DEF RecoveryStep, Scan, Scanned, RbRead, RbOff, RbAux, RbFile, RbFlags,
         RbFilter, RbSave, RollbackRaises
    <2>3. QED BY <2>1, <2>2
  <1>5. ASSUME NEW p \in Proc, ProcStep(p) PROVE ~Applying(r)
    BY <1>5 DEF ProcStep, Acquire, RecoveryFails, Kill, Dies
  <1>6. CASE EnvStep
    BY <1>6 DEF EnvStep, StartRestore, BringUpFilter, Crash, FilterBounces, SetMix
  <1>7. CASE UNCHANGED vars
    BY <1>7 DEF vars
  <1>8. QED BY <1>1, <1>2, <1>3, <1>4, <1>5, <1>6, <1>7 DEF Next

(* The only copy of the previous files survives every step of every        *)
(* process as long as the journal beside it says "applying".               *)
THEOREM BackupsSurvive == Spec => BackupsOutliveApplying
  <1>1. BaseInv /\ [Next]_vars => [\A r \in Pending : r \in dirs']_vars
    BY DirsShrink DEF Pending
  <1>2. QED BY <1>1, BaseInvariant, PTL DEF Spec, BackupsOutliveApplying

(* What the guard of a committed run does in a step without a disturbance: *)
(* nothing on the machine, and at most the deletion of its own directory.  *)
LEMMA GuardOfCommitted ==
  ASSUME BaseInv, [Next]_vars, NEW r \in committed, GuardMoves(r), faults' = faults
  PROVE  UNCHANGED host /\ dirs \ {r} \subseteq dirs'
  <1> USE ProcNames DEF BaseInv, TypeOK, ProcOK, TxnOK, EnvOK, GuardMoves, Goto, host, txn, procs, env
  <1>0. r \in Run
    BY DEF TxnOK
  <1>1. ASSUME NEW s \in Run, InstallerStep(s) PROVE UNCHANGED host /\ dirs' = dirs
    <2>1. \/ pc'[Guard(r)] = pc[Guard(r)] /\ todo'[Guard(r)] = todo[Guard(r)]
          \/ SpawnGuard(s)
      BY <1>0, <1>1 DEF InstallerStep, Prepare, Arm, PublishHelper, Publish, RetireTimer,
         EnableRestore, PublishProgram, Switch, Activate, RestartFilter, Commit, Cleanup,
         Leave, Abort
    <2>2. QED BY <2>1 DEF SpawnGuard
  <1>2. ASSUME NEW s \in Run, InstallFault(s) PROVE FALSE
    BY <1>2 DEF InstallFault, InstallFails, ActivateFails, RestartFails, CommitGap,
       CleanupFails, KillLeavingChild, Disturb
  <1>3. ASSUME NEW s \in Run, RunStep(s) PROVE UNCHANGED host /\ dirs' = dirs
    <2>1. \/ pc'[Guard(r)] = pc[Guard(r)] /\ todo'[Guard(r)] = todo[Guard(r)]
          \/ GuardWakes(s) \/ Check(s)
      BY <1>0, <1>3 DEF RunStep, StartInstall, OrphanActs
    <2>2. QED BY <2>1 DEF GuardWakes, Check
  <1>4. ASSUME NEW p \in Proc, RecoveryStep(p) PROVE UNCHANGED host /\ dirs \ {r} \subseteq dirs'
    <2>1. p = Guard(r)
      BY <1>0, <1>4 DEF RecoveryStep, Scan, Scanned, RbRead, RbOff, RbAux, RbFile, RbFlags,
         RbFilter, RbSave, Rmtree, Leave, RollbackRaises
    <2>2. pc[p] \in RollbackLabel \ RolledBack => pc[p] \in {"rb_read", "rmtree"}
      BY DEF RollbackLabel, RolledBack
    <2>3. pc[p] \notin RolledBack \cup {"scan"}
      BY <1>0, <2>1 DEF OwnerInv, LabelInv, GuardLabel, RollbackLabel, EndLabel
    <2>4. RbRead(p) \/ Rmtree(p)
      BY <1>4, <2>3 DEF RecoveryStep, Scan, Scanned, RbOff, RbAux, RbFile, RbFlags,
         RbFilter, RbSave, RollbackRaises, RolledBack
    <2>5. pc[p] = "rmtree" => target[p] = r
      BY <1>0, <2>1 DEF OwnerInv, RollbackLabel
    <2>6. QED BY <2>4, <2>5 DEF RbRead, Rmtree, Remove
  <1>5. ASSUME NEW p \in Proc, ProcStep(p) PROVE UNCHANGED host /\ dirs' = dirs
    BY <1>5 DEF ProcStep, Acquire, RecoveryFails, Kill, Dies
  <1>6. CASE EnvStep
    BY <1>0, <1>6 DEF EnvStep, StartRestore, BringUpFilter, Leave, Crash, FilterBounces, SetMix, Disturb
  <1>7. CASE UNCHANGED vars
    BY <1>7 DEF vars
  <1>8. QED BY <1>1, <1>2, <1>3, <1>4, <1>5, <1>6, <1>7 DEF Next

(* A guard that is late - its run has committed, and later runs may have   *)
(* come and gone - leaves the machine and other transactions alone.        *)
THEOREM LateGuardIsInert == Spec => LateGuardInert
  <1>1. BaseInv /\ [Next]_vars =>
          [\A r \in committed : GuardMoves(r) /\ faults' = faults
             => UNCHANGED host /\ dirs \ {r} \subseteq dirs']_vars
    BY GuardOfCommitted
  <1>2. QED BY <1>1, BaseInvariant, PTL DEF Spec, LateGuardInert
==============================================================================

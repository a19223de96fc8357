------------------------- MODULE InstallAtomicProofs -------------------------
(***************************************************************************)
(* The installer as its user sees it, for every set of runs and every      *)
(* number of failures, kills and power cuts: the machine never stays with  *)
(* two releases mixed, a run that did not commit leaves nothing behind,    *)
(* and Install implements AtomicInstall.                                   *)
(*                                                                         *)
(* BaseInv (InstallProofs) says who may move and for which transaction;    *)
(* AtomicInv says what the files, the units and the journal look like      *)
(* wherever that process may be interrupted.                               *)
(***************************************************************************)
EXTENDS InstallProofs

(* The other disturbances do not happen.                                   *)
LEMMA Undisturbed ==
  ASSUME OnlyFailures
  PROVE  /\ \A r \in Run : ~CommitGap(r) /\ ~KillLeavingChild(r)
         /\ ~FilterBounces /\ ~SetMix
  BY DEF OnlyFailures, CommitGap, KillLeavingChild, FilterBounces, SetMix, Disturb

(* While one process is at a label of the lock, no other is.               *)
LEMMA Alone ==
  ASSUME BaseInv, NEW p \in Proc, pc[p] \in LockedLabel
  PROVE  \A q \in Proc \ {p} : pc[q] \notin LockedLabel
  BY DEF BaseInv, LockInv

(* The typing facts that the steps below keep needing.                     *)
LEMMA Typed ==
  ASSUME BaseInv
  PROVE  /\ disk \in Disk /\ \A f \in File : disk[f] \in Content
         /\ unit \in [Unit -> Flags] /\ \A u \in Unit : unit[u] \in Flags
         /\ dirs \subseteq Run /\ committed \subseteq Run
         /\ journal \in [Run -> Journal]
         /\ pc \in [Proc -> Label] /\ target \in [Proc -> Run \cup {NoRun}]
         /\ todo \in [Proc -> File]
         /\ \A r \in Run : /\ journal[r].prior \in [Unit -> Flags]
                           /\ \A u \in Unit : journal[r].prior[u] \in Flags
                           /\ journal[r].backup \in Disk
                           /\ journal[r].fresh \in BOOLEAN
                           /\ journal[r].activation_started \in BOOLEAN
                           /\ journal[r].filter_touched \in BOOLEAN
  <1>1. TypeOK
    BY DEF BaseInv
  <1>2. journal \in [Run -> Journal]
    BY <1>1 DEF TypeOK, TxnOK
  <1>3. \A r \in Run : /\ journal[r].prior \in [Unit -> Flags]
                       /\ journal[r].backup \in Disk
                       /\ journal[r].fresh \in BOOLEAN
                       /\ journal[r].activation_started \in BOOLEAN
                       /\ journal[r].filter_touched \in BOOLEAN
    BY <1>2, JournalUpdate
  <1>4. QED
    BY <1>1, <1>2, <1>3 DEF TypeOK, HostOK, TxnOK, ProcOK, Disk

(* A process that neither publishes nor rolls back is bound by nothing.    *)
LEMMA Elsewhere ==
  /\ \A p \in Proc : pc'[p] \notin RollbackLabel \cup {"abort"} => PhaseAt(p)' /\ RollbackAt(p)'
  /\ \A r \in Run : pc'[Installer(r)] \notin ApplyLabel => PublishAt(r)'
  BY DEF PhaseAt, RollbackAt, PublishAt, RolledBack, RollbackLabel, ApplyLabel, Unswitched

-----------------------------------------------------------------------------
(***************************************************************************)
(* The data: journals, backups and files.                                  *)
(***************************************************************************)
DataInv == JournalInv /\ BackupInv /\ NeverMixed /\ NoTrace

(* Steps that change neither a file nor a transaction.                     *)
LEMMA DataFrame ==
  ASSUME DataInv, UNCHANGED <<disk, txn>>
  PROVE  DataInv'
  BY DEF DataInv, JournalInv, BackupInv, NeverMixed, NoTrace, Pending, Applying, txn

(* Steps that change files under a pending journal: to the version of its  *)
(* run, to what `id14-sr off` leaves, or back to the copy in the backup.   *)
LEMMA DataPending ==
  ASSUME DataInv, UNCHANGED txn, NEW r \in Run, r \in dirs, Applying(r),
         \A f \in File : disk'[f] \in {disk[f], r, Absent, Cleared, journal[r].backup[f]}
  PROVE  DataInv'
  <1>1. JournalInv' /\ BackupInv'
    BY DEF DataInv, JournalInv, BackupInv, txn
  <1>2. NeverMixed'
    BY DEF NeverMixed, Pending, Applying, txn
  <1>3. NoTrace'
    <2> SUFFICES ASSUME NEW s \in Run \ committed, ~Applying(s), NEW f \in File
                 PROVE  disk'[f] # s
      BY DEF NoTrace, Applying, txn
    <2>1. s # r /\ s # Absent /\ s # Cleared
      BY ContentAssumption
    <2>2. disk[f] # s
      BY DEF DataInv, NoTrace
    <2>3. journal[r].backup[f] # s
      BY DEF DataInv, BackupInv
    <2>4. QED BY <2>1, <2>2, <2>3
  <1>4. QED BY <1>1, <1>2, <1>3 DEF DataInv

(* An installer's step keeps journals, backups and files as DataInv says:  *)
(* its backups are copies of files that were whole and nobody's leavings,  *)
(* and its commit finds every published path in its own version.           *)
LEMMA DataInstaller ==
  ASSUME IInv, NEW r \in Run, InstallerStep(r)
  PROVE  DataInv'
  <1> DEFINE p == Installer(r)
  <1>b. BaseInv /\ DataInv /\ PublishAt(r)
    BY DEF IInv, AtomicInv, DataInv, PublishInv
  <1>t. p \in Proc
    BY ProcNames
  <1> USE <1>b, <1>t, Typed, ProcNames, Names DEF Goto, host, txn, env
  <1>d. pc[p] \in ApplyLabel \cup {"abort", "cleanup"} => dirs = {r}
    BY DEF BaseInv, OwnerInv
  <1>a. pc[p] \in ApplyLabel \ {"arm"} => Applying(r)
    BY DEF BaseInv, OwnerInv
  <1>1. CASE Prepare(r)
    <2>1. dirs = {} /\ dirs' = {r} /\ disk' = disk /\ committed' = committed
      BY <1>1 DEF Prepare, BaseInv, OwnerInv
    <2>2. /\ journal'[r].phase = "preparing" /\ journal'[r].backup = disk
          /\ journal'[r].fresh = (disk[Cli] = Absent)
          /\ journal'[r].activation_started = FALSE /\ journal'[r].filter_touched = FALSE
          /\ \A s \in Run \ {r} : journal'[s] = journal[s]
      BY <1>1 DEF Prepare
    <2>3. Pending = {} /\ Pending' = {}
      BY <2>1, <2>2 DEF Pending, Applying
    <2>4. \A s \in Run : ~Applying(s)
      BY <2>1 DEF BaseInv, TxnInv, Applying, NoJournal
    <2>5. JournalInv'
      BY <2>1, <2>2 DEF JournalInv
    <2>6. Whole(disk) /\ \A s \in Run \ committed, f \in File : disk[f] # s
      BY <2>3, <2>4 DEF DataInv, NeverMixed, NoTrace
    <2>7. BackupInv'
      BY <2>1, <2>2, <2>6 DEF BackupInv, Whole
    <2>8. NeverMixed' /\ NoTrace'
      BY <2>1, <2>6 DEF NeverMixed, NoTrace, Whole
    <2>9. QED BY <2>5, <2>7, <2>8 DEF DataInv
  <1>2. CASE Arm(r)
    <2>1. dirs = {r} /\ dirs' = dirs /\ disk' = disk /\ committed' = committed
      BY <1>2, <1>d DEF Arm, ApplyLabel
    <2>2. /\ journal'[r].phase = "applying" /\ journal'[r].backup = journal[r].backup
          /\ journal'[r].fresh = journal[r].fresh
          /\ journal'[r].activation_started = journal[r].activation_started
          /\ journal'[r].filter_touched = journal[r].filter_touched
          /\ \A s \in Run \ {r} : journal'[s] = journal[s]
      BY <1>2, JournalUpdate DEF Arm, Phase
    <2>3. journal[r].phase = "preparing"
      BY <1>2 DEF Arm, BaseInv, OwnerInv
    <2>4. JournalInv' /\ BackupInv'
      BY <2>1, <2>2, <2>3 DEF DataInv, JournalInv, BackupInv
    <2>5. NeverMixed'
      BY <2>1, <2>2 DEF NeverMixed, Pending, Applying
    <2>6. NoTrace'
      BY <2>1, <2>2 DEF DataInv, NoTrace, Applying
    <2>7. QED BY <2>4, <2>5, <2>6 DEF DataInv
  <1>3. CASE SpawnGuard(r)
    BY <1>3, DataFrame DEF SpawnGuard
  <1>4. CASE PublishHelper(r) \/ PublishProgram(r)
    <2>1. dirs = {r} /\ Applying(r) /\ UNCHANGED txn
      BY <1>4, <1>d, <1>a DEF PublishHelper, PublishProgram, Publish, ApplyLabel
    <2>2. \A f \in File : disk'[f] \in {disk[f], r}
      BY <1>4 DEF PublishHelper, PublishProgram, Publish, Disk
    <2>3. QED BY <2>1, <2>2, DataPending
  <1>5. CASE RetireTimer(r)
    <2>1. dirs = {r} /\ Applying(r) /\ UNCHANGED txn
      BY <1>5, <1>d, <1>a DEF RetireTimer, ApplyLabel
    <2>2. \A f \in File : disk'[f] \in {disk[f], Absent}
      BY <1>5 DEF RetireTimer, Disk
    <2>3. QED BY <2>1, <2>2, DataPending
  <1>6. CASE EnableRestore(r) \/ RestartFilter(r) \/ Abort(r)
    BY <1>6, DataFrame DEF EnableRestore, RestartFilter, Abort
  <1>7. CASE Switch(r)
    <2>1. dirs = {r} /\ Applying(r) /\ UNCHANGED <<disk, dirs, committed>>
      BY <1>7, <1>d, <1>a DEF Switch, ApplyLabel
    <2>2. \/ journal' = journal
          \/ /\ journal[r].fresh
             /\ journal' = [journal EXCEPT ![r] = [journal[r] EXCEPT !.activation_started = TRUE]]
          \/ /\ ~journal[r].fresh
             /\ journal' = [journal EXCEPT ![r] = [journal[r] EXCEPT !.filter_touched = TRUE]]
      BY <1>7 DEF Switch
    <2>3. CASE journal' = journal
      BY <2>1, <2>3, DataFrame
    <2>4. CASE journal' # journal
      <3>1. /\ journal'[r].phase = journal[r].phase
            /\ journal'[r].backup = journal[r].backup
            /\ journal'[r].fresh = journal[r].fresh
            /\ \A s \in Run \ {r} : journal'[s] = journal[s]
        BY <2>2, <2>4 DEF Journal
      <3>2. /\ journal'[r].activation_started => journal'[r].fresh
            /\ journal'[r].filter_touched => ~journal'[r].fresh
        BY <2>1, <2>2, <2>4, <3>1 DEF DataInv, JournalInv, Journal
      <3>3. JournalInv'
        BY <2>1, <3>1, <3>2 DEF DataInv, JournalInv
      <3>4. BackupInv' /\ NeverMixed' /\ NoTrace'
        BY <2>1, <3>1 DEF DataInv, BackupInv, NeverMixed, NoTrace, Pending, Applying
      <3>5. QED BY <3>3, <3>4 DEF DataInv
    <2>5. QED BY <2>3, <2>4
  <1>8. CASE Activate(r)
    <2>1. dirs = {r} /\ Applying(r) /\ UNCHANGED txn
      BY <1>8, <1>d, <1>a DEF Activate, ApplyLabel
    <2>2. \A f \in File : disk'[f] \in {disk[f], r}
      BY <1>8 DEF Activate, Disk
    <2>3. QED BY <2>1, <2>2, DataPending
  <1>9. CASE Commit(r)
    <2>1. dirs = {r} /\ dirs' = dirs /\ disk' = disk /\ committed' = committed \cup {r}
      BY <1>9, <1>d DEF Commit, ApplyLabel
    <2>2. /\ journal'[r].phase = "committed" /\ journal'[r].backup = journal[r].backup
          /\ journal'[r].fresh = journal[r].fresh
          /\ journal'[r].activation_started = journal[r].activation_started
          /\ journal'[r].filter_touched = journal[r].filter_touched
          /\ \A s \in Run \ {r} : journal'[s] = journal[s]
      BY <1>9, JournalUpdate DEF Commit, Phase
    <2>3. \A f \in Published : disk[f] = r
      BY <1>9 DEF Commit, PublishAt, ApplyLabel, Published, Cli, Plugin, FilterUnit,
         Lifecycle, RestoreUnit
    <2>4. JournalInv' /\ BackupInv'
      BY <2>1, <2>2 DEF DataInv, JournalInv, BackupInv
    <2>5. NeverMixed'
      BY <2>1, <2>3 DEF NeverMixed, Whole
    <2>6. NoTrace'
      BY <2>1, <2>2 DEF DataInv, NoTrace, Applying
    <2>7. QED BY <2>4, <2>5, <2>6 DEF DataInv
  <1>10. CASE Cleanup(r)
    <2>1. dirs = {r} /\ dirs' = {} /\ disk' = disk /\ committed' = committed
      BY <1>10, <1>d DEF Cleanup, Remove
    <2>2. ~Applying(r) /\ ~Applying(r)' /\ \A s \in Run \ {r} : journal'[s] = journal[s]
      BY <1>10 DEF Cleanup, Remove, Applying, NoJournal, BaseInv, OwnerInv
    <2>3. Pending = {}
      BY <2>1, <2>2 DEF Pending
    <2>4. JournalInv' /\ BackupInv'
      BY <2>1 DEF JournalInv, BackupInv
    <2>5. NeverMixed' /\ NoTrace'
      BY <2>1, <2>2, <2>3 DEF DataInv, NeverMixed, NoTrace, Applying
    <2>6. QED BY <2>4, <2>5 DEF DataInv
  <1>11. QED BY <1>1, <1>2, <1>3, <1>4, <1>5, <1>6, <1>7, <1>8, <1>9, <1>10 DEF InstallerStep

(* A step of recover or rollback keeps them: it moves files only while the *)
(* journal is pending, towards the backup or to what `id14-sr off` leaves, *)
(* and ends the journal when the backup is back.                           *)
LEMMA DataRecovery ==
  ASSUME IInv, NEW p \in Proc, RecoveryStep(p)
  PROVE  DataInv'
  <1> DEFINE r == target[p]
             j == journal[r]
  <1>b. BaseInv /\ DataInv /\ PhaseAt(p) /\ RollbackAt(p)
    BY DEF IInv, AtomicInv, DataInv, PhaseInv, RollbackInv
  <1> USE <1>b, Typed, ProcNames, Names DEF Goto, host, txn, env
  <1>r. pc[p] \in RollbackLabel => r \in Run /\ dirs = {r}
    BY DEF BaseInv, OwnerInv
  <1>a. pc[p] \in RolledBack => Applying(r)
    BY DEF PhaseAt
  <1>1. CASE Scan(p) \/ Scanned(p) \/ RbRead(p) \/ RbAux(p) \/ RbFlags(p) \/ RbFilter(p)
          \/ RollbackRaises(p)
    BY <1>1, DataFrame DEF Scan, Scanned, RbRead, RbAux, RbFlags, RbFilter, RollbackRaises
  <1>2. CASE RbOff(p)
    <2>1. r \in Run /\ dirs = {r} /\ Applying(r) /\ UNCHANGED txn
      BY <1>2, <1>r, <1>a DEF RbOff, RollbackLabel, RolledBack
    <2>2. \A f \in File : disk'[f] \in {disk[f], Absent, Cleared}
      <3>1. CASE CliOff
        BY <3>1 DEF CliOff, Disk
      <3>2. CASE disk' = disk
        BY <3>2
      <3>3. QED BY <1>2, <3>1, <3>2 DEF RbOff
    <2>3. QED BY <2>1, <2>2, DataPending
  <1>3. CASE RbFile(p)
    <2>1. r \in Run /\ dirs = {r} /\ Applying(r) /\ UNCHANGED txn
      BY <1>3, <1>r, <1>a DEF RbFile, RollbackLabel, RolledBack
    <2>2. \A f \in File : disk'[f] \in {disk[f], j.backup[f]}
      BY <1>3 DEF RbFile, Disk
    <2>3. QED BY <2>1, <2>2, DataPending
  <1>4. CASE RbSave(p)
    <2>1. r \in Run /\ dirs = {r} /\ Applying(r) /\ UNCHANGED <<disk, dirs, committed>>
      BY <1>4, <1>r, <1>a DEF RbSave, RollbackLabel, RolledBack
    <2>2. disk = j.backup
      BY <1>4 DEF RbSave, RollbackAt
    <2>3. /\ journal'[r].phase = "rolled_back" /\ journal'[r].backup = j.backup
          /\ journal'[r].fresh = j.fresh
          /\ journal'[r].activation_started = j.activation_started
          /\ journal'[r].filter_touched = j.filter_touched
          /\ \A s \in Run \ {r} : journal'[s] = journal[s]
      BY <1>4, <2>1, JournalUpdate DEF RbSave, Phase
    <2>4. JournalInv' /\ BackupInv'
      BY <2>1, <2>3 DEF DataInv, JournalInv, BackupInv
    <2>5. Whole(disk) /\ \A s \in Run \ committed, f \in File : disk[f] # s
      BY <2>1, <2>2 DEF DataInv, BackupInv, Applying
    <2>6. NeverMixed' /\ NoTrace'
      BY <2>1, <2>5 DEF NeverMixed, NoTrace, Whole
    <2>7. QED BY <2>4, <2>6 DEF DataInv
  <1>5. CASE Rmtree(p)
    <2>0. PICK t \in Run : t = target[p]
      BY <1>5, <1>r DEF Rmtree, RollbackLabel
    <2>1. dirs = {t} /\ dirs' = {} /\ disk' = disk /\ committed' = committed
      BY <1>5, <1>r, <2>0 DEF Rmtree, Remove, RollbackLabel
    <2>a. ~Applying(t) /\ journal' = [journal EXCEPT ![t] = NoJournal]
      BY <1>5, <2>0 DEF Rmtree, Remove, BaseInv, OwnerInv
    <2>2. ~Applying(t) /\ ~Applying(t)' /\ \A s \in Run \ {t} : journal'[s] = journal[s]
      BY <2>a DEF Applying, NoJournal
    <2>3. Pending = {}
      BY <2>1, <2>2 DEF Pending
    <2>4. JournalInv' /\ BackupInv'
      BY <2>1 DEF JournalInv, BackupInv
    <2>5. NeverMixed' /\ NoTrace'
      BY <2>1, <2>2, <2>3 DEF DataInv, NeverMixed, NoTrace, Applying
    <2>6. QED BY <2>4, <2>5 DEF DataInv
  <1>6. QED BY <1>1, <1>2, <1>3, <1>4, <1>5 DEF RecoveryStep

(* So does every failure, kill and power cut, and every other step.        *)
LEMMA DataRest ==
  ASSUME OnlyFailures, IInv,
         \/ \E r \in Run : InstallFault(r) \/ RunStep(r)
         \/ \E p \in Proc : ProcStep(p)
         \/ EnvStep
  PROVE  DataInv'
  <1>b. BaseInv /\ DataInv /\ orphans = {}
    BY DEF IInv, AtomicInv, DataInv
  <1> USE <1>b, Typed, ProcNames, Names DEF Goto, host, txn, procs, env
  <1>1. ASSUME NEW r \in Run, InstallFault(r) PROVE DataInv'
    <2>1. CASE ActivateFails(r)
      <3>1. dirs = {r} /\ Applying(r) /\ UNCHANGED txn
        BY <2>1 DEF ActivateFails, BaseInv, OwnerInv, ApplyLabel
      <3>2. \A f \in File : disk'[f] \in {disk[f], r, Absent, Cleared}
        BY <2>1 DEF ActivateFails, Disk
      <3>3. QED BY <3>1, <3>2, DataPending
    <2>2. CASE InstallFails(r) \/ RestartFails(r) \/ CleanupFails(r)
      BY <2>2, DataFrame DEF InstallFails, RestartFails, CleanupFails
    <2>3. QED BY <1>1, <2>1, <2>2, Undisturbed DEF InstallFault
  <1>2. ASSUME NEW r \in Run, RunStep(r) PROVE DataInv'
    BY <1>2, DataFrame DEF RunStep, StartInstall, GuardWakes, Check, OrphanActs
  <1>3. ASSUME NEW p \in Proc, ProcStep(p) PROVE DataInv'
    BY <1>3, DataFrame DEF ProcStep, Acquire, RecoveryFails, Kill, Dies
  <1>4. CASE EnvStep
    BY <1>4, DataFrame, Undisturbed DEF EnvStep, StartRestore, BringUpFilter, Crash
  <1>5. QED BY <1>1, <1>2, <1>3, <1>4

-----------------------------------------------------------------------------
(***************************************************************************)
(* The control: what holds of files, units and journal at each label.      *)
(***************************************************************************)
ControlInv == NewcomerInv /\ PhaseInv /\ PublishInv /\ RollbackInv

(* One process moves at a time, and it is enough to look at that one.      *)
LEMMA ControlAt ==
  ASSUME BaseInv, NEW p \in Proc, pc[p] \in LockedLabel,
         \A q \in Proc \ {p} : pc'[q] = pc[q] \/ pc'[q] \notin LockedLabel,
         PhaseAt(p)', RollbackAt(p)', \A r \in Run : p = Installer(r) => PublishAt(r)',
         NewcomerInv'
  PROVE  ControlInv'
  <1>1. \A q \in Proc \ {p} : pc'[q] \notin LockedLabel
    BY Alone
  <1>2. \A q \in Proc \ {p} : PhaseAt(q)' /\ RollbackAt(q)'
    BY <1>1, Elsewhere DEF LockedLabel
  <1>3. \A r \in Run : PublishAt(r)'
    BY <1>1, Elsewhere, ProcNames DEF LockedLabel
  <1>4. QED BY <1>2, <1>3 DEF ControlInv, PhaseInv, RollbackInv, PublishInv

(* An installer's step leads from what holds at its label to what holds at *)
(* the next.                                                               *)
LEMMA ControlInstaller ==
  ASSUME IInv, NEW r \in Run, InstallerStep(r)
  PROVE  ControlInv'
  <1> DEFINE p == Installer(r)
  <1>b. BaseInv /\ PublishAt(r) /\ PhaseAt(p) /\ NewcomerInv /\ JournalInv
    BY ProcNames DEF IInv, AtomicInv, PublishInv, PhaseInv
  <1>t. p \in Proc
    BY ProcNames
  <1> USE <1>b, <1>t, Typed, ProcNames, Names DEF Goto, host, txn, env
  <1>0. pc[p] \in LockedLabel
    BY DEF InstallerStep, Prepare, Arm, SpawnGuard, PublishHelper, Publish, RetireTimer,
       EnableRestore, PublishProgram, Switch, Activate, RestartFilter, Commit, Cleanup,
       Abort, LockedLabel, ApplyLabel
  <1>o. \A q \in Proc \ {p} : pc'[q] = pc[q] \/ pc'[q] \notin LockedLabel
    BY DEF InstallerStep, Prepare, Arm, SpawnGuard, PublishHelper, Publish, RetireTimer,
       EnableRestore, PublishProgram, Switch, Activate, RestartFilter, Commit, Cleanup,
       Leave, Abort, LockedLabel, ApplyLabel, RollbackLabel
  <1>d. pc[p] \in ApplyLabel \cup {"abort", "cleanup"} => dirs = {r}
    BY DEF BaseInv, OwnerInv
  <1>n. NewcomerInv'
    <2>1. \A s \in Run \ {r} : pc'[Installer(s)] = pc[Installer(s)]
      BY DEF InstallerStep, Prepare, Arm, SpawnGuard, PublishHelper, Publish, RetireTimer,
         EnableRestore, PublishProgram, Switch, Activate, RestartFilter, Commit, Cleanup,
         Leave, Abort
    <2>2. pc'[p] \notin {"idle", "lock", "scan", "prepare"}
      BY DEF InstallerStep, Prepare, Arm, SpawnGuard, PublishHelper, Publish, RetireTimer,
         EnableRestore, PublishProgram, Switch, Activate, RestartFilter, Commit, Cleanup,
         Leave, Abort
    <2>3. dirs' \subseteq dirs \cup {r}
      BY DEF InstallerStep, Prepare, Arm, SpawnGuard, PublishHelper, Publish, RetireTimer,
         EnableRestore, PublishProgram, Switch, Activate, RestartFilter, Commit, Cleanup,
         Remove, Abort
    <2>4. QED BY <2>1, <2>2, <2>3 DEF NewcomerInv
  <1>s. \A s \in Run : p = Installer(s) => s = r
    OBVIOUS
  <1>1. CASE Abort(r)
    <2>1. pc'[p] \notin ApplyLabel /\ pc'[p] \in {"rb_read", "rmtree"}
      BY <1>1 DEF Abort, ApplyLabel
    <2>2. PhaseAt(p)' /\ RollbackAt(p)'
      BY <1>1, <1>d, <2>1 DEF Abort, PhaseAt, RollbackAt, RolledBack, Saved, Applying
    <2>3. QED BY <1>0, <1>o, <1>n, <1>s, <2>1, <2>2, ControlAt, Elsewhere
  <1>2. CASE ~Abort(r)
    <2>1. pc'[p] \notin RollbackLabel \cup {"abort"}
      BY <1>2 DEF InstallerStep, Prepare, Arm, SpawnGuard, PublishHelper, Publish, RetireTimer,
         EnableRestore, PublishProgram, Switch, Activate, RestartFilter, Commit, Cleanup,
         Leave, RollbackLabel
    <2> SUFFICES PublishAt(r)'
      BY <1>0, <1>o, <1>n, <1>s, <2>1, ControlAt, Elsewhere
    <2> USE DEF PublishAt, ApplyLabel, Unswitched
    <2>2. CASE Prepare(r)
      BY <2>2 DEF Prepare
    <2>3. CASE Arm(r)
      BY <2>3, JournalUpdate DEF Arm, Phase
    <2>4. CASE SpawnGuard(r)
      BY <2>4 DEF SpawnGuard, Lifecycle, RestoreUnit
    <2>5. CASE PublishHelper(r)
      <3>1. /\ pc[p] = "helper" /\ unit' = unit /\ journal' = journal
            /\ disk' = [disk EXCEPT ![todo[p]] = r]
        BY <2>5 DEF PublishHelper, Publish
      <3>2. todo[p] \in {Lifecycle, RestoreUnit}
        BY <3>1 DEF BaseInv, OwnerInv
      <3>3. disk'[State] = disk[State] /\ disk'[Config] = disk[Config] /\ disk'[todo[p]] = r
        BY <3>1, <3>2 DEF Disk, Lifecycle, RestoreUnit, State, Config
      <3>4. CASE todo[p] = Lifecycle
        <4>1. pc'[p] = "helper"
          BY <2>5, <3>4 DEF PublishHelper, Publish, Lifecycle, RestoreUnit
        <4>2. QED BY <3>1, <3>3, <3>4, <4>1
      <3>5. CASE todo[p] = RestoreUnit
        <4>1. pc'[p] = "retire"
          BY <2>5, <3>5 DEF PublishHelper, Publish
        <4>2. disk[Lifecycle] = r /\ disk'[Lifecycle] = disk[Lifecycle]
          BY <3>1, <3>5 DEF Disk, Lifecycle, RestoreUnit
        <4>3. QED BY <3>1, <3>3, <3>5, <4>1, <4>2
      <3>6. QED BY <3>2, <3>4, <3>5
    <2>6. CASE RetireTimer(r)
      <3>1. pc[p] = "retire" /\ pc'[p] = "enable" /\ journal' = journal
        BY <2>6 DEF RetireTimer
      <3>2. unit = journal[r].prior
        BY <3>1
      <3>3. unit'["timer"] = Stopped /\ unit'["filter"] = unit["filter"]
              /\ unit'["restore"] = unit["restore"]
        BY <2>6, <3>2 DEF RetireTimer
      <3>4. disk'[TimerUnit] = Absent /\ \A f \in File \ {TimerUnit} : disk'[f] = disk[f]
        BY <2>6 DEF RetireTimer, Disk
      <3>5. {State, Config, Lifecycle, RestoreUnit} \subseteq File \ {TimerUnit}
        BY DEF File, State, Config, Lifecycle, RestoreUnit, TimerUnit
      <3>6. QED BY <3>1, <3>3, <3>4, <3>5
    <2>7. CASE EnableRestore(r)
      <3>1. pc[p] = "enable" /\ pc'[p] = "publish" /\ journal' = journal /\ disk' = disk
        BY <2>7 DEF EnableRestore
      <3>2. unit'["timer"] = unit["timer"] /\ unit'["filter"] = unit["filter"]
        BY <2>7 DEF EnableRestore
      <3>3. unit'["restore"].enabled /\ unit'["restore"].active = unit["restore"].active
        BY <2>7 DEF EnableRestore, Flags
      <3>4. todo'[p] = Cli
        BY <2>7, <3>1 DEF EnableRestore, BaseInv, OwnerInv
      <3>5. QED BY <3>1, <3>2, <3>3, <3>4 DEF Cli, Plugin
    <2>8. CASE PublishProgram(r)
      <3>1. /\ pc[p] = "publish" /\ unit' = unit /\ journal' = journal
            /\ disk' = [disk EXCEPT ![todo[p]] = r]
        BY <2>8 DEF PublishProgram, Publish
      <3>2. todo[p] \in {Cli, Plugin, FilterUnit}
        BY <3>1 DEF BaseInv, OwnerInv
      <3>3. \A f \in File : disk'[f] = IF f = todo[p] THEN r ELSE disk[f]
        BY <3>1, <3>2 DEF Disk
      <3>4. \A f \in {State, Config, Lifecycle, RestoreUnit, TimerUnit} : disk'[f] = disk[f]
        BY <3>2, <3>3 DEF Cli, Plugin, FilterUnit, State, Config, Lifecycle, RestoreUnit, TimerUnit
      <3>5. CASE todo[p] = FilterUnit
        <4>1. pc'[p] = "switch"
          BY <2>8, <3>5 DEF PublishProgram, Publish
        <4>2. \A f \in {Cli, Plugin, FilterUnit} : disk'[f] = r
          BY <3>1, <3>3, <3>5 DEF Cli, Plugin, FilterUnit
        <4>3. QED BY <3>1, <3>4, <4>1, <4>2
      <3>6. CASE todo[p] \in {Cli, Plugin}
        <4>1. pc'[p] = "publish" /\ todo'[p] = todo[p] + 1
          BY <2>8, <3>6 DEF PublishProgram, Publish, Cli, Plugin, FilterUnit
        <4>2. \A f \in {Cli, Plugin} : f < todo'[p] => disk'[f] = r
          BY <3>1, <3>3, <3>6, <4>1 DEF Cli, Plugin
        <4>3. QED BY <3>1, <3>4, <4>1, <4>2
      <3>7. QED BY <3>2, <3>5, <3>6
    <2>9. CASE Switch(r)
      <3>1. pc[p] = "switch" /\ unit' = unit /\ disk' = disk
        BY <2>9 DEF Switch
      <3>2. /\ journal'[r].prior = journal[r].prior /\ journal'[r].backup = journal[r].backup
            /\ journal'[r].fresh = journal[r].fresh
        BY <2>9 DEF Switch, Journal
      <3>3. \/ /\ pc'[p] = "activate" /\ journal'[r].activation_started /\ journal[r].fresh
            \/ /\ pc'[p] = "restart" /\ journal'[r].filter_touched /\ ~journal[r].fresh
               /\ journal[r].prior["filter"].active
            \/ pc'[p] = "commit" /\ ~journal[r].fresh
        BY <2>9 DEF Switch, Journal
      <3>4. QED BY <3>1, <3>2, <3>3
    <2>10. CASE Activate(r)
      <3>1. pc[p] = "activate" /\ pc'[p] = "commit" /\ journal' = journal
        BY <2>10 DEF Activate
      <3>2. journal[r].fresh
        BY <3>1, <1>d DEF JournalInv
      <3>3. unit' = [unit EXCEPT !["filter"] = Running]
        BY <2>10 DEF Activate
      <3>4. unit'["filter"] = Running /\ unit'["restore"] = unit["restore"]
              /\ unit'["timer"] = unit["timer"]
        BY <3>3
      <3>5. \A f \in {Cli, Plugin, FilterUnit, Lifecycle, RestoreUnit, TimerUnit} : disk'[f] = disk[f]
        BY <2>10 DEF Activate, Disk, Cli, Plugin, FilterUnit, Lifecycle, RestoreUnit,
           TimerUnit, State, Config
      <3>6. QED BY <3>1, <3>2, <3>4, <3>5
    <2>11. CASE RestartFilter(r)
      <3>1. pc[p] = "restart" /\ pc'[p] = "commit" /\ journal' = journal /\ disk' = disk
        BY <2>11 DEF RestartFilter
      <3>2. ~journal[r].fresh /\ unit["filter"].active
        BY <3>1, <1>d DEF JournalInv
      <3>3. [unit["filter"] EXCEPT !.active = TRUE] = unit["filter"]
        BY <3>2 DEF Flags
      <3>4. unit' = unit
        BY <2>11, <3>3 DEF RestartFilter
      <3>5. QED BY <3>1, <3>2, <3>4
    <2>12. CASE Commit(r) \/ Cleanup(r)
      BY <2>12, Elsewhere DEF Commit, Cleanup, Leave
    <2>13. QED BY <1>2, <2>2, <2>3, <2>4, <2>5, <2>6, <2>7, <2>8, <2>9, <2>10, <2>11, <2>12
         DEF InstallerStep
  <1>3. QED BY <1>1, <1>2

(* So does a step of recover or rollback: the walk goes down from the last *)
(* file to the first, and each phase ends with what the next relies on.    *)
LEMMA ControlRecovery ==
  ASSUME IInv, NEW p \in Proc, RecoveryStep(p)
  PROVE  ControlInv'
  <1> DEFINE r == target[p]
             j == journal[r]
  <1>b. BaseInv /\ PhaseAt(p) /\ RollbackAt(p) /\ NewcomerInv
    BY DEF IInv, AtomicInv, PhaseInv, RollbackInv
  <1> USE <1>b, Typed, ProcNames, Names DEF Goto, host, txn, env
  <1>0. pc[p] \in RollbackLabel \cup {"scan"} /\ pc[p] \in LockedLabel
    BY DEF RecoveryStep, Scan, Scanned, RbRead, RbOff, RbAux, RbFile, RbFlags, RbFilter,
       RbSave, Rmtree, RollbackRaises, LockedLabel, RollbackLabel
  <1>r. pc[p] \in RollbackLabel => r \in Run /\ dirs = {r}
    BY DEF BaseInv, OwnerInv
  <1>o. \A q \in Proc \ {p} : pc'[q] = pc[q]
    BY DEF RecoveryStep, Scan, Scanned, RbRead, RbOff, RbAux, RbFile, RbFlags, RbFilter,
       RbSave, Rmtree, RollbackRaises, Leave
  <1>n. NewcomerInv'
    <2>1. dirs' \subseteq dirs
      BY DEF RecoveryStep, Scan, Scanned, RbRead, RbOff, RbAux, RbFile, RbFlags, RbFilter,
         RbSave, Rmtree, RollbackRaises, Remove
    <2> SUFFICES ASSUME NEW s \in Run, pc'[Installer(s)] \in {"idle", "lock", "scan", "prepare"}
                 PROVE  s \notin dirs'
      BY DEF NewcomerInv
    <2>2. CASE pc'[Installer(s)] = pc[Installer(s)]
      BY <2>1, <2>2 DEF NewcomerInv
    <2>3. CASE pc'[Installer(s)] # pc[Installer(s)]
      <3>1. p = Installer(s)
        BY <1>o, <2>3
      <3>2. Scanned(p) \/ Rmtree(p)
        BY <3>1 DEF RecoveryStep, Scan, RbRead, RbOff, RbAux, RbFile, RbFlags, RbFilter,
           RbSave, RollbackRaises, Leave
      <3>3. dirs' = {}
        BY <3>2, <1>r DEF Scanned, Rmtree, Remove, RollbackLabel
      <3>4. QED BY <3>3
    <2>4. QED BY <2>2, <2>3
  <1>p. pc'[p] \notin ApplyLabel
    BY DEF RecoveryStep, Scan, Scanned, RbRead, RbOff, RbAux, RbFile, RbFlags, RbFilter,
       RbSave, Rmtree, RollbackRaises, Leave, AfterRollback, ApplyLabel
  <1> SUFFICES PhaseAt(p)' /\ RollbackAt(p)'
    BY <1>0, <1>o, <1>n, <1>p, ControlAt, Elsewhere
  <1> USE DEF PhaseAt, RollbackAt, RolledBack
  <1>1. CASE Scan(p)
    <2>1. PICK s \in dirs : /\ target' = [target EXCEPT ![p] = s]
                           /\ pc' = [pc EXCEPT ![p] = IF Saved(s) THEN "rb_read" ELSE "rmtree"]
      BY <1>1 DEF Scan
    <2>2. target'[p] = s /\ pc'[p] \in {"rb_read", "rmtree"} /\ s \in Run
      BY <2>1
    <2>3. p # Installer(s)
      BY <1>1, <2>2 DEF Scan, NewcomerInv
    <2>4. QED BY <2>2, <2>3 DEF Forced
  <1>2. CASE Scanned(p) \/ RollbackRaises(p)
    BY <1>2, Elsewhere DEF Scanned, RollbackRaises, Leave, RollbackLabel
  <1>3. CASE RbRead(p)
    BY <1>3, <1>r DEF RbRead, RollbackLabel, Applying
  <1>4. CASE RbOff(p)
    BY <1>4, <1>r DEF RbOff, RollbackLabel, Applying
  <1>5. CASE RbAux(p)
    <2>1. /\ pc[p] = "rb_aux" /\ pc'[p] = "rb_file" /\ target' = target /\ journal' = journal
          /\ todo'[p] = Config
      BY <1>5 DEF RbAux
    <2>2. r \in Run /\ Applying(r)
      BY <2>1, <1>r DEF RollbackLabel
    <2>3. \A u \in {"restore", "timer"} : /\ unit'[u].enabled => j.prior[u].enabled
                                          /\ unit'[u].active => j.prior[u].active
      BY <1>5 DEF RbAux, Quieted
    <2>4. \A f \in File : ~(f > Config)
      BY DEF File, Config
    <2>5. QED BY <2>1, <2>2, <2>3, <2>4 DEF Applying
  <1>6. CASE RbFile(p)
    <2>1. /\ pc[p] = "rb_file" /\ target' = target /\ journal' = journal /\ unit' = unit
          /\ disk' = [disk EXCEPT ![todo[p]] = j.backup[todo[p]]]
          /\ todo[p] \in File
      BY <1>6 DEF RbFile
    <2>2. r \in Run /\ Applying(r) /\ j.backup \in Disk
      BY <2>1, <1>r DEF RollbackLabel
    <2>3. \A f \in File : f >= todo[p] => disk'[f] = j.backup[f]
      BY <2>1, <2>2 DEF Disk, File
    <2>4. CASE todo[p] = 0
      <3>1. pc'[p] = "rb_flags"
        BY <1>6, <2>4 DEF RbFile
      <3>2. \A f \in File : disk'[f] = j.backup[f]
        BY <2>3, <2>4 DEF File
      <3>3. disk' = j.backup
        <4>1. disk' \in Disk
          BY <2>1, <2>2, FlagsUpdate
        <4>2. QED BY <2>2, <3>2, <4>1 DEF Disk
      <3>4. QED BY <2>1, <2>2, <3>1, <3>3 DEF Applying
    <2>5. CASE todo[p] # 0
      <3>1. pc'[p] = "rb_file" /\ todo'[p] = todo[p] - 1
        BY <1>6, <2>5 DEF RbFile
      <3>2. \A f \in File : f > todo'[p] => f >= todo[p]
        BY <2>1, <2>5, <3>1 DEF File
      <3>3. QED BY <2>1, <2>2, <2>3, <3>1, <3>2 DEF Applying
    <2>6. QED BY <2>4, <2>5
  <1>7. CASE RbFlags(p)
    <2>1. /\ pc[p] = "rb_flags" /\ pc'[p] = "rb_filter" /\ target' = target
          /\ journal' = journal /\ disk' = disk
      BY <1>7 DEF RbFlags
    <2>2. r \in Run /\ Applying(r)
      BY <2>1, <1>r DEF RollbackLabel
    <2>3. \A u \in {"restore", "timer"} : unit'[u] = j.prior[u]
      <3> SUFFICES ASSUME NEW u \in {"restore", "timer"} PROVE unit'[u] = j.prior[u]
        OBVIOUS
      <3>1. unit'[u] = [enabled |-> j.prior[u].enabled, active |-> unit[u].active \/ j.prior[u].active]
        BY <1>7 DEF RbFlags
      <3>2. (unit[u].active \/ j.prior[u].active) = j.prior[u].active
        BY <2>1, <2>2 DEF Flags
      <3>3. QED BY <2>2, <3>1, <3>2 DEF Flags
    <2>4. QED BY <2>1, <2>2, <2>3 DEF Applying
  <1>8. CASE RbFilter(p)
    <2>1. /\ pc[p] = "rb_filter" /\ pc'[p] = "rb_save" /\ target' = target
          /\ journal' = journal /\ disk' = disk
      BY <1>8 DEF RbFilter
    <2>2. r \in Run /\ Applying(r)
      BY <2>1, <1>r DEF RollbackLabel
    <2>3. \A u \in {"restore", "timer"} : unit'[u] = unit[u]
      BY <1>8 DEF RbFilter
    <2>4. j.fresh \/ j.filter_touched => unit'["filter"] = j.prior["filter"]
      BY <1>8 DEF RbFilter
    <2>5. QED BY <2>1, <2>2, <2>3, <2>4 DEF Applying
  <1>9. CASE RbSave(p)
    BY <1>9 DEF RbSave
  <1>10. CASE Rmtree(p)
    BY <1>10, Elsewhere DEF Rmtree, Leave, AfterRollback, RollbackLabel
  <1>11. QED BY <1>1, <1>2, <1>3, <1>4, <1>5, <1>6, <1>7, <1>8, <1>9, <1>10 DEF RecoveryStep

(* A step that moves processes only to labels where nothing is claimed of  *)
(* the host, and that leaves host and transactions alone.                  *)
LEMMA ControlFrame ==
  ASSUME BaseInv, ControlInv, UNCHANGED <<host, txn>>,
         \A q \in Proc : \/ pc'[q] = pc[q] /\ target'[q] = target[q] /\ todo'[q] = todo[q]
                         \/ /\ pc'[q] \notin RollbackLabel \cup {"abort"} \cup ApplyLabel
                            /\ pc'[q] \in {"idle", "lock", "scan", "prepare"} =>
                                 pc[q] \in {"idle", "lock", "scan", "prepare"} \/ q = Restorer
  PROVE  ControlInv'
  <1> USE ProcNames DEF host, txn
  <1>1. NewcomerInv'
    BY DEF ControlInv, NewcomerInv
  <1>2. ASSUME NEW q \in Proc PROVE PhaseAt(q)' /\ RollbackAt(q)'
    <2>1. PhaseAt(q) /\ RollbackAt(q)
      BY DEF ControlInv, PhaseInv, RollbackInv
    <2>2. CASE pc'[q] = pc[q] /\ target'[q] = target[q] /\ todo'[q] = todo[q]
      BY <2>1, <2>2 DEF PhaseAt, RollbackAt, RolledBack, Applying, Forced
    <2>3. CASE pc'[q] \notin RollbackLabel \cup {"abort"}
      BY <2>3, Elsewhere
    <2>4. QED BY <2>2, <2>3
  <1>3. ASSUME NEW r \in Run PROVE PublishAt(r)'
    <2>1. PublishAt(r)
      BY DEF ControlInv, PublishInv
    <2>2. CASE pc'[Installer(r)] = pc[Installer(r)] /\ todo'[Installer(r)] = todo[Installer(r)]
      BY <2>1, <2>2 DEF PublishAt
    <2>3. CASE pc'[Installer(r)] \notin ApplyLabel
      BY <2>3, Elsewhere
    <2>4. QED BY <2>2, <2>3
  <1>4. QED BY <1>1, <1>2, <1>3 DEF ControlInv, PhaseInv, RollbackInv, PublishInv

(* Failures, kills, power cuts and every other step leave a process where  *)
(* the files need no explanation, or where recovery starts from any.       *)
LEMMA ControlRest ==
  ASSUME OnlyFailures, IInv,
         \/ \E r \in Run : InstallFault(r) \/ RunStep(r)
         \/ \E p \in Proc : ProcStep(p)
         \/ EnvStep
  PROVE  ControlInv'
  <1>b. BaseInv /\ ControlInv /\ orphans = {}
    BY DEF IInv, AtomicInv, ControlInv
  <1> USE <1>b, Typed, ProcNames, Names DEF Goto, host, txn, procs, env
  <1>1. ASSUME NEW r \in Run, InstallFault(r) PROVE ControlInv'
    <2> DEFINE p == Installer(r)
    <2>1. CASE CleanupFails(r)
      BY <2>1, ControlFrame DEF CleanupFails, Leave, RollbackLabel, ApplyLabel
    <2>2. CASE InstallFails(r) \/ ActivateFails(r) \/ RestartFails(r)
      <3>1. /\ pc[p] \in ApplyLabel /\ pc' = [pc EXCEPT ![p] = "abort"]
            /\ UNCHANGED <<txn, target, todo>>
        BY <2>2 DEF InstallFails, ActivateFails, RestartFails, ApplyLabel
      <3>2. dirs = {r} /\ journal[r].phase \in {"preparing", "applying"}
        BY <3>1 DEF BaseInv, OwnerInv, Applying
      <3>3. PhaseAt(p)' /\ RollbackAt(p)'
        BY <3>1, <3>2 DEF PhaseAt, RollbackAt, RolledBack
      <3>4. pc[p] \in LockedLabel /\ pc'[p] \notin ApplyLabel
        BY <3>1 DEF LockedLabel, ApplyLabel
      <3>5. NewcomerInv'
        BY <3>1 DEF ControlInv, NewcomerInv
      <3>6. QED BY <3>1, <3>3, <3>4, <3>5, ControlAt, Elsewhere
    <2>3. QED BY <1>1, <2>1, <2>2, Undisturbed DEF InstallFault
  <1>2. ASSUME NEW r \in Run, RunStep(r) PROVE ControlInv'
    <2>1. CASE StartInstall(r)
      BY <2>1, ControlFrame DEF StartInstall, RollbackLabel, ApplyLabel
    <2>2. CASE Check(r)
      <3> DEFINE p == Guard(r)
      <3>1. /\ pc[p] = "check" /\ pc[p] \in LockedLabel /\ UNCHANGED <<host, txn>>
            /\ \A q \in Proc \ {p} : pc'[q] = pc[q]
        BY <2>2 DEF Check, Leave, LockedLabel
      <3>2. (pc'[p] = "rb_read" /\ target'[p] = r) \/ pc'[p] = "done"
        BY <2>2 DEF Check, Leave
      <3>3. PhaseAt(p)' /\ RollbackAt(p)'
        BY <3>2 DEF PhaseAt, RollbackAt, RolledBack, Forced
      <3>4. NewcomerInv'
        BY <3>1 DEF ControlInv, NewcomerInv
      <3>5. QED BY <3>1, <3>3, <3>4, ControlAt
    <2>3. CASE GuardWakes(r)
      <3>1. /\ pc[Guard(r)] = "spawned" /\ pc' = [pc EXCEPT ![Guard(r)] = "lock"]
            /\ UNCHANGED <<host, txn, target, todo>>
        BY <2>3 DEF GuardWakes
      <3>2. NewcomerInv'
        BY <3>1 DEF ControlInv, NewcomerInv
      <3>3. ASSUME NEW q \in Proc PROVE PhaseAt(q)' /\ RollbackAt(q)'
        <4>1. CASE q = Guard(r)
          BY <3>1, <4>1, Elsewhere DEF RollbackLabel
        <4>2. CASE q # Guard(r)
          BY <3>1, <4>2 DEF ControlInv, PhaseInv, PhaseAt, RollbackInv, RollbackAt, Applying, Forced
        <4>3. QED BY <4>1, <4>2
      <3>4. ASSUME NEW s \in Run PROVE PublishAt(s)'
        BY <3>1 DEF ControlInv, PublishInv, PublishAt
      <3>5. QED BY <3>2, <3>3, <3>4 DEF ControlInv, PhaseInv, RollbackInv, PublishInv
    <2>4. QED BY <1>2, <2>1, <2>2, <2>3 DEF RunStep, OrphanActs
  <1>3. ASSUME NEW p \in Proc, ProcStep(p) PROVE ControlInv'
    <2>1. CASE Acquire(p)
      BY <2>1, ControlFrame DEF Acquire, RollbackLabel, ApplyLabel
    <2>2. CASE RecoveryFails(p)
      BY <2>2, ControlFrame DEF RecoveryFails, Leave, RollbackLabel, ApplyLabel
    <2>3. CASE Kill(p)
      BY <2>3, ControlFrame DEF Kill, Dies, RollbackLabel, ApplyLabel
    <2>4. QED BY <1>3, <2>1, <2>2, <2>3 DEF ProcStep
  <1>4. CASE EnvStep
    <2>1. CASE StartRestore
      BY <2>1, ControlFrame DEF StartRestore, RollbackLabel, ApplyLabel
    <2>2. CASE BringUpFilter
      <3> DEFINE p == Restorer
      <3>1. /\ pc[p] \in LockedLabel /\ pc'[p] = "idle" /\ UNCHANGED txn
            /\ \A q \in Proc \ {p} : pc'[q] = pc[q]
        BY <2>2 DEF BringUpFilter, Leave, LockedLabel
      <3>2. PhaseAt(p)' /\ RollbackAt(p)'
        BY <3>1, Elsewhere DEF RollbackLabel
      <3>3. NewcomerInv'
        BY <3>1 DEF ControlInv, NewcomerInv
      <3>4. QED BY <3>1, <3>2, <3>3, ControlAt
    <2>3. CASE Crash
      <3>1. \A q \in Proc : /\ pc'[q] \notin RollbackLabel \cup {"abort"} \cup ApplyLabel
                            /\ pc'[q] = "idle" => pc[q] = "idle" \/ q = Restorer
                            /\ pc'[q] \in {"idle"} \cup EndLabel
        BY <2>3 DEF Crash, RollbackLabel, ApplyLabel, EndLabel
      <3>2. NewcomerInv'
        BY <2>3, <3>1 DEF Crash, ControlInv, NewcomerInv, EndLabel
      <3>3. QED
        BY <3>1, <3>2, Elsewhere DEF ControlInv, PhaseInv, RollbackInv, PublishInv
    <2>4. QED BY <1>4, <2>1, <2>2, <2>3, Undisturbed DEF EnvStep
  <1>5. QED BY <1>1, <1>2, <1>3, <1>4

-----------------------------------------------------------------------------
(* Every initial state satisfies the invariant.                            *)
LEMMA InitAtomic == Init => IInv
  <1> SUFFICES ASSUME Init PROVE IInv
    OBVIOUS
  <1> USE ProcNames
  <1>1. dirs = {} /\ \A p \in Proc : pc[p] = "idle"
    BY DEF Init
  <1>2. NewcomerInv /\ PhaseInv /\ JournalInv /\ BackupInv /\ PublishInv /\ RollbackInv
    BY <1>1 DEF NewcomerInv, PhaseInv, PhaseAt, JournalInv, BackupInv, PublishInv, PublishAt,
       RollbackInv, RollbackAt, RolledBack, Unswitched, ApplyLabel
  <1>3. disk \in {Nothing, Installed, Legacy}
    BY DEF Init, InitHost
  <1>4. NeverMixed
    BY <1>3 DEF NeverMixed, Whole
  <1>5. NoTrace
    BY <1>3, ContentAssumption DEF NoTrace, Nothing, Installed, Legacy
  <1>6. QED BY <1>2, <1>4, <1>5, InitBase DEF Init, IInv, AtomicInv

(* As long as only failures, kills and power cuts disturb, every step      *)
(* preserves the invariant.                                                *)
LEMMA NextAtomic ==
  ASSUME OnlyFailures, IInv, [Next]_vars
  PROVE  IInv'
  <1>1. BaseInv'
    BY NextBase DEF IInv
  <1>2. CASE Next
    <2>1. DataInv' /\ ControlInv'
      BY <1>2, DataInstaller, DataRecovery, DataRest, ControlInstaller, ControlRecovery,
         ControlRest DEF Next
    <2>2. orphans' = {}
      BY <1>2, Undisturbed DEF IInv, AtomicInv, Next, env, procs, InstallerStep, Prepare, Arm, SpawnGuard,
         PublishHelper, Publish, RetireTimer, EnableRestore, PublishProgram, Switch, Activate,
         RestartFilter, Commit, Cleanup, Abort, InstallFault, InstallFails, ActivateFails,
         RestartFails, CleanupFails, RunStep, StartInstall, GuardWakes, Check, OrphanActs,
         RecoveryStep, Scan, Scanned, RbRead, RbOff, RbAux, RbFile, RbFlags, RbFilter, RbSave,
         Rmtree, RollbackRaises, ProcStep, Acquire, RecoveryFails, Kill, EnvStep,
         StartRestore, BringUpFilter, Crash
    <2>3. QED BY <1>1, <2>1, <2>2 DEF IInv, AtomicInv, DataInv, ControlInv
  <1>3. CASE UNCHANGED vars
    <2>1. DataInv' /\ ControlInv'
      BY <1>3, DataFrame, ControlFrame DEF vars, host, txn, IInv, AtomicInv, DataInv, ControlInv
    <2>2. QED BY <1>1, <1>3, <2>1 DEF vars, IInv, AtomicInv, DataInv, ControlInv
  <1>4. QED BY <1>2, <1>3

(* The installer's inductive invariant, for every set of runs and every    *)
(* number of failures, kills and power cuts.                               *)
THEOREM InstallInvariant == ASSUME OnlyFailures PROVE Spec => []IInv
  <1>1. Init => IInv
    BY InitAtomic
  <1>2. IInv /\ [Next]_vars => IInv'
    BY NextAtomic
  <1>3. QED BY <1>1, <1>2, PTL DEF Spec

(* Whatever fails, dies or loses power wherever: when no journal is        *)
(* pending, the published files are one release, all of it.                *)
THEOREM ReleasesNeverMix == ASSUME OnlyFailures PROVE Spec => []NeverMixed
  <1>1. IInv => NeverMixed
    BY DEF IInv, AtomicInv
  <1>2. QED BY <1>1, InstallInvariant, PTL

(* A run that did not commit has left no file of its own, once its journal *)
(* is not pending.                                                         *)
THEOREM FailedRunsLeaveNoTrace == ASSUME OnlyFailures PROVE Spec => []NoTrace
  <1>1. IInv => NoTrace
    BY DEF IInv, AtomicInv
  <1>2. QED BY <1>1, InstallInvariant, PTL

-----------------------------------------------------------------------------
(***************************************************************************)
(* Install implements AtomicInstall under the mapping files <- Promised,   *)
(* flags <- PromisedFlags.                                                 *)
(***************************************************************************)

(* Both modules take their paths, units and contents from Layout.          *)
LEMMA SameLayout ==
  /\ Atomic!Cli = Cli /\ Atomic!TimerUnit = TimerUnit /\ Atomic!State = State
  /\ Atomic!Config = Config /\ Atomic!Published = Published /\ Atomic!Disk = Disk
  /\ Atomic!Unit = Unit /\ Atomic!Flags = Flags
  /\ Atomic!Running = Running /\ Atomic!Stopped = Stopped
  BY DEF Atomic!Cli, Cli, Atomic!TimerUnit, TimerUnit, Atomic!State, State, Atomic!Config,
     Config, Atomic!Published, Published, Atomic!Disk, Disk, Atomic!File, File,
     Atomic!Content, Content, Atomic!Unit, Unit, Atomic!Flags, Flags, Atomic!Running,
     Running, Atomic!Stopped, Stopped

(* What the user sees of a pending transaction r: its backups, and the     *)
(* flags from before, except those of a filter that nobody touched.        *)
SeenFlags(units, j) ==
  [u \in Unit |-> IF u = "filter" /\ ~j.fresh /\ ~j.filter_touched THEN units[u] ELSE j.prior[u]]

(* Of a pending transaction the user sees that.                            *)
LEMMA SeenPending ==
  ASSUME BaseInv, NEW r \in Run, r \in dirs, Applying(r)
  PROVE  Promised = journal[r].backup /\ PromisedFlags = SeenFlags(unit, journal[r])
  <1>1. Pending = {r}
    BY DEF BaseInv, TxnInv, OneTransaction, Pending
  <1>2. Open = journal[r]
    BY <1>1 DEF Open
  <1>3. QED BY <1>1, <1>2 DEF Promised, PromisedFlags, SeenFlags

(* The same of the state after a step.                                     *)
LEMMA SeenPendingNext ==
  ASSUME BaseInv', NEW r \in Run, r \in dirs', Applying(r)'
  PROVE  Promised' = journal'[r].backup /\ PromisedFlags' = SeenFlags(unit', journal'[r])
  <1>1. Pending' = {r}
    BY DEF BaseInv, TxnInv, OneTransaction, Pending
  <1>2. Open' = journal'[r]
    BY <1>1 DEF Open
  <1>3. QED BY <1>1, <1>2 DEF Promised, PromisedFlags, SeenFlags

(* With nothing pending the user sees the machine itself.                  *)
LEMMA SeenSettled ==
  ASSUME BaseInv, Pending = {}
  PROVE  Promised = disk /\ PromisedFlags = unit
  BY DEF Promised, PromisedFlags, BaseInv, TypeOK, HostOK

(* The same of the state after a step.                                     *)
LEMMA SeenSettledNext ==
  ASSUME BaseInv', Pending' = {}
  PROVE  Promised' = disk' /\ PromisedFlags' = unit'
  BY DEF Promised, PromisedFlags, BaseInv, TypeOK, HostOK

(* A step under a pending journal that leaves the transactions alone, and  *)
(* the filter's flags unless the journal says that they are touched, is    *)
(* not seen.                                                               *)
LEMMA UnseenPending ==
  ASSUME BaseInv, BaseInv', NEW r \in Run, r \in dirs, Applying(r), UNCHANGED txn,
         \/ journal[r].fresh \/ journal[r].filter_touched
         \/ unit'["filter"] = unit["filter"]
  PROVE  UNCHANGED Atomic!vars
  <1>1. r \in dirs' /\ Applying(r)' /\ journal'[r] = journal[r] /\ committed' = committed
    BY DEF Applying, txn
  <1>2. SeenFlags(unit', journal'[r]) = SeenFlags(unit, journal[r])
    BY <1>1 DEF SeenFlags
  <1>3. QED BY <1>1, <1>2, SeenPending, SeenPendingNext DEF Atomic!vars

(* A step that changes neither the machine nor a transaction is not seen.  *)
LEMMA UnseenFrame ==
  ASSUME UNCHANGED <<host, txn>>
  PROVE  UNCHANGED Atomic!vars
  BY DEF host, txn, Atomic!vars, Promised, PromisedFlags, Open, Pending, Applying

(* The steps of an installer are not seen, except for its commit, and that *)
(* changes everything at once.                                             *)
LEMMA SeenInstaller ==
  ASSUME IInv, IInv', NEW r \in Run, InstallerStep(r)
  PROVE  Atomic!Commit(r) \/ UNCHANGED Atomic!vars
  <1> DEFINE p == Installer(r)
             j == journal[r]
  <1>b. BaseInv /\ BaseInv' /\ PublishAt(r) /\ JournalInv
    BY DEF IInv, AtomicInv, PublishInv
  <1>t. p \in Proc
    BY ProcNames
  <1> USE <1>b, <1>t, Typed, ProcNames, Names DEF Goto, host, txn, env
  <1>d. pc[p] \in ApplyLabel => dirs = {r}
    BY DEF BaseInv, OwnerInv
  <1>a. pc[p] \in ApplyLabel \ {"arm"} => Applying(r)
    BY DEF BaseInv, OwnerInv
  <1>1. CASE Prepare(r)
    <2>1. dirs = {} /\ dirs' = {r} /\ UNCHANGED <<disk, unit, committed>>
      BY <1>1 DEF Prepare, BaseInv, OwnerInv
    <2>2. journal'[r].phase = "preparing"
      BY <1>1 DEF Prepare
    <2>3. Pending = {} /\ Pending' = {}
      BY <2>1, <2>2 DEF Pending, Applying
    <2>4. QED BY <2>1, <2>3, SeenSettled, SeenSettledNext DEF Atomic!vars
  <1>2. CASE Arm(r)
    <2>1. dirs = {r} /\ dirs' = {r} /\ UNCHANGED <<disk, unit, committed>> /\ pc[p] = "arm"
      BY <1>2, <1>d DEF Arm, ApplyLabel
    <2>2. /\ journal'[r].phase = "applying" /\ journal'[r].backup = j.backup
          /\ journal'[r].prior = j.prior
      BY <1>2, JournalUpdate DEF Arm, Phase
    <2>3. Pending = {}
      BY <2>1 DEF Pending, Applying, BaseInv, OwnerInv
    <2>4. j.backup = disk /\ j.prior = unit
      BY <2>1 DEF PublishAt
    <2>5. SeenFlags(unit', journal'[r]) = unit
      BY <2>1, <2>2, <2>4 DEF SeenFlags
    <2>6. QED BY <2>1, <2>2, <2>3, <2>4, <2>5, SeenSettled, SeenPendingNext DEF Atomic!vars, Applying
  <1>3. CASE Abort(r)
    BY <1>3, UnseenFrame DEF Abort
  <1>4. CASE SpawnGuard(r) \/ PublishHelper(r) \/ PublishProgram(r) \/ EnableRestore(r)
    <2>1. /\ pc[p] \in ApplyLabel \ {"arm"} /\ UNCHANGED txn
          /\ unit'["filter"] = unit["filter"]
      BY <1>4 DEF SpawnGuard, PublishHelper, PublishProgram, Publish, EnableRestore, ApplyLabel
    <2>2. QED BY <2>1, <1>d, <1>a, UnseenPending
  <1>5. CASE RetireTimer(r)
    <2>1. /\ pc[p] \in ApplyLabel \ {"arm"} /\ UNCHANGED txn
          /\ unit'["filter"] = unit["filter"]
      BY <1>5 DEF RetireTimer, ApplyLabel
    <2>2. QED BY <2>1, <1>d, <1>a, UnseenPending
  <1>6. CASE Activate(r) \/ RestartFilter(r)
    <2>1. pc[p] \in {"activate", "restart"} /\ pc[p] \in ApplyLabel \ {"arm"} /\ UNCHANGED txn
      BY <1>6 DEF Activate, RestartFilter, ApplyLabel
    <2>2. j.fresh \/ j.filter_touched
      BY <2>1, <1>d DEF PublishAt, JournalInv
    <2>3. QED BY <2>1, <2>2, <1>d, <1>a, UnseenPending
  <1>7. CASE Switch(r)
    <2>1. /\ pc[p] = "switch" /\ dirs = {r} /\ Applying(r)
          /\ UNCHANGED <<disk, unit, dirs, committed>>
      BY <1>7, <1>d, <1>a DEF Switch, ApplyLabel
    <2>2. /\ journal'[r].phase = j.phase /\ journal'[r].fresh = j.fresh
          /\ journal'[r].prior = j.prior /\ journal'[r].backup = j.backup
      BY <1>7 DEF Switch, Journal
    <2>3. unit["filter"] = j.prior["filter"]
      BY <2>1 DEF PublishAt, Unswitched
    <2>4. SeenFlags(unit', journal'[r]) = SeenFlags(unit, j)
      BY <2>1, <2>2, <2>3 DEF SeenFlags
    <2>5. QED BY <2>1, <2>2, <2>4, SeenPending, SeenPendingNext DEF Atomic!vars, Applying
  <1>8. CASE Commit(r)
    <2>1. /\ pc[p] = "commit" /\ dirs = {r} /\ Applying(r)
          /\ UNCHANGED <<disk, unit, loaded, dirs>> /\ committed' = committed \cup {r}
      BY <1>8, <1>d, <1>a DEF Commit, ApplyLabel
    <2>2. r \notin committed
      BY <2>1 DEF BaseInv, TxnInv
    <2>3. journal'[r].phase = "committed"
      BY <1>8, JournalUpdate DEF Commit, Phase
    <2>4. Pending' = {}
      BY <2>1, <2>3 DEF Pending, Applying
    <2>5. Promised' = disk /\ PromisedFlags' = unit
      BY <2>1, <2>4, SeenSettledNext
    <2>6. Promised = j.backup /\ PromisedFlags = SeenFlags(unit, j)
      BY <2>1, SeenPending
    <2>7. j.fresh <=> Promised[Cli] = Absent
      BY <2>1, <2>6 DEF JournalInv
    <2>8. /\ \A f \in Published : disk[f] = r
          /\ disk[TimerUnit] = Absent
          /\ ~j.fresh => disk[State] = j.backup[State] /\ disk[Config] = j.backup[Config]
      BY <2>1 DEF PublishAt, ApplyLabel, Published, Cli, Plugin, FilterUnit, Lifecycle, RestoreUnit
    <2>9. /\ j.fresh => unit["filter"] = Running
          /\ ~j.fresh => unit["filter"] = j.prior["filter"]
          /\ unit["restore"].enabled /\ unit["restore"].active = j.prior["restore"].active
          /\ unit["timer"] = Stopped
      BY <2>1 DEF PublishAt, ApplyLabel
    <2>10. unit["filter"] = IF j.fresh THEN Running ELSE PromisedFlags["filter"]
      BY <2>6, <2>9 DEF SeenFlags
    <2>11. unit["restore"] = [PromisedFlags["restore"] EXCEPT !.enabled = TRUE]
      <3>1. PromisedFlags["restore"] = j.prior["restore"]
        BY <2>6 DEF SeenFlags
      <3>2. QED BY <2>9, <3>1 DEF Flags
    <2>12. Atomic!Commit(r)
      BY <2>1, <2>2, <2>5, <2>6, <2>7, <2>8, <2>9, <2>10, <2>11, SameLayout
         DEF Atomic!Commit, Atomic!Fresh
    <2>13. QED BY <2>12
  <1>9. CASE Cleanup(r)
    <2>1. dirs = {r} /\ dirs' = {} /\ UNCHANGED <<disk, unit, committed>> /\ ~Applying(r)
      BY <1>9 DEF Cleanup, Remove, BaseInv, OwnerInv, Applying
    <2>2. Pending = {} /\ Pending' = {}
      BY <2>1 DEF Pending
    <2>3. QED BY <2>1, <2>2, SeenSettled, SeenSettledNext DEF Atomic!vars
  <1>10. QED BY <1>1, <1>2, <1>3, <1>4, <1>5, <1>6, <1>7, <1>8, <1>9 DEF InstallerStep

(* No step of recover or rollback is seen: it works towards what the user  *)
(* already sees.                                                           *)
LEMMA SeenRecovery ==
  ASSUME IInv, IInv', NEW p \in Proc, RecoveryStep(p)
  PROVE  UNCHANGED Atomic!vars
  <1>b. BaseInv /\ BaseInv' /\ PhaseAt(p) /\ RollbackAt(p) /\ JournalInv
    BY DEF IInv, AtomicInv, PhaseInv, RollbackInv
  <1> USE <1>b, Typed, ProcNames, Names DEF Goto, host, txn, env
  <1>r. pc[p] \in RollbackLabel => target[p] \in Run /\ dirs = {target[p]}
    BY DEF BaseInv, OwnerInv
  <1>a. pc[p] \in RolledBack => Applying(target[p])
    BY DEF PhaseAt
  <1>1. CASE Scan(p) \/ Scanned(p) \/ RbRead(p) \/ RollbackRaises(p)
    BY <1>1, UnseenFrame DEF Scan, Scanned, RbRead, RollbackRaises
  <1>2. CASE RbOff(p) \/ RbAux(p) \/ RbFile(p) \/ RbFlags(p) \/ RbFilter(p)
    <2>1. pc[p] \in RolledBack /\ pc[p] \in RollbackLabel /\ UNCHANGED txn
      BY <1>2 DEF RbOff, RbAux, RbFile, RbFlags, RbFilter, RolledBack, RollbackLabel
    <2>2. PICK r \in Run : r = target[p] /\ dirs = {r} /\ Applying(r)
      BY <2>1, <1>r, <1>a
    <2>3. journal[r].fresh \/ journal[r].filter_touched \/ unit'["filter"] = unit["filter"]
      BY <1>2, <2>2 DEF RbOff, RbAux, RbFile, RbFlags, RbFilter, RunsOff
    <2>4. QED BY <2>1, <2>2, <2>3, UnseenPending
  <1>3. CASE RbSave(p)
    <2>1. PICK r \in Run : r = target[p] /\ dirs = {r} /\ Applying(r)
      BY <1>3, <1>r, <1>a DEF RbSave, RolledBack, RollbackLabel
    <2>2. pc[p] = "rb_save" /\ UNCHANGED <<disk, unit, dirs, committed>>
      BY <1>3 DEF RbSave
    <2>3. disk = journal[r].backup
      BY <2>1, <2>2 DEF RollbackAt
    <2>4. \A u \in {"restore", "timer"} : unit[u] = journal[r].prior[u]
      BY <2>1, <2>2 DEF RollbackAt
    <2>5. journal[r].fresh \/ journal[r].filter_touched => unit["filter"] = journal[r].prior["filter"]
      BY <2>1, <2>2 DEF RollbackAt
    <2>6. SeenFlags(unit, journal[r]) = unit
      <3>1. \A u \in Unit : SeenFlags(unit, journal[r])[u] = unit[u]
        BY <2>4, <2>5 DEF SeenFlags, Unit
      <3>2. QED BY <3>1 DEF SeenFlags
    <2>7. journal'[r].phase = "rolled_back"
      BY <1>3, <2>1, JournalUpdate DEF RbSave, Phase
    <2>8. Pending' = {}
      BY <2>1, <2>2, <2>7 DEF Pending, Applying
    <2>9. QED BY <2>1, <2>2, <2>3, <2>6, <2>8, SeenPending, SeenSettledNext DEF Atomic!vars
  <1>4. CASE Rmtree(p)
    <2>1. PICK r \in Run : r = target[p] /\ dirs = {r} /\ ~Applying(r)
      BY <1>4, <1>r DEF Rmtree, BaseInv, OwnerInv, RollbackLabel
    <2>2. dirs' = {} /\ UNCHANGED <<disk, unit, committed>>
      BY <1>4, <2>1 DEF Rmtree, Remove
    <2>3. Pending = {} /\ Pending' = {}
      BY <2>1, <2>2 DEF Pending
    <2>4. QED BY <2>2, <2>3, SeenSettled, SeenSettledNext DEF Atomic!vars
  <1>5. QED BY <1>1, <1>2, <1>3, <1>4 DEF RecoveryStep

(* Nor is a failure or a death; the oneshot's start of the filter and a    *)
(* reboot are seen as what they are.                                       *)
LEMMA SeenRest ==
  ASSUME OnlyFailures, IInv, IInv',
         \/ \E r \in Run : InstallFault(r) \/ RunStep(r)
         \/ \E p \in Proc : ProcStep(p)
         \/ EnvStep
  PROVE  Atomic!BringUp \/ Atomic!Reboot \/ UNCHANGED Atomic!vars
  <1>b. BaseInv /\ BaseInv' /\ JournalInv /\ PublishInv /\ orphans = {}
    BY DEF IInv, AtomicInv
  <1> USE <1>b, Typed, ProcNames, Names DEF Goto, host, txn, procs, env
  <1>1. ASSUME NEW r \in Run, InstallFault(r) PROVE UNCHANGED Atomic!vars
    <2>1. CASE InstallFails(r) \/ CleanupFails(r)
      BY <2>1, UnseenFrame DEF InstallFails, CleanupFails
    <2>2. CASE ActivateFails(r) \/ RestartFails(r)
      <3>1. pc[Installer(r)] \in {"activate", "restart"} /\ UNCHANGED txn
        BY <2>2 DEF ActivateFails, RestartFails
      <3>2. dirs = {r} /\ Applying(r)
        BY <3>1 DEF BaseInv, OwnerInv, ApplyLabel
      <3>3. journal[r].fresh \/ journal[r].filter_touched
        BY <3>1, <3>2 DEF PublishInv, PublishAt, JournalInv
      <3>4. QED BY <3>1, <3>2, <3>3, UnseenPending
    <2>3. QED BY <1>1, <2>1, <2>2, Undisturbed DEF InstallFault
  <1>2. ASSUME NEW r \in Run, RunStep(r) PROVE UNCHANGED Atomic!vars
    BY <1>2, UnseenFrame DEF RunStep, StartInstall, GuardWakes, Check, OrphanActs
  <1>3. ASSUME NEW p \in Proc, ProcStep(p) PROVE UNCHANGED Atomic!vars
    BY <1>3, UnseenFrame DEF ProcStep, Acquire, RecoveryFails, Kill, Dies
  <1>4. CASE StartRestore
    BY <1>4, UnseenFrame DEF StartRestore
  <1>5. CASE BringUpFilter
    <2>1. dirs = {} /\ UNCHANGED <<disk, txn>>
      BY <1>5 DEF BringUpFilter, BaseInv, OwnerInv
    <2>2. Pending = {} /\ Pending' = {}
      BY <2>1 DEF Pending
    <2>3. /\ Promised = disk /\ PromisedFlags = unit
          /\ Promised' = disk' /\ PromisedFlags' = unit'
      BY <2>2, SeenSettled, SeenSettledNext
    <2>4. CASE UNCHANGED unit
      BY <2>1, <2>3, <2>4 DEF Atomic!vars
    <2>5. CASE ~UNCHANGED unit
      <3>1. PICK a \in BOOLEAN :
              unit' = [unit EXCEPT !["filter"] =
                         [enabled |-> unit["filter"].enabled \/ ~unit["filter"].active, active |-> a]]
        BY <1>5, <2>5 DEF BringUpFilter
      <3>2. (unit["filter"].enabled \/ ~unit["filter"].active) \in {unit["filter"].enabled, TRUE}
        BY DEF Flags
      <3>3. QED BY <2>1, <2>3, <3>1, <3>2 DEF Atomic!BringUp
    <2>6. QED BY <2>4, <2>5
  <1>6. CASE Crash
    <2>1. UNCHANGED <<disk, dirs, journal, committed>>
      BY <1>6 DEF Crash
    <2>2. PICK a \in BOOLEAN :
            unit' = [unit EXCEPT !["filter"].active = a, !["timer"].active = unit["timer"].enabled]
      BY <1>6 DEF Crash, Flags
    <2>3. \A u \in Unit : unit'[u].enabled = unit[u].enabled
      BY <2>2 DEF Flags
    <2>4. CASE Pending = {}
      <3>1. Pending' = {}
        BY <2>1, <2>4 DEF Pending, Applying
      <3>2. /\ Promised = disk /\ PromisedFlags = unit
            /\ Promised' = disk' /\ PromisedFlags' = unit'
        BY <2>4, <3>1, SeenSettled, SeenSettledNext
      <3>3. unit' \in [Unit -> Flags]
        BY DEF BaseInv, TypeOK, HostOK
      <3>4. QED BY <2>1, <2>3, <3>2, <3>3, SameLayout DEF Atomic!Reboot
    <2>5. CASE Pending # {}
      <3>1. PICK r \in Run : r \in dirs /\ Applying(r)
        BY <2>5 DEF Pending
      <3>2. r \in dirs' /\ Applying(r)' /\ journal'[r] = journal[r]
        BY <2>1, <3>1 DEF Applying
      <3>3. /\ Promised = journal[r].backup /\ PromisedFlags = SeenFlags(unit, journal[r])
            /\ Promised' = journal[r].backup /\ PromisedFlags' = SeenFlags(unit', journal[r])
        BY <3>1, <3>2, SeenPending, SeenPendingNext
      <3>4. unit' \in [Unit -> Flags]
        BY DEF BaseInv, TypeOK, HostOK
      <3>5. PromisedFlags' \in [Unit -> Flags]
        BY <3>3, <3>4 DEF SeenFlags
      <3>6. \A u \in Unit : PromisedFlags'[u].enabled = PromisedFlags[u].enabled
        BY <2>3, <3>3 DEF SeenFlags
      <3>7. QED BY <2>1, <3>3, <3>5, <3>6, SameLayout DEF Atomic!Reboot
    <2>6. QED BY <2>4, <2>5
  <1>7. QED BY <1>1, <1>2, <1>3, <1>4, <1>5, <1>6, Undisturbed DEF EnvStep

(* The journaled installer implements the atomic one: seen through the     *)
(* pending journal, the installation changes only by the whole commit of a *)
(* run, by the oneshot and by a reboot.                                    *)
THEOREM InstallIsAtomic == ASSUME OnlyFailures PROVE Spec => ImplementsAtomicInstall
  <1>1. Init => Atomic!Init
    <2> SUFFICES ASSUME Init PROVE Atomic!Init
      OBVIOUS
    <2>1. BaseInv /\ Pending = {}
      BY InitBase DEF Init, Pending
    <2>2. QED BY <2>1, SeenSettled, Typed, SameLayout DEF Init, Atomic!Init
  <1>2. IInv /\ IInv' /\ [Next]_vars => [Atomic!Next]_(Atomic!vars)
    <2> SUFFICES ASSUME IInv, IInv', [Next]_vars PROVE [Atomic!Next]_(Atomic!vars)
      OBVIOUS
    <2>1. CASE UNCHANGED vars
      BY <2>1, UnseenFrame DEF vars, host, txn
    <2>2. CASE Next
      BY <2>2, SeenInstaller, SeenRecovery, SeenRest DEF Next, Atomic!Next
    <2>3. QED BY <2>1, <2>2
  <1>3. QED BY <1>1, <1>2, InstallInvariant, PTL DEF Spec, ImplementsAtomicInstall, Atomic!Spec

-----------------------------------------------------------------------------
(***************************************************************************)
(* The running filter.  A power cut is excluded here: at boot systemd      *)
(* starts the enabled filter with whatever plugin lies there, and the      *)
(* rollback of a reinstallation that had not switched leaves it running.   *)
(***************************************************************************)

(* A pending journal is that of the one transaction.                       *)
LEMMA OnePending ==
  ASSUME BaseInv, NEW r \in Run, Applying(r)
  PROVE  dirs = {r}
  BY DEF BaseInv, TxnInv, OneTransaction, Applying, NoJournal

(* No candidate is loaded once its rollback is past stopping the filter,   *)
(* nor when nothing is pending.                                            *)
LEMMA LoadedGone ==
  ASSUME BaseInv, LoadedInv, NEW s \in Run \ committed,
         \/ \E p \in Proc : pc[p] \in RolledBack \ {"rb_off"}
         \/ ~Applying(s)
  PROVE  loaded # s
  BY DEF LoadedInv

(* Steps that change neither the filter nor a transaction, nor get a       *)
(* rollback past the point where it stops the filter.                      *)
LEMMA LoadedFrame ==
  ASSUME LoadedInv, UNCHANGED <<loaded, txn>>, unit'["filter"] = unit["filter"],
         \A p \in Proc : pc'[p] \in RolledBack \ {"rb_off"} => pc[p] \in RolledBack \ {"rb_off"}
  PROVE  LoadedInv'
  BY DEF LoadedInv, Applying, txn

(* An installer loads its own version, under a journal that says so.       *)
LEMMA LoadedInstaller ==
  ASSUME IInv, LoadedInv, NEW r \in Run, InstallerStep(r)
  PROVE  LoadedInv'
  <1> DEFINE p == Installer(r)
  <1>b. BaseInv /\ PublishAt(r)
    BY DEF IInv, AtomicInv, PublishInv
  <1>t. p \in Proc
    BY ProcNames
  <1> USE <1>b, <1>t, Typed, ProcNames, Names DEF Goto, host, txn, env
  <1>a. pc[p] \in ApplyLabel \ {"arm"} => dirs = {r} /\ Applying(r)
    BY DEF BaseInv, OwnerInv
  <1>1. CASE Prepare(r) \/ Arm(r) \/ Cleanup(r)
    <2>1. ~Applying(r) /\ \A s \in Run \ {r} : ~Applying(s)
      <3>1. dirs = {} \/ (dirs = {r} /\ ~Applying(r))
        BY <1>1 DEF Prepare, Arm, Cleanup, Applying, BaseInv, OwnerInv, ApplyLabel
      <3>2. \A s \in Run : Applying(s) => dirs = {s}
        BY OnePending
      <3>3. QED BY <3>1, <3>2
    <2>2. \A s \in Run \ committed : loaded # s
      BY <2>1, LoadedGone
    <2>3. UNCHANGED <<loaded, unit, committed>>
      BY <1>1 DEF Prepare, Arm, Cleanup
    <2>4. QED BY <2>2, <2>3 DEF LoadedInv
  <1>2. CASE SpawnGuard(r) \/ PublishHelper(r) \/ PublishProgram(r) \/ EnableRestore(r)
    BY <1>2, LoadedFrame DEF SpawnGuard, PublishHelper, PublishProgram, Publish, EnableRestore,
       RolledBack
  <1>3. CASE RetireTimer(r) \/ Abort(r)
    BY <1>3, LoadedFrame DEF RetireTimer, Abort, RolledBack
  <1>4. CASE Switch(r)
    <2>1. dirs = {r} /\ UNCHANGED <<loaded, unit, committed>>
      BY <1>4, <1>a DEF Switch, ApplyLabel
    <2>2. /\ journal'[r].phase = journal[r].phase
          /\ journal[r].activation_started => journal'[r].activation_started
          /\ journal[r].filter_touched => journal'[r].filter_touched
          /\ \A s \in Run \ {r} : journal'[s] = journal[s]
      BY <1>4 DEF Switch, Journal
    <2>3. \A q \in Proc : pc'[q] \in RolledBack => pc'[q] = pc[q]
      BY <1>4 DEF Switch, RolledBack
    <2>4. QED BY <2>1, <2>2, <2>3 DEF LoadedInv, Applying
  <1>5. CASE Activate(r) \/ RestartFilter(r)
    <2>1. /\ pc[p] \in {"activate", "restart"} /\ loaded' = disk[Plugin] /\ UNCHANGED txn
          /\ unit'["filter"].active
          /\ \A q \in Proc \ {p} : pc'[q] = pc[q]
          /\ pc'[p] = "commit"
      BY <1>5 DEF Activate, RestartFilter, Running, Flags
    <2>2. dirs = {r} /\ Applying(r) /\ pc[p] \in LockedLabel
      BY <2>1, <1>a DEF ApplyLabel, LockedLabel
    <2>3. /\ disk[Plugin] = r
          /\ journal[r].activation_started \/ journal[r].filter_touched
      BY <2>1 DEF PublishAt
    <2>4. \A q \in Proc : pc'[q] \notin RolledBack
      BY <2>1, <2>2, Alone DEF LockedLabel, RollbackLabel, RolledBack
    <2>5. QED BY <2>1, <2>2, <2>3, <2>4 DEF LoadedInv, Applying
  <1>6. CASE Commit(r)
    <2>1. dirs = {r} /\ UNCHANGED <<loaded, unit>> /\ committed' = committed \cup {r}
      BY <1>6, <1>a DEF Commit, ApplyLabel
    <2>2. \A s \in Run \ committed' : loaded # s
      BY <2>1, LoadedGone, OnePending
    <2>3. QED BY <2>1, <2>2 DEF LoadedInv
  <1>7. QED BY <1>1, <1>2, <1>3, <1>4, <1>5, <1>6 DEF InstallerStep

(* Rollback stops a candidate before it goes on, and starts nothing but    *)
(* what it has restored.                                                   *)
LEMMA LoadedRecovery ==
  ASSUME IInv, LoadedInv, NEW p \in Proc, RecoveryStep(p)
  PROVE  LoadedInv'
  <1> DEFINE r == target[p]
             j == journal[r]
  <1>b. BaseInv /\ BackupInv /\ JournalInv /\ PhaseAt(p) /\ RollbackAt(p)
    BY DEF IInv, AtomicInv, PhaseInv, RollbackInv
  <1> USE <1>b, Typed, ProcNames, Names DEF Goto, host, txn, env
  <1>r. pc[p] \in RollbackLabel => r \in Run /\ dirs = {r}
    BY DEF BaseInv, OwnerInv
  <1>1. CASE Scan(p) \/ Scanned(p) \/ RbRead(p) \/ RollbackRaises(p)
    BY <1>1, LoadedFrame DEF Scan, Scanned, RbRead, RollbackRaises, Leave, RolledBack
  <1>2. CASE RbOff(p)
    <2>1. pc[p] = "rb_off" /\ r \in Run /\ dirs = {r} /\ UNCHANGED txn
      BY <1>2, <1>r DEF RbOff, RollbackLabel
    <2>2. \/ loaded' = Absent
          \/ UNCHANGED host /\ ~unit["filter"].active
          \/ UNCHANGED host /\ ~RunsOff(j) /\ ~j.filter_touched
      <3>1. CASE CliOff
        BY <3>1 DEF CliOff, EffectPresent
      <3>2. CASE ~CliOff
        BY <1>2, <3>2 DEF RbOff
      <3>3. QED BY <3>1, <3>2
    <2>3. CASE loaded' = Absent
      BY <2>3, ContentAssumption DEF LoadedInv
    <2>4. CASE UNCHANGED host /\ ~unit["filter"].active
      BY <2>4, ContentAssumption DEF LoadedInv
    <2>5. CASE UNCHANGED host /\ ~RunsOff(j) /\ ~j.filter_touched
      <3>1. ~j.activation_started /\ ~j.filter_touched
        BY <2>1, <2>5 DEF RunsOff, JournalInv
      <3>2. \A s \in Run \ committed : loaded # s
        <4> SUFFICES ASSUME NEW s \in Run \ committed, loaded = s PROVE FALSE
          OBVIOUS
        <4>1. Applying(s) /\ (journal[s].activation_started \/ journal[s].filter_touched)
          BY DEF LoadedInv
        <4>2. s = r
          BY <2>1, <4>1, OnePending
        <4>3. QED BY <3>1, <4>1, <4>2
      <3>3. QED BY <2>1, <2>5, <3>2 DEF LoadedInv
    <2>6. QED BY <2>2, <2>3, <2>4, <2>5
  <1>3. CASE RbAux(p) \/ RbFile(p) \/ RbFlags(p)
    <2>1. /\ pc[p] \in RolledBack \ {"rb_off"} /\ UNCHANGED <<loaded, txn>>
          /\ unit'["filter"] = unit["filter"]
          /\ \A q \in Proc \ {p} : pc'[q] = pc[q]
      BY <1>3 DEF RbAux, RbFile, RbFlags, RolledBack
    <2>2. QED BY <2>1, LoadedFrame
  <1>4. CASE RbFilter(p)
    <2>1. /\ pc[p] = "rb_filter" /\ pc[p] \in RolledBack \ {"rb_off"}
          /\ r \in Run /\ dirs = {r} /\ UNCHANGED <<disk, txn>>
      BY <1>4, <1>r DEF RbFilter, RollbackLabel, RolledBack
    <2>2. \A s \in Run \ committed : loaded # s
      BY <2>1, LoadedGone
    <2>3. \A s \in Run \ committed : disk[Plugin] # s
      BY <2>1 DEF RollbackAt, BackupInv
    <2>4. loaded' \in {Absent, loaded, disk[Plugin]}
      BY <1>4 DEF RbFilter
    <2>5. loaded' # Absent => unit'["filter"].active
      BY <1>4 DEF RbFilter, LoadedInv
    <2>6. QED BY <2>1, <2>2, <2>3, <2>4, <2>5, ContentAssumption DEF LoadedInv
  <1>5. CASE RbSave(p) \/ Rmtree(p)
    <2>1. UNCHANGED <<loaded, unit, committed>>
      BY <1>5 DEF RbSave, Rmtree
    <2>2. \A s \in Run \ committed : loaded # s
      <3>1. CASE RbSave(p)
        BY <3>1, LoadedGone DEF RbSave, RolledBack
      <3>2. CASE Rmtree(p)
        <4>1. \A s \in Run : ~Applying(s)
          <5>1. r \in Run /\ dirs = {r} /\ ~Applying(r)
            BY <3>2, <1>r DEF Rmtree, RollbackLabel, BaseInv, OwnerInv
          <5> SUFFICES ASSUME NEW s \in Run, Applying(s) PROVE FALSE
            OBVIOUS
          <5>2. dirs = {s}
            BY OnePending
          <5>3. r \in {s}
            BY <5>1, <5>2, Zenon
          <5>4. Applying(r)
            BY <5>3, Zenon
          <5>5. QED BY <5>1, <5>4
        <4>2. QED BY <4>1, LoadedGone
      <3>3. QED BY <1>5, <3>1, <3>2
    <2>3. QED BY <2>1, <2>2 DEF LoadedInv
  <1>6. QED BY <1>1, <1>2, <1>3, <1>4, <1>5 DEF RecoveryStep

(* Failures and kills start nothing else, and the oneshot brings the       *)
(* filter up only when every transaction is resolved.                      *)
LEMMA LoadedRest ==
  ASSUME NoPowerCut, IInv, LoadedInv,
         \/ \E r \in Run : InstallFault(r) \/ RunStep(r)
         \/ \E p \in Proc : ProcStep(p)
         \/ EnvStep
  PROVE  LoadedInv'
  <1>b. BaseInv /\ PublishInv /\ NoTrace /\ orphans = {} /\ OnlyFailures
    BY DEF IInv, AtomicInv, NoPowerCut, OnlyFailures
  <1> USE <1>b, Typed, ProcNames, Names DEF Goto, host, txn, procs, env
  <1>1. ASSUME NEW r \in Run, InstallFault(r) PROVE LoadedInv'
    <2> DEFINE p == Installer(r)
    <2>1. CASE InstallFails(r) \/ CleanupFails(r)
      BY <2>1, LoadedFrame DEF InstallFails, CleanupFails, Leave, RolledBack
    <2>2. CASE ActivateFails(r)
      <3>1. pc[p] = "activate" /\ pc[p] \in LockedLabel /\ dirs = {r} /\ Applying(r) /\ UNCHANGED txn
        BY <2>2 DEF ActivateFails, LockedLabel, ApplyLabel, BaseInv, OwnerInv
      <3>2. disk[Plugin] = r /\ journal[r].activation_started
        BY <3>1 DEF PublishInv, PublishAt
      <3>3. PICK a \in BOOLEAN : /\ unit' = [unit EXCEPT !["filter"] = IF a THEN Running ELSE Stopped]
                                /\ loaded' = IF a THEN disk[Plugin] ELSE Absent
        BY <2>2 DEF ActivateFails
      <3>4. loaded' \in {r, Absent} /\ (loaded' # Absent => unit'["filter"].active)
        BY <3>2, <3>3 DEF Running
      <3>5. \A q \in Proc : pc'[q] \notin RolledBack
        BY <2>2, <3>1, Alone DEF ActivateFails, LockedLabel, RollbackLabel, RolledBack
      <3>6. QED BY <3>1, <3>2, <3>4, <3>5, ContentAssumption DEF LoadedInv, Applying
    <2>3. CASE RestartFails(r)
      <3>1. loaded' = Absent
        BY <2>3 DEF RestartFails
      <3>2. QED BY <3>1, ContentAssumption DEF LoadedInv
    <2>4. QED BY <1>1, <2>1, <2>2, <2>3, Undisturbed DEF InstallFault
  <1>2. ASSUME NEW r \in Run, RunStep(r) PROVE LoadedInv'
    BY <1>2, LoadedFrame DEF RunStep, StartInstall, GuardWakes, Check, Leave, OrphanActs, RolledBack
  <1>3. ASSUME NEW p \in Proc, ProcStep(p) PROVE LoadedInv'
    BY <1>3, LoadedFrame DEF ProcStep, Acquire, RecoveryFails, Leave, Kill, Dies, RolledBack, EndLabel
  <1>4. CASE StartRestore
    BY <1>4, LoadedFrame DEF StartRestore, RolledBack
  <1>5. CASE BringUpFilter
    <2>1. dirs = {} /\ UNCHANGED <<disk, txn>>
      BY <1>5 DEF BringUpFilter, BaseInv, OwnerInv
    <2>2. \A s \in Run : ~Applying(s)
      BY <2>1, OnePending
    <2>3. \A s \in Run \ committed : loaded # s /\ disk[Plugin] # s
      BY <2>2, LoadedGone DEF NoTrace
    <2>4. loaded' \in {Absent, loaded, disk[Plugin]}
      BY <1>5 DEF BringUpFilter
    <2>5. loaded' # Absent => unit'["filter"].active
      <3>1. CASE UNCHANGED <<unit, loaded>>
        BY <3>1 DEF LoadedInv
      <3>2. CASE ~UNCHANGED <<unit, loaded>>
        <4>1. PICK a \in BOOLEAN :
                /\ unit' = [unit EXCEPT !["filter"] =
                     [enabled |-> unit["filter"].enabled \/ ~unit["filter"].active, active |-> a]]
                /\ loaded' = IF a THEN disk[Plugin] ELSE Absent
          BY <1>5, <3>2 DEF BringUpFilter
        <4>2. QED BY <4>1
      <3>3. QED BY <3>1, <3>2
    <2>6. QED BY <2>1, <2>3, <2>4, <2>5, ContentAssumption DEF LoadedInv
  <1>6. ~Crash
    BY DEF Crash, Disturb, NoPowerCut
  <1>7. QED BY <1>1, <1>2, <1>3, <1>4, <1>5, <1>6, Undisturbed DEF EnvStep

(* A candidate plugin does not stay loaded after its rollback, whatever    *)
(* fails or is killed: the rollback stops the filter before it replaces    *)
(* the library (id14-sr-lifecycle.py line 158).                            *)
THEOREM CandidateIsStopped == ASSUME NoPowerCut PROVE Spec => []CandidateStopped
  <1>f. OnlyFailures
    BY DEF NoPowerCut, OnlyFailures
  <1>1. Init => LoadedInv
    BY ContentAssumption DEF Init, LoadedInv
  <1>2. IInv /\ LoadedInv /\ [Next]_vars => LoadedInv'
    <2> SUFFICES ASSUME IInv, LoadedInv, [Next]_vars PROVE LoadedInv'
      OBVIOUS
    <2>1. CASE UNCHANGED vars
      BY <2>1, LoadedFrame DEF vars, txn
    <2>2. CASE Next
      BY <2>2, LoadedInstaller, LoadedRecovery, LoadedRest DEF Next
    <2>3. QED BY <2>1, <2>2
  <1>3. LoadedInv => CandidateStopped
    BY DEF LoadedInv, CandidateStopped
  <1>4. Spec => []IInv
    BY <1>f, InstallInvariant
  <1>5. QED BY <1>1, <1>2, <1>3, <1>4, PTL DEF Spec
==============================================================================

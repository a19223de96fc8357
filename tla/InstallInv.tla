----------------------------- MODULE InstallInv -----------------------------
(***************************************************************************)
(* The inductive invariant behind the theorems of InstallProofs: which     *)
(* labels a kind of process visits, who holds the lock, what transaction   *)
(* it holds the lock for, and how far disk and units are at each label.    *)
(***************************************************************************)
EXTENDS Install

InstallerLabel == {"idle", "lock", "scan", "prepare", "abort", "cleanup"}
                    \cup ApplyLabel \cup RollbackLabel \cup EndLabel
GuardLabel     == {"idle", "spawned", "lock", "check"} \cup RollbackLabel \cup EndLabel
RestorerLabel  == {"idle", "lock", "scan", "bring_up"} \cup RollbackLabel

LabelInv ==
  /\ \A r \in Run : pc[Installer(r)] \in InstallerLabel /\ pc[Guard(r)] \in GuardLabel
  /\ pc[Restorer] \in RestorerLabel

LockInv == \A p \in Proc : pc[p] \in LockedLabel <=> holder = p

(* A transaction that does not exist has no journal, and the one that does *)
(* is the only one.                                                        *)
TxnInv ==
  /\ \A r \in Run : r \notin dirs => journal[r] = NoJournal
  /\ OneTransaction
  /\ \A r \in committed : pc[Installer(r)] \in {"cleanup", "done", "dead"} /\ ~Applying(r)

(* Who holds the lock knows its transaction, and which file it is at.       *)
RolledBack == {"rb_off", "rb_aux", "rb_file", "rb_flags", "rb_filter", "rb_save"}
OwnerInv ==
  /\ \A r \in Run :
       /\ pc[Installer(r)] = "prepare" => dirs = {}
       /\ pc[Installer(r)] \in ApplyLabel \cup {"abort", "cleanup"} => dirs = {r}
       /\ pc[Installer(r)] = "helper" => todo[Installer(r)] \in {Lifecycle, RestoreUnit}
       /\ pc[Installer(r)] \in {"retire", "enable"} => todo[Installer(r)] = Cli
       /\ pc[Installer(r)] = "publish" => todo[Installer(r)] \in {Cli, Plugin, FilterUnit}
       /\ pc[Installer(r)] = "arm" => journal[r].phase = "preparing"
       /\ pc[Installer(r)] \in ApplyLabel \ {"arm"} => Applying(r)
       /\ pc[Installer(r)] = "cleanup" => journal[r].phase = "committed"
       /\ pc[Guard(r)] \in RollbackLabel => target[Guard(r)] = r
       /\ pc[Guard(r)] \in RolledBack => r \notin committed
  /\ pc[Restorer] = "bring_up" => dirs = {}
  /\ \A p \in Proc :
       /\ pc[p] \in RollbackLabel => target[p] \in Run /\ dirs = {target[p]}
       /\ pc[p] = "rb_read" => Saved(target[p])
       /\ pc[p] = "rmtree" => ~Applying(target[p])

-----------------------------------------------------------------------------
(***************************************************************************)
(* What holds besides as long as nothing but failures, kills and power     *)
(* cuts disturbs (no orphan, no gap, no concurrent mix).                   *)
(***************************************************************************)

OnlyFailures == Faults \subseteq {"fail", "kill", "crash"}

(* A run has no transaction before its installer makes one.                *)
NewcomerInv ==
  \A r \in Run : pc[Installer(r)] \in {"idle", "lock", "scan", "prepare"} => r \notin dirs

(* Without CommitGap, only a pending transaction is rolled back.           *)
PhaseAt(p) ==
  /\ pc[p] \in RolledBack => Applying(target[p])
  /\ pc[p] = "rb_read" /\ Forced(p) => Applying(target[p])
  /\ pc[p] = "abort" => \A r \in dirs : journal[r].phase \in {"preparing", "applying"}
PhaseInv == \A p \in Proc : PhaseAt(p)

(* The journal tells the truth about the installation it replaces.         *)
JournalInv ==
  \A r \in Run : r \in dirs =>
    /\ journal[r].fresh <=> journal[r].backup[Cli] = Absent
    /\ journal[r].activation_started => journal[r].fresh
    /\ journal[r].filter_touched => ~journal[r].fresh

(* What the backups of an unfinished transaction hold is a release with    *)
(* nothing missing, and nobody's files without a commit: both were so of   *)
(* the files they are copies of, and are so again after a rollback.        *)
BackupInv ==
  /\ \A r \in dirs : journal[r].phase \in {"preparing", "applying"} => Whole(journal[r].backup)
  /\ \A s \in dirs, r \in Run \ committed : \A f \in File : journal[s].backup[f] # r

Unswitched == {"arm", "spawn", "helper", "retire", "enable", "publish", "switch"}

(* How far an installer has got.                                           *)
PublishAt(r) ==
  LET l == pc[Installer(r)]
      j == journal[r]
      k == todo[Installer(r)]
  IN /\ l = "arm" => j.backup = disk
     /\ l \in Unswitched =>
          /\ ~j.activation_started /\ ~j.filter_touched
          /\ unit["filter"] = j.prior["filter"]
          /\ disk[State] = j.backup[State] /\ disk[Config] = j.backup[Config]
     /\ l \in {"arm", "spawn", "helper", "retire"} => unit = j.prior
     /\ l \in ApplyLabel => unit["restore"].active = j.prior["restore"].active
     /\ l = "helper" /\ k = RestoreUnit => disk[Lifecycle] = r
     /\ l \in ApplyLabel \ {"arm", "spawn", "helper"} =>
          disk[Lifecycle] = r /\ disk[RestoreUnit] = r
     /\ l \in ApplyLabel \ {"arm", "spawn", "helper", "retire"} =>
          disk[TimerUnit] = Absent /\ unit["timer"] = Stopped
     /\ l \in ApplyLabel \ {"arm", "spawn", "helper", "retire", "enable"} =>
          unit["restore"].enabled
     /\ l = "publish" => \A f \in {Cli, Plugin} : f < k => disk[f] = r
     /\ l \in {"switch", "activate", "restart", "commit"} =>
          \A f \in {Cli, Plugin, FilterUnit} : disk[f] = r
     /\ l = "activate" => j.activation_started
     /\ l = "restart" => /\ j.filter_touched
                         /\ unit["filter"] = j.prior["filter"]
                         /\ unit["filter"].active
     /\ l = "commit" /\ j.fresh => unit["filter"] = Running
     /\ l \in {"restart", "commit"} /\ ~j.fresh =>
          /\ unit["filter"] = j.prior["filter"]
          /\ disk[State] = j.backup[State] /\ disk[Config] = j.backup[Config]
PublishInv == \A r \in Run : PublishAt(r)

(* How far a rollback has got.                                             *)
RollbackAt(p) ==
  LET l == pc[p]
      j == journal[target[p]]
  IN /\ l = "rb_file" => \A f \in File : f > todo[p] => disk[f] = j.backup[f]
     /\ l \in {"rb_flags", "rb_filter", "rb_save"} => disk = j.backup
     /\ l \in {"rb_file", "rb_flags"} =>
          \A u \in {"restore", "timer"} :
            /\ unit[u].enabled => j.prior[u].enabled
            /\ unit[u].active => j.prior[u].active
     /\ l \in {"rb_filter", "rb_save"} =>
          \A u \in {"restore", "timer"} : unit[u] = j.prior[u]
     /\ l = "rb_save" /\ (j.fresh \/ j.filter_touched) =>
          unit["filter"] = j.prior["filter"]
RollbackInv == \A p \in Proc : RollbackAt(p)

BaseInv == TypeOK /\ LabelInv /\ LockInv /\ TxnInv /\ OwnerInv
AtomicInv == /\ orphans = {}
             /\ NewcomerInv /\ PhaseInv /\ JournalInv /\ BackupInv
             /\ PublishInv /\ RollbackInv
             /\ NeverMixed /\ NoTrace
IInv == BaseInv /\ AtomicInv

(* Where a candidate plugin can be loaded from, while no power cut lets    *)
(* systemd start the filter: only from a transaction whose journal says    *)
(* that the filter was switched, and no longer once rollback stopped it.   *)
NoPowerCut == Faults \subseteq {"fail", "kill"}

LoadedInv ==
  /\ loaded # Absent => unit["filter"].active
  /\ \A r \in Run \ committed : loaded = r =>
       /\ Applying(r) /\ (journal[r].activation_started \/ journal[r].filter_touched)
       /\ \A p \in Proc : pc[p] \in RolledBack => pc[p] = "rb_off"
=============================================================================

------------------------------- MODULE Install -------------------------------
(***************************************************************************)
(* The journaled installer of id14-sr-lifecycle.py: installer invocations, *)
(* the detached guard each of them leaves behind, and the USB restoration  *)
(* oneshot, all contending for one flock, all able to roll a transaction   *)
(* back, and all able to fail, be signalled or be killed between any two   *)
(* steps.                                                                  *)
(*                                                                         *)
(* A transaction is named after the run that made it.  What its directory  *)
(* keeps (journal.json and the backup-N copies) is one record.             *)
(***************************************************************************)
EXTENDS Layout

CONSTANTS
  NoRun,      (* "No run": second component of the restorer's name.       *)
  NoProc,     (* Value of the lock while nobody holds it.                 *)
  Faults,     (* Disturbances that may happen, a subset of Disturbance.   *)
  MaxFaults   (* Bound on how many of them happen in a behaviour.         *)

(* fail   a command or file operation raises, or a signal handler does     *)
(* kill   SIGKILL of one process together with the command it is running   *)
(* orphan SIGKILL of an installer whose `id14-sr on all` child lives on    *)
(* crash  power cut: every process gone, unit activity as at boot          *)
(* gap    an exception after the commit is saved, before `committed = True` *)
(* bounce systemd restarts the filter because WirePlumber restarted        *)
(* mix    the user runs `id14-sr mix set`, which takes no lifecycle lock   *)
Disturbance == {"fail", "kill", "orphan", "crash", "gap", "bounce", "mix"}

ASSUME FaultAssumption ==
  /\ Faults \subseteq Disturbance
  /\ MaxFaults \in Nat
ASSUME NameAssumption ==
  /\ NoRun \notin Run
  /\ NoProc \notin ({"install", "guard", "restore"} \X (Run \cup {NoRun}))

Installer(r) == <<"install", r>>
Guard(r)     == <<"guard", r>>
Restorer     == <<"restore", NoRun>>
Proc == {Installer(r) : r \in Run} \cup {Guard(r) : r \in Run} \cup {Restorer}

VARIABLES
  disk,       (* [File -> Content]                                        *)
  unit,       (* [Unit -> Flags]; "active" of restore is not modelled: a  *)
              (* running oneshot is the restorer's pc.                    *)
  loaded,     (* Plugin version in the running filter, Absent if stopped. *)
  dirs,       (* Runs whose transaction directory exists.                 *)
  journal,    (* [Run -> Journal], the directory's content.               *)
  committed,  (* Runs whose local `committed` became TRUE.                *)
  holder,     (* Process holding the flock on the lifecycle directory.    *)
  pc,         (* [Proc -> Label]                                          *)
  target,     (* [Proc -> Run \cup {NoRun}]: transaction being resolved.  *)
  todo,       (* [Proc -> 0..7]: file index of a publish or restore loop. *)
  orphans,    (* Runs whose `id14-sr on all` outlives its installer.      *)
  faults      (* Disturbances so far.                                     *)

host  == <<disk, unit, loaded>>
txn   == <<dirs, journal, committed>>
procs == <<holder, pc, target, todo>>
env   == <<orphans, faults>>
vars  == <<disk, unit, loaded, dirs, journal, committed,
           holder, pc, target, todo, orphans, faults>>

(* journal.json as far as recovery reads it.  Phase "preparing" is held in *)
(* memory only; the file first appears with phase "applying".              *)
Phase == {"none", "preparing", "applying", "committed", "rolled_back"}
Journal == [phase : Phase, fresh : BOOLEAN, activation_started : BOOLEAN,
            filter_touched : BOOLEAN, prior : [Unit -> Flags], backup : Disk]
NoJournal ==
  [phase |-> "none", fresh |-> FALSE, activation_started |-> FALSE,
   filter_touched |-> FALSE, prior |-> [u \in Unit |-> Stopped],
   backup |-> [f \in File |-> Absent]]

Saved(r)    == journal[r].phase \notin {"none", "preparing"}
Applying(r) == journal[r].phase = "applying"

ApplyLabel    == {"arm", "spawn", "helper", "retire", "enable", "publish",
                  "switch", "activate", "restart", "commit"}
RollbackLabel == {"rb_read", "rb_off", "rb_aux", "rb_file", "rb_flags",
                  "rb_filter", "rb_save", "rmtree"}
LockedLabel   == {"scan", "prepare", "abort", "cleanup", "check", "bring_up"}
                   \cup ApplyLabel \cup RollbackLabel
EndLabel      == {"done", "failed", "dead"}
Label         == {"idle", "spawned", "lock"} \cup LockedLabel \cup EndLabel

HostOK == disk \in Disk /\ unit \in [Unit -> Flags] /\ loaded \in Content
TxnOK  == dirs \subseteq Run /\ journal \in [Run -> Journal] /\ committed \subseteq Run
ProcOK ==
  /\ holder \in Proc \cup {NoProc}
  /\ pc \in [Proc -> Label]
  /\ target \in [Proc -> Run \cup {NoRun}]
  /\ todo \in [Proc -> File]
EnvOK  == orphans \subseteq Run /\ faults \in 0..MaxFaults
TypeOK == HostOK /\ TxnOK /\ ProcOK /\ EnvOK

(***************************************************************************)
(* Where histories start: nothing installed, or an earlier release with    *)
(* the filter running or off, with or without its legacy timer.            *)
(***************************************************************************)
Nothing   == [f \in File |-> Absent]
Installed == [f \in File |-> IF f = TimerUnit THEN Absent ELSE Old]
Legacy    == [f \in File |-> IF f \in {Lifecycle, RestoreUnit} THEN Absent ELSE Old]

FlagsOf(filter, restore, timer) ==
  [u \in Unit |-> CASE u = "filter"  -> filter
                    [] u = "restore" -> [enabled |-> restore, active |-> FALSE]
                    [] u = "timer"   -> timer]

InitHost ==
  \/ disk = Nothing /\ unit = FlagsOf(Stopped, FALSE, Stopped)
  \/ disk = Installed /\ \E f \in {Stopped, Running} : unit = FlagsOf(f, TRUE, Stopped)
  \/ disk = Legacy /\ unit = FlagsOf(Running, FALSE, Running)

Init ==
  /\ InitHost
  /\ loaded = IF unit["filter"].active THEN Old ELSE Absent
  /\ dirs = {}
  /\ journal = [r \in Run |-> NoJournal]
  /\ committed = {}
  /\ holder = NoProc
  /\ pc = [p \in Proc |-> "idle"]
  /\ target = [p \in Proc |-> NoRun]
  /\ todo = [p \in Proc |-> 0]
  /\ orphans = {}
  /\ faults = 0

-----------------------------------------------------------------------------
(* Steps of a process that hold the lock and touch only its pc.            *)
Goto(p, from, to) ==
  /\ pc[p] = from
  /\ pc' = [pc EXCEPT ![p] = to]
  /\ UNCHANGED holder

(* Leaving the `with locked(base)` block.                                  *)
Leave(p, to) ==
  /\ pc' = [pc EXCEPT ![p] = to]
  /\ holder' = NoProc

Remove(r) ==
  /\ dirs' = dirs \ {r}
  /\ journal' = [journal EXCEPT ![r] = NoJournal]

(***************************************************************************)
(* The lock.                                                               *)
(***************************************************************************)
StartInstall(r) ==
  /\ Goto(Installer(r), "idle", "lock")
  /\ UNCHANGED <<host, txn, target, todo, env>>

(* systemd starts the oneshot when the device appears (or when a rollback  *)
(* queues it), provided its unit is enabled and its script is there.       *)
StartRestore ==
  /\ Goto(Restorer, "idle", "lock")
  /\ unit["restore"].enabled
  /\ disk[Lifecycle] # Absent /\ disk[RestoreUnit] # Absent
  /\ UNCHANGED <<host, txn, target, todo, env>>

(* guard: pipe.read() returns once the installer closed its end or died.   *)
GuardWakes(r) ==
  /\ Goto(Guard(r), "spawned", "lock")
  /\ pc[Installer(r)] \in EndLabel
  /\ UNCHANGED <<host, txn, target, todo, env>>

(* Slip: `locked` entered although the lock is taken.                      *)
AcquireUnlocked(p) ==
  /\ pc[p] = "lock"
  /\ holder' = p
  /\ pc' = [pc EXCEPT ![p] = IF p[1] = "guard" THEN "check" ELSE "scan"]
  /\ UNCHANGED <<host, txn, target, todo, env>>

Acquire(p) ==
  /\ pc[p] = "lock"
  /\ holder = NoProc
  /\ holder' = p
  /\ pc' = [pc EXCEPT ![p] = IF p[1] = "guard" THEN "check" ELSE "scan"]
  /\ UNCHANGED <<host, txn, target, todo, env>>

(***************************************************************************)
(* recover: resolve every transaction directory an earlier process left.   *)
(***************************************************************************)
(* Slip: directories of dead installers are swept without a look inside.   *)
ScanSweeping(p) ==
  /\ \E r \in dirs : target' = [target EXCEPT ![p] = r]
  /\ Goto(p, "scan", "rmtree")
  /\ UNCHANGED <<host, txn, todo, env>>

Scan(p) ==
  /\ pc[p] = "scan"
  /\ \E r \in dirs :
       /\ target' = [target EXCEPT ![p] = r]
       /\ pc' = [pc EXCEPT ![p] = IF Saved(r) THEN "rb_read" ELSE "rmtree"]
  /\ UNCHANGED <<host, txn, holder, todo, env>>

(* Slip: recovery of what was left is not waited for.                      *)
ScannedEarly(p) ==
  /\ Goto(p, "scan", IF p = Restorer THEN "bring_up" ELSE "prepare")
  /\ UNCHANGED <<host, txn, target, todo, env>>

Scanned(p) ==
  /\ Goto(p, "scan", IF p = Restorer THEN "bring_up" ELSE "prepare")
  /\ dirs = {}
  /\ UNCHANGED <<host, txn, target, todo, env>>

(* Slip: the guard recovers whatever pending journal it finds.             *)
CheckAny(r) ==
  /\ pc[Guard(r)] = "check"
  /\ IF \E s \in dirs : Saved(s)
       THEN /\ \E s \in dirs : target' = [target EXCEPT ![Guard(r)] = s]
            /\ Goto(Guard(r), "check", "rb_read")
       ELSE Leave(Guard(r), "done") /\ UNCHANGED target
  /\ UNCHANGED <<host, txn, todo, env>>

(* Slip: the guard only waits.                                             *)
CheckNothing(r) ==
  /\ pc[Guard(r)] = "check"
  /\ Leave(Guard(r), "done")
  /\ UNCHANGED <<host, txn, target, todo, env>>

(* guard: only its own transaction, and only if the journal still exists.  *)
Check(r) ==
  /\ pc[Guard(r)] = "check"
  /\ IF r \in dirs /\ Saved(r)
       THEN /\ target' = [target EXCEPT ![Guard(r)] = r]
            /\ Goto(Guard(r), "check", "rb_read")
       ELSE Leave(Guard(r), "done") /\ UNCHANGED target
  /\ UNCHANGED <<host, txn, todo, env>>

(***************************************************************************)
(* install, up to the first durable journal.                               *)
(***************************************************************************)
Prepare(r) ==
  /\ Goto(Installer(r), "prepare", "arm")
  /\ dirs' = dirs \cup {r}
  /\ journal' = [journal EXCEPT ![r] =
       [phase |-> "preparing", fresh |-> disk[Cli] = Absent,
        activation_started |-> FALSE, filter_touched |-> FALSE,
        prior |-> unit, backup |-> disk]]
  /\ UNCHANGED <<host, committed, target, todo, env>>

Arm(r) ==
  /\ Goto(Installer(r), "arm", "spawn")
  /\ journal' = [journal EXCEPT ![r].phase = "applying"]
  /\ UNCHANGED <<host, dirs, committed, target, todo, env>>

SpawnGuard(r) ==
  /\ pc[Installer(r)] = "spawn"
  /\ pc' = [pc EXCEPT ![Installer(r)] = "helper", ![Guard(r)] = "spawned"]
  /\ todo' = [todo EXCEPT ![Installer(r)] = Lifecycle]
  /\ UNCHANGED <<host, txn, holder, target, env>>

(***************************************************************************)
(* install, publication.  The recovery helper and its unit go first.       *)
(***************************************************************************)
Publish(r, from, last, to) ==
  LET p == Installer(r)
      f == todo[p]
  IN /\ Goto(p, from, IF f = last THEN to ELSE from)
     /\ disk' = [disk EXCEPT ![f] = r]
     /\ todo' = [todo EXCEPT ![p] = IF f = last THEN 0 ELSE f + 1]
     /\ UNCHANGED <<unit, loaded, txn, target, env>>

PublishHelper(r) == Publish(r, "helper", RestoreUnit, "retire")

RetireTimer(r) ==
  /\ Goto(Installer(r), "retire", "enable")
  /\ IF \/ journal[r].prior["timer"] # Stopped
        \/ disk[TimerUnit] # Absent
       THEN /\ unit' = [unit EXCEPT !["timer"] = Stopped]
            /\ disk' = [disk EXCEPT ![TimerUnit] = Absent]
       ELSE UNCHANGED <<unit, disk>>
  /\ UNCHANGED <<loaded, txn, target, todo, env>>

(* Slip: `enable --now`, which waits for a oneshot that waits for us.      *)
EnableRestoreNow(r) ==
  /\ Goto(Installer(r), "enable", "publish")
  /\ pc[Restorer] = "idle"
  /\ unit' = [unit EXCEPT !["restore"].enabled = TRUE]
  /\ UNCHANGED <<disk, loaded, txn, target, todo, env>>

(* enable only: starting the oneshot here would wait for our own lock.     *)
EnableRestore(r) ==
  /\ Goto(Installer(r), "enable", "publish")
  /\ unit' = [unit EXCEPT !["restore"].enabled = TRUE]
  /\ UNCHANGED <<disk, loaded, txn, target, todo, env>>

PublishProgram(r) == Publish(r, "publish", FilterUnit, "switch")

(* What the switch will touch is in the journal before it is touched.      *)
Switch(r) ==
  LET j == journal[r]
  IN /\ pc[Installer(r)] = "switch"
     /\ \/ /\ j.fresh
           /\ journal' = [journal EXCEPT ![r].activation_started = TRUE]
           /\ Goto(Installer(r), "switch", "activate")
        \/ /\ ~j.fresh /\ j.prior["filter"].active
           /\ journal' = [journal EXCEPT ![r].filter_touched = TRUE]
           /\ Goto(Installer(r), "switch", "restart")
        \/ /\ ~j.fresh /\ ~j.prior["filter"].active
           /\ UNCHANGED journal
           /\ Goto(Installer(r), "switch", "commit")
     /\ UNCHANGED <<host, dirs, committed, target, todo, env>>

(* `id14-sr on all`: config, saved selection, then the unit.               *)
Activate(r) ==
  /\ Goto(Installer(r), "activate", "commit")
  /\ disk' = [disk EXCEPT ![Config] = r, ![State] = r]
  /\ unit' = [unit EXCEPT !["filter"] = Running]
  /\ loaded' = disk[Plugin]
  /\ UNCHANGED <<txn, target, todo, env>>

RestartFilter(r) ==
  /\ Goto(Installer(r), "restart", "commit")
  /\ unit' = [unit EXCEPT !["filter"].active = TRUE]
  /\ loaded' = disk[Plugin]
  /\ UNCHANGED <<disk, txn, target, todo, env>>

Commit(r) ==
  /\ Goto(Installer(r), "commit", "cleanup")
  /\ journal' = [journal EXCEPT ![r].phase = "committed"]
  /\ committed' = committed \cup {r}
  /\ UNCHANGED <<host, dirs, target, todo, env>>

(* rmtree of the committed transaction.                                    *)
Cleanup(r) ==
  /\ pc[Installer(r)] = "cleanup"
  /\ Remove(r)
  /\ Leave(Installer(r), "done")
  /\ UNCHANGED <<host, committed, target, todo, env>>

(* Slip: nothing to roll back as long as the filter was not switched.      *)
AbortUnswitched(r) ==
  /\ Goto(Installer(r), "abort",
          IF journal[r].activation_started \/ journal[r].filter_touched
            THEN "rb_read" ELSE "rmtree")
  /\ target' = [target EXCEPT ![Installer(r)] = r]
  /\ UNCHANGED <<host, txn, todo, env>>

(* The except branch of install: signals are ignored from here on.  `force` *)
(* is the process rolling back the transaction it made itself.             *)
Abort(r) ==
  /\ Goto(Installer(r), "abort", IF Saved(r) THEN "rb_read" ELSE "rmtree")
  /\ target' = [target EXCEPT ![Installer(r)] = r]
  /\ UNCHANGED <<host, txn, todo, env>>

(***************************************************************************)
(* rollback(transaction, force)                                            *)
(***************************************************************************)
Forced(p) == p = Installer(target[p])

(* After rollback: recover goes on, a guard returns, an installer that     *)
(* rolled its own transaction back raises.                                 *)
AfterRollback(p) ==
  IF p[1] = "guard" THEN "done" ELSE IF Forced(p) THEN "failed" ELSE "scan"

RbRead(p) ==
  /\ Goto(p, "rb_read",
          IF Applying(target[p]) \/ Forced(p) THEN "rb_off" ELSE "rmtree")
  /\ UNCHANGED <<host, txn, target, todo, env>>

(* `id14-sr off` for a first installation that was being activated, a stop *)
(* of the unit for a reinstallation that was restarting it.  The command   *)
(* must exist; running a missing one raises (see RollbackRaises).          *)
RunsOff(j) == j.fresh /\ j.activation_started

EffectPresent ==
  \/ unit["filter"].active
  \/ disk[Config] # Absent
  \/ disk[State] \notin {Absent, Cleared}

CliOff ==
  IF EffectPresent
    THEN /\ disk' = [disk EXCEPT ![Config] = Absent,
                                 ![State] = IF @ = Absent THEN Absent ELSE Cleared]
         /\ unit' = [unit EXCEPT !["filter"] = Stopped]
         /\ loaded' = Absent
    ELSE UNCHANGED host

(* Slip: the candidate keeps running while its library is replaced.        *)
RbOffRunning(p) ==
  LET j == journal[target[p]]
  IN /\ Goto(p, "rb_off", "rb_aux")
     /\ \/ RunsOff(j) /\ disk[Cli] # Absent /\ CliOff
        \/ ~RunsOff(j) /\ UNCHANGED host
     /\ UNCHANGED <<txn, target, todo, env>>

RbOff(p) ==
  LET j == journal[target[p]]
  IN /\ Goto(p, "rb_off", "rb_aux")
     /\ \/ RunsOff(j) /\ disk[Cli] # Absent /\ CliOff
        \/ /\ ~RunsOff(j) /\ j.filter_touched
           /\ unit' = [unit EXCEPT !["filter"].active = FALSE]
           /\ loaded' = Absent
           /\ UNCHANGED disk
        \/ ~RunsOff(j) /\ ~j.filter_touched /\ UNCHANGED host
     /\ UNCHANGED <<txn, target, todo, env>>

(* Slip: an auxiliary unit is stopped, and stays enabled.                  *)
QuietedEnabled(flags, prior) ==
  [enabled |-> flags.enabled, active |-> flags.active /\ prior.active]

(* Auxiliary units that were not running or enabled before stop being so   *)
(* before the files they execute are taken away.                           *)
Quieted(flags, prior) ==
  [enabled |-> flags.enabled /\ prior.enabled, active |-> flags.active /\ prior.active]

RbAux(p) ==
  LET prior == journal[target[p]].prior
  IN /\ Goto(p, "rb_aux", "rb_file")
     /\ unit' = [u \in Unit |-> IF u = "filter" THEN unit[u]
                                ELSE Quieted(unit[u], prior[u])]
     /\ todo' = [todo EXCEPT ![p] = Config]
     /\ UNCHANGED <<disk, loaded, txn, target, env>>

(* Slip: the walk ends before the first path of the journal.               *)
RbFileShort(p) ==
  LET f == todo[p]
  IN /\ Goto(p, "rb_file", IF f = 1 THEN "rb_flags" ELSE "rb_file")
     /\ disk' = [disk EXCEPT ![f] = journal[target[p]].backup[f]]
     /\ todo' = [todo EXCEPT ![p] = IF f = 0 THEN 0 ELSE f - 1]
     /\ UNCHANGED <<unit, loaded, txn, target, env>>

(* One file of `reversed(list(enumerate(data["files"])))`.                 *)
RbFile(p) ==
  LET f == todo[p]
  IN /\ Goto(p, "rb_file", IF f = 0 THEN "rb_flags" ELSE "rb_file")
     /\ disk' = [disk EXCEPT ![f] = journal[target[p]].backup[f]]
     /\ todo' = [todo EXCEPT ![p] = IF f = 0 THEN 0 ELSE f - 1]
     /\ UNCHANGED <<unit, loaded, txn, target, env>>

(* Slip: a retired unit is started again, and not enabled again.           *)
RbFlagsActive(p) ==
  LET prior == journal[target[p]].prior
  IN /\ Goto(p, "rb_flags", "rb_filter")
     /\ unit' = [u \in Unit |-> IF u = "filter" THEN unit[u]
                   ELSE [unit[u] EXCEPT !.active = @ \/ prior[u].active]]
     /\ UNCHANGED <<disk, loaded, txn, target, todo, env>>

(* daemon-reload, then the auxiliary flags.  Starting the oneshot is only  *)
(* queued: it is the restorer, which waits for the lock held here.         *)
RbFlags(p) ==
  LET prior == journal[target[p]].prior
  IN /\ Goto(p, "rb_flags", "rb_filter")
     /\ unit' = [u \in Unit |-> IF u = "filter" THEN unit[u]
                   ELSE [enabled |-> prior[u].enabled,
                         active  |-> unit[u].active \/ prior[u].active]]
     /\ UNCHANGED <<disk, loaded, txn, target, todo, env>>

(* restore_flags(FILTER, prior) and, for a running filter, its reconcile.  *)
RbFilter(p) ==
  LET j == journal[target[p]]
  IN /\ Goto(p, "rb_filter", "rb_save")
     /\ IF j.fresh \/ j.filter_touched
          THEN /\ unit' = [unit EXCEPT !["filter"] = j.prior["filter"]]
               /\ loaded' = IF ~j.prior["filter"].active THEN Absent
                            ELSE IF unit["filter"].active THEN loaded
                            ELSE disk[Plugin]
          ELSE UNCHANGED <<unit, loaded>>
     /\ UNCHANGED <<disk, txn, target, todo, env>>

RbSave(p) ==
  /\ Goto(p, "rb_save", "rmtree")
  /\ journal' = [journal EXCEPT ![target[p]].phase = "rolled_back"]
  /\ UNCHANGED <<host, dirs, committed, target, todo, env>>

Rmtree(p) ==
  /\ pc[p] = "rmtree"
  /\ Remove(target[p])
  /\ target' = [target EXCEPT ![p] = NoRun]
  /\ IF AfterRollback(p) = "scan"
       THEN Goto(p, "rmtree", "scan")
       ELSE Leave(p, AfterRollback(p))
  /\ UNCHANGED <<host, committed, todo, env>>

(* What is left of the recovery itself: the command it has to run is gone, *)
(* and every attempt ends here.                                            *)
RollbackRaises(p) ==
  /\ pc[p] = "rb_off"
  /\ RunsOff(journal[target[p]])
  /\ disk[Cli] = Absent
  /\ Leave(p, IF p = Restorer THEN "idle" ELSE "failed")
  /\ target' = [target EXCEPT ![p] = NoRun]
  /\ UNCHANGED <<host, txn, todo, env>>

(***************************************************************************)
(* restore, after recovery: with a saved selection and the device there,   *)
(* the filter is restarted, or enabled and started, with up to five        *)
(* retries that end in success or in giving up with it stopped.            *)
(***************************************************************************)
BringUpFilter ==
  /\ pc[Restorer] = "bring_up"
  /\ \/ UNCHANGED <<unit, loaded>>
     \/ /\ disk[State] \notin {Absent, Cleared}
        /\ \E a \in BOOLEAN :
             /\ unit' = [unit EXCEPT !["filter"] =
                          [enabled |-> @.enabled \/ ~@.active, active |-> a]]
             /\ loaded' = IF a THEN disk[Plugin] ELSE Absent
  /\ Leave(Restorer, "idle")
  /\ UNCHANGED <<disk, txn, target, todo, env>>

-----------------------------------------------------------------------------
(***************************************************************************)
(* Disturbances.                                                           *)
(***************************************************************************)
Disturb(kind) ==
  /\ kind \in Faults
  /\ faults < MaxFaults
  /\ faults' = faults + 1

(* An exception (or a signal's InterruptedError) inside install's try.  A  *)
(* step that fails halfway is a failure before or after it: each step is   *)
(* one rename, one saved journal or one systemctl call.                    *)
InstallFails(r) ==
  /\ Disturb("fail")
  /\ \E from \in ApplyLabel : Goto(Installer(r), from, "abort")
  /\ UNCHANGED <<host, txn, target, todo, orphans>>

(* `id14-sr on all` fails: its own cleanup may be incomplete.              *)
ActivateFails(r) ==
  /\ Goto(Installer(r), "activate", "abort")
  /\ Disturb("fail")
  /\ \E c \in {disk[Config], Absent, r}, s \in {disk[State], Cleared, r}, a \in BOOLEAN :
       /\ disk' = [disk EXCEPT ![Config] = c, ![State] = s]
       /\ unit' = [unit EXCEPT !["filter"] = IF a THEN Running ELSE Stopped]
       /\ loaded' = IF a THEN disk[Plugin] ELSE Absent
  /\ UNCHANGED <<txn, target, todo, orphans>>

(* The candidate does not come up.                                         *)
RestartFails(r) ==
  /\ Goto(Installer(r), "restart", "abort")
  /\ Disturb("fail")
  /\ unit' = [unit EXCEPT !["filter"].active = FALSE]
  /\ loaded' = Absent
  /\ UNCHANGED <<disk, txn, target, todo, orphans>>

(* The exception hits after the commit is durable but before the local     *)
(* variable says so: the abort path rolls back a committed journal.        *)
CommitGap(r) ==
  /\ Goto(Installer(r), "commit", "abort")
  /\ Disturb("gap")
  /\ journal' = [journal EXCEPT ![r].phase = "committed"]
  /\ UNCHANGED <<host, dirs, committed, target, todo, orphans>>

(* Cleanup of a committed transaction fails: success is still reported.    *)
CleanupFails(r) ==
  /\ Disturb("fail")
  /\ pc[Installer(r)] = "cleanup"
  /\ Leave(Installer(r), "done")
  /\ UNCHANGED <<host, txn, target, todo, orphans>>

(* A command of recover or rollback raises, or a signal does.              *)
RecoveryFails(p) ==
  /\ Disturb("fail")
  /\ pc[p] \in RollbackLabel \cup {"scan", "prepare", "check", "bring_up"}
  /\ Leave(p, IF p = Restorer THEN "idle" ELSE "failed")
  /\ target' = [target EXCEPT ![p] = NoRun]
  /\ UNCHANGED <<host, txn, todo, orphans>>

(* The kernel drops the lock of a dead process and closes its pipe.        *)
Dies(p) ==
  /\ pc[p] \notin {"idle"} \cup EndLabel
  /\ pc' = [pc EXCEPT ![p] = IF p = Restorer THEN "idle" ELSE "dead"]
  /\ holder' = IF holder = p THEN NoProc ELSE holder
  /\ target' = [target EXCEPT ![p] = NoRun]
  /\ UNCHANGED <<host, txn, todo>>

Kill(p) ==
  /\ Disturb("kill")
  /\ Dies(p)
  /\ UNCHANGED orphans

KillLeavingChild(r) ==
  /\ Disturb("orphan")
  /\ pc[Installer(r)] = "activate"
  /\ Dies(Installer(r))
  /\ orphans' = orphans \cup {r}

(* The surviving `id14-sr on all` gets to its writes: the unit only starts *)
(* if its file is (still, or again) there.                                 *)
OrphanActs(r) ==
  /\ r \in orphans
  /\ orphans' = orphans \ {r}
  /\ disk' = [disk EXCEPT ![Config] = r, ![State] = r]
  /\ IF disk[FilterUnit] # Absent /\ disk[Plugin] # Absent
       THEN /\ unit' = [unit EXCEPT !["filter"] = Running]
            /\ loaded' = disk[Plugin]
       ELSE UNCHANGED <<unit, loaded>>
  /\ UNCHANGED <<txn, procs, faults>>

(* After the reboot the enabled filter starts (or fails to), with whatever *)
(* plugin is on disk; the legacy timer likewise.                           *)
Crash ==
  /\ Disturb("crash")
  /\ pc' = [p \in Proc |-> IF pc[p] \in {"idle"} \cup EndLabel THEN pc[p]
                           ELSE IF p = Restorer THEN "idle" ELSE "dead"]
  /\ holder' = NoProc
  /\ target' = [p \in Proc |-> NoRun]
  /\ orphans' = {}
  /\ \E a \in {unit["filter"].enabled /\ disk[FilterUnit] # Absent, FALSE} :
       /\ unit' = [unit EXCEPT !["filter"].active = a,
                               !["timer"].active = unit["timer"].enabled]
       /\ loaded' = IF a THEN disk[Plugin] ELSE Absent
  /\ UNCHANGED <<disk, txn, todo>>

FilterBounces ==
  /\ Disturb("bounce")
  /\ unit["filter"].active
  /\ loaded' = disk[Plugin]
  /\ UNCHANGED <<disk, unit, txn, procs, orphans>>

SetMix ==
  /\ Disturb("mix")
  /\ disk[Cli] # Absent
  /\ disk' = [disk EXCEPT ![State] = Edited]
  /\ UNCHANGED <<unit, loaded, txn, procs, orphans>>

-----------------------------------------------------------------------------
InstallerStep(r) ==
  \/ Prepare(r) \/ Arm(r) \/ SpawnGuard(r) \/ PublishHelper(r) \/ RetireTimer(r)
  \/ EnableRestore(r) \/ PublishProgram(r) \/ Switch(r) \/ Activate(r)
  \/ RestartFilter(r) \/ Commit(r) \/ Cleanup(r) \/ Abort(r)

RecoveryStep(p) ==
  \/ Scan(p) \/ Scanned(p) \/ RbRead(p) \/ RbOff(p) \/ RbAux(p) \/ RbFile(p)
  \/ RbFlags(p) \/ RbFilter(p) \/ RbSave(p) \/ Rmtree(p) \/ RollbackRaises(p)

InstallFault(r) ==
  \/ InstallFails(r) \/ ActivateFails(r) \/ RestartFails(r) \/ CommitGap(r)
  \/ CleanupFails(r) \/ KillLeavingChild(r)

RunStep(r)  == StartInstall(r) \/ GuardWakes(r) \/ Check(r) \/ OrphanActs(r)
ProcStep(p) == Acquire(p) \/ RecoveryFails(p) \/ Kill(p)
EnvStep     == StartRestore \/ BringUpFilter \/ Crash \/ FilterBounces \/ SetMix

Next ==
  \/ \E r \in Run : InstallerStep(r) \/ InstallFault(r) \/ RunStep(r)
  \/ \E p \in Proc : RecoveryStep(p) \/ ProcStep(p)
  \/ EnvStep

Spec == Init /\ [][Next]_vars

(* A live process keeps taking its steps (every command has a timeout), and *)
(* flock queues waiters.  Nobody has to start an installer, plug a device  *)
(* in, or suffer a disturbance.                                            *)
Fairness ==
  /\ \A r \in Run : WF_vars(InstallerStep(r)) /\ WF_vars(GuardWakes(r)) /\ WF_vars(Check(r))
  /\ \A p \in Proc : WF_vars(RecoveryStep(p)) /\ SF_vars(Acquire(p))
  /\ WF_vars(BringUpFilter)

FairSpec == Spec /\ Fairness

-----------------------------------------------------------------------------
(***************************************************************************)
(* The installation as its user sees it: while a journal says "applying"   *)
(* the real one is in the backups, because every later invocation puts it  *)
(* back before doing anything else.                                        *)
(***************************************************************************)
Pending == {r \in dirs : Applying(r)}

(* The journal a recovery would act on, NoJournal if there is none.        *)
Open == IF Pending = {} THEN NoJournal ELSE journal[CHOOSE r \in Pending : TRUE]

Promised == IF Pending = {} THEN disk ELSE Open.backup

PromisedFlags ==
  [u \in Unit |-> IF \/ Pending = {}
                    \/ (u = "filter" /\ ~Open.fresh /\ ~Open.filter_touched)
                  THEN unit[u] ELSE Open.prior[u]]

Atomic == INSTANCE AtomicInstall WITH files <- Promised, flags <- PromisedFlags

(* Refinement: seen that way, the installation changes only by a whole     *)
(* commit, by the USB oneshot or by a reboot, whatever fails wherever.     *)
ImplementsAtomicInstall == Atomic!Spec

(* No two releases side by side once nothing is left to recover, and no    *)
(* release with some of its files missing.  install-user.sh's promise      *)
(* (README.md:75) seen from the files alone.                               *)
Whole(d) ==
  \/ \E r \in Run : \A f \in Published : d[f] = r
  \/ \E e \in {Nothing, Installed, Legacy} : \A f \in Published : d[f] = e[f]
NeverMixed == Pending = {} => Whole(disk)

(* A run that did not commit leaves nothing of itself anywhere, neither in *)
(* the files nor in the saved state, once its journal is not pending.      *)
NoTrace ==
  \A r \in Run \ committed : ~Applying(r) => \A f \in File : disk[f] # r

(* A candidate plugin is not left running after its rollback: rollback     *)
(* stops the filter before it restores the library (id14-sr-lifecycle.py   *)
(* line 158).                                                              *)
CandidateStopped ==
  \A r \in Run \ committed : ~Applying(r) => loaded # r

(* At most one transaction exists at any time, whoever died when.          *)
OneTransaction == \A r, s \in dirs : r = s

(* While a journal says "applying", its directory (the only copy of the    *)
(* previous files) is not deleted, by any process, in any step.            *)
BackupsOutliveApplying ==
  [][\A r \in Pending : r \in dirs']_vars

(* A guard that gets the lock after its run committed changes nothing on   *)
(* the machine and no transaction but its own, even if a later run's is    *)
(* there to be found.                                                      *)
GuardMoves(r) ==
  pc'[Guard(r)] # pc[Guard(r)] \/ todo'[Guard(r)] # todo[Guard(r)]
LateGuardInert ==
  [][\A r \in committed :
       GuardMoves(r) /\ faults' = faults
         => UNCHANGED host /\ dirs \ {r} \subseteq dirs']_vars

(* Between invocations, the command a pending journal asks recovery to run *)
(* exists, so that the next guard, oneshot or installer can recover.       *)
RollbackRunnable ==
  holder = NoProc =>
    \A r \in Pending : RunsOff(journal[r]) => disk[Cli] # Absent

(* A mix saved while an installation is in progress survives its rollback. *)
RollbackKeepsMix ==
  [][disk[State] = Edited /\ disk'[State] # Edited
       => ~\E p \in Proc : pc[p] = "rb_file"]_vars

(* A dead or failing installer's half-published files do not stay.         *)
EventuallyWhole ==
  \A r \in Run : Applying(r) /\ disk # journal[r].backup ~> ~Applying(r)

(* An installer that was started ends, in success or in failure: nobody    *)
(* waits for the lock for ever.                                            *)
InstallTerminates ==
  \A r \in Run : pc[Installer(r)] = "lock" ~> pc[Installer(r)] \in EndLabel
=============================================================================

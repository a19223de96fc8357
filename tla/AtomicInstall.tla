---------------------------- MODULE AtomicInstall ----------------------------
(***************************************************************************)
(* What the installer promises its user, with no journal, lock, guard or   *)
(* recovery in sight: an installation of files and unit flags that changes *)
(* only by a whole commit of one run, and otherwise only through systemd:  *)
(* the USB oneshot may bring the filter up, a reboot may change which      *)
(* units are active.                                                       *)
(***************************************************************************)
EXTENDS Layout

VARIABLES
  files,      (* [File -> Content]: what every path holds.                *)
  flags,      (* [Unit -> Flags]: enabled and active, as systemd has them. *)
  committed   (* Runs whose version has been put in place.                *)

vars == <<files, flags, committed>>

Fresh == files[Cli] = Absent

Init ==
  /\ files \in Disk
  /\ flags \in [Unit -> Flags]
  /\ committed = {}

(* All published paths change together, to the version of one run, and the *)
(* legacy timer goes with the same step.  An installation without a CLI    *)
(* ends with the filter on; any other keeps state, config and the filter's *)
(* flags.                                                                  *)
Commit(r) ==
  /\ r \notin committed
  /\ committed' = committed \cup {r}
  /\ files' \in Disk
  /\ \A f \in Published : files'[f] = r
  /\ files'[TimerUnit] = Absent
  /\ ~Fresh => files'[State] = files[State] /\ files'[Config] = files[Config]
  /\ flags' \in [Unit -> Flags]
  /\ flags'["filter"] = IF Fresh THEN Running ELSE flags["filter"]
  /\ flags'["restore"] = [flags["restore"] EXCEPT !.enabled = TRUE]
  /\ flags'["timer"] = Stopped

(* The USB oneshot restarts the filter, or enables and starts it; either   *)
(* may fail and leave it stopped.  No file changes.                        *)
BringUp ==
  /\ \E e \in {flags["filter"].enabled, TRUE}, a \in BOOLEAN :
        flags' = [flags EXCEPT !["filter"] = [enabled |-> e, active |-> a]]
  /\ UNCHANGED <<files, committed>>

(* A power cut or reboot: systemd starts what it starts.                   *)
Reboot ==
  /\ flags' \in [Unit -> Flags]
  /\ \A u \in Unit : flags'[u].enabled = flags[u].enabled
  /\ UNCHANGED <<files, committed>>

Next ==
  \/ \E r \in Run : Commit(r)
  \/ BringUp
  \/ Reboot

Spec == Init /\ [][Next]_vars
=============================================================================

------------------------------- MODULE Layout -------------------------------
(***************************************************************************)
(* What an installation of id14-sr consists of: the eight paths that the   *)
(* installer backs up, in the order of its journal (the order matters: a   *)
(* rollback walks it backwards), and the systemd user units whose flags it *)
(* records.                                                                *)
(*                                                                         *)
(* The contents of a file are abstracted to who wrote it: nobody (Absent), *)
(* somebody before the modelled history (Old), one installation run, an    *)
(* `id14-sr off` that a rollback ran (Cleared), or a concurrent            *)
(* `id14-sr mix set` (Edited).                                             *)
(***************************************************************************)
EXTENDS Naturals

CONSTANTS
  Run,      (* Installer invocations; each one publishes its own version. *)
  Absent,   (* Content of a path that does not exist.                     *)
  Old,      (* Content from before the first modelled invocation.         *)
  Cleared,  (* State or config as `id14-sr off` leaves it.                *)
  Edited    (* State after the user saved another mix.                    *)

ASSUME ContentAssumption ==
  /\ Absent \notin Run \cup {Old, Cleared, Edited}
  /\ Old \notin Run \cup {Cleared, Edited}
  /\ Cleared \notin Run \cup {Edited}
  /\ Edited \notin Run

Content == Run \cup {Absent, Old, Cleared, Edited}

(* Indices of `destinations` and of the three targets appended to it.      *)
Cli         == 0
Plugin      == 1
FilterUnit  == 2
Lifecycle   == 3
RestoreUnit == 4
TimerUnit   == 5
State       == 6
Config      == 7

File      == 0..7
Published == 0..4

(* FILTER runs the plugin, RESTORE is the USB oneshot, LEGACY_TIMER is a   *)
(* unit of an earlier release that an installation retires.                *)
Unit  == {"filter", "restore", "timer"}
Flags == [enabled : BOOLEAN, active : BOOLEAN]
Stopped == [enabled |-> FALSE, active |-> FALSE]
Running == [enabled |-> TRUE, active |-> TRUE]

Disk == [File -> Content]
=============================================================================

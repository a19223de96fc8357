--------------------------------- MODULE Panel ---------------------------------
(***************************************************************************)
(* What invocations of id14ctl promise about a device together: one of     *)
(* them has it at a time, and only the one that has it changes its level.  *)
(* The device's own changes are counted.                                   *)
(***************************************************************************)
EXTENDS Naturals

CONSTANT Procs

VARIABLES level,    (* Of each device.                                     *)
          owners,   (* <<device, invocation>>.                             *)
          moves     (* How often a device did something by itself.         *)

panel == <<level, owners, moves>>

Init == owners = {} /\ moves = 0

Take(d, p) ==
  /\ \A q \in Procs : <<d, q>> \notin owners
  /\ owners' = owners \cup {<<d, p>>}
  /\ UNCHANGED <<level, moves>>

Write(d, p) ==
  /\ <<d, p>> \in owners
  /\ level' = [level EXCEPT ![d] = level'[d]]
  /\ UNCHANGED <<owners, moves>>

Leave(d, p) ==
  /\ <<d, p>> \in owners
  /\ owners' = owners \ {<<d, p>>}
  /\ UNCHANGED <<level, moves>>

Move == moves' = moves + 1 /\ UNCHANGED owners

Next == Move \/ \E d \in DOMAIN level, p \in Procs : Take(d, p) \/ Write(d, p) \/ Leave(d, p)

Spec == Init /\ [][Next]_panel
=============================================================================

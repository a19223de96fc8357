------------------------------- MODULE MCRouting -------------------------------
(***************************************************************************)
(* Routing for TLC: the commands, and which of them may overlap.           *)
(***************************************************************************)
EXTENDS Routing, TLC

Plain0(command) == [command |-> command, mode |-> "none", value |-> 0]
On0(mode) == [command |-> "on", mode |-> mode, value |-> 0]
Mix0(command, value) == [command |-> command, mode |-> "none", value |-> value]

Switching == {On0("all"), On0("line"), Plain0("off"), Plain0("reconcile"), Plain0("restore")}
Mixing == {Mix0("set", AutoMix), Mix0("step", 150)}
AllJobs == Switching \cup Mixing

(* mix.lock is what lets mix commands overlap; the other commands are run  *)
(* one after the other, and by somebody who waits for the unit to settle.  *)
MixOverlap == {{"set"}, {"step"}, {"set", "step"}, {"step", "post"}}

(* What the theorems about Routing suppose.                                *)
ASSUME Supposed == OneAfterAnother /\ SwitchAlone

Symmetry == Permutations(Users)

SmartKeys == <<"smart">>
================================================================================

------------------------------ MODULE DelayLine ------------------------------
(***************************************************************************)
(* What the plugin promises whatever the host's block sizes: every frame   *)
(* comes out exactly Delay frames after it went in, silence before that.   *)
(***************************************************************************)
EXTENDS Integers, Sequences

CONSTANTS
  Delay,    (* Frames between input and output.  *)
  Source,   (* Frames the host may hand over.    *)
  Silent    (* What comes out before the first.  *)

VARIABLES line, out

Init == line = [k \in 1..Delay |-> Silent] /\ out = Silent

Step(frame) ==
  /\ out' = Head(line)
  /\ line' = Append(Tail(line), frame)

Next == \E frame \in Source : Step(frame)

Spec == Init /\ [][Next]_<<line, out>>
=============================================================================

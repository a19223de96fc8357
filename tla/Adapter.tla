------------------------------- MODULE Adapter -------------------------------
(***************************************************************************)
(* The LADSPA adapter: host calls of any length are cut into chunks for    *)
(* the engine, the requested mix (or the bandwidth detector) is ramped at  *)
(* chunk boundaries, and the bass guard compares each produced frame with  *)
(* its own delayed copy of the source.                                     *)
(*                                                                         *)
(* A frame is named by its chunk and its place in it.  Chunk numbers wrap  *)
(* at Numbers, more than the adapter ever holds.  Mixes are in fortieths,  *)
(* in which all of the code's rates are whole.                             *)
(***************************************************************************)
EXTENDS Engine

CONSTANTS
  CHUNK_FRAMES,   (* 256 in the code.                                     *)
  Numbers,        (* Chunk numbers before they repeat.                    *)
  Blocks,         (* Lengths of the host's calls.                         *)
  Percents,       (* Percentages the Mix port may hold.                   *)
  Ratios          (* Mixes the detector may find adequate.                *)

ASSUME AdapterAssumption ==
  /\ CHUNK_FRAMES \in Nat \ {0}
  /\ Numbers \in Nat /\ Numbers > Hops + 1
  /\ Blocks \subseteq Nat \ {0}
  /\ Percents \subseteq Nat
  /\ Ratios \subseteq 0..40

Full == 40
USER_MIX_STEP_PER_CHUNK == 4    (* 0.1   *)
MIX_ATTACK_PER_CHUNK    == 5    (* 0.125 *)
MIX_RELEASE_PER_CHUNK   == 20   (* 0.5   *)
DELAY_FRAMES == Hops * CHUNK_FRAMES

Automatic == -1
Silent    == <<Silence, 0>>

VARIABLES
  left,                  (* Frames the current host call has left.        *)
  manual_target,         (* Its mix, or Automatic.                        *)
  chunk,                 (* Number of the chunk being filled.             *)
  input_frames,
  output_frame,
  detector,              (* BandwidthDetector::mix                        *)
  user_mix,
  user_mix_initialized,
  auto_last_chunk,
  dry,                   (* BassGuard's ring of source frames.            *)
  cursor,
  heard,                 (* [wet, dry]: what the last frame was made of.  *)
  zeros                  (* History: chunks produced at mix 0 in a row.   *)

mixing == <<detector, user_mix, user_mix_initialized, auto_last_chunk, zeros>>
vars == <<left, manual_target, chunk, input_frames, output_frame, detector, user_mix,
          user_mix_initialized, auto_last_chunk, dry, cursor, heard, zeros,
          history, overlap, peak_guard_chunks, limiter_gain, output>>

(* Chunks at mix 0 after which guard and limiter have run out.             *)
Settled == Hops + Unity

Init ==
  /\ left = 0 /\ manual_target = Automatic
  /\ chunk = 0 /\ input_frames = 0 /\ output_frame = CHUNK_FRAMES
  /\ detector = 0 /\ user_mix = 0
  /\ user_mix_initialized = FALSE /\ auto_last_chunk = TRUE
  /\ dry = [k \in 0..(DELAY_FRAMES - 1) |-> Silent] /\ cursor = 0
  /\ heard = [wet |-> Silent, dry |-> Silent]
  /\ zeros = 0
  /\ EngineInit

(* Slip: every host call starts a chunk of its own.                        *)
CallFresh(frames, percent) ==
  /\ left = 0
  /\ left' = frames
  /\ input_frames' = 0
  /\ manual_target' = IF percent < 0 THEN Automatic ELSE Least((2 * percent) \div 5, 2 * Full)
  /\ UNCHANGED <<chunk, output_frame, mixing, dry, cursor, heard, engine>>

(* Slip: the port is trusted to hold at most 200.                          *)
CallUnclamped(frames, percent) ==
  /\ left = 0
  /\ left' = frames
  /\ manual_target' = IF percent < 0 THEN Automatic ELSE (2 * percent) \div 5
  /\ UNCHANGED <<chunk, input_frames, output_frame, mixing, dry, cursor, heard, engine>>

(* process_with_user_mix is called: a percentage above 200 is clamped, a   *)
(* negative or non-finite one selects the detector.                        *)
Call(frames, percent) ==
  /\ left = 0
  /\ left' = frames
  /\ manual_target' = IF percent < 0 THEN Automatic ELSE Least((2 * percent) \div 5, 2 * Full)
  /\ UNCHANGED <<chunk, input_frames, output_frame, mixing, dry, cursor, heard, engine>>

(* detector.update, with the mix that the chunk's spectrum asks for.       *)
Detected(target) ==
  IF target < detector
    THEN IF detector - MIX_RELEASE_PER_CHUNK > target
           THEN detector - MIX_RELEASE_PER_CHUNK ELSE target
    ELSE Least(detector + MIX_ATTACK_PER_CHUNK, target)

Clamp(x, bound) == IF x > bound THEN bound ELSE IF x < -bound THEN -bound ELSE x

(* Slip: the ramp moves by whole steps only.                               *)
NextMixWhole(found) ==
  LET automatic == manual_target = Automatic
      target    == IF automatic THEN found ELSE manual_target
  IN IF ~user_mix_initialized \/ (automatic /\ auto_last_chunk)
       THEN target
       ELSE IF target = user_mix THEN user_mix
            ELSE IF target > user_mix
                   THEN Least(user_mix + USER_MIX_STEP_PER_CHUNK, 2 * Full)
                   ELSE user_mix - Least(user_mix, USER_MIX_STEP_PER_CHUNK)

(* A chunk's mix: the detector while the setting has been automatic for a  *)
(* chunk, else a step towards the setting.                                 *)
NextMix(found) ==
  LET automatic == manual_target = Automatic
      target    == IF automatic THEN found ELSE manual_target
  IN IF ~user_mix_initialized \/ (automatic /\ auto_last_chunk)
       THEN target
       ELSE user_mix + Clamp(target - user_mix, USER_MIX_STEP_PER_CHUNK)

(* A full input buffer goes through detector, ramp and engine.             *)
Produce(ratio, safe) ==
  LET found == Detected(ratio)
      mix   == NextMix(found)
  IN /\ detector' = found
     /\ user_mix' = mix
     /\ user_mix_initialized' = TRUE
     /\ auto_last_chunk' = (manual_target = Automatic)
     /\ zeros' = IF mix = 0 THEN Least(zeros + 1, Settled) ELSE 0
     /\ ProcessWithMix(chunk, mix, safe)
     /\ chunk' = (chunk + 1) % Numbers

(* Frame `k` of the chunk in the output buffer, as the engine numbers it.  *)
Produced(k) ==
  IF output.of = {Silence} THEN Silent
  ELSE <<CHOOSE c \in output.of : TRUE, k>>

(* Slip: the source is stored before the delayed copy is read.             *)
FilterStored(wet, source) ==
  /\ heard' = [wet |-> wet, dry |-> source]
  /\ dry' = [dry EXCEPT ![cursor] = source]
  /\ cursor' = (cursor + 1) % DELAY_FRAMES

(* bass_guard.process: reads the ring, then overwrites what it read.       *)
Filter(wet, source) ==
  /\ heard' = [wet |-> wet, dry |-> dry[cursor]]
  /\ dry' = [dry EXCEPT ![cursor] = source]
  /\ cursor' = (cursor + 1) % DELAY_FRAMES

(* One turn of the loop over the call's frames.                            *)
Frame(ratio, safe) ==
  LET buffered == output_frame < CHUNK_FRAMES
      wet  == IF buffered THEN Produced(output_frame) ELSE Silent
      full == input_frames + 1 = CHUNK_FRAMES
  IN /\ left > 0
     /\ left' = left - 1
     /\ Filter(wet, <<chunk, input_frames>>)
     /\ input_frames' = IF full THEN 0 ELSE input_frames + 1
     /\ output_frame' = IF full THEN 0 ELSE IF buffered THEN output_frame + 1 ELSE output_frame
     /\ IF full THEN Produce(ratio, safe) ELSE UNCHANGED <<chunk, mixing, engine>>
     /\ UNCHANGED manual_target

Next ==
  \/ \E frames \in Blocks, percent \in Percents \cup {Automatic} : Call(frames, percent)
  \/ \E ratio \in Ratios, safe \in SafeGains : Frame(ratio, safe)

Spec == Init /\ [][Next]_vars

(* The sound server keeps calling run, and run ends.                       *)
Fairness ==
  /\ WF_vars(\E frames \in Blocks, percent \in Percents \cup {Automatic} : Call(frames, percent))
  /\ WF_vars(\E ratio \in Ratios, safe \in SafeGains : Frame(ratio, safe))

FairSpec == Spec /\ Fairness

-----------------------------------------------------------------------------
TypeOK ==
  /\ left \in Nat /\ manual_target \in {Automatic} \cup 0..80
  /\ chunk \in 0..(Numbers - 1)
  /\ input_frames \in 0..(CHUNK_FRAMES - 1) /\ output_frame \in 0..CHUNK_FRAMES
  /\ detector \in 0..Full /\ user_mix \in 0..80
  /\ limiter_gain \in 1..Unity /\ peak_guard_chunks \in 0..(Hops - 1)
  /\ cursor \in 0..(DELAY_FRAMES - 1)

(* The bass guard takes the difference of a produced frame with the source *)
(* frame it was made from, never with a neighbour (bass_guard.rs:11): ring, *)
(* chunk buffers and overlap-add agree on 1024 frames for any block sizes. *)
Aligned == heard.wet = heard.dry

(* Frames in flight, oldest first: the rest of the chunk that is being     *)
(* handed out, the chunks of the engine's window that it has not produced, *)
(* and the collected input.                                                *)
InFlight ==
  [i \in 1..DELAY_FRAMES |->
     LET place == i - 1 + input_frames
         block == place \div CHUNK_FRAMES
         k     == place % CHUNK_FRAMES
         named(c) == IF c = Silence THEN Silent ELSE <<c, k>>
     IN CASE block = 0    -> Produced(k)
          [] block = Hops -> <<chunk, k>>
          [] OTHER        -> named(history[block + 1])]

Line == INSTANCE DelayLine WITH
  Delay <- DELAY_FRAMES, Source <- (0..(Numbers - 1)) \X (0..(CHUNK_FRAMES - 1)),
  line <- InFlight, out <- heard.wet

(* Refinement: cut into chunks or not, the plugin is a delay line of 1024  *)
(* frames (README.md:8-12 of id14-sr-ladspa).                              *)
ImplementsDelayLine == Line!Spec

Moved(x, y) == IF x > y THEN x - y ELSE y - x

(* Once playing, the mix changes gradually: by at most 10 points per chunk *)
(* after a change of the setting (README.md:121 of id14-sr-ladspa, and     *)
(* src/lib.rs:25), by at most 50 when the detector releases (README.md:26). *)
ChangesRamp ==
  [][user_mix_initialized => Moved(user_mix', user_mix) <= MIX_RELEASE_PER_CHUNK]_vars

(* What manual_target may be.                                              *)
Settings == {Least((2 * percent) \div 5, 2 * Full) : percent \in Percents}

(* A manual setting that stays is reached exactly, whatever the detector   *)
(* finds and wherever the ramp started ("0 reaches the engine's fixed-delay *)
(* bypass after a short ramp", README.md:112-113 of id14-sr-ladspa).       *)
ReachesSetting ==
  \A t \in Settings : <>[](manual_target = t) => <>[](user_mix = t)

(* A mix that has been 0 for long leaves the source as it is ("Steady `0`  *)
(* preserves its fixed-delay source output", README.md:120 of              *)
(* id14-sr-ladspa).                                                        *)
SteadyBypass == zeros = Settled => output.gain = Unity
=============================================================================

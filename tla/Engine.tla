-------------------------------- MODULE Engine --------------------------------
(***************************************************************************)
(* StreamingSr::process_with_mix, one 256-frame chunk at a time: which     *)
(* chunk of the source each overlap-add slot carries, whether completed    *)
(* material was added to it, and how the peak limiter follows.             *)
(*                                                                         *)
(* Audio is abstracted to its origin.  The model's spectra, the trained    *)
(* network and the window are data; a window that completion may have      *)
(* touched counts as touched.                                              *)
(***************************************************************************)
EXTENDS Integers, Sequences

CONSTANTS
  Hops,       (* WINDOW / CHUNK_FRAMES, 4 in the code.                    *)
  SafeGains   (* Gains that bring some chunk's peak to full scale, tenths. *)

ASSUME EngineAssumption ==
  /\ Hops \in Nat \ {0, 1}
  /\ SafeGains \subseteq 1..10

(* The zeros that every buffer starts with, as a chunk number.             *)
Silence == -1

(* limiter_gain = 1.0, and LIMITER_RELEASE_PER_CHUNK, in tenths.           *)
Unity   == 10
Release == 1

VARIABLES
  history,            (* Source chunks in the analysis window, oldest first. *)
  overlap,            (* Slots of the overlap-add buffer, next one first. *)
  peak_guard_chunks,
  limiter_gain,       (* Tenths.                                          *)
  output              (* The chunk the last call produced.                *)

engine == <<history, overlap, peak_guard_chunks, limiter_gain, output>>

(* A slot: the source chunks its windows were about, how many windows were *)
(* added, and whether one of them was completed.                           *)
EmptySlot == [of |-> {}, windows |-> 0, synth |-> FALSE]

(* A produced chunk is a slot, its peak (as the gain that would be safe)   *)
(* and the gain applied.                                                   *)
NoOutput == [of |-> {Silence}, windows |-> 0, synth |-> FALSE,
             safe |-> Unity, gain |-> Unity]

EngineInit ==
  /\ history = [k \in 1..Hops |-> Silence]
  /\ overlap = [k \in 1..Hops |-> EmptySlot]
  /\ peak_guard_chunks = 0
  /\ limiter_gain = Unity
  /\ output = NoOutput

Least(a, b) == IF a < b THEN a ELSE b

(* Slip: the guard counts the chunk that is being produced as well.        *)
GuardAfterShort(mix, guard) == IF mix = 0 THEN guard - Least(guard, 2) ELSE guard

(* saturating_sub at mix 0.                                                *)
GuardAfter(mix, guard) == IF mix = 0 THEN guard - Least(guard, 1) ELSE guard

(* Slip: the buffer is shifted before the window is added.                 *)
AddWindowShifted(window, completed) ==
  [k \in 1..Hops |->
     LET slot == IF k = Hops THEN EmptySlot ELSE overlap[k + 1]
     IN [of |-> slot.of \cup {window[k]}, windows |-> slot.windows + 1,
         synth |-> slot.synth \/ completed]]

(* overlap[i] += windowed inverse transform, for the whole window.         *)
AddWindow(window, completed) ==
  [k \in 1..Hops |->
     [of |-> overlap[k].of \cup {window[k]}, windows |-> overlap[k].windows + 1,
      synth |-> overlap[k].synth \/ completed]]

(* process_with_mix; `safe` stands for the peak of the chunk to produce.   *)
ProcessWithMix(input, mix, safe) ==
  LET window  == Append(Tail(history), input)
      guard   == IF mix > 0 THEN Hops - 1 ELSE peak_guard_chunks
      added   == AddWindow(window, mix > 0)
      protect == mix > 0 \/ guard > 0 \/ limiter_gain < Unity
      gain    == IF protect THEN Least(safe, Least(limiter_gain + Release, Unity))
                 ELSE limiter_gain
  IN /\ history' = window
     /\ limiter_gain' = gain
     /\ output' = [of |-> added[1].of, windows |-> added[1].windows, synth |-> added[1].synth,
                   safe |-> safe, gain |-> IF protect THEN gain ELSE Unity]
     /\ overlap' = [k \in 1..Hops |-> IF k = Hops THEN EmptySlot ELSE added[k + 1]]
     /\ peak_guard_chunks' = GuardAfter(mix, guard)

-----------------------------------------------------------------------------
(* Overlap-add is coherent: a produced chunk is one source chunk, seen     *)
(* through all the windows it lies in (ALGORITHM_DELAY_FRAMES is enough).  *)
Reconstructed ==
  output.of = {Silence} \/ \E c \in output.of : output.of = {c} /\ output.windows = Hops

(* A chunk with completed material in it, the overlap tail after the mix   *)
(* went back to 0 included, never exceeds full scale (README.md:118-120 of *)
(* id14-sr-ladspa).                                                        *)
PeakSafe == output.synth => output.gain <= output.safe
=============================================================================

----------------------------- MODULE AdapterProofs -----------------------------
(***************************************************************************)
(* Theorems about the adapter and its engine, for every window length,     *)
(* every host block size and every course of the mix.                      *)
(***************************************************************************)
EXTENDS Adapter, SequenceTheorems, TLAPS

(* The guard outlasts the overlap tail: a slot with completed material is  *)
(* produced within the next peak_guard_chunks calls.                       *)
TailGuarded ==
  /\ peak_guard_chunks \in 0..(Hops - 1)
  /\ limiter_gain \in 1..Unity
  /\ \A k \in 1..Hops : overlap[k].synth => k <= peak_guard_chunks

(* Initially nothing is completed and the limiter is open.                 *)
LEMMA InitGuarded == Init => TailGuarded /\ PeakSafe
  BY EngineAssumption DEF Init, EngineInit, TailGuarded, PeakSafe, EmptySlot, NoOutput, Unity

(* One chunk, at whatever mix and with whatever peak.                      *)
LEMMA ProcessGuarded ==
  ASSUME TailGuarded, NEW input, NEW mix, NEW safe \in SafeGains,
         ProcessWithMix(input, mix, safe)
  PROVE  TailGuarded' /\ PeakSafe'
  <1> DEFINE guard == IF mix > 0 THEN Hops - 1 ELSE peak_guard_chunks
             window == Append(Tail(history), input)
             added == AddWindow(window, mix > 0)
             protect == mix > 0 \/ guard > 0 \/ limiter_gain < Unity
             gain == IF protect THEN Least(safe, Least(limiter_gain + Release, Unity))
                     ELSE limiter_gain
  <1>1. /\ Hops \in Nat /\ Hops > 1
        /\ safe \in 1..10
        /\ guard \in 0..(Hops - 1)
        /\ limiter_gain \in 1..10
    BY EngineAssumption DEF TailGuarded, Unity
  <1>2. /\ limiter_gain' = gain
        /\ output'.synth = added[1].synth
        /\ output'.safe = safe
        /\ output'.gain = IF protect THEN gain ELSE Unity
        /\ overlap' = [k \in 1..Hops |-> IF k = Hops THEN EmptySlot ELSE added[k + 1]]
        /\ peak_guard_chunks' = GuardAfter(mix, guard)
    BY DEF ProcessWithMix
  <1>3. \A k \in 1..Hops : added[k].synth = (overlap[k].synth \/ mix > 0)
    BY DEF AddWindow
  <1>4. gain \in 1..Unity /\ (protect => gain <= safe)
    BY <1>1 DEF Least, Unity, Release
  <1>5. peak_guard_chunks' \in 0..(Hops - 1)
    BY <1>1, <1>2 DEF GuardAfter, Least
  <1>6. ASSUME NEW k \in 1..Hops, overlap'[k].synth PROVE k <= peak_guard_chunks'
    <2>1. k # Hops /\ overlap'[k] = added[k + 1]
      BY <1>2, <1>6 DEF EmptySlot
    <2>2. k + 1 \in 1..Hops
      BY <1>1, <2>1
    <2>3. overlap[k + 1].synth \/ mix > 0
      BY <1>3, <1>6, <2>1, <2>2
    <2>4. mix > 0 \/ k + 1 <= guard
      BY <2>2, <2>3 DEF TailGuarded
    <2>5. CASE mix > 0
      <3>1. mix # 0
        BY <2>5
      <3>2. peak_guard_chunks' = Hops - 1
        BY <1>2, <2>5, <3>1 DEF GuardAfter
      <3>3. QED BY <1>1, <2>1, <3>2
    <2>6. CASE ~(mix > 0)
      BY <1>1, <1>2, <2>1, <2>4, <2>6 DEF GuardAfter, Least
    <2>7. QED BY <2>5, <2>6
  <1>7. output'.synth => output'.gain <= output'.safe
    <2>1. output'.synth => mix > 0 \/ guard >= 1
      <3>1. 1 \in 1..Hops
        BY <1>1
      <3>2. output'.synth = (overlap[1].synth \/ mix > 0)
        BY <1>2, <1>3, <3>1
      <3>3. QED BY <1>1, <3>1, <3>2 DEF TailGuarded
    <2>2. QED BY <1>1, <1>2, <1>4, <2>1
  <1>8. QED BY <1>2, <1>4, <1>5, <1>6, <1>7 DEF TailGuarded, PeakSafe

(* Whatever the mix does, no chunk with completed material in it leaves    *)
(* the engine above full scale.                                            *)
THEOREM PeaksAreSafe == Spec => []PeakSafe
  <1>1. Init => TailGuarded /\ PeakSafe
    BY InitGuarded
  <1>2. TailGuarded /\ PeakSafe /\ [Next]_vars => (TailGuarded /\ PeakSafe)'
    <2> SUFFICES ASSUME TailGuarded, PeakSafe, [Next]_vars PROVE (TailGuarded /\ PeakSafe)'
      OBVIOUS
    <2>1. CASE UNCHANGED engine
      BY <2>1 DEF engine, TailGuarded, PeakSafe
    <2>2. ASSUME NEW ratio \in Ratios, NEW safe \in SafeGains, Produce(ratio, safe)
          PROVE (TailGuarded /\ PeakSafe)'
      BY <2>2, ProcessGuarded DEF Produce
    <2>3. QED BY <2>1, <2>2 DEF Next, Call, Frame, vars, engine
  <1>3. QED BY <1>1, <1>2, PTL DEF Spec

-----------------------------------------------------------------------------
(* Arithmetic of places: a place is a block and an offset in it.           *)

(* Products of naturals are naturals, and no smaller than a factor.        *)
LEMMA Product == \A a, b \in Nat : a * b \in Nat /\ (b >= 1 => a * b >= a)
  OBVIOUS

(* What division is: the remainder is smaller than the divisor.            *)
LEMMA Division ==
  ASSUME NEW n \in Nat \ {0}, NEW x \in Nat
  PROVE  /\ x \div n \in Nat /\ x % n \in 0..(n - 1)
         /\ x = ((x \div n) * n) + (x % n)
  OBVIOUS

(* Quotient and remainder are the only numbers that do this.               *)
LEMMA DivisionUnique ==
  ASSUME NEW n \in Nat \ {0}, NEW b \in Nat, NEW k \in 0..(n - 1)
  PROVE  (b * n + k) \div n = b /\ (b * n + k) % n = k
  <1> DEFINE x == b * n + k
             c == x \div n
             l == x % n
  <1>1. x \in Nat
    BY Product
  <1>2. c \in Nat /\ l \in 0..(n - 1) /\ x = (c * n) + l
    <2> HIDE DEF x
    <2>1. QED BY <1>1, Division
  <1> HIDE DEF c, l
  <1>3. (c - b) * n = k - l
    BY <1>2
  <1>4. c - b < 1
    <2>1. SUFFICES ASSUME c - b >= 1 PROVE FALSE
      BY <1>2
    <2>2. (c - b) * n >= n
      BY <1>2, <2>1, Product
    <2>3. QED BY <1>2, <1>3, <2>2
  <1>5. c - b > -1
    <2>1. SUFFICES ASSUME b - c >= 1 PROVE FALSE
      BY <1>2
    <2>2. (b - c) * n >= n
      BY <1>2, <2>1, Product
    <2>3. QED BY <1>2, <1>3, <2>2
  <1>6. c = b
    BY <1>2, <1>4, <1>5
  <1>7. l = k
    BY <1>2, <1>6
  <1>8. QED BY <1>6, <1>7 DEF c, l

(* The lengths the assumptions leave possible.                             *)
LEMMA Lengths ==
  /\ CHUNK_FRAMES \in Nat \ {0} /\ Hops \in Nat /\ Hops >= 2
  /\ DELAY_FRAMES \in Nat \ {0} /\ DELAY_FRAMES = Hops * CHUNK_FRAMES
  <1>1. CHUNK_FRAMES \in Nat \ {0} /\ Hops \in Nat /\ Hops >= 2
    BY AdapterAssumption, EngineAssumption
  <1>2. QED BY <1>1, Product DEF DELAY_FRAMES

-----------------------------------------------------------------------------
(* What is where between input and output.                                 *)

Chunks == 0..(Numbers - 1)

(* A frame of a chunk; the zeros at the start are all alike.               *)
Named(c, k) == IF c = Silence THEN Silent ELSE <<c, k>>

(* The frame at a place, counted from the oldest frame of the chunk that   *)
(* is handed out: h is the window, c the chunk that is being collected.    *)
Place(h, c, place) ==
  IF place \div CHUNK_FRAMES = Hops THEN <<c, place % CHUNK_FRAMES>>
  ELSE Named(h[(place \div CHUNK_FRAMES) + 1], place % CHUNK_FRAMES)

(* The index of the bass guard's ring that is read j frames from now.      *)
RingAt(c, j) == IF c + j < DELAY_FRAMES THEN c + j ELSE c + j - DELAY_FRAMES

(* The overlap-add buffer runs one chunk behind the window: a slot has     *)
(* seen every window its chunk has been in, and nothing else.              *)
WindowInv ==
  /\ history \in Seq({Silence} \cup Chunks) /\ Len(history) = Hops
  /\ output.of = {history[1]}
  /\ history[1] # Silence => output.windows = Hops
  /\ overlap[Hops] = EmptySlot
  /\ \A k \in 1..(Hops - 1) :
       /\ overlap[k].of \subseteq {history[k + 1]}
       /\ history[k + 1] # Silence => overlap[k].windows = Hops - k

(* Once something has been produced, reading keeps step with collecting;   *)
(* before that everything that can be read is silence.                     *)
InStep ==
  output_frame = input_frames \/ (output_frame = CHUNK_FRAMES /\ history[1] = Silence)

(* The ring of the bass guard holds exactly what is in flight.             *)
RingInv ==
  /\ DOMAIN dry = 0..(DELAY_FRAMES - 1)
  /\ \A j \in 0..(DELAY_FRAMES - 1) : dry[RingAt(cursor, j)] = InFlight[j + 1]

AdapterInv == TypeOK /\ WindowInv /\ InStep /\ RingInv /\ Aligned

(* Where a place of the window lies: in a block of the history or in the   *)
(* last, unfinished one.                                                   *)
LEMMA PlaceAt ==
  ASSUME NEW h, NEW c, NEW b \in 0..Hops, NEW k \in 0..(CHUNK_FRAMES - 1)
  PROVE  Place(h, c, b * CHUNK_FRAMES + k) = IF b = Hops THEN <<c, k>> ELSE Named(h[b + 1], k)
  <1>1. /\ (b * CHUNK_FRAMES + k) \div CHUNK_FRAMES = b
        /\ (b * CHUNK_FRAMES + k) % CHUNK_FRAMES = k
    BY Lengths, DivisionUnique
  <1>2. QED BY <1>1 DEF Place

(* Every place in flight is in one of the blocks.                          *)
LEMMA Block ==
  ASSUME NEW place \in Nat, place < DELAY_FRAMES + CHUNK_FRAMES
  PROVE  \E b \in 0..Hops, k \in 0..(CHUNK_FRAMES - 1) :
           place = b * CHUNK_FRAMES + k /\ (place < DELAY_FRAMES => b < Hops)
  <1> DEFINE b == place \div CHUNK_FRAMES
             k == place % CHUNK_FRAMES
  <1>1. b \in Nat /\ k \in 0..(CHUNK_FRAMES - 1) /\ place = (b * CHUNK_FRAMES) + k
    BY Lengths, Division
  <1> HIDE DEF b, k
  <1>2. \A m \in Nat : b >= m => b * CHUNK_FRAMES >= m * CHUNK_FRAMES
    <2>1. TAKE m \in Nat
    <2>2. HAVE b >= m
    <2>3. (b - m) * CHUNK_FRAMES \in Nat
      BY <1>1, <2>2, Lengths, Product
    <2>4. QED BY <1>1, <2>3, Lengths
  <1>3. b <= Hops
    <2>1. SUFFICES ASSUME b >= Hops + 1 PROVE FALSE
      BY <1>1, Lengths
    <2>2. b * CHUNK_FRAMES >= (Hops + 1) * CHUNK_FRAMES
      BY <1>2, <2>1, Lengths
    <2>3. (Hops + 1) * CHUNK_FRAMES = DELAY_FRAMES + CHUNK_FRAMES
      BY Lengths
    <2>4. QED BY <1>1, <2>2, <2>3, Lengths
  <1>4. place < DELAY_FRAMES => b < Hops
    BY <1>1, <1>2, Lengths
  <1>5. QED BY <1>1, <1>3, <1>4

(* When a chunk has been collected the window moves by one chunk, and      *)
(* every place with it.                                                    *)
LEMMA PlaceShift ==
  ASSUME NEW h, NEW g, NEW c \in Chunks, NEW d, NEW place \in 0..(DELAY_FRAMES - 1),
         \A b \in 1..(Hops - 1) : g[b] = h[b + 1], g[Hops] = c
  PROVE  Place(g, d, place) = Place(h, c, place + CHUNK_FRAMES)
  <1>1. PICK b \in 0..Hops, k \in 0..(CHUNK_FRAMES - 1) :
          place = b * CHUNK_FRAMES + k /\ b < Hops
    BY Block, Lengths
  <1>2. b + 1 \in 0..Hops /\ place + CHUNK_FRAMES = (b + 1) * CHUNK_FRAMES + k
    BY <1>1, Lengths
  <1>3. Place(g, d, place) = Named(g[b + 1], k)
    <2>1. b # Hops
      BY <1>1, Lengths
    <2>2. QED BY <1>1, <2>1, PlaceAt
  <1>4. Place(h, c, place + CHUNK_FRAMES) = IF b + 1 = Hops THEN <<c, k>> ELSE Named(h[b + 2], k)
    BY <1>2, PlaceAt
  <1>5. CASE b + 1 = Hops
    <2>1. c # Silence
      BY DEF Chunks, Silence
    <2>2. QED BY <1>3, <1>4, <1>5, <2>1 DEF Named
  <1>6. CASE b + 1 # Hops
    BY <1>1, <1>3, <1>4, <1>6, Lengths
  <1>7. QED BY <1>5, <1>6

(* The ring goes round.                                                    *)
LEMMA RingTurns ==
  ASSUME NEW c \in 0..(DELAY_FRAMES - 1)
  PROVE  /\ (c + 1) % DELAY_FRAMES = RingAt(c, 1)
         /\ RingAt(c, 1) \in 0..(DELAY_FRAMES - 1)
         /\ RingAt(c, 0) = c
         /\ RingAt(RingAt(c, 1), DELAY_FRAMES - 1) = c
         /\ \A j \in 0..(DELAY_FRAMES - 2) :
              /\ RingAt(RingAt(c, 1), j) = RingAt(c, j + 1)
              /\ RingAt(c, j + 1) # c /\ RingAt(c, j + 1) \in 0..(DELAY_FRAMES - 1)
  <1>1. DELAY_FRAMES \in Nat \ {0}
    BY Lengths
  <1>2. (c + 1) % DELAY_FRAMES = RingAt(c, 1)
    <2>1. CASE c + 1 < DELAY_FRAMES
      <3>1. 0 * DELAY_FRAMES + (c + 1) = c + 1
        BY <1>1
      <3>2. QED BY <1>1, <2>1, <3>1, DivisionUnique DEF RingAt
    <2>2. CASE c + 1 = DELAY_FRAMES
      <3>1. 1 * DELAY_FRAMES + 0 = c + 1
        BY <1>1, <2>2
      <3>2. (1 * DELAY_FRAMES + 0) % DELAY_FRAMES = 0
        BY <1>1, DivisionUnique
      <3>3. QED BY <1>1, <2>2, <3>1, <3>2 DEF RingAt
    <2>3. QED BY <1>1, <2>1, <2>2
  <1>3. QED BY <1>1, <1>2 DEF RingAt

-----------------------------------------------------------------------------
(* The steps.                                                              *)

(* What is in flight, place by place.                                      *)
LEMMA FlightByPlace ==
  output.of = {history[1]} /\ TypeOK =>
    InFlight = [i \in 1..DELAY_FRAMES |-> Place(history, chunk, i - 1 + input_frames)]
  <1> SUFFICES ASSUME output.of = {history[1]}, TypeOK
               PROVE  InFlight = [i \in 1..DELAY_FRAMES |-> Place(history, chunk, i - 1 + input_frames)]
    OBVIOUS
  <1>1. \A k : Produced(k) = Named(history[1], k)
    <2>1. (CHOOSE c \in {history[1]} : TRUE) = history[1]
      OBVIOUS
    <2>2. {history[1]} = {Silence} <=> history[1] = Silence
      OBVIOUS
    <2>3. QED BY <2>1, <2>2 DEF Produced, Named
  <1>2. ASSUME NEW i \in 1..DELAY_FRAMES
        PROVE  InFlight[i] = Place(history, chunk, i - 1 + input_frames)
    <2> DEFINE place == i - 1 + input_frames
    <2>1. place \in Nat
      BY Lengths DEF TypeOK
    <2>2. CASE place \div CHUNK_FRAMES = 0
      BY <1>1, <2>1, <2>2, Lengths DEF InFlight, Place
    <2>3. CASE place \div CHUNK_FRAMES = Hops
      BY <2>1, <2>3, Lengths DEF InFlight, Place
    <2>4. CASE place \div CHUNK_FRAMES # 0 /\ place \div CHUNK_FRAMES # Hops
      BY <2>1, <2>4, Lengths DEF InFlight, Place, Named
    <2>5. QED BY <2>2, <2>3, <2>4
  <1>3. InFlight = [i \in 1..DELAY_FRAMES |-> InFlight[i]]
    BY DEF InFlight
  <1>4. QED BY <1>2, <1>3

(* At the start everything is silence.                                     *)
LEMMA InitAdapter == Init => AdapterInv /\ Reconstructed
  <1> SUFFICES ASSUME Init PROVE AdapterInv /\ Reconstructed
    OBVIOUS
  <1> USE DEF Init, EngineInit
  <1>1. TypeOK
    BY Lengths, AdapterAssumption DEF TypeOK, Full, Unity
  <1>2. WindowInv
    <2>1. Silence \in {Silence} \cup Chunks
      OBVIOUS
    <2>2. history \in Seq({Silence} \cup Chunks) /\ Len(history) = Hops
      BY <2>1, Lengths
    <2>3. \A k \in 1..Hops : history[k] = Silence /\ overlap[k] = EmptySlot
      BY Lengths
    <2>4. 1 \in 1..Hops /\ Hops \in 1..Hops /\ \A k \in 1..(Hops - 1) : k \in 1..Hops /\ k + 1 \in 1..Hops
      BY Lengths
    <2>5. output.of = {Silence}
      BY DEF NoOutput
    <2>6. QED BY <2>2, <2>3, <2>4, <2>5 DEF WindowInv, EmptySlot
  <1>3. InStep
    BY Lengths DEF InStep
  <1>4. RingInv
    <2>1. ASSUME NEW j \in 0..(DELAY_FRAMES - 1) PROVE InFlight[j + 1] = Silent
      <3>1. PICK b \in 0..Hops, k \in 0..(CHUNK_FRAMES - 1) : j = b * CHUNK_FRAMES + k /\ b < Hops
        <4>1. j \in Nat /\ j < DELAY_FRAMES /\ j < DELAY_FRAMES + CHUNK_FRAMES
          BY Lengths
        <4>2. QED BY <4>1, Block
      <3>2. Place(history, chunk, j) = Named(history[b + 1], k)
        <4>1. b # Hops
          BY <3>1, Lengths
        <4>2. QED BY <3>1, <4>1, PlaceAt
      <3>3. history[b + 1] = Silence
        BY <3>1, Lengths
      <3>4. j + 1 \in 1..DELAY_FRAMES /\ (j + 1) - 1 + input_frames = j
        BY Lengths
      <3>5. InFlight[j + 1] = Place(history, chunk, j)
        <4>1. output.of = {history[1]}
          BY <1>2 DEF WindowInv
        <4>2. InFlight = [i \in 1..DELAY_FRAMES |-> Place(history, chunk, i - 1 + input_frames)]
          BY <1>1, <4>1, FlightByPlace
        <4>3. QED BY <3>4, <4>2
      <3>6. QED BY <3>2, <3>3, <3>5 DEF Named
    <2>2. \A j \in 0..(DELAY_FRAMES - 1) : RingAt(cursor, j) = j
      BY Lengths DEF RingAt
    <2>3. QED BY <2>1, <2>2 DEF RingInv
  <1>5. Aligned /\ Reconstructed
    BY DEF Aligned, Reconstructed, NoOutput
  <1>6. QED BY <1>1, <1>2, <1>3, <1>4, <1>5 DEF AdapterInv

(* One chunk through the engine.                                           *)
LEMMA ProcessWindow ==
  ASSUME WindowInv, NEW input \in Chunks, NEW mix, NEW safe, ProcessWithMix(input, mix, safe)
  PROVE  /\ WindowInv'
         /\ \A b \in 1..(Hops - 1) : history'[b] = history[b + 1]
         /\ history'[Hops] = input
  <1> DEFINE S == {Silence} \cup Chunks
             window == Append(Tail(history), input)
             added == AddWindow(window, mix > 0)
  <1>1. /\ history' = window
        /\ output'.of = added[1].of /\ output'.windows = added[1].windows
        /\ overlap' = [k \in 1..Hops |-> IF k = Hops THEN EmptySlot ELSE added[k + 1]]
    BY DEF ProcessWithMix
  <1>2. /\ Tail(history) \in Seq(S) /\ Len(Tail(history)) = Hops - 1
        /\ \A i \in 1..(Hops - 1) : Tail(history)[i] = history[i + 1]
    <2>1. history \in Seq(S) /\ history # << >>
      BY Lengths DEF WindowInv
    <2>2. QED BY <2>1, HeadTailProperties, Lengths DEF WindowInv
  <1>3. /\ window \in Seq(S) /\ Len(window) = Hops
        /\ \A i \in 1..(Hops - 1) : window[i] = history[i + 1]
        /\ window[Hops] = input
    <2>1. input \in S
      OBVIOUS
    <2>2. QED BY <1>2, <2>1, Lengths
  <1> HIDE DEF window
  <1>4. \A k \in 1..Hops : /\ added[k].of = overlap[k].of \cup {window[k]}
                           /\ added[k].windows = overlap[k].windows + 1
    BY DEF AddWindow
  <1>5. ASSUME NEW k \in 1..(Hops - 1) PROVE added[k].of = {window[k]}
    <2>1. k \in 1..Hops
      BY Lengths
    <2>2. window[k] = history[k + 1] /\ added[k].of = overlap[k].of \cup {window[k]}
      BY <1>3, <1>4, <2>1, Zenon
    <2>3. overlap[k].of \subseteq {history[k + 1]}
      BY DEF WindowInv
    <2>4. QED BY <2>2, <2>3, Zenon
  <1>6. added[Hops].of = {window[Hops]} /\ added[Hops].windows = 1
    BY <1>4, Lengths DEF WindowInv, EmptySlot
  <1>7. \A k \in 1..Hops : window[k] # Silence => added[k].windows = Hops - k + 1
    <2>1. ASSUME NEW k \in 1..(Hops - 1), window[k] # Silence PROVE added[k].windows = Hops - k + 1
      <3>1. k \in 1..Hops /\ window[k] = history[k + 1]
        BY <1>3, Lengths
      <3>2. overlap[k].windows = Hops - k
        BY <2>1, <3>1 DEF WindowInv
      <3>3. added[k].windows = overlap[k].windows + 1
        BY <1>4, <3>1
      <3>4. QED BY <3>2, <3>3
    <2>2. QED BY <1>6, <2>1, Lengths
  <1> HIDE DEF added
  <1>8. output'.of = {history'[1]} /\ (history'[1] # Silence => output'.windows = Hops)
    <2>1. 1 \in 1..(Hops - 1) /\ 1 \in 1..Hops
      BY Lengths
    <2>2. added[1].of = {window[1]}
      BY <1>5, <2>1
    <2>3. window[1] # Silence => added[1].windows = Hops
      BY <1>7, <2>1, Lengths
    <2>4. QED BY <1>1, <2>2, <2>3
  <1>9. overlap'[Hops] = EmptySlot
    BY <1>1, Lengths
  <1>10. ASSUME NEW k \in 1..(Hops - 1)
         PROVE  /\ overlap'[k].of \subseteq {history'[k + 1]}
                /\ history'[k + 1] # Silence => overlap'[k].windows = Hops - k
    <2>1. k \in 1..Hops /\ k # Hops /\ k + 1 \in 1..Hops
      BY Lengths
    <2>2. overlap'[k] = added[k + 1]
      BY <1>1, <2>1
    <2>3. added[k + 1].of = {window[k + 1]}
      BY <1>5, <1>6, <2>1, Lengths
    <2>4. window[k + 1] # Silence => added[k + 1].windows = Hops - k
      BY <1>7, <2>1, Lengths
    <2>5. QED BY <1>1, <2>2, <2>3, <2>4
  <1>11. QED BY <1>1, <1>3, <1>8, <1>9, <1>10 DEF WindowInv

(* What the host may ask for stays on the scale of the mix.                *)
LEMMA CallTyped ==
  ASSUME TypeOK, NEW frames \in Blocks, NEW percent \in Percents \cup {Automatic},
         Call(frames, percent)
  PROVE  TypeOK'
  <1>1. manual_target' \in {Automatic} \cup 0..80
    <2>1. CASE percent < 0
      BY <2>1 DEF Call
    <2>2. CASE ~(percent < 0)
      <3>1. percent \in Nat
        BY <2>2, AdapterAssumption DEF Automatic
      <3>2. (2 * percent) \div 5 \in Nat
        BY <3>1
      <3>3. manual_target' = Least((2 * percent) \div 5, 2 * Full)
        BY <2>2 DEF Call
      <3>4. QED BY <3>2, <3>3 DEF Least, Full
    <2>3. QED BY <2>1, <2>2
  <1>2. left' \in Nat
    BY AdapterAssumption DEF Call
  <1>3. QED BY <1>1, <1>2 DEF Call, TypeOK, mixing, engine

(* The ramp stays on the scale, and so do limiter and guard.               *)
LEMMA FrameTyped ==
  ASSUME TypeOK, NEW ratio \in Ratios, NEW safe \in SafeGains, Frame(ratio, safe)
  PROVE  TypeOK'
  <1> DEFINE full == input_frames + 1 = CHUNK_FRAMES
  <1>1. left' \in Nat /\ manual_target' = manual_target
    BY DEF Frame, TypeOK
  <1>2. /\ input_frames' \in 0..(CHUNK_FRAMES - 1) /\ output_frame' \in 0..CHUNK_FRAMES
        /\ cursor' \in 0..(DELAY_FRAMES - 1)
    <2>1. cursor' = (cursor + 1) % DELAY_FRAMES
      BY DEF Frame, Filter
    <2>2. cursor' \in 0..(DELAY_FRAMES - 1)
      BY <2>1, RingTurns DEF TypeOK
    <2>3. /\ input_frames' = IF full THEN 0 ELSE input_frames + 1
          /\ output_frame' = IF full THEN 0 ELSE IF output_frame < CHUNK_FRAMES THEN output_frame + 1
                                                 ELSE output_frame
      BY DEF Frame
    <2>4. QED BY <2>2, <2>3, Lengths DEF TypeOK
  <1>3. CASE ~full
    <2>1. UNCHANGED <<chunk, mixing, engine>>
      BY <1>3 DEF Frame
    <2>2. QED BY <1>1, <1>2, <2>1 DEF TypeOK, mixing, engine
  <1>4. CASE full
    <2>1. Produce(ratio, safe)
      BY <1>4 DEF Frame
    <2> DEFINE found == Detected(ratio)
               mix == NextMix(found)
    <2>2. found \in 0..Full
      BY AdapterAssumption DEF Detected, TypeOK, Full, Least, MIX_RELEASE_PER_CHUNK, MIX_ATTACK_PER_CHUNK
    <2> HIDE DEF found
    <2>3. mix \in 0..80
      BY <2>2 DEF NextMix, Clamp, TypeOK, Full, Automatic, USER_MIX_STEP_PER_CHUNK
    <2> HIDE DEF mix
    <2>4. detector' = found /\ user_mix' = mix /\ chunk' = (chunk + 1) % Numbers
      BY <2>1 DEF Produce, found, mix
    <2>5. (chunk + 1) % Numbers \in 0..(Numbers - 1)
      <3>1. Numbers \in Nat \ {0} /\ chunk + 1 \in Nat
        BY AdapterAssumption, Lengths DEF TypeOK
      <3>2. QED BY <3>1, Division
    <2>6. limiter_gain' \in 1..Unity /\ peak_guard_chunks' \in 0..(Hops - 1)
      <3>1. ProcessWithMix(chunk, mix, safe)
        BY <2>1 DEF Produce, found, mix
      <3> DEFINE guard == IF mix > 0 THEN Hops - 1 ELSE peak_guard_chunks
      <3>2. guard \in 0..(Hops - 1)
        BY Lengths DEF TypeOK
      <3>3. /\ peak_guard_chunks' = GuardAfter(mix, guard)
            /\ limiter_gain' \in {Least(safe, Least(limiter_gain + Release, Unity)), limiter_gain}
        BY <3>1 DEF ProcessWithMix
      <3>4. safe \in 1..10
        BY EngineAssumption
      <3>5. QED BY <3>2, <3>3, <3>4, Lengths DEF GuardAfter, Least, Release, Unity, TypeOK
    <2>7. QED BY <1>1, <1>2, <2>2, <2>3, <2>4, <2>5, <2>6 DEF TypeOK
  <1>5. QED BY <1>3, <1>4

(* The frame that comes out is the oldest in flight, and it meets its own  *)
(* source in the bass guard.                                               *)
LEMMA FrameHeard ==
  ASSUME AdapterInv, NEW ratio \in Ratios, NEW safe \in SafeGains, Frame(ratio, safe)
  PROVE  heard'.wet = InFlight[1] /\ heard'.dry = InFlight[1]
  <1> DEFINE wet == IF output_frame < CHUNK_FRAMES THEN Produced(output_frame) ELSE Silent
  <1>1. heard' = [wet |-> wet, dry |-> dry[cursor]]
    BY DEF Frame, Filter
  <1>2. TypeOK /\ output.of = {history[1]} /\ InStep /\ RingInv
    BY DEF AdapterInv, WindowInv
  <1>3. Produced(input_frames) = Named(history[1], input_frames)
    <2>1. (CHOOSE c \in {history[1]} : TRUE) = history[1]
      OBVIOUS
    <2>2. {history[1]} = {Silence} <=> history[1] = Silence
      OBVIOUS
    <2>3. QED BY <1>2, <2>1, <2>2 DEF Produced, Named
  <1>4. wet = Named(history[1], input_frames)
    BY <1>2, <1>3, Lengths DEF InStep, TypeOK, Named
  <1>5. InFlight[1] = Named(history[1], input_frames)
    <2>1. 1 \in 1..DELAY_FRAMES /\ 1 - 1 + input_frames = 0 * CHUNK_FRAMES + input_frames
      BY <1>2, Lengths DEF TypeOK
    <2>2. InFlight[1] = Place(history, chunk, 0 * CHUNK_FRAMES + input_frames)
      BY <1>2, <2>1, FlightByPlace
    <2>3. 0 \in 0..Hops /\ 0 # Hops /\ input_frames \in 0..(CHUNK_FRAMES - 1)
      BY <1>2, Lengths DEF TypeOK
    <2>4. Place(history, chunk, 0 * CHUNK_FRAMES + input_frames)
            = IF 0 = Hops THEN <<chunk, input_frames>> ELSE Named(history[0 + 1], input_frames)
      BY <2>3, PlaceAt
    <2>5. QED BY <2>2, <2>3, <2>4
  <1>6. dry[cursor] = InFlight[1]
    <2>1. RingAt(cursor, 0) = cursor /\ 0 \in 0..(DELAY_FRAMES - 1)
      BY <1>2, RingTurns, Lengths DEF TypeOK
    <2>2. QED BY <1>2, <2>1 DEF RingInv
  <1>7. QED BY <1>1, <1>4, <1>5, <1>6

(* A frame moves everything in flight one place on, whether it completes   *)
(* a chunk or not.                                                         *)
LEMMA FrameMoves ==
  ASSUME AdapterInv, NEW ratio \in Ratios, NEW safe \in SafeGains, Frame(ratio, safe)
  PROVE  /\ WindowInv' /\ InStep'
         /\ \A i \in 1..(DELAY_FRAMES - 1) : InFlight'[i] = InFlight[i + 1]
         /\ InFlight'[DELAY_FRAMES] = <<chunk, input_frames>>
  <1> DEFINE full == input_frames + 1 = CHUNK_FRAMES
  <1>1. TypeOK /\ WindowInv /\ InStep /\ TypeOK'
    BY FrameTyped DEF AdapterInv
  <1>2. /\ input_frames' = IF full THEN 0 ELSE input_frames + 1
        /\ output_frame' = IF full THEN 0 ELSE IF output_frame < CHUNK_FRAMES THEN output_frame + 1
                                               ELSE output_frame
    BY DEF Frame
  <1>3. InFlight = [i \in 1..DELAY_FRAMES |-> Place(history, chunk, i - 1 + input_frames)]
    <2>1. output.of = {history[1]}
      BY <1>1 DEF WindowInv
    <2>2. QED BY <1>1, <2>1, FlightByPlace
  <1>4. WindowInv' =>
          InFlight' = [i \in 1..DELAY_FRAMES |-> Place(history', chunk', i - 1 + input_frames')]
    <2>1. (output.of = {history[1]} /\ TypeOK =>
            InFlight = [i \in 1..DELAY_FRAMES |-> Place(history, chunk, i - 1 + input_frames)])'
      BY FlightByPlace, PTL
    <2>2. SUFFICES ASSUME WindowInv'
                   PROVE  InFlight' = [i \in 1..DELAY_FRAMES |-> Place(history', chunk', i - 1 + input_frames')]
      OBVIOUS
    <2>3. output'.of = {history'[1]}
      BY <2>2 DEF WindowInv
    <2>4. QED BY <1>1, <2>1, <2>3
  <1>5. CASE ~full
    <2>1. UNCHANGED <<chunk, mixing, engine>>
      BY <1>5 DEF Frame
    <2>2. UNCHANGED <<chunk, history, overlap, output>>
      BY <2>1 DEF engine
    <2>3. WindowInv'
      BY <1>1, <2>2 DEF WindowInv, Chunks
    <2>4. InStep'
      BY <1>1, <1>2, <1>5, <2>2, Lengths DEF InStep, TypeOK
    <2>5. ASSUME NEW i \in 1..(DELAY_FRAMES - 1) PROVE InFlight'[i] = InFlight[i + 1]
      <3>1. /\ i \in 1..DELAY_FRAMES /\ i + 1 \in 1..DELAY_FRAMES
            /\ i - 1 + input_frames' = (i + 1) - 1 + input_frames
        BY <1>1, <1>2, <1>5, Lengths DEF TypeOK
      <3>2. QED BY <1>3, <1>4, <2>2, <2>3, <3>1
    <2>6. InFlight'[DELAY_FRAMES] = <<chunk, input_frames>>
      <3>1. /\ DELAY_FRAMES \in 1..DELAY_FRAMES
            /\ DELAY_FRAMES - 1 + input_frames' = Hops * CHUNK_FRAMES + input_frames
        BY <1>1, <1>2, <1>5, Lengths DEF TypeOK
      <3>2. Hops \in 0..Hops /\ input_frames \in 0..(CHUNK_FRAMES - 1)
        BY <1>1, Lengths DEF TypeOK
      <3>3. Place(history, chunk, Hops * CHUNK_FRAMES + input_frames) = <<chunk, input_frames>>
        BY <3>2, PlaceAt
      <3>4. QED BY <1>4, <2>2, <2>3, <3>1, <3>3
    <2>7. QED BY <2>3, <2>4, <2>5, <2>6
  <1>6. CASE full
    <2>1. Produce(ratio, safe)
      BY <1>6 DEF Frame
    <2>2. PICK mix : ProcessWithMix(chunk, mix, safe)
      BY <2>1 DEF Produce
    <2>3. chunk \in Chunks
      BY <1>1 DEF TypeOK, Chunks
    <2>4. /\ WindowInv'
          /\ \A b \in 1..(Hops - 1) : history'[b] = history[b + 1]
          /\ history'[Hops] = chunk
      BY <1>1, <2>2, <2>3, ProcessWindow
    <2>5. InStep'
      BY <1>2, <1>6 DEF InStep
    <2>6. input_frames' = 0 /\ input_frames = CHUNK_FRAMES - 1
      BY <1>1, <1>2, <1>6, Lengths DEF TypeOK
    <2>7. ASSUME NEW i \in 1..DELAY_FRAMES
          PROVE  InFlight'[i] = Place(history, chunk, i - 1 + CHUNK_FRAMES)
      <3>1. i - 1 \in 0..(DELAY_FRAMES - 1) /\ i - 1 + input_frames' = i - 1
        BY <2>6, Lengths
      <3>2. InFlight'[i] = Place(history', chunk', i - 1)
        BY <1>4, <2>4, <3>1
      <3>3. Place(history', chunk', i - 1) = Place(history, chunk, i - 1 + CHUNK_FRAMES)
        BY <2>3, <2>4, <3>1, PlaceShift
      <3>4. QED BY <3>2, <3>3
    <2>8. ASSUME NEW i \in 1..(DELAY_FRAMES - 1) PROVE InFlight'[i] = InFlight[i + 1]
      <3>1. /\ i \in 1..DELAY_FRAMES /\ i + 1 \in 1..DELAY_FRAMES
            /\ i - 1 + CHUNK_FRAMES = (i + 1) - 1 + input_frames
        BY <2>6, Lengths
      <3>2. QED BY <1>3, <2>7, <3>1
    <2>9. InFlight'[DELAY_FRAMES] = <<chunk, input_frames>>
      <3>1. /\ DELAY_FRAMES \in 1..DELAY_FRAMES
            /\ DELAY_FRAMES - 1 + CHUNK_FRAMES = Hops * CHUNK_FRAMES + input_frames
        BY <2>6, Lengths
      <3>2. Hops \in 0..Hops /\ input_frames \in 0..(CHUNK_FRAMES - 1)
        BY <1>1, Lengths DEF TypeOK
      <3>3. Place(history, chunk, Hops * CHUNK_FRAMES + input_frames) = <<chunk, input_frames>>
        BY <3>2, PlaceAt
      <3>4. QED BY <2>7, <3>1, <3>3
    <2>10. QED BY <2>4, <2>5, <2>8, <2>9
  <1>7. QED BY <1>5, <1>6

(* The ring overwrites what it has just read, and goes on holding exactly  *)
(* what is in flight.                                                      *)
LEMMA FrameRing ==
  ASSUME AdapterInv, NEW ratio \in Ratios, NEW safe \in SafeGains, Frame(ratio, safe)
  PROVE  RingInv'
  <1> DEFINE source == <<chunk, input_frames>>
             next == RingAt(cursor, 1)
  <1>1. TypeOK /\ RingInv
    BY DEF AdapterInv
  <1>2. /\ \A i \in 1..(DELAY_FRAMES - 1) : InFlight'[i] = InFlight[i + 1]
        /\ InFlight'[DELAY_FRAMES] = source
    BY FrameMoves
  <1>3. cursor \in 0..(DELAY_FRAMES - 1)
    BY <1>1 DEF TypeOK
  <1>4. /\ RingAt(next, DELAY_FRAMES - 1) = cursor
        /\ \A j \in 0..(DELAY_FRAMES - 2) :
              /\ RingAt(next, j) = RingAt(cursor, j + 1)
              /\ RingAt(cursor, j + 1) # cursor /\ RingAt(cursor, j + 1) \in 0..(DELAY_FRAMES - 1)
    BY <1>3, RingTurns
  <1>5. dry' = [dry EXCEPT ![cursor] = source] /\ cursor' = next
    BY <1>3, RingTurns DEF Frame, Filter
  <1> HIDE DEF source, next
  <1>6. DOMAIN dry' = 0..(DELAY_FRAMES - 1)
    BY <1>1, <1>5 DEF RingInv
  <1>7. ASSUME NEW j \in 0..(DELAY_FRAMES - 2) PROVE dry'[RingAt(next, j)] = InFlight'[j + 1]
    <2>1. /\ j + 1 \in 1..(DELAY_FRAMES - 1) /\ j + 1 \in 0..(DELAY_FRAMES - 1)
      BY Lengths
    <2>2. dry'[RingAt(next, j)] = dry[RingAt(cursor, j + 1)]
      BY <1>1, <1>4, <1>5 DEF RingInv
    <2>3. dry[RingAt(cursor, j + 1)] = InFlight[(j + 1) + 1]
      BY <1>1, <2>1 DEF RingInv
    <2>4. QED BY <1>2, <2>1, <2>2, <2>3
  <1>8. dry'[RingAt(next, DELAY_FRAMES - 1)] = InFlight'[(DELAY_FRAMES - 1) + 1]
    <2>1. dry'[cursor] = source
      BY <1>1, <1>3, <1>5 DEF RingInv
    <2>2. (DELAY_FRAMES - 1) + 1 = DELAY_FRAMES
      BY Lengths
    <2>3. QED BY <1>2, <1>4, <2>1, <2>2
  <1>9. \A j \in 0..(DELAY_FRAMES - 1) : j \in 0..(DELAY_FRAMES - 2) \/ j = DELAY_FRAMES - 1
    BY Lengths
  <1>10. \A j \in 0..(DELAY_FRAMES - 1) : dry'[RingAt(cursor', j)] = InFlight'[j + 1]
    BY <1>5, <1>7, <1>8, <1>9
  <1>11. QED BY <1>6, <1>10 DEF RingInv

(* The invariant is inductive.                                             *)
LEMMA AdapterStep == AdapterInv /\ [Next]_vars => AdapterInv'
  <1> SUFFICES ASSUME AdapterInv, [Next]_vars PROVE AdapterInv'
    OBVIOUS
  <1>1. ASSUME NEW frames \in Blocks, NEW percent \in Percents \cup {Automatic},
               Call(frames, percent)
        PROVE  AdapterInv'
    <2>1. TypeOK'
      BY <1>1, CallTyped DEF AdapterInv
    <2>2. UNCHANGED <<chunk, input_frames, output_frame, dry, cursor, heard, history, overlap, output>>
      BY <1>1 DEF Call, engine
    <2>3. InFlight' = InFlight
      BY <2>2 DEF InFlight, Produced
    <2>4. WindowInv' /\ InStep' /\ Aligned'
      BY <2>2 DEF AdapterInv, WindowInv, InStep, Aligned, Chunks
    <2>5. RingInv'
      BY <2>2, <2>3 DEF AdapterInv, RingInv
    <2>6. QED BY <2>1, <2>4, <2>5 DEF AdapterInv
  <1>2. ASSUME NEW ratio \in Ratios, NEW safe \in SafeGains, Frame(ratio, safe)
        PROVE  AdapterInv'
    <2>1. TypeOK'
      BY <1>2, FrameTyped DEF AdapterInv
    <2>2. Aligned'
      BY <1>2, FrameHeard DEF Aligned
    <2>3. QED BY <1>2, <2>1, <2>2, FrameMoves, FrameRing DEF AdapterInv
  <1>3. CASE UNCHANGED vars
    <2>1. InFlight' = InFlight
      BY <1>3 DEF vars, InFlight, Produced
    <2>2. TypeOK' /\ WindowInv' /\ InStep' /\ Aligned'
      BY <1>3 DEF vars, AdapterInv, TypeOK, WindowInv, InStep, Aligned, Chunks
    <2>3. RingInv'
      BY <1>3, <2>1 DEF vars, AdapterInv, RingInv
    <2>4. QED BY <2>2, <2>3 DEF AdapterInv
  <1>4. QED BY <1>1, <1>2, <1>3 DEF Next

(* The invariant the theorems below are read off.                          *)
LEMMA AdapterInvariant == Spec => []AdapterInv
  <1>1. Init => AdapterInv
    BY InitAdapter
  <1>2. QED BY <1>1, AdapterStep, PTL DEF Spec

(* The variables keep their types: the mix its scale, counters and cursor  *)
(* their buffers, whatever the host asks for.                              *)
THEOREM AdapterTyped == Spec => []TypeOK
  <1>1. AdapterInv => TypeOK
    BY DEF AdapterInv
  <1>2. QED BY <1>1, AdapterInvariant, PTL

(* For every chunk length, window and sequence of block sizes, the bass    *)
(* guard subtracts from a produced frame the source it was made from.      *)
THEOREM GuardIsAligned == Spec => []Aligned
  <1>1. AdapterInv => Aligned
    BY DEF AdapterInv
  <1>2. QED BY <1>1, AdapterInvariant, PTL

(* What the engine produces is one source chunk, seen through all windows  *)
(* it lies in.                                                             *)
THEOREM ChunksAreReconstructed == Spec => []Reconstructed
  <1>1. AdapterInv => Reconstructed
    BY DEF AdapterInv, WindowInv, Reconstructed
  <1>2. QED BY <1>1, AdapterInvariant, PTL

(* At the start the line is silent.                                        *)
LEMMA InitLine == Init => Line!Init
  <1> SUFFICES ASSUME Init PROVE Line!Init
    OBVIOUS
  <1>1. AdapterInv
    BY InitAdapter
  <1>2. heard.wet = Silent /\ dry = [k \in 0..(DELAY_FRAMES - 1) |-> Silent] /\ cursor = 0
    BY DEF Init
  <1>3. ASSUME NEW k \in 1..DELAY_FRAMES PROVE InFlight[k] = Silent
    <2>1. k - 1 \in 0..(DELAY_FRAMES - 1) /\ (k - 1) + 1 = k
      BY Lengths
    <2>2. RingAt(cursor, k - 1) = k - 1
      BY <1>2, <2>1, Lengths DEF RingAt
    <2>3. dry[RingAt(cursor, k - 1)] = InFlight[(k - 1) + 1]
      BY <1>1, <2>1 DEF AdapterInv, RingInv
    <2>4. QED BY <1>2, <2>1, <2>2, <2>3
  <1>4. InFlight = [k \in 1..DELAY_FRAMES |-> InFlight[k]]
    BY DEF InFlight
  <1>5. InFlight = [k \in 1..DELAY_FRAMES |-> Silent]
    BY <1>3, <1>4
  <1>6. QED BY <1>2, <1>5 DEF Line!Init

(* A frame is a step of the line; a host call moves nothing.               *)
LEMMA StepLine == AdapterInv /\ [Next]_vars => [Line!Next]_<<InFlight, heard.wet>>
  <1> SUFFICES ASSUME AdapterInv, [Next]_vars PROVE [Line!Next]_<<InFlight, heard.wet>>
    OBVIOUS
  <1>1. ASSUME NEW frames \in Blocks, NEW percent \in Percents \cup {Automatic},
               Call(frames, percent)
        PROVE  UNCHANGED <<InFlight, heard.wet>>
    BY <1>1 DEF Call, engine, InFlight, Produced
  <1>2. CASE UNCHANGED vars
    BY <1>2 DEF vars, InFlight, Produced
  <1>3. ASSUME NEW ratio \in Ratios, NEW safe \in SafeGains, Frame(ratio, safe)
        PROVE  Line!Next
    <2> DEFINE source == <<chunk, input_frames>>
               Sources == (0..(Numbers - 1)) \X (0..(CHUNK_FRAMES - 1))
               S == {InFlight[i] : i \in 1..DELAY_FRAMES} \cup {source}
               next == Append(Tail(InFlight), source)
    <2>1. source \in Sources
      BY DEF AdapterInv, TypeOK
    <2>2. /\ heard'.wet = InFlight[1]
          /\ \A i \in 1..(DELAY_FRAMES - 1) : InFlight'[i] = InFlight[i + 1]
          /\ InFlight'[DELAY_FRAMES] = source
      BY <1>3, FrameHeard, FrameMoves
    <2>3. DOMAIN InFlight = 1..DELAY_FRAMES /\ InFlight = [i \in 1..DELAY_FRAMES |-> InFlight[i]]
      BY DEF InFlight
    <2>4. DOMAIN InFlight' = 1..DELAY_FRAMES /\ InFlight' = [i \in 1..DELAY_FRAMES |-> InFlight'[i]]
      BY DEF InFlight
    <2> HIDE DEF source
    <2>5. /\ InFlight \in Seq(S) /\ Len(InFlight) = DELAY_FRAMES /\ InFlight # << >>
      <3>1. InFlight \in [1..DELAY_FRAMES -> S]
        BY <2>3
      <3>2. InFlight \in Seq(S) /\ Len(InFlight) = DELAY_FRAMES
        <4>1. DELAY_FRAMES \in Nat
          BY Lengths
        <4>2. InFlight \in Seq(S)
          BY <3>1, <4>1, SeqDef
        <4>3. QED BY <2>3, <4>1, <4>2, LenProperties
      <3>3. QED BY <3>2, Lengths
    <2> HIDE DEF S
    <2>6. /\ Tail(InFlight) \in Seq(S) /\ Len(Tail(InFlight)) = DELAY_FRAMES - 1
          /\ \A i \in 1..(DELAY_FRAMES - 1) : Tail(InFlight)[i] = InFlight[i + 1]
      BY <2>5, HeadTailProperties
    <2>7. source \in S
      BY DEF S
    <2>8. /\ DOMAIN next = 1..DELAY_FRAMES
          /\ \A i \in 1..(DELAY_FRAMES - 1) : next[i] = InFlight[i + 1]
          /\ next[DELAY_FRAMES] = source
          /\ next = [i \in 1..DELAY_FRAMES |-> next[i]]
      <3> DEFINE rest == Tail(InFlight)
      <3> HIDE DEF rest
      <3>1. rest \in Seq(S) /\ Len(rest) = DELAY_FRAMES - 1
        BY <2>6 DEF rest
      <3>2. /\ Append(rest, source) \in Seq(S) /\ Len(Append(rest, source)) = DELAY_FRAMES
            /\ \A i \in 1..(DELAY_FRAMES - 1) : Append(rest, source)[i] = rest[i]
            /\ Append(rest, source)[DELAY_FRAMES] = source
        BY <2>7, <3>1, Lengths
      <3>3. next \in [1..DELAY_FRAMES -> S]
        BY <3>2, LenProperties DEF rest
      <3>4. QED BY <2>6, <3>2, <3>3 DEF rest
    <2> HIDE DEF next
    <2>9. \A i \in 1..DELAY_FRAMES : InFlight'[i] = next[i]
      <3>1. \A i \in 1..DELAY_FRAMES : i \in 1..(DELAY_FRAMES - 1) \/ i = DELAY_FRAMES
        BY Lengths
      <3>2. QED BY <2>2, <2>8, <3>1
    <2>10. InFlight' = next
      BY <2>4, <2>8, <2>9
    <2>11. Head(InFlight) = InFlight[1]
      BY <2>5
    <2>12. Line!Step(source)
      BY <2>2, <2>10, <2>11 DEF Line!Step, next
    <2>13. QED BY <2>1, <2>12 DEF Line!Next
  <1>4. QED BY <1>1, <1>2, <1>3 DEF Next

(* The plugin is a delay line of DELAY_FRAMES frames, whatever the block   *)
(* sizes: every step of the adapter is one of the line or none.            *)
THEOREM AdapterIsDelayLine == Spec => ImplementsDelayLine
  <1>1. Init => Line!Init
    BY InitLine
  <1>2. AdapterInv /\ [Next]_vars => [Line!Next]_<<InFlight, heard.wet>>
    BY StepLine
  <1>3. QED BY <1>1, <1>2, AdapterInvariant, PTL DEF Spec, ImplementsDelayLine, Line!Spec
=============================================================================

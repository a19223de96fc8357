----------------------------- MODULE DescriptorProofs -----------------------------
(***************************************************************************)
(* What the descriptor parser and the planner compute, for every           *)
(* descriptor: results are well-formed whatever the bytes are.             *)
(***************************************************************************)
EXTENDS Topology, SequenceTheorems, FiniteSetTheorems, WellFoundedInduction, TLAPS

(* A set of naturals that is not empty has a least element.                *)
LEMMA LeastOf ==
  ASSUME NEW T \in SUBSET Nat, T # {}
  PROVE  \E x \in T : \A y \in T : x <= y
  <1> DEFINE Less == OpToRel(<, Nat)
  <1>1. IsWellFoundedOn(Less, Nat)
    BY NatLessThanWellFounded
  <1>2. \A x, y \in Nat : x < y => <<x, y>> \in Less
    BY DEF OpToRel
  <1> HIDE DEF Less
  <1>3. \E x \in T : \A y \in T : ~(<<y, x>> \in Less)
    BY <1>1, WFMin
  <1>4. \A x, y \in T : ~(y < x) => x <= y
    OBVIOUS
  <1>5. QED BY <1>2, <1>3, <1>4

(* Induction over the naturals, for a set.                                 *)
LEMMA SetInduction ==
  ASSUME NEW S, 0 \in S, \A n \in Nat : n \in S => n + 1 \in S
  PROVE  Nat \subseteq S
  <1>1. SUFFICES ASSUME Nat \ S # {} PROVE FALSE
    OBVIOUS
  <1>2. PICK x \in Nat \ S : \A y \in Nat \ S : x <= y
    BY <1>1, LeastOf
  <1>3. x - 1 \in Nat /\ x - 1 \in S
    BY <1>2
  <1>4. QED BY <1>2, <1>3

(* A step, the value at a place given the values elsewhere, looks at       *)
(* places of smaller rank only.                                            *)
Local(D, R, rank, step) ==
  \A x \in D : \A f, g \in [D -> R] :
    (\A y \in D : rank[y] < rank[x] => f[y] = g[y]) => step[<<x, f>>] = step[<<x, g>>]

Solvable(D, R, step) == \E f \in [D -> R] : f = [x \in D |-> step[<<x, f>>]]

(* A recursive function whose steps are local exists.                      *)
LEMMA Recursion ==
  ASSUME NEW D, NEW R, NEW r \in R, NEW n \in Nat, NEW rank \in [D -> 0..n],
         NEW step \in [D \X [D -> R] -> R], Local(D, R, rank, step)
  PROVE  Solvable(D, R, step)
  <1> DEFINE Solves(f, m) == \A x \in D : rank[x] < m => f[x] = step[<<x, f>>]
             S == {m \in Nat : \E f \in [D -> R] : Solves(f, m)}
  <1>1. 0 \in S
    <2>1. [x \in D |-> r] \in [D -> R]
      OBVIOUS
    <2>2. \A x \in D : ~(rank[x] < 0)
      OBVIOUS
    <2>3. Solves([x \in D |-> r], 0)
      BY <2>2
    <2>4. QED BY <2>1, <2>3
  <1>2. ASSUME NEW m \in Nat, m \in S
        PROVE  m + 1 \in S
    <2>1. PICK f \in [D -> R] : Solves(f, m)
      BY <1>2
    <2> DEFINE g == [x \in D |-> IF rank[x] < m THEN f[x] ELSE step[<<x, f>>]]
    <2>2. \A x \in D : step[<<x, f>>] \in R
      OBVIOUS
    <2>3. g \in [D -> R]
      BY <2>2
    <2>4. \A y \in D : rank[y] < m => f[y] = g[y]
      OBVIOUS
    <2>5. \A x \in D : rank[x] < m + 1 => step[<<x, f>>] = step[<<x, g>>]
      <3>1. SUFFICES ASSUME NEW x \in D, rank[x] < m + 1
                     PROVE  step[<<x, f>>] = step[<<x, g>>]
        OBVIOUS
      <3>2. \A y \in D : rank[y] < rank[x] => rank[y] < m
        BY <3>1
      <3> HIDE DEF g
      <3>3. QED BY <2>3, <2>4, <3>2 DEF Local
    <2>6. Solves(g, m + 1)
      <3>1. SUFFICES ASSUME NEW x \in D, rank[x] < m + 1
                     PROVE  g[x] = step[<<x, g>>]
        OBVIOUS
      <3>2. g[x] = step[<<x, f>>]
        BY <2>1
      <3>3. QED BY <2>5, <3>1, <3>2
    <2> HIDE DEF Solves, g
    <2>7. m + 1 \in Nat
      OBVIOUS
    <2>8. QED BY <2>3, <2>6, <2>7
  <1>3. n + 1 \in S
    <2> HIDE DEF S
    <2>1. Nat \subseteq S
      BY <1>1, <1>2, SetInduction
    <2>2. QED BY <2>1
  <1>4. PICK f \in [D -> R] : Solves(f, n + 1)
    BY <1>3
  <1>5. \A x \in D : f[x] = step[<<x, f>>]
    BY <1>4
  <1>6. f = [x \in D |-> step[<<x, f>>]]
    BY <1>5
  <1>7. QED BY <1>6 DEF Solvable

(* Induction on the rank of a place.                                       *)
LEMMA RankInduction ==
  ASSUME NEW D, NEW n \in Nat, NEW rank \in [D -> 0..n], NEW S,
         \A x \in D : (\A y \in D : rank[y] < rank[x] => y \in S) => x \in S
  PROVE  D \subseteq S
  <1> DEFINE M == {m \in Nat : \A x \in D : rank[x] < m => x \in S}
  <1>1. 0 \in M
    OBVIOUS
  <1>2. ASSUME NEW m \in Nat, m \in M
        PROVE  m + 1 \in M
    <2>1. ASSUME NEW x \in D, rank[x] < m + 1
          PROVE  x \in S
      <3>1. \A y \in D : rank[y] < rank[x] => rank[y] < m
        BY <2>1
      <3>2. QED BY <1>2, <3>1
    <2>2. QED BY <2>1
  <1>3. n + 1 \in M
    <2> HIDE DEF M
    <2>1. QED BY <1>1, <1>2, SetInduction
  <1>4. QED BY <1>3

-----------------------------------------------------------------------------
(* Slices and parsed descriptors.                                          *)

(* Bytes are naturals below 256.                                           *)
LEMMA ByteIsNat == \A b \in Byte : b \in Nat /\ b <= 255
  BY DEF Byte

(* A slice that is there.                                                  *)
LEMMA SliceIs ==
  ASSUME NEW S, NEW s \in Seq(S), NEW start \in Nat, NEW n \in Nat, start + n <= Len(s)
  PROVE  /\ Slice(s, start, n) \in Seq(S)
         /\ Len(Slice(s, start, n)) = n
         /\ \A k \in 1..n : Slice(s, start, n)[k] = s[start + k]
  <1>1. \A i \in (start + 1)..(start + n) : s[i] \in S
    OBVIOUS
  <1>2. /\ SubSeq(s, start + 1, start + n) \in Seq(S)
        /\ Len(SubSeq(s, start + 1, start + n))
             = IF start + 1 <= start + n THEN start + n - (start + 1) + 1 ELSE 0
        /\ \A i \in 1..(start + n - (start + 1) + 1) :
             SubSeq(s, start + 1, start + n)[i] = s[start + 1 + i - 1]
    BY <1>1, SubSeqProperties
  <1>3. QED BY <1>2 DEF Slice

(* A well-formed descriptor gives an entity.                               *)
LEMMA ParsedEntity ==
  ASSUME NEW desc \in Seq(Byte), Len(desc) <= 255, IsEntity(desc), WellFormed(desc)
  PROVE  ParseEntity(desc) \in EntityType
  <1> DEFINE subtype == At(desc, 2)
             p == Pins(desc)
             n == Len(desc)
             pins == PinCount(subtype)
             source == SourceAt(subtype)
  <1>1. n \in Nat /\ subtype \in 2..13
    BY DEF IsEntity
  <1>2. \A offset \in Nat : offset < n => At(desc, offset) \in Byte
    BY DEF At
  <1>3. pins \in {0, 4, 6} /\ (pins # 0 => pins < n /\ p \in Byte) /\ (pins = 0 => p = 0)
    BY <1>1, <1>2 DEF WellFormed, PinCount, Pins
  <1>4. p \in Nat
    <2> HIDE DEF p, pins
    <2>1. QED BY <1>3, ByteIsNat
  <1>5. /\ subtype = 2 => 8 < n
        /\ subtype = 3 => 7 < n
        /\ subtype = 4 => n >= 13 + p
        /\ subtype = 5 => 4 + p < n
        /\ subtype = 6 => n >= 10
        /\ subtype = 7 => 6 < n
        /\ subtype \in {8, 9} => 7 + p < n
        /\ subtype = 10 => 5 < n
        /\ subtype = 11 => 5 + p < n
        /\ subtype = 13 => 4 < n
        /\ 3 < n
    <2>1. source < n
      BY DEF WellFormed
    <2>2. /\ subtype = 3 => source = 7
          /\ subtype = 7 => source = 6
          /\ subtype = 13 => source = 4
      BY DEF SourceAt, Effect, SampleRateConverter
    <2> HIDE DEF source
    <2>3. QED BY <1>1, <2>1, <2>2 DEF WellFormed
  <1>6. Kinds[subtype] \in ToSet(Kinds)
    BY <1>1 DEF Kinds, ToSet
  <1>7. At(desc, 3) \in Byte
    BY <1>2, <1>5
  <1> DEFINE after == At(desc, pins + 1 + p)
             sources == IF source # 0 THEN <<At(desc, source)>>
                        ELSE IF pins # 0 THEN Slice(desc, pins + 1, p) ELSE << >>
             afterPins == IF pins # 0 /\ subtype # 5 THEN after ELSE 0
             channels == CASE subtype = 2 -> At(desc, 8) [] subtype \in {4, 8, 9} -> afterPins [] OTHER -> 0
             controls == CASE subtype = 4  -> MixerBitmap(desc)
                     [] subtype = 6  -> Slice(desc, 5, n - 6)
                     [] subtype = 10 -> <<At(desc, 5)>>
                     [] subtype = 11 -> <<afterPins>>
                     [] OTHER        -> << >>
  <1>8. sources \in Seq(Byte)
    <2>1. CASE source # 0
      <3>1. source \in Nat /\ source < n
        BY <1>1, <1>5, <2>1 DEF SourceAt, Effect, SampleRateConverter
      <3>2. QED BY <1>2, <2>1, <3>1
    <2>2. CASE source = 0 /\ pins # 0
      <3>1. pins + 1 \in Nat /\ pins + 1 + p <= n
        BY <1>1, <1>3, <1>4, <1>5, <2>2 DEF PinCount
      <3>2. Slice(desc, pins + 1, p) \in Seq(Byte)
        BY <1>4, <3>1, SliceIs
      <3>3. QED BY <2>2, <3>2
    <2>3. CASE source = 0 /\ pins = 0
      BY <2>3
    <2>4. QED BY <1>3, <2>1, <2>2, <2>3
  <1>9. afterPins \in Byte
    <2>1. CASE pins # 0 /\ subtype # 5
      <3>1. pins + 1 + p \in Nat /\ pins + 1 + p < n
        BY <1>1, <1>3, <1>4, <1>5, <2>1 DEF PinCount
      <3>2. QED BY <1>2, <2>1, <3>1
    <2>2. 0 \in Byte
      BY DEF Byte
    <2>3. QED BY <2>1, <2>2
  <1>10. channels \in Byte
    <2>1. 0 \in Byte
      BY DEF Byte
    <2> HIDE DEF afterPins
    <2>2. QED BY <1>2, <1>5, <1>9, <2>1
  <1>11. controls \in Seq(Byte)
    <2>1. CASE subtype = 4
      <3>1. Slice(desc, 11 + p, n - 13 - p) \in Seq(Byte)
        BY <1>1, <1>4, <1>5, <2>1, SliceIs
      <3>2. QED BY <2>1, <3>1 DEF MixerBitmap
    <2>2. CASE subtype = 6
      <3>1. Slice(desc, 5, n - 6) \in Seq(Byte)
        BY <1>1, <1>5, <2>2, SliceIs
      <3>2. QED BY <2>2, <3>1
    <2>3. CASE subtype = 10
      <3>1. At(desc, 5) \in Byte
        BY <1>2, <1>5, <2>3
      <3>2. QED BY <2>3, <3>1
    <2> HIDE DEF afterPins, subtype
    <2>4. CASE subtype = 11
      BY <1>9, <2>4
    <2>5. CASE subtype \notin {4, 6, 10, 11}
      BY <2>5
    <2>6. QED BY <2>1, <2>2, <2>3, <2>4, <2>5
  <1>12. ParseEntity(desc) = [kind |-> Kinds[subtype], id |-> At(desc, 3), sources |-> sources,
                              channels |-> channels, controls |-> controls]
    BY DEF ParseEntity
  <1>13. Kinds[subtype] \in {"ClockSource", "ClockSelector"} => Len(controls) = 1
    <2>1. Kinds[subtype] \in {"ClockSource", "ClockSelector"} => subtype \in {10, 11}
      BY <1>1 DEF Kinds
    <2>2. subtype \in {10, 11} => Len(controls) = 1
      OBVIOUS
    <2>3. QED BY <2>1, <2>2
  <1>14. Kinds[subtype] = "Feature" => Len(controls) % 4 = 0 /\ controls # << >>
    <2>1. Kinds[subtype] = "Feature" => subtype = 6
      BY <1>1 DEF Kinds
    <2>2. subtype = 6 => (n - 6) % 4 = 0 /\ n - 6 >= 4
      BY <1>1 DEF WellFormed
    <2>3. subtype = 6 => controls = Slice(desc, 5, n - 6)
      OBVIOUS
    <2>4. subtype = 6 => Len(Slice(desc, 5, n - 6)) = n - 6
      <3>1. subtype = 6 => n - 6 \in Nat /\ 5 + (n - 6) <= Len(desc) /\ 5 \in Nat
        BY <1>1, <1>5
      <3>2. \A m \in Nat : 5 + m <= Len(desc) => Len(Slice(desc, 5, m)) = m
        BY SliceIs
      <3> HIDE DEF n, subtype
      <3>3. QED BY <3>1, <3>2
    <2> HIDE DEF controls, subtype, n
    <2>5. subtype = 6 => Len(controls) % 4 = 0 /\ Len(controls) > 0
      BY <1>1, <2>2, <2>3, <2>4
    <2>6. Len(<< >>) = 0
      OBVIOUS
    <2>7. QED BY <2>1, <2>5, <2>6
  <1>15. Len(controls) <= 255
    <2>1. ASSUME NEW s \in Nat, NEW m \in Nat, s + m <= n
          PROVE  Len(Slice(desc, s, m)) <= 255
      <3>1. Len(Slice(desc, s, m)) = m
        BY <2>1, SliceIs
      <3>2. m <= 255
        BY <1>1, <2>1
      <3>3. QED BY <3>1, <3>2
    <2>2. CASE subtype = 4
      <3>1. 11 + p \in Nat /\ n - 13 - p \in Nat /\ (11 + p) + (n - 13 - p) <= n
        <4> HIDE DEF p, n, subtype
        <4>1. QED BY <1>1, <1>4, <1>5, <2>2
      <3>2. Len(Slice(desc, 11 + p, n - 13 - p)) <= 255
        BY <2>1, <3>1
      <3>3. QED BY <2>2, <3>2 DEF MixerBitmap
    <2>3. CASE subtype = 6
      <3>1. n - 6 \in Nat /\ 5 + (n - 6) <= n
        BY <1>1, <1>5, <2>3
      <3>2. Len(Slice(desc, 5, n - 6)) <= 255
        BY <2>1, <3>1
      <3>3. QED BY <2>3, <3>2
    <2> HIDE DEF afterPins, subtype
    <2>4. CASE subtype \in {10, 11}
      BY <2>4
    <2>5. CASE subtype \notin {4, 6, 10, 11}
      BY <2>5
    <2>6. QED BY <2>2, <2>3, <2>4, <2>5
  <1> HIDE DEF subtype, sources, channels, controls
  <1>16. QED BY <1>6, <1>7, <1>8, <1>10, <1>11, <1>12, <1>13, <1>14, <1>15 DEF EntityType

-----------------------------------------------------------------------------
(* The parser's loop.                                                      *)

Loops(extra) == [offset : 0..Len(extra), entities : Seq(EntityType)]
ParseErrors == {"DescriptorLengthInvalid", "DescriptorTruncated", "EntityMalformed"}
Results == [err : {"none"} \cup ParseErrors, entities : Seq(EntityType)]

DescAt(extra, offset) == Slice(extra, offset, At(extra, offset))

(* A whole descriptor lies at the offset, and is no bad entity.            *)
GoesOn(extra, offset) ==
  /\ offset # Len(extra) /\ ~(At(extra, offset) < 2) /\ ~(offset + At(extra, offset) > Len(extra))
  /\ IsEntity(DescAt(extra, offset)) => WellFormed(DescAt(extra, offset))

NextLoop(extra, loop) ==
  [offset   |-> loop.offset + At(extra, loop.offset),
   entities |-> IF IsEntity(DescAt(extra, loop.offset))
                THEN Append(loop.entities, ParseEntity(DescAt(extra, loop.offset)))
                ELSE loop.entities]

(* The result where the loop ends.                                         *)
Halted(extra, loop) ==
  IF loop.offset = Len(extra) THEN Parsed("none", loop.entities)
  ELSE IF At(extra, loop.offset) < 2 THEN Parsed("DescriptorLengthInvalid", << >>)
  ELSE IF loop.offset + At(extra, loop.offset) > Len(extra) THEN Parsed("DescriptorTruncated", << >>)
  ELSE Parsed("EntityMalformed", << >>)

(* The loop goes on inside the bytes, over bytes.                          *)
LEMMA GoesOnInside ==
  ASSUME NEW extra \in Seq(Byte), NEW offset \in 0..Len(extra), GoesOn(extra, offset)
  PROVE  /\ At(extra, offset) \in Byte /\ At(extra, offset) >= 2
         /\ offset + At(extra, offset) \in 0..Len(extra)
         /\ DescAt(extra, offset) \in Seq(Byte)
         /\ Len(DescAt(extra, offset)) = At(extra, offset)
         /\ \A k \in 1..At(extra, offset) : DescAt(extra, offset)[k] = extra[offset + k]
  <1> DEFINE len == At(extra, offset)
  <1>1. offset \in Nat /\ offset < Len(extra) /\ ~(len < 2) /\ ~(offset + len > Len(extra))
    BY DEF GoesOn
  <1>2. len \in Byte
    BY <1>1 DEF At
  <1>3. len \in Nat
    BY <1>2, ByteIsNat
  <1>4. offset + len <= Len(extra) /\ len >= 2
    BY <1>1, <1>3
  <1> HIDE DEF len
  <1>5. /\ Slice(extra, offset, len) \in Seq(Byte)
        /\ Len(Slice(extra, offset, len)) = len
        /\ \A k \in 1..len : Slice(extra, offset, len)[k] = extra[offset + k]
    BY <1>1, <1>3, <1>4, SliceIs
  <1>6. offset + len \in 0..Len(extra)
    BY <1>1, <1>3, <1>4
  <1>7. QED BY <1>2, <1>4, <1>5, <1>6 DEF len, DescAt

(* A turn of the loop leads to another turn, further on.                   *)
LEMMA NextIsLoop ==
  ASSUME NEW extra \in Seq(Byte), NEW loop \in Loops(extra), GoesOn(extra, loop.offset)
  PROVE  /\ NextLoop(extra, loop) \in Loops(extra)
         /\ NextLoop(extra, loop).offset >= loop.offset + 2
         /\ NextLoop(extra, loop).offset = loop.offset + At(extra, loop.offset)
  <1> DEFINE offset == loop.offset
             desc == DescAt(extra, offset)
             next == offset + At(extra, offset)
  <1>1. offset \in 0..Len(extra) /\ loop.entities \in Seq(EntityType)
    BY DEF Loops
  <1>2. At(extra, offset) >= 2 /\ At(extra, offset) \in Int /\ next \in 0..Len(extra) /\ desc \in Seq(Byte)
    BY <1>1, GoesOnInside DEF Byte
  <1>3. IsEntity(desc) => ParseEntity(desc) \in EntityType
    <2>1. Len(desc) = At(extra, offset) /\ At(extra, offset) \in Byte
      BY <1>1, GoesOnInside
    <2> HIDE DEF desc
    <2>a. Len(desc) <= 255
      BY <2>1, ByteIsNat
    <2>2. QED BY <1>2, <2>a, ParsedEntity DEF GoesOn, desc
  <1> HIDE DEF desc
  <1>4. (IF IsEntity(desc) THEN Append(loop.entities, ParseEntity(desc)) ELSE loop.entities) \in Seq(EntityType)
    BY <1>1, <1>3
  <1>5. NextLoop(extra, loop) = [offset |-> next,
                                 entities |-> IF IsEntity(desc) THEN Append(loop.entities, ParseEntity(desc))
                                              ELSE loop.entities]
    BY DEF NextLoop, desc
  <1>6. next >= offset + 2
    BY <1>1, <1>2
  <1> HIDE DEF next
  <1>7. QED BY <1>2, <1>4, <1>5, <1>6 DEF Loops, next

(* Where the loop of parse_entities ends, it ends with a result.           *)
LEMMA HaltedTyped ==
  ASSUME NEW extra, NEW loop, loop.entities \in Seq(EntityType)
  PROVE  Halted(extra, loop) \in Results
  <1>1. << >> \in Seq(EntityType)
    OBVIOUS
  <1>2. \A why \in {"none"} \cup ParseErrors, s \in Seq(EntityType) : Parsed(why, s) \in Results
    BY DEF Parsed, Results
  <1>3. QED BY <1>1, <1>2 DEF Halted, ParseErrors

(* What a turn of the loop gives, turn by turn.                            *)
LEMMA ParseTurn ==
  ASSUME NEW extra \in Seq(Byte)
  PROVE  \A loop \in Loops(extra) :
           ParseLoop(extra)[loop] = IF GoesOn(extra, loop.offset)
                                    THEN ParseLoop(extra)[NextLoop(extra, loop)]
                                    ELSE Halted(extra, loop)
  <1> DEFINE D == Loops(extra)
             Body(f, loop) ==
               LET len  == At(extra, loop.offset)
                   desc == Slice(extra, loop.offset, len)
               IN IF loop.offset = Len(extra) THEN Parsed("none", loop.entities)
                  ELSE IF len < 2 THEN Parsed("DescriptorLengthInvalid", << >>)
                  ELSE IF loop.offset + len > Len(extra) THEN Parsed("DescriptorTruncated", << >>)
                  ELSE IF IsEntity(desc) /\ ~WellFormed(desc) THEN Parsed("EntityMalformed", << >>)
                  ELSE f[[offset   |-> loop.offset + len,
                          entities |-> IF IsEntity(desc) THEN Append(loop.entities, ParseEntity(desc))
                                       ELSE loop.entities]]
             Solves(f) == f = [loop \in D |-> Body(f, loop)]
  <1>1. ParseLoop(extra) = CHOOSE f : Solves(f)
    BY DEF ParseLoop, Loops
  <1>2. \A f, loop : Body(f, loop) = IF GoesOn(extra, loop.offset) THEN f[NextLoop(extra, loop)]
                                     ELSE Halted(extra, loop)
    BY DEF GoesOn, NextLoop, Halted, DescAt
  <1> HIDE DEF Body
  <1> DEFINE rank == [loop \in D |-> Len(extra) - loop.offset]
             step == [z \in D \X [D -> Results] |-> Body(z[2], z[1])]
  <1>3. rank \in [D -> 0..Len(extra)]
    BY DEF Loops
  <1>4. ASSUME NEW loop \in D, GoesOn(extra, loop.offset)
        PROVE  NextLoop(extra, loop) \in D /\ rank[NextLoop(extra, loop)] < rank[loop]
    <2>1. /\ NextLoop(extra, loop) \in D /\ NextLoop(extra, loop).offset >= loop.offset + 2
      BY <1>4, NextIsLoop
    <2>2. \A l \in D : l.offset \in Int
      BY DEF Loops
    <2>3. QED BY <2>1, <2>2
  <1>5. ASSUME NEW loop \in D, NEW f \in [D -> Results]
        PROVE  Body(f, loop) \in Results
    <2>1. CASE GoesOn(extra, loop.offset)
      BY <1>2, <1>4, <1>5, <2>1
    <2>2. CASE ~GoesOn(extra, loop.offset)
      <3>1. loop.entities \in Seq(EntityType)
        BY DEF Loops
      <3>2. QED BY <1>2, <2>2, <3>1, HaltedTyped
    <2>3. QED BY <2>1, <2>2
  <1>6. step \in [D \X [D -> Results] -> Results]
    BY <1>5
  <1>7. ASSUME NEW loop \in D, NEW f \in [D -> Results], NEW g \in [D -> Results],
               \A y \in D : rank[y] < rank[loop] => f[y] = g[y]
        PROVE  step[<<loop, f>>] = step[<<loop, g>>]
    <2>1. Body(f, loop) = Body(g, loop)
      BY <1>2, <1>4, <1>7
    <2>2. QED BY <2>1
  <1>8. Parsed("none", << >>) \in Results
    <2>1. << >> \in Seq(EntityType)
      OBVIOUS
    <2>2. QED BY <2>1 DEF Parsed, Results, ParseErrors
  <1>9. \E f \in [D -> Results] : f = [loop \in D |-> step[<<loop, f>>]]
    <2> DEFINE n == Len(extra)
               R == Results
               r == Parsed("none", << >>)
    <2>1. n \in Nat /\ r \in R
      BY <1>8
    <2>2. rank \in [D -> 0..n] /\ step \in [D \X [D -> R] -> R]
      BY <1>3, <1>6
    <2>3. Local(D, R, rank, step)
      BY <1>7 DEF Local
    <2> HIDE DEF D, rank, step, n, R, r
    <2>4. Solvable(D, R, step)
      BY <2>1, <2>2, <2>3, Recursion
    <2>5. QED BY <2>4 DEF R, Solvable, D
  <1>10. \E f : Solves(f)
    <2>1. PICK f \in [D -> Results] : f = [loop \in D |-> step[<<loop, f>>]]
      BY <1>9
    <2>2. \A loop \in D : step[<<loop, f>>] = Body(f, loop)
      BY <2>1
    <2>3. f = [loop \in D |-> Body(f, loop)]
      BY <2>1, <2>2
    <2>4. QED BY <2>3
  <1>11. Solves(ParseLoop(extra))
    <2> HIDE DEF Solves
    <2>1. QED BY <1>1, <1>10
  <1>12. QED BY <1>2, <1>11

(* The loop of a given input only goes forward.                            *)
LEMMA LoopRank ==
  ASSUME NEW extra \in Seq(Byte), NEW S,
         \A loop \in Loops(extra) :
           (GoesOn(extra, loop.offset) => NextLoop(extra, loop) \in S) => loop \in S
  PROVE  Loops(extra) \subseteq S
  <1> DEFINE D == Loops(extra)
             n == Len(extra)
             rank == [loop \in D |-> n - loop.offset]
  <1>1. n \in Nat /\ rank \in [D -> 0..n]
    BY DEF Loops
  <1>2. ASSUME NEW loop \in D, \A y \in D : rank[y] < rank[loop] => y \in S
        PROVE  loop \in S
    <2>1. CASE GoesOn(extra, loop.offset)
      <3>1. NextLoop(extra, loop) \in D /\ NextLoop(extra, loop).offset >= loop.offset + 2
        BY <2>1, NextIsLoop
      <3>2. \A l \in D : l.offset \in Int
        BY DEF Loops
      <3>3. rank[NextLoop(extra, loop)] < rank[loop]
        BY <3>1, <3>2
      <3>4. QED BY <1>2, <3>1, <3>3
    <2>2. QED BY <2>1
  <1> HIDE DEF D, n, rank
  <1>3. D \subseteq S
    BY <1>1, <1>2, RankInduction
  <1>4. QED BY <1>3 DEF D

(* s is the beginning of t.                                                *)
Begins(s, t) == Len(s) <= Len(t) /\ \A k \in 1..Len(s) : s[k] = t[k]

(* A beginning is a prefix in the sense of the sequence library.           *)
LEMMA BeginsIsPrefix ==
  ASSUME NEW S, NEW s \in Seq(S), NEW t \in Seq(S), Begins(s, t)
  PROVE  IsPrefix(s, t)
  <1> DEFINE n == Len(s)
  <1>1. n \in Nat /\ n <= Len(t) /\ Len(t) \in Nat
    BY DEF Begins
  <1>2. \A i \in 1..n : s[i] \in S /\ t[i] \in S
    BY <1>1
  <1>3. /\ SubSeq(s, 1, n) \in Seq(S) /\ SubSeq(t, 1, n) \in Seq(S)
        /\ Len(SubSeq(s, 1, n)) = Len(SubSeq(t, 1, n))
        /\ \A i \in 1..(n - 1 + 1) : /\ SubSeq(s, 1, n)[i] = s[1 + i - 1]
                                     /\ SubSeq(t, 1, n)[i] = t[1 + i - 1]
    BY <1>1, <1>2, SubSeqProperties
  <1>4. Len(SubSeq(s, 1, n)) = (IF 1 <= n THEN n - 1 + 1 ELSE 0)
    BY <1>1, <1>2, SubSeqProperties
  <1>5. \A i \in 1..Len(SubSeq(s, 1, n)) : SubSeq(s, 1, n)[i] = SubSeq(t, 1, n)[i]
    BY <1>1, <1>3, <1>4 DEF Begins
  <1>6. SubSeq(s, 1, n) = SubSeq(t, 1, n)
    BY <1>3, <1>5, SeqEqual
  <1>7. QED BY <1>1, <1>6 DEF IsPrefix

(* The parse gives entities or an error, and keeps what it has.            *)
LEMMA ParseKeeps ==
  ASSUME NEW extra \in Seq(Byte)
  PROVE  \A loop \in Loops(extra) :
           /\ ParseLoop(extra)[loop] \in Results
           /\ ParseLoop(extra)[loop].err = "none" => Begins(loop.entities, ParseLoop(extra)[loop].entities)
  <1> DEFINE P(loop) == /\ ParseLoop(extra)[loop] \in Results
                        /\ ParseLoop(extra)[loop].err = "none"
                             => Begins(loop.entities, ParseLoop(extra)[loop].entities)
             S == {loop \in Loops(extra) : P(loop)}
  <1>1. ASSUME NEW loop \in Loops(extra), GoesOn(extra, loop.offset) => NextLoop(extra, loop) \in S
        PROVE  P(loop)
    <2>1. loop.entities \in Seq(EntityType)
      BY DEF Loops
    <2>2. CASE ~GoesOn(extra, loop.offset)
      <3>1. ParseLoop(extra)[loop] = Halted(extra, loop)
        BY <2>2, ParseTurn
      <3>2. Halted(extra, loop) \in Results
        BY <2>1, HaltedTyped
      <3>3. Halted(extra, loop).err = "none" => Halted(extra, loop).entities = loop.entities
        BY DEF Halted, Parsed
      <3>4. Begins(loop.entities, loop.entities)
        BY <2>1 DEF Begins
      <3>5. QED BY <3>1, <3>2, <3>3, <3>4
    <2>3. CASE GoesOn(extra, loop.offset)
      <3> DEFINE next == NextLoop(extra, loop)
                 result == ParseLoop(extra)[loop]
      <3>1. next \in Loops(extra) /\ P(next) /\ result = ParseLoop(extra)[next]
        BY <1>1, <2>3, ParseTurn
      <3>2. \/ next.entities = loop.entities
            \/ \E e : next.entities = Append(loop.entities, e)
        BY DEF NextLoop
      <3> DEFINE old == loop.entities
                 new == next.entities
      <3>3. Begins(old, new)
        <4>1. CASE new = old
          BY <2>1, <4>1 DEF Begins
        <4>2. ASSUME NEW e, new = Append(old, e)
              PROVE  Begins(old, new)
          <5> HIDE DEF old, new
          <5>1. old \in Seq(EntityType)
            BY <2>1 DEF old
          <5>2. Len(new) = Len(old) + 1 /\ \A k \in 1..Len(old) : new[k] = old[k]
            BY <4>2, <5>1
          <5>3. Len(old) \in Nat
            BY <5>1
          <5>4. QED BY <5>2, <5>3 DEF Begins
        <4>3. QED BY <3>2, <4>1, <4>2
      <3>4. old \in Seq(EntityType) /\ new \in Seq(EntityType) /\ result \in Results
        BY <2>1, <3>1 DEF Loops
      <3>5. result.err = "none" => Begins(new, result.entities)
        BY <3>1
      <3>6. result.entities \in Seq(EntityType)
        BY <3>4 DEF Results
      <3> HIDE DEF old, new, result, next
      <3>7. \A s : Begins(old, new) /\ Begins(new, s) /\ s \in Seq(EntityType) => Begins(old, s)
        BY <3>4 DEF Begins
      <3>8. QED BY <3>3, <3>4, <3>5, <3>6, <3>7 DEF old, result
    <2>4. QED BY <2>2, <2>3
  <1>2. Loops(extra) \subseteq S
    <2>1. \A loop \in Loops(extra) : (GoesOn(extra, loop.offset) => NextLoop(extra, loop) \in S) => loop \in S
      BY <1>1
    <2> HIDE DEF S
    <2>2. QED BY <2>1, LoopRank
  <1>3. QED BY <1>2

(* parse_entities starts at offset 0 with no entity.                       *)
LEMMA FirstLoop ==
  ASSUME NEW extra \in Seq(Byte)
  PROVE  [offset |-> 0, entities |-> << >>] \in Loops(extra)
  <1>1. << >> \in Seq(EntityType) /\ 0 \in 0..Len(extra)
    OBVIOUS
  <1>2. QED BY <1>1 DEF Loops

(* Whatever the bytes, the result is well-formed.                          *)
LEMMA ParseTyped ==
  ASSUME NEW extra \in Seq(Byte)
  PROVE  ParseEntities(extra) \in Results
  BY FirstLoop, ParseKeeps DEF ParseEntities

(* A descriptor that lies before the cut is read as if nothing were cut.   *)
LEMMA SameBeforeCut ==
  ASSUME NEW whole \in Seq(Byte), NEW n \in 0..Len(whole), NEW cut \in Seq(Byte), Len(cut) = n,
         \A k \in 1..n : cut[k] = whole[k],
         NEW offset \in 0..n, GoesOn(cut, offset)
  PROVE  /\ GoesOn(whole, offset)
         /\ At(whole, offset) = At(cut, offset)
         /\ DescAt(whole, offset) = DescAt(cut, offset)
  <1>1. offset < n /\ offset \in Nat /\ n \in Nat /\ n <= Len(whole) /\ Len(whole) \in Nat
    BY DEF GoesOn
  <1> DEFINE len == At(cut, offset)
  <1>2. At(whole, offset) = len
    BY <1>1 DEF At
  <1>3. len \in Byte /\ len >= 2 /\ offset + len \in 0..n
    BY GoesOnInside
  <1>4. len \in Nat
    BY <1>3, ByteIsNat
  <1> DEFINE here == DescAt(cut, offset)
             there == DescAt(whole, offset)
  <1>5. here \in Seq(Byte) /\ Len(here) = len /\ \A k \in 1..len : here[k] = cut[offset + k]
    BY GoesOnInside
  <1> HIDE DEF len
  <1>6. there \in Seq(Byte) /\ Len(there) = len /\ \A k \in 1..len : there[k] = whole[offset + k]
    <2>1. offset + len <= Len(whole)
      BY <1>1, <1>3, <1>4
    <2>2. there = Slice(whole, offset, len)
      BY <1>2 DEF DescAt
    <2>3. /\ Slice(whole, offset, len) \in Seq(Byte)
          /\ Len(Slice(whole, offset, len)) = len
          /\ \A k \in 1..len : Slice(whole, offset, len)[k] = whole[offset + k]
      BY <1>1, <1>4, <2>1, SliceIs
    <2> HIDE DEF there
    <2>4. QED BY <2>2, <2>3
  <1> HIDE DEF here, there
  <1>7. \A k \in 1..len : offset + k \in 1..n
    BY <1>1, <1>3, <1>4
  <1>8. \A k \in 1..Len(here) : here[k] = there[k]
    BY <1>5, <1>6, <1>7
  <1>9. here = there
    BY <1>5, <1>6, <1>8, SeqEqual
  <1>10. IsEntity(here) => WellFormed(here)
    BY DEF GoesOn, here
  <1>11. offset # Len(whole) /\ ~(len < 2) /\ ~(offset + len > Len(whole))
    BY <1>1, <1>3, <1>4
  <1>12. GoesOn(whole, offset)
    BY <1>2, <1>9, <1>10, <1>11 DEF GoesOn, there
  <1>13. QED BY <1>2, <1>9, <1>12 DEF len, here, there

(* What is parsed of bytes that were cut is the beginning of what is       *)
(* parsed of all of them.                                                  *)
LEMMA CutParses ==
  ASSUME NEW whole \in Seq(Byte), NEW n \in 0..Len(whole), NEW cut \in Seq(Byte), Len(cut) = n,
         \A k \in 1..n : cut[k] = whole[k],
         ParseEntities(whole).err = "none", ParseEntities(cut).err = "none"
  PROVE  IsPrefix(ParseEntities(cut).entities, ParseEntities(whole).entities)
  <1> DEFINE Short(loop) == ParseLoop(cut)[loop]
             Long(loop) == ParseLoop(whole)[loop]
             P(loop) == Short(loop).err = "none" /\ Long(loop).err = "none"
                          => Begins(Short(loop).entities, Long(loop).entities)
             S == {loop \in Loops(cut) : P(loop)}
  <1>1. \A loop \in Loops(cut) : loop \in Loops(whole) /\ loop.offset \in 0..n
    BY DEF Loops
  <1>2. ASSUME NEW loop \in Loops(cut), GoesOn(cut, loop.offset) => NextLoop(cut, loop) \in S
        PROVE  P(loop)
    <2>1. loop \in Loops(whole) /\ loop.offset \in 0..n
      BY <1>1
    <2>2. CASE GoesOn(cut, loop.offset)
      <3>1. /\ GoesOn(whole, loop.offset) /\ At(whole, loop.offset) = At(cut, loop.offset)
            /\ DescAt(whole, loop.offset) = DescAt(cut, loop.offset)
        BY <2>1, <2>2, SameBeforeCut
      <3>2. NextLoop(whole, loop) = NextLoop(cut, loop)
        BY <3>1 DEF NextLoop
      <3>3. Short(loop) = Short(NextLoop(cut, loop)) /\ Long(loop) = Long(NextLoop(cut, loop))
        BY <2>1, <2>2, <3>1, <3>2, ParseTurn
      <3>4. P(NextLoop(cut, loop))
        BY <1>2, <2>2
      <3>5. QED BY <3>3, <3>4
    <2>3. CASE ~GoesOn(cut, loop.offset)
      <3>1. Short(loop) = Halted(cut, loop)
        BY <2>3, ParseTurn
      <3>2. Halted(cut, loop).err = "none" => Halted(cut, loop).entities = loop.entities
        BY DEF Halted, Parsed
      <3>3. Long(loop).err = "none" => Begins(loop.entities, Long(loop).entities)
        BY <2>1, ParseKeeps
      <3>4. QED BY <3>1, <3>2, <3>3
    <2>4. QED BY <2>2, <2>3
  <1>3. Loops(cut) \subseteq S
    <2>1. \A loop \in Loops(cut) : (GoesOn(cut, loop.offset) => NextLoop(cut, loop) \in S) => loop \in S
      BY <1>2
    <2> HIDE DEF S
    <2>2. QED BY <2>1, LoopRank
  <1>4. P([offset |-> 0, entities |-> << >>])
    BY <1>3, FirstLoop
  <1>5. Begins(ParseEntities(cut).entities, ParseEntities(whole).entities)
    BY <1>4 DEF ParseEntities
  <1>6. /\ ParseEntities(cut).entities \in Seq(EntityType)
        /\ ParseEntities(whole).entities \in Seq(EntityType)
    BY ParseTyped DEF Results
  <1>7. QED BY <1>5, <1>6, BeginsIsPrefix

-----------------------------------------------------------------------------
(* Sequences of sequences, and places in a sequence.                       *)

(* The least number of a set is in it.                                     *)
LEMMA MinOf ==
  ASSUME NEW T \in SUBSET Nat, T # {}
  PROVE  Min(T) \in T /\ \A y \in T : Min(T) <= y
  BY LeastOf DEF Min

(* The first entity with an id.                                            *)
LEMMA PositionIs ==
  ASSUME NEW ac, Len(ac) \in Nat, NEW id
  PROVE  /\ Position(ac, id) \in 0..Len(ac)
         /\ Position(ac, id) = 0 => \A k \in 1..Len(ac) : ac[k].id # id
         /\ Position(ac, id) # 0 => /\ ac[Position(ac, id)].id = id
                                    /\ \A k \in 1..(Position(ac, id) - 1) : ac[k].id # id
  <1> DEFINE I == {i \in 1..Len(ac) : ac[i].id = id}
  <1>1. Position(ac, id) = IF I # {} THEN Min(I) ELSE 0
    BY DEF Position, SelectInSeq
  <1>2. CASE I = {}
    BY <1>1, <1>2
  <1>3. CASE I # {}
    <2>1. I \in SUBSET Nat
      OBVIOUS
    <2> HIDE DEF I
    <2>2. Min(I) \in I /\ \A y \in I : Min(I) <= y
      BY <1>3, <2>1, MinOf
    <2> USE DEF I
    <2>3. Min(I) \in 1..Len(ac) /\ ac[Min(I)].id = id
      BY <2>2
    <2>4. \A k \in 1..(Min(I) - 1) : k \in 1..Len(ac) /\ ~(Min(I) <= k)
      BY <2>3
    <2>5. QED BY <1>1, <1>3, <2>2, <2>3, <2>4
  <1>4. QED BY <1>2, <1>3

(* Sequences put together hold what each of them holds.                    *)
LEMMA Flattened ==
  ASSUME NEW S, NEW n \in Nat, NEW seqs \in [1..n -> Seq(S)]
  PROVE  /\ FlattenSeq(seqs) \in Seq(S)
         /\ ToSet(FlattenSeq(seqs)) = UNION {ToSet(seqs[k]) : k \in 1..n}
  <1>1. Len(seqs) = n /\ seqs \in Seq(Seq(S))
    OBVIOUS
  <1>2. CASE n = 0
    <2>1. FlattenSeq(seqs) = seqs
      BY <1>1, <1>2 DEF FlattenSeq
    <2>2. seqs = << >>
      BY <1>1, <1>2
    <2>3. QED BY <1>2, <2>1, <2>2 DEF ToSet
  <1>3. CASE n # 0
    <2> DEFINE D == 1..n
               R == Seq(S)
               Body(f, i) == IF i = 1 THEN seqs[i] ELSE f[i - 1] \o seqs[i]
               Solves(f) == f = [i \in D |-> Body(f, i)]
               flatten == CHOOSE f : Solves(f)
               rank == [i \in D |-> i]
               step == [z \in D \X [D -> R] |-> Body(z[2], z[1])]
    <2>1. FlattenSeq(seqs) = flatten[n]
      BY <1>1, <1>3 DEF FlattenSeq
    <2>2. \A f \in [D -> R] : \A i \in D : Body(f, i) \in R
      <3>1. ASSUME NEW f \in [D -> R], NEW i \in D
            PROVE  Body(f, i) \in R
        <4>1. CASE i = 1
          BY <4>1
        <4>2. CASE i # 1
          <5>1. i - 1 \in D
            BY <4>2
          <5>2. f[i - 1] \in Seq(S) /\ seqs[i] \in Seq(S)
            BY <5>1
          <5>3. f[i - 1] \o seqs[i] \in Seq(S)
            BY <5>2, ConcatProperties
          <5>4. QED BY <4>2, <5>3
        <4>3. QED BY <4>1, <4>2
      <3>2. QED BY <3>1
    <2>3. rank \in [D -> 0..n] /\ step \in [D \X [D -> R] -> R]
      BY <2>2
    <2>4. Local(D, R, rank, step)
      <3>1. ASSUME NEW i \in D, NEW f \in [D -> R], NEW g \in [D -> R],
                   \A y \in D : rank[y] < rank[i] => f[y] = g[y]
            PROVE  step[<<i, f>>] = step[<<i, g>>]
        <4>1. Body(f, i) = Body(g, i)
          <5>1. CASE i = 1
            BY <5>1
          <5>2. CASE i # 1
            <6>1. i - 1 \in D /\ rank[i - 1] < rank[i]
              BY <5>2
            <6>2. f[i - 1] = g[i - 1]
              BY <3>1, <6>1
            <6>3. QED BY <5>2, <6>2
          <5>3. QED BY <5>1, <5>2
        <4>2. QED BY <4>1
      <3>2. QED BY <3>1 DEF Local
    <2>5. << >> \in R
      OBVIOUS
    <2>6. Solvable(D, R, step)
      <3> HIDE DEF D, R, rank, step
      <3>1. QED BY <2>3, <2>4, <2>5, Recursion
    <2>7. \E f : Solves(f)
      <3>1. PICK f \in [D -> R] : f = [i \in D |-> step[<<i, f>>]]
        BY <2>6 DEF Solvable
      <3>2. \A i \in D : step[<<i, f>>] = Body(f, i)
        BY <3>1
      <3> HIDE DEF Body, step
      <3>3. f = [i \in D |-> Body(f, i)]
        BY <3>1, <3>2
      <3>4. QED BY <3>3
    <2>8. Solves(flatten)
      <3> HIDE DEF Solves
      <3>1. QED BY <2>7
    <2>9. \A i \in D : flatten[i] = Body(flatten, i)
      <3> HIDE DEF flatten, Body
      <3>1. QED BY <2>8
    <2> HIDE DEF flatten
    <2> DEFINE Holds(i) == /\ flatten[i] \in Seq(S)
                           /\ ToSet(flatten[i]) = UNION {ToSet(seqs[k]) : k \in 1..i}
               M == {i \in Nat : i \in D => Holds(i)}
    <2>10. ASSUME NEW i \in Nat, i \in M
           PROVE  i + 1 \in M
      <3>1. CASE i + 1 \notin D
        BY <3>1
      <3>2. CASE i + 1 = 1
        <4>1. flatten[1] = seqs[1]
          BY <1>3, <2>9
        <4>2. {ToSet(seqs[k]) : k \in 1..1} = {ToSet(seqs[1])}
          OBVIOUS
        <4>3. seqs[1] \in Seq(S)
          BY <1>3
        <4>4. QED BY <3>2, <4>1, <4>2, <4>3
      <3>3. CASE i + 1 # 1 /\ i + 1 \in D
        <4>1. i \in D /\ Holds(i)
          BY <2>10, <3>3
        <4>2. flatten[i + 1] = flatten[i] \o seqs[i + 1]
          <5>1. flatten[i + 1] = flatten[(i + 1) - 1] \o seqs[i + 1]
            BY <2>9, <3>3
          <5>2. (i + 1) - 1 = i
            OBVIOUS
          <5>3. QED BY <5>1, <5>2
        <4> DEFINE a == flatten[i]
                   b == seqs[i + 1]
        <4>3. a \in Seq(S) /\ b \in Seq(S)
          BY <3>3, <4>1
        <4>4. ToSet(b) \cup ToSet(a) = UNION {ToSet(seqs[k]) : k \in 1..(i + 1)}
          <5>1. 1..(i + 1) = (1..i) \cup {i + 1}
            OBVIOUS
          <5>2. QED BY <4>1, <5>1
        <4> HIDE DEF a, b
        <4>5. /\ a \o b \in Seq(S)
              /\ Len(a \o b) = Len(a) + Len(b)
              /\ \A j \in 1..(Len(a) + Len(b)) : (a \o b)[j] = IF j <= Len(a) THEN a[j] ELSE b[j - Len(a)]
          BY <4>3, ConcatProperties
        <4>6. DOMAIN a = 1..Len(a) /\ DOMAIN b = 1..Len(b) /\ Len(a) \in Nat /\ Len(b) \in Nat
          BY <4>3
        <4> DEFINE c == a \o b
        <4>7. DOMAIN c = 1..(Len(a) + Len(b))
          BY <4>5
        <4> HIDE DEF c
        <4>8. \A j \in DOMAIN a : j \in DOMAIN c /\ c[j] = a[j]
          BY <4>5, <4>6, <4>7 DEF c
        <4>9. \A j \in DOMAIN b : Len(a) + j \in DOMAIN c /\ c[Len(a) + j] = b[j]
          BY <4>5, <4>6, <4>7 DEF c
        <4>10. \A j \in DOMAIN c : \/ j \in DOMAIN a /\ c[j] = a[j]
                                   \/ j - Len(a) \in DOMAIN b /\ c[j] = b[j - Len(a)]
          BY <4>5, <4>6, <4>7 DEF c
        <4>11. ToSet(c) = ToSet(b) \cup ToSet(a)
          BY <4>8, <4>9, <4>10 DEF ToSet
        <4>12. Holds(i + 1)
          <5>1. flatten[i + 1] = c
            BY <4>2 DEF a, b, c
          <5>2. c \in Seq(S)
            BY <4>5 DEF c
          <5>3. QED BY <4>4, <4>11, <5>1, <5>2
        <4> HIDE DEF Holds
        <4>13. QED BY <4>12
      <3>4. QED BY <3>1, <3>2, <3>3
    <2>11. 0 \in M
      OBVIOUS
    <2>12. n \in M
      <3> HIDE DEF M
      <3>1. QED BY <2>10, <2>11, SetInduction
    <2>13. Holds(n)
      BY <1>3, <2>12
    <2>14. QED BY <2>1, <2>13
  <1>4. QED BY <1>2, <1>3

-----------------------------------------------------------------------------
(* Channel counts.                                                         *)

(* A sum of naturals is one.                                               *)
LEMMA TotalTyped ==
  ASSUME NEW s \in Seq(Nat)
  PROVE  Total(s) \in Nat
  <1> DEFINE n == Len(s)
             D == 0..n
             R == Nat
             Body(f, k) == IF k = 0 THEN 0 ELSE f[k - 1] + s[k]
             Solves(f) == f = [k \in D |-> Body(f, k)]
             total == CHOOSE f : Solves(f)
             rank == [k \in D |-> k]
             step == [z \in D \X [D -> R] |-> Body(z[2], z[1])]
  <1>1. n \in Nat /\ Total(s) = total[n]
    BY DEF Total
  <1>2. ASSUME NEW f \in [D -> R], NEW k \in D PROVE Body(f, k) \in R
    <2>1. k = 0 \/ (k - 1 \in D /\ k \in 1..n)
      BY <1>1, SMT
    <2>2. k \in 1..n => s[k] \in Nat
      BY ElementOfSeq
    <2>3. CASE k = 0
      BY <2>3
    <2>4. CASE k # 0
      <3>1. f[k - 1] \in Nat /\ s[k] \in Nat
        BY <2>1, <2>2, <2>4
      <3>2. f[k - 1] + s[k] \in Nat
        <4> HIDE DEF D, R
        <4>1. QED BY <3>1, SMT
      <3>3. QED BY <2>4, <3>2
    <2>5. QED BY <2>3, <2>4
  <1>3. rank \in [D -> 0..n] /\ step \in [D \X [D -> R] -> R] /\ 0 \in R
    BY <1>2
  <1>4. Local(D, R, rank, step)
    <2>1. ASSUME NEW k \in D, NEW f \in [D -> R], NEW g \in [D -> R],
                 \A y \in D : rank[y] < rank[k] => f[y] = g[y]
          PROVE  step[<<k, f>>] = step[<<k, g>>]
      <3>1. CASE k = 0
        BY <3>1
      <3>2. CASE k # 0
        <4>1. k - 1 \in D /\ rank[k - 1] < rank[k]
          BY <3>2
        <4>2. f[k - 1] = g[k - 1]
          BY <2>1, <4>1
        <4>3. QED BY <3>2, <4>2
      <3>3. QED BY <3>1, <3>2
    <2>2. QED BY <2>1 DEF Local
  <1>5. Solvable(D, R, step)
    <2> HIDE DEF D, R, rank, step, n
    <2>1. QED BY <1>1, <1>3, <1>4, Recursion
  <1>6. \E f : Solves(f)
    <2>1. PICK f \in [D -> R] : f = [k \in D |-> step[<<k, f>>]]
      BY <1>5 DEF Solvable
    <2>2. \A k \in D : step[<<k, f>>] = Body(f, k)
      BY <2>1
    <2> HIDE DEF Body, step
    <2>3. f = [k \in D |-> Body(f, k)]
      BY <2>1, <2>2
    <2>4. QED BY <2>3
  <1>7. Solves(total)
    <2> HIDE DEF Solves
    <2>1. QED BY <1>6
  <1>8. \A k \in D : total[k] = Body(total, k)
    <2> HIDE DEF total, Body
    <2>1. QED BY <1>7
  <1> HIDE DEF total
  <1> DEFINE M == {k \in Nat : k \in D => total[k] \in Nat}
  <1>9. 0 \in M
    BY <1>8
  <1>10. ASSUME NEW k \in Nat, k \in M
         PROVE  k + 1 \in M
    <2>1. CASE k + 1 \in D
      <3>1. k \in D /\ (k + 1) - 1 = k /\ s[k + 1] \in Nat
        BY <2>1
      <3>2. total[k + 1] = total[(k + 1) - 1] + s[k + 1]
        BY <1>8, <2>1
      <3>3. QED BY <1>10, <3>1, <3>2
    <2>2. QED BY <2>1
  <1>11. n \in M
    <2> HIDE DEF M
    <2>1. QED BY <1>1, <1>9, <1>10, SetInduction
  <1>12. QED BY <1>1, <1>11

Counts == Byte \cup {Unresolved}

(* The count at an id, given the counts with one entity less to spend.     *)
CountStep(ac, f, budget, from) ==
  LET entity == ac[Position(ac, from)]
  IN IF budget = 0 \/ Position(ac, from) = 0 THEN Unresolved
     ELSE IF entity.kind \in Counted THEN entity.channels
     ELSE IF entity.kind \in PassedOn /\ entity.sources # << >> THEN f[budget - 1][entity.sources[1]]
     ELSE Unresolved

(* An entity that is there.                                                *)
LEMMA EntityAt ==
  ASSUME NEW ac \in Seq(EntityType), NEW k \in 1..Len(ac)
  PROVE  /\ ac[k] \in EntityType /\ ac[k].id \in Byte /\ ac[k].channels \in Byte
         /\ ac[k].sources \in Seq(Byte) /\ ac[k].controls \in Seq(Byte)
         /\ ac[k].sources # << >> => ac[k].sources[1] \in Byte
  <1>1. ac[k] \in EntityType
    OBVIOUS
  <1> DEFINE e == ac[k]
  <1> HIDE DEF e
  <1>2. e \in EntityType
    BY <1>1 DEF e
  <1>3. e.id \in Byte /\ e.channels \in Byte /\ e.sources \in Seq(Byte) /\ e.controls \in Seq(Byte)
    BY <1>2 DEF EntityType
  <1>4. e.sources # << >> => e.sources[1] \in Byte
    BY <1>3
  <1>5. QED BY <1>2, <1>3, <1>4 DEF e

(* How a count comes about.                                                *)
LEMMA CountTurn ==
  ASSUME NEW ac \in Seq(EntityType)
  PROVE  \E count \in [0..(Len(ac) + 1) -> [Byte -> Counts]] :
           /\ \A budget \in 0..(Len(ac) + 1) : \A from \in Byte :
                count[budget][from] = CountStep(ac, count, budget, from)
           /\ \A id : OutputChannels(ac, id) = count[Len(ac) + 1][id]
  <1> DEFINE n == Len(ac) + 1
             D == 0..n
             R == [Byte -> Counts]
             Body(f, budget) ==
               [from \in Byte |->
                 LET entity == ac[Position(ac, from)]
                 IN IF budget = 0 \/ Position(ac, from) = 0 THEN Unresolved
                    ELSE IF entity.kind \in Counted THEN entity.channels
                    ELSE IF entity.kind \in PassedOn /\ entity.sources # << >>
                         THEN f[budget - 1][entity.sources[1]]
                    ELSE Unresolved]
             Solves(f) == f = [budget \in D |-> Body(f, budget)]
             count == CHOOSE f : Solves(f)
             rank == [budget \in D |-> budget]
             step == [z \in D \X [D -> R] |-> Body(z[2], z[1])]
  <1>1. n \in Nat /\ \A id : OutputChannels(ac, id) = count[n][id]
    BY DEF OutputChannels
  <1>2. \A f, budget : Body(f, budget) = [from \in Byte |-> CountStep(ac, f, budget, from)]
    BY DEF CountStep
  <1> HIDE DEF Body
  <1>3. ASSUME NEW f, NEW budget \in D, NEW from \in Byte, budget # 0 => f[budget - 1] \in R
        PROVE  CountStep(ac, f, budget, from) \in Counts
    <2> DEFINE p == Position(ac, from)
    <2>1. CASE budget # 0 /\ p # 0
      <3>1. p \in 1..Len(ac)
        BY <2>1, PositionIs
      <3>2. ac[p].channels \in Byte /\ (ac[p].sources # << >> => ac[p].sources[1] \in Byte)
        BY <3>1, EntityAt
      <3>3. ac[p].sources # << >> => f[budget - 1][ac[p].sources[1]] \in Counts
        BY <1>3, <2>1, <3>2
      <3>4. QED BY <3>2, <3>3 DEF CountStep, Counts
    <2>2. QED BY <2>1 DEF CountStep, Counts
  <1>4. \A f \in [D -> R] : \A budget \in D : Body(f, budget) \in R
    <2>1. ASSUME NEW f \in [D -> R], NEW budget \in D
          PROVE  Body(f, budget) \in R
      <3>1. budget # 0 => f[budget - 1] \in R
        OBVIOUS
      <3>2. \A from \in Byte : CountStep(ac, f, budget, from) \in Counts
        BY <1>3, <3>1
      <3>3. QED BY <1>2, <3>2
    <2>2. QED BY <2>1
  <1>5. rank \in [D -> 0..n] /\ step \in [D \X [D -> R] -> R] /\ [from \in Byte |-> Unresolved] \in R
    BY <1>4 DEF Counts
  <1>6. Local(D, R, rank, step)
    <2>1. ASSUME NEW budget \in D, NEW f \in [D -> R], NEW g \in [D -> R],
                 \A y \in D : rank[y] < rank[budget] => f[y] = g[y]
          PROVE  step[<<budget, f>>] = step[<<budget, g>>]
      <3>1. budget # 0 => f[budget - 1] = g[budget - 1]
        <4>1. budget # 0 => budget - 1 \in D /\ rank[budget - 1] < rank[budget]
          OBVIOUS
        <4>2. QED BY <2>1, <4>1
      <3>2. \A from \in Byte : CountStep(ac, f, budget, from) = CountStep(ac, g, budget, from)
        BY <3>1 DEF CountStep
      <3>3. Body(f, budget) = Body(g, budget)
        BY <1>2, <3>2
      <3>4. QED BY <3>3
    <2>2. QED BY <2>1 DEF Local
  <1>7. Solvable(D, R, step)
    <2> DEFINE r == [from \in Byte |-> Unresolved]
    <2>1. r \in R
      BY <1>5
    <2> HIDE DEF D, R, rank, step, n, r
    <2>2. QED BY <1>1, <1>5, <1>6, <2>1, Recursion
  <1>8. \E f : Solves(f)
    <2>1. PICK f \in [D -> R] : f = [budget \in D |-> step[<<budget, f>>]]
      BY <1>7 DEF Solvable
    <2>2. \A budget \in D : step[<<budget, f>>] = Body(f, budget)
      BY <2>1
    <2> HIDE DEF step
    <2>3. f = [budget \in D |-> Body(f, budget)]
      BY <2>1, <2>2
    <2>4. QED BY <2>3
  <1>9. Solves(count)
    <2> HIDE DEF Solves
    <2>1. QED BY <1>8
  <1> HIDE DEF count
  <1>10. count = [budget \in D |-> Body(count, budget)]
    BY <1>9
  <1>11. \A budget \in D : \A from \in Byte : count[budget][from] = CountStep(ac, count, budget, from)
    <2>1. \A budget \in D : count[budget] = [from \in Byte |-> CountStep(ac, count, budget, from)]
      BY <1>2, <1>10
    <2>2. QED BY <2>1
  <1> DEFINE M == {budget \in Nat : budget \in D => count[budget] \in R}
  <1>12. ASSUME NEW budget \in D, budget # 0 => count[budget - 1] \in R
         PROVE  count[budget] \in R
    <2>1. \A from \in Byte : CountStep(ac, count, budget, from) \in Counts
      BY <1>3, <1>12
    <2>2. count[budget] = [from \in Byte |-> CountStep(ac, count, budget, from)]
      BY <1>2, <1>10
    <2>3. QED BY <2>1, <2>2
  <1>13. 0 \in M
    BY <1>12
  <1>14. ASSUME NEW budget \in Nat, budget \in M
         PROVE  budget + 1 \in M
    <2>1. (budget + 1) - 1 = budget /\ (budget + 1 \in D => budget \in D)
      OBVIOUS
    <2> HIDE DEF D, R
    <2>2. QED BY <1>12, <1>14, <2>1
  <1>15. Nat \subseteq M
    <2> HIDE DEF M
    <2>1. QED BY <1>13, <1>14, SetInduction
  <1>16. count \in [D -> R]
    <2>1. \A budget \in D : count[budget] \in R
      BY <1>15
    <2> HIDE DEF R, D
    <2>2. QED BY <1>10, <2>1
  <1>17. QED BY <1>1, <1>11, <1>16

(* A count is a byte or unresolved.                                        *)
LEMMA OutputChannelsTyped ==
  ASSUME NEW ac \in Seq(EntityType), NEW id \in Byte
  PROVE  OutputChannels(ac, id) \in Counts
  <1>1. PICK count \in [0..(Len(ac) + 1) -> [Byte -> Counts]] : OutputChannels(ac, id) = count[Len(ac) + 1][id]
    BY CountTurn
  <1>2. Len(ac) + 1 \in 0..(Len(ac) + 1)
    OBVIOUS
  <1>3. QED BY <1>1, <1>2

-----------------------------------------------------------------------------
(* Interfaces.                                                             *)

(* An interface that is there.                                             *)
LEMMA InterfaceIs ==
  ASSUME NEW interfaces \in Seq(InterfaceInfo), NEW k \in DOMAIN interfaces
  PROVE  interfaces[k].number \in Byte /\ interfaces[k].extra \in Seq(Byte)
  <1>1. \A i \in InterfaceInfo : i.number \in Byte /\ i.extra \in Seq(Byte)
    BY DEF InterfaceInfo
  <1>2. interfaces[k] \in InterfaceInfo
    OBVIOUS
  <1>3. QED BY <1>1, <1>2

(* The interface that is found is one of those there are.                  *)
LEMMA ControlTyped ==
  ASSUME NEW interfaces \in Seq(InterfaceInfo)
  PROVE  FindControlInterface(interfaces).number \in Byte
  <1> DEFINE numbers == {interfaces[k].number : k \in {j \in DOMAIN interfaces : interfaces[j].class = ClassDfu}}
             number == CHOOSE n \in numbers : TRUE
  <1>1. \A k \in DOMAIN interfaces : interfaces[k].number \in Byte
    BY InterfaceIs
  <1>2. numbers # {} => number \in Byte
    BY <1>1
  <1>3. 0 \in Byte
    BY DEF Byte
  <1>4. \/ FindControlInterface(interfaces).number = 0
        \/ numbers # {} /\ FindControlInterface(interfaces).number = number
    BY DEF FindControlInterface
  <1> HIDE DEF number, numbers
  <1>5. QED BY <1>2, <1>3, <1>4

IsControlInterface(i) ==
  i.class = ClassAudio /\ i.subclass = SubclassAudioControl /\ i.alt_setting = 0

(* Entities come from the bytes of one AudioControl interface.             *)
LEMMA EntitiesFrom ==
  ASSUME NEW interfaces \in Seq(InterfaceInfo)
  PROVE  \/ /\ FromInterfaces(interfaces).err \in {"AudioControlInterfaceMissing", "UnsupportedAudioClass"}
            /\ FromInterfaces(interfaces).entities = << >>
         \/ \E k \in DOMAIN interfaces :
              /\ IsControlInterface(interfaces[k]) /\ interfaces[k].extra \in Seq(Byte)
              /\ FromInterfaces(interfaces) = ParseEntities(interfaces[k].extra)
  <1> DEFINE I == {i \in 1..Len(interfaces) : IsControlInterface(interfaces[i])}
             at == IF I # {} THEN Min(I) ELSE 0
             ac == interfaces[at]
  <1>1. FromInterfaces(interfaces) =
          IF at = 0 THEN Parsed("AudioControlInterfaceMissing", << >>)
          ELSE IF ac.protocol # ProtocolUac2 THEN Parsed("UnsupportedAudioClass", << >>)
          ELSE ParseEntities(ac.extra)
    BY DEF FromInterfaces, SelectInSeq, IsControlInterface
  <1>2. at # 0 => at \in DOMAIN interfaces /\ IsControlInterface(ac)
    <2>1. I \in SUBSET Nat
      OBVIOUS
    <2>2. I # {} => Min(I) \in I
      <3> HIDE DEF I
      <3>1. QED BY <2>1, MinOf
    <2>3. QED BY <2>2
  <1> HIDE DEF at
  <1>3. at # 0 => ac.extra \in Seq(Byte)
    BY <1>2, InterfaceIs
  <1>4. QED BY <1>1, <1>2, <1>3 DEF Parsed

(* Whatever the bytes, the entities are entities.                          *)
LEMMA EntitiesTyped ==
  ASSUME NEW interfaces \in Seq(InterfaceInfo)
  PROVE  FromInterfaces(interfaces).entities \in Seq(EntityType)
  <1>1. << >> \in Seq(EntityType)
    OBVIOUS
  <1>2. \A extra \in Seq(Byte) : ParseEntities(extra).entities \in Seq(EntityType)
    BY ParseTyped DEF Results
  <1>3. QED BY <1>1, <1>2, EntitiesFrom

-----------------------------------------------------------------------------
(* The planner.                                                            *)

(* A bit pair declares its control if and only if its lower bit is set.    *)
LEMMA PairDeclares ==
  ASSUME NEW bytes \in Seq(Byte), NEW pair \in Nat, 1 + (pair \div 4) <= Len(bytes)
  PROVE  IsDeclared(FromBitmap(bytes, pair)) <=> LowBit(bytes, pair)
  <1> DEFINE b == bytes[1 + (pair \div 4)]
             m == 4 ^ (pair % 4)
  <1>1. b \in Byte
    OBVIOUS
  <1>2. m \in {1, 4, 16, 64}
    <2>1. 4 ^ 0 = 1 /\ 4 ^ 1 = 4 /\ 4 ^ 2 = 16 /\ 4 ^ 3 = 64
      OBVIOUS
    <2>2. pair % 4 \in {0, 1, 2, 3}
      OBVIOUS
    <2>3. QED BY <2>1, <2>2
  <1> HIDE DEF b, m
  <1> DEFINE x == b \div m
  <1>3. x \in Nat
    BY <1>1, <1>2, ByteIsNat
  <1>4. FromBitmap(bytes, pair) = FromPair(x % 4) /\ (LowBit(bytes, pair) <=> x % 2 = 1)
    BY DEF FromBitmap, LowBit, b, m
  <1> HIDE DEF x
  <1>5. x % 4 \in {0, 1, 2, 3} /\ (x % 2 = 1 <=> x % 4 \in {1, 3})
    BY <1>3
  <1>6. IsDeclared(FromPair(x % 4)) <=> x % 4 \in {1, 3}
    BY <1>5 DEF IsDeclared, FromPair
  <1>7. QED BY <1>4, <1>5, <1>6

(* The read of a clock.                                                    *)
LEMMA ClockRead ==
  ASSUME NEW ac, NEW clock \in EntityType, clock.kind \in {"ClockSource", "ClockSelector"},
         NEW interface \in Byte
  PROVE  /\ ClockReads(clock, interface) \in Seq(Reads)
         /\ Through(ClockReads(clock, interface), interface)
         /\ Triples(ClockReads(clock, interface)) = ReadableOf(ac, clock)
  <1> DEFINE declared == IsDeclared(FromBitmap(clock.controls, 0))
             source == DumpRead(Address(clock.id, 1, 0, interface), "Four", 4, "Hertz", TRUE)
             selector == DumpRead(Address(clock.id, 1, 0, interface), "One", 1, "SelectorPin", FALSE)
             reads == ClockReads(clock, interface)
  <1>1. clock.id \in Byte /\ clock.controls \in Seq(Byte) /\ Len(clock.controls) = 1
    BY DEF EntityType
  <1>2. declared <=> LowBit(clock.controls, 0)
    <2>1. 1 + (0 \div 4) <= Len(clock.controls)
      BY <1>1
    <2>2. QED BY <1>1, <2>1, PairDeclares
  <1> HIDE DEF declared
  <1>3. ReadableOf(ac, clock) = {<<clock.id, 1, 0>> : x \in {y \in {0} : LowBit(clock.controls, y)}}
    BY DEF ReadableOf
  <1>4. ReadableOf(ac, clock) = IF declared THEN {<<clock.id, 1, 0>>} ELSE {}
    BY <1>2, <1>3
  <1>5. source \in Reads /\ selector \in Reads
    <2>1. 0 \in Byte /\ 1 \in Byte /\ 1 \in Word /\ 4 \in Word
      BY DEF Byte, Word
    <2>2. Address(clock.id, 1, 0, interface) \in Addresses
      BY <1>1, <2>1 DEF Address, Addresses
    <2>3. QED BY <2>1, <2>2 DEF DumpRead, Reads, ValueKinds
  <1>6. /\ source.address = Address(clock.id, 1, 0, interface)
        /\ selector.address = Address(clock.id, 1, 0, interface)
    BY DEF DumpRead
  <1>7. /\ Triple(Address(clock.id, 1, 0, interface)) = <<clock.id, 1, 0>>
        /\ Address(clock.id, 1, 0, interface).interface = interface
    BY DEF Triple, Address
  <1>8. reads = IF declared THEN IF clock.kind = "ClockSource" THEN <<source>> ELSE <<selector>> ELSE << >>
    BY DEF ClockReads, declared, SamFreqControl, ClockSelectorControl
  <1> HIDE DEF source, selector, reads
  <1>9. ASSUME NEW read \in {source, selector}, reads = <<read>>
        PROVE  /\ reads \in Seq(Reads) /\ Through(reads, interface)
               /\ Triples(reads) = {<<clock.id, 1, 0>>}
    <2>1. ToSet(reads) = {read}
      BY <1>9 DEF ToSet
    <2>2. read \in Reads /\ read.address.interface = interface /\ Triple(read.address) = <<clock.id, 1, 0>>
      BY <1>5, <1>6, <1>7
    <2>3. QED BY <1>9, <2>1, <2>2 DEF Through, Triples
  <1>10. CASE ~declared
    <2>1. ToSet(<< >>) = {} /\ << >> \in Seq(Reads)
      BY DEF ToSet
    <2>2. QED BY <1>4, <1>8, <1>10, <2>1 DEF Through, Triples, reads
  <1>11. CASE declared
    BY <1>4, <1>8, <1>9, <1>11 DEF reads
  <1>12. QED BY <1>10, <1>11

(* Plans put together read what each of them reads.                        *)
LEMMA FlattenedReads ==
  ASSUME NEW n \in Nat, NEW seqs \in [1..n -> Seq(Reads)], NEW interface,
         \A k \in 1..n : Through(seqs[k], interface)
  PROVE  /\ FlattenSeq(seqs) \in Seq(Reads)
         /\ Through(FlattenSeq(seqs), interface)
         /\ Triples(FlattenSeq(seqs)) = UNION {Triples(seqs[k]) : k \in 1..n}
  <1>1. /\ FlattenSeq(seqs) \in Seq(Reads)
        /\ ToSet(FlattenSeq(seqs)) = UNION {ToSet(seqs[k]) : k \in 1..n}
    BY Flattened
  <1> DEFINE flat == FlattenSeq(seqs)
  <1> HIDE DEF flat
  <1>2. \A read : read \in ToSet(flat) <=> \E k \in 1..n : read \in ToSet(seqs[k])
    BY <1>1 DEF flat
  <1>3. Through(flat, interface)
    BY <1>2 DEF Through
  <1>4. Triples(flat) = UNION {Triples(seqs[k]) : k \in 1..n}
    BY <1>2 DEF Triples
  <1>5. QED BY <1>1, <1>3, <1>4 DEF flat

(* A plan of one read, or of none.                                         *)
LEMMA OneRead ==
  ASSUME NEW read \in Reads
  PROVE  /\ <<read>> \in Seq(Reads) /\ Through(<<read>>, read.address.interface)
         /\ Triples(<<read>>) = {Triple(read.address)}
  <1>1. ToSet(<<read>>) = {read}
    BY DEF ToSet
  <1>2. QED BY <1>1 DEF Through, Triples

(* No reads address nothing.                                               *)
LEMMA NoRead ==
  /\ << >> \in Seq(Reads) /\ Triples(<< >>) = {}
  /\ \A interface : Through(<< >>, interface)
  <1>1. ToSet(<< >>) = {}
    BY DEF ToSet
  <1>2. QED BY <1>1 DEF Through, Triples

(* The channels of a Feature Unit.                                         *)
LEMMA FeatureChannels ==
  ASSUME NEW feature \in EntityType, feature.kind = "Feature"
  PROVE  /\ feature.id \in Byte /\ feature.controls \in Seq(Byte)
         /\ (Len(feature.controls) \div 4) \in 1..63
         /\ \A channel \in ChannelsOf(feature) :
              /\ channel \in Byte /\ channel \in Nat
              /\ (4 * channel) + 4 <= Len(feature.controls)
  <1>1. /\ feature.id \in Byte /\ feature.controls \in Seq(Byte) /\ Len(feature.controls) <= 255
        /\ Len(feature.controls) % 4 = 0 /\ feature.controls # << >>
    BY DEF EntityType
  <1> DEFINE n == Len(feature.controls)
  <1>2. n \in Nat /\ n # 0 /\ n <= 255 /\ n % 4 = 0
    <2>1. \A s \in Seq(Byte) : Len(s) \in Nat /\ (Len(s) = 0 => s = << >>)
      OBVIOUS
    <2>2. QED BY <1>1, <2>1
  <1>3. ChannelsOf(feature) = 0..((n \div 4) - 1)
    BY DEF ChannelsOf
  <1> HIDE DEF n
  <1>4. (n \div 4) \in 1..63
    BY <1>2
  <1>5. \A channel \in 0..((n \div 4) - 1) : channel \in Nat /\ channel <= 255 /\ (4 * channel) + 4 <= n
    BY <1>2
  <1>6. \A k \in Nat : k <= 255 => k \in Byte
    BY DEF Byte
  <1>7. QED BY <1>1, <1>3, <1>4, <1>5, <1>6 DEF n

(* A control is declared where the lower bit of its pair is set.           *)
LEMMA ControlDeclares ==
  ASSUME NEW feature \in EntityType, feature.kind = "Feature",
         NEW channel \in ChannelsOf(feature), NEW control \in FeatureControls
  PROVE  Declared(feature, channel, control)
           <=> LowBit(Slice(feature.controls, 4 * channel, 4), control - 1)
  <1> DEFINE bytes == Slice(feature.controls, 4 * channel, 4)
             pair == control - 1
  <1>1. bytes \in Seq(Byte) /\ Len(bytes) = 4
    <2>1. /\ feature.controls \in Seq(Byte) /\ channel \in Nat
          /\ (4 * channel) + 4 <= Len(feature.controls)
      BY FeatureChannels
    <2>2. 4 * channel \in Nat /\ 4 \in Nat
      BY <2>1
    <2>3. QED BY <2>1, <2>2, SliceIs
  <1>2. pair \in Nat /\ 1 + (pair \div 4) <= 4
    BY DEF FeatureControls
  <1>3. Declared(feature, channel, control) <=> IsDeclared(FromBitmap(bytes, pair))
    BY DEF Declared, Capability
  <1> HIDE DEF bytes, pair
  <1>4. IsDeclared(FromBitmap(bytes, pair)) <=> LowBit(bytes, pair)
    BY <1>1, <1>2, PairDeclares
  <1>5. QED BY <1>3, <1>4 DEF bytes, pair

(* The tables say something of every control.                              *)
LEMMA ControlTables ==
  ASSUME NEW control \in FeatureControls
  PROVE  /\ control \in Byte /\ CurLength(control) \in Word /\ ValueKind(control) \in ValueKinds
         /\ LayoutOf(control) \in {"One", "Two", "Four", "none"}
  <1>1. LayoutOf(control) \in {"One", "Two", "Four", "none"}
    BY DEF LayoutOf
  <1>2. ValueKind(control) \in ValueKinds
    BY DEF ValueKind, ValueKinds
  <1>3. CurLength(control) \in {1, 2, 4, 36}
    BY <1>1 DEF CurLength, SizeOf
  <1>4. \A n \in {1, 2, 4, 36} : n \in Word
    BY DEF Word
  <1>5. control \in Byte
    BY DEF FeatureControls, Byte
  <1>6. QED BY <1>1, <1>2, <1>3, <1>4, <1>5

(* The reads of a channel.                                                 *)
LEMMA ChannelRead ==
  ASSUME NEW feature \in EntityType, feature.kind = "Feature", NEW interface \in Byte,
         NEW channel \in ChannelsOf(feature)
  PROVE  /\ ChannelReads(feature, interface, channel) \in Seq(Reads)
         /\ Through(ChannelReads(feature, interface, channel), interface)
         /\ Triples(ChannelReads(feature, interface, channel)) =
              {<<feature.id, control, channel>> :
                 control \in {c \in FeatureControls : Declared(feature, channel, c)}}
  <1> DEFINE Read(control) == FeatureRead(feature, interface, channel, control)
             seqs == [control \in 1..15 |-> IF Declared(feature, channel, control) THEN <<Read(control)>> ELSE << >>]
  <1>1. ChannelReads(feature, interface, channel) = FlattenSeq(seqs)
    BY DEF ChannelReads, FeatureControls
  <1>2. ASSUME NEW control \in 1..15
        PROVE  /\ Read(control) \in Reads
               /\ Read(control).address.interface = interface
               /\ Triple(Read(control).address) = <<feature.id, control, channel>>
    <2>1. control \in FeatureControls
      BY DEF FeatureControls
    <2>2. feature.id \in Byte /\ channel \in Byte /\ control \in Byte
      BY <2>1, FeatureChannels, ControlTables
    <2>3. Address(feature.id, control, channel, interface) \in Addresses
      BY <2>2 DEF Address, Addresses
    <2>4. DumpRead(Address(feature.id, control, channel, interface), LayoutOf(control),
                   CurLength(control), ValueKind(control), control = Volume) \in Reads
      BY <2>1, <2>3, ControlTables DEF DumpRead, Reads
    <2>5. QED BY <2>4 DEF FeatureRead, DumpRead, Address, Triple
  <1> HIDE DEF Read
  <1>3. ASSUME NEW control \in 1..15
        PROVE  /\ seqs[control] \in Seq(Reads) /\ Through(seqs[control], interface)
               /\ Triples(seqs[control]) = IF Declared(feature, channel, control)
                                           THEN {<<feature.id, control, channel>>} ELSE {}
    <2>1. CASE Declared(feature, channel, control)
      <3>1. seqs[control] = <<Read(control)>>
        BY <2>1
      <3>2. Read(control) \in Reads
        BY <1>2
      <3>3. QED BY <1>2, <2>1, <3>1, <3>2, OneRead
    <2>2. CASE ~Declared(feature, channel, control)
      BY <2>2, NoRead
    <2>3. QED BY <2>1, <2>2
  <1>4. seqs \in [1..15 -> Seq(Reads)]
    BY <1>3
  <1> HIDE DEF seqs
  <1>5. /\ FlattenSeq(seqs) \in Seq(Reads) /\ Through(FlattenSeq(seqs), interface)
        /\ Triples(FlattenSeq(seqs)) = UNION {Triples(seqs[k]) : k \in 1..15}
    BY <1>3, <1>4, FlattenedReads
  <1>6. UNION {Triples(seqs[k]) : k \in 1..15} =
          {<<feature.id, control, channel>> : control \in {c \in FeatureControls : Declared(feature, channel, c)}}
    BY <1>3 DEF FeatureControls
  <1>7. QED BY <1>1, <1>5, <1>6

(* The reads of a Feature Unit.                                            *)
LEMMA FeatureReadsAre ==
  ASSUME NEW ac, NEW feature \in EntityType, feature.kind = "Feature", NEW interface \in Byte
  PROVE  /\ FeatureReads(feature, interface) \in Seq(Reads)
         /\ Through(FeatureReads(feature, interface), interface)
         /\ Triples(FeatureReads(feature, interface)) = ReadableOf(ac, feature)
  <1> DEFINE n == Len(feature.controls) \div 4
             Channel(k) == ChannelReads(feature, interface, k - 1)
             seqs == [k \in 1..n |-> Channel(k)]
             Bits(channel) == {<<feature.id, control, channel>> :
                                 control \in {c \in FeatureControls : Declared(feature, channel, c)}}
  <1>1. FeatureReads(feature, interface) = FlattenSeq(seqs)
    BY DEF FeatureReads
  <1>2. n \in Nat /\ ChannelsOf(feature) = 0..(n - 1)
    <2>1. n \in 1..63
      BY FeatureChannels
    <2> HIDE DEF n
    <2>2. n \in Nat
      BY <2>1
    <2>3. QED BY <2>2 DEF ChannelsOf, n
  <1> HIDE DEF n
  <1>3. ASSUME NEW k \in 1..n
        PROVE  /\ Channel(k) \in Seq(Reads) /\ Through(Channel(k), interface)
               /\ Triples(Channel(k)) = Bits(k - 1)
    <2>1. k - 1 \in ChannelsOf(feature)
      BY <1>2
    <2>2. QED BY <2>1, ChannelRead
  <1> HIDE DEF Channel, Bits
  <1>4. seqs \in [1..n -> Seq(Reads)] /\ \A k \in 1..n : seqs[k] = Channel(k)
    BY <1>3
  <1> HIDE DEF seqs
  <1>5. /\ FlattenSeq(seqs) \in Seq(Reads) /\ Through(FlattenSeq(seqs), interface)
        /\ Triples(FlattenSeq(seqs)) = UNION {Triples(seqs[k]) : k \in 1..n}
    <2>1. \A k \in 1..n : Through(seqs[k], interface)
      BY <1>3, <1>4
    <2>2. QED BY <1>2, <1>4, <2>1, FlattenedReads
  <1>6. \A k \in 1..n : Triples(seqs[k]) = Bits(k - 1)
    BY <1>3, <1>4
  <1>7. UNION {Triples(seqs[k]) : k \in 1..n} = UNION {Bits(channel) : channel \in 0..(n - 1)}
    <2>1. \A channel \in 0..(n - 1) : channel + 1 \in 1..n /\ (channel + 1) - 1 = channel
      BY <1>2
    <2>2. \A k \in 1..n : k - 1 \in 0..(n - 1)
      BY <1>2
    <2>3. QED BY <1>6, <2>1, <2>2
  <1> DEFINE Bit(y) == LowBit(Slice(feature.controls, 4 * y[2], 4), y[1] - 1)
             pairs == {y \in FeatureControls \X ChannelsOf(feature) : Bit(y)}
  <1>8. ReadableOf(ac, feature) = {<<feature.id, x[1], x[2]>> : x \in pairs}
    BY DEF ReadableOf
  <1>9. \A control \in FeatureControls, channel \in ChannelsOf(feature) :
          Bit(<<control, channel>>) <=> Declared(feature, channel, control)
    BY ControlDeclares
  <1> HIDE DEF Bit
  <1>10. ReadableOf(ac, feature) = UNION {Bits(channel) : channel \in ChannelsOf(feature)}
    <2>1. \A control \in FeatureControls, channel \in ChannelsOf(feature) :
            <<control, channel>> \in pairs <=> Declared(feature, channel, control)
      BY <1>9
    <2>2. \A y \in pairs : \E control \in FeatureControls, channel \in ChannelsOf(feature) :
            y = <<control, channel>>
      OBVIOUS
    <2> HIDE DEF pairs
    <2>3. ASSUME NEW x \in ReadableOf(ac, feature)
          PROVE  \E channel \in ChannelsOf(feature) : x \in Bits(channel)
      <3>1. PICK y \in pairs : x = <<feature.id, y[1], y[2]>>
        BY <1>8
      <3>2. PICK control \in FeatureControls, channel \in ChannelsOf(feature) : y = <<control, channel>>
        BY <2>2
      <3>3. x = <<feature.id, control, channel>> /\ Declared(feature, channel, control)
        BY <2>1, <3>1, <3>2
      <3>4. QED BY <3>3 DEF Bits
    <2>4. ASSUME NEW channel \in ChannelsOf(feature), NEW x \in Bits(channel)
          PROVE  x \in ReadableOf(ac, feature)
      <3>1. PICK control \in FeatureControls : x = <<feature.id, control, channel>> /\ Declared(feature, channel, control)
        BY DEF Bits
      <3>2. <<control, channel>> \in pairs
        BY <2>1, <3>1
      <3>3. QED BY <1>8, <3>1, <3>2
    <2>5. QED BY <2>3, <2>4
  <1>11. QED BY <1>1, <1>2, <1>5, <1>7, <1>10

-----------------------------------------------------------------------------
(* Clusters.                                                               *)

(* The walk upstream, level by level.                                      *)
LEMMA UpstreamTurn ==
  ASSUME NEW ac \in Seq(EntityType), NEW id
  PROVE  /\ \A k \in 0..Len(ac) : Upstream(ac, id)[k] \subseteq DOMAIN ac
         /\ Upstream(ac, id)[0] = Named(ac, id)
         /\ \A k \in 0..Len(ac) : k # 0 =>
              Upstream(ac, id)[k] =
                UNION {Named(ac, ac[a].sources[1]) :
                         a \in {b \in Upstream(ac, id)[k - 1] : ac[b].kind \in PassedOn /\ ac[b].sources # << >>}}
  <1> DEFINE n == Len(ac)
             D == 0..n
             R == SUBSET DOMAIN ac
             Body(f, k) ==
               IF k = 0 THEN Named(ac, id)
               ELSE UNION {Named(ac, ac[a].sources[1]) :
                             a \in {b \in f[k - 1] : ac[b].kind \in PassedOn /\ ac[b].sources # << >>}}
             Solves(f) == f = [k \in D |-> Body(f, k)]
             at == Upstream(ac, id)
             rank == [k \in D |-> k]
             step == [z \in D \X [D -> R] |-> Body(z[2], z[1])]
  <1>1. n \in Nat /\ at = CHOOSE f : Solves(f)
    BY DEF Upstream
  <1>2. \A i : Named(ac, i) \in R
    BY DEF Named
  <1>3. \A f, k : Body(f, k) \in R
    BY <1>2
  <1>4. rank \in [D -> 0..n] /\ step \in [D \X [D -> R] -> R] /\ {} \in R
    <2> HIDE DEF Body, R
    <2>1. {} \in R
      BY DEF R
    <2>2. QED BY <1>3, <2>1
  <1>5. Local(D, R, rank, step)
    <2>1. ASSUME NEW k \in D, NEW f \in [D -> R], NEW g \in [D -> R],
                 \A y \in D : rank[y] < rank[k] => f[y] = g[y]
          PROVE  step[<<k, f>>] = step[<<k, g>>]
      <3>1. k # 0 => f[k - 1] = g[k - 1]
        <4>1. k # 0 => k - 1 \in D /\ rank[k - 1] < rank[k]
          OBVIOUS
        <4>2. QED BY <2>1, <4>1
      <3>2. Body(f, k) = Body(g, k)
        BY <3>1
      <3> HIDE DEF Body
      <3>3. QED BY <3>2
    <2>2. QED BY <2>1 DEF Local
  <1> HIDE DEF Body
  <1>6. Solvable(D, R, step)
    <2> DEFINE r == {}
    <2>1. r \in R
      BY <1>4
    <2> HIDE DEF D, R, rank, step, n, r
    <2>2. QED BY <1>1, <1>4, <1>5, <2>1, Recursion
  <1>7. \E f : Solves(f)
    <2>1. PICK f \in [D -> R] : f = [k \in D |-> step[<<k, f>>]]
      BY <1>6 DEF Solvable
    <2>2. \A k \in D : step[<<k, f>>] = Body(f, k)
      BY <2>1
    <2> HIDE DEF step
    <2>3. f = [k \in D |-> Body(f, k)]
      BY <2>1, <2>2
    <2>4. QED BY <2>3
  <1>8. Solves(at)
    <2> HIDE DEF Solves, at
    <2>1. QED BY <1>1, <1>7
  <1> HIDE DEF at
  <1>9. \A k \in D : at[k] = Body(at, k)
    BY <1>8
  <1>10. 0 \in D
    BY <1>1
  <1>11. \A k \in D : at[k] \in R
    BY <1>3, <1>9
  <1>12. QED BY <1>9, <1>10, <1>11 DEF at, Body

(* An id names one entity at most.                                         *)
LEMMA NamedIs ==
  ASSUME NEW ac \in Seq(EntityType), NEW id
  PROVE  Named(ac, id) = IF Position(ac, id) = 0 THEN {} ELSE {Position(ac, id)}
  <1> DEFINE p == Position(ac, id)
  <1>1. /\ p \in 0..Len(ac) /\ Len(ac) \in Nat /\ DOMAIN ac = 1..Len(ac)
        /\ p = 0 => \A k \in 1..Len(ac) : ac[k].id # id
        /\ p # 0 => ac[p].id = id /\ \A k \in 1..(p - 1) : ac[k].id # id
    BY PositionIs
  <1> HIDE DEF p
  <1>2. CASE p = 0
    BY <1>1, <1>2 DEF Named, p
  <1>3. CASE p # 0
    <2>1. p \in Named(ac, id)
      BY <1>1, <1>3 DEF Named
    <2>2. ASSUME NEW j \in Named(ac, id), j # p
          PROVE  FALSE
      <3>1. j \in 1..Len(ac) /\ ac[j].id = id /\ \A i \in 1..(j - 1) : ac[i].id # id
        BY <1>1 DEF Named
      <3>2. CASE j < p
        BY <1>1, <1>3, <3>1, <3>2
      <3>3. CASE p < j
        BY <1>1, <1>3, <3>1, <3>3
      <3>4. QED BY <1>1, <2>2, <3>1, <3>2, <3>3
    <2>3. QED BY <1>3, <2>1, <2>2 DEF p
  <1>4. QED BY <1>2, <1>3

(* The count of the code is the cluster of the declaration.                *)
LEMMA ClusterIs ==
  ASSUME NEW ac \in Seq(EntityType), NEW id \in Byte
  PROVE  ClusterOf(ac, id) = IF OutputChannels(ac, id) = Unresolved THEN {} ELSE {OutputChannels(ac, id)}
  <1> DEFINE n == Len(ac)
             P(i) == Position(ac, i)
             at == Upstream(ac, id)
             result == OutputChannels(ac, id)
             answer == IF result = Unresolved THEN {} ELSE {result}
             Ends(K) == {ac[j].channels : j \in {i \in UNION {at[m] : m \in K} : ac[i].kind \in Counted}}
  <1>1. PICK count \in [0..(n + 1) -> [Byte -> Counts]] :
          /\ \A budget \in 0..(n + 1) : \A from \in Byte :
               count[budget][from] = CountStep(ac, count, budget, from)
          /\ result = count[n + 1][id]
    BY CountTurn
  <1>2. n \in Nat /\ DOMAIN ac = 1..n
    OBVIOUS
  <1>3. /\ \A k \in 0..n : at[k] \subseteq DOMAIN ac
        /\ at[0] = Named(ac, id)
        /\ \A k \in 0..n : k # 0 =>
             at[k] = UNION {Named(ac, ac[a].sources[1]) :
                              a \in {b \in at[k - 1] : ac[b].kind \in PassedOn /\ ac[b].sources # << >>}}
    BY UpstreamTurn
  <1>4. \A i : Named(ac, i) = IF P(i) = 0 THEN {} ELSE {P(i)}
    BY NamedIs
  <1>5. \A i : P(i) \in 0..n
    BY <1>2, PositionIs
  <1>6. \A j \in 1..n : ac[j].channels \in Byte /\ (ac[j].sources # << >> => ac[j].sources[1] \in Byte)
    BY EntityAt
  <1>7. \A b \in Byte : b # Unresolved
    BY DEF Byte, Unresolved
  <1>8. \A kind \in Counted : kind \notin PassedOn
    BY DEF Counted, PassedOn
  <1> HIDE DEF n, P, at, result
  <1> DEFINE Walking(k) == \E i \in Byte : /\ at[k] = {P(i)} /\ P(i) # 0
                                           /\ result = count[n + 1 - k][i]
                                           /\ Ends({m \in 0..k : m # k}) = {}
             Over(k) == at[k] = {} /\ Ends(0..k) = answer
  <1>9. \A from \in Byte : \A budget \in 0..(n + 1) :
          /\ P(from) = 0 => count[budget][from] = Unresolved
          /\ budget = 0 => count[budget][from] = Unresolved
          /\ budget # 0 /\ P(from) # 0 =>
               /\ ac[P(from)].kind \in Counted => count[budget][from] = ac[P(from)].channels
               /\ ac[P(from)].kind \in PassedOn /\ ac[P(from)].sources # << >> =>
                    count[budget][from] = count[budget - 1][ac[P(from)].sources[1]]
               /\ ac[P(from)].kind \notin Counted
                  /\ ~(ac[P(from)].kind \in PassedOn /\ ac[P(from)].sources # << >>) =>
                    count[budget][from] = Unresolved
    BY <1>1, <1>8 DEF CountStep, P
  <1>10. Walking(0) \/ Over(0)
    <2>1. 0..0 = {0} /\ {m \in 0..0 : m # 0} = {}
      OBVIOUS
    <2>2. CASE P(id) = 0
      <3>1. at[0] = {}
        BY <1>3, <1>4, <2>2
      <3>2. result = Unresolved
        BY <1>1, <1>2, <1>9, <2>2
      <3>3. Ends(0..0) = {}
        BY <2>1, <3>1
      <3>4. QED BY <3>1, <3>2, <3>3
    <2>3. CASE P(id) # 0
      <3>1. at[0] = {P(id)}
        BY <1>3, <1>4, <2>3
      <3>2. n + 1 - 0 = n + 1
        BY <1>2
      <3>3. Ends({m \in 0..0 : m # 0}) = {}
        BY <2>1
      <3> HIDE DEF Ends
      <3>4. QED BY <1>1, <2>3, <3>1, <3>2, <3>3
    <2>4. QED BY <2>2, <2>3
  <1>11. ASSUME NEW k \in 0..n, Walking(k)
         PROVE  \/ Ends(0..k) = answer
                   /\ \A b \in at[k] : ~(ac[b].kind \in PassedOn /\ ac[b].sources # << >>)
                \/ /\ Ends(0..k) = {}
                   /\ \E i \in Byte : /\ result = count[n - k][i]
                                      /\ k + 1 \in 0..n => at[k + 1] = Named(ac, i)
    <2>1. PICK i \in Byte : /\ at[k] = {P(i)} /\ P(i) # 0 /\ result = count[n + 1 - k][i]
                            /\ Ends({m \in 0..k : m # k}) = {}
      BY <1>11
    <2> DEFINE j == P(i)
    <2>2. j \in 1..n
      BY <1>2, <1>5, <2>1
    <2>3. Ends(0..k) = IF ac[j].kind \in Counted THEN {ac[j].channels} ELSE {}
      <3>1. 0..k = {m \in 0..k : m # k} \cup {k}
        BY <1>2
      <3> DEFINE K == {m \in 0..k : m # k}
      <3> HIDE DEF K
      <3>2. 0..k = K \cup {k} /\ Ends(K) = {}
        BY <2>1, <3>1 DEF K
      <3>3. at[k] = {j}
        BY <2>1
      <3> DEFINE before == UNION {at[m] : m \in K}
                 all == UNION {at[m] : m \in 0..k}
      <3>4. all = before \cup {j}
        <4> HIDE DEF j
        <4>1. \A x : x \in all <=> x \in before \/ x \in at[k]
          BY <3>2
        <4> HIDE DEF all, before
        <4>2. QED BY <3>3, <4>1
      <3> HIDE DEF j
      <3>5. /\ Ends(K) = {ac[x].channels : x \in {y \in before : ac[y].kind \in Counted}}
            /\ Ends(0..k) = {ac[x].channels : x \in {y \in all : ac[y].kind \in Counted}}
        OBVIOUS
      <3> HIDE DEF before, all, Ends
      <3>6. {y \in before : ac[y].kind \in Counted} = {}
        <4> DEFINE counted == {y \in before : ac[y].kind \in Counted}
        <4>1. {ac[x].channels : x \in counted} = {}
          BY <3>2, <3>5
        <4> HIDE DEF counted
        <4>2. ASSUME NEW x \in counted PROVE FALSE
          <5>1. ac[x].channels \in {ac[y].channels : y \in counted}
            OBVIOUS
          <5>2. QED BY <4>1, <5>1
        <4>3. counted = {}
          BY <4>2
        <4>4. QED BY <4>3 DEF counted
      <3>7. {y \in all : ac[y].kind \in Counted} = IF ac[j].kind \in Counted THEN {j} ELSE {}
        BY <3>4, <3>6
      <3>8. QED BY <3>5, <3>7
    <2>4. n + 1 - k \in 0..(n + 1) /\ n + 1 - k # 0 /\ (n + 1 - k) - 1 = n - k
      BY <1>2
    <2> HIDE DEF j, Ends
    <2>5. CASE ac[j].kind \in Counted
      <3>1. result = ac[j].channels
        BY <1>9, <2>1, <2>4, <2>5 DEF j
      <3>2. answer = {ac[j].channels}
        BY <1>6, <1>7, <2>2, <3>1
      <3>3. QED BY <1>8, <2>1, <2>3, <2>5, <3>2 DEF j
    <2>6. CASE ac[j].kind \in PassedOn /\ ac[j].sources # << >>
      <3> DEFINE next == ac[j].sources[1]
      <3>1. result = count[n - k][next] /\ next \in Byte
        BY <1>6, <1>9, <2>1, <2>2, <2>4, <2>6 DEF j
      <3>2. k + 1 \in 0..n => at[k + 1] = Named(ac, next)
        <4>1. SUFFICES ASSUME k + 1 \in 0..n
                       PROVE  at[k + 1] = Named(ac, next)
          OBVIOUS
        <4>2. (k + 1) - 1 = k /\ k + 1 # 0
          BY <1>2
        <4>3. at[k + 1] = UNION {Named(ac, ac[a].sources[1]) :
                                   a \in {b \in at[(k + 1) - 1] : ac[b].kind \in PassedOn /\ ac[b].sources # << >>}}
          BY <1>3, <4>1, <4>2
        <4>4. {b \in at[k] : ac[b].kind \in PassedOn /\ ac[b].sources # << >>} = {j}
          BY <2>1, <2>6 DEF j
        <4>5. at[k + 1] = UNION {Named(ac, ac[a].sources[1]) : a \in {j}}
          BY <4>2, <4>3, <4>4
        <4>6. QED BY <4>5
      <3>3. ac[j].kind \notin Counted
        BY <1>8, <2>6
      <3> HIDE DEF next
      <3>4. QED BY <2>3, <3>1, <3>2, <3>3
    <2>7. CASE ac[j].kind \notin Counted /\ ~(ac[j].kind \in PassedOn /\ ac[j].sources # << >>)
      <3>1. result = Unresolved
        BY <1>9, <2>1, <2>4, <2>7 DEF j
      <3>2. QED BY <2>1, <2>3, <2>7, <3>1 DEF j
    <2>8. QED BY <2>5, <2>6, <2>7
  <1>12. ASSUME NEW k \in 0..n, k + 1 \in 0..n, Walking(k) \/ Over(k)
         PROVE  Walking(k + 1) \/ Over(k + 1)
    <2>1. /\ 0..(k + 1) = 0..k \cup {k + 1} /\ {m \in 0..(k + 1) : m # k + 1} = 0..k
          /\ (k + 1) - 1 = k /\ k + 1 # 0 /\ n + 1 - (k + 1) = n - k
          /\ n - k \in 0..(n + 1)
      BY <1>2
    <2>2. ASSUME Ends(0..k) = answer, \A b \in at[k] : ~(ac[b].kind \in PassedOn /\ ac[b].sources # << >>)
          PROVE  Over(k + 1)
      <3>1. at[k + 1] = UNION {Named(ac, ac[a].sources[1]) :
                                 a \in {b \in at[(k + 1) - 1] : ac[b].kind \in PassedOn /\ ac[b].sources # << >>}}
        BY <1>3, <1>12, <2>1
      <3>2. {b \in at[(k + 1) - 1] : ac[b].kind \in PassedOn /\ ac[b].sources # << >>} = {}
        BY <2>1, <2>2
      <3>3. at[k + 1] = {}
        BY <3>1, <3>2
      <3>4. UNION {at[m] : m \in 0..(k + 1)} = UNION {at[m] : m \in 0..k}
        BY <2>1, <3>3
      <3>5. Ends(0..(k + 1)) = answer
        BY <2>2, <3>4
      <3>6. QED BY <3>3, <3>5
    <2>3. CASE Over(k)
      BY <2>2, <2>3
    <2>4. ASSUME Ends(0..k) = {}, NEW i \in Byte, result = count[n - k][i], at[k + 1] = Named(ac, i)
          PROVE  Walking(k + 1) \/ Over(k + 1)
      <3>1. CASE P(i) = 0
        <4>1. at[k + 1] = {} /\ result = Unresolved
          BY <1>4, <1>9, <2>1, <2>4, <3>1
        <4>2. UNION {at[m] : m \in 0..(k + 1)} = UNION {at[m] : m \in 0..k}
          BY <2>1, <4>1
        <4>3. Ends(0..(k + 1)) = {}
          BY <2>4, <4>2
        <4>4. QED BY <4>1, <4>3
      <3>2. CASE P(i) # 0
        <4>1. at[k + 1] = {P(i)}
          BY <1>4, <2>4, <3>2
        <4>2. Ends({m \in 0..(k + 1) : m # k + 1}) = {}
          BY <2>1, <2>4
        <4> HIDE DEF Ends
        <4>3. QED BY <2>1, <2>4, <3>2, <4>1, <4>2
      <3>3. QED BY <3>1, <3>2
    <2>5. CASE Walking(k)
      <3> HIDE DEF Walking, Over, Ends, answer
      <3>1. QED BY <1>11, <1>12, <2>2, <2>4, <2>5
    <2>6. QED BY <1>12, <2>3, <2>5
  <1> DEFINE M == {k \in Nat : k \in 0..n => Walking(k) \/ Over(k)}
  <1>13. Ends(0..n) = answer
    <2> HIDE DEF Walking, Over, Ends, answer
    <2>1. 0 \in M
      BY <1>10
    <2>2. ASSUME NEW k \in Nat, k \in M
          PROVE  k + 1 \in M
      <3>1. k + 1 \in 0..n => k \in 0..n
        BY <1>2
      <3>2. QED BY <1>12, <2>2, <3>1
    <2>3. n \in M
      <3> HIDE DEF M
      <3>1. QED BY <1>2, <2>1, <2>2, SetInduction
    <2>4. n \in 0..n
      BY <1>2
    <2>5. Walking(n) \/ Over(n)
      BY <2>3, <2>4
    <2>6. CASE Over(n)
      BY <2>6 DEF Over
    <2>7. CASE Walking(n)
      <3>1. ASSUME Ends(0..n) = {}, NEW i \in Byte, result = count[n - n][i]
            PROVE  Ends(0..n) = answer
        <4>1. n - n = 0 /\ 0 \in 0..(n + 1)
          BY <1>2
        <4>2. result = Unresolved
          BY <1>9, <3>1, <4>1
        <4>3. QED BY <3>1, <4>2 DEF answer
      <3>2. QED BY <1>11, <2>4, <2>7, <3>1
    <2>8. QED BY <2>5, <2>6, <2>7
  <1>14. ClusterOf(ac, id) = Ends(0..n)
    BY DEF ClusterOf, Ends, at, n
  <1> HIDE DEF Ends
  <1>15. QED BY <1>13, <1>14 DEF answer, result

-----------------------------------------------------------------------------
(* Mixers.                                                                 *)

(* Products of naturals are naturals.                                      *)
LEMMA ProductIsNat == \A m \in Nat, n \in Nat : m * n \in Nat
  OBVIOUS

(* Quotient and remainder of a place, put together again.                  *)
LEMMA PlaceAgain ==
  ASSUME NEW n \in Nat \ {0}, NEW x \in Nat
  PROVE  ((x \div n) * n) + (x % n) = x
  OBVIOUS

(* A sequence of bytes as a bitmap: as many bytes as the nodes need.       *)
LEMMA BytesFor ==
  ASSUME NEW nodes \in Nat, NEW bytes \in Nat
  PROVE  (nodes + 7) \div 8 = bytes <=> bytes * 8 \in nodes..(nodes + 7)
  OBVIOUS

(* What MixerInputChannels is, when it is not Unresolved.                  *)
LEMMA MixerInputs ==
  ASSUME NEW ac \in Seq(EntityType), NEW mixer \in EntityType,
         NEW counts, counts = [k \in DOMAIN mixer.sources |-> OutputChannels(ac, mixer.sources[k])]
  PROVE  /\ \A k \in DOMAIN mixer.sources : counts[k] \in Counts
         /\ Unresolved \notin ToSet(counts) <=> \A k \in DOMAIN mixer.sources : counts[k] # Unresolved
         /\ Unresolved \notin ToSet(counts) => Total(counts) \in Nat /\ Total(counts) * mixer.channels \in Nat
         /\ MixerInputChannels(ac, mixer) =
              IF Unresolved \in ToSet(counts)
                 \/ ~BitmapFits(Total(counts) * mixer.channels, Len(mixer.controls))
              THEN Unresolved ELSE Total(counts)
  <1>1. mixer.sources \in Seq(Byte) /\ mixer.channels \in Byte
    BY DEF EntityType
  <1>2. \A k \in DOMAIN mixer.sources : counts[k] \in Counts
    <2>1. ASSUME NEW k \in DOMAIN mixer.sources
          PROVE  counts[k] \in Counts
      <3>1. mixer.sources[k] \in Byte
        BY <1>1
      <3>2. QED BY <3>1, OutputChannelsTyped
    <2>2. QED BY <2>1
  <1>3. Unresolved \notin ToSet(counts) <=> \A k \in DOMAIN mixer.sources : counts[k] # Unresolved
    BY DEF ToSet
  <1>4. Unresolved \notin ToSet(counts) => Total(counts) \in Nat /\ Total(counts) * mixer.channels \in Nat
    <2>1. SUFFICES ASSUME Unresolved \notin ToSet(counts)
                   PROVE  Total(counts) \in Nat /\ Total(counts) * mixer.channels \in Nat
      OBVIOUS
    <2>2. \A k \in DOMAIN mixer.sources : counts[k] \in Byte
      BY <1>2, <1>3, <2>1 DEF Counts
    <2>3. DOMAIN mixer.sources = 1..Len(mixer.sources) /\ Len(mixer.sources) \in Nat
      BY <1>1
    <2>4. \A k \in DOMAIN mixer.sources : counts[k] \in Nat
      BY <2>2, ByteIsNat
    <2>5. counts \in Seq(Nat)
      <3>1. counts \in [1..Len(mixer.sources) -> Nat]
        BY <2>3, <2>4
      <3>2. QED BY <2>3, <3>1
    <2>6. Total(counts) \in Nat
      BY <2>5, TotalTyped
    <2>7. mixer.channels \in Nat
      BY <1>1, ByteIsNat
    <2>8. QED BY <2>6, <2>7, ProductIsNat
  <1>5. MixerInputChannels(ac, mixer) =
              IF Unresolved \in ToSet(counts)
                 \/ ~BitmapFits(Total(counts) * mixer.channels, Len(mixer.controls))
              THEN Unresolved ELSE Total(counts)
    BY DEF MixerInputChannels
  <1>6. QED BY <1>2, <1>3, <1>4, <1>5

(* A mixer is readable if and only if its shape is known.                  *)
LEMMA MixerReadable ==
  ASSUME NEW ac \in Seq(EntityType), NEW mixer \in EntityType, mixer.kind = "Mixer",
         NEW inputs, inputs = MixerInputChannels(ac, mixer)
  PROVE  /\ inputs = Unresolved => ReadableOf(ac, mixer) = {}
         /\ inputs # Unresolved =>
              /\ inputs * mixer.channels \in 0..256
              /\ ReadableOf(ac, mixer) = {mixer.id} \X {1} \X (0..((inputs * mixer.channels) - 1))
  <1> DEFINE counts == [k \in DOMAIN mixer.sources |-> OutputChannels(ac, mixer.sources[k])]
             chosen == [k \in DOMAIN mixer.sources |-> CHOOSE c \in ClusterOf(ac, mixer.sources[k]) : TRUE]
             nodes == Total(chosen) * mixer.channels
             bytes == Len(mixer.controls)
             Known == /\ \A k \in DOMAIN mixer.sources : ClusterOf(ac, mixer.sources[k]) # {}
                      /\ nodes <= 256 /\ bytes * 8 \in nodes..(nodes + 7)
  <1>1. ReadableOf(ac, mixer) = IF Known THEN {mixer.id} \X {1} \X (0..(nodes - 1)) ELSE {}
    BY DEF ReadableOf
  <1>2. mixer.sources \in Seq(Byte) /\ bytes \in Nat
    BY DEF EntityType
  <1>3. \A k \in DOMAIN mixer.sources :
          ClusterOf(ac, mixer.sources[k]) = IF counts[k] = Unresolved THEN {} ELSE {counts[k]}
    <2>1. \A k \in DOMAIN mixer.sources : mixer.sources[k] \in Byte
      BY <1>2
    <2>2. QED BY <2>1, ClusterIs
  <1> HIDE DEF counts, bytes
  <1>4. /\ Unresolved \notin ToSet(counts) <=> \A k \in DOMAIN mixer.sources : counts[k] # Unresolved
        /\ Unresolved \notin ToSet(counts) => Total(counts) \in Nat /\ Total(counts) * mixer.channels \in Nat
        /\ inputs = IF Unresolved \in ToSet(counts) \/ ~BitmapFits(Total(counts) * mixer.channels, bytes)
                    THEN Unresolved ELSE Total(counts)
    BY MixerInputs DEF counts, bytes
  <1>5. CASE Unresolved \in ToSet(counts)
    <2>1. \E k \in DOMAIN mixer.sources : ClusterOf(ac, mixer.sources[k]) = {}
      BY <1>3, <1>4, <1>5
    <2>2. ~Known
      BY <2>1
    <2> HIDE DEF Known
    <2>3. QED BY <1>1, <1>4, <1>5, <2>2
  <1>6. CASE Unresolved \notin ToSet(counts)
    <2>1. \A k \in DOMAIN mixer.sources : ClusterOf(ac, mixer.sources[k]) = {counts[k]}
      BY <1>3, <1>4, <1>6
    <2>2. chosen = counts
      <3>1. \A k \in DOMAIN mixer.sources : (CHOOSE c \in ClusterOf(ac, mixer.sources[k]) : TRUE) = counts[k]
        BY <2>1
      <3>2. QED BY <3>1 DEF counts
    <2> HIDE DEF chosen
    <2>3. nodes \in Nat /\ nodes = Total(counts) * mixer.channels /\ Total(counts) \in Nat
      BY <1>4, <1>6, <2>2
    <2> HIDE DEF nodes
    <2>4. Known <=> BitmapFits(nodes, bytes)
      BY <1>2, <2>1, <2>3, BytesFor DEF BitmapFits
    <2>5. Total(counts) # Unresolved
      BY <2>3 DEF Unresolved
    <2>6. Known => nodes \in 0..256
      <3>1. Known => nodes <= 256
        BY Zenon
      <3>2. \A m \in Nat : m <= 256 => m \in 0..256
        OBVIOUS
      <3>3. nodes \in Nat
        BY <2>3
      <3> HIDE DEF Known
      <3>4. QED BY <3>1, <3>2, <3>3
    <2> HIDE DEF Known
    <2>7. QED BY <1>1, <1>4, <1>6, <2>3, <2>4, <2>5, <2>6
  <1>7. QED BY <1>5, <1>6

(* The reads of a mixer.                                                   *)
LEMMA MixerReadsAre ==
  ASSUME NEW ac \in Seq(EntityType), NEW mixer \in EntityType, mixer.kind = "Mixer",
         NEW interface \in Byte
  PROVE  /\ MixerReads(ac, mixer, interface) \in Seq(Reads)
         /\ Through(MixerReads(ac, mixer, interface), interface)
         /\ Triples(MixerReads(ac, mixer, interface)) = ReadableOf(ac, mixer)
  <1> DEFINE inputs == MixerInputChannels(ac, mixer)
             outputs == mixer.channels
             nodes == inputs * outputs
             Read(k) == DumpRead(Address(mixer.id, MixerControl,
                                  NodeNumber((k - 1) \div outputs + 1, ((k - 1) % outputs) + 1, inputs, outputs),
                                  interface),
                          "Two", 2, "Decibel256", FALSE)
             reads == [k \in 1..nodes |-> Read(k)]
  <1>1. MixerReads(ac, mixer, interface) = IF inputs = Unresolved THEN << >> ELSE reads
    BY DEF MixerReads
  <1>2. /\ inputs = Unresolved => ReadableOf(ac, mixer) = {}
        /\ inputs # Unresolved => /\ nodes \in 0..256
                                  /\ ReadableOf(ac, mixer) = {mixer.id} \X {1} \X (0..(nodes - 1))
    BY MixerReadable
  <1>3. mixer.id \in Byte /\ outputs \in Byte
    BY DEF EntityType
  <1>4. CASE inputs = Unresolved
    BY <1>1, <1>2, <1>4, NoRead
  <1>5. CASE inputs # Unresolved
    <2>1. nodes \in 0..256
      BY <1>2, <1>5
    <2>2. nodes # 0 => outputs \in Nat \ {0}
      <3>1. outputs \in Nat
        BY <1>3, ByteIsNat
      <3>2. inputs \in Int
        <4> DEFINE counts == [k \in DOMAIN mixer.sources |-> OutputChannels(ac, mixer.sources[k])]
        <4>1. inputs = Total(counts) /\ Total(counts) \in Nat
          BY <1>5, MixerInputs
        <4> HIDE DEF counts, inputs
        <4>2. QED BY <4>1
      <3> HIDE DEF inputs, outputs
      <3>3. outputs = 0 => nodes = 0
        BY <3>1, <3>2
      <3>4. QED BY <3>1, <3>3
    <2> HIDE DEF nodes
    <2>3. ASSUME NEW k \in 1..nodes
          PROVE  /\ Read(k) \in Reads /\ Read(k).address.interface = interface
                 /\ Triple(Read(k).address) = <<mixer.id, 1, k - 1>>
      <3>1. k - 1 \in Nat /\ k - 1 <= 255 /\ nodes # 0
        BY <2>1
      <3> DEFINE u == (k - 1) \div outputs + 1
                 v == ((k - 1) % outputs) + 1
      <3>2. NodeNumber(u, v, inputs, outputs) = k - 1
        <4> DEFINE x == k - 1
                   q == x \div outputs
                   r == x % outputs
        <4> HIDE DEF x
        <4>1. x \in Nat /\ outputs \in Nat \ {0}
          BY <2>2, <3>1 DEF x
        <4> HIDE DEF outputs
        <4>2. (q * outputs) + r = x
          BY <4>1, PlaceAgain
        <4>3. q \in Int /\ r \in Int
          BY <4>1
        <4>4. u = q + 1 /\ v = r + 1
          BY DEF x
        <4> HIDE DEF q, r, u, v
        <4>5. (u - 1) = q /\ (v - 1) = r
          BY <4>3, <4>4
        <4>6. NodeNumber(u, v, inputs, outputs) = (q * outputs) + r
          BY <4>5 DEF NodeNumber
        <4>7. QED BY <4>2, <4>6 DEF x
      <3> DEFINE address == Address(mixer.id, 1, k - 1, interface)
      <3>3. Read(k) = DumpRead(address, "Two", 2, "Decibel256", FALSE)
        BY <3>2 DEF MixerControl
      <3>4. k - 1 \in Byte /\ 1 \in Byte
        BY <3>1 DEF Byte
      <3>5. address \in Addresses
        BY <1>3, <3>4 DEF Address, Addresses
      <3>6. 2 \in Word
        BY DEF Word
      <3>7. address.interface = interface /\ Triple(address) = <<mixer.id, 1, k - 1>>
        BY DEF Address, Triple
      <3> HIDE DEF Read, address
      <3>8. QED BY <3>3, <3>5, <3>6, <3>7 DEF DumpRead, Reads, ValueKinds
    <2> HIDE DEF Read
    <2>4. reads \in Seq(Reads) /\ ToSet(reads) = {Read(k) : k \in 1..nodes}
      <3>1. reads \in [1..nodes -> Reads] /\ nodes \in Nat /\ DOMAIN reads = 1..nodes
        BY <2>1, <2>3
      <3>2. reads \in Seq(Reads)
        BY <3>1
      <3>3. QED BY <3>2, <3>1 DEF ToSet
    <2> HIDE DEF reads
    <2>5. Through(reads, interface)
      BY <2>3, <2>4 DEF Through
    <2>6. Triples(reads) = {<<mixer.id, 1, k - 1>> : k \in 1..nodes}
      BY <2>3, <2>4 DEF Triples
    <2>7. {<<mixer.id, 1, k - 1>> : k \in 1..nodes} = {mixer.id} \X {1} \X (0..(nodes - 1))
      <3>1. \A c \in 0..(nodes - 1) : c + 1 \in 1..nodes /\ (c + 1) - 1 = c
        BY <2>1
      <3>2. \A k \in 1..nodes : k - 1 \in 0..(nodes - 1)
        BY <2>1
      <3>3. \A c \in 0..(nodes - 1) : \E k \in 1..nodes : k - 1 = c
        BY <3>1
      <3>4. QED BY <3>2, <3>3
    <2>8. ReadableOf(ac, mixer) = {mixer.id} \X {1} \X (0..(nodes - 1))
      BY <1>2, <1>5
    <2>9. MixerReads(ac, mixer, interface) = reads
      BY <1>1, <1>5 DEF reads
    <2>10. QED BY <2>4, <2>5, <2>6, <2>7, <2>8, <2>9
  <1>6. QED BY <1>4, <1>5

-----------------------------------------------------------------------------
(* The whole plan.                                                         *)

(* The plan of a dump reads every control that the descriptor declares     *)
(* readable and nothing else, through the one interface.                   *)
THEOREM PlanIsComplete ==
  ASSUME NEW ac \in Seq(EntityType), NEW interface \in Byte
  PROVE  /\ DumpPlan(ac, interface) \in Seq(Reads)
         /\ Through(DumpPlan(ac, interface), interface)
         /\ Triples(DumpPlan(ac, interface)) = Readable(ac)
  <1> DEFINE n == Len(ac)
             Of(k) == IF ac[k].kind \in {"ClockSource", "ClockSelector"} THEN ClockReads(ac[k], interface)
                      ELSE IF ac[k].kind = "Feature" THEN FeatureReads(ac[k], interface)
                      ELSE IF ac[k].kind = "Mixer" THEN MixerReads(ac, ac[k], interface)
                      ELSE << >>
             seqs == [k \in 1..n |-> Of(k)]
  <1>1. n \in Nat /\ DOMAIN ac = 1..n
    OBVIOUS
  <1>2. DumpPlan(ac, interface) = FlattenSeq(seqs)
    BY <1>1 DEF DumpPlan
  <1>3. ASSUME NEW k \in 1..n
        PROVE  /\ Of(k) \in Seq(Reads) /\ Through(Of(k), interface)
               /\ Triples(Of(k)) = ReadableOf(ac, ac[k])
    <2>1. ac[k] \in EntityType
      OBVIOUS
    <2>2. CASE ac[k].kind \in {"ClockSource", "ClockSelector"}
      BY <2>1, <2>2, ClockRead
    <2>3. CASE ac[k].kind = "Feature"
      BY <2>1, <2>3, FeatureReadsAre
    <2>4. CASE ac[k].kind = "Mixer"
      BY <2>1, <2>4, MixerReadsAre
    <2>5. CASE ac[k].kind \notin {"ClockSource", "ClockSelector", "Feature", "Mixer"}
      <3>1. ReadableOf(ac, ac[k]) = {}
        BY <2>5 DEF ReadableOf
      <3>2. Of(k) = << >>
        BY <2>5
      <3>3. QED BY <3>1, <3>2, NoRead
    <2>6. QED BY <2>2, <2>3, <2>4, <2>5
  <1> HIDE DEF Of
  <1>4. seqs \in [1..n -> Seq(Reads)] /\ \A k \in 1..n : seqs[k] = Of(k)
    BY <1>3
  <1> HIDE DEF seqs
  <1>5. \A k \in 1..n : Through(seqs[k], interface)
    BY <1>3, <1>4
  <1>6. /\ FlattenSeq(seqs) \in Seq(Reads) /\ Through(FlattenSeq(seqs), interface)
        /\ Triples(FlattenSeq(seqs)) = UNION {Triples(seqs[k]) : k \in 1..n}
    <2> HIDE DEF n
    <2>1. QED BY <1>1, <1>4, <1>5, FlattenedReads
  <1>7. UNION {Triples(seqs[k]) : k \in 1..n} = Readable(ac)
    <2>1. \A k \in 1..n : Triples(seqs[k]) = ReadableOf(ac, ac[k])
      BY <1>3, <1>4
    <2>2. Readable(ac) = UNION {ReadableOf(ac, ac[k]) : k \in 1..n}
      BY <1>1 DEF Readable
    <2> HIDE DEF n
    <2>3. QED BY <2>1, <2>2
  <1>8. QED BY <1>2, <1>6, <1>7

-----------------------------------------------------------------------------
(* The walk downstream.                                                    *)

Places == [frontier : SUBSET Byte, visited : SUBSET Byte]
IdsOf(ac, ks) == {ac[k].id : k \in ks}

(* What a turn of the walk finds, level by level.                          *)
Reached(ac, at, k) == ac[k].id \notin at.visited /\ AudioSources(ac[k]) \cap at.frontier # {}
LevelAt(ac, at) ==
  {k \in DOMAIN ac : Reached(ac, at, k) /\ \A j \in 1..(k - 1) : Reached(ac, at, j) => ac[j].id # ac[k].id}
HitsAt(ac, at) == {k \in LevelAt(ac, at) : ac[k].kind = "Feature" /\ Declares(ac[k], Volume)}
NextFrontier(ac, at) == IdsOf(ac, {k \in LevelAt(ac, at) \ HitsAt(ac, at) : ac[k].kind # "OutputTerminal"})
NextPlace(ac, at) == [frontier |-> NextFrontier(ac, at), visited |-> at.visited \cup IdsOf(ac, LevelAt(ac, at))]
WalkStep(ac, walk, at) ==
  StopAtNearest(IdsOf(ac, HitsAt(ac, at)), IF NextFrontier(ac, at) = {} THEN {} ELSE walk[NextPlace(ac, at)])

(* Ids are bytes.                                                          *)
LEMMA IdsAreBytes ==
  ASSUME NEW ac \in Seq(EntityType), NEW ks \in SUBSET DOMAIN ac
  PROVE  IdsOf(ac, ks) \in SUBSET Byte
  <1>1. \A k \in DOMAIN ac : ac[k].id \in Byte
    <2>1. DOMAIN ac = 1..Len(ac)
      OBVIOUS
    <2>2. QED BY <2>1, EntityAt
  <1>2. QED BY <1>1 DEF IdsOf

(* The bytes that the walk has not visited are finitely many.              *)
Unvisited(at) == Cardinality(Byte \ at.visited)
LEMMA UnvisitedIs ==
  ASSUME NEW at \in Places
  PROVE  Unvisited(at) \in 0..256
  <1>1. IsFiniteSet(Byte) /\ Cardinality(Byte) = 256
    <2>1. 0 \in Int /\ 255 \in Int
      OBVIOUS
    <2>2. IsFiniteSet(0..255) /\ Cardinality(0..255) = IF 0 > 255 THEN 0 ELSE 255 - 0 + 1
      BY <2>1, FS_Interval
    <2>3. QED BY <2>2 DEF Byte
  <1>2. Byte \ at.visited \in SUBSET Byte
    OBVIOUS
  <1>3. /\ IsFiniteSet(Byte \ at.visited)
        /\ Cardinality(Byte \ at.visited) <= Cardinality(Byte)
    BY <1>1, <1>2, FS_Subset
  <1>4. Cardinality(Byte \ at.visited) \in Nat
    BY <1>3, FS_CardinalityType
  <1>5. QED BY <1>1, <1>3, <1>4 DEF Unvisited

(* A walk that goes on has visited more.                                   *)
LEMMA WalkGoesOn ==
  ASSUME NEW ac \in Seq(EntityType), NEW at \in Places, NextFrontier(ac, at) # {}
  PROVE  /\ NextPlace(ac, at) \in Places
         /\ Unvisited(NextPlace(ac, at)) < Unvisited(at)
  <1> DEFINE next == NextPlace(ac, at)
             more == IdsOf(ac, LevelAt(ac, at))
  <1>1. LevelAt(ac, at) \in SUBSET DOMAIN ac
    BY DEF LevelAt
  <1>2. {k \in LevelAt(ac, at) \ HitsAt(ac, at) : ac[k].kind # "OutputTerminal"} \in SUBSET DOMAIN ac
    BY <1>1
  <1>3. more \in SUBSET Byte /\ NextFrontier(ac, at) \in SUBSET Byte
    BY <1>1, <1>2, IdsAreBytes DEF NextFrontier
  <1>4. at.visited \in SUBSET Byte
    BY DEF Places
  <1>5. next.visited = at.visited \cup more /\ next \in Places
    BY <1>3, <1>4 DEF NextPlace, Places
  <1>6. PICK id \in more : id \notin at.visited
    <2>1. PICK k \in LevelAt(ac, at) : TRUE
      BY DEF NextFrontier, IdsOf
    <2>2. ac[k].id \in more /\ ac[k].id \notin at.visited
      BY <2>1 DEF LevelAt, Reached, IdsOf
    <2>3. QED BY <2>2
  <1> HIDE DEF more, next
  <1>7. Byte \ next.visited \in SUBSET (Byte \ at.visited) /\ Byte \ next.visited # Byte \ at.visited
    BY <1>3, <1>5, <1>6
  <1>8. Unvisited(at) \in Nat /\ Unvisited(next) \in Nat
    <2>1. next \in Places /\ at \in Places
      BY <1>5
    <2>2. Unvisited(at) \in 0..256 /\ Unvisited(next) \in 0..256
      BY <2>1, UnvisitedIs
    <2>3. \A x \in 0..256 : x \in Nat
      OBVIOUS
    <2>4. QED BY <2>2, <2>3
  <1>9. IsFiniteSet(Byte \ at.visited)
    <2>0. 0 \in Int /\ 255 \in Int
      OBVIOUS
    <2>1. IsFiniteSet(0..255)
      BY <2>0, FS_Interval
    <2>2. Byte \ at.visited \in SUBSET (0..255)
      BY DEF Byte
    <2>3. QED BY <2>1, <2>2, FS_Subset
  <1>10. /\ Unvisited(next) <= Unvisited(at)
         /\ Unvisited(at) = Unvisited(next) => Byte \ at.visited = Byte \ next.visited
    BY <1>7, <1>9, FS_Subset DEF Unvisited
  <1>11. QED BY <1>5, <1>7, <1>8, <1>10 DEF next

(* How the walk comes about.                                               *)
LEMMA WalkTurn ==
  ASSUME NEW ac \in Seq(EntityType), NEW mixer
  PROVE  \E walk :
           /\ \A at \in Places : walk[at] = WalkStep(ac, walk, at)
           /\ WalkFrom(ac, mixer) = walk[[frontier |-> {mixer.id}, visited |-> {mixer.id}]]
  <1> DEFINE D == Places
             R == SUBSET Byte
             n == 256
             Body(f, at) ==
               LET Fed(k)  == ac[k].id \notin at.visited /\ AudioSources(ac[k]) \cap at.frontier # {}
                   level   == {k \in DOMAIN ac : Fed(k) /\ \A j \in 1..(k - 1) : Fed(j) => ac[j].id # ac[k].id}
                   hits    == {k \in level : ac[k].kind = "Feature" /\ Declares(ac[k], Volume)}
                   Ids(ks) == {ac[k].id : k \in ks}
                   next    == Ids({k \in level \ hits : ac[k].kind # "OutputTerminal"})
               IN StopAtNearest(Ids(hits),
                    IF next = {} THEN {} ELSE f[[frontier |-> next, visited |-> at.visited \cup Ids(level)]])
             Solves(f) == f = [at \in D |-> Body(f, at)]
             walk == CHOOSE f : Solves(f)
             rank == [at \in D |-> Unvisited(at)]
             step == [z \in D \X [D -> R] |-> Body(z[2], z[1])]
  <1>1. WalkFrom(ac, mixer) = walk[[frontier |-> {mixer.id}, visited |-> {mixer.id}]]
    BY DEF WalkFrom, Places
  <1>2. \A f, at : Body(f, at) = WalkStep(ac, f, at)
    BY DEF WalkStep, NextPlace, NextFrontier, HitsAt, LevelAt, Reached, IdsOf
  <1> HIDE DEF Body
  <1>3. \A f \in [D -> R] : \A at \in D : Body(f, at) \in R
    <2>1. ASSUME NEW f \in [D -> R], NEW at \in D
          PROVE  WalkStep(ac, f, at) \in R
      <3>1. HitsAt(ac, at) \in SUBSET DOMAIN ac
        BY DEF HitsAt, LevelAt
      <3>2. IdsOf(ac, HitsAt(ac, at)) \in R
        BY <3>1, IdsAreBytes
      <3>3. NextFrontier(ac, at) # {} => f[NextPlace(ac, at)] \in R
        BY WalkGoesOn
      <3>4. QED BY <3>2, <3>3 DEF WalkStep, StopAtNearest
    <2>2. QED BY <1>2, <2>1
  <1>4. rank \in [D -> 0..n] /\ n \in Nat
    BY UnvisitedIs
  <1>5. step \in [D \X [D -> R] -> R] /\ {} \in R
    <2> HIDE DEF D, R
    <2>1. {} \in R
      BY DEF R
    <2>2. QED BY <1>3, <2>1
  <1>6. Local(D, R, rank, step)
    <2>1. ASSUME NEW at \in D, NEW f \in [D -> R], NEW g \in [D -> R],
                 \A y \in D : rank[y] < rank[at] => f[y] = g[y]
          PROVE  step[<<at, f>>] = step[<<at, g>>]
      <3>1. NextFrontier(ac, at) # {} => f[NextPlace(ac, at)] = g[NextPlace(ac, at)]
        <4>1. NextFrontier(ac, at) # {} =>
                NextPlace(ac, at) \in D /\ rank[NextPlace(ac, at)] < rank[at]
          BY WalkGoesOn
        <4>2. QED BY <2>1, <4>1
      <3>2. WalkStep(ac, f, at) = WalkStep(ac, g, at)
        BY <3>1 DEF WalkStep
      <3>3. Body(f, at) = Body(g, at)
        BY <1>2, <3>2
      <3> HIDE DEF D, R
      <3>4. QED BY <3>3
    <2>2. QED BY <2>1 DEF Local
  <1>7. Solvable(D, R, step)
    <2> DEFINE r == {}
    <2>1. r \in R
      BY <1>5
    <2> HIDE DEF D, R, rank, step, n, r
    <2>2. QED BY <1>4, <1>5, <1>6, <2>1, Recursion
  <1>8. \E f : Solves(f)
    <2>1. PICK f \in [D -> R] : f = [at \in D |-> step[<<at, f>>]]
      BY <1>7 DEF Solvable
    <2>2. \A at \in D : step[<<at, f>>] = Body(f, at)
      BY <2>1
    <2> HIDE DEF step
    <2>3. f = [at \in D |-> Body(f, at)]
      BY <2>1, <2>2
    <2>4. QED BY <2>3
  <1>9. Solves(walk)
    <2> HIDE DEF Solves
    <2>1. QED BY <1>8
  <1> HIDE DEF walk
  <1>10. \A at \in D : walk[at] = Body(walk, at)
    BY <1>9
  <1>11. QED BY <1>1, <1>2, <1>10

(* The levels downstream.                                                  *)
LEMMA DownstreamTurn ==
  ASSUME NEW ac \in Seq(EntityType), NEW m \in DOMAIN ac
  PROVE  /\ \A k \in 0..Len(ac) : Downstream(ac, m)[k] \subseteq DOMAIN ac
         /\ Downstream(ac, m)[0] = {m}
         /\ \A k \in 0..Len(ac) : k # 0 =>
              Downstream(ac, m)[k] = UNION {FedBy(ac, a) : a \in Downstream(ac, m)[k - 1]}
  <1> DEFINE n == Len(ac)
             D == 0..n
             R == SUBSET DOMAIN ac
             Body(f, k) == IF k = 0 THEN {m} ELSE UNION {FedBy(ac, a) : a \in f[k - 1]}
             Solves(f) == f = [k \in D |-> Body(f, k)]
             at == Downstream(ac, m)
             rank == [k \in D |-> k]
             step == [z \in D \X [D -> R] |-> Body(z[2], z[1])]
  <1>1. n \in Nat /\ at = CHOOSE f : Solves(f)
    BY DEF Downstream
  <1>2. \A a : FedBy(ac, a) \in R
    BY DEF FedBy
  <1>3. \A f, k : Body(f, k) \in R
    BY <1>2
  <1>4. rank \in [D -> 0..n] /\ step \in [D \X [D -> R] -> R] /\ {} \in R
    <2> HIDE DEF Body, R
    <2>1. {} \in R
      BY DEF R
    <2>2. QED BY <1>3, <2>1
  <1>5. Local(D, R, rank, step)
    <2>1. ASSUME NEW k \in D, NEW f \in [D -> R], NEW g \in [D -> R],
                 \A y \in D : rank[y] < rank[k] => f[y] = g[y]
          PROVE  step[<<k, f>>] = step[<<k, g>>]
      <3>1. k # 0 => f[k - 1] = g[k - 1]
        <4>1. k # 0 => k - 1 \in D /\ rank[k - 1] < rank[k]
          OBVIOUS
        <4>2. QED BY <2>1, <4>1
      <3>2. Body(f, k) = Body(g, k)
        BY <3>1
      <3> HIDE DEF Body
      <3>3. QED BY <3>2
    <2>2. QED BY <2>1 DEF Local
  <1> HIDE DEF Body
  <1>6. Solvable(D, R, step)
    <2> DEFINE r == {}
    <2>1. r \in R
      BY <1>4
    <2> HIDE DEF D, R, rank, step, n, r
    <2>2. QED BY <1>1, <1>4, <1>5, <2>1, Recursion
  <1>7. \E f : Solves(f)
    <2>1. PICK f \in [D -> R] : f = [k \in D |-> step[<<k, f>>]]
      BY <1>6 DEF Solvable
    <2>2. \A k \in D : step[<<k, f>>] = Body(f, k)
      BY <2>1
    <2> HIDE DEF step
    <2>3. f = [k \in D |-> Body(f, k)]
      BY <2>1, <2>2
    <2>4. QED BY <2>3
  <1>8. Solves(at)
    <2> HIDE DEF Solves, at
    <2>1. QED BY <1>1, <1>7
  <1> HIDE DEF at
  <1>9. \A k \in D : at[k] = Body(at, k)
    BY <1>8
  <1>10. 0 \in D
    BY <1>1
  <1>11. \A k \in D : at[k] \in R
    BY <1>3, <1>9
  <1>12. QED BY <1>9, <1>10, <1>11 DEF at, Body

(* What is at most k steps downstream, and what is first met at step k.    *)
Within(ac, m, k) == UNION {Downstream(ac, m)[j] : j \in 0..k}
Newly(ac, m, k) == {b \in Downstream(ac, m)[k] : \A j \in 0..(k - 1) : b \notin Downstream(ac, m)[j]}
Feeding(ac, ks) == IdsOf(ac, {b \in ks : ac[b].kind # "OutputTerminal"})

(* The walk has made k steps and met no volume unit.                       *)
Walked(ac, m, at, k) ==
  /\ k \in 0..Len(ac) /\ at \in Places
  /\ at.visited = IdsOf(ac, Within(ac, m, k))
  /\ at.frontier = Feeding(ac, Newly(ac, m, k))
  /\ \A j \in 0..k : Downstream(ac, m)[j] \cap VolumeUnits(ac) = {}
  /\ Cardinality(Within(ac, m, k)) >= k + 1

(* The volume units that are still ahead after k steps.                    *)
UnitsAhead(ac, m, k) ==
  {u \in VolumeUnits(ac) : \E n \in (k + 1)..Len(ac) :
      /\ u \in Downstream(ac, m)[n]
      /\ \A j \in 1..(n - 1) : Downstream(ac, m)[j] \cap VolumeUnits(ac) = {}}

(* With ids of their own, the ids of a set tell who is in it.              *)
LEMMA IdTells ==
  ASSUME NEW ac, DistinctIds(ac), NEW ks \in SUBSET DOMAIN ac, NEW b \in DOMAIN ac
  PROVE  ac[b].id \in IdsOf(ac, ks) <=> b \in ks
  BY DEF DistinctIds, IdsOf

(* There is room for another step, and what is within reach grows by what  *)
(* is newly met.                                                           *)
LEMMA WithinGrows ==
  ASSUME NEW ac \in Seq(EntityType), NEW m \in DOMAIN ac, NEW k \in Nat, k + 1 \in 0..Len(ac)
  PROVE  /\ Within(ac, m, k + 1) = Within(ac, m, k) \cup Newly(ac, m, k + 1)
         /\ Within(ac, m, k) \cap Newly(ac, m, k + 1) = {}
         /\ Within(ac, m, k + 1) \in SUBSET DOMAIN ac
  <1> DEFINE D(j) == Downstream(ac, m)[j]
             n == Len(ac)
  <1>1. n \in Nat /\ \A j \in 0..n : D(j) \subseteq DOMAIN ac
    BY DownstreamTurn
  <1> HIDE DEF D, n
  <1>2. 0..(k + 1) = 0..k \cup {k + 1} /\ (k + 1) - 1 = k /\ 0..(k + 1) \subseteq 0..n
    BY <1>1 DEF n
  <1>3. Within(ac, m, k + 1) = Within(ac, m, k) \cup D(k + 1)
    BY <1>2 DEF Within, D
  <1>4. Newly(ac, m, k + 1) = {b \in D(k + 1) : \A j \in 0..k : b \notin D(j)}
    BY <1>2 DEF Newly, D
  <1>5. Within(ac, m, k) = UNION {D(j) : j \in 0..k}
    BY DEF Within, D
  <1>6. Newly(ac, m, k + 1) = D(k + 1) \ Within(ac, m, k)
    BY <1>4, <1>5
  <1>7. Within(ac, m, k + 1) \in SUBSET DOMAIN ac
    BY <1>1, <1>2 DEF Within, D
  <1>8. QED BY <1>3, <1>6, <1>7

(* So many entities have been met that there are as many steps left.       *)
LEMMA RoomAhead ==
  ASSUME NEW ac \in Seq(EntityType), NEW m \in DOMAIN ac, NEW at, NEW k, Walked(ac, m, at, k)
  PROVE  k \in Nat /\ k + 1 \in 0..Len(ac)
  <1> DEFINE n == Len(ac)
             within == Within(ac, m, k)
  <1>1. n \in Nat /\ DOMAIN ac = 1..n /\ k \in 0..n /\ Cardinality(within) >= k + 1
    BY DEF Walked
  <1>2. within \in SUBSET (1..n)
    <2>1. \A j \in 0..k : j \in 0..n
      BY <1>1
    <2>2. QED BY <1>1, <2>1, DownstreamTurn DEF Within
  <1> HIDE DEF n, within
  <1>3. IsFiniteSet(1..n) /\ Cardinality(1..n) = n
    <2>1. 1 \in Int /\ n \in Int
      BY <1>1
    <2>2. IsFiniteSet(1..n) /\ Cardinality(1..n) = IF 1 > n THEN 0 ELSE n - 1 + 1
      BY <2>1, FS_Interval
    <2>3. QED BY <1>1, <2>2
  <1>4. IsFiniteSet(within) /\ Cardinality(within) <= n
    BY <1>2, <1>3, FS_Subset
  <1>5. Cardinality(within) \in Nat
    BY <1>4, FS_CardinalityType
  <1>6. QED BY <1>1, <1>4, <1>5 DEF n

(* The turn after k steps meets what is newly met at the next.             *)
LEMMA LevelIs ==
  ASSUME NEW ac \in Seq(EntityType), DistinctIds(ac), NEW m \in DOMAIN ac,
         NEW at, NEW k, Walked(ac, m, at, k)
  PROVE  LevelAt(ac, at) = Newly(ac, m, k + 1)
  <1> DEFINE D(j) == Downstream(ac, m)[j]
             n == Len(ac)
  <1>1. k \in Nat /\ k + 1 \in 0..n /\ n \in Nat
    BY RoomAhead
  <1>2. /\ \A j \in 0..n : D(j) \subseteq DOMAIN ac
        /\ \A j \in 0..n : j # 0 => D(j) = UNION {FedBy(ac, a) : a \in D(j - 1)}
    BY DownstreamTurn
  <1> HIDE DEF D, n
  <1>3. /\ Within(ac, m, k) \in SUBSET DOMAIN ac
        /\ Within(ac, m, k) = UNION {D(j) : j \in 0..k}
    <2>1. Within(ac, m, k) = UNION {D(j) : j \in 0..k} /\ 0..k \subseteq 0..n
      BY <1>1 DEF Within, D
    <2>2. QED BY <1>2, <2>1
  <1>4. Newly(ac, m, k + 1) = {b \in D(k + 1) : b \notin Within(ac, m, k)}
    <2>1. (k + 1) - 1 = k
      BY <1>1
    <2>2. QED BY <1>3, <2>1 DEF Newly, D
  <1>5. Newly(ac, m, k) = {b \in D(k) : \A j \in 0..(k - 1) : b \notin D(j)}
    BY DEF Newly, D
  <1>6. D(k + 1) = UNION {FedBy(ac, a) : a \in D(k)}
    <2>1. k + 1 # 0 /\ (k + 1) - 1 = k
      BY <1>1
    <2>2. QED BY <1>1, <1>2, <2>1
  <1>7. ASSUME NEW b \in DOMAIN ac
        PROVE  Reached(ac, at, b) <=> b \in Newly(ac, m, k + 1)
    <2>1. ac[b].id \notin at.visited <=> b \notin Within(ac, m, k)
      BY <1>3, IdTells DEF Walked
    <2>2. AudioSources(ac[b]) \cap at.frontier # {} <=> \E a \in Newly(ac, m, k) : b \in FedBy(ac, a)
      BY DEF Walked, Feeding, IdsOf, FedBy
    <2>3. ASSUME NEW a \in D(k), b \in FedBy(ac, a), b \notin Within(ac, m, k)
          PROVE  a \in Newly(ac, m, k)
      <3>1. ASSUME NEW j \in 0..(k - 1), a \in D(j)
            PROVE  FALSE
        <4>1. j + 1 \in 0..k /\ j + 1 \in 0..n /\ j + 1 # 0 /\ (j + 1) - 1 = j
          BY <1>1
        <4>2. D(j + 1) = UNION {FedBy(ac, c) : c \in D(j)}
          BY <1>2, <4>1
        <4>3. b \in D(j + 1)
          BY <2>3, <3>1, <4>2
        <4>4. QED BY <1>3, <2>3, <4>1, <4>3
      <3>2. QED BY <1>5, <2>3, <3>1
    <2>4. b \in D(k + 1) <=> \E a \in D(k) : b \in FedBy(ac, a)
      BY <1>6
    <2>5. Newly(ac, m, k) \subseteq D(k)
      BY <1>5
    <2>6. QED BY <1>4, <2>1, <2>2, <2>3, <2>4, <2>5 DEF Reached
  <1>8. Newly(ac, m, k + 1) \subseteq DOMAIN ac
    BY <1>1, <1>2, <1>4
  <1>9. \A b \in DOMAIN ac : \A j \in 1..(b - 1) : j \in DOMAIN ac /\ ac[j].id # ac[b].id
    <2>1. DOMAIN ac = 1..n /\ n \in Nat
      BY <1>1 DEF n
    <2>2. \A b \in DOMAIN ac : \A j \in 1..(b - 1) : j \in DOMAIN ac /\ j # b
      BY <2>1
    <2>3. QED BY <2>2 DEF DistinctIds
  <1>10. LevelAt(ac, at) = {b \in DOMAIN ac : Reached(ac, at, b)}
    BY <1>9 DEF LevelAt
  <1>11. QED BY <1>7, <1>8, <1>10

(* The walk starts at the mixer.                                           *)
Start0(mixer) == [frontier |-> {mixer.id}, visited |-> {mixer.id}]
LEMMA WalkStarts ==
  ASSUME NEW ac \in Seq(EntityType), NEW m \in DOMAIN ac, ac[m].kind = "Mixer"
  PROVE  Walked(ac, m, Start0(ac[m]), 0)
  <1> DEFINE D(j) == Downstream(ac, m)[j]
  <1>1. D(0) = {m} /\ Len(ac) \in Nat
    BY DownstreamTurn
  <1> HIDE DEF D
  <1>2. 0..0 = {0} /\ 0..(0 - 1) = {} /\ 0 \in 0..Len(ac)
    BY <1>1
  <1>3. Within(ac, m, 0) = {m}
    BY <1>1, <1>2 DEF Within, D
  <1>4. Newly(ac, m, 0) = {m}
    BY <1>1, <1>2 DEF Newly, D
  <1>5. IdsOf(ac, Within(ac, m, 0)) = {ac[m].id}
    BY <1>3 DEF IdsOf
  <1>6. Feeding(ac, Newly(ac, m, 0)) = {ac[m].id}
    <2>1. {b \in {m} : ac[b].kind # "OutputTerminal"} = {m}
      OBVIOUS
    <2>2. QED BY <1>4, <2>1 DEF Feeding, IdsOf
  <1>7. \A j \in 0..0 : D(j) \cap VolumeUnits(ac) = {}
    BY <1>1, <1>2 DEF VolumeUnits
  <1>8. Cardinality(Within(ac, m, 0)) >= 0 + 1
    <2>1. Cardinality({m}) = 1
      BY FS_Singleton
    <2>2. \A x : x = 1 => x >= 0 + 1
      OBVIOUS
    <2>3. QED BY <1>3, <2>1, <2>2
  <1>9. Start0(ac[m]) \in Places
    <2>1. DOMAIN ac = 1..Len(ac)
      OBVIOUS
    <2>2. ac[m].id \in Byte
      BY <2>1, EntityAt
    <2>3. QED BY <2>2 DEF Start0, Places
  <1>10. Start0(ac[m]).visited = {ac[m].id} /\ Start0(ac[m]).frontier = {ac[m].id}
    BY DEF Start0
  <1>11. QED BY <1>2, <1>5, <1>6, <1>7, <1>8, <1>9, <1>10 DEF Walked, D

(* A turn without a hit is another step of the walk.                       *)
LEMMA WalkedOn ==
  ASSUME NEW ac \in Seq(EntityType), DistinctIds(ac), NEW m \in DOMAIN ac,
         NEW at, NEW k, Walked(ac, m, at, k),
         Downstream(ac, m)[k + 1] \cap VolumeUnits(ac) = {}, NextFrontier(ac, at) # {}
  PROVE  Walked(ac, m, NextPlace(ac, at), k + 1)
  <1> DEFINE D(j) == Downstream(ac, m)[j]
             new == Newly(ac, m, k + 1)
             next == NextPlace(ac, at)
  <1>1. k \in Nat /\ k + 1 \in 0..Len(ac)
    BY RoomAhead
  <1>2. LevelAt(ac, at) = new
    BY LevelIs
  <1>3. /\ Within(ac, m, k + 1) = Within(ac, m, k) \cup new
        /\ Within(ac, m, k) \cap new = {}
        /\ Within(ac, m, k + 1) \in SUBSET DOMAIN ac
    BY <1>1, WithinGrows
  <1>4. new \subseteq D(k + 1)
    BY DEF Newly
  <1>5. HitsAt(ac, at) = {}
    <2>1. HitsAt(ac, at) \subseteq VolumeUnits(ac)
      BY DEF HitsAt, LevelAt, VolumeUnits
    <2>2. HitsAt(ac, at) \subseteq new
      BY <1>2 DEF HitsAt
    <2>3. QED BY <1>4, <2>1, <2>2
  <1> HIDE DEF new, next, D
  <1>6. NextFrontier(ac, at) = Feeding(ac, new)
    BY <1>2, <1>5 DEF NextFrontier, Feeding
  <1>7. next.visited = IdsOf(ac, Within(ac, m, k + 1))
    <2>1. next.visited = at.visited \cup IdsOf(ac, new)
      BY <1>2 DEF next, NextPlace
    <2>2. at.visited = IdsOf(ac, Within(ac, m, k))
      BY DEF Walked
    <2>3. QED BY <1>3, <2>1, <2>2 DEF IdsOf
  <1>8. next.frontier = Feeding(ac, new)
    BY <1>6 DEF next, NextPlace
  <1>9. next \in Places
    BY WalkGoesOn DEF Walked, next
  <1>10. \A j \in 0..(k + 1) : D(j) \cap VolumeUnits(ac) = {}
    <2>1. \A j \in 0..(k + 1) : j \in 0..k \/ j = k + 1
      BY <1>1
    <2>2. QED BY <2>1 DEF Walked, D
  <1>11. Cardinality(Within(ac, m, k + 1)) >= (k + 1) + 1
    <2> DEFINE old == Within(ac, m, k)
               all == Within(ac, m, k + 1)
    <2>1. IsFiniteSet(DOMAIN ac)
      <3>1. DOMAIN ac = 1..Len(ac) /\ 1 \in Int /\ Len(ac) \in Int
        OBVIOUS
      <3>2. QED BY <3>1, FS_Interval
    <2>2. IsFiniteSet(all)
      BY <1>3, <2>1, FS_Subset
    <2>3. old \in SUBSET all /\ old # all
      <3>1. new # {}
        BY <1>6 DEF Feeding, IdsOf
      <3>2. QED BY <1>3, <3>1
    <2> HIDE DEF old, all
    <2>4. IsFiniteSet(old) /\ Cardinality(old) <= Cardinality(all) /\ Cardinality(old) # Cardinality(all)
      BY <2>2, <2>3, FS_Subset
    <2>5. Cardinality(old) \in Nat /\ Cardinality(all) \in Nat
      BY <2>2, <2>4, FS_CardinalityType
    <2>6. Cardinality(old) >= k + 1
      BY DEF Walked, old
    <2>7. QED BY <1>1, <2>4, <2>5, <2>6 DEF all
  <1>12. QED BY <1>1, <1>7, <1>8, <1>9, <1>10, <1>11 DEF Walked, new, next, D

(* Where the walk ends without a hit, nothing else is downstream.          *)
LEMMA NothingBeyond ==
  ASSUME NEW ac \in Seq(EntityType), NEW m \in DOMAIN ac, NEW k \in Nat, k + 1 \in 0..Len(ac),
         \A b \in Newly(ac, m, k + 1) : ac[b].kind = "OutputTerminal"
  PROVE  \A l \in 0..Len(ac) : Downstream(ac, m)[l] \subseteq Within(ac, m, k + 1)
  <1> DEFINE D(j) == Downstream(ac, m)[j]
             n == Len(ac)
             all == Within(ac, m, k + 1)
             S == {l \in Nat : l <= n => D(l) \subseteq all}
  <1>1. n \in Nat /\ \A j \in 0..n : j # 0 => D(j) = UNION {FedBy(ac, a) : a \in D(j - 1)}
    BY DownstreamTurn
  <1>2. all = Within(ac, m, k) \cup Newly(ac, m, k + 1)
    BY WithinGrows
  <1>3. all = UNION {D(j) : j \in 0..(k + 1)} /\ Within(ac, m, k) = UNION {D(j) : j \in 0..k}
    BY DEF Within
  <1>4. k \in Nat /\ k + 1 \in 0..n
    OBVIOUS
  <1> HIDE DEF D, n, all
  <1>5. 0 \in S
    <2>1. 0 \in 0..(k + 1)
      BY <1>4
    <2>2. D(0) \subseteq all
      BY <1>3, <2>1
    <2>3. QED BY <2>2
  <1>6. ASSUME NEW l \in Nat, l \in S
        PROVE  l + 1 \in S
    <2> SUFFICES ASSUME l + 1 <= n, NEW b \in D(l + 1) PROVE b \in all
      BY <1>6
    <2>1. l <= n /\ l + 1 \in 0..n /\ l + 1 # 0 /\ (l + 1) - 1 = l
      BY <1>1, <1>6
    <2>2. D(l + 1) = UNION {FedBy(ac, a) : a \in D(l)}
      BY <1>1, <2>1
    <2>3. PICK a \in D(l) : b \in FedBy(ac, a)
      BY <2>2
    <2>4. a \in all /\ ac[a].kind # "OutputTerminal"
      BY <1>6, <2>1, <2>3 DEF FedBy
    <2>5. PICK j \in 0..k : a \in D(j)
      BY <1>2, <1>3, <2>4
    <2>6. j + 1 \in 0..n /\ j + 1 \in 0..(k + 1) /\ j + 1 # 0 /\ (j + 1) - 1 = j
      BY <1>1, <1>4
    <2>7. D(j + 1) = UNION {FedBy(ac, c) : c \in D(j)}
      BY <1>1, <2>6
    <2>8. b \in D(j + 1)
      BY <2>3, <2>5, <2>7
    <2>9. QED BY <1>3, <2>6, <2>8
  <1>7. Nat \subseteq S
    <2> HIDE DEF S
    <2>1. QED BY <1>5, <1>6, SetInduction
  <1>8. \A l \in 0..n : l \in Nat /\ l <= n
    BY <1>1
  <1>9. QED BY <1>7, <1>8 DEF D, n, all

(* From any place of it, the walk finds the units that are nearest ahead.  *)
LEMMA WalkFindsAhead ==
  ASSUME NEW ac \in Seq(EntityType), DistinctIds(ac), NEW m \in DOMAIN ac,
         NEW walk, \A at \in Places : walk[at] = WalkStep(ac, walk, at)
  PROVE  \A at \in Places : \A k : Walked(ac, m, at, k) => walk[at] = IdsOf(ac, UnitsAhead(ac, m, k))
  <1> DEFINE D(j) == Downstream(ac, m)[j]
             V == VolumeUnits(ac)
             n == Len(ac)
             Finds(at) == \A k : Walked(ac, m, at, k) => walk[at] = IdsOf(ac, UnitsAhead(ac, m, k))
             S == {at \in Places : Finds(at)}
             rank == [at \in Places |-> Unvisited(at)]
  <1>1. ASSUME NEW at \in Places, NEW k, Walked(ac, m, at, k),
               NextFrontier(ac, at) # {} => Finds(NextPlace(ac, at))
        PROVE  walk[at] = IdsOf(ac, UnitsAhead(ac, m, k))
    <2> DEFINE new == Newly(ac, m, k + 1)
    <2>1. k \in Nat /\ k + 1 \in 0..n /\ n \in Nat
      BY <1>1, RoomAhead
    <2>2. LevelAt(ac, at) = new
      BY <1>1, LevelIs
    <2>3. \A j \in 0..k : D(j) \cap V = {}
      BY <1>1 DEF Walked
    <2>4. walk[at] = WalkStep(ac, walk, at)
      OBVIOUS
    <2>5. /\ Within(ac, m, k + 1) = Within(ac, m, k) \cup new
          /\ Within(ac, m, k + 1) \in SUBSET DOMAIN ac
      BY <2>1, WithinGrows
    <2>6. Within(ac, m, k) \cap V = {}
      BY <2>3 DEF Within
    <2>7. new \cap V = D(k + 1) \cap V
      <3>1. D(k + 1) \subseteq Within(ac, m, k + 1)
        <4>1. k + 1 \in 0..(k + 1)
          BY <2>1
        <4>2. QED BY <4>1 DEF Within
      <3>2. new \subseteq D(k + 1)
        BY DEF Newly
      <3>3. QED BY <2>5, <2>6, <3>1, <3>2
    <2>8. HitsAt(ac, at) = D(k + 1) \cap V
      <3>1. new \subseteq DOMAIN ac
        BY <2>5
      <3>2. HitsAt(ac, at) = new \cap V
        BY <2>2, <3>1 DEF HitsAt, VolumeUnits
      <3>3. QED BY <2>7, <3>2
    <2>9. UnitsAhead(ac, m, k) = {u \in V : \E l \in (k + 1)..n : u \in D(l) /\ \A j \in 1..(l - 1) : D(j) \cap V = {}}
      BY DEF UnitsAhead
    <2> HIDE DEF new, D, V, n
    <2>10. CASE D(k + 1) \cap V # {}
      <3>1. walk[at] = IdsOf(ac, D(k + 1) \cap V)
        <4>1. IdsOf(ac, HitsAt(ac, at)) # {}
          BY <2>8, <2>10 DEF IdsOf
        <4>2. QED BY <2>4, <2>8, <4>1 DEF WalkStep, StopAtNearest
      <3>2. UnitsAhead(ac, m, k) \subseteq D(k + 1) \cap V
        <4> SUFFICES ASSUME NEW u \in V, NEW l \in (k + 1)..n, u \in D(l),
                            \A j \in 1..(l - 1) : D(j) \cap V = {}
                     PROVE  u \in D(k + 1)
          BY <2>9
        <4>1. l = k + 1 \/ k + 1 \in 1..(l - 1)
          BY <2>1
        <4>2. QED BY <2>10, <4>1
      <3>3. D(k + 1) \cap V \subseteq UnitsAhead(ac, m, k)
        <4>1. k + 1 \in (k + 1)..n /\ (k + 1) - 1 = k /\ 1..k \subseteq 0..k
          BY <2>1
        <4>2. \A j \in 1..((k + 1) - 1) : D(j) \cap V = {}
          BY <2>3, <4>1
        <4>3. QED BY <2>9, <4>1, <4>2
      <3>4. UnitsAhead(ac, m, k) = D(k + 1) \cap V
        BY <3>2, <3>3
      <3>5. QED BY <3>1, <3>4
    <2>11. CASE D(k + 1) \cap V = {} /\ NextFrontier(ac, at) # {}
      <3> DEFINE next == NextPlace(ac, at)
      <3>1. Walked(ac, m, next, k + 1)
        <4>1. Downstream(ac, m)[k + 1] \cap VolumeUnits(ac) = {}
          BY <2>11 DEF D, V
        <4>2. QED BY <1>1, <2>11, <4>1, WalkedOn
      <3>2. walk[next] = IdsOf(ac, UnitsAhead(ac, m, k + 1))
        BY <1>1, <2>11, <3>1
      <3>3. IdsOf(ac, HitsAt(ac, at)) = {}
        BY <2>8, <2>11 DEF IdsOf
      <3>4. walk[at] = walk[next]
        BY <2>4, <2>11, <3>3 DEF WalkStep, StopAtNearest
      <3>5. UnitsAhead(ac, m, k + 1) = UnitsAhead(ac, m, k)
        <4>1. UnitsAhead(ac, m, k + 1) =
                {u \in V : \E l \in (k + 1 + 1)..n : u \in D(l) /\ \A j \in 1..(l - 1) : D(j) \cap V = {}}
          BY DEF UnitsAhead, D, V, n
        <4>2. (k + 1)..n = {k + 1} \cup (k + 1 + 1)..n
          BY <2>1
        <4>3. \A u \in V : u \notin D(k + 1)
          BY <2>11
        <4>4. QED BY <2>9, <4>1, <4>2, <4>3
      <3>6. QED BY <3>2, <3>4, <3>5
    <2>12. CASE D(k + 1) \cap V = {} /\ NextFrontier(ac, at) = {}
      <3>1. IdsOf(ac, HitsAt(ac, at)) = {} /\ HitsAt(ac, at) = {}
        BY <2>8, <2>12 DEF IdsOf
      <3>2. walk[at] = {}
        BY <2>4, <2>12, <3>1 DEF WalkStep, StopAtNearest
      <3>3. \A b \in new : ac[b].kind = "OutputTerminal"
        BY <2>2, <2>12, <3>1 DEF NextFrontier, IdsOf
      <3>4. \A l \in 0..n : D(l) \subseteq Within(ac, m, k + 1)
        BY <2>1, <3>3, NothingBeyond DEF D, n, new
      <3>5. Within(ac, m, k + 1) \cap V = {}
        BY <2>5, <2>6, <2>7, <2>12
      <3>6. UnitsAhead(ac, m, k) = {}
        <4>1. (k + 1)..n \subseteq 0..n
          BY <2>1
        <4>2. \A l \in (k + 1)..n : \A u \in V : u \notin D(l)
          BY <3>4, <3>5, <4>1
        <4>3. QED BY <2>9, <4>2
      <3>7. QED BY <3>2, <3>6 DEF IdsOf
    <2>13. QED BY <2>10, <2>11, <2>12
  <1>2. rank \in [Places -> 0..256]
    BY UnvisitedIs
  <1> HIDE DEF Finds
  <1>3. ASSUME NEW at \in Places, \A y \in Places : rank[y] < rank[at] => y \in S
        PROVE  at \in S
    <2>1. NextFrontier(ac, at) # {} => Finds(NextPlace(ac, at))
      <3>1. NextFrontier(ac, at) # {} =>
              NextPlace(ac, at) \in Places /\ rank[NextPlace(ac, at)] < rank[at]
        BY WalkGoesOn
      <3>2. QED BY <1>3, <3>1
    <2>2. Finds(at)
      BY <1>1, <2>1 DEF Finds
    <2>3. QED BY <2>2
  <1>4. Places \subseteq S
    <2> DEFINE P == Places
               c == 256
    <2>1. c \in Nat /\ rank \in [P -> 0..c]
      BY <1>2
    <2>2. \A at \in P : (\A y \in P : rank[y] < rank[at] => y \in S) => at \in S
      BY <1>3
    <2> HIDE DEF S, rank, P, c
    <2>3. P \subseteq S
      BY <2>1, <2>2, RankInduction
    <2>4. QED BY <2>3 DEF P
  <1>5. QED BY <1>4 DEF Finds

(* From a mixer the walk finds its nearest volume units.                   *)
LEMMA WalkFinds ==
  ASSUME NEW ac \in Seq(EntityType), DistinctIds(ac), NEW m \in DOMAIN ac, ac[m].kind = "Mixer"
  PROVE  WalkFrom(ac, ac[m]) = IdsOf(ac, NearestUnits(ac, m))
  <1>1. PICK walk : /\ \A at \in Places : walk[at] = WalkStep(ac, walk, at)
                    /\ WalkFrom(ac, ac[m]) = walk[Start0(ac[m])]
    BY WalkTurn DEF Start0
  <1>2. Walked(ac, m, Start0(ac[m]), 0)
    BY WalkStarts
  <1>3. Start0(ac[m]) \in Places
    BY <1>2 DEF Walked
  <1>4. walk[Start0(ac[m])] = IdsOf(ac, UnitsAhead(ac, m, 0))
    BY <1>1, <1>2, <1>3, WalkFindsAhead
  <1>5. UnitsAhead(ac, m, 0) = NearestUnits(ac, m)
    <2>1. 0 + 1 = 1
      OBVIOUS
    <2>2. QED BY <2>1 DEF UnitsAhead, NearestUnits
  <1>6. QED BY <1>1, <1>4, <1>5

(* With ids of their own, the code finds one unit if there is one at the   *)
(* mixers' output, and says which of none and several it found otherwise.  *)
LEMMA UnitFound ==
  ASSUME NEW ac \in Seq(EntityType), DistinctIds(ac)
  PROVE  /\ MixerOutputFeatureUnit(ac).err = "none" =>
              /\ MixerOutputFeatureUnit(ac).at \in DOMAIN ac
              /\ OutputUnits(ac) = {MixerOutputFeatureUnit(ac).at}
         /\ MixerOutputFeatureUnit(ac).err = "MixerOutputFeatureUnitMissing" => OutputUnits(ac) = {}
         /\ MixerOutputFeatureUnit(ac).err = "MixerOutputFeatureUnitAmbiguous" => Cardinality(OutputUnits(ac)) > 1
  <1> DEFINE M == {j \in DOMAIN ac : ac[j].kind = "Mixer"}
             found == UNION {WalkFrom(ac, ac[k]) : k \in M}
             id == CHOOSE i \in found : TRUE
             first == Position(ac, id)
             units == OutputUnits(ac)
             unit == MixerOutputFeatureUnit(ac)
  <1>1. \A k \in M : WalkFrom(ac, ac[k]) = IdsOf(ac, NearestUnits(ac, k))
    BY WalkFinds
  <1>2. units = UNION {NearestUnits(ac, k) : k \in M}
    BY DEF OutputUnits
  <1>3. found = IdsOf(ac, units)
    BY <1>1, <1>2 DEF IdsOf
  <1>4. units \in SUBSET DOMAIN ac
    BY <1>2 DEF NearestUnits, VolumeUnits
  <1>5. unit = IF found = {} THEN [err |-> "MixerOutputFeatureUnitMissing", at |-> 0]
               ELSE IF Cardinality(found) > 1 THEN [err |-> "MixerOutputFeatureUnitAmbiguous", at |-> 0]
               ELSE IF first = 0 \/ ac[first].kind # "Feature" THEN [err |-> "UnknownEntity", at |-> 0]
               ELSE [err |-> "none", at |-> first]
    BY DEF MixerOutputFeatureUnit
  <1>6. first \in 0..Len(ac) /\ (first # 0 => ac[first].id = id) /\ DOMAIN ac = 1..Len(ac) /\ Len(ac) \in Nat
    <2>1. DOMAIN ac = 1..Len(ac) /\ Len(ac) \in Nat
      OBVIOUS
    <2> HIDE DEF id
    <2>2. QED BY <2>1, PositionIs
  <1>7. found # {} => id \in found
    OBVIOUS
  <1> HIDE DEF M, found, id, first, units, unit
  <1>8. IsFiniteSet(units) /\ IsFiniteSet(found)
    <2>1. IsFiniteSet(DOMAIN ac)
      <3>1. 1 \in Int /\ Len(ac) \in Int
        BY <1>6
      <3>2. QED BY <1>6, <3>1, FS_Interval
    <2>2. IsFiniteSet(units)
      BY <1>4, <2>1, FS_Subset
    <2>3. IsFiniteSet(0..255)
      <3>1. 0 \in Int /\ 255 \in Int
        OBVIOUS
      <3>2. QED BY <3>1, FS_Interval
    <2>4. found \in SUBSET (0..255)
      BY <1>3, <1>4, IdsAreBytes DEF Byte
    <2>5. QED BY <2>2, <2>3, <2>4, FS_Subset
  <1>9. \A T : IsFiniteSet(T) => /\ Cardinality(T) \in Nat
                                 /\ T = {} <=> Cardinality(T) = 0
                                 /\ (\E x : T = {x}) <=> Cardinality(T) = 1
    BY FS_CardinalityType, FS_EmptySet, FS_Singleton
  <1>10. CASE found = {}
    <2>1. units = {}
      BY <1>3, <1>10 DEF IdsOf
    <2>2. QED BY <1>5, <1>10, <2>1 DEF units, unit
  <1>11. CASE found # {} /\ Cardinality(found) > 1
    <2>1. units # {}
      BY <1>3, <1>11 DEF IdsOf
    <2>2. ~\E x : units = {x}
      <3> SUFFICES ASSUME NEW x, units = {x} PROVE FALSE
        OBVIOUS
      <3>1. found = {ac[x].id}
        BY <1>3 DEF IdsOf
      <3>2. Cardinality(found) = 1
        BY <1>8, <1>9, <3>1
      <3>3. QED BY <1>11, <3>2
    <2>3. Cardinality(units) > 1
      <3> DEFINE c == Cardinality(units)
      <3>1. c \in Nat /\ c # 0 /\ c # 1
        BY <1>8, <1>9, <2>1, <2>2
      <3> HIDE DEF c
      <3>2. c > 1
        BY <3>1
      <3>3. QED BY <3>2 DEF c
    <2>4. QED BY <1>5, <1>11, <2>3 DEF units, unit
  <1>12. CASE found # {} /\ ~(Cardinality(found) > 1)
    <2>1. \E x : found = {x}
      <3> DEFINE c == Cardinality(found)
      <3>1. c \in Nat /\ c # 0
        BY <1>8, <1>9, <1>12
      <3>2. ~(c > 1)
        BY <1>12
      <3> HIDE DEF c
      <3>3. c = 1
        BY <3>1, <3>2
      <3>4. QED BY <1>8, <1>9, <3>3 DEF c
    <2>2. found = {id}
      BY <1>7, <1>12, <2>1
    <2>3. ASSUME unit.err = "none"
          PROVE  unit.at \in DOMAIN ac /\ units = {unit.at}
      <3>1. unit.at = first /\ first # 0
        BY <1>5, <1>12, <2>3
      <3>2. first \in DOMAIN ac /\ ac[first].id = id
        BY <1>6, <3>1
      <3>3. \A u \in units : ac[u].id = id
        BY <1>3, <2>2 DEF IdsOf
      <3>4. \A u \in units : u = first
        BY <1>4, <3>2, <3>3 DEF DistinctIds
      <3>5. units # {}
        BY <1>3, <2>2 DEF IdsOf
      <3>6. QED BY <3>1, <3>2, <3>4, <3>5
    <2>4. unit.err \in {"UnknownEntity", "none"}
      BY <1>5, <1>12
    <2>5. QED BY <2>3, <2>4 DEF units, unit
  <1>13. QED BY <1>10, <1>11, <1>12
=============================================================================

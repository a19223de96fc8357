----------------------------- MODULE Id14ctlProofs -----------------------------
(***************************************************************************)
(* Theorems about id14ctl, for every set of invocations, commands, devices *)
(* and faults.                                                             *)
(***************************************************************************)
EXTENDS Id14ctlInv, DescriptorProofs

(* The eight bytes of a request.                                           *)
LEMMA PacketBytes ==
  ASSUME NEW packet
  PROVE  LET bytes == ToBytes(packet)
         IN /\ bytes[1] = BmRequestType(packet.attribute)
            /\ bytes[3] = WValue(packet.address) % 256
            /\ bytes[4] = WValue(packet.address) \div 256
            /\ bytes[5] = WIndex(packet.address) % 256
            /\ bytes[6] = WIndex(packet.address) \div 256
            /\ bytes[7] = packet.length % 256
            /\ bytes[8] = packet.length \div 256
  <1> DEFINE a == <<BmRequestType(packet.attribute), BRequest(packet.attribute)>>
             b == Le16(WValue(packet.address))
             c == Le16(WIndex(packet.address))
             d == Le16(packet.length)
             S == {a[1], a[2], b[1], b[2], c[1], c[2], d[1], d[2]}
  <1>1. /\ a \in Seq(S) /\ b \in Seq(S) /\ c \in Seq(S) /\ d \in Seq(S)
        /\ Len(a) = 2 /\ Len(b) = 2 /\ Len(c) = 2 /\ Len(d) = 2
    BY DEF Le16
  <1>2. ToBytes(packet) = ((a \o b) \o c) \o d
    BY DEF ToBytes
  <1>3. /\ a[1] = BmRequestType(packet.attribute)
        /\ b[1] = WValue(packet.address) % 256 /\ b[2] = WValue(packet.address) \div 256
        /\ c[1] = WIndex(packet.address) % 256 /\ c[2] = WIndex(packet.address) \div 256
        /\ d[1] = packet.length % 256 /\ d[2] = packet.length \div 256
    BY DEF Le16
  <1> HIDE DEF a, b, c, d, S
  <1> DEFINE e == a \o b
             f == e \o c
             g == f \o d
  <1>4. /\ e \in Seq(S) /\ Len(e) = Len(a) + Len(b)
        /\ \A i \in 1..(Len(a) + Len(b)) : e[i] = IF i <= Len(a) THEN a[i] ELSE b[i - Len(a)]
    BY <1>1, ConcatProperties
  <1> HIDE DEF e
  <1>5. e \in Seq(S) /\ c \in Seq(S) /\ Len(e) = 4 /\ e[1] = a[1] /\ e[3] = b[1] /\ e[4] = b[2]
    BY <1>1, <1>4
  <1>6. /\ f \in Seq(S) /\ Len(f) = Len(e) + Len(c)
        /\ \A i \in 1..(Len(e) + Len(c)) : f[i] = IF i <= Len(e) THEN e[i] ELSE c[i - Len(e)]
    BY <1>5, ConcatProperties
  <1> HIDE DEF f
  <1>7. f \in Seq(S) /\ d \in Seq(S) /\ Len(f) = 6 /\ f[1] = e[1] /\ f[3] = e[3] /\ f[4] = e[4]
        /\ f[5] = c[1] /\ f[6] = c[2]
    BY <1>1, <1>5, <1>6
  <1>8. \A i \in 1..(Len(f) + Len(d)) : g[i] = IF i <= Len(f) THEN f[i] ELSE d[i - Len(f)]
    BY <1>7, ConcatProperties
  <1>9. ToBytes(packet) = g
    BY <1>2 DEF e, f
  <1> HIDE DEF g
  <1>10. /\ g[1] = f[1] /\ g[3] = f[3] /\ g[4] = f[4] /\ g[5] = f[5] /\ g[6] = f[6]
         /\ g[7] = d[1] /\ g[8] = d[2]
    <2>1. Len(f) = 6 /\ Len(d) = 2
      BY <1>1, <1>7
    <2>2. \A i \in 1..8 : g[i] = IF i <= 6 THEN f[i] ELSE d[i - 6]
      BY <1>8, <2>1
    <2>3. \A i \in {1, 3, 4, 5, 6} : g[i] = f[i]
      BY <2>2
    <2>4. g[7] = d[7 - 6] /\ g[8] = d[8 - 6]
      BY <2>2
    <2>5. 7 - 6 = 1 /\ 8 - 6 = 2
      OBVIOUS
    <2>6. g[7] = d[1] /\ g[8] = d[2]
      BY <2>4, <2>5, Zenon
    <2>7. QED BY <2>3, <2>6, Zenon
  <1>11. g[1] = a[1] /\ g[3] = b[1] /\ g[4] = b[2] /\ g[5] = c[1] /\ g[6] = c[2]
    BY <1>5, <1>7, <1>10, Zenon
  <1>12. QED BY <1>3, <1>9, <1>10, <1>11, Zenon

(* The device finds the selector and the length that were put in.          *)
LEMMA AskedAsSent ==
  ASSUME NEW channel \in Byte, NEW selector \in Byte, NEW length \in Word,
         NEW packet, NEW address, packet.address = address, packet.length = length,
         address.channel = channel, address.selector = selector
  PROVE  /\ Asked(ToBytes(packet)).selector = selector
         /\ Asked(ToBytes(packet)).length = length
  <1>1. (channel + 256 * selector) \div 256 = selector
    BY SMT DEF Byte
  <1>2. (length % 256) + 256 * (length \div 256) = length
    BY SMT DEF Word
  <1>3. WValue(packet.address) = channel + 256 * selector
    BY SMT DEF WValue, FromLe16
  <1>4. ToBytes(packet)[4] = selector
    BY <1>1, <1>3, PacketBytes, SMT
  <1>5. FromLe16(ToBytes(packet)[7], ToBytes(packet)[8]) = length
    BY <1>2, PacketBytes, SMT DEF FromLe16
  <1>6. QED BY <1>4, <1>5, SMT DEF Asked

(* Words are the numbers of 16 bits.                                       *)
LEMMA WordBound == \A x \in Nat : ~(x > 65535) => x \in Word
  BY SMT DEF Word

(* The layouts of fixed length, and the bytes of a subrange.               *)
Layouts == {"One", "Two", "Four"}
EntryLength(layout) == 3 * SizeOf[layout]

(* A range entry is three values long.                                     *)
LEMMA EntryLengths ==
  \A layout \in Layouts : /\ SizeOf[layout] \in {1, 2, 4} /\ EntryLength(layout) \in {3, 6, 12}
                          /\ EntryLength(layout) = 3 * SizeOf[layout]
  BY SMT DEF Layouts, EntryLength, SizeOf

(* The bytes of a list of subranges that fits.                             *)
LEMMA RangeBytes ==
  ASSUME NEW layout \in Layouts, NEW n \in Nat \ {0}, RangeLength(layout, n) # LengthOverflow
  PROVE  /\ RangeLength(layout, n) = 2 + (EntryLength(layout) * n)
         /\ RangeLength(layout, n) = BlockLength(layout, n)
         /\ RangeLength(layout, n) \in Word
  <1> DEFINE b == BlockLength(layout, n)
  <1>1. b = 2 + (EntryLength(layout) * n) /\ b \in Nat
    BY EntryLengths, SMT DEF BlockLength, EntryLength
  <1> HIDE DEF b
  <1>2. RangeLength(layout, n) = b /\ ~(b > 65535)
    BY SMT DEF RangeLength, b
  <1>3. QED BY <1>1, <1>2, WordBound, SMT DEF b

(* A buffer that holds a block of j entries has room for them and one more. *)
LEMMA RoomForAll ==
  ASSUME NEW f \in {3, 6, 12}, NEW j \in Nat, NEW l \in Int, 2 + (f * j) <= l
  PROVE  j < (l \div f) + 1 /\ (l \div f) + 1 \in Nat
  <1>1. CASE f = 3
    <2>1. 2 + (3 * j) <= l
      BY <1>1, SMT
    <2>2. j < (l \div 3) + 1 /\ (l \div 3) + 1 \in Nat
      BY <2>1, SMT
    <2>3. QED BY <1>1, <2>2
  <1>2. CASE f = 6
    <2>1. 2 + (6 * j) <= l
      BY <1>2, SMT
    <2>2. j < (l \div 6) + 1 /\ (l \div 6) + 1 \in Nat
      BY <2>1, SMT
    <2>3. QED BY <1>2, <2>2
  <1>3. CASE f = 12
    <2>1. 2 + (12 * j) <= l
      BY <1>3, SMT
    <2>2. j < (l \div 12) + 1 /\ (l \div 12) + 1 \in Nat
      BY <2>1, SMT
    <2>3. QED BY <1>3, <2>2
  <1>4. QED BY <1>1, <1>2, <1>3

(* A block that is accepted is what the device reported in that reply,     *)
(* however many entries were asked for and whatever else is in the buffer. *)
LEMMA AcceptedIsReported ==
  ASSUME NEW d, NEW channel \in Byte, NEW selector \in Byte,
         NEW address, address.channel = channel, address.selector = selector,
         NEW layout \in Layouts, NEW n \in Nat \ {0},
         NEW length, length = RangeLength(layout, n), length # LengthOverflow,
         NEW S, NEW reported \in Seq(S), reported = RangeOf(d, selector),
         NEW reply \in RangeReplies(d, layout, ToBytes(RangePacket(address, layout, n))),
         RangeVerdict(layout, reply) = "ok"
  PROVE  RangeEntries(layout, reply) = reported
  <1> DEFINE bytes == ToBytes(RangePacket(address, layout, n))
             k == Len(reported)
             e == EntryLength(layout)
             room == (length \div e) + 1
  <1>1. e \in {3, 6, 12} /\ e = 3 * SizeOf[layout]
    BY EntryLengths
  <1> HIDE DEF e
  <1>2. n \in Nat /\ n >= 1 /\ k \in Nat
    BY SMT
  <1>3. length = 2 + (e * n) /\ length \in Word /\ length > 2
    <2>1. length = 2 + (e * n) /\ length \in Word
      BY RangeBytes DEF e
    <2>2. length > 2
      BY <1>1, <1>2, <2>1, SMT
    <2>3. QED BY <2>1, <2>2
  <1>4. /\ RangePacket(address, layout, n).address = address
        /\ RangePacket(address, layout, n).length = length
    BY SMT DEF RangePacket, SetupPacket
  <1>5. Asked(bytes).selector = selector /\ Asked(bytes).length = length
    BY <1>3, <1>4, AskedAsSent, SMT
  <1> HIDE DEF bytes
  <1>6. reply \in RangeReplies(d, layout, bytes)
    BY SMT DEF bytes
  <1>7. BlockLength(layout, k) = 2 + (e * k)
    BY <1>1, <1>2, EntryLengths, SMT DEF BlockLength
  <1>8. PICK m \in Arriving(2 + (e * k), length), c \in Announced(k, length) :
          reply = [n |-> m, count |-> c, value |-> 0, subranges |-> Filled(reported, room)]
    <2>1. (length \div (3 * SizeOf[layout])) + 1 = room
      BY <1>1, SMT
    <2>2. QED BY <1>5, <1>6, <1>7, <2>1, SMT DEF RangeReplies
  <1>9. reply.n \in Int /\ reply.n <= length
    <2>1. m \in Int /\ m <= length
      <3>1. e * k \in Int /\ length \in Int
        BY <1>1, <1>2, <1>3, SMT DEF Word
      <3>2. QED BY <1>3, <3>1, SMT DEF Arriving
    <2>2. QED BY <1>8, <2>1, SMT
  <1>10. reply.count = k /\ reply.subranges = Filled(reported, room)
    BY <1>3, <1>8, SMT DEF Announced, RangeCountLength
  <1>11. 2 + (e * k) <= length
    <2>1. ~(reply.n < 2 + (e * k))
      BY <1>7, <1>10, SMT DEF RangeVerdict
    <2>2. e * k \in Int /\ length \in Int
      BY <1>1, <1>2, <1>3, SMT DEF Word
    <2>3. QED BY <1>9, <2>1, <2>2, SMT
  <1>12. k < room /\ room \in Nat
    <2>1. length \in Int
      BY <1>3, SMT DEF Word
    <2>2. QED BY <1>1, <1>2, <1>11, <2>1, RoomForAll
  <1> HIDE DEF room
  <1>13. RangeEntries(layout, reply) = SubSeq(Filled(reported, room), 1, k)
    BY <1>10, SMT DEF RangeEntries
  <1> DEFINE buffer == Filled(reported, room)
             entries == SubSeq(buffer, 1, k)
  <1>14. \A i \in 1..k : buffer[i] = reported[i] /\ buffer[i] \in S
    <2>1. \A i \in 1..k : i \in 1..room /\ i <= k
      BY <1>2, <1>12, SMT
    <2>2. \A i \in 1..k : reported[i] \in S
      BY <1>2, ElementOfSeq
    <2>3. \A i \in 1..k : buffer[i] = reported[i]
      BY <2>1, Zenon DEF Filled
    <2>4. QED BY <2>2, <2>3
  <1> HIDE DEF buffer
  <1>15. /\ entries \in Seq(S) /\ Len(entries) = (IF 1 <= k THEN k - 1 + 1 ELSE 0)
         /\ \A i \in 1..(k - 1 + 1) : entries[i] = buffer[1 + i - 1]
    BY <1>2, <1>14, SubSeqProperties, SMT
  <1> HIDE DEF entries
  <1>16. Len(entries) = k /\ \A i \in 1..k : entries[i] = reported[i]
    BY <1>2, <1>14, <1>15, SMT
  <1>17. entries = reported
    BY <1>2, <1>15, <1>16, SMT
  <1>18. QED BY <1>13, <1>17, SMT DEF entries, buffer

Subrange == [min : Word, max : Word, res : Word]

(* Sign extension of a word.                                               *)
LEMMA SignedWord ==
  ASSUME NEW w \in Word
  PROVE  Signed("Two", w) = TwosComplement(w) /\ Signed("Two", w) \in Int
  <1>1. w \in Nat /\ w <= 65535
    BY SMT DEF Word
  <1>2. (w + 32768) % 65536 = IF w < 32768 THEN w + 32768 ELSE w - 32768
    BY <1>1, SMT
  <1>3. Signed("Two", w) = ((w + 32768) % 65536) - 32768
    BY <1>1, SMT DEF Signed
  <1>4. QED BY <1>1, <1>2, <1>3, SMT DEF TwosComplement

(* The range check is the containment the properties speak of.             *)
LEMMA InRangeHolds ==
  ASSUME NEW entries \in Seq(Subrange), NEW value \in Int
  PROVE  InRange("Two", entries, value) <=> Holds(entries, value)
  <1>1. \A k \in 1..Len(entries) : entries[k].min \in Word /\ entries[k].max \in Word
    <2>1. \A k \in 1..Len(entries) : entries[k] \in Subrange
      BY ElementOfSeq, SMT
    <2>2. \A e \in Subrange : e.min \in Word /\ e.max \in Word
      BY SMT DEF Subrange
    <2>3. QED BY <2>1, <2>2, SMT
  <1>2. DOMAIN entries = 1..Len(entries)
    BY SMT
  <1>3. ASSUME NEW k \in 1..Len(entries)
        PROVE  /\ Signed("Two", entries[k].min) = TwosComplement(entries[k].min)
               /\ Signed("Two", entries[k].max) = TwosComplement(entries[k].max)
               /\ Signed("Two", entries[k].min) \in Int /\ Signed("Two", entries[k].max) \in Int
    BY <1>1, SignedWord, SMT
  <1>4. QED BY <1>2, <1>3, SMT DEF InRange, Holds

(* The two bytes of a level are the level.                                 *)
LEMMA EncodedLevel ==
  ASSUME NEW raw \in Word
  PROVE  FromLe16(EncodeCur("Two", raw)[1], EncodeCur("Two", raw)[2]) = raw
  <1>1. raw \in Nat
    BY SMT DEF Word
  <1> DEFINE low == raw % 256
             high == raw \div 256
             zeros == <<0, 0>>
             word == <<low, high>>
  <1>2. /\ low \in Int /\ high \in Int /\ low + 256 * high = raw
    BY <1>1, SMT
  <1> HIDE DEF low, high
  <1>3. word \in Seq(Int) /\ Len(word) = 2 /\ word[1] = low /\ word[2] = high
    BY <1>2, SMT
  <1>4. zeros \in Seq(Int) /\ Len(zeros) = 2
    BY SMT
  <1> HIDE DEF word, zeros
  <1>a. word \in Seq(Int) /\ zeros \in Seq(Int)
    BY <1>3, <1>4
  <1> DEFINE four == word \o zeros
  <1>5. /\ four \in Seq(Int)
        /\ \A i \in 1..(Len(word) + Len(zeros)) : four[i] = IF i <= Len(word) THEN word[i] ELSE zeros[i - Len(word)]
    BY <1>a, ConcatProperties
  <1> HIDE DEF four
  <1>6. four[1] = low /\ four[2] = high
    BY <1>3, <1>4, <1>5, SMT
  <1>7. SubSeq(four, 1, 2)[1] = low /\ SubSeq(four, 1, 2)[2] = high
    <2>1. \A i \in 1..2 : four[i] \in Int
      BY <1>2, <1>6, SMT
    <2>2. \A i \in 1..(2 - 1 + 1) : SubSeq(four, 1, 2)[i] = four[1 + i - 1]
      BY <2>1, SubSeqProperties, SMT
    <2>3. QED BY <1>6, <2>2, SMT
  <1>8. EncodeCur("Two", raw) = SubSeq(four, 1, 2)
    BY SMT DEF EncodeCur, Le16, SizeOf, four, word, zeros, low, high
  <1>9. QED BY <1>2, <1>7, <1>8, SMT DEF FromLe16

(* What db_to_raw accepts it leaves alone, and it fits into a word.        *)
LEMMA AcceptedLevel ==
  ASSUME NEW scaled \in Int, DbToRaw(scaled) # NotALevel
  PROVE  DbToRaw(scaled) = scaled /\ scaled % 65536 \in Word
  <1>1. DbToRaw(scaled) = scaled
    BY SMT DEF DbToRaw
  <1>2. \A n \in Int : n % 65536 \in Word
    BY SMT DEF Word
  <1>3. QED BY <1>1, <1>2, SMT

-----------------------------------------------------------------------------
(* The steps.  What each of them does to its own invocation is said by one *)
(* lemma; to the others it does nothing.                                   *)

Session == {"head", "block", "cur", "set", "readback"}

(* f changes at p only.                                                    *)
OnlyAt(p, f, g) == DOMAIN g = Procs /\ \A q \in Procs \ {p} : g[q] = f[q]

(* The row of an invocation changes, all others stay.                      *)
RowOnly(p) ==
  /\ OnlyAt(p, pc, pc') /\ OnlyAt(p, outcome, outcome') /\ OnlyAt(p, dev, dev')
  /\ OnlyAt(p, iface, iface') /\ OnlyAt(p, target, target') /\ OnlyAt(p, range, range')
  /\ OnlyAt(p, run, run') /\ OnlyAt(p, seen, seen')
  /\ UNCHANGED <<world, job>>

(* An invocation that holds a claim drops it when it finishes.             *)
LEMMA FinishInSession ==
  ASSUME Bookkeeping, ClaimsHeld, NEW p \in Procs, InSession(p), NEW why, Finish(p, why)
  PROVE  /\ OnlyAt(p, pc, pc') /\ OnlyAt(p, outcome, outcome')
         /\ pc'[p] = "drop" /\ outcome'[p] = why
  <1>1. \E c \in claims : c[3] = p
    BY DEF ClaimsHeld
  <1>2. QED BY <1>1 DEF Finish, Bookkeeping, OnlyAt

(* After a read, successful or not, a dump reads on or is over.            *)
LEMMA ReadOn ==
  ASSUME Bookkeeping, ClaimsHeld, NEW p \in Procs, InSession(p), NEW r, AfterRead(p, r),
         DOMAIN r = DOMAIN FreshRun
  PROVE  /\ OnlyAt(p, pc, pc') /\ OnlyAt(p, outcome, outcome') /\ OnlyAt(p, run, run')
         /\ DOMAIN run'[p] = DOMAIN FreshRun
         /\ \/ pc'[p] \in {"head", "cur"} /\ outcome'[p] = outcome[p]
            \/ pc'[p] = "drop" /\ outcome'[p] # "OutOfRange"
  <1>1. CASE UNCHANGED run /\ Finish(p, "Output")
    BY <1>1, FinishInSession DEF Bookkeeping, OnlyAt
  <1>2. CASE run' = [run EXCEPT ![p] = [r EXCEPT !.reads = Tail(@)]]
    <2>1. \/ Goto(p, "head") \/ Goto(p, "cur") \/ Finish(p, "ok") \/ Finish(p, "DumpIncomplete")
          \/ Finish(p, "Output") /\ UNCHANGED run
      BY <1>2 DEF AfterRead, FirstTransfer
    <2>2. QED BY <1>1, <1>2, <2>1, FinishInSession DEF Goto, Bookkeeping, OnlyAt
  <1>3. QED BY <1>1, <1>2 DEF AfterRead

(* A failing read stays in the session or ends it.                         *)
LEMMA FailsInSession ==
  ASSUME Bookkeeping, ClaimsHeld, NEW p \in Procs, InSession(p), NEW why, ReadFails(p, why),
         why # "OutOfRange"
  PROVE  /\ OnlyAt(p, pc, pc') /\ OnlyAt(p, outcome, outcome') /\ OnlyAt(p, run, run')
         /\ DOMAIN run'[p] = DOMAIN FreshRun
         /\ \/ job[p].command # "volume" /\ pc'[p] \in {"head", "cur"} /\ outcome'[p] = outcome[p]
            \/ pc'[p] = "drop" /\ outcome'[p] # "OutOfRange"
  <1>1. CASE job[p].command = "volume"
    BY <1>1, FinishInSession DEF ReadFails, Bookkeeping, OnlyAt
  <1>2. CASE job[p].command # "volume"
    <2>1. DOMAIN [run[p] EXCEPT !.failed = @ + 1] = DOMAIN FreshRun
      BY DEF Bookkeeping
    <2>2. AfterRead(p, [run[p] EXCEPT !.failed = @ + 1])
      BY <1>2 DEF ReadFails
    <2>3. QED BY <1>2, <2>1, <2>2, ReadOn
  <1>3. QED BY <1>1, <1>2

(* What a device reports is a list of subranges.                           *)
LEMMA ReportedRange ==
  ASSUME Bookkeeping, NEW d \in plugged, NEW selector
  PROVE  RangeOf(d, selector) \in Seq(Subrange)
  <1>1. ranges[d] \in Seq(Subrange)
    BY Id14ctlAssumption DEF Bookkeeping, Subrange
  <1>2. FixedRange \in Seq(Subrange)
    <2>1. 44100 \in Word /\ 48000 \in Word /\ 3900 \in Word
      BY SMT DEF Word
    <2>2. QED BY <2>1 DEF FixedRange, Subrange
  <1>3. QED BY <1>1, <1>2 DEF RangeOf

(* A count that is kept is at least one, however odd.                      *)
LEMMA CountsTaken ==
  ASSUME Bookkeeping, NEW d \in plugged, NEW layout, NEW bytes,
         NEW reply \in RangeReplies(d, layout, bytes), CountVerdict(reply) = "ok"
  PROVE  reply.count \in Nat \ {0}
  <1> DEFINE reported == RangeOf(d, Asked(bytes).selector)
  <1>1. Len(reported) \in Nat
    BY ReportedRange
  <1>2. reply.count \in Announced(Len(reported), Asked(bytes).length)
    BY DEF RangeReplies
  <1>3. reply.count \in Nat
    <2>1. \A w \in Word : w \in Nat
      BY SMT DEF Word
    <2>2. QED BY <1>1, <1>2, <2>1, Id14ctlAssumption DEF Announced
  <1>4. QED BY <1>3 DEF CountVerdict

(* What a session step leaves as it is.                                    *)
SessionFrame(p) ==
  /\ RowOnly(p) /\ Bookkeeping' /\ claims' = claims
  /\ dev'[p] = dev[p] /\ iface'[p] = iface[p] /\ target'[p] = target[p]
  /\ pc'[p] \in Session \cup {"drop"}

(* Asking how many subranges there are is a step of one session: it has    *)
(* passed the gates and has seen no range.                                 *)
LEMMA ReadHeadStep ==
  ASSUME IInv, NEW p \in Procs, ReadHead(p)
  PROVE  SessionFrame(p) /\ Gated(p)' /\ Ranged(p)'
  <1> USE DEF IInv
  <1>1. InSession(p) /\ pc[p] = "head"
    BY DEF ReadHead, InSession
  <1> DEFINE packet == RangeCountPacket(CurrentAddress(p))
  <1>2. \/ \E why : why # "OutOfRange" /\ ReadFails(p, why)
        \/ \E c : /\ c \in Nat \ {0} /\ RangeLength(CurrentLayout(p), c) # LengthOverflow
                  /\ run' = [run EXCEPT ![p].count = c] /\ Goto(p, "block")
    <2>1. CASE MayFail(p) /\ ReadFails(p, "Transport")
      BY <2>1
    <2>2. ASSUME dev[p] \in plugged,
                 NEW reply \in RangeReplies(dev[p], CurrentLayout(p), ToBytes(packet)),
                 CountVerdict(reply) = "ok"
          PROVE  reply.count \in Nat \ {0}
      BY <2>2, CountsTaken
    <2>3. \A reply : CountVerdict(reply) # "OutOfRange"
      BY DEF CountVerdict
    <2>4. QED BY <2>1, <2>2, <2>3, <1>1 DEF ReadHead
  <1>3. UNCHANGED <<world, device, claims, job, aim, range, seen>>
    BY DEF ReadHead
  <1>4. CASE \E why : why # "OutOfRange" /\ ReadFails(p, why)
    BY <1>1, <1>3, <1>4, FailsInSession
    DEF SessionFrame, RowOnly, OnlyAt, Bookkeeping, device, aim, Session, Gated, Ranged,
        Engaged, InSession, GatesPassed, RangeSeen
  <1>5. ASSUME NEW c \in Nat \ {0}, RangeLength(CurrentLayout(p), c) # LengthOverflow,
               run' = [run EXCEPT ![p].count = c], Goto(p, "block")
        PROVE  SessionFrame(p) /\ Gated(p)' /\ Ranged(p)'
    <2>1. /\ OnlyAt(p, run, run') /\ DOMAIN run'[p] = DOMAIN FreshRun
          /\ run'[p].count = c
      BY <1>5 DEF OnlyAt, Bookkeeping, FreshRun
    <2>2. /\ OnlyAt(p, pc, pc') /\ pc'[p] = "block" /\ UNCHANGED outcome
      BY <1>5 DEF OnlyAt, Bookkeeping, Goto
    <2>3. job[p].command = "volume" => CurrentLayout(p) = "Two"
      BY DEF CurrentLayout
    <2>4. SessionFrame(p)
      BY <1>3, <2>1, <2>2 DEF SessionFrame, RowOnly, OnlyAt, Bookkeeping, device, aim, Session
    <2>5. Gated(p)'
      BY <1>1, <1>3, <2>2 DEF Gated, Engaged, InSession, GatesPassed
    <2>6. Ranged(p)'
      BY <1>1, <1>3, <1>5, <2>1, <2>2, <2>3 DEF Ranged, Engaged, InSession, RangeSeen, aim
    <2>7. QED BY <2>4, <2>5, <2>6
  <1>6. QED BY <1>2, <1>4, <1>5

(* The range that is accepted for a volume command is the reported one,    *)
(* and decides.                                                            *)
LEMMA VolumeRange ==
  ASSUME IInv, NEW p \in Procs, pc[p] = "block", job[p].command = "volume", dev[p] \in plugged,
         NEW packet, packet = RangePacket(CurrentAddress(p), CurrentLayout(p), run[p].count),
         NEW reply \in RangeReplies(dev[p], CurrentLayout(p), ToBytes(packet)),
         RangeVerdict(CurrentLayout(p), reply) = "ok"
  PROVE  /\ Take(p, reply) = RangeOf(dev[p], Asked(ToBytes(packet)).selector)
         /\ InRange("Two", Take(p, reply), job[p].scaled) <=> Holds(Take(p, reply), job[p].scaled)
  <1> USE DEF IInv
  <1>1. CurrentLayout(p) = "Two" /\ CurrentAddress(p) = target[p]
    BY DEF CurrentLayout, CurrentAddress
  <1>2. /\ run[p].count \in Nat \ {0} /\ RangeLength("Two", run[p].count) # LengthOverflow
        /\ target[p].selector = Volume /\ target[p].channel = job[p].channel
    BY DEF RangeSeen, Ranged, Engaged, InSession
  <1>3. job[p].channel \in Byte /\ Volume \in Byte /\ job[p].scaled \in Int
    BY Id14ctlAssumption DEF Bookkeeping, Byte, Volume
  <1> DEFINE reported == RangeOf(dev[p], Volume)
             n == run[p].count
             address == target[p]
             length == RangeLength("Two", n)
  <1>4. reported \in Seq(Subrange)
    BY ReportedRange
  <1>5. packet = RangePacket(address, "Two", n)
    BY <1>1
  <1>6. Asked(ToBytes(packet)).selector = Volume
    <2>1. packet.address = address /\ packet.length = length
      BY <1>5 DEF RangePacket, SetupPacket
    <2>2. length \in Word
      BY <1>2, RangeBytes DEF Layouts
    <2> HIDE DEF length, address
    <2>3. address.channel = job[p].channel /\ address.selector = Volume
      BY <1>2 DEF address
    <2>4. QED BY <1>3, <2>1, <2>2, <2>3, AskedAsSent
  <1>7. reply \in RangeReplies(dev[p], "Two", ToBytes(RangePacket(address, "Two", n)))
    BY <1>1, <1>5
  <1>8. RangeVerdict("Two", reply) = "ok"
    BY <1>1
  <1> HIDE DEF reported, n, address, length
  <1>9. RangeEntries("Two", reply) = reported
    <2>1. address.channel = job[p].channel /\ address.selector = Volume
      BY <1>2 DEF address
    <2>2. n \in Nat \ {0} /\ length = RangeLength("Two", n) /\ length # LengthOverflow
      BY <1>2 DEF n, length
    <2>3. "Two" \in Layouts
      BY DEF Layouts
    <2>4. reported = RangeOf(dev[p], Volume)
      BY DEF reported
    <2>5. QED BY <1>3, <1>4, <1>7, <1>8, <2>1, <2>2, <2>3, <2>4, AcceptedIsReported
  <1>10. Take(p, reply) = reported
    BY <1>1, <1>9 DEF Take
  <1>11. QED BY <1>3, <1>4, <1>6, <1>10, InRangeHolds DEF reported

(* Reading the subranges is a step of one session; a level that goes on to *)
(* be sent lies in what was read.                                          *)
LEMMA ReadBlockStep ==
  ASSUME IInv, NEW p \in Procs, ReadBlock(p)
  PROVE  SessionFrame(p) /\ Gated(p)' /\ Ranged(p)'
  <1> USE DEF IInv
  <1> DEFINE packet == RangePacket(CurrentAddress(p), CurrentLayout(p), run[p].count)
             fails == UNCHANGED <<range, seen>> /\ \E why : why # "OutOfRange" /\ ReadFails(p, why)
  <1>1. InSession(p) /\ pc[p] = "block"
    BY DEF ReadBlock, InSession
  <1>2. UNCHANGED <<world, device, claims, job, aim>>
    BY DEF ReadBlock
  <1>3. CASE fails
    BY <1>1, <1>2, <1>3, FailsInSession
    DEF SessionFrame, RowOnly, OnlyAt, Bookkeeping, device, aim, Session, Gated, Ranged,
        Engaged, InSession, GatesPassed, RangeSeen
  <1>4. ASSUME dev[p] \in plugged,
               NEW reply \in RangeReplies(dev[p], CurrentLayout(p), ToBytes(packet)),
               RangeVerdict(CurrentLayout(p), reply) = "ok",
               range' = [range EXCEPT ![p] = Take(p, reply)],
               seen' = [seen EXCEPT ![p] = RangeOf(dev[p], Asked(ToBytes(packet)).selector)],
               AfterRange(p, Take(p, reply)), UNCHANGED run
        PROVE  SessionFrame(p) /\ Gated(p)' /\ Ranged(p)'
    <2>1. /\ OnlyAt(p, range, range') /\ OnlyAt(p, seen, seen')
          /\ seen'[p] = RangeOf(dev[p], Asked(ToBytes(packet)).selector)
      BY <1>4 DEF OnlyAt, Bookkeeping
    <2>2. CASE job[p].command # "volume" /\ Goto(p, "cur")
      <3>1. OnlyAt(p, pc, pc') /\ pc'[p] = "cur" /\ UNCHANGED outcome
        BY <2>2 DEF OnlyAt, Bookkeeping, Goto
      <3>2. SessionFrame(p)
        BY <1>2, <1>4, <2>1, <3>1 DEF SessionFrame, RowOnly, OnlyAt, Bookkeeping, device, aim, Session
      <3>3. Gated(p)' /\ Ranged(p)'
        BY <1>1, <1>2, <2>2, <3>1 DEF Gated, Ranged, Engaged, InSession, GatesPassed, RangeSeen, aim
      <3>4. QED BY <3>2, <3>3
    <2>3. CASE job[p].command = "volume"
      <3>1. /\ seen'[p] = Take(p, reply)
            /\ InRange("Two", Take(p, reply), job[p].scaled) <=> Holds(seen'[p], job[p].scaled)
        BY <1>1, <1>4, <2>1, <2>3, VolumeRange
      <3>2. CASE Holds(seen'[p], job[p].scaled)
        <4>1. OnlyAt(p, pc, pc') /\ pc'[p] = "set" /\ UNCHANGED outcome
          BY <1>4, <2>3, <3>1, <3>2 DEF AfterRange, OnlyAt, Bookkeeping, Goto
        <4>2. SessionFrame(p)
          BY <1>2, <1>4, <2>1, <4>1 DEF SessionFrame, RowOnly, OnlyAt, Bookkeeping, device, aim, Session
        <4>3. Gated(p)' /\ Ranged(p)'
          BY <1>1, <1>2, <2>3, <3>2, <4>1 DEF Gated, Ranged, Engaged, InSession, GatesPassed, RangeSeen, aim
        <4>4. QED BY <4>2, <4>3
      <3>3. CASE ~Holds(seen'[p], job[p].scaled)
        <4>1. Finish(p, "OutOfRange")
          BY <1>4, <2>3, <3>1, <3>3 DEF AfterRange
        <4>2. OnlyAt(p, pc, pc') /\ OnlyAt(p, outcome, outcome') /\ pc'[p] = "drop"
          BY <1>1, <4>1, FinishInSession
        <4>3. SessionFrame(p)
          BY <1>2, <1>4, <2>1, <4>2 DEF SessionFrame, RowOnly, OnlyAt, Bookkeeping, device, aim, Session
        <4>4. Gated(p)' /\ Ranged(p)'
          BY <1>1, <1>2, <2>3, <3>3, <4>2 DEF Gated, Ranged, Engaged, InSession, GatesPassed, RangeSeen, aim
        <4>5. QED BY <4>3, <4>4
      <3>4. QED BY <3>2, <3>3
    <2>4. QED BY <1>4, <2>2, <2>3 DEF AfterRange
  <1>5. \A reply : RangeVerdict(CurrentLayout(p), reply) # "OutOfRange"
    BY DEF RangeVerdict, CountVerdict
  <1>6. QED BY <1>3, <1>4, <1>5 DEF ReadBlock

(* Reading a value is a step of one session; what was seen of its range    *)
(* stays.                                                                  *)
LEMMA ReadCurStep ==
  ASSUME IInv, NEW p \in Procs, ReadCur(p)
  PROVE  SessionFrame(p) /\ Gated(p)' /\ Ranged(p)'
  <1> USE DEF IInv
  <1>1. InSession(p) /\ pc[p] = "cur"
    BY DEF ReadCur, InSession
  <1>2. UNCHANGED <<world, device, claims, job, aim, range, seen>>
    BY DEF ReadCur
  <1>3. \/ \E why : why # "OutOfRange" /\ ReadFails(p, why)
        \/ \E a : AfterRead(p, [run[p] EXCEPT !.printed = @ \cup {a}])
    BY DEF ReadCur
  <1>4. CASE \E why : why # "OutOfRange" /\ ReadFails(p, why)
    BY <1>1, <1>2, <1>4, FailsInSession
    DEF SessionFrame, RowOnly, OnlyAt, Bookkeeping, device, aim, Session, Gated, Ranged,
        Engaged, InSession, GatesPassed, RangeSeen
  <1>5. ASSUME NEW a, AfterRead(p, [run[p] EXCEPT !.printed = @ \cup {a}])
        PROVE  SessionFrame(p) /\ Gated(p)' /\ Ranged(p)'
    <2>1. DOMAIN [run[p] EXCEPT !.printed = @ \cup {a}] = DOMAIN FreshRun
      BY DEF Bookkeeping
    <2>2. /\ OnlyAt(p, pc, pc') /\ OnlyAt(p, outcome, outcome') /\ OnlyAt(p, run, run')
          /\ DOMAIN run'[p] = DOMAIN FreshRun
          /\ \/ pc'[p] \in {"head", "cur"} /\ outcome'[p] = outcome[p]
             \/ pc'[p] = "drop" /\ outcome'[p] # "OutOfRange"
      BY <1>1, <1>5, <2>1, ReadOn
    <2>3. SessionFrame(p)
      BY <1>2, <2>2 DEF SessionFrame, RowOnly, OnlyAt, Bookkeeping, device, aim, Session
    <2>4. Gated(p)' /\ Ranged(p)'
      BY <1>1, <1>2, <2>2 DEF Gated, Ranged, Engaged, InSession, GatesPassed, RangeSeen, aim
    <2>5. QED BY <2>3, <2>4
  <1>6. QED BY <1>3, <1>4, <1>5

(* A SET finds its level in range and its range seen, and needs no more.   *)
LEMMA SetCurStep ==
  ASSUME IInv, NEW p \in Procs, SetCur(p)
  PROVE  SessionFrame(p) /\ Gated(p)' /\ Ranged(p)'
  <1> USE DEF IInv
  <1>1. InSession(p) /\ pc[p] = "set"
    BY DEF SetCur, InSession
  <1>2. UNCHANGED <<world, plugged, ranges, moves, claims, job, aim, range, run, seen>>
    BY DEF SetCur
  <1>3. DOMAIN level' = DOMAIN level
    BY DEF SetCur
  <1>4. Finish(p, "Transport") \/ Goto(p, "readback")
    BY DEF SetCur
  <1>5. /\ OnlyAt(p, pc, pc') /\ OnlyAt(p, outcome, outcome')
        /\ \/ pc'[p] = "readback" /\ outcome'[p] = outcome[p]
           \/ pc'[p] = "drop" /\ outcome'[p] = "Transport"
    BY <1>1, <1>4, FinishInSession DEF Goto, OnlyAt, Bookkeeping
  <1>6. SessionFrame(p)
    BY <1>2, <1>3, <1>5 DEF SessionFrame, RowOnly, OnlyAt, Bookkeeping, aim, Session
  <1>7. Gated(p)' /\ Ranged(p)'
    BY <1>1, <1>2, <1>5 DEF Gated, Ranged, Engaged, InSession, GatesPassed, RangeSeen, aim
  <1>8. QED BY <1>6, <1>7

(* Reading back what was set ends the session, whatever comes back.        *)
LEMMA ReadBackStep ==
  ASSUME IInv, NEW p \in Procs, ReadBack(p)
  PROVE  SessionFrame(p) /\ Gated(p)' /\ Ranged(p)'
  <1> USE DEF IInv
  <1>1. InSession(p) /\ pc[p] = "readback"
    BY DEF ReadBack, InSession
  <1>2. UNCHANGED <<world, device, claims, job, aim, range, seen>>
    BY DEF ReadBack
  <1>3. /\ \E why : why # "OutOfRange" /\ Finish(p, why)
        /\ \/ UNCHANGED run
           \/ \E x : run' = [run EXCEPT ![p].readback = x]
    BY DEF ReadBack
  <1>4. /\ OnlyAt(p, pc, pc') /\ OnlyAt(p, outcome, outcome')
        /\ pc'[p] = "drop" /\ outcome'[p] # "OutOfRange"
    BY <1>1, <1>3, FinishInSession
  <1>5. OnlyAt(p, run, run') /\ DOMAIN run'[p] = DOMAIN FreshRun
    BY <1>3 DEF OnlyAt, Bookkeeping
  <1>6. SessionFrame(p)
    BY <1>2, <1>4, <1>5 DEF SessionFrame, RowOnly, OnlyAt, Bookkeeping, device, aim, Session
  <1>7. Gated(p)' /\ Ranged(p)'
    BY <1>1, <1>2, <1>4 DEF Gated, Ranged, Engaged, InSession, GatesPassed, RangeSeen, aim
  <1>8. QED BY <1>6, <1>7

SessionStep(p) == ReadHead(p) \/ ReadBlock(p) \/ ReadCur(p) \/ SetCur(p) \/ ReadBack(p)

(* Every step of a session keeps to its own invocation and to what was     *)
(* decided before it.                                                      *)
LEMMA SessionStepFrame ==
  ASSUME IInv, NEW p \in Procs, SessionStep(p)
  PROVE  InSession(p) /\ SessionFrame(p) /\ Gated(p)' /\ Ranged(p)'
  <1>1. InSession(p)
    BY DEF SessionStep, ReadHead, ReadBlock, ReadCur, SetCur, ReadBack, InSession
  <1>2. QED BY <1>1, ReadHeadStep, ReadBlockStep, ReadCurStep, SetCurStep, ReadBackStep DEF SessionStep

(* Only SetCur sends a SET, and what it sends is the level that was asked  *)
(* for and found in range.                                                 *)
LEMMA WireStep ==
  ASSUME IInv, NEW p \in Procs, SessionStep(p)
  PROVE  SetAuthorised'
  <1> USE DEF IInv
  <1>1. BmRequestType("GetCur") # BmRequestType("SetCur") /\ BmRequestType("GetRange") # BmRequestType("SetCur")
    BY SMT DEF BmRequestType, IsRead
  <1>2. ASSUME NEW packet, NEW room, packet.attribute \in {"GetCur", "GetRange"},
               Transfer(p, packet, << >>, room)
        PROVE  SetAuthorised'
    <2>1. wire'.bytes = ToBytes(packet)
      BY <1>2 DEF Transfer
    <2>2. wire'.bytes[1] = BmRequestType(packet.attribute)
      BY <2>1, PacketBytes
    <2>3. wire'.bytes[1] # BmRequestType("SetCur")
      BY <1>1, <1>2, <2>2
    <2>4. QED BY <2>3, SMT DEF SetAuthorised
  <1>3. CASE ReadHead(p)
    <2>1. RangeCountPacket(CurrentAddress(p)).attribute = "GetRange"
      BY DEF RangeCountPacket, SetupPacket
    <2>2. QED BY <1>2, <1>3, <2>1 DEF ReadHead
  <1>4. CASE ReadBlock(p)
    <2>1. RangePacket(CurrentAddress(p), CurrentLayout(p), run[p].count).attribute = "GetRange"
      BY DEF RangePacket, SetupPacket
    <2>2. QED BY <1>2, <1>4, <2>1 DEF ReadBlock
  <1>5. CASE ReadCur(p)
    <2>1. CurPacket(Head(run[p].reads)).attribute = "GetCur"
      BY DEF CurPacket, SetupPacket
    <2>2. QED BY <1>2, <1>5, <2>1 DEF ReadCur
  <1>6. CASE ReadBack(p)
    <2>1. ReadbackPacket(target[p]).attribute = "GetCur"
      BY DEF ReadbackPacket, SetupPacket
    <2>2. QED BY <1>2, <1>6, <2>1 DEF ReadBack
  <1>7. CASE SetCur(p)
    <2> DEFINE payload == EncodeCur("Two", DbToRaw(job[p].scaled) % 65536)
    <2>1. wire'.by = p /\ wire'.payload = payload
      BY <1>7 DEF SetCur, Transfer
    <2>2. pc[p] = "set" /\ UNCHANGED <<job, seen>>
      BY <1>7 DEF SetCur
    <2>3. job[p].command = "volume" /\ job[p].enable_write /\ ~job[p].dry_run /\ DbToRaw(job[p].scaled) # NotALevel
      BY <2>2 DEF GatesPassed, Gated, Engaged, InSession
    <2>4. Holds(seen[p], job[p].scaled)
      BY <2>2 DEF RangeSeen, Ranged
    <2>5. job[p].scaled \in Int
      BY Id14ctlAssumption DEF Bookkeeping
    <2>6. DbToRaw(job[p].scaled) = job[p].scaled /\ job[p].scaled % 65536 \in Word
      BY <2>3, <2>5, AcceptedLevel
    <2> DEFINE raw == job[p].scaled % 65536
    <2>7. payload = EncodeCur("Two", raw)
      BY <2>6
    <2> HIDE DEF payload, raw
    <2>8. FromLe16(payload[1], payload[2]) = raw
      BY <2>6, <2>7, EncodedLevel DEF raw
    <2>9. Writes(p)' /\ Holds(seen[p], job[p].scaled)' /\ raw = (job[p].scaled % 65536)'
      BY <2>2, <2>3, <2>4 DEF Writes, raw
    <2>10. QED BY <2>1, <2>8, <2>9 DEF SetAuthorised
  <1>8. QED BY <1>3, <1>4, <1>5, <1>6, <1>7 DEF SessionStep

-----------------------------------------------------------------------------
(* The steps outside a session.                                            *)

(* An invocation out of session has no claim.                              *)
LEMMA NoClaim ==
  ASSUME ClaimsHeld, NEW p \in Procs, ~InSession(p), pc[p] # "drop"
  PROVE  \A c \in claims : c[3] # p
  BY DEF ClaimsHeld

(* Before the claim an invocation can end at once: it holds nothing.       *)
LEMMA FinishUnclaimed ==
  ASSUME Bookkeeping, ClaimsHeld, NEW p \in Procs, ~InSession(p), pc[p] # "drop",
         NEW why, Finish(p, why)
  PROVE  /\ OnlyAt(p, pc, pc') /\ OnlyAt(p, outcome, outcome')
         /\ pc'[p] = "done" /\ outcome'[p] = why
  BY NoClaim DEF Finish, Bookkeeping, OnlyAt

(* An empty range holds no value.                                          *)
LEMMA HoldsNothing == \A value : ~Holds(<< >>, value)
  <1>1. DOMAIN << >> = {}
    BY SMT
  <1>2. QED BY <1>1 DEF Holds

(* What the gates have let through, and nothing has been seen yet.         *)
LEMMA StartStep ==
  ASSUME IInv, NEW p \in Procs, Start(p)
  PROVE  /\ RowOnly(p) /\ Bookkeeping' /\ claims' = claims /\ UNCHANGED <<wire, seen>>
         /\ ~InSession(p) /\ pc[p] # "drop" /\ pc'[p] \in {"descriptors", "done"}
         /\ Gated(p)' /\ Ranged(p)' /\ Found(p)'
  <1> USE DEF IInv
  <1>1. pc[p] = "start" /\ ~InSession(p)
    BY DEF Start, InSession
  <1>2. UNCHANGED <<world, device, claims, job, iface, target, range, run, wire, seen>>
    BY DEF Start
  <1>3. \/ UNCHANGED dev
        \/ dev' = [dev EXCEPT ![p] = Primary]
    BY DEF Start
  <1>4. \/ \E why : Finish(p, why)
        \/ Refusal(job[p]) = "none" /\ Goto(p, "descriptors")
    BY DEF Start
  <1>5. OnlyAt(p, dev, dev')
    BY <1>3 DEF OnlyAt, Bookkeeping
  <1>6. /\ OnlyAt(p, pc, pc') /\ OnlyAt(p, outcome, outcome')
        /\ \/ pc'[p] = "done"
           \/ pc'[p] = "descriptors" /\ outcome'[p] = outcome[p] /\ Refusal(job[p]) = "none"
    BY <1>1, <1>4, FinishUnclaimed DEF Goto, OnlyAt, Bookkeeping
  <1>7. RowOnly(p) /\ Bookkeeping'
    BY <1>2, <1>5, <1>6 DEF RowOnly, OnlyAt, Bookkeeping, device
  <1>8. Gated(p)'
    BY <1>2, <1>6 DEF Gated, Engaged, InSession, Refusal
  <1>9. seen[p] = << >> /\ outcome[p] = "none"
    BY <1>1 DEF RangeSeen, Ranged
  <1>10. Ranged(p)'
    BY <1>2, <1>6, <1>9, HoldsNothing DEF Ranged, Engaged, InSession
  <1>11. Found(p)'
    BY <1>6 DEF Found, Engaged, InSession
  <1>12. QED BY <1>1, <1>2, <1>6, <1>7, <1>8, <1>10, <1>11

(* The target of a volume command is the volume control of its channel.    *)
LEMMA TargetIsVolume ==
  ASSUME NEW ac, NEW interface, NEW channel
  PROVE  /\ VolumeTarget(ac, interface, channel).address.selector = Volume
         /\ VolumeTarget(ac, interface, channel).address.channel = channel
  BY DEF VolumeTarget, Address

(* Reading the descriptors leads to a claim of the control interface or to *)
(* the end.                                                                *)
LEMMA DescriptorsStep ==
  ASSUME IInv, NEW p \in Procs, Descriptors(p)
  PROVE  /\ RowOnly(p) /\ Bookkeeping' /\ claims' = claims /\ UNCHANGED <<wire, seen>>
         /\ ~InSession(p) /\ pc[p] # "drop" /\ pc'[p] \in {"claim", "done"}
         /\ Gated(p)' /\ Ranged(p)' /\ Found(p)'
  <1> USE DEF IInv
  <1> DEFINE control == FindControlInterface(InterfacesOf(dev[p]).list)
  <1>1. pc[p] = "descriptors" /\ ~InSession(p)
    BY DEF Descriptors, InSession
  <1>2. UNCHANGED <<world, device, claims, job, dev, range, wire, seen>>
    BY DEF Descriptors
  <1>3. \/ (\E why : Finish(p, why)) /\ UNCHANGED <<iface, target, run>>
        \/ \E ac : Planned(p, ac, control)
    BY DEF Descriptors
  <1>4. seen[p] = << >> /\ outcome[p] = "none"
    BY <1>1 DEF RangeSeen, Ranged
  <1>5. CASE (\E why : Finish(p, why)) /\ UNCHANGED <<iface, target, run>>
    <2>1. OnlyAt(p, pc, pc') /\ OnlyAt(p, outcome, outcome') /\ pc'[p] = "done"
      BY <1>1, <1>5, FinishUnclaimed
    <2>2. RowOnly(p) /\ Bookkeeping'
      BY <1>2, <1>5, <2>1 DEF RowOnly, OnlyAt, Bookkeeping, device
    <2>3. Gated(p)' /\ Found(p)'
      BY <2>1 DEF Gated, Found, Engaged, InSession
    <2>4. Ranged(p)'
      BY <1>2, <1>4, <2>1, HoldsNothing DEF Ranged, Engaged, InSession
    <2>5. QED BY <1>1, <1>2, <2>1, <2>2, <2>3, <2>4
  <1>6. ASSUME NEW ac, Planned(p, ac, control), ~((\E why : Finish(p, why)) /\ UNCHANGED <<iface, target, run>>)
        PROVE  /\ RowOnly(p) /\ Bookkeeping' /\ pc'[p] \in {"claim", "done"}
               /\ Gated(p)' /\ Ranged(p)' /\ Found(p)'
    <2> DEFINE address == VolumeTarget(ac.entities, control.number, job[p].channel).address
    <2> HIDE DEF control
    <2>1. /\ control.err = "none"
          /\ iface' = [iface EXCEPT ![p] = control.number]
          /\ \/ job[p].command = "volume" /\ target' = [target EXCEPT ![p] = address] /\ UNCHANGED run
             \/ job[p].command # "volume" /\ UNCHANGED target
                /\ \E reads : run' = [run EXCEPT ![p].reads = reads]
          /\ \/ \E why : Finish(p, why)
             \/ ~job[p].dry_run /\ Goto(p, "claim")
      BY <1>6 DEF Planned, StopsDry
    <2>2. address.selector = Volume /\ address.channel = job[p].channel
      BY TargetIsVolume
    <2> HIDE DEF address
    <2>3. /\ OnlyAt(p, pc, pc') /\ OnlyAt(p, outcome, outcome')
          /\ \/ pc'[p] = "done"
             \/ pc'[p] = "claim" /\ outcome'[p] = outcome[p] /\ ~job[p].dry_run
      BY <1>1, <2>1, FinishUnclaimed DEF Goto, OnlyAt, Bookkeeping
    <2>4. /\ OnlyAt(p, iface, iface') /\ iface'[p] = control.number
          /\ OnlyAt(p, target, target') /\ (job[p].command = "volume" => target'[p] = address)
          /\ OnlyAt(p, run, run') /\ DOMAIN run'[p] = DOMAIN FreshRun
      BY <2>1 DEF OnlyAt, Bookkeeping
    <2>5. RowOnly(p) /\ Bookkeeping'
      BY <1>2, <2>3, <2>4 DEF RowOnly, OnlyAt, Bookkeeping, device
    <2>6. Gated(p)'
      BY <1>1, <1>2, <2>3 DEF Gated, Engaged, InSession, GatesPassed
    <2>7. Ranged(p)'
      BY <1>2, <1>4, <2>2, <2>3, <2>4, HoldsNothing DEF Ranged, Engaged, InSession
    <2>8. Found(p)'
      <3>1. InterfacesOf(dev[p])' = InterfacesOf(dev[p])
        BY <1>2 DEF InterfacesOf
      <3>2. (FindControlInterface(InterfacesOf(dev[p]).list))' = control
        BY <3>1 DEF control
      <3>3. QED BY <2>1, <2>4, <3>2 DEF Found
    <2>9. QED BY <2>3, <2>5, <2>6, <2>7, <2>8
  <1>7. QED BY <1>1, <1>2, <1>3, <1>5, <1>6

(* A claim that is granted was free.                                       *)
LEMMA ClaimStep ==
  ASSUME IInv, NEW p \in Procs, Claim(p)
  PROVE  /\ RowOnly(p) /\ Bookkeeping' /\ UNCHANGED <<wire, seen>>
         /\ Gated(p)' /\ Ranged(p)' /\ Found(p)' /\ ClaimsHeld'
  <1> USE DEF IInv
  <1>1. pc[p] = "claim" /\ ~InSession(p)
    BY DEF Claim, InSession
  <1>2. UNCHANGED <<world, device, job, aim, range, run, wire, seen>>
    BY DEF Claim
  <1>3. InterfacesOf(dev[p])' = InterfacesOf(dev[p])
    BY <1>2 DEF InterfacesOf, aim
  <1>4. seen[p] = << >> /\ outcome[p] = "none"
    BY <1>1 DEF RangeSeen, Ranged
  <1>5. /\ OnlyAt(p, pc, pc') /\ OnlyAt(p, outcome, outcome')
        /\ \/ /\ pc'[p] = "done" /\ claims' = claims
           \/ /\ claims' = claims \cup {<<dev[p], iface[p], p>>} /\ MayClaim(dev[p], iface[p])
              /\ \/ pc'[p] = "head" /\ outcome'[p] = "none"
                 \/ pc'[p] = "cur" /\ outcome'[p] = "none" /\ job[p].command # "volume"
                 \/ pc'[p] = "drop" /\ outcome'[p] # "OutOfRange"
    <2>1. CASE Finish(p, "Usb") /\ UNCHANGED claims
      BY <1>1, <2>1, FinishUnclaimed
    <2>2. CASE /\ MayClaim(dev[p], iface[p])
               /\ claims' = claims \cup {<<dev[p], iface[p], p>>}
               /\ \/ Goto(p, "head")
                  \/ Goto(p, "cur") /\ job[p].command # "volume"
                  \/ /\ pc' = [pc EXCEPT ![p] = "drop"]
                     /\ \E result \in {"ok", "Output"} : outcome' = [outcome EXCEPT ![p] = result]
      BY <1>4, <2>2 DEF Goto, OnlyAt, Bookkeeping
    <2>3. Printed("ok") \subseteq {"ok", "Output"}
      BY DEF Printed
    <2>4. QED BY <2>1, <2>2, <2>3 DEF Claim, FirstTransfer
  <1>6. RowOnly(p) /\ Bookkeeping'
    BY <1>2, <1>5 DEF RowOnly, OnlyAt, Bookkeeping, device, aim
  <1>7. Gated(p)'
    BY <1>1, <1>2, <1>5 DEF Gated, Engaged, InSession, GatesPassed
  <1>8. Ranged(p)'
    BY <1>1, <1>2, <1>4, <1>5, HoldsNothing DEF Ranged, Engaged, InSession, RangeSeen, aim
  <1>9. Found(p)'
    BY <1>1, <1>2, <1>3, <1>5 DEF Found, ControlFound, Engaged, aim
  <1>10. ClaimsHeld'
    <2>1. \A c \in claims : c[3] # p
      BY <1>1, NoClaim
    <2>2. CASE pc'[p] = "done" /\ claims' = claims
      BY <1>1, <1>2, <1>5, <2>1, <2>2 DEF ClaimsHeld, OnlyAt, InSession, aim
    <2>3. CASE /\ claims' = claims \cup {<<dev[p], iface[p], p>>} /\ MayClaim(dev[p], iface[p])
               /\ pc'[p] \in {"head", "cur", "drop"}
      <3>1. \A c \in claims : ~(c[1] = dev[p] /\ c[2] = iface[p])
        BY <2>3 DEF MayClaim
      <3>2. dev[p] \in DOMAIN world
        BY <2>3 DEF MayClaim, Bookkeeping
      <3>3. QED BY <1>1, <1>2, <1>5, <2>1, <2>3, <3>1, <3>2 DEF ClaimsHeld, OnlyAt, InSession, aim
    <2>4. QED BY <1>5, <2>2, <2>3
  <1>11. QED BY <1>2, <1>6, <1>7, <1>8, <1>9, <1>10

(* Letting go, of one's own accord or not.                                 *)
LEMMA LeaveStep ==
  ASSUME IInv, NEW p \in Procs, Drop(p) \/ Kill(p)
  PROVE  /\ RowOnly(p) /\ Bookkeeping' /\ UNCHANGED <<wire, seen>>
         /\ Gated(p)' /\ Ranged(p)' /\ Found(p)' /\ ClaimsHeld'
  <1> USE DEF IInv
  <1>1. UNCHANGED <<world, device, job, aim, range, run, wire, seen>>
    BY DEF Drop, Kill
  <1>2. /\ OnlyAt(p, pc, pc') /\ pc'[p] = "done" /\ OnlyAt(p, outcome, outcome')
        /\ claims' = {c \in claims : c[3] # p}
        /\ \/ pc[p] = "drop" /\ outcome'[p] = outcome[p]
           \/ outcome'[p] = "killed"
    BY DEF Drop, Released, Kill, OnlyAt, Bookkeeping
  <1>3. RowOnly(p) /\ Bookkeeping'
    BY <1>1, <1>2 DEF RowOnly, OnlyAt, Bookkeeping, device, aim
  <1>4. Gated(p)' /\ Found(p)'
    BY <1>2 DEF Gated, Found, Engaged, InSession
  <1>5. Ranged(p)'
    BY <1>1, <1>2 DEF Ranged, Engaged, InSession, RangeSeen
  <1>6. ClaimsHeld'
    BY <1>1, <1>2 DEF ClaimsHeld, OnlyAt, InSession, aim
  <1>7. QED BY <1>1, <1>3, <1>4, <1>5, <1>6

(* Within a session the claims stay with those who made them.              *)
LEMMA SessionClaims ==
  ASSUME Bookkeeping, ClaimsHeld, NEW p \in Procs, InSession(p), SessionFrame(p)
  PROVE  ClaimsHeld'
  <1>1. /\ claims' = claims /\ UNCHANGED world
        /\ \A q \in Procs : dev'[q] = dev[q] /\ iface'[q] = iface[q]
        /\ \A q \in Procs : InSession(q) \/ pc[q] = "drop" => InSession(q)' \/ pc'[q] = "drop"
        /\ \A q \in Procs : InSession(q)' => InSession(q)
    BY DEF SessionFrame, RowOnly, OnlyAt, Session, InSession
  <1>2. QED BY <1>1 DEF ClaimsHeld

(* Before the claim there is none to be kept.                              *)
LEMMA UnclaimedClaims ==
  ASSUME ClaimsHeld, NEW p \in Procs, RowOnly(p), claims' = claims,
         ~InSession(p), pc[p] # "drop", ~InSession(p)'
  PROVE  ClaimsHeld'
  <1>1. \A c \in claims : c[3] # p
    BY NoClaim
  <1>2. \A q \in Procs \ {p} : pc'[q] = pc[q] /\ dev'[q] = dev[q] /\ iface'[q] = iface[q]
    BY DEF RowOnly, OnlyAt
  <1>3. QED BY <1>1, <1>2 DEF ClaimsHeld, RowOnly, InSession

(* An invocation does nothing to the rows of the others.                   *)
LEMMA OthersKeep ==
  ASSUME IInv, NEW p \in Procs, RowOnly(p), Gated(p)', Ranged(p)', Found(p)'
  PROVE  GatesPassed' /\ RangeSeen' /\ ControlFound'
  <1> USE DEF IInv
  <1>1. ASSUME NEW q \in Procs \ {p}
        PROVE  Gated(q)' /\ Ranged(q)' /\ Found(q)'
    <2>1. /\ pc'[q] = pc[q] /\ outcome'[q] = outcome[q] /\ dev'[q] = dev[q] /\ iface'[q] = iface[q]
          /\ target'[q] = target[q] /\ run'[q] = run[q] /\ seen'[q] = seen[q] /\ job' = job
          /\ world' = world
      BY DEF RowOnly, OnlyAt
    <2>2. Gated(q)'
      BY <2>1 DEF GatesPassed, Gated, Engaged, InSession
    <2>3. Ranged(q)'
      BY <2>1 DEF RangeSeen, Ranged, Engaged, InSession
    <2>4. Found(q)'
      BY <2>1 DEF ControlFound, Found, Engaged, InSession, InterfacesOf
    <2>5. QED BY <2>2, <2>3, <2>4
  <1>2. QED BY <1>1 DEF GatesPassed, RangeSeen, ControlFound

(* The devices by themselves change nothing that is relied upon.           *)
LEMMA DeviceStep ==
  ASSUME IInv, Device
  PROVE  IInv'
  <1> USE DEF IInv
  <1>1. UNCHANGED <<world, claims, pc, job, outcome, aim, range, run, wire, seen>>
    BY DEF Device
  <1>2. /\ plugged' \subseteq plugged /\ DOMAIN level' = DOMAIN level
        /\ ranges' \in [DOMAIN world -> Ranges]
    BY DEF Device, Turn, Rerange, Cable, Bookkeeping
  <1>3. Bookkeeping'
    BY <1>1, <1>2 DEF Bookkeeping, aim
  <1>4. GatesPassed' /\ RangeSeen'
    BY <1>1 DEF GatesPassed, RangeSeen, Gated, Ranged, Engaged, InSession, aim
  <1>5. ControlFound'
    BY <1>1 DEF ControlFound, Found, Engaged, InSession, InterfacesOf, aim
  <1>6. ClaimsHeld'
    BY <1>1 DEF ClaimsHeld, InSession, aim
  <1>7. SetAuthorised'
    BY <1>1, SMT DEF SetAuthorised, Writes
  <1>8. QED BY <1>3, <1>4, <1>5, <1>6, <1>7

-----------------------------------------------------------------------------
(* The invariant.                                                          *)

(* Nobody holds a device at the start.                                     *)
LEMMA InitIInv == Init => IInv
  <1> SUFFICES ASSUME Init PROVE IInv
    OBVIOUS
  <1>1. \A p \in Procs : pc[p] = "start" /\ outcome[p] = "none" /\ seen[p] = << >>
    BY DEF Init
  <1>2. Bookkeeping
    BY DEF Init, Bookkeeping
  <1>3. ControlFound
    BY <1>1 DEF ControlFound, Found, Engaged, InSession
  <1>4. ClaimsHeld
    BY <1>1 DEF Init, ClaimsHeld, InSession
  <1>5. GatesPassed
    BY <1>1 DEF GatesPassed, Gated, Engaged, InSession
  <1>6. RangeSeen
    BY <1>1, HoldsNothing DEF RangeSeen, Ranged, Engaged, InSession
  <1>7. SetAuthorised
    <2>1. wire.by \notin Procs
      BY Id14ctlAssumption DEF Init, NoTransfer
    <2>2. QED BY <2>1, SMT DEF SetAuthorised
  <1>8. QED BY <1>2, <1>3, <1>4, <1>5, <1>6, <1>7 DEF IInv

(* No step of an invocation, of the device or of the cable breaks the      *)
(* invariant.                                                              *)
LEMMA NextIInv == IInv /\ [Next]_vars => IInv'
  <1> SUFFICES ASSUME IInv, [Next]_vars PROVE IInv'
    OBVIOUS
  <1> USE DEF IInv
  <1>1. ASSUME UNCHANGED <<wire, seen, job>>
        PROVE  SetAuthorised'
    BY <1>1, SMT DEF SetAuthorised, Writes
  <1>2. ASSUME NEW p \in Procs, Start(p) \/ Descriptors(p)
        PROVE  IInv'
    <2>1. /\ RowOnly(p) /\ Bookkeeping' /\ claims' = claims /\ UNCHANGED <<wire, seen>>
          /\ ~InSession(p) /\ pc[p] # "drop" /\ pc'[p] \in {"descriptors", "claim", "done"}
          /\ Gated(p)' /\ Ranged(p)' /\ Found(p)'
      BY <1>2, StartStep, DescriptorsStep
    <2>2. ~InSession(p)'
      BY <2>1 DEF InSession
    <2>3. ClaimsHeld'
      BY <2>1, <2>2, UnclaimedClaims
    <2>4. UNCHANGED job
      BY <2>1 DEF RowOnly
    <2>5. QED BY <1>1, <2>1, <2>3, <2>4, OthersKeep
  <1>3. ASSUME NEW p \in Procs, Claim(p)
        PROVE  IInv'
    <2>1. UNCHANGED job
      BY <1>3, ClaimStep DEF RowOnly
    <2>2. QED BY <1>1, <1>3, <2>1, ClaimStep, OthersKeep
  <1>4. ASSUME NEW p \in Procs, SessionStep(p)
        PROVE  IInv'
    <2>1. InSession(p) /\ SessionFrame(p) /\ Gated(p)' /\ Ranged(p)' /\ SetAuthorised'
      BY <1>4, SessionStepFrame, WireStep
    <2>2. RowOnly(p) /\ Bookkeeping'
      BY <2>1 DEF SessionFrame
    <2>3. ClaimsHeld'
      BY <2>1, SessionClaims
    <2>4. Found(p)'
      BY <2>1, <2>2 DEF SessionFrame, RowOnly, ControlFound, Found, Engaged, InterfacesOf
    <2>5. QED BY <2>1, <2>2, <2>3, <2>4, OthersKeep
  <1>5. ASSUME NEW p \in Procs, Drop(p) \/ Kill(p)
        PROVE  IInv'
    <2>1. UNCHANGED job
      BY <1>5, LeaveStep DEF RowOnly
    <2>2. QED BY <1>1, <1>5, <2>1, LeaveStep, OthersKeep
  <1>6. CASE UNCHANGED vars
    <2>1. Bookkeeping' /\ GatesPassed' /\ RangeSeen'
      BY <1>6 DEF vars, device, aim, Bookkeeping, GatesPassed, RangeSeen, Gated, Ranged, Engaged, InSession
    <2>2. ControlFound' /\ ClaimsHeld'
      BY <1>6 DEF vars, aim, ControlFound, Found, ClaimsHeld, Engaged, InSession, InterfacesOf
    <2>3. SetAuthorised'
      BY <1>1, <1>6 DEF vars
    <2>4. QED BY <2>1, <2>2, <2>3
  <1>7. QED
    <2>1. CASE Device
      BY <2>1, DeviceStep
    <2>2. QED BY <1>2, <1>3, <1>4, <1>5, <1>6, <2>1 DEF Next, Proceed, SessionStep, Over

(* The invariant holds for every set of invocations, commands, devices,    *)
(* ranges and faults.                                                      *)
THEOREM InvariantHolds == Spec => []IInv
  <1>1. QED BY InitIInv, NextIInv, PTL DEF Spec

-----------------------------------------------------------------------------
(* What follows from it.                                                   *)

(* No SET is sent but for a volume command with its gate open, for a level *)
(* inside the range this very invocation was told.                         *)
THEOREM SetIsAuthorised == Spec => []SetAuthorised
  <1>1. IInv => SetAuthorised
    BY DEF IInv
  <1>2. QED BY <1>1, InvariantHolds, PTL

(* "Out of range" is never said of a level the reported range holds.       *)
THEOREM OnlyOutsideIsRefused == Spec => []RefusedOnlyOutside
  <1>1. IInv => RefusedOnlyOutside
    <2> SUFFICES ASSUME IInv, NEW p \in Procs, outcome[p] = "OutOfRange"
                 PROVE  ~Holds(seen[p], job[p].scaled)
      BY DEF RefusedOnlyOutside
    <2>1. Ranged(p)
      BY DEF IInv, RangeSeen
    <2>2. QED BY <2>1 DEF Ranged
  <1>2. QED BY <1>1, InvariantHolds, PTL

(* A usable control interface is none of snd-usb-audio's.                  *)
LEMMA ControlIsNotAudio ==
  ASSUME NEW interfaces, FindControlInterface(interfaces).err = "none"
  PROVE  FindControlInterface(interfaces).number \notin 0..2
  <1>1. ~(FindControlInterface(interfaces).number <= 2)
    BY SMT DEF FindControlInterface
  <1>2. \A n \in 0..2 : n <= 2
    BY SMT
  <1>3. QED BY <1>1, <1>2

(* Sessions exclude each other per device and stay off the audio           *)
(* interfaces.                                                             *)
THEOREM SessionsExclude == Spec => []OneSessionPerDevice
  <1>1. IInv => OneSessionPerDevice
    <2> SUFFICES ASSUME IInv, NEW p \in Procs, InSession(p)
                 PROVE  /\ iface[p] \notin 0..2
                        /\ \A q \in Procs \ {p} : InSession(q) => dev[q] # dev[p]
      BY DEF OneSessionPerDevice
    <2>1. Found(p) /\ Engaged(p)
      BY DEF IInv, ControlFound, Engaged
    <2>2. iface[p] \notin 0..2
      BY <2>1, ControlIsNotAudio DEF Found
    <2>3. ASSUME NEW q \in Procs \ {p}, InSession(q), dev[q] = dev[p]
          PROVE  FALSE
      <3>1. iface[q] = iface[p]
        BY <2>1, <2>3 DEF IInv, ControlFound, Found, Engaged
      <3>2. <<dev[p], iface[p], p>> \in claims /\ <<dev[p], iface[p], q>> \in claims
        BY <2>3, <3>1 DEF IInv, ClaimsHeld
      <3>3. QED BY <2>3, <3>2 DEF IInv, ClaimsHeld
    <2>4. QED BY <2>2, <2>3
  <1>2. QED BY <1>1, InvariantHolds, PTL

(* An invocation that is over holds no claim, killed or not.               *)
THEOREM NothingStaysHeld == Spec => []NothingHeld
  <1>1. IInv => NothingHeld
    BY DEF IInv, ClaimsHeld, NothingHeld, InSession
  <1>2. QED BY <1>1, InvariantHolds, PTL

(* Nothing is claimed by a dry run, or to write with the gate closed.      *)
THEOREM GatesComeFirst == Spec => []GateBeforeClaim
  <1>1. IInv => GateBeforeClaim
    BY DEF IInv, GatesPassed, Gated, Engaged, GateBeforeClaim
  <1>2. QED BY <1>1, InvariantHolds, PTL

(* Seen as a panel, claims are owned by one invocation per device, and     *)
(* only the owner writes.                                                  *)
LEMMA SharedStep == IInv /\ [Next]_vars => [Shared!Next]_<<level, Owners, moves>>
  <1> SUFFICES ASSUME IInv, [Next]_vars PROVE Shared!Next \/ UNCHANGED <<level, Owners, moves>>
    OBVIOUS
  <1> USE DEF IInv
  <1>1. CASE Device
    <2>1. moves' = moves + 1 /\ UNCHANGED claims
      BY <1>1 DEF Device
    <2>2. QED BY <2>1 DEF Shared!Next, Shared!Move, Owners
  <1>2. CASE UNCHANGED <<level, claims, moves>>
    BY <1>2 DEF Owners
  <1>3. ASSUME NEW p \in Procs, SetCur(p)
        PROVE  Shared!Next \/ UNCHANGED <<level, Owners, moves>>
    <2>1. UNCHANGED <<moves, claims>> /\ pc[p] = "set"
      BY <1>3 DEF SetCur
    <2>2. UNCHANGED level \/ \E l : level' = [level EXCEPT ![dev[p]] = l]
      BY <1>3 DEF SetCur
    <2>3. UNCHANGED Owners
      BY <2>1 DEF Owners
    <2>4. ASSUME NEW l, level' = [level EXCEPT ![dev[p]] = l]
          PROVE  Shared!Next
      <3>1. <<dev[p], iface[p], p>> \in claims /\ dev[p] \in DOMAIN world
        BY <2>1 DEF ClaimsHeld, InSession
      <3>2. <<dev[p], p>> \in Owners /\ dev[p] \in DOMAIN level
        BY <3>1 DEF Owners, Bookkeeping
      <3>3. level' = [level EXCEPT ![dev[p]] = level'[dev[p]]]
        BY <2>4, <3>2
      <3>4. Shared!Write(dev[p], p)
        BY <2>1, <2>3, <3>2, <3>3 DEF Shared!Write
      <3>5. QED BY <3>2, <3>4 DEF Shared!Next
    <2>5. QED BY <2>1, <2>2, <2>3, <2>4
  <1>4. ASSUME NEW p \in Procs, Claim(p)
        PROVE  Shared!Next \/ UNCHANGED <<level, Owners, moves>>
    <2>1. UNCHANGED <<level, moves>> /\ pc[p] = "claim"
      BY <1>4 DEF Claim, device
    <2>2. CASE UNCHANGED claims
      BY <2>1, <2>2 DEF Owners
    <2>3. CASE MayClaim(dev[p], iface[p]) /\ claims' = claims \cup {<<dev[p], iface[p], p>>}
      <3>1. Owners' = Owners \cup {<<dev[p], p>>}
        <4> DEFINE new == <<dev[p], iface[p], p>>
        <4>1. new[1] = dev[p] /\ new[3] = p
          OBVIOUS
        <4> HIDE DEF new
        <4>2. claims' = claims \cup {new}
          BY <2>3 DEF new
        <4>3. QED BY <4>1, <4>2 DEF Owners
      <3>2. dev[p] \in DOMAIN level
        BY <2>3 DEF MayClaim, Bookkeeping
      <3>3. ASSUME NEW q \in Procs, <<dev[p], q>> \in Owners
            PROVE  FALSE
        <4>1. PICK c \in claims : c[1] = dev[p] /\ c[3] = q
          BY <3>3 DEF Owners
        <4>2. c = <<dev[q], iface[q], q>> /\ Engaged(q)
          BY <4>1 DEF ClaimsHeld, Engaged
        <4>3. iface[q] = iface[p]
          BY <2>1, <4>1, <4>2 DEF ControlFound, Found, Engaged
        <4>4. QED BY <2>3, <4>1, <4>2, <4>3 DEF MayClaim
      <3>4. Shared!Take(dev[p], p)
        BY <2>1, <3>1, <3>3 DEF Shared!Take
      <3>5. QED BY <3>2, <3>4 DEF Shared!Next
    <2>4. QED BY <1>4, <2>2, <2>3 DEF Claim
  <1>5. ASSUME NEW p \in Procs, Drop(p) \/ Kill(p)
        PROVE  Shared!Next \/ UNCHANGED <<level, Owners, moves>>
    <2>1. UNCHANGED <<level, moves>> /\ claims' = {c \in claims : c[3] # p}
      BY <1>5 DEF Drop, Kill, Released, device
    <2>2. CASE \A c \in claims : c[3] # p
      BY <2>1, <2>2 DEF Owners
    <2>3. CASE \E c \in claims : c[3] = p
      <3>1. \A c \in claims : \E q \in Procs : c = <<dev[q], iface[q], q>> /\ dev[q] \in DOMAIN world
        BY DEF ClaimsHeld
      <3>2. \A c \in claims : c[3] = p => c[1] = dev[p] /\ dev[p] \in DOMAIN world
        BY <3>1
      <3>3. <<dev[p], p>> \in Owners /\ dev[p] \in DOMAIN level
        BY <2>3, <3>2 DEF Owners, Bookkeeping
      <3>4. Owners' = Owners \ {<<dev[p], p>>}
        BY <2>1, <3>1, <3>2 DEF Owners
      <3>5. Shared!Leave(dev[p], p)
        BY <2>1, <3>3, <3>4 DEF Shared!Leave
      <3>6. QED BY <3>3, <3>5 DEF Shared!Next
    <2>4. QED BY <2>2, <2>3
  <1>6. QED
    <2>1. ASSUME NEW p \in Procs,
                 Start(p) \/ Descriptors(p) \/ ReadHead(p) \/ ReadBlock(p) \/ ReadCur(p) \/ ReadBack(p)
          PROVE  UNCHANGED <<level, claims, moves>>
      BY <2>1 DEF Start, Descriptors, ReadHead, ReadBlock, ReadCur, ReadBack, device
    <2>2. UNCHANGED vars => UNCHANGED <<level, claims, moves>>
      BY DEF vars, device
    <2>3. QED BY <1>1, <1>2, <1>3, <1>4, <1>5, <2>1, <2>2 DEF Next, Proceed, Over

(* Invocations share the devices as Panel promises.                        *)
THEOREM DevicesAreShared == Spec => SharedAsPanel
  <1>1. Init => Shared!Init
    BY DEF Init, Shared!Init, Owners
  <1>2. QED BY <1>1, SharedStep, InvariantHolds, PTL DEF Spec, SharedAsPanel, Shared!Spec, Shared!panel
=============================================================================

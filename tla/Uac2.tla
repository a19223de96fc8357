--------------------------------- MODULE Uac2 ---------------------------------
(***************************************************************************)
(* The UAC2 control requests of the protocol library (uac2.rs, db.rs):     *)
(* how a request is laid out in its eight bytes, how a parameter block is  *)
(* read back, and what the tables about controls say.                      *)
(*                                                                         *)
(* Integers are the bytes and words of the code.  A reply is a record: `n` *)
(* bytes arrived, `count` is what its first two bytes say, `value` its     *)
(* first field as a CUR block, and `subranges` the entries of a RANGE      *)
(* block, one per place in the buffer, whoever filled that place.          *)
(***************************************************************************)
EXTENDS Integers, Sequences

Byte == 0..255
Word == {n \in Nat : n <= 65535}

RequestAttribute == {"GetCur", "GetRange", "SetCur"}

(* REQUEST_TYPE_CLASS_INTERFACE_OUT = 0x21, _IN = 0xa1; REQUEST_CUR,       *)
(* REQUEST_RANGE.                                                          *)
IsRead(attribute) == attribute # "SetCur"
BmRequestType(attribute) == IF IsRead(attribute) THEN 161 ELSE 33
BRequest(attribute) == IF attribute = "GetRange" THEN 2 ELSE 1

(* Slip: the low byte is not cut off.                                      *)
Le16Whole(word) == <<word, word \div 256>>

Le16(word) == <<word % 256, word \div 256>>
FromLe16(low, high) == low + 256 * high

(* Slip: entity and interface change places in wIndex.                     *)
WIndexSwapped(address) == FromLe16(address.entity, address.interface)

(* An address is [entity, selector, channel, interface].                   *)
WValue(address) == FromLe16(address.channel, address.selector)
WIndex(address) == FromLe16(address.interface, address.entity)

(* A packet is [attribute, address, length].                               *)
SetupPacket(attribute, address, length) ==
  [attribute |-> attribute, address |-> address, length |-> length]

ToBytes(packet) ==
  <<BmRequestType(packet.attribute), BRequest(packet.attribute)>>
    \o Le16(WValue(packet.address)) \o Le16(WIndex(packet.address)) \o Le16(packet.length)

(* ParamLayout::size, and cur_length.                                      *)
SizeOf == [One |-> 1, Two |-> 2, Four |-> 4]

RangeCountLength == 2

(* Bytes of a RANGE block with that many entries.                          *)
BlockLength(layout, subranges) == 2 + 3 * SizeOf[layout] * subranges

(* range_length: u16::try_from, or LengthOverflow.                         *)
LengthOverflow == -1
(* Slip: `as u16` where the code has u16::try_from.                        *)
RangeLengthWrapped(layout, subranges) == BlockLength(layout, subranges) % 65536

RangeLength(layout, subranges) ==
  IF BlockLength(layout, subranges) > 65535 THEN LengthOverflow
  ELSE BlockLength(layout, subranges)

(* Sign extension.  Only Two is asked for (check_signed of a volume); a    *)
(* raw Four is beyond TLC's integers.                                      *)
Signed(layout, raw) ==
  LET half == IF layout = "One" THEN 128 ELSE 32768
  IN ((raw + half) % (2 * half)) - half

EncodeCur(layout, raw) == SubSeq(Le16(raw) \o <<0, 0>>, 1, SizeOf[layout])

(* What went wrong, or "ok".                                               *)
CurVerdict(layout, reply) == IF reply.n < SizeOf[layout] THEN "short" ELSE "ok"

CountVerdict(reply) ==
  IF reply.n < 2 THEN "short"
  ELSE IF reply.count = 0 THEN "empty"
  ELSE "ok"

(* parse_range: the count is the one in these same bytes; what follows the *)
(* entries it announces is left alone.                                     *)
RangeVerdict(layout, reply) ==
  IF CountVerdict(reply) # "ok" THEN CountVerdict(reply)
  ELSE IF reply.n < BlockLength(layout, reply.count) THEN "short"
  ELSE "ok"

(* Slip: every entry the buffer has room for is taken.                     *)
RangeEntriesAll(layout, reply) ==
  SubSeq(reply.subranges, 1, (reply.n - 2) \div (3 * SizeOf[layout]))

RangeEntries(layout, reply) == SubSeq(reply.subranges, 1, reply.count)

(* Slip: the bounds are compared as they arrived, unsigned.                *)
InRangeUnsigned(layout, entries, value) ==
  \E i \in 1..Len(entries) : entries[i].min <= value /\ value <= entries[i].max

(* check_signed: inside some subrange, bounds sign-extended.               *)
InRange(layout, entries, value) ==
  \E i \in 1..Len(entries) :
     Signed(layout, entries[i].min) <= value /\ value <= Signed(layout, entries[i].max)

-----------------------------------------------------------------------------
(* Feature Unit controls are their selectors, in bitmap order.             *)
FeatureControls == 1..15
Mute == 1
Volume == 2
GraphicEqualizer == 6
Decibel256 == {Volume, 11, 12}          (* And the two input gains.        *)
Delay == 8

(* "none" is a block of variable length.                                   *)
LayoutOf(control) ==
  CASE control \in Decibel256       -> "Two"
    [] control = Delay              -> "Four"
    [] control = GraphicEqualizer   -> "none"
    [] OTHER                        -> "One"

CurLength(control) ==
  IF LayoutOf(control) = "none" THEN 4 + 32 ELSE SizeOf[LayoutOf(control)]

ValueKind(control) ==
  CASE control \in Decibel256       -> "Decibel256"
    [] control \in {3, 4, 5}        -> "DecibelQuarter"
    [] control = Delay              -> "Unsigned"
    [] control = GraphicEqualizer   -> "Raw"
    [] OTHER                        -> "Bool"

(* A bitmap is a sequence of bit pairs here, pair k at bits 2k-1 and 2k-2  *)
(* of the word.                                                            *)
FromPair(pair) ==
  CASE pair = 0 -> "Absent" [] pair = 1 -> "ReadOnly" [] pair = 3 -> "HostProgrammable"
    [] OTHER -> "Invalid"

IsDeclared(capability) == capability \in {"ReadOnly", "HostProgrammable"}

(* from_bitmap on the bytes of a little-endian bitmap.                     *)
FromBitmap(bytes, pair_index) ==
  FromPair((bytes[1 + pair_index \div 4] \div 4 ^ (pair_index % 4)) % 4)

-----------------------------------------------------------------------------
(* db_to_raw, on decibels already counted in 1/256 dB: silence and what    *)
(* does not fit i16 are refused.                                           *)
Silence == -32768
NotALevel == -32769
DbToRaw(scaled) == IF scaled <= Silence \/ scaled > 32767 THEN NotALevel ELSE scaled
=============================================================================

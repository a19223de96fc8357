------------------------------- MODULE Descriptor -------------------------------
(***************************************************************************)
(* descriptor.rs: what the configuration descriptor says.  The bytes of    *)
(* the AudioControl interface become entities; the entities are walked for *)
(* channel counts and for the Feature Unit behind the mixer.               *)
(*                                                                         *)
(* An entity is [kind, id, sources, channels, controls]; what a kind has   *)
(* not got is << >> or 0.  Controls are the bytes of the bitmaps: four per *)
(* channel of a Feature Unit, channel 0 (master) first.                    *)
(***************************************************************************)
EXTENDS Uac2, FiniteSets, SequencesExt

ClassAudio == 1
SubclassAudioControl == 1
ProtocolUac2 == 32
ClassDfu == 254
CsInterface == 36

InterfaceInfo == [number : Byte, alt_setting : Byte, class : Byte, subclass : Byte, protocol : Byte,
                  extra : Seq(Byte)]

(* Slip: interface 0 is as good as any other.                              *)
ControlInterfaceOfAny(interfaces) ==
  LET numbers == {interfaces[k].number : k \in {j \in DOMAIN interfaces : interfaces[j].class = ClassDfu}}
  IN IF numbers = {} THEN [err |-> "none", number |-> 0]
     ELSE [err |-> "none", number |-> CHOOSE n \in numbers : TRUE]

(* find_control_interface: the one DFU interface, never 0 to 2.            *)
FindControlInterface(interfaces) ==
  LET numbers == {interfaces[k].number : k \in {j \in DOMAIN interfaces : interfaces[j].class = ClassDfu}}
      number  == CHOOSE n \in numbers : TRUE
      Err(why) == [err |-> why, number |-> 0]
  IN IF numbers = {} THEN Err("DfuInterfaceMissing")
     ELSE IF Cardinality(numbers) > 1 THEN Err("DfuInterfaceAmbiguous")
     ELSE IF number <= 2 THEN Err("ControlInterfaceReserved")
     ELSE [err |-> "none", number |-> number]

-----------------------------------------------------------------------------
(* The class-specific descriptors.                                         *)

Kinds == <<"Header", "InputTerminal", "OutputTerminal", "Mixer", "Selector", "Feature",
           "PassThrough", "Processing", "Extension", "ClockSource", "ClockSelector",
           "ClockMultiplier", "PassThrough">>
Effect == 7
SampleRateConverter == 13

(* Offset of bNrInPins; the pins follow it.                                *)
PinCount(subtype) == IF subtype \in {8, 9} THEN 6 ELSE IF subtype \in {4, 5, 11} THEN 4 ELSE 0

(* Offset of bSourceID, where there is one only.                           *)
SourceAt(subtype) ==
  CASE subtype = 3 -> 7 [] subtype \in {6, SampleRateConverter} -> 4 [] subtype = Effect -> 6 [] OTHER -> 0

(* The byte at an offset of a descriptor, counted from 0 as the code does. *)
At(desc, offset) == desc[offset + 1]
Slice(desc, start, n) == SubSeq(desc, start + 1, start + n)

Pins(desc) == IF PinCount(At(desc, 2)) = 0 THEN 0 ELSE At(desc, PinCount(At(desc, 2)))

(* Every byte parse_entity asks for is there, or EntityMalformed.          *)
WellFormed(desc) ==
  LET subtype == At(desc, 2)
      p       == Pins(desc)
      Has(offset) == offset < Len(desc)
  IN /\ PinCount(subtype) # 0 => Has(PinCount(subtype))
     /\ Has(3) /\ Has(SourceAt(subtype))
     /\ subtype = 2         => Has(8)
     /\ subtype = 4         => Len(desc) >= 13 + p
     /\ subtype = 5         => Has(4 + p)
     /\ subtype = 6         => Len(desc) - 6 >= 4 /\ (Len(desc) - 6) % 4 = 0
     /\ subtype \in {8, 9}  => Has(7 + p)
     /\ subtype = 10        => Has(5)
     /\ subtype = 11        => Has(5 + p)

(* Slip: the bitmap of a mixer reaches to the end of the descriptor.       *)
MixerBitmapAll(desc) == Slice(desc, 11 + Pins(desc), Len(desc) - 11 - Pins(desc))

(* bLength = 13 + p + N: the bitmap lies before the last two bytes.        *)
MixerBitmap(desc) == Slice(desc, 11 + Pins(desc), Len(desc) - 13 - Pins(desc))

ParseEntity(desc) ==
  LET subtype == At(desc, 2)
      p       == Pins(desc)
      afterPins == IF PinCount(subtype) # 0 /\ subtype # 5 THEN At(desc, PinCount(subtype) + 1 + p) ELSE 0
  IN [kind     |-> Kinds[subtype],
      id       |-> At(desc, 3),
      sources  |-> IF SourceAt(subtype) # 0 THEN <<At(desc, SourceAt(subtype))>>
                   ELSE IF PinCount(subtype) # 0 THEN Slice(desc, PinCount(subtype) + 1, p) ELSE << >>,
      channels |-> CASE subtype = 2 -> At(desc, 8) [] subtype \in {4, 8, 9} -> afterPins [] OTHER -> 0,
      controls |-> CASE subtype = 4  -> MixerBitmap(desc)
                     [] subtype = 6  -> Slice(desc, 5, Len(desc) - 6)
                     [] subtype = 10 -> <<At(desc, 5)>>
                     [] subtype = 11 -> <<afterPins>>
                     [] OTHER        -> << >>]

(* A clock has one byte of controls, a Feature Unit four per channel, and  *)
(* no descriptor more than its length byte can say.                        *)
EntityType ==
  {e \in [kind : ToSet(Kinds), id : Byte, sources : Seq(Byte), channels : Byte, controls : Seq(Byte)] :
     /\ Len(e.controls) <= 255
     /\ e.kind \in {"ClockSource", "ClockSelector"} => Len(e.controls) = 1
     /\ e.kind = "Feature" => Len(e.controls) % 4 = 0 /\ e.controls # << >>}

Parsed(why, entities) == [err |-> why, entities |-> entities]

(* What is no entity is passed over.                                       *)
IsEntity(desc) == Len(desc) >= 3 /\ At(desc, 1) = CsInterface /\ At(desc, 2) \in 2..13

(* The loop of parse_entities: descriptors one after the other; the first  *)
(* bad one ends the parse with an error.                                   *)
ParseLoop(extra) ==
  LET parse[loop \in [offset : 0..Len(extra), entities : Seq(EntityType)]] ==
        LET len  == At(extra, loop.offset)
            desc == Slice(extra, loop.offset, len)
        IN IF loop.offset = Len(extra) THEN Parsed("none", loop.entities)
           ELSE IF len < 2 THEN Parsed("DescriptorLengthInvalid", << >>)
           ELSE IF loop.offset + len > Len(extra) THEN Parsed("DescriptorTruncated", << >>)
           ELSE IF IsEntity(desc) /\ ~WellFormed(desc) THEN Parsed("EntityMalformed", << >>)
           ELSE parse[[offset   |-> loop.offset + len,
                       entities |-> IF IsEntity(desc) THEN Append(loop.entities, ParseEntity(desc))
                                    ELSE loop.entities]]
  IN parse

ParseEntities(extra) == ParseLoop(extra)[[offset |-> 0, entities |-> << >>]]

(* from_interfaces.                                                        *)
FromInterfaces(interfaces) ==
  LET IsControl(i) == i.class = ClassAudio /\ i.subclass = SubclassAudioControl /\ i.alt_setting = 0
      ac == interfaces[SelectInSeq(interfaces, IsControl)]
  IN IF SelectInSeq(interfaces, IsControl) = 0 THEN Parsed("AudioControlInterfaceMissing", << >>)
     ELSE IF ac.protocol # ProtocolUac2 THEN Parsed("UnsupportedAudioClass", << >>)
     ELSE ParseEntities(ac.extra)

-----------------------------------------------------------------------------
(* AudioControl: a sequence of entities.                                   *)

Position(ac, id) == SelectInSeq(ac, LAMBDA e : e.id = id)

AudioSources(entity) ==
  IF entity.kind \in {"InputTerminal", "ClockSource", "ClockSelector", "ClockMultiplier"} THEN {}
  ELSE ToSet(entity.sources)

(* FeatureUnit: channels counted with the master, capability, declares.    *)
ChannelsOf(feature) == 0..(Len(feature.controls) \div 4 - 1)
Capability(feature, channel, control) ==
  IF channel \notin ChannelsOf(feature) THEN "Absent"
  ELSE FromBitmap(Slice(feature.controls, 4 * channel, 4), control - 1)
Declared(feature, channel, control) == IsDeclared(Capability(feature, channel, control))
Declares(feature, control) == \E channel \in ChannelsOf(feature) : Declared(feature, channel, control)

(* is_programmable: most significant bit of the first byte is the node of  *)
(* input 1 and output 1.                                                   *)
IsProgrammable(mixer, u, v) ==
  LET node == (u - 1) * mixer.channels + (v - 1)
  IN /\ node \div 8 < Len(mixer.controls)
     /\ (At(mixer.controls, node \div 8) \div 2 ^ (7 - (node % 8))) % 2 = 1

(* output_channels: follow single sources upstream until somebody says how *)
(* many channels there are.  Unresolved is the error value.                *)
Unresolved == -1
Counted == {"InputTerminal", "Processing", "Mixer", "Extension"}
PassedOn == {"Feature", "PassThrough", "Selector"}
OutputChannels(ac, id) ==
  LET count[budget \in 0..(Len(ac) + 1)] ==
        [from \in Byte |->
          LET entity == ac[Position(ac, from)]
          IN IF budget = 0 \/ Position(ac, from) = 0 THEN Unresolved
             ELSE IF entity.kind \in Counted THEN entity.channels
             ELSE IF entity.kind \in PassedOn /\ entity.sources # << >>
                  THEN count[budget - 1][entity.sources[1]]
             ELSE Unresolved]
  IN count[Len(ac) + 1][id]

(* The sum of a sequence.                                                  *)
Total(numbers) ==
  LET total[k \in 0..Len(numbers)] == IF k = 0 THEN 0 ELSE total[k - 1] + numbers[k]
  IN total[Len(numbers)]

(* Slip: the bitmap need only be long enough.                              *)
BitmapHolds(nodes, bytes) == bytes * 8 >= nodes

BitmapFits(nodes, bytes) == nodes <= 256 /\ (nodes + 7) \div 8 = bytes

(* mixer_input_channels (the u16 sum cannot overflow with 255 sources of   *)
(* 255 channels).                                                          *)
MixerInputChannels(ac, mixer) ==
  LET counts == [k \in DOMAIN mixer.sources |-> OutputChannels(ac, mixer.sources[k])]
      inputs == Total(counts)
  IN IF Unresolved \in ToSet(counts) \/ ~BitmapFits(inputs * mixer.channels, Len(mixer.controls))
     THEN Unresolved ELSE inputs

(* Slip: the walk does not stop at the nearest units.                      *)
WalkOn(hits, further) == hits \cup further

StopAtNearest(hits, further) == IF hits # {} THEN hits ELSE further

(* One mixer of mixer_output_feature_unit, a level of the walk per call:   *)
(* new entities fed by the frontier, the first of each id.                 *)
WalkFrom(ac, mixer) ==
  LET walk[at \in [frontier : SUBSET Byte, visited : SUBSET Byte]] ==
        LET Fed(k)  == ac[k].id \notin at.visited /\ AudioSources(ac[k]) \cap at.frontier # {}
            level   == {k \in DOMAIN ac : Fed(k) /\ \A j \in 1..(k - 1) : Fed(j) => ac[j].id # ac[k].id}
            hits    == {k \in level : ac[k].kind = "Feature" /\ Declares(ac[k], Volume)}
            Ids(ks) == {ac[k].id : k \in ks}
            next    == Ids({k \in level \ hits : ac[k].kind # "OutputTerminal"})
        IN StopAtNearest(Ids(hits),
             IF next = {} THEN {} ELSE walk[[frontier |-> next, visited |-> at.visited \cup Ids(level)]])
  IN walk[[frontier |-> {mixer.id}, visited |-> {mixer.id}]]

(* mixer_output_feature_unit: the position of the unit, or an error.       *)
MixerOutputFeatureUnit(ac) ==
  LET found == UNION {WalkFrom(ac, ac[k]) : k \in {j \in DOMAIN ac : ac[j].kind = "Mixer"}}
      first == Position(ac, CHOOSE id \in found : TRUE)
      Err(why) == [err |-> why, at |-> 0]
  IN IF found = {} THEN Err("MixerOutputFeatureUnitMissing")
     ELSE IF Cardinality(found) > 1 THEN Err("MixerOutputFeatureUnitAmbiguous")
     ELSE IF first = 0 \/ ac[first].kind # "Feature" THEN Err("UnknownEntity")
     ELSE [err |-> "none", at |-> first]

(* declared_mute_controls.                                                 *)
DeclaredMuteControls(ac) ==
  UNION {{<<ac[k].id, channel>> : channel \in {c \in ChannelsOf(ac[k]) : Declared(ac[k], c, Mute)}} :
           k \in {j \in DOMAIN ac : ac[j].kind = "Feature"}}
=============================================================================

---------------------------------- MODULE Plan ----------------------------------
(***************************************************************************)
(* plan.rs: the requests `dump` and `volume` will make, worked out from    *)
(* the entities before anything is sent.                                   *)
(***************************************************************************)
EXTENDS Descriptor

SamFreqControl == 1
ClockSelectorControl == 1
MixerControl == 1

Addresses == [entity : Byte, selector : Byte, channel : Byte, interface : Byte]
Address(entity, selector, channel, interface) ==
  [entity |-> entity, selector |-> selector, channel |-> channel, interface |-> interface]

(* DumpRead; the target is the address and, for a mixer node, its place.   *)
ValueKinds == {"Hertz", "SelectorPin", "Decibel256", "DecibelQuarter", "Unsigned", "Raw", "Bool"}
Reads == [address : Addresses, layout : {"One", "Two", "Four", "none"}, cur_length : Word,
          kind : ValueKinds, read_range : BOOLEAN]
DumpRead(address, layout, cur_length, kind, read_range) ==
  [address |-> address, layout |-> layout, cur_length |-> cur_length, kind |-> kind,
   read_range |-> read_range]

CurPacket(read) == SetupPacket("GetCur", read.address, read.cur_length)
RangeCountPacket(address) == SetupPacket("GetRange", address, RangeCountLength)
RangePacket(address, layout, subranges) ==
  SetupPacket("GetRange", address, RangeLength(layout, subranges))

(* Only a fixed layout has a range to be read.                             *)
ReadsRange(read) == read.read_range /\ read.layout # "none"

(* The reads of one entity.                                                *)
ClockReads(clock, interface) ==
  IF ~IsDeclared(FromBitmap(clock.controls, 0)) THEN << >>
  ELSE IF clock.kind = "ClockSource"
       THEN <<DumpRead(Address(clock.id, SamFreqControl, 0, interface), "Four", 4, "Hertz", TRUE)>>
       ELSE <<DumpRead(Address(clock.id, ClockSelectorControl, 0, interface), "One", 1, "SelectorPin", FALSE)>>

FeatureRead(feature, interface, channel, control) ==
  DumpRead(Address(feature.id, control, channel, interface), LayoutOf(control), CurLength(control),
           ValueKind(control), control = Volume)

(* The reads of one channel: its declared controls.                        *)
ChannelReads(feature, interface, channel) ==
  FlattenSeq([control \in FeatureControls |->
    IF Declared(feature, channel, control) THEN <<FeatureRead(feature, interface, channel, control)>>
    ELSE << >>])

(* Slip: the loop over channels leaves out the last one.                   *)
FeatureReadsShort(feature, interface) ==
  FlattenSeq([k \in 1..(Cardinality(ChannelsOf(feature)) - 1) |-> ChannelReads(feature, interface, k - 1)])

(* Every declared control of every channel.                                *)
FeatureReads(feature, interface) ==
  FlattenSeq([k \in 1..(Len(feature.controls) \div 4) |-> ChannelReads(feature, interface, k - 1)])

(* Slip: rows are counted by inputs.                                       *)
NodeNumberByInput(u, v, inputs, outputs) == (v - 1) * outputs + (u - 1)

(* The mixer control number of a node; the nodes are row-major.            *)
NodeNumber(u, v, inputs, outputs) == (u - 1) * outputs + (v - 1)

MixerReads(ac, mixer, interface) ==
  LET inputs  == MixerInputChannels(ac, mixer)
      outputs == mixer.channels
      Read(k) == DumpRead(Address(mixer.id, MixerControl,
                                  NodeNumber((k - 1) \div outputs + 1, ((k - 1) % outputs) + 1, inputs, outputs),
                                  interface),
                          "Two", 2, "Decibel256", FALSE)
  IN IF inputs = Unresolved THEN << >> ELSE [k \in 1..(inputs * outputs) |-> Read(k)]

(* dump_plan: reads in descriptor order; a mixer whose shape cannot be     *)
(* resolved is left out and named.                                         *)
DumpPlan(ac, interface) ==
  FlattenSeq([k \in DOMAIN ac |->
    IF ac[k].kind \in {"ClockSource", "ClockSelector"} THEN ClockReads(ac[k], interface)
    ELSE IF ac[k].kind = "Feature" THEN FeatureReads(ac[k], interface)
    ELSE IF ac[k].kind = "Mixer" THEN MixerReads(ac, ac[k], interface)
    ELSE << >>])

Skipped(ac) ==
  {ac[k].id : k \in {j \in DOMAIN ac : ac[j].kind = "Mixer" /\ MixerInputChannels(ac, ac[j]) = Unresolved}}

(* volume_target: only a host-programmable control is a target.            *)
VolumeTarget(ac, interface, channel) ==
  LET found == MixerOutputFeatureUnit(ac)
      unit  == ac[found.at]
      Answer(why, entity) == [err |-> why, address |-> Address(entity, Volume, channel, interface)]
  IN IF found.err # "none" THEN Answer(found.err, 0)
     ELSE CASE Capability(unit, channel, Volume) = "HostProgrammable" -> Answer("none", unit.id)
            [] Capability(unit, channel, Volume) = "ReadOnly"         -> Answer("VolumeNotWritable", unit.id)
            [] OTHER                                                  -> Answer("VolumeNotDeclared", unit.id)

(* VolumeTarget's two writes on the wire.                                  *)
SetRequest(address) == SetupPacket("SetCur", address, SizeOf["Two"])
ReadbackPacket(address) == SetupPacket("GetCur", address, SizeOf["Two"])
=============================================================================

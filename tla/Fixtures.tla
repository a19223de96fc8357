-------------------------------- MODULE Fixtures --------------------------------
(***************************************************************************)
(* Descriptors as bytes: the encoders and the synthetic mk2 of fixtures.rs *)
(* (bytes no test and no parser looks at are 0), and, for kinds the        *)
(* fixtures do not use, the layout the UAC2 standard gives them.           *)
(***************************************************************************)
EXTENDS Descriptor

Zeros(n) == [k \in 1..n |-> 0]
Sized(rest) == <<Len(rest) + 1>> \o rest
Desc(subtype, rest) == Sized(<<CsInterface, subtype>> \o rest)

InputTerminal(id, channels) == Desc(2, <<id, 1, 2, 0, 40, channels>> \o Zeros(8))
OutputTerminal(id, source) == Desc(3, <<id, 1, 3, 0, source, 40>> \o Zeros(3))
FeatureUnit(id, source, controls) == Desc(6, <<id, source>> \o controls \o <<0>>)
ExtensionUnit(id, code, sources, channels) ==
  Desc(9, <<id>> \o Le16(code) \o <<Len(sources)>> \o sources \o <<channels>> \o Zeros(7))
MixerUnit(id, sources, outputs, bitmap) ==
  Desc(4, <<id, Len(sources)>> \o sources \o <<outputs>> \o Zeros(5) \o bitmap \o <<0, 0>>)
ClockSource(id, controls) == Desc(10, <<id, 3, controls, 0, 0>>)
ClockSelector(id, sources, controls) == Desc(11, <<id, Len(sources)>> \o sources \o <<controls, 0>>)
Header == Desc(1, <<0, 2, 8, 0, 0, 0>>)

SelectorUnit(id, sources) == Desc(5, <<id, Len(sources)>> \o sources \o <<0, 0>>)
EffectUnit(id, source) == Desc(7, <<id, 1, 0, source>> \o Zeros(9))
ProcessingUnit(id, sources, channels) ==
  Desc(8, <<id, 1, 0, Len(sources)>> \o sources \o <<channels>> \o Zeros(9))
ClockMultiplier(id) == Desc(12, <<id>> \o Zeros(3))

(* The bytes of an entity.                                                 *)
Encode(e) ==
  CASE e.kind = "InputTerminal"   -> InputTerminal(e.id, e.channels)
    [] e.kind = "OutputTerminal"  -> OutputTerminal(e.id, e.sources[1])
    [] e.kind = "Feature"         -> FeatureUnit(e.id, e.sources[1], e.controls)
    [] e.kind = "Extension"       -> ExtensionUnit(e.id, 0, e.sources, e.channels)
    [] e.kind = "Mixer"           -> MixerUnit(e.id, e.sources, e.channels, e.controls)
    [] e.kind = "Selector"        -> SelectorUnit(e.id, e.sources)
    [] e.kind = "PassThrough"     -> EffectUnit(e.id, e.sources[1])
    [] e.kind = "Processing"      -> ProcessingUnit(e.id, e.sources, e.channels)
    [] e.kind = "ClockSource"     -> ClockSource(e.id, e.controls[1])
    [] e.kind = "ClockSelector"   -> ClockSelector(e.id, e.sources, e.controls[1])
    [] e.kind = "ClockMultiplier" -> ClockMultiplier(e.id)

EncodeAll(entities) == Header \o FlattenSeq([k \in DOMAIN entities |-> Encode(entities[k])])

(* VOLUME_PROGRAMMABLE, and channels that have it or nothing.              *)
VolumeProgrammable == <<12, 0, 0, 0>>
NoControls == <<0, 0, 0, 0>>
Repeat(s, n) == FlattenSeq([k \in 1..n |-> s])

(* Entities as the fixtures declare them.                                  *)
Entity(kind, id, sources, channels, controls) ==
  [kind |-> kind, id |-> id, sources |-> sources, channels |-> channels, controls |-> controls]

(* mk2_synthetic_audio_control_extra.                                      *)
Mk2Entities ==
  <<Entity("ClockSource", 41, << >>, 0, <<7>>),
    Entity("ClockSelector", 40, <<41>>, 0, <<3>>),
    Entity("InputTerminal", 1, << >>, 8, << >>),
    Entity("InputTerminal", 2, << >>, 8, << >>),
    Entity("Feature", 11, <<1>>, 0, NoControls \o Repeat(VolumeProgrammable, 8)),
    Entity("Extension", 54, <<2>>, 8, << >>),
    Entity("Mixer", 60, <<11, 54>>, 6, Repeat(<<255>>, 11) \o <<0>>),
    Entity("Feature", 12, <<60>>, 0, NoControls \o Repeat(VolumeProgrammable, 4) \o Repeat(NoControls, 2)),
    Entity("Extension", 62, <<60>>, 6, << >>),
    Entity("Extension", 55, <<12>>, 6, << >>),
    Entity("Extension", 50, <<1>>, 8, << >>),
    Entity("Extension", 52, <<2>>, 8, << >>),
    Entity("Extension", 51, <<55>>, 6, << >>),
    Entity("OutputTerminal", 20, <<51>>, 0, << >>)>>

Interface(number, alt, class, subclass, protocol, extra) ==
  [number |-> number, alt_setting |-> alt, class |-> class, subclass |-> subclass,
   protocol |-> protocol, extra |-> extra]

(* mk2_synthetic_interfaces, with any AudioControl bytes and DFU number.   *)
InterfacesWith(extra, dfu) ==
  <<Interface(0, 0, ClassAudio, SubclassAudioControl, ProtocolUac2, extra),
    Interface(1, 0, ClassAudio, 2, ProtocolUac2, << >>),
    Interface(1, 1, ClassAudio, 2, ProtocolUac2, << >>),
    Interface(2, 0, ClassAudio, 2, ProtocolUac2, << >>),
    Interface(2, 1, ClassAudio, 2, ProtocolUac2, << >>),
    Interface(3, 0, 3, 0, 0, << >>),
    Interface(dfu, 0, ClassDfu, 1, 1, << >>)>>
=============================================================================

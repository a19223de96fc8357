------------------------------- MODULE MCId14ctl -------------------------------
(* Instances for TLC: descriptors, commands and device behaviour.          *)
EXTENDS Id14ctlInv, Fixtures

Device1(config, entities) ==
  [vid |-> Vid, pid |-> 8, bus |-> 1, address |-> 5, active |-> 1,
   configs |-> <<config>>, declared |-> entities]
Config(extra, dfu) == [value |-> 1, interfaces |-> InterfacesWith(extra, dfu)]
WorldOf(entities) == <<Device1(Config(EncodeAll(entities), 4), entities)>>

(* Topologies behind a mixer: three units of any of these kinds, fed by    *)
(* the mixer or by one another.                                            *)
In1 == Entity("InputTerminal", 1, << >>, 2, << >>)
MixerOf(id, sources) == Entity("Mixer", id, sources, 2, <<240>>)
Volumes(id, s) == Entity("Feature", id, <<s>>, 0, NoControls \o VolumeProgrammable)
Plain(id, s) == Entity("Feature", id, <<s>>, 0, Repeat(<<3, 0, 0, 0>>, 2))
Select(id, s) == Entity("Selector", id, <<1, s>>, 0, << >>)
Xu(id, s) == Entity("Extension", id, <<s>>, 2, << >>)
Out(id, s) == Entity("OutputTerminal", id, <<s>>, 0, << >>)
Unit(id, s) == {Volumes(id, s), Plain(id, s), Select(id, s), Out(id, s)}
UnitOf(id) == UNION {Unit(id, s) : s \in {3, 4, 5, 6} \ {id}}
Topologies ==
  {<<In1, MixerOf(3, <<1>>), a, b, c>> : a \in UnitOf(4), b \in UnitOf(5), c \in UnitOf(6)}
TwoMixers ==
  {<<In1, MixerOf(3, <<1>>), a, MixerOf(5, <<4>>), c>> : a \in UnitOf(4) , c \in UnitOf(6)}

(* Mixers at the edges of what MixerInputChannels accepts: inputs,         *)
(* outputs, bytes of bitmap.                                               *)
Shape(inputs, outputs, bytes) ==
  <<Entity("InputTerminal", 1, << >>, inputs, << >>), Entity("PassThrough", 2, <<1>>, 0, << >>),
    Entity("Mixer", 3, <<2>>, outputs, Repeat(<<165>>, bytes))>>
Shapes == {Shape(s[1], s[2], s[3]) :
            s \in {<<3, 3, 2>>, <<3, 3, 1>>, <<2, 4, 1>>, <<2, 4, 2>>, <<0, 4, 0>>,
                   <<16, 16, 32>>, <<17, 16, 34>>}}

(* Every kind, and a mixer fed through each kind that passes channels on.  *)
AllKinds ==
  <<Entity("ClockMultiplier", 43, << >>, 0, << >>), Entity("ClockSource", 41, << >>, 0, <<1>>),
    Entity("ClockSource", 42, << >>, 0, <<2>>), Entity("ClockSelector", 40, <<41, 42>>, 0, <<3>>),
    Entity("InputTerminal", 1, << >>, 1, << >>), Entity("Selector", 2, <<1, 9>>, 0, << >>),
    Entity("Processing", 4, <<1, 2>>, 2, << >>),
    Entity("Feature", 5, <<2>>, 0, <<255, 255, 255, 63>> \o <<85, 170, 85, 42>>),
    Entity("Mixer", 6, <<5, 4, 7>>, 2, <<255>>), Entity("Extension", 7, <<6>>, 1, << >>),
    Entity("Feature", 8, <<6>>, 0, NoControls \o <<4, 0, 0, 0>>),
    Entity("OutputTerminal", 10, <<8>>, 0, << >>)>>
(* A mixer whose count is nowhere to be found: a loop, a missing entity.   *)
Loop == <<Entity("Selector", 2, <<5>>, 0, << >>), Entity("Feature", 5, <<2>>, 0, NoControls),
          Entity("Mixer", 6, <<5>>, 2, <<255>>), Entity("Mixer", 7, <<9>>, 2, <<255>>)>>

(* The mk2, whole and cut after any byte.                                  *)
Mk2Extra == EncodeAll(Mk2Entities)
CutWorld(k) == <<Device1(Config(SubSeq(Mk2Extra, 1, k), 4), Mk2Entities)>>

Ask(command, dry_run, enable_write, scaled, channel) ==
  [command |-> command, dry_run |-> dry_run, enable_write |-> enable_write, scaled |-> scaled,
   channel |-> channel]
WalkJobs == {Ask("volume", FALSE, TRUE, -5120, 1), Ask("dump", FALSE, FALSE, 0, 0)}
WalkWorlds ==
  {WorldOf(t) : t \in Topologies \cup TwoMixers \cup Shapes \cup {AllKinds, Loop, Mk2Entities}}
    \cup {CutWorld(k) : k \in 0..(Len(Mk2Extra) - 1)}

(* -127 dB to 0 dB in steps of 1 dB.                                       *)
Mk2Range == <<[min |-> 33024, max |-> 0, res |-> 256]>>
WalkRanges == {Mk2Range}

-----------------------------------------------------------------------------
(* A small device, for what happens while it is talked to.                 *)
Small == <<Entity("InputTerminal", 1, << >>, 1, << >>), MixerOf(3, <<1>>), Volumes(4, 3)>>
(* Two configurations that agree, or do not, when the active one is not    *)
(* found; an mk1 beside the mk2; a DFU interface where audio is.           *)
Second(d) == [d EXCEPT !.bus = 0, !.pid = 2]
SmallDevice == WorldOf(Small)[1]
OtherConfig == [SmallDevice.configs[1] EXCEPT !.value = 2]
SessionWorlds == {<<SmallDevice>>}
ArgumentWorlds ==
  {<<[SmallDevice EXCEPT !.active = a, !.configs = @ \o c]>> :
      a \in {-1, 0, 1}, c \in {<< >>, SmallDevice.configs, <<OtherConfig>>}}
    \cup {<<[SmallDevice EXCEPT !.configs[1] = Config(EncodeAll(Small), dfu)]>> : dfu \in {0, 2, 3}}
    \cup {<<[SmallDevice EXCEPT !.pid = 9]>>, <<SmallDevice, Second(SmallDevice)>>}
CommandJobs ==
  {Ask(c, dry, gate, -5120, 1) : c \in {"volume", "mute", "list", "info", "dump", "request-set", "request-get"},
                                 dry \in BOOLEAN, gate \in BOOLEAN}
    \cup {Ask("volume", FALSE, TRUE, -32768, 1), Ask("volume", FALSE, TRUE, 0, 0)}
SessionJobs ==
  {Ask("volume", FALSE, TRUE, v, 1) : v \in {-5120, 256}} \cup {Ask("dump", FALSE, FALSE, 0, 0)}
SessionRanges == {Mk2Range, <<[min |-> 60416, max |-> 61440, res |-> 256], [min |-> 0, max |-> 512, res |-> 1]>>}
Symmetry == Permutations(Procs)

(* What the theorem on the target of a volume command supposes.            *)
ASSUME UniqueIds == IdsAreUnique
=============================================================================

-------------------------------- MODULE Id14ctl --------------------------------
(***************************************************************************)
(* Invocations of id14ctl (main.rs, usb.rs, ops.rs) against devices that   *)
(* are plugged in and out, whose knob is turned, and that answer as they   *)
(* please.  One step of an invocation is one thing it asks of the outside: *)
(* enumerating, reading descriptors, claiming, one control transfer,       *)
(* letting go.                                                             *)
(***************************************************************************)
EXTENDS Topology

CONSTANTS
  Procs,      (* Invocations.                                              *)
  Jobs,       (* What an invocation may be asked: [command, dry_run,       *)
              (* enable_write, scaled, channel]; scaled is the level in    *)
              (* 1/256 dB as written on the command line.                  *)
  Worlds,     (* What may be attached: sequences of [vid, pid, bus,        *)
              (* address, active, configs]; configs are [value,            *)
              (* interfaces], the unreadable ones with value 0; active is  *)
              (* an index, 0 (NotFound) or -1 (another error).             *)
  Ranges,     (* Sets of subranges a volume control may report.            *)
  Levels,     (* Levels the knob may be turned to, 16-bit.                 *)
  OddCounts,  (* Wrong wNumSubRanges a device may answer.                  *)
  Faults,     (* Of stall, late, short, pad, pipe, kill, unplug.           *)
  MaxMoves    (* Bound on what happens to the devices by themselves.       *)

ASSUME Id14ctlAssumption ==
  /\ "nobody" \notin Procs
  /\ Jobs \subseteq [command : STRING, dry_run : BOOLEAN, enable_write : BOOLEAN, scaled : Int,
                    channel : Byte]
  /\ Worlds \subseteq Seq([vid : Word, pid : Word, bus : Byte, address : Byte, active : Int,
                           configs : Seq([value : Byte, interfaces : Seq(InterfaceInfo)]),
                           declared : Seq(EntityType)])
  /\ \A w \in Worlds : \A d \in DOMAIN w :
       /\ w[d].active <= Len(w[d].configs)
       /\ \A e \in DOMAIN w \ {d} : w[d].bus # w[e].bus \/ w[d].address # w[e].address
  /\ Levels \subseteq Word /\ Levels # {} /\ MaxMoves \in Nat
  /\ OddCounts \subseteq Word
  /\ Ranges \subseteq Seq([min : Word, max : Word, res : Word])

VARIABLES
  world,      (* Chosen at the start.                                      *)
  plugged, level, ranges,                    (* The devices.               *)
  claims,     (* Kernel: <<device, interface, invocation>>.                *)
  pc, job, outcome,                          (* The invocations, and what  *)
  dev, iface, target,                        (* they talk to,              *)
  range, run,                                (* what they got so far.      *)
  wire,       (* The last transfer.                                        *)
  seen,       (* What the device reported when a RANGE block was taken.    *)
  moves

device == <<plugged, level, ranges, moves>>
aim == <<dev, iface, target>>
vars == <<world, device, claims, pc, job, outcome, aim, range, run, wire, seen>>

NoAddress == Address(0, 0, 0, 0)
NoTransfer == [by |-> "nobody", to |-> 0, bytes |-> << >>, payload |-> << >>,
               meant |-> NoAddress, room |-> 0]
FreshRun == [reads |-> << >>, count |-> 0, printed |-> {}, failed |-> 0, readback |-> NotALevel]

Init ==
  /\ world \in Worlds
  /\ plugged \in (SUBSET DOMAIN world) \ {{}}
  /\ level = [d \in DOMAIN world |-> CHOOSE l \in Levels : TRUE]
  /\ ranges \in [DOMAIN world -> Ranges]
  /\ claims = {}
  /\ pc = [p \in Procs |-> "start"]
  /\ job \in [Procs -> Jobs]
  /\ dev = [p \in Procs |-> 0] /\ iface = [p \in Procs |-> 0]
  /\ target = [p \in Procs |-> NoAddress]
  /\ range = [p \in Procs |-> << >>] /\ run = [p \in Procs |-> FreshRun]
  /\ outcome = [p \in Procs |-> "none"]
  /\ wire = NoTransfer
  /\ seen = [p \in Procs |-> << >>]
  /\ moves = 0

-----------------------------------------------------------------------------
(* Products and enumeration.                                               *)

Vid == 9992
ProductOf(d) ==
  CASE world[d].vid = Vid /\ world[d].pid = 2 -> "Mk1"
    [] world[d].vid = Vid /\ world[d].pid = 8 -> "Mk2"
    [] OTHER                                  -> "unknown"

AutodetectRank(d) == IF ProductOf(d) = "Mk2" THEN 0 ELSE 1

Before(d, e) ==
  LET Key(x) == <<AutodetectRank(x), world[x].bus, world[x].address>>
  IN \E k \in 1..3 : Key(d)[k] < Key(e)[k] /\ \A j \in 1..(k - 1) : Key(d)[j] = Key(e)[j]

Enumerate == {d \in plugged : ProductOf(d) # "unknown"}
Primary == CHOOSE d \in Enumerate : \A e \in Enumerate \ {d} : Before(d, e)

(* select_unambiguous_config: candidates that agree are one.               *)
UnambiguousConfig(candidates) == Cardinality(candidates) = 1

(* DetectedDevice::interfaces, from the cached descriptors.                *)
Interfaces(attached) ==
  LET candidates == {c \in ToSet(attached.configs) : c.value # 0}
  IN IF attached.active > 0 THEN [err |-> "none", list |-> attached.configs[attached.active].interfaces]
     ELSE IF attached.active = 0 /\ UnambiguousConfig(candidates)
          THEN [err |-> "none", list |-> (CHOOSE c \in candidates : TRUE).interfaces]
     ELSE [err |-> "Usb", list |-> << >>]
InterfacesOf(d) == Interfaces(world[d])

-----------------------------------------------------------------------------
(* An invocation ends: whatever it claimed is dropped first.               *)
Finish(p, result) ==
  /\ pc' = [pc EXCEPT ![p] = IF \E c \in claims : c[3] = p THEN "drop" ELSE "done"]
  /\ outcome' = [outcome EXCEPT ![p] = result]

Goto(p, label) == pc' = [pc EXCEPT ![p] = label] /\ UNCHANGED outcome

FirstTransfer(read) == IF ReadsRange(read) THEN "head" ELSE "cur"

(* What is refused before anything is looked at: the write gate, then the  *)
(* level, then what `request` is for.                                      *)
Refusal(j) ==
  IF j.command \in {"volume", "mute", "request-set"} /\ ~j.enable_write THEN "WriteDisabled"
  ELSE IF j.command = "volume" /\ DbToRaw(j.scaled) = NotALevel THEN "InvalidDecibels"
  ELSE IF j.command \in {"request-get", "request-set"}
       THEN IF j.dry_run THEN "ok" ELSE "RequestSendUnsupported"
  ELSE "none"

(* A result that is printed may meet a closed pipe instead.                *)
Printed(result) == {result} \cup (IF "pipe" \in Faults /\ result = "ok" THEN {"Output"} ELSE {})

(* run up to select_primary; libusb may refuse to list.                    *)
Start(p) ==
  LET why == Refusal(job[p])
  IN /\ pc[p] = "start"
     /\ \/ why # "none" /\ (\E result \in Printed(why) : Finish(p, result)) /\ UNCHANGED dev
        \/ why = "none" /\ "stall" \in Faults /\ Finish(p, "Usb") /\ UNCHANGED dev
        \/ why = "none" /\ job[p].command = "list" /\ (\E result \in Printed("ok") : Finish(p, result)) /\ UNCHANGED dev
        \/ why = "none" /\ job[p].command # "list" /\ Enumerate = {} /\ Finish(p, "NoDevice") /\ UNCHANGED dev
        \/ /\ why = "none" /\ job[p].command # "list" /\ Enumerate # {}
           /\ dev' = [dev EXCEPT ![p] = Primary]
           /\ IF job[p].command = "info" THEN \E result \in Printed("ok") : Finish(p, result)
              ELSE Goto(p, "descriptors")
     /\ UNCHANGED <<world, device, claims, job, iface, target, range, run, wire, seen>>

(* Slip: --dry-run is looked at after the device has been opened.          *)
StopsDryNever(j) == FALSE
StopsDry(j) == j.dry_run

(* Descriptors are read and everything is planned: dump, volume and mute   *)
(* up to open_control.                                                     *)
Planned(p, ac, control) ==
  LET volume == VolumeTarget(ac.entities, control.number, job[p].channel)
      Refuse(why) == Finish(p, why) /\ UNCHANGED <<iface, target, run>>
  IN IF ac.err # "none" THEN Refuse(ac.err)
     ELSE IF job[p].command = "mute"
          THEN Refuse(IF DeclaredMuteControls(ac.entities) = {} THEN "NoDeclaredMuteControl"
                      ELSE "MuteNotSpecified")
     ELSE IF control.err # "none" THEN Refuse(control.err)
     ELSE IF job[p].command = "volume" /\ volume.err # "none" THEN Refuse(volume.err)
     ELSE /\ iface' = [iface EXCEPT ![p] = control.number]
          /\ IF job[p].command = "volume"
             THEN target' = [target EXCEPT ![p] = volume.address] /\ UNCHANGED run
             ELSE run' = [run EXCEPT ![p].reads = DumpPlan(ac.entities, control.number)] /\ UNCHANGED target
          /\ IF StopsDry(job[p]) THEN \E result \in Printed("ok") : Finish(p, result) ELSE Goto(p, "claim")

Descriptors(p) ==
  LET found == InterfacesOf(dev[p])
  IN /\ pc[p] = "descriptors"
     /\ \/ /\ found.err = "none"
           /\ \E ac \in {FromInterfaces(found.list)} : Planned(p, ac, FindControlInterface(found.list))
        \/ /\ found.err # "none" \/ dev[p] \notin plugged
           /\ Finish(p, "Usb") /\ UNCHANGED <<iface, target, run>>
     /\ UNCHANGED <<world, device, claims, job, dev, range, wire, seen>>

(* Slip: a claim that fails is not looked at.                              *)
MayClaimAnyway(d, interface) == d \in plugged

(* The kernel: open and claim_interface.                                   *)
MayClaim(d, interface) == d \in plugged /\ ~\E c \in claims : c[1] = d /\ c[2] = interface

(* open_control; the first request follows at once.                        *)
Claim(p) ==
  /\ pc[p] = "claim"
  /\ \/ /\ MayClaim(dev[p], iface[p])
        /\ claims' = claims \cup {<<dev[p], iface[p], p>>}
        /\ IF job[p].command = "volume" THEN Goto(p, "head")
           ELSE IF run[p].reads # << >> THEN Goto(p, FirstTransfer(Head(run[p].reads)))
           ELSE /\ pc' = [pc EXCEPT ![p] = "drop"]
                /\ \E result \in Printed("ok") : outcome' = [outcome EXCEPT ![p] = result]
     \/ /\ ~MayClaim(dev[p], iface[p]) \/ "stall" \in Faults
        /\ Finish(p, "Usb") /\ UNCHANGED claims
  /\ UNCHANGED <<world, device, job, aim, range, run, wire, seen>>

-----------------------------------------------------------------------------
(* The device, as far as the code relies on it.                            *)

(* What the bytes of a request ask for.                                    *)
Asked(bytes) == [entity |-> bytes[6], selector |-> bytes[4], channel |-> bytes[3],
                 interface |-> bytes[5], length |-> FromLe16(bytes[7], bytes[8])]

(* Sampling rates, where the range is not that of a volume.                *)
FixedRange == <<[min |-> 44100, max |-> 48000, res |-> 3900]>>
RangeOf(d, selector) == IF selector = Volume THEN ranges[d] ELSE FixedRange

(* A buffer's worth of something else.                                     *)
Stale == [min |-> 32769, max |-> 32767, res |-> 0]

(* Bytes that arrive for a block: as many as fit, fewer (short), or a full *)
(* buffer (pad).                                                           *)
Arriving(block, length) ==
  LET whole == IF block < length THEN block ELSE length
  IN {whole} \cup (IF "short" \in Faults THEN {1, whole - 1} ELSE {})
             \cup (IF "pad" \in Faults THEN {length} ELSE {})

(* The number of entries it announces; a wrong one only to a request that  *)
(* has no room for entries.                                                *)
Announced(entries, length) ==
  {entries} \cup (IF length = RangeCountLength THEN OddCounts ELSE {})

(* What the places of the buffer hold.                                     *)
Filled(entries, places) == [k \in 1..places |-> IF k <= Len(entries) THEN entries[k] ELSE Stale]

(* The replies to a RANGE request.                                         *)
RangeReplies(d, layout, bytes) ==
  LET length   == Asked(bytes).length
      reported == RangeOf(d, Asked(bytes).selector)
  IN {[n |-> n, count |-> c, value |-> 0,
       subranges |-> Filled(reported, length \div (3 * SizeOf[layout]) + 1)] :
         n \in Arriving(BlockLength(layout, Len(reported)), length),
         c \in Announced(Len(reported), length)}

CurReplies(d, bytes) ==
  LET asked == Asked(bytes)
  IN {[n |-> n, count |-> 0, value |-> level[d], subranges |-> << >>] :
        n \in {asked.length} \cup (IF "short" \in Faults THEN {0, asked.length - 1} ELSE {})}

(* A transfer goes out, for a control and an answer of so many bytes; it   *)
(* fails if the device is gone, and may stall.                             *)
Transfer(p, packet, payload, room) ==
  wire' = [by |-> p, to |-> dev[p], bytes |-> ToBytes(packet), payload |-> payload,
           meant |-> packet.address, room |-> room]
MayFail(p) == dev[p] \notin plugged \/ "stall" \in Faults

-----------------------------------------------------------------------------
(* run_dump prints the line, which may fail, and goes to the next read.    *)
AfterRead(p, r) ==
  \/ /\ run' = [run EXCEPT ![p] = [r EXCEPT !.reads = Tail(@)]]
     /\ IF Len(r.reads) > 1 THEN Goto(p, FirstTransfer(r.reads[2]))
        ELSE Finish(p, IF r.failed = 0 THEN "ok" ELSE "DumpIncomplete")
  \/ "pipe" \in Faults /\ Finish(p, "Output") /\ UNCHANGED run

(* Slip: a failed read is passed over.                                     *)
ReadFailsQuietly(p, why) ==
  IF job[p].command = "volume" THEN Finish(p, why) /\ UNCHANGED run ELSE AfterRead(p, run[p])

(* Slip: a read that failed is asked for again.                            *)
ReadFailsAgain(p, why) == UNCHANGED <<pc, run, outcome>>

ReadFails(p, why) ==
  IF job[p].command = "volume" THEN Finish(p, why) /\ UNCHANGED run
  ELSE AfterRead(p, [run[p] EXCEPT !.failed = @ + 1])

CurrentAddress(p) == IF job[p].command = "volume" THEN target[p] ELSE Head(run[p].reads).address
CurrentLayout(p) == IF job[p].command = "volume" THEN "Two" ELSE Head(run[p].reads).layout

(* read_range, first half: how many entries?  The length of the second     *)
(* request has to fit.                                                     *)
ReadHead(p) ==
  LET packet == RangeCountPacket(CurrentAddress(p))
  IN /\ pc[p] = "head"
     /\ Transfer(p, packet, << >>, packet.length)
     /\ \/ MayFail(p) /\ ReadFails(p, "Transport")
        \/ /\ dev[p] \in plugged
           /\ \E reply \in RangeReplies(dev[p], CurrentLayout(p), ToBytes(packet)) :
                IF CountVerdict(reply) # "ok" THEN ReadFails(p, CountVerdict(reply))
                ELSE IF RangeLength(CurrentLayout(p), reply.count) = LengthOverflow
                     THEN ReadFails(p, "LengthOverflow")
                ELSE run' = [run EXCEPT ![p].count = reply.count] /\ Goto(p, "block")
     /\ UNCHANGED <<world, device, claims, job, aim, range, seen>>

(* Slip: the first count is trusted, the buffer holds the rest.            *)
TakeCounted(p, reply) == SubSeq(reply.subranges, 1, run[p].count)

Take(p, reply) == RangeEntries(CurrentLayout(p), reply)

(* Slip: the value is sent before it is compared with the range.           *)
AfterRangeUnchecked(p, entries) == Goto(p, "set")

(* dump goes on to the value; volume to the SET, if the level is inside.   *)
AfterRange(p, entries) ==
  IF job[p].command # "volume" THEN Goto(p, "cur")
  ELSE IF InRange("Two", entries, job[p].scaled) THEN Goto(p, "set")
  ELSE Finish(p, "OutOfRange")

(* read_range, second half.                                                *)
ReadBlock(p) ==
  LET packet == RangePacket(CurrentAddress(p), CurrentLayout(p), run[p].count)
  IN /\ pc[p] = "block"
     /\ Transfer(p, packet, << >>, BlockLength(CurrentLayout(p), run[p].count))
     /\ \/ MayFail(p) /\ ReadFails(p, "Transport") /\ UNCHANGED <<range, seen>>
        \/ /\ dev[p] \in plugged
           /\ \E reply \in RangeReplies(dev[p], CurrentLayout(p), ToBytes(packet)) :
                IF RangeVerdict(CurrentLayout(p), reply) # "ok"
                THEN ReadFails(p, RangeVerdict(CurrentLayout(p), reply)) /\ UNCHANGED <<range, seen>>
                ELSE /\ range' = [range EXCEPT ![p] = Take(p, reply)]
                     /\ seen' = [seen EXCEPT ![p] = RangeOf(dev[p], Asked(ToBytes(packet)).selector)]
                     /\ AfterRange(p, Take(p, reply)) /\ UNCHANGED run
     /\ UNCHANGED <<world, device, claims, job, aim>>

(* dump_one, the value; a block of variable length is shown as it came.    *)
ReadCur(p) ==
  LET read == Head(run[p].reads)
  IN /\ pc[p] = "cur"
     /\ Transfer(p, CurPacket(read), << >>, read.cur_length)
     /\ \/ MayFail(p) /\ ReadFails(p, "Transport")
        \/ /\ dev[p] \in plugged
           /\ \E reply \in CurReplies(dev[p], ToBytes(CurPacket(read))) :
                IF read.layout # "none" /\ CurVerdict(read.layout, reply) # "ok"
                THEN ReadFails(p, "short")
                ELSE AfterRead(p, [run[p] EXCEPT !.printed = @ \cup {read.address}])
     /\ UNCHANGED <<world, device, claims, job, aim, range, seen>>

(* run_volume's SET.  A SET whose answer is late has been carried out.     *)
SetCur(p) ==
  LET packet  == SetRequest(target[p])
      payload == EncodeCur("Two", DbToRaw(job[p].scaled) % 65536)
      Applied == level' = [level EXCEPT ![dev[p]] = FromLe16(payload[1], payload[2])]
  IN /\ pc[p] = "set"
     /\ Transfer(p, packet, payload, packet.length)
     /\ \/ MayFail(p) /\ Finish(p, "Transport") /\ UNCHANGED level
        \/ "late" \in Faults /\ dev[p] \in plugged /\ Applied /\ Finish(p, "Transport")
        \/ dev[p] \in plugged /\ Applied /\ Goto(p, "readback")
     /\ UNCHANGED <<world, plugged, ranges, moves, claims, job, aim, range, run, seen>>

(* GET CUR of what was written; Ok whatever it says.                       *)
ReadBack(p) ==
  LET packet == ReadbackPacket(target[p])
  IN /\ pc[p] = "readback"
     /\ Transfer(p, packet, << >>, packet.length)
     /\ \/ MayFail(p) /\ Finish(p, "Transport") /\ UNCHANGED run
        \/ /\ dev[p] \in plugged
           /\ \E reply \in CurReplies(dev[p], ToBytes(packet)) :
                IF CurVerdict("Two", reply) # "ok" THEN Finish(p, "short") /\ UNCHANGED run
                ELSE \/ /\ run' = [run EXCEPT ![p].readback = Signed("Two", reply.value)]
                        /\ Finish(p, "ok")
                     \/ "pipe" \in Faults /\ Finish(p, "Output") /\ UNCHANGED run
     /\ UNCHANGED <<world, device, claims, job, aim, range, seen>>

(* Slip: the claim is dropped by the success path only.                    *)
ReleasedOnSuccess(p) == IF outcome[p] = "ok" THEN {c \in claims : c[3] # p} ELSE claims
Released(p) == {c \in claims : c[3] # p}

(* RusbTransport's Drop.                                                   *)
Drop(p) ==
  /\ pc[p] = "drop"
  /\ claims' = Released(p)
  /\ pc' = [pc EXCEPT ![p] = "done"]
  /\ UNCHANGED <<world, device, job, outcome, aim, range, run, wire, seen>>

(* The process dies; the kernel closes its handle.                         *)
Kill(p) ==
  /\ "kill" \in Faults /\ pc[p] # "done"
  /\ pc' = [pc EXCEPT ![p] = "done"]
  /\ outcome' = [outcome EXCEPT ![p] = "killed"]
  /\ claims' = {c \in claims : c[3] # p}
  /\ UNCHANGED <<world, device, job, aim, range, run, wire, seen>>

(* The knob, another range, the cable.                                     *)
Turn(d) ==
  /\ \E l \in Levels : l # level[d] /\ level' = [level EXCEPT ![d] = l]
  /\ UNCHANGED <<plugged, ranges>>
Rerange(d) ==
  /\ \E r \in Ranges : r # ranges[d] /\ ranges' = [ranges EXCEPT ![d] = r]
  /\ UNCHANGED <<plugged, level>>
Cable(d) ==
  /\ "unplug" \in Faults /\ plugged' = plugged \ {d} /\ plugged' # plugged
  /\ UNCHANGED <<level, ranges>>

Device ==
  /\ moves < MaxMoves /\ moves' = moves + 1
  /\ \E d \in DOMAIN world : Turn(d) \/ Rerange(d) \/ Cable(d)
  /\ UNCHANGED <<world, claims, pc, job, outcome, aim, range, run, wire, seen>>

Proceed(p) ==
  \/ Start(p) \/ Descriptors(p) \/ Claim(p) \/ ReadHead(p) \/ ReadBlock(p) \/ ReadCur(p)
  \/ SetCur(p) \/ ReadBack(p) \/ Drop(p)

(* All invocations are over.                                               *)
Over == (\A p \in Procs : pc[p] = "done") /\ UNCHANGED vars

Next == Device \/ Over \/ \E p \in Procs : Proceed(p) \/ Kill(p)

(* Transfers end by themselves within TRANSFER_TIMEOUT, a running process  *)
(* goes on.  Nothing is assumed of the devices.                            *)
Fairness == \A p \in Procs : WF_vars(Proceed(p))
Spec == Init /\ [][Next]_vars /\ Fairness

-----------------------------------------------------------------------------
(* What the properties are measured against.                               *)

(* A word as a two's complement number, and a list of subranges that holds *)
(* a value.                                                                *)
TwosComplement(word) == IF word < 32768 THEN word ELSE word - 65536
Holds(entries, value) ==
  \E k \in DOMAIN entries : value \in TwosComplement(entries[k].min)..TwosComplement(entries[k].max)

Entities(p) == FromInterfaces(InterfacesOf(dev[p]).list).entities
InSession(p) == pc[p] \in {"head", "block", "cur", "set", "readback"}
Writes(p) == job[p].command = "volume" /\ job[p].enable_write /\ ~job[p].dry_run

-----------------------------------------------------------------------------
TypeOK ==
  /\ plugged \subseteq DOMAIN world
  /\ level \in [DOMAIN world -> Word]
  /\ ranges \in [DOMAIN world -> Ranges]
  /\ claims \subseteq (DOMAIN world) \X Byte \X Procs
  /\ pc \in [Procs -> {"start", "descriptors", "claim", "head", "block", "cur", "set", "readback",
                       "drop", "done"}]
  /\ job \in [Procs -> Jobs]
  /\ {DOMAIN outcome, DOMAIN target, DOMAIN range, DOMAIN run, DOMAIN seen} = {Procs}
  /\ dev \in [Procs -> {0} \cup DOMAIN world] /\ iface \in [Procs -> Byte]
  /\ moves \in 0..MaxMoves

(* A descriptor that was cut short is an error or the entities before the  *)
(* cut, never another topology: whatever parse_entities returns was        *)
(* declared, in that order (`declared` is what the bytes were made from).  *)
ParsedAsDeclared ==
  \A p \in Procs : pc[p] = "descriptors" /\ InterfacesOf(dev[p]).err = "none" =>
    LET found == FromInterfaces(InterfacesOf(dev[p]).list)
    IN found.err = "none" => IsPrefix(found.entities, world[dev[p]].declared)

(* mixer_output_feature_unit finds the one Feature Unit that is nearest    *)
(* downstream of the mixers, whatever loops and branches the units form;   *)
(* it says Missing or Ambiguous exactly when there is none or several.     *)
TargetIsMixerOutput ==
  \A p \in Procs : job[p].command = "volume" =>
    /\ pc[p] = "claim" =>
         \E u \in DOMAIN Entities(p) :
           /\ OutputUnits(Entities(p)) = {u}
           /\ target[p].entity = Entities(p)[u].id
           /\ Capability(Entities(p)[u], job[p].channel, Volume) = "HostProgrammable"
    /\ outcome[p] = "MixerOutputFeatureUnitMissing" => OutputUnits(Entities(p)) = {}
    /\ outcome[p] = "MixerOutputFeatureUnitAmbiguous" => Cardinality(OutputUnits(Entities(p))) > 1

(* A dump that says Ok has shown every control that the descriptor         *)
(* declares readable, the nodes of mixers of known shape included, and     *)
(* nothing else (README.md:71-75).                                         *)
DumpIsComplete ==
  \A p \in Procs : job[p].command = "dump" /\ outcome[p] = "ok" /\ ~job[p].dry_run =>
    {<<a.entity, a.selector, a.channel>> : a \in run[p].printed} = Readable(Entities(p))

(* On the wire a request is what was planned: the device that takes the    *)
(* bytes apart finds the entity, selector and channel, the claimed         *)
(* interface, and room for the whole block.                                *)
WireMeansPlan ==
  wire.by \in Procs =>
    LET asked == Asked(wire.bytes)
    IN /\ Address(asked.entity, asked.selector, asked.channel, asked.interface) = wire.meant
       /\ asked.length = wire.room
       /\ InSession(wire.by) => <<wire.to, asked.interface, wire.by>> \in claims

(* A RANGE block that is accepted is what the device reported in that one  *)
(* reply, although the number of entries was asked for earlier and the     *)
(* buffer may hold more than the reply.                                    *)
RangeIsOneReply ==
  \A p \in Procs : range[p] # << >> => range[p] = seen[p]

(* What reaches the device as SET comes from a volume command with the     *)
(* write gate open and no --dry-run, for a level inside the range the      *)
(* device reported to this invocation, to the interface it holds.          *)
SetAuthorised ==
  wire.by \in Procs /\ wire.bytes[1] = BmRequestType("SetCur") =>
    /\ Writes(wire.by)
    /\ FromLe16(wire.payload[1], wire.payload[2]) = job[wire.by].scaled % 65536
    /\ Holds(seen[wire.by], job[wire.by].scaled)

(* A level is refused as out of range only if no subrange holds it.        *)
RefusedOnlyOutside ==
  \A p \in Procs : outcome[p] = "OutOfRange" => ~Holds(seen[p], job[p].scaled)

(* Two invocations are never between claim and release on one device: no   *)
(* SET of one falls between the range check and the read-back of another,  *)
(* and the interface in use is never one of snd-usb-audio's.               *)
OneSessionPerDevice ==
  \A p \in Procs : InSession(p) =>
    /\ iface[p] \notin 0..2
    /\ \A q \in Procs \ {p} : InSession(q) => dev[q] # dev[p]

(* However an invocation ends, it holds nothing afterwards.                *)
NothingHeld == \A p \in Procs : pc[p] = "done" => ~\E c \in claims : c[3] = p

(* --dry-run and a missing --enable-write never get as far as a claim.     *)
GateBeforeClaim ==
  \A p \in Procs : InSession(p) \/ pc[p] = "claim" =>
    ~job[p].dry_run /\ (job[p].command = "volume" => job[p].enable_write)

(* Panel's picture: claims are ownership.                                  *)
Owners == {<<c[1], c[3]>> : c \in claims}
Shared == INSTANCE Panel WITH level <- level, owners <- Owners, moves <- moves

(* Invocations share the devices as Panel promises: a level changes by the *)
(* device itself or by the one invocation that holds it.                   *)
SharedAsPanel == Shared!Spec

(* Every invocation comes to an end and lets go, whatever the devices and  *)
(* the other invocations do.                                               *)
EveryOneEnds == \A p \in Procs : <>(pc[p] = "done")
=============================================================================

--------------------------- MODULE Id14ctlPlanProofs ---------------------------
(***************************************************************************)
(* Theorems about what id14ctl plans and what it asks, for every set of    *)
(* invocations, commands, devices, descriptors and faults.                 *)
(***************************************************************************)
EXTENDS Id14ctlProofs

(* A byte and a byte make a word, and come apart again.                    *)
LEMMA TwoBytes ==
  ASSUME NEW low \in Byte, NEW high \in Byte
  PROVE  FromLe16(low, high) % 256 = low /\ FromLe16(low, high) \div 256 = high
  BY SMT DEF Byte, FromLe16

(* The device that takes a request apart finds the address and the length  *)
(* that were put in.                                                       *)
LEMMA AskedIsMeant ==
  ASSUME NEW packet, packet.address \in Addresses, packet.length \in Word
  PROVE  /\ Address(Asked(ToBytes(packet)).entity, Asked(ToBytes(packet)).selector,
                    Asked(ToBytes(packet)).channel, Asked(ToBytes(packet)).interface) = packet.address
         /\ Asked(ToBytes(packet)).length = packet.length
         /\ Asked(ToBytes(packet)).interface = packet.address.interface
  <1> DEFINE bytes == ToBytes(packet)
             a == packet.address
  <1>1. /\ a.entity \in Byte /\ a.selector \in Byte /\ a.channel \in Byte /\ a.interface \in Byte
        /\ a = [entity |-> a.entity, selector |-> a.selector, channel |-> a.channel, interface |-> a.interface]
    BY DEF Addresses
  <1>2. /\ bytes[3] = WValue(a) % 256 /\ bytes[4] = WValue(a) \div 256
        /\ bytes[5] = WIndex(a) % 256 /\ bytes[6] = WIndex(a) \div 256
        /\ bytes[7] = packet.length % 256 /\ bytes[8] = packet.length \div 256
    BY PacketBytes
  <1>3. (packet.length % 256) + 256 * (packet.length \div 256) = packet.length
    BY SMT DEF Word
  <1> HIDE DEF bytes, a
  <1>4. bytes[3] = a.channel /\ bytes[4] = a.selector
    BY <1>1, <1>2, TwoBytes DEF WValue
  <1>5. bytes[5] = a.interface /\ bytes[6] = a.entity
    BY <1>1, <1>2, TwoBytes DEF WIndex
  <1>6. /\ Asked(bytes).entity = a.entity /\ Asked(bytes).selector = a.selector
        /\ Asked(bytes).channel = a.channel /\ Asked(bytes).interface = a.interface
        /\ Asked(bytes).length = packet.length
    BY <1>2, <1>3, <1>4, <1>5 DEF Asked, FromLe16
  <1>7. QED BY <1>1, <1>6 DEF Address, bytes, a

(* What is attached, and its configurations.                               *)
Configs == [value : Byte, interfaces : Seq(InterfaceInfo)]
Attached == [vid : Word, pid : Word, bus : Byte, address : Byte, active : Int,
             configs : Seq(Configs), declared : Seq(EntityType)]

(* What the assumption on worlds says of one attached device.              *)
LEMMA AttachedIs ==
  ASSUME world \in Worlds, NEW d \in DOMAIN world
  PROVE  /\ world[d].bus \in Byte /\ world[d].address \in Byte
         /\ world[d].active \in Int /\ world[d].active <= Len(world[d].configs)
         /\ world[d].configs \in Seq(Configs) /\ world[d].declared \in Seq(EntityType)
         /\ \A e \in DOMAIN world \ {d} : world[d].bus # world[e].bus \/ world[d].address # world[e].address
  <1>1. world \in Seq(Attached)
    BY Id14ctlAssumption DEF Attached, Configs
  <1>2. world[d] \in Attached
    BY <1>1, ElementOfSeq
  <1>3. QED BY <1>2, Id14ctlAssumption DEF Attached

(* Devices are told apart by rank and place on the bus, so one of them is  *)
(* first.                                                                  *)
LEMMA PrimaryIs ==
  ASSUME world \in Worlds, plugged \subseteq DOMAIN world, Enumerate # {}
  PROVE  Primary \in DOMAIN world
  <1> DEFINE bus(d) == world[d].bus
             address(d) == world[d].address
             rank(d) == AutodetectRank(d)
             code(d) == (65536 * rank(d)) + (256 * bus(d)) + address(d)
             T == {code(d) : d \in Enumerate}
  <1>1. Enumerate \subseteq DOMAIN world
    BY DEF Enumerate
  <1>2. \A d \in DOMAIN world : bus(d) \in Byte /\ address(d) \in Byte
    BY AttachedIs
  <1>3. \A d : rank(d) \in {0, 1}
    BY DEF AutodetectRank
  <1>4. \A d \in DOMAIN world : \A e \in DOMAIN world \ {d} : bus(d) # bus(e) \/ address(d) # address(e)
    BY AttachedIs
  <1>5. ASSUME NEW d, NEW e,
               \/ rank(d) < rank(e)
               \/ rank(d) = rank(e) /\ bus(d) < bus(e)
               \/ rank(d) = rank(e) /\ bus(d) = bus(e) /\ address(d) < address(e)
        PROVE  Before(d, e)
    <2> DEFINE Key(x) == <<rank(x), bus(x), address(x)>>
               Ahead(k) == Key(d)[k] < Key(e)[k] /\ \A j \in 1..(k - 1) : Key(d)[j] = Key(e)[j]
    <2>1. \A x : Key(x)[1] = rank(x) /\ Key(x)[2] = bus(x) /\ Key(x)[3] = address(x)
      OBVIOUS
    <2>2. 1..(1 - 1) = {} /\ 1..(2 - 1) = {1} /\ 1..(3 - 1) = {1, 2}
      OBVIOUS
    <2>3. Before(d, e) <=> \E k \in 1..3 : Ahead(k)
      BY DEF Before
    <2> HIDE DEF Key, rank, bus, address
    <2>4. CASE rank(d) < rank(e)
      <3>1. Ahead(1)
        BY <2>1, <2>2, <2>4
      <3>2. QED BY <2>3, <3>1
    <2>5. CASE rank(d) = rank(e) /\ bus(d) < bus(e)
      <3>1. Key(d)[2] < Key(e)[2] /\ Key(d)[1] = Key(e)[1]
        BY <2>1, <2>5
      <3>2. Ahead(2)
        BY <2>2, <3>1
      <3>3. QED BY <2>3, <3>2
    <2>6. CASE rank(d) = rank(e) /\ bus(d) = bus(e) /\ address(d) < address(e)
      <3>1. Key(d)[3] < Key(e)[3] /\ Key(d)[1] = Key(e)[1] /\ Key(d)[2] = Key(e)[2]
        BY <2>1, <2>6
      <3>2. Ahead(3)
        BY <2>2, <3>1
      <3>3. QED BY <2>3, <3>2
    <2>7. QED BY <2>4, <2>5, <2>6, <1>5
  <1>6. T \in SUBSET Nat /\ T # {}
    <2> HIDE DEF bus, address, rank
    <2>1. ASSUME NEW d \in Enumerate PROVE code(d) \in Nat
      <3>1. bus(d) \in Nat /\ address(d) \in Nat
        BY <1>1, <1>2, ByteIsNat
      <3>2. rank(d) \in Nat
        BY <1>3
      <3>3. QED BY <3>1, <3>2, SMT
    <2>2. QED BY <2>1
  <1>7. PICK d \in Enumerate : \A e \in Enumerate : code(d) <= code(e)
    <2> HIDE DEF code, T
    <2>1. PICK x \in T : \A y \in T : x <= y
      BY <1>6, LeastOf
    <2>2. QED BY <2>1 DEF T
  <1>8. \A e \in Enumerate \ {d} : Before(d, e)
    <2> SUFFICES ASSUME NEW e \in Enumerate \ {d} PROVE Before(d, e)
      OBVIOUS
    <2>1. /\ bus(d) \in Byte /\ address(d) \in Byte /\ bus(e) \in Byte /\ address(e) \in Byte
          /\ rank(d) \in {0, 1} /\ rank(e) \in {0, 1} /\ code(d) <= code(e)
          /\ bus(d) # bus(e) \/ address(d) # address(e)
      BY <1>1, <1>2, <1>3, <1>4, <1>7
    <2> HIDE DEF bus, address, rank
    <2>2. /\ bus(d) \in Nat /\ bus(d) <= 255 /\ address(d) \in Nat /\ address(d) <= 255
          /\ bus(e) \in Nat /\ bus(e) <= 255 /\ address(e) \in Nat /\ address(e) <= 255
      BY <2>1, ByteIsNat
    <2>3. \/ rank(d) < rank(e)
          \/ rank(d) = rank(e) /\ bus(d) < bus(e)
          \/ rank(d) = rank(e) /\ bus(d) = bus(e) /\ address(d) < address(e)
      BY <2>1, <2>2, SMT
    <2>4. QED BY <1>5, <2>3
  <1>9. Primary \in Enumerate
    BY <1>8 DEF Primary
  <1>10. QED BY <1>1, <1>9

(* The interfaces of a device that could be read.                          *)
LEMMA InterfacesTyped ==
  ASSUME world \in Worlds, NEW d \in DOMAIN world
  PROVE  InterfacesOf(d).list \in Seq(InterfaceInfo)
  <1> DEFINE configs == world[d].configs
             candidates == {c \in ToSet(configs) : c.value # 0}
  <1>1. configs \in Seq(Configs) /\ world[d].active \in Int /\ world[d].active <= Len(configs)
    BY AttachedIs
  <1> HIDE DEF configs
  <1>2. \A c \in ToSet(configs) : c \in Configs
    <2>1. \A k \in 1..Len(configs) : configs[k] \in Configs
      BY <1>1, ElementOfSeq
    <2>2. DOMAIN configs = 1..Len(configs)
      BY <1>1
    <2>3. QED BY <2>1, <2>2 DEF ToSet
  <1>3. \A c \in Configs : c.interfaces \in Seq(InterfaceInfo)
    BY DEF Configs
  <1>4. << >> \in Seq(InterfaceInfo)
    OBVIOUS
  <1>5. CASE world[d].active > 0
    <2>1. world[d].active \in 1..Len(configs)
      BY <1>1, <1>5
    <2>2. configs[world[d].active] \in Configs
      BY <1>1, <2>1, ElementOfSeq
    <2>3. InterfacesOf(d).list = configs[world[d].active].interfaces
      BY <1>5 DEF InterfacesOf, Interfaces, configs
    <2>4. QED BY <1>3, <2>2, <2>3
  <1>6. CASE ~(world[d].active > 0) /\ world[d].active = 0 /\ UnambiguousConfig(candidates)
    <2>1. candidates # {}
      BY <1>6, FS_EmptySet DEF UnambiguousConfig
    <2> HIDE DEF candidates
    <2>2. (CHOOSE c \in candidates : TRUE) \in candidates
      BY <2>1
    <2>3. InterfacesOf(d).list = (CHOOSE c \in candidates : TRUE).interfaces
      BY <1>6 DEF InterfacesOf, Interfaces, candidates, configs
    <2>4. QED BY <1>2, <1>3, <2>2, <2>3 DEF candidates
  <1>7. CASE ~(world[d].active > 0) /\ ~(world[d].active = 0 /\ UnambiguousConfig(candidates))
    BY <1>4, <1>7 DEF InterfacesOf, Interfaces, configs
  <1>8. QED BY <1>5, <1>6, <1>7

(* The entities of what an invocation talks to, and the interface it uses. *)
LEMMA DeviceTyped ==
  ASSUME world \in Worlds, NEW d \in DOMAIN world
  PROVE  /\ FromInterfaces(InterfacesOf(d).list).entities \in Seq(EntityType)
         /\ FindControlInterface(InterfacesOf(d).list).number \in Byte
  BY InterfacesTyped, EntitiesTyped, ControlTyped

(* No refusal says Ok.                                                     *)
LEMMA RefusalsSayWhy ==
  ASSUME NEW interfaces \in Seq(InterfaceInfo)
  PROVE  /\ FindControlInterface(interfaces).err # "ok"
         /\ FromInterfaces(interfaces).err # "ok"
  <1>1. FindControlInterface(interfaces).err # "ok"
    BY DEF FindControlInterface
  <1>2. \A extra \in Seq(Byte) : ParseEntities(extra).err # "ok"
    BY ParseTyped DEF Results, ParseErrors
  <1>3. QED BY <1>1, <1>2, EntitiesFrom

(* A target that is not refused is an address at the control interface.    *)
LEMMA TargetTyped ==
  ASSUME NEW ac \in Seq(EntityType), NEW interface \in Byte, NEW channel \in Byte,
         VolumeTarget(ac, interface, channel).err = "none"
  PROVE  /\ VolumeTarget(ac, interface, channel).address \in Addresses
         /\ VolumeTarget(ac, interface, channel).address.interface = interface
  <1> DEFINE found == MixerOutputFeatureUnit(ac)
             unit == ac[found.at]
  <1>1. found.err = "none"
    BY DEF VolumeTarget
  <1>2. found.at \in 1..Len(ac)
    <2> DEFINE ids == UNION {WalkFrom(ac, ac[k]) : k \in {j \in DOMAIN ac : ac[j].kind = "Mixer"}}
               first == Position(ac, CHOOSE id \in ids : TRUE)
    <2>1. first \in 0..Len(ac)
      <3>1. Len(ac) \in Nat
        OBVIOUS
      <3>2. QED BY <3>1, PositionIs
    <2>2. found.at = first /\ first # 0
      BY <1>1 DEF MixerOutputFeatureUnit
    <2>3. QED BY <2>1, <2>2
  <1>3. unit.id \in Byte
    BY <1>2, EntityAt
  <1>4. VolumeTarget(ac, interface, channel).address = Address(unit.id, Volume, channel, interface)
    BY <1>1 DEF VolumeTarget
  <1>5. Volume \in Byte
    BY DEF Volume, Byte
  <1>6. QED BY <1>3, <1>4, <1>5 DEF Address, Addresses

(* The first read of a plan and the others.                                *)
LEMMA TailOf ==
  ASSUME NEW reads \in Seq(Reads), reads # << >>
  PROVE  /\ Head(reads) \in Reads /\ Tail(reads) \in Seq(Reads)
         /\ Triples(reads) = {Triple(Head(reads).address)} \cup Triples(Tail(reads))
         /\ \A interface : Through(reads, interface) =>
              Head(reads).address.interface = interface /\ Through(Tail(reads), interface)
         /\ IF Len(reads) > 1 THEN Tail(reads) # << >> /\ Head(Tail(reads)) = reads[2]
            ELSE Tail(reads) = << >>
  <1> DEFINE tail == Tail(reads)
             n == Len(reads)
  <1>1. /\ Head(reads) \in Reads /\ tail \in Seq(Reads) /\ Len(tail) = n - 1
        /\ \A i \in 1..Len(tail) : tail[i] = reads[i + 1]
    BY HeadTailProperties
  <1>2. n \in Nat /\ n >= 1 /\ DOMAIN reads = 1..n /\ DOMAIN tail = 1..(n - 1) /\ Head(reads) = reads[1]
    BY <1>1
  <1> HIDE DEF tail, n
  <1>3. ToSet(reads) = {Head(reads)} \cup ToSet(tail)
    <2>1. ToSet(reads) = {reads[i] : i \in 1..n} /\ ToSet(tail) = {tail[i] : i \in 1..(n - 1)}
      BY <1>2 DEF ToSet
    <2>2. \A i \in 1..(n - 1) : i + 1 \in 1..n /\ tail[i] = reads[i + 1]
      BY <1>1, <1>2
    <2>3. \A i \in 1..n : i = 1 \/ (i - 1 \in 1..(n - 1) /\ tail[i - 1] = reads[i])
      <3>1. \A i \in 1..n : i = 1 \/ (i - 1 \in 1..(n - 1) /\ (i - 1) + 1 = i)
        BY <1>2
      <3>2. QED BY <2>2, <3>1
    <2>4. 1 \in 1..n
      BY <1>2
    <2>5. QED BY <1>2, <2>1, <2>2, <2>3, <2>4
  <1>4. Triples(reads) = {Triple(Head(reads).address)} \cup Triples(tail)
    BY <1>3 DEF Triples
  <1>5. \A interface : Through(reads, interface) =>
          Head(reads).address.interface = interface /\ Through(tail, interface)
    BY <1>3 DEF Through
  <1>6. n > 1 => tail # << >> /\ Head(tail) = reads[2]
    <2> SUFFICES ASSUME n > 1 PROVE tail # << >> /\ Head(tail) = reads[2]
      OBVIOUS
    <2>1. Len(tail) > 0 /\ 1 \in 1..Len(tail)
      BY <1>1, <1>2
    <2>2. tail[1] = reads[1 + 1] /\ 1 + 1 = 2
      BY <1>1, <2>1
    <2>3. QED BY <2>1, <2>2
  <1>7. ~(n > 1) => tail = << >>
    BY <1>1, <1>2
  <1>8. QED BY <1>1, <1>4, <1>5, <1>6, <1>7 DEF tail, n

-----------------------------------------------------------------------------
(* What a step does to the row of its own invocation; to the rows of the   *)
(* others it does nothing.                                                 *)

(* The rows of the invocations that did not step stay as they are.         *)
LEMMA OtherRows ==
  ASSUME NEW p \in Procs, RowOnly(p), NEW q \in Procs \ {p}, Rows(q)
  PROVE  Rows(q)'
  <1>1. /\ pc'[q] = pc[q] /\ outcome'[q] = outcome[q] /\ dev'[q] = dev[q] /\ iface'[q] = iface[q]
        /\ target'[q] = target[q] /\ run'[q] = run[q] /\ job' = job /\ world' = world
    BY DEF RowOnly, OnlyAt
  <1>2. Planning(q)'
    BY <1>1 DEF Rows, Planning, InSession
  <1>3. Asking(q)'
    BY <1>1 DEF Rows, Asking, InSession, CurrentLayout
  <1>4. Dumping(q)'
    BY <1>1 DEF Rows, Dumping, InSession, Shown, Entities, InterfacesOf
  <1>5. QED BY <1>2, <1>3, <1>4 DEF Rows

(* What an invocation reads next, and how.                                 *)
LEMMA FirstIs ==
  ASSUME NEW read
  PROVE  /\ FirstTransfer(read) \in {"head", "cur"}
         /\ FirstTransfer(read) = "head" => ReadsRange(read)
  BY DEF FirstTransfer

(* It asks for an address at the interface it has claimed, and for a range *)
(* only where there is one.                                                *)
LEMMA CurrentIs ==
  ASSUME IInv, NEW p \in Procs, Rows(p), InSession(p)
  PROVE  /\ CurrentAddress(p) \in Addresses /\ CurrentAddress(p).interface = iface[p]
         /\ pc[p] \in {"head", "block"} => CurrentLayout(p) \in Layouts
         /\ job[p].command # "volume" => Head(run[p].reads) \in Reads
  <1>1. CASE job[p].command = "volume"
    BY <1>1 DEF Rows, Planning, Asking, CurrentAddress, CurrentLayout, Layouts
  <1>2. CASE job[p].command # "volume"
    <2>1. run[p].reads \in Seq(Reads) /\ run[p].reads # << >> /\ Through(run[p].reads, iface[p])
      BY <1>2 DEF Rows, Planning, Asking
    <2>2. Head(run[p].reads) \in Reads /\ Head(run[p].reads).address.interface = iface[p]
      BY <2>1, TailOf
    <2>3. \A read \in Reads : read.address \in Addresses /\ read.layout \in {"One", "Two", "Four", "none"}
      BY DEF Reads
    <2>4. pc[p] \in {"head", "block"} => Head(run[p].reads).layout # "none"
      BY <1>2 DEF Rows, Asking, ReadsRange
    <2>5. QED BY <1>2, <2>2, <2>3, <2>4 DEF CurrentAddress, CurrentLayout, Layouts
  <1>3. QED BY <1>1, <1>2

(* After a read, successful or not, a dump still shows and has to read     *)
(* what is readable.                                                       *)
LEMMA ReadOnRows ==
  ASSUME IInv, NEW p \in Procs, Rows(p), InSession(p), job[p].command # "volume",
         UNCHANGED <<world, job, aim>>,
         NEW r, DOMAIN r = DOMAIN FreshRun, r.reads = run[p].reads, r.failed \in Nat, AfterRead(p, r),
         job[p].command = "dump" /\ r.failed = 0 =>
           {Triple(a) : a \in r.printed} \cup Triples(Tail(r.reads)) = Readable(Entities(p))
  PROVE  Rows(p)'
  <1> DEFINE tail == Tail(r.reads)
  <1>1. /\ r.reads \in Seq(Reads) /\ r.reads # << >> /\ Through(r.reads, iface[p])
        /\ dev[p] \in DOMAIN world /\ target[p] \in Addresses
    BY DEF Rows, Planning, Asking
  <1>2. /\ tail \in Seq(Reads) /\ Through(tail, iface[p])
        /\ IF Len(r.reads) > 1 THEN tail # << >> /\ Head(tail) = r.reads[2] ELSE tail = << >>
    BY <1>1, TailOf
  <1> HIDE DEF tail
  <1>3. /\ UNCHANGED <<world, job>> /\ dev'[p] = dev[p] /\ iface'[p] = iface[p] /\ target'[p] = target[p]
        /\ Entities(p)' = Entities(p)
    BY DEF aim, Entities, InterfacesOf
  <1>4. CASE UNCHANGED run /\ Finish(p, "Output")
    <2>1. pc'[p] = "drop" /\ outcome'[p] = "Output"
      BY <1>4, FinishInSession DEF IInv
    <2>2. QED BY <1>1, <1>3, <1>4, <2>1 DEF Rows, Planning, Asking, Dumping, InSession
  <1>5. CASE run' = [run EXCEPT ![p] = [r EXCEPT !.reads = Tail(@)]]
    <2>1. run'[p] = [r EXCEPT !.reads = tail]
      BY <1>5 DEF tail, IInv, Bookkeeping
    <2>2. run'[p].reads = tail /\ run'[p].failed = r.failed /\ run'[p].printed = r.printed
      BY <2>1 DEF FreshRun
    <2>3. CASE Len(r.reads) > 1 /\ Goto(p, FirstTransfer(r.reads[2]))
      <3>1. pc'[p] = FirstTransfer(r.reads[2]) /\ outcome'[p] = outcome[p] /\ outcome[p] = "none"
        <4>1. outcome[p] = "none"
          BY DEF IInv, RangeSeen, Ranged, InSession
        <4>2. QED BY <2>3, <4>1 DEF Goto, IInv, Bookkeeping
      <3>2. pc'[p] \in {"head", "cur"} /\ (pc'[p] = "head" => ReadsRange(Head(run'[p].reads)))
        BY <1>2, <2>2, <2>3, <3>1, FirstIs
      <3>3. Planning(p)'
        BY <1>1, <1>2, <1>3, <2>2, <3>2 DEF Planning
      <3>4. Asking(p)'
        BY <1>2, <1>3, <2>2, <2>3, <3>2 DEF Asking
      <3>5. Dumping(p)'
        BY <1>3, <2>2, <3>1, <3>2 DEF Dumping, Shown, tail
      <3>6. QED BY <3>3, <3>4, <3>5 DEF Rows
    <2>4. CASE ~(Len(r.reads) > 1) /\ Finish(p, IF r.failed = 0 THEN "ok" ELSE "DumpIncomplete")
      <3>1. pc'[p] = "drop" /\ outcome'[p] = (IF r.failed = 0 THEN "ok" ELSE "DumpIncomplete")
        BY <2>4, FinishInSession DEF IInv
      <3>2. Triples(tail) = {}
        BY <1>2, <2>4, NoRead
      <3>3. Planning(p)'
        BY <1>1, <1>2, <1>3, <2>2, <3>1 DEF Planning, InSession
      <3>4. Asking(p)'
        BY <3>1 DEF Asking, InSession
      <3>5. Dumping(p)'
        BY <1>3, <2>2, <3>1, <3>2 DEF Dumping, Shown, InSession, tail
      <3>6. QED BY <3>3, <3>4, <3>5 DEF Rows
    <2>5. CASE Finish(p, "Output") /\ UNCHANGED run
      BY <1>4, <2>5
    <2>6. QED BY <1>5, <2>3, <2>4, <2>5 DEF AfterRead
  <1>6. QED BY <1>4, <1>5 DEF AfterRead

(* A read that fails ends a volume command, and spoils a dump.             *)
LEMMA FailsRows ==
  ASSUME IInv, NEW p \in Procs, Rows(p), InSession(p), UNCHANGED <<world, job, aim>>,
         NEW why, ReadFails(p, why)
  PROVE  Rows(p)'
  <1>1. CASE job[p].command = "volume"
    <2>1. Finish(p, why) /\ UNCHANGED run
      BY <1>1 DEF ReadFails
    <2>2. pc'[p] = "drop"
      BY <2>1, FinishInSession DEF IInv
    <2>3. QED BY <1>1, <2>1, <2>2 DEF Rows, Planning, Asking, Dumping, InSession, aim
  <1>2. CASE job[p].command # "volume"
    <2> DEFINE r == [run[p] EXCEPT !.failed = @ + 1]
    <2>1. DOMAIN run[p] = DOMAIN FreshRun /\ run[p].failed \in Nat
      BY DEF IInv, Bookkeeping, Rows, Planning
    <2>2. /\ DOMAIN r = DOMAIN FreshRun /\ r.reads = run[p].reads
          /\ r.failed = run[p].failed + 1
      BY <2>1 DEF FreshRun
    <2>3. AfterRead(p, r)
      BY <1>2 DEF ReadFails
    <2> HIDE DEF r
    <2>4. r.failed \in Nat /\ r.failed # 0
      BY <2>1, <2>2, SMT
    <2>5. QED BY <1>2, <2>2, <2>3, <2>4, ReadOnRows
  <1>3. QED BY <1>1, <1>2

(* The enumeration finds a device, or there is nothing more to do.         *)
LEMMA StartRows ==
  ASSUME PlanInv, NEW p \in Procs, Start(p)
  PROVE  Rows(p)' /\ dev'[p] \in {0} \cup DOMAIN world
  <1>1. /\ pc[p] = "start" /\ UNCHANGED <<world, device, claims, job, iface, target, range, run, wire, seen>>
        /\ IInv /\ Rows(p) /\ plugged \subseteq DOMAIN world /\ world \in Worlds
        /\ dev \in [Procs -> {0} \cup DOMAIN world] /\ ~InSession(p) /\ outcome[p] = "none"
    BY DEF Start, PlanInv, IInv, Bookkeeping, RangeSeen, Ranged, InSession, TypeOK
  <1>2. pc'[p] \in {"descriptors", "done"}
    BY <1>1, StartStep
  <1>3. /\ dev'[p] \in {0} \cup DOMAIN world
        /\ pc'[p] = "descriptors" => dev'[p] \in DOMAIN world
    <2>1. CASE UNCHANGED dev
      <3>1. \A why : Finish(p, why) => pc'[p] = "done"
        BY <1>1, FinishUnclaimed DEF IInv
      <3>2. \/ \E why : Finish(p, why)
            \/ dev' = [dev EXCEPT ![p] = Primary] /\ Enumerate # {}
        BY DEF Start
      <3>3. CASE \E why : Finish(p, why)
        BY <1>1, <2>1, <3>1, <3>3
      <3>4. CASE dev' = [dev EXCEPT ![p] = Primary] /\ Enumerate # {}
        BY <1>1, <3>4, PrimaryIs
      <3>5. QED BY <3>2, <3>3, <3>4
    <2>2. CASE dev' = [dev EXCEPT ![p] = Primary] /\ Enumerate # {}
      BY <1>1, <2>2, PrimaryIs
    <2>3. QED BY <2>1, <2>2 DEF Start
  <1>4. job[p].command = "dump" => outcome'[p] # "ok"
    <2> SUFFICES ASSUME job[p].command = "dump" PROVE outcome'[p] # "ok"
      OBVIOUS
    <2>1. Refusal(job[p]) = "none"
      BY DEF Refusal
    <2>2. Finish(p, "Usb") \/ Finish(p, "NoDevice") \/ Goto(p, "descriptors")
      BY <2>1 DEF Start
    <2>3. QED BY <1>1, <2>2, FinishUnclaimed DEF IInv, Goto
  <1>5. Planning(p)'
    BY <1>1, <1>2, <1>3 DEF Rows, Planning, InSession
  <1>6. Asking(p)'
    BY <1>2 DEF Asking, InSession
  <1>7. Dumping(p)'
    BY <1>1, <1>2, <1>4 DEF Rows, Dumping, InSession, Shown
  <1>8. QED BY <1>3, <1>5, <1>6, <1>7 DEF Rows

(* A plan covers what is readable, and goes through the interface that     *)
(* will be claimed.                                                        *)
LEMMA DescriptorsRows ==
  ASSUME PlanInv, NEW p \in Procs, Descriptors(p)
  PROVE  Rows(p)' /\ iface'[p] \in Byte
  <1> DEFINE list == InterfacesOf(dev[p]).list
             ac == FromInterfaces(list)
             control == FindControlInterface(list)
             volume == VolumeTarget(ac.entities, control.number, job[p].channel)
  <1>1. /\ pc[p] = "descriptors" /\ UNCHANGED <<world, device, claims, job, dev, range, wire, seen>>
        /\ IInv /\ Rows(p) /\ world \in Worlds /\ iface \in [Procs -> Byte]
        /\ ~InSession(p) /\ outcome[p] = "none" /\ dev[p] \in DOMAIN world
    BY DEF Descriptors, PlanInv, IInv, Bookkeeping, RangeSeen, Ranged, InSession, TypeOK, Rows, Planning
  <1>2. list \in Seq(InterfaceInfo)
    BY <1>1, InterfacesTyped
  <1>3. ac.entities \in Seq(EntityType) /\ control.number \in Byte /\ ac.err # "ok" /\ control.err # "ok"
    BY <1>2, EntitiesTyped, ControlTyped, RefusalsSayWhy
  <1>4. Entities(p)' = ac.entities
    BY <1>1 DEF Entities, InterfacesOf
  <1> HIDE DEF ac, control, volume, list
  <1>5. ASSUME NEW why, Finish(p, why), UNCHANGED <<iface, target, run>>,
               job[p].command = "dump" => why # "ok"
        PROVE  Rows(p)' /\ iface'[p] \in Byte
    <2>1. pc'[p] = "done" /\ outcome'[p] = why
      BY <1>1, <1>5, FinishUnclaimed DEF IInv
    <2>2. QED BY <1>1, <1>5, <2>1 DEF Rows, Planning, Asking, Dumping, InSession
  <1>6. ASSUME iface' = [iface EXCEPT ![p] = control.number],
               IF job[p].command = "volume"
               THEN target' = [target EXCEPT ![p] = volume.address] /\ UNCHANGED run
               ELSE run' = [run EXCEPT ![p].reads = DumpPlan(ac.entities, control.number)] /\ UNCHANGED target,
               IF StopsDry(job[p]) THEN \E result \in Printed("ok") : Finish(p, result) ELSE Goto(p, "claim"),
               job[p].command = "volume" => volume.err = "none"
        PROVE  Rows(p)' /\ iface'[p] \in Byte
    <2> DEFINE plan == DumpPlan(ac.entities, control.number)
    <2>1. iface'[p] = control.number
      BY <1>1, <1>6
    <2>2. \/ pc'[p] = "done" /\ job[p].dry_run
          \/ pc'[p] = "claim" /\ outcome'[p] = "none"
      <3>1. CASE StopsDry(job[p])
        BY <1>1, <1>6, <3>1, FinishUnclaimed DEF IInv, StopsDry
      <3>2. CASE ~StopsDry(job[p])
        BY <1>1, <1>6, <3>2 DEF Goto, IInv, Bookkeeping
      <3>3. QED BY <3>1, <3>2
    <2>3. CASE job[p].command = "volume"
      <3>1. job[p].channel \in Byte
        BY <1>1, Id14ctlAssumption DEF IInv, Bookkeeping
      <3>2. volume.address \in Addresses /\ volume.address.interface = control.number
        BY <1>3, <1>6, <2>3, <3>1, TargetTyped DEF volume
      <3>3. target'[p] = volume.address /\ UNCHANGED run
        BY <1>1, <1>6, <2>3 DEF IInv, Bookkeeping
      <3>4. QED BY <1>1, <1>3, <2>1, <2>2, <2>3, <3>2, <3>3 DEF Rows, Planning, Asking, Dumping, InSession
    <2>4. CASE job[p].command # "volume"
      <3>1. plan \in Seq(Reads) /\ Through(plan, control.number) /\ Triples(plan) = Readable(ac.entities)
        BY <1>3, PlanIsComplete
      <3>2. /\ run'[p].reads = plan /\ run'[p].failed = run[p].failed /\ run'[p].printed = run[p].printed
            /\ UNCHANGED target
        BY <1>1, <1>6, <2>4 DEF IInv, Bookkeeping, FreshRun
      <3> HIDE DEF plan
      <3>3. Planning(p)'
        BY <1>1, <3>1, <3>2 DEF Rows, Planning
      <3>4. Asking(p)'
        BY <1>1, <2>1, <2>2, <2>4, <3>1, <3>2 DEF Asking, InSession
      <3>5. Dumping(p)'
        <4>1. job[p].command = "dump" => run'[p].printed = {} /\ run'[p].failed = 0 /\ Shown(p)' = {}
          BY <1>1, <3>2 DEF Rows, Dumping, Shown
        <4>2. QED BY <1>1, <1>4, <2>2, <3>1, <3>2, <4>1 DEF Dumping, InSession
      <3>6. QED BY <1>3, <2>1, <3>3, <3>4, <3>5 DEF Rows
    <2>5. QED BY <2>3, <2>4
  <1>7. CASE Planned(p, ac, control)
    <2>1. \/ \E why \in {ac.err, control.err} : Finish(p, why) /\ UNCHANGED <<iface, target, run>> /\ why # "ok"
          \/ job[p].command = "mute" /\ (\E why : Finish(p, why)) /\ UNCHANGED <<iface, target, run>>
          \/ job[p].command = "volume" /\ (\E why : Finish(p, why)) /\ UNCHANGED <<iface, target, run>>
          \/ /\ iface' = [iface EXCEPT ![p] = control.number]
             /\ IF job[p].command = "volume"
                THEN target' = [target EXCEPT ![p] = volume.address] /\ UNCHANGED run
                ELSE run' = [run EXCEPT ![p].reads = DumpPlan(ac.entities, control.number)] /\ UNCHANGED target
             /\ IF StopsDry(job[p]) THEN \E result \in Printed("ok") : Finish(p, result) ELSE Goto(p, "claim")
             /\ job[p].command = "volume" => volume.err = "none"
      BY <1>3, <1>7 DEF Planned, volume
    <2>2. QED BY <1>5, <1>6, <2>1
  <1>8. CASE Finish(p, "Usb") /\ UNCHANGED <<iface, target, run>>
    BY <1>5, <1>8
  <1>9. QED BY <1>7, <1>8 DEF Descriptors, ac, control, list

(* A claim begins with the first read of the plan, or there is none.       *)
LEMMA ClaimRows ==
  ASSUME PlanInv, NEW p \in Procs, Claim(p)
  PROVE  Rows(p)'
  <1> DEFINE reads == run[p].reads
  <1>1. /\ pc[p] = "claim" /\ UNCHANGED <<world, device, job, aim, range, run, wire, seen>>
        /\ IInv /\ Rows(p) /\ ~InSession(p) /\ outcome[p] = "none" /\ dev[p] \in DOMAIN world
    BY DEF Claim, PlanInv, IInv, RangeSeen, Ranged, InSession, Rows, Planning
  <1>2. dev' = dev /\ iface' = iface /\ target' = target /\ Entities(p)' = Entities(p)
    BY <1>1 DEF aim, Entities, InterfacesOf
  <1>3. Planning(p)'
    BY <1>1, <1>2 DEF Rows, Planning
  <1>4. reads \in Seq(Reads) /\ (job[p].command # "volume" => Through(reads, iface[p]))
    BY <1>1 DEF Rows, Planning, Asking
  <1>5. CASE job[p].command = "volume" /\ Goto(p, "head")
    <2>1. pc'[p] = "head"
      BY <1>1, <1>5 DEF Goto, IInv, Bookkeeping
    <2>2. QED BY <1>1, <1>2, <1>3, <1>5, <2>1 DEF Rows, Asking, Dumping, InSession
  <1>6. CASE job[p].command # "volume" /\ reads # << >> /\ Goto(p, FirstTransfer(Head(reads)))
    <2>1. pc'[p] = FirstTransfer(Head(reads)) /\ outcome'[p] = "none"
      BY <1>1, <1>6 DEF Goto, IInv, Bookkeeping
    <2>2. pc'[p] \in {"head", "cur"} /\ (pc'[p] = "head" => ReadsRange(Head(run'[p].reads)))
      BY <1>1, <2>1, FirstIs
    <2>3. Asking(p)'
      BY <1>1, <1>2, <1>4, <1>6, <2>2 DEF Asking
    <2>4. Dumping(p)'
      BY <1>1, <1>2, <2>1, <2>2 DEF Rows, Dumping, InSession, Shown
    <2>5. QED BY <1>3, <2>3, <2>4 DEF Rows
  <1>7. CASE /\ job[p].command # "volume" /\ reads = << >> /\ pc' = [pc EXCEPT ![p] = "drop"]
             /\ \E result \in Printed("ok") : outcome' = [outcome EXCEPT ![p] = result]
    <2>1. pc'[p] = "drop"
      BY <1>1, <1>7 DEF IInv, Bookkeeping
    <2>2. job[p].command = "dump" => Shown(p) = Readable(Entities(p))
      BY <1>1, <1>7, NoRead DEF Rows, Dumping
    <2>3. Dumping(p)'
      BY <1>1, <1>2, <2>1, <2>2 DEF Dumping, InSession, Shown
    <2>4. QED BY <1>3, <2>1, <2>3 DEF Rows, Asking, InSession
  <1>8. CASE Finish(p, "Usb") /\ UNCHANGED claims
    <2>1. pc'[p] = "done" /\ outcome'[p] = "Usb"
      BY <1>1, <1>8, FinishUnclaimed DEF IInv
    <2>2. QED BY <1>3, <2>1 DEF Rows, Asking, Dumping, InSession
  <1>9. QED BY <1>5, <1>6, <1>7, <1>8 DEF Claim

(* The first half of a range: a count that is kept fits.                   *)
LEMMA ReadHeadRows ==
  ASSUME PlanInv, NEW p \in Procs, ReadHead(p)
  PROVE  Rows(p)'
  <1>1. /\ pc[p] = "head" /\ UNCHANGED <<world, device, claims, job, aim, range, seen>>
        /\ IInv /\ Rows(p) /\ InSession(p)
    BY DEF ReadHead, PlanInv, InSession
  <1>2. CASE \E why : ReadFails(p, why)
    BY <1>1, <1>2, FailsRows
  <1>3. ASSUME NEW c \in Nat \ {0}, RangeLength(CurrentLayout(p), c) # LengthOverflow,
               run' = [run EXCEPT ![p].count = c], Goto(p, "block")
        PROVE  Rows(p)'
    <2>1. /\ run'[p].count = c /\ run'[p].reads = run[p].reads /\ run'[p].failed = run[p].failed
          /\ run'[p].printed = run[p].printed
      BY <1>1, <1>3 DEF IInv, Bookkeeping, FreshRun
    <2>2. pc'[p] = "block" /\ outcome'[p] = outcome[p] /\ outcome[p] = "none"
      BY <1>1, <1>3 DEF Goto, IInv, Bookkeeping, RangeSeen, Ranged
    <2>3. dev' = dev /\ iface' = iface /\ target' = target /\ job' = job /\ Entities(p)' = Entities(p)
      BY <1>1 DEF aim, Entities, InterfacesOf
    <2>4. CurrentLayout(p)' = CurrentLayout(p)
      BY <2>1, <2>3 DEF CurrentLayout
    <2>5. Planning(p)'
      BY <1>1, <2>1, <2>2, <2>3 DEF Rows, Planning, InSession
    <2>6. Asking(p)'
      BY <1>1, <1>3, <2>1, <2>2, <2>3, <2>4 DEF Rows, Asking, InSession
    <2>7. Dumping(p)'
      BY <1>1, <2>1, <2>2, <2>3 DEF Rows, Dumping, InSession, Shown
    <2>8. QED BY <2>5, <2>6, <2>7 DEF Rows
  <1>4. \/ \E why : ReadFails(p, why)
        \/ \E c : /\ c \in Nat \ {0} /\ RangeLength(CurrentLayout(p), c) # LengthOverflow
                  /\ run' = [run EXCEPT ![p].count = c] /\ Goto(p, "block")
    BY <1>1, CountsTaken DEF ReadHead, IInv
  <1>5. QED BY <1>2, <1>3, <1>4

(* The second half: what is kept is what was reported in this reply.       *)
LEMMA ReadBlockRows ==
  ASSUME PlanInv, NEW p \in Procs, ReadBlock(p)
  PROVE  Rows(p)' /\ (range'[p] = seen'[p] \/ (range'[p] = range[p] /\ seen'[p] = seen[p]))
  <1> DEFINE packet == RangePacket(CurrentAddress(p), CurrentLayout(p), run[p].count)
             reported == RangeOf(dev[p], Asked(ToBytes(packet)).selector)
  <1>1. /\ pc[p] = "block" /\ UNCHANGED <<world, device, claims, job, aim>>
        /\ IInv /\ Rows(p) /\ InSession(p)
    BY DEF ReadBlock, PlanInv, InSession
  <1>2. CASE (\E why : ReadFails(p, why)) /\ UNCHANGED <<range, seen>>
    BY <1>1, <1>2, FailsRows
  <1>3. ASSUME dev[p] \in plugged,
               NEW reply \in RangeReplies(dev[p], CurrentLayout(p), ToBytes(packet)),
               RangeVerdict(CurrentLayout(p), reply) = "ok",
               range' = [range EXCEPT ![p] = Take(p, reply)],
               seen' = [seen EXCEPT ![p] = reported],
               AfterRange(p, Take(p, reply)), UNCHANGED run
        PROVE  Rows(p)' /\ range'[p] = seen'[p]
    <2>1. Take(p, reply) = reported
      <3> DEFINE address == CurrentAddress(p)
                 layout == CurrentLayout(p)
                 n == run[p].count
                 length == RangeLength(layout, n)
      <3>1. address \in Addresses /\ layout \in Layouts
        BY <1>1, CurrentIs
      <3>2. n \in Nat \ {0} /\ length # LengthOverflow
        BY <1>1 DEF Rows, Asking
      <3>3. address.channel \in Byte /\ address.selector \in Byte
        BY <3>1 DEF Addresses
      <3>4. packet.address = address /\ packet.length = length
        BY DEF RangePacket, SetupPacket
      <3> HIDE DEF address, layout, n, length
      <3>5. length \in Word
        BY <3>1, <3>2, RangeBytes DEF length
      <3>6. Asked(ToBytes(packet)).selector = address.selector
        BY <3>3, <3>4, <3>5, AskedAsSent
      <3>7. reported = RangeOf(dev[p], address.selector) /\ reported \in Seq(Subrange)
        BY <1>1, <1>3, <3>6, ReportedRange DEF IInv
      <3>8. /\ reply \in RangeReplies(dev[p], layout, ToBytes(RangePacket(address, layout, n)))
            /\ RangeVerdict(layout, reply) = "ok"
        BY <1>3 DEF address, layout, n
      <3> HIDE DEF packet, reported
      <3>9. length = RangeLength(layout, n)
        BY DEF length
      <3>10. RangeEntries(layout, reply) = reported
        BY <3>1, <3>2, <3>3, <3>7, <3>8, <3>9, AcceptedIsReported
      <3>11. QED BY <3>10 DEF Take, layout
    <2>2. range'[p] = seen'[p]
      BY <1>1, <1>3, <2>1 DEF IInv, Bookkeeping
    <2>3. dev' = dev /\ iface' = iface /\ target' = target /\ job' = job /\ Entities(p)' = Entities(p)
      BY <1>1 DEF aim, Entities, InterfacesOf
    <2>4. Planning(p)'
      BY <1>1, <1>3, <2>3 DEF Rows, Planning, InSession
    <2>5. outcome[p] = "none"
      BY <1>1 DEF IInv, RangeSeen, Ranged
    <2>6. CASE job[p].command # "volume"
      <3>1. pc'[p] = "cur" /\ outcome'[p] = "none"
        BY <1>1, <1>3, <2>5, <2>6 DEF AfterRange, Goto, IInv, Bookkeeping
      <3>2. Asking(p)'
        BY <1>1, <1>3, <2>3, <2>6, <3>1 DEF Rows, Asking, InSession
      <3>3. Dumping(p)'
        BY <1>1, <1>3, <2>3, <3>1 DEF Rows, Dumping, InSession, Shown
      <3>4. QED BY <2>2, <2>4, <3>2, <3>3 DEF Rows
    <2>7. CASE job[p].command = "volume"
      <3>1. pc'[p] \in {"set", "drop"}
        <4>1. Goto(p, "set") \/ Finish(p, "OutOfRange")
          BY <1>3, <2>7 DEF AfterRange
        <4>2. QED BY <1>1, <4>1, FinishInSession DEF Goto, IInv, Bookkeeping
      <3>2. Asking(p)' /\ Dumping(p)'
        BY <1>1, <2>3, <2>7, <3>1 DEF Rows, Asking, Dumping, InSession
      <3>3. QED BY <2>2, <2>4, <3>2 DEF Rows
    <2>8. QED BY <2>6, <2>7
  <1>4. \/ (\E why : ReadFails(p, why)) /\ UNCHANGED <<range, seen>>
        \/ /\ dev[p] \in plugged
           /\ \E reply \in RangeReplies(dev[p], CurrentLayout(p), ToBytes(packet)) :
                /\ RangeVerdict(CurrentLayout(p), reply) = "ok"
                /\ range' = [range EXCEPT ![p] = Take(p, reply)]
                /\ seen' = [seen EXCEPT ![p] = reported]
                /\ AfterRange(p, Take(p, reply)) /\ UNCHANGED run
    BY DEF ReadBlock
  <1> HIDE DEF packet, reported
  <1>5. QED BY <1>2, <1>3, <1>4

(* A value that was read is shown.                                         *)
LEMMA ReadCurRows ==
  ASSUME PlanInv, NEW p \in Procs, ReadCur(p)
  PROVE  Rows(p)'
  <1> DEFINE read == Head(run[p].reads)
             r == [run[p] EXCEPT !.printed = @ \cup {read.address}]
  <1>1. /\ pc[p] = "cur" /\ UNCHANGED <<world, device, claims, job, aim, range, seen>>
        /\ IInv /\ Rows(p) /\ InSession(p) /\ job[p].command # "volume"
    BY DEF ReadCur, PlanInv, InSession, IInv, GatesPassed, Gated
  <1>2. CASE \E why : ReadFails(p, why)
    BY <1>1, <1>2, FailsRows
  <1>3. CASE AfterRead(p, r)
    <2>1. DOMAIN run[p] = DOMAIN FreshRun
      BY <1>1 DEF IInv, Bookkeeping
    <2>2. /\ DOMAIN r = DOMAIN FreshRun /\ r.reads = run[p].reads /\ r.failed = run[p].failed
          /\ r.printed = run[p].printed \cup {read.address}
      BY <2>1 DEF FreshRun
    <2>3. run[p].reads \in Seq(Reads) /\ run[p].reads # << >> /\ run[p].failed \in Nat
      BY <1>1 DEF Rows, Planning, Asking
    <2>4. Triples(run[p].reads) = {Triple(read.address)} \cup Triples(Tail(run[p].reads))
      BY <2>3, TailOf
    <2> HIDE DEF r
    <2>5. {Triple(a) : a \in r.printed} = Shown(p) \cup {Triple(read.address)}
      BY <2>2 DEF Shown
    <2>6. job[p].command = "dump" /\ run[p].failed = 0 =>
            Shown(p) \cup Triples(run[p].reads) = Readable(Entities(p))
      BY <1>1 DEF Rows, Dumping
    <2>7. job[p].command = "dump" /\ r.failed = 0 =>
            {Triple(a) : a \in r.printed} \cup Triples(Tail(r.reads)) = Readable(Entities(p))
      BY <2>2, <2>4, <2>5, <2>6
    <2>8. r.reads = run[p].reads /\ r.failed \in Nat /\ DOMAIN r = DOMAIN FreshRun
      BY <2>2, <2>3
    <2>9. QED BY <1>1, <1>3, <2>7, <2>8, ReadOnRows
  <1>4. QED BY <1>2, <1>3 DEF ReadCur

(* A SET that is sent or answered leaves the plan alone, and the level it  *)
(* leaves is one.                                                          *)
LEMMA SetCurRows ==
  ASSUME PlanInv, NEW p \in Procs, SetCur(p)
  PROVE  Rows(p)' /\ level' \in [DOMAIN world -> Word]
  <1> DEFINE payload == EncodeCur("Two", DbToRaw(job[p].scaled) % 65536)
             raw == FromLe16(payload[1], payload[2])
  <1>1. /\ pc[p] = "set" /\ UNCHANGED <<world, plugged, ranges, moves, claims, job, aim, range, run, seen>>
        /\ IInv /\ Rows(p) /\ InSession(p) /\ job[p].command = "volume"
        /\ level \in [DOMAIN world -> Word]
    BY DEF SetCur, PlanInv, InSession, IInv, GatesPassed, Gated, TypeOK
  <1>2. pc'[p] \in {"readback", "drop"}
    <2>1. Finish(p, "Transport") \/ Goto(p, "readback")
      BY DEF SetCur
    <2>2. QED BY <1>1, <2>1, FinishInSession DEF IInv, Bookkeeping, Goto
  <1>3. raw \in Word
    <2>1. DbToRaw(job[p].scaled) # NotALevel /\ job[p].scaled \in Int
      BY <1>1, Id14ctlAssumption DEF IInv, Bookkeeping, GatesPassed, Gated, Engaged
    <2>2. DbToRaw(job[p].scaled) = job[p].scaled /\ job[p].scaled % 65536 \in Word
      BY <2>1, AcceptedLevel
    <2>3. DbToRaw(job[p].scaled) % 65536 \in Word
      BY <2>2
    <2>4. QED BY <2>3, EncodedLevel
  <1> HIDE DEF raw, payload
  <1>4. UNCHANGED level \/ level' = [level EXCEPT ![dev[p]] = raw]
    BY DEF SetCur, raw, payload
  <1>5. level' \in [DOMAIN world -> Word]
    BY <1>1, <1>3, <1>4
  <1>6. dev' = dev /\ iface' = iface /\ target' = target
    BY <1>1 DEF aim
  <1>7. Rows(p)'
    BY <1>1, <1>2, <1>6 DEF Rows, Planning, Asking, Dumping, InSession
  <1>8. QED BY <1>5, <1>7

(* What was written is read back, and the session is over.                 *)
LEMMA ReadBackRows ==
  ASSUME PlanInv, NEW p \in Procs, ReadBack(p)
  PROVE  Rows(p)'
  <1>1. /\ pc[p] = "readback" /\ UNCHANGED <<world, device, claims, job, aim, range, seen>>
        /\ IInv /\ Rows(p) /\ InSession(p) /\ job[p].command = "volume"
    BY DEF ReadBack, PlanInv, InSession, IInv, GatesPassed, Gated
  <1>2. (\E why : Finish(p, why)) /\ (UNCHANGED run \/ \E x : run' = [run EXCEPT ![p].readback = x])
    BY DEF ReadBack
  <1>3. pc'[p] = "drop"
    BY <1>1, <1>2, FinishInSession DEF IInv
  <1>4. run'[p].reads = run[p].reads /\ run'[p].failed = run[p].failed
    BY <1>1, <1>2 DEF IInv, Bookkeeping, FreshRun
  <1>5. dev' = dev /\ iface' = iface /\ target' = target
    BY <1>1 DEF aim
  <1>6. QED BY <1>1, <1>3, <1>4, <1>5 DEF Rows, Planning, Asking, Dumping, InSession

(* Whoever leaves has shown what it has shown.                             *)
LEMMA LeaveRows ==
  ASSUME PlanInv, NEW p \in Procs, Drop(p) \/ Kill(p)
  PROVE  Rows(p)'
  <1>1. /\ UNCHANGED <<world, device, job, aim, range, run, wire, seen>> /\ IInv /\ Rows(p)
    BY DEF Drop, Kill, PlanInv
  <1>2. /\ pc'[p] = "done"
        /\ \/ outcome'[p] = outcome[p]
           \/ outcome'[p] = "killed"
    BY <1>1 DEF Drop, Kill, IInv, Bookkeeping
  <1>3. dev' = dev /\ iface' = iface /\ target' = target /\ Entities(p)' = Entities(p)
    BY <1>1 DEF aim, Entities, InterfacesOf
  <1>4. QED BY <1>1, <1>2, <1>3 DEF Rows, Planning, Asking, Dumping, InSession, Shown

-----------------------------------------------------------------------------
(* What goes out.                                                          *)

(* A request for an address the invocation may ask, with room for what is  *)
(* asked, means what was planned.                                          *)
LEMMA SentIsMeant ==
  ASSUME NEW p \in Procs, NEW packet, NEW payload, NEW room, Transfer(p, packet, payload, room),
         packet.address \in Addresses, packet.length \in Word, room = packet.length,
         packet.address.interface = iface[p], dev'[p] = dev[p], iface'[p] = iface[p],
         pc'[p] \in Session \cup {"drop"}
  PROVE  WireSent'
  <1>1. /\ wire'.by = p /\ wire'.to = dev[p] /\ wire'.bytes = ToBytes(packet)
        /\ wire'.meant = packet.address /\ wire'.room = room
    BY DEF Transfer
  <1>2. /\ Address(Asked(ToBytes(packet)).entity, Asked(ToBytes(packet)).selector,
                   Asked(ToBytes(packet)).channel, Asked(ToBytes(packet)).interface) = packet.address
        /\ Asked(ToBytes(packet)).length = packet.length
        /\ Asked(ToBytes(packet)).interface = packet.address.interface
    BY AskedIsMeant
  <1>3. (InSession(p) \/ pc[p] \in {"drop", "done"})'
    BY DEF Session, InSession
  <1>4. QED BY <1>1, <1>2, <1>3 DEF WireSent

(* Every step of a session leaves on the wire a request for the control it *)
(* is at.                                                                  *)
LEMMA SessionSends ==
  ASSUME PlanInv, NEW p \in Procs, SessionStep(p)
  PROVE  WireSent'
  <1>1. IInv /\ Rows(p) /\ InSession(p) /\ SessionFrame(p)
    BY SessionStepFrame DEF PlanInv
  <1>2. /\ dev'[p] = dev[p] /\ iface'[p] = iface[p] /\ pc'[p] \in Session \cup {"drop"}
    BY <1>1 DEF SessionFrame
  <1>3. CurrentAddress(p) \in Addresses /\ CurrentAddress(p).interface = iface[p]
    BY <1>1, CurrentIs
  <1>4. 2 \in Word
    BY SMT DEF Word
  <1>5. SizeOf["Two"] = 2
    BY DEF SizeOf
  <1>6. CASE ReadHead(p)
    <2> DEFINE packet == RangeCountPacket(CurrentAddress(p))
    <2>1. packet.address = CurrentAddress(p) /\ packet.length = 2
      BY DEF RangeCountPacket, SetupPacket, RangeCountLength
    <2>2. Transfer(p, packet, << >>, packet.length)
      BY <1>6 DEF ReadHead
    <2> HIDE DEF packet
    <2>3. QED BY <1>2, <1>3, <1>4, <2>1, <2>2, SentIsMeant
  <1>7. CASE ReadBlock(p)
    <2> DEFINE layout == CurrentLayout(p)
               n == run[p].count
               packet == RangePacket(CurrentAddress(p), layout, n)
               room == BlockLength(layout, n)
    <2>1. packet.address = CurrentAddress(p) /\ packet.length = RangeLength(layout, n)
      BY DEF RangePacket, SetupPacket
    <2>2. Transfer(p, packet, << >>, room) /\ pc[p] = "block"
      BY <1>7 DEF ReadBlock
    <2>3. n \in Nat \ {0} /\ RangeLength(layout, n) # LengthOverflow /\ layout \in Layouts
      BY <1>1, <2>2, CurrentIs DEF Rows, Asking
    <2> HIDE DEF layout, n
    <2>4. RangeLength(layout, n) = room /\ RangeLength(layout, n) \in Word
      BY <2>3, RangeBytes
    <2> HIDE DEF packet, room
    <2>5. QED BY <1>2, <1>3, <2>1, <2>2, <2>4, SentIsMeant
  <1>8. CASE ReadCur(p)
    <2> DEFINE read == Head(run[p].reads)
               packet == CurPacket(read)
    <2>1. packet.address = read.address /\ packet.length = read.cur_length
      BY DEF CurPacket, SetupPacket
    <2>2. Transfer(p, packet, << >>, read.cur_length) /\ pc[p] = "cur"
      BY <1>8 DEF ReadCur
    <2>3. job[p].command # "volume"
      BY <1>1, <2>2 DEF IInv, GatesPassed, Gated
    <2>4. read \in Reads /\ CurrentAddress(p) = read.address
      BY <1>1, <2>3, CurrentIs DEF CurrentAddress
    <2>5. read.cur_length \in Word
      BY <2>4 DEF Reads
    <2> HIDE DEF packet, read
    <2>6. QED BY <1>2, <1>3, <2>1, <2>2, <2>4, <2>5, SentIsMeant
  <1>9. CASE SetCur(p)
    <2> DEFINE packet == SetRequest(target[p])
               payload == EncodeCur("Two", DbToRaw(job[p].scaled) % 65536)
    <2>1. packet.address = target[p] /\ packet.length = 2
      BY <1>5 DEF SetRequest, SetupPacket
    <2>2. Transfer(p, packet, payload, packet.length) /\ pc[p] = "set"
      BY <1>9 DEF SetCur
    <2>3. target[p] = CurrentAddress(p)
      BY <1>1, <2>2 DEF IInv, GatesPassed, Gated, CurrentAddress
    <2> HIDE DEF packet, payload
    <2>4. QED BY <1>2, <1>3, <1>4, <2>1, <2>2, <2>3, SentIsMeant
  <1>10. CASE ReadBack(p)
    <2> DEFINE packet == ReadbackPacket(target[p])
    <2>1. packet.address = target[p] /\ packet.length = 2
      BY <1>5 DEF ReadbackPacket, SetupPacket
    <2>2. Transfer(p, packet, << >>, packet.length) /\ pc[p] = "readback"
      BY <1>10 DEF ReadBack
    <2>3. target[p] = CurrentAddress(p)
      BY <1>1, <2>2 DEF IInv, GatesPassed, Gated, CurrentAddress
    <2> HIDE DEF packet
    <2>4. QED BY <1>2, <1>3, <1>4, <2>1, <2>2, <2>3, SentIsMeant
  <1>11. QED BY <1>6, <1>7, <1>8, <1>9, <1>10 DEF SessionStep

(* What was sent earlier stays what it was: whoever sent it is still in    *)
(* session, or has left for good.                                          *)
LEMMA SentEarlier ==
  ASSUME PlanInv, NEW p \in Procs, RowOnly(p), UNCHANGED wire,
         \/ pc[p] \notin Session \cup {"drop", "done"}
         \/ pc'[p] \in {"drop", "done"}
  PROVE  WireSent'
  <1>1. CASE wire.by \notin Procs
    BY <1>1 DEF WireSent
  <1>2. CASE wire.by = p
    <2>1. pc[p] \in Session \cup {"drop", "done"}
      BY <1>2 DEF PlanInv, WireSent, InSession, Session
    <2>2. pc'[p] \in {"drop", "done"} /\ ~InSession(p)'
      BY <2>1 DEF InSession
    <2>3. QED BY <1>2, <2>2 DEF PlanInv, WireSent
  <1>3. CASE wire.by \in Procs \ {p}
    <2>1. pc'[wire.by] = pc[wire.by] /\ dev'[wire.by] = dev[wire.by] /\ iface'[wire.by] = iface[wire.by]
      BY <1>3 DEF RowOnly, OnlyAt
    <2>2. QED BY <1>3, <2>1 DEF PlanInv, WireSent, InSession
  <1>4. QED BY <1>1, <1>2, <1>3

-----------------------------------------------------------------------------
(* The invariant.                                                          *)

Labels == {"start", "descriptors", "claim", "head", "block", "cur", "set", "readback", "drop", "done"}

(* A step of one invocation changes one place of what it changes.          *)
Placed(p) ==
  /\ \E x : pc' = [pc EXCEPT ![p] = x]
  /\ UNCHANGED dev \/ \E x : dev' = [dev EXCEPT ![p] = x]
  /\ UNCHANGED iface \/ \E x : iface' = [iface EXCEPT ![p] = x]

(* Every step of an invocation does, a kill included.                      *)
LEMMA StepsArePlaced ==
  ASSUME NEW p, Proceed(p) \/ Kill(p)
  PROVE  Placed(p)
  <1>1. \A why : Finish(p, why) => \E x : pc' = [pc EXCEPT ![p] = x]
    BY DEF Finish
  <1>2. \A label : Goto(p, label) => \E x : pc' = [pc EXCEPT ![p] = x]
    BY DEF Goto
  <1>3. \A r : AfterRead(p, r) => \E x : pc' = [pc EXCEPT ![p] = x]
    BY <1>1, <1>2 DEF AfterRead
  <1>4. \A why : ReadFails(p, why) => \E x : pc' = [pc EXCEPT ![p] = x]
    BY <1>1, <1>3 DEF ReadFails
  <1>5. \A entries : AfterRange(p, entries) => \E x : pc' = [pc EXCEPT ![p] = x]
    BY <1>1, <1>2 DEF AfterRange
  <1>6. CASE Start(p)
    <2>1. (\E why : Finish(p, why)) \/ Goto(p, "descriptors")
      BY <1>6 DEF Start
    <2>2. UNCHANGED dev \/ \E x : dev' = [dev EXCEPT ![p] = x]
      BY <1>6 DEF Start
    <2>3. UNCHANGED iface
      BY <1>6 DEF Start
    <2>4. QED BY <1>1, <1>2, <2>1, <2>2, <2>3 DEF Placed
  <1>7. CASE Descriptors(p)
    <2>1. UNCHANGED dev /\ ((\E why : Finish(p, why)) \/ Goto(p, "claim"))
      BY <1>7 DEF Descriptors, Planned
    <2>2. UNCHANGED iface \/ \E x : iface' = [iface EXCEPT ![p] = x]
      BY <1>7 DEF Descriptors, Planned
    <2>3. QED BY <1>1, <1>2, <2>1, <2>2 DEF Placed
  <1>8. CASE Claim(p)
    <2>1. UNCHANGED <<dev, iface>>
      BY <1>8 DEF Claim, aim
    <2>2. (\E why : Finish(p, why)) \/ (\E label : Goto(p, label)) \/ pc' = [pc EXCEPT ![p] = "drop"]
      BY <1>8 DEF Claim
    <2>3. QED BY <1>1, <1>2, <2>1, <2>2 DEF Placed
  <1>9. CASE ReadHead(p)
    <2>1. UNCHANGED <<dev, iface>>
      BY <1>9 DEF ReadHead, aim
    <2>2. (\E why : ReadFails(p, why)) \/ Goto(p, "block")
      BY <1>9 DEF ReadHead
    <2>3. QED BY <1>2, <1>4, <2>1, <2>2 DEF Placed
  <1>10. CASE ReadBlock(p)
    <2>1. UNCHANGED <<dev, iface>>
      BY <1>10 DEF ReadBlock, aim
    <2>2. (\E why : ReadFails(p, why)) \/ \E entries : AfterRange(p, entries)
      BY <1>10 DEF ReadBlock
    <2>3. QED BY <1>4, <1>5, <2>1, <2>2 DEF Placed
  <1>11. CASE ReadCur(p)
    <2>1. UNCHANGED <<dev, iface>>
      BY <1>11 DEF ReadCur, aim
    <2>2. (\E why : ReadFails(p, why)) \/ \E r : AfterRead(p, r)
      BY <1>11 DEF ReadCur
    <2>3. QED BY <1>3, <1>4, <2>1, <2>2 DEF Placed
  <1>12. CASE SetCur(p)
    <2>1. UNCHANGED <<dev, iface>>
      BY <1>12 DEF SetCur, aim
    <2>2. (\E why : Finish(p, why)) \/ Goto(p, "readback")
      BY <1>12 DEF SetCur
    <2>3. QED BY <1>1, <1>2, <2>1, <2>2 DEF Placed
  <1>13. CASE ReadBack(p)
    <2>1. UNCHANGED <<dev, iface>>
      BY <1>13 DEF ReadBack, aim
    <2>2. \E why : Finish(p, why)
      BY <1>13 DEF ReadBack
    <2>3. QED BY <1>1, <2>1, <2>2 DEF Placed
  <1>14. CASE Drop(p) \/ Kill(p)
    BY <1>14 DEF Drop, Kill, aim, Placed
  <1>15. QED BY <1>6, <1>7, <1>8, <1>9, <1>10, <1>11, <1>12, <1>13, <1>14 DEF Proceed

(* A step of one invocation keeps every variable in its type.              *)
LEMMA TypeStep ==
  ASSUME TypeOK, NEW p \in Procs, RowOnly(p), Placed(p), Bookkeeping', ClaimsHeld',
         pc'[p] \in Labels, dev'[p] \in {0} \cup DOMAIN world, iface'[p] \in Byte,
         level' \in [DOMAIN world -> Word], moves' = moves
  PROVE  TypeOK'
  <1>1. pc' \in [Procs -> Labels] /\ dev' \in [Procs -> {0} \cup DOMAIN world] /\ iface' \in [Procs -> Byte]
    <2>1. pc \in [Procs -> Labels] /\ dev \in [Procs -> {0} \cup DOMAIN world] /\ iface \in [Procs -> Byte]
      BY DEF TypeOK, Labels
    <2>2. QED BY <2>1 DEF Placed
  <1>2. claims' \subseteq (DOMAIN world') \X Byte \X Procs
    <2>1. ASSUME NEW c \in claims'
          PROVE  c \in (DOMAIN world') \X Byte \X Procs
      <3>1. PICK q \in Procs : c = <<dev'[q], iface'[q], q>> /\ dev'[q] \in DOMAIN world'
        BY <2>1 DEF ClaimsHeld
      <3>2. QED BY <1>1, <3>1
    <2>2. QED BY <2>1
  <1>3. world' = world /\ job' = job
    BY DEF RowOnly
  <1>4. {DOMAIN outcome', DOMAIN target', DOMAIN range', DOMAIN run', DOMAIN seen'} = {Procs}
    BY DEF Bookkeeping
  <1>5. plugged' \subseteq DOMAIN world' /\ ranges' \in [DOMAIN world' -> Ranges]
    BY DEF Bookkeeping
  <1>6. job' \in [Procs -> Jobs] /\ moves' \in 0..MaxMoves /\ level' \in [DOMAIN world' -> Word]
    BY <1>3 DEF TypeOK
  <1>7. QED BY <1>1, <1>2, <1>3, <1>4, <1>5, <1>6 DEF TypeOK, Labels

(* Before anything was asked nothing is planned or shown.                  *)
LEMMA InitPlanInv == Init => PlanInv
  <1> SUFFICES ASSUME Init PROVE PlanInv
    OBVIOUS
  <1>1. IInv
    BY InitIInv
  <1>2. 0 \in Byte /\ 0 \in Nat /\ 0 \in 0..MaxMoves
    BY Id14ctlAssumption, SMT DEF Byte
  <1>3. (CHOOSE l \in Levels : TRUE) \in Word
    BY Id14ctlAssumption
  <1>4. TypeOK
    <2>1. level \in [DOMAIN world -> Word]
      BY <1>3 DEF Init
    <2>2. /\ plugged \subseteq DOMAIN world /\ ranges \in [DOMAIN world -> Ranges]
          /\ claims \subseteq (DOMAIN world) \X Byte \X Procs
          /\ pc \in [Procs -> Labels] /\ job \in [Procs -> Jobs]
      BY DEF Init, Labels
    <2>3. {DOMAIN outcome, DOMAIN target, DOMAIN range, DOMAIN run, DOMAIN seen} = {Procs}
      BY DEF Init
    <2>4. dev \in [Procs -> {0} \cup DOMAIN world] /\ iface \in [Procs -> Byte] /\ moves \in 0..MaxMoves
      BY <1>2 DEF Init
    <2>5. QED BY <2>1, <2>2, <2>3, <2>4 DEF TypeOK, Labels
  <1>5. RangeIsOneReply
    BY DEF Init, RangeIsOneReply
  <1>6. WireSent
    <2>1. wire.by \notin Procs
      BY Id14ctlAssumption DEF Init, NoTransfer
    <2>2. QED BY <2>1 DEF WireSent
  <1>7. ASSUME NEW p \in Procs PROVE Rows(p)
    <2>1. /\ pc[p] = "start" /\ target[p] = NoAddress /\ outcome[p] = "none" /\ run[p] = FreshRun
      BY <1>7 DEF Init
    <2>2. NoAddress \in Addresses
      BY <1>2 DEF NoAddress, Address, Addresses
    <2>3. run[p].reads \in Seq(Reads) /\ run[p].failed = 0 /\ run[p].printed = {}
      BY <2>1, NoRead DEF FreshRun
    <2>4. QED BY <1>2, <2>1, <2>2, <2>3 DEF Rows, Planning, Asking, Dumping, InSession
  <1>8. world \in Worlds
    BY DEF Init
  <1>9. QED BY <1>1, <1>4, <1>5, <1>6, <1>7, <1>8 DEF PlanInv

(* One step of an invocation, from what it does to its own row.            *)
LEMMA RowStep ==
  ASSUME PlanInv, IInv', NEW p \in Procs, Placed(p), RowOnly(p), Rows(p)', WireSent',
         range'[p] = seen'[p] \/ (range'[p] = range[p] /\ seen'[p] = seen[p]),
         pc'[p] \in Labels, dev'[p] \in {0} \cup DOMAIN world, iface'[p] \in Byte,
         level' \in [DOMAIN world -> Word], moves' = moves
  PROVE  PlanInv'
  <1>1. TypeOK'
    BY TypeStep DEF PlanInv, IInv
  <1>2. RangeIsOneReply'
    <2>1. ASSUME NEW q \in Procs, range'[q] # << >> PROVE range'[q] = seen'[q]
      <3>1. CASE q = p
        BY <2>1, <3>1 DEF PlanInv, RangeIsOneReply
      <3>2. CASE q # p
        BY <2>1, <3>2 DEF PlanInv, RangeIsOneReply, RowOnly, OnlyAt
      <3>3. QED BY <3>1, <3>2
    <2>2. QED BY <2>1 DEF RangeIsOneReply
  <1>3. \A q \in Procs : Rows(q)'
    <2>1. ASSUME NEW q \in Procs \ {p} PROVE Rows(q)'
      BY <2>1, OtherRows DEF PlanInv
    <2>2. QED BY <2>1
  <1>4. (world \in Worlds)'
    BY DEF PlanInv, RowOnly
  <1>5. QED BY <1>1, <1>2, <1>3, <1>4 DEF PlanInv

(* No step of an invocation, of the device or of the cable breaks the      *)
(* invariant.                                                              *)
LEMMA NextPlanInv == PlanInv /\ [Next]_vars => PlanInv'
  <1> SUFFICES ASSUME PlanInv, [Next]_vars PROVE PlanInv'
    OBVIOUS
  <1>1. IInv /\ IInv'
    BY NextIInv DEF PlanInv
  <1>2. /\ dev \in [Procs -> {0} \cup DOMAIN world] /\ iface \in [Procs -> Byte]
        /\ level \in [DOMAIN world -> Word]
    BY DEF PlanInv, TypeOK
  <1>3. ASSUME NEW p \in Procs, Start(p) PROVE PlanInv'
    <2>1. RowOnly(p) /\ UNCHANGED <<wire, seen>> /\ pc[p] = "start" /\ pc'[p] \in {"descriptors", "done"}
      BY <1>1, <1>3, StartStep DEF Start
    <2>2. Rows(p)' /\ dev'[p] \in {0} \cup DOMAIN world /\ Placed(p)
      BY <1>3, StartRows, StepsArePlaced DEF Proceed
    <2>3. UNCHANGED <<iface, range, level, moves>>
      BY <1>3 DEF Start, device
    <2>4. WireSent'
      BY <2>1, SentEarlier DEF Session
    <2>5. QED BY <1>1, <1>2, <2>1, <2>2, <2>3, <2>4, RowStep DEF Labels
  <1>4. ASSUME NEW p \in Procs, Descriptors(p) PROVE PlanInv'
    <2>1. RowOnly(p) /\ UNCHANGED <<wire, seen>> /\ pc[p] = "descriptors" /\ pc'[p] \in {"claim", "done"}
      BY <1>1, <1>4, DescriptorsStep DEF Descriptors
    <2>2. Rows(p)' /\ iface'[p] \in Byte /\ Placed(p)
      BY <1>4, DescriptorsRows, StepsArePlaced DEF Proceed
    <2>3. UNCHANGED <<dev, range, level, moves>>
      BY <1>4 DEF Descriptors, device
    <2>4. WireSent'
      BY <2>1, SentEarlier DEF Session
    <2>5. QED BY <1>1, <1>2, <2>1, <2>2, <2>3, <2>4, RowStep DEF Labels
  <1>5. ASSUME NEW p \in Procs, Claim(p) PROVE PlanInv'
    <2>1. RowOnly(p) /\ UNCHANGED <<wire, seen>> /\ pc[p] = "claim"
      BY <1>1, <1>5, ClaimStep DEF Claim
    <2>2. Rows(p)' /\ Placed(p)
      BY <1>5, ClaimRows, StepsArePlaced DEF Proceed
    <2>3. UNCHANGED <<dev, iface, range, level, moves>>
      BY <1>5 DEF Claim, device, aim
    <2>4. WireSent'
      BY <2>1, SentEarlier DEF Session
    <2>5. pc'[p] \in Labels
      <3>1. (\E why : Finish(p, why)) \/ Goto(p, "head") \/ Goto(p, FirstTransfer(Head(run[p].reads)))
              \/ pc' = [pc EXCEPT ![p] = "drop"]
        BY <1>5 DEF Claim
      <3>2. QED BY <1>1, <3>1, FirstIs DEF Finish, Goto, IInv, Bookkeeping, Labels
    <2>6. QED BY <1>1, <1>2, <2>1, <2>2, <2>3, <2>4, <2>5, RowStep
  <1>6. ASSUME NEW p \in Procs, SessionStep(p) PROVE PlanInv'
    <2>1. RowOnly(p) /\ pc'[p] \in Labels
      BY <1>1, <1>6, SessionStepFrame DEF SessionFrame, Session, Labels
    <2>2. WireSent' /\ Placed(p)
      BY <1>6, SessionSends, StepsArePlaced DEF Proceed, SessionStep
    <2>3. Rows(p)'
      BY <1>6, ReadHeadRows, ReadBlockRows, ReadCurRows, SetCurRows, ReadBackRows DEF SessionStep
    <2>4. range'[p] = seen'[p] \/ (range'[p] = range[p] /\ seen'[p] = seen[p])
      <3>1. CASE ReadBlock(p)
        BY <3>1, ReadBlockRows
      <3>2. CASE ReadHead(p) \/ ReadCur(p) \/ SetCur(p) \/ ReadBack(p)
        BY <3>2 DEF ReadHead, ReadCur, SetCur, ReadBack
      <3>3. QED BY <1>6, <3>1, <3>2 DEF SessionStep
    <2>5. level' \in [DOMAIN world -> Word]
      <3>1. CASE SetCur(p)
        BY <3>1, SetCurRows
      <3>2. CASE ReadHead(p) \/ ReadBlock(p) \/ ReadCur(p) \/ ReadBack(p)
        BY <1>2, <3>2 DEF ReadHead, ReadBlock, ReadCur, ReadBack, device
      <3>3. QED BY <1>6, <3>1, <3>2 DEF SessionStep
    <2>6. UNCHANGED <<dev, iface, moves>>
      BY <1>6 DEF SessionStep, ReadHead, ReadBlock, ReadCur, SetCur, ReadBack, device, aim
    <2>7. QED BY <1>1, <1>2, <2>1, <2>2, <2>3, <2>4, <2>5, <2>6, RowStep
  <1>7. ASSUME NEW p \in Procs, Drop(p) \/ Kill(p) PROVE PlanInv'
    <2>1. RowOnly(p) /\ UNCHANGED <<wire, seen>>
      BY <1>1, <1>7, LeaveStep
    <2>2. Rows(p)' /\ Placed(p)
      BY <1>7, LeaveRows, StepsArePlaced DEF Proceed
    <2>3. UNCHANGED <<dev, iface, range, level, moves>> /\ pc'[p] = "done"
      BY <1>1, <1>7 DEF Drop, Kill, device, aim, IInv, Bookkeeping
    <2>4. WireSent'
      BY <2>1, <2>3, SentEarlier
    <2>5. QED BY <1>1, <1>2, <2>1, <2>2, <2>3, <2>4, RowStep DEF Labels
  <1>8. CASE UNCHANGED <<world, claims, pc, job, outcome, aim, range, run, wire, seen>>
             /\ TypeOK'
    <2>1. ASSUME NEW q \in Procs PROVE Rows(q)'
      <3>1. Rows(q)
        BY <2>1 DEF PlanInv
      <3>2. Planning(q)' /\ Asking(q)'
        BY <1>8, <3>1 DEF Rows, Planning, Asking, InSession, CurrentLayout, aim
      <3>3. Dumping(q)'
        BY <1>8, <3>1 DEF Rows, Dumping, InSession, Shown, Entities, InterfacesOf, aim
      <3>4. QED BY <3>2, <3>3 DEF Rows
    <2>2. RangeIsOneReply' /\ WireSent' /\ (world \in Worlds)'
      BY <1>8 DEF PlanInv, RangeIsOneReply, WireSent, InSession, aim
    <2>3. QED BY <1>1, <1>8, <2>1, <2>2 DEF PlanInv
  <1>9. CASE UNCHANGED vars
    <2>1. TypeOK'
      BY <1>9 DEF PlanInv, TypeOK, vars, device, aim
    <2>2. QED BY <1>8, <1>9, <2>1 DEF vars
  <1>10. CASE Device
    <2>1. UNCHANGED <<world, claims, pc, job, outcome, aim, range, run, wire, seen>>
      BY <1>10 DEF Device
    <2>2. plugged' \subseteq DOMAIN world /\ ranges' \in [DOMAIN world -> Ranges]
      BY <1>1, <2>1 DEF IInv, Bookkeeping
    <2>3. level' \in [DOMAIN world -> Word]
      <3>1. UNCHANGED level \/ \E d \in DOMAIN world, l \in Levels : level' = [level EXCEPT ![d] = l]
        BY <1>10 DEF Device, Turn, Rerange, Cable
      <3>2. QED BY <1>2, <3>1, Id14ctlAssumption
    <2>4. moves' \in 0..MaxMoves
      <3>1. moves \in 0..MaxMoves /\ moves < MaxMoves /\ moves' = moves + 1 /\ MaxMoves \in Nat
        BY <1>10, Id14ctlAssumption DEF Device, PlanInv, TypeOK
      <3>2. QED BY <3>1, SMT
    <2>5. TypeOK'
      BY <2>1, <2>2, <2>3, <2>4 DEF PlanInv, TypeOK, aim
    <2>6. QED BY <1>8, <2>1, <2>5
  <1>11. QED
    BY <1>3, <1>4, <1>5, <1>6, <1>7, <1>9, <1>10 DEF Next, Proceed, SessionStep, Over

(* The invariant holds for every set of invocations, commands, devices,    *)
(* descriptors, ranges and faults.                                         *)
THEOREM PlanInvariantHolds == Spec => []PlanInv
  <1>1. QED BY InitPlanInv, NextPlanInv, PTL DEF Spec

-----------------------------------------------------------------------------
(* What follows from it.                                                   *)

(* Every variable keeps its type: levels stay 16-bit words whatever is     *)
(* written, interfaces stay bytes, claims stay the kernel's triples.       *)
THEOREM Id14ctlTyped == Spec => []TypeOK
  <1>1. PlanInv => TypeOK
    BY DEF PlanInv
  <1>2. QED BY <1>1, PlanInvariantHolds, PTL

(* A range that was accepted is what the device said in that one reply,    *)
(* for every layout, every count that came before and every buffer.        *)
THEOREM RangesAreOneReply == Spec => []RangeIsOneReply
  <1>1. PlanInv => RangeIsOneReply
    BY DEF PlanInv
  <1>2. QED BY <1>1, PlanInvariantHolds, PTL

(* The device that takes a request apart finds the entity, selector,       *)
(* channel and interface that were planned and room for the whole block;   *)
(* the interface is the one the sender holds.                              *)
THEOREM RequestsMeanThePlan == Spec => []WireMeansPlan
  <1>1. PlanInv => WireMeansPlan
    <2> SUFFICES ASSUME PlanInv, wire.by \in Procs
                 PROVE  LET asked == Asked(wire.bytes)
                        IN /\ Address(asked.entity, asked.selector, asked.channel, asked.interface) = wire.meant
                           /\ asked.length = wire.room
                           /\ InSession(wire.by) => <<wire.to, asked.interface, wire.by>> \in claims
      BY DEF WireMeansPlan
    <2>1. InSession(wire.by) => <<dev[wire.by], iface[wire.by], wire.by>> \in claims
      BY DEF PlanInv, IInv, ClaimsHeld
    <2>2. QED BY <2>1 DEF PlanInv, WireSent
  <1>2. QED BY <1>1, PlanInvariantHolds, PTL

(* A dump that says Ok has shown every readable control of every entity    *)
(* the descriptor declares, and nothing else, whatever the topology.       *)
THEOREM DumpsAreComplete == Spec => []DumpIsComplete
  <1>1. PlanInv => DumpIsComplete
    <2> SUFFICES ASSUME PlanInv, NEW p \in Procs,
                        job[p].command = "dump" /\ outcome[p] = "ok" /\ ~job[p].dry_run
                 PROVE  {<<a.entity, a.selector, a.channel>> : a \in run[p].printed} = Readable(Entities(p))
      BY DEF DumpIsComplete
    <2>1. Shown(p) = Readable(Entities(p))
      BY DEF PlanInv, Rows, Dumping
    <2>2. QED BY <2>1 DEF Shown, Triple
  <1>2. QED BY <1>1, PlanInvariantHolds, PTL

(* `declared` is what it says: what the AudioControl interface carries is  *)
(* a first part, or all, of bytes that parse to the declared entities.     *)
CutFromDeclared ==
  \A w \in Worlds : \A d \in DOMAIN w : \A i \in ToSet(Interfaces(w[d]).list) :
    IsControlInterface(i) =>
      \E whole \in Seq(Byte) :
        /\ ParseEntities(whole) = Parsed("none", w[d].declared)
        /\ Len(i.extra) <= Len(whole)
        /\ \A k \in 1..Len(i.extra) : i.extra[k] = whole[k]

(* Wherever the bytes of a descriptor were cut, what is parsed from them   *)
(* is an error or the declared entities before the cut.                    *)
THEOREM CutsParseAsDeclared == CutFromDeclared => (Spec => []ParsedAsDeclared)
  <1> SUFFICES ASSUME CutFromDeclared PROVE Spec => []ParsedAsDeclared
    OBVIOUS
  <1>1. PlanInv => ParsedAsDeclared
    <2> SUFFICES ASSUME PlanInv, NEW p \in Procs, pc[p] = "descriptors",
                        FromInterfaces(InterfacesOf(dev[p]).list).err = "none"
                 PROVE  IsPrefix(FromInterfaces(InterfacesOf(dev[p]).list).entities, world[dev[p]].declared)
      BY DEF ParsedAsDeclared
    <2> DEFINE list == Interfaces(world[dev[p]]).list
               declared == world[dev[p]].declared
    <2>1. world \in Worlds /\ dev[p] \in DOMAIN world
      BY DEF PlanInv, Rows, Planning
    <2>2. list \in Seq(InterfaceInfo) /\ InterfacesOf(dev[p]).list = list
      BY <2>1, InterfacesTyped DEF InterfacesOf
    <2> HIDE DEF list
    <2>3. PICK j \in DOMAIN list : /\ IsControlInterface(list[j]) /\ list[j].extra \in Seq(Byte)
                                   /\ FromInterfaces(list) = ParseEntities(list[j].extra)
      BY <2>2, EntitiesFrom
    <2> DEFINE cut == list[j].extra
    <2>4. PICK whole \in Seq(Byte) :
            /\ ParseEntities(whole) = Parsed("none", declared)
            /\ Len(cut) <= Len(whole)
            /\ \A k \in 1..Len(cut) : cut[k] = whole[k]
      <3>1. list[j] \in ToSet(list)
        BY DEF ToSet
      <3>2. QED BY <2>1, <2>3, <3>1 DEF CutFromDeclared, list
    <2>5. ParseEntities(whole).err = "none" /\ ParseEntities(whole).entities = declared
      BY <2>4 DEF Parsed
    <2>6. ParseEntities(cut).err = "none"
      BY <2>2, <2>3
    <2>7. cut \in Seq(Byte) /\ Len(cut) \in 0..Len(whole)
      BY <2>3, <2>4
    <2> HIDE DEF cut, declared
    <2>8. IsPrefix(ParseEntities(cut).entities, ParseEntities(whole).entities)
      <3> DEFINE n == Len(cut)
      <3>1. n \in 0..Len(whole) /\ Len(cut) = n /\ \A k \in 1..n : cut[k] = whole[k]
        BY <2>4, <2>7
      <3> HIDE DEF n
      <3>2. QED BY <2>5, <2>6, <2>7, <3>1, CutParses
    <2>9. QED BY <2>2, <2>3, <2>5, <2>8 DEF cut, declared
  <1>2. QED BY <1>1, PlanInvariantHolds, PTL

-----------------------------------------------------------------------------
(* The target of a volume command.                                         *)

NoUnit == {"MixerOutputFeatureUnitMissing", "MixerOutputFeatureUnitAmbiguous"}

(* What volume_target answers, by the declared topology.                   *)
LEMMA TargetIs ==
  ASSUME NEW ac \in Seq(EntityType), DistinctIds(ac), NEW interface, NEW channel,
         NEW volume, volume = VolumeTarget(ac, interface, channel)
  PROVE  /\ volume.err = "none" =>
              \E u \in DOMAIN ac : /\ OutputUnits(ac) = {u}
                                   /\ volume.address.entity = ac[u].id
                                   /\ Capability(ac[u], channel, Volume) = "HostProgrammable"
         /\ volume.err = "MixerOutputFeatureUnitMissing" => OutputUnits(ac) = {}
         /\ volume.err = "MixerOutputFeatureUnitAmbiguous" => Cardinality(OutputUnits(ac)) > 1
  <1> DEFINE found == MixerOutputFeatureUnit(ac)
             unit == ac[found.at]
             may == Capability(unit, channel, Volume)
  <1>1. /\ found.err = "none" => found.at \in DOMAIN ac /\ OutputUnits(ac) = {found.at}
        /\ found.err = "MixerOutputFeatureUnitMissing" => OutputUnits(ac) = {}
        /\ found.err = "MixerOutputFeatureUnitAmbiguous" => Cardinality(OutputUnits(ac)) > 1
    BY UnitFound
  <1>2. CASE found.err # "none"
    <2>1. volume.err = found.err
      BY <1>2 DEF VolumeTarget
    <2>2. QED BY <1>1, <1>2, <2>1
  <1>3. CASE found.err = "none"
    <2>1. CASE may = "HostProgrammable"
      <3>1. volume.err = "none" /\ volume.address.entity = unit.id
        BY <1>3, <2>1 DEF VolumeTarget, Address
      <3>2. QED BY <1>1, <1>3, <2>1, <3>1
    <2>2. CASE may # "HostProgrammable"
      <3>1. volume.err \in {"VolumeNotWritable", "VolumeNotDeclared"}
        BY <1>3, <2>2 DEF VolumeTarget
      <3>2. QED BY <3>1
    <2>3. QED BY <2>1, <2>2
  <1>4. QED BY <1>2, <1>3

(* The row of TargetIsMixerOutput.                                         *)
Targeted(p) ==
  job[p].command = "volume" =>
    /\ pc[p] = "claim" =>
         \E u \in DOMAIN Entities(p) :
           /\ OutputUnits(Entities(p)) = {u}
           /\ target[p].entity = Entities(p)[u].id
           /\ Capability(Entities(p)[u], job[p].channel, Volume) = "HostProgrammable"
    /\ outcome[p] = "MixerOutputFeatureUnitMissing" => OutputUnits(Entities(p)) = {}
    /\ outcome[p] = "MixerOutputFeatureUnitAmbiguous" => Cardinality(OutputUnits(Entities(p))) > 1

(* Parser and interface search have errors of their own.                   *)
LEMMA OtherErrors ==
  ASSUME NEW interfaces \in Seq(InterfaceInfo)
  PROVE  /\ FindControlInterface(interfaces).err \notin NoUnit
         /\ FromInterfaces(interfaces).err \notin NoUnit
  <1>1. FindControlInterface(interfaces).err \notin NoUnit
    BY DEF FindControlInterface, NoUnit
  <1>2. \A extra \in Seq(Byte) : ParseEntities(extra).err \notin NoUnit
    BY ParseTyped DEF Results, ParseErrors, NoUnit
  <1>3. \A why \in {"none", "AudioControlInterfaceMissing", "UnsupportedAudioClass"} : why \notin NoUnit
    BY DEF NoUnit
  <1>4. QED BY <1>1, <1>2, <1>3, EntitiesFrom

(* Only the planner aims, and says that there is no unit: any other step   *)
(* of an invocation leads elsewhere and has other reasons to end.          *)
Elsewhere(p) ==
  /\ \E label : label # "claim" /\ pc' = [pc EXCEPT ![p] = label]
  /\ UNCHANGED outcome \/ \E why : why \notin NoUnit /\ outcome' = [outcome EXCEPT ![p] = why]
LEMMA OthersAreElsewhere ==
  ASSUME NEW p, \/ Start(p) \/ Claim(p) \/ ReadHead(p) \/ ReadBlock(p) \/ ReadCur(p) \/ SetCur(p)
                \/ ReadBack(p) \/ Drop(p) \/ Kill(p)
  PROVE  Elsewhere(p)
  <1>1. \A why : why \notin NoUnit /\ Finish(p, why) => Elsewhere(p)
    <2> SUFFICES ASSUME NEW why, why \notin NoUnit, Finish(p, why) PROVE Elsewhere(p)
      OBVIOUS
    <2> DEFINE label == IF \E c \in claims : c[3] = p THEN "drop" ELSE "done"
    <2>1. label # "claim" /\ pc' = [pc EXCEPT ![p] = label] /\ outcome' = [outcome EXCEPT ![p] = why]
      BY DEF Finish
    <2> HIDE DEF label
    <2>2. QED BY <2>1 DEF Elsewhere
  <1>2. \A label : label # "claim" /\ Goto(p, label) => Elsewhere(p)
    BY DEF Goto, Elsewhere
  <1>3. \A why \in {"ok", "Usb", "NoDevice", "WriteDisabled", "InvalidDecibels", "RequestSendUnsupported",
                    "Output", "DumpIncomplete", "Transport", "LengthOverflow", "OutOfRange", "short", "empty",
                    "killed"} : why \notin NoUnit
    BY DEF NoUnit
  <1>4. \A read : FirstTransfer(read) # "claim"
    BY FirstIs
  <1>5. ASSUME NEW r, AfterRead(p, r)
        PROVE  Elsewhere(p)
    <2>1. \/ \E why \in {"ok", "DumpIncomplete", "Output"} : Finish(p, why)
          \/ Goto(p, FirstTransfer(r.reads[2]))
      BY <1>5 DEF AfterRead
    <2>2. QED BY <1>1, <1>2, <1>3, <1>4, <2>1
  <1>6. ASSUME NEW why, why \notin NoUnit, ReadFails(p, why)
        PROVE  Elsewhere(p)
    <2>1. Finish(p, why) \/ \E r : AfterRead(p, r)
      BY <1>6 DEF ReadFails
    <2>2. QED BY <1>1, <1>5, <1>6, <2>1
  <1>7. CASE Start(p)
    <2>1. \A j : Refusal(j) \in {"WriteDisabled", "InvalidDecibels", "ok", "RequestSendUnsupported", "none"}
      BY DEF Refusal
    <2>2. \A why : Printed(why) \subseteq {why, "Output"}
      BY DEF Printed
    <2>3. \/ \E why : why # "none" /\ why \in Printed(Refusal(job[p])) /\ Finish(p, why)
          \/ Refusal(job[p]) = "none" /\ Finish(p, "Usb")
          \/ Finish(p, "NoDevice")
          \/ \E why \in Printed("ok") : Finish(p, why)
          \/ Goto(p, "descriptors")
      <3>1. \/ Refusal(job[p]) # "none" /\ \E why \in Printed(Refusal(job[p])) : Finish(p, why)
            \/ Refusal(job[p]) = "none" /\ Finish(p, "Usb")
            \/ Finish(p, "NoDevice")
            \/ \E why \in Printed("ok") : Finish(p, why)
            \/ Goto(p, "descriptors")
        BY <1>7 DEF Start
      <3>2. Refusal(job[p]) # "none" => \A why \in Printed(Refusal(job[p])) : why # "none"
        BY <2>2
      <3>3. QED BY <3>1, <3>2
    <2>4. QED BY <1>1, <1>2, <1>3, <2>1, <2>2, <2>3
  <1>8. CASE Claim(p)
    <2>1. \/ Goto(p, "head")
          \/ Goto(p, FirstTransfer(Head(run[p].reads)))
          \/ pc' = [pc EXCEPT ![p] = "drop"] /\ \E why \in Printed("ok") : outcome' = [outcome EXCEPT ![p] = why]
          \/ Finish(p, "Usb")
      BY <1>8 DEF Claim
    <2>2. \A why \in Printed("ok") : why \notin NoUnit
      BY <1>3 DEF Printed
    <2>3. QED BY <1>1, <1>2, <1>3, <1>4, <2>1, <2>2 DEF Elsewhere
  <1>9. CASE ReadHead(p)
    <2>1. \A reply : CountVerdict(reply) \in {"short", "empty", "ok"}
      BY DEF CountVerdict
    <2>2. \/ ReadFails(p, "Transport")
          \/ \E reply : ReadFails(p, CountVerdict(reply))
          \/ ReadFails(p, "LengthOverflow")
          \/ Goto(p, "block")
      BY <1>9 DEF ReadHead
    <2>3. QED BY <1>2, <1>3, <1>6, <2>1, <2>2
  <1>10. CASE ReadBlock(p)
    <2>1. \A layout, reply : RangeVerdict(layout, reply) \in {"short", "empty", "ok"}
      BY DEF RangeVerdict, CountVerdict
    <2>2. \/ ReadFails(p, "Transport")
          \/ \E layout, reply : ReadFails(p, RangeVerdict(layout, reply))
          \/ \E entries : AfterRange(p, entries)
      BY <1>10 DEF ReadBlock
    <2>3. \A entries : AfterRange(p, entries) =>
            Goto(p, "cur") \/ Goto(p, "set") \/ Finish(p, "OutOfRange")
      BY DEF AfterRange
    <2>4. QED BY <1>1, <1>2, <1>3, <1>6, <2>1, <2>2, <2>3
  <1>11. CASE ReadCur(p)
    <2>1. ReadFails(p, "Transport") \/ ReadFails(p, "short") \/ \E r : AfterRead(p, r)
      BY <1>11 DEF ReadCur
    <2>2. QED BY <1>3, <1>5, <1>6, <2>1
  <1>12. CASE SetCur(p)
    <2>1. Finish(p, "Transport") \/ Goto(p, "readback")
      BY <1>12 DEF SetCur
    <2>2. QED BY <1>1, <1>2, <1>3, <2>1
  <1>13. CASE ReadBack(p)
    <2>1. \E why \in {"Transport", "short", "ok", "Output"} : Finish(p, why)
      BY <1>13 DEF ReadBack
    <2>2. QED BY <1>1, <1>3, <2>1
  <1>14. CASE Drop(p)
    BY <1>14 DEF Drop, Elsewhere
  <1>15. CASE Kill(p)
    BY <1>3, <1>15 DEF Kill, Elsewhere
  <1>16. QED BY <1>7, <1>8, <1>9, <1>10, <1>11, <1>12, <1>13, <1>14, <1>15

(* The planner aims at the mixers' output.                                 *)
LEMMA PlannerAims ==
  ASSUME IdsAreUnique, PlanInv, NEW p \in Procs, Descriptors(p)
  PROVE  Targeted(p)'
  <1> DEFINE list == InterfacesOf(dev[p]).list
             ac == FromInterfaces(list)
             control == FindControlInterface(list)
             volume == VolumeTarget(ac.entities, control.number, job[p].channel)
  <1>1. /\ pc[p] = "descriptors" /\ UNCHANGED <<world, job, dev>>
        /\ world \in Worlds /\ dev[p] \in DOMAIN world /\ outcome[p] = "none"
        /\ p \in DOMAIN pc /\ p \in DOMAIN outcome /\ p \in DOMAIN target
    BY DEF Descriptors, PlanInv, IInv, Bookkeeping, RangeSeen, Ranged, Rows, Planning
  <1>2. list \in Seq(InterfaceInfo)
    BY <1>1, InterfacesTyped
  <1>3. ac.entities \in Seq(EntityType) /\ DistinctIds(ac.entities)
    <2>1. ac.entities \in Seq(EntityType)
      BY <1>2, EntitiesTyped
    <2>2. DistinctIds(ac.entities)
      BY <1>1 DEF IdsAreUnique, InterfacesOf
    <2>3. QED BY <2>1, <2>2
  <1>4. ac.err \notin NoUnit /\ control.err \notin NoUnit
    BY <1>2, OtherErrors
  <1>5. Entities(p)' = ac.entities /\ job' = job
    BY <1>1 DEF Entities, InterfacesOf
  <1> HIDE DEF ac, control, list
  <1>6. /\ volume.err = "none" =>
             \E u \in DOMAIN ac.entities :
               /\ OutputUnits(ac.entities) = {u}
               /\ volume.address.entity = ac.entities[u].id
               /\ Capability(ac.entities[u], job[p].channel, Volume) = "HostProgrammable"
        /\ volume.err = "MixerOutputFeatureUnitMissing" => OutputUnits(ac.entities) = {}
        /\ volume.err = "MixerOutputFeatureUnitAmbiguous" => Cardinality(OutputUnits(ac.entities)) > 1
    <2> DEFINE entities == ac.entities
               channel == job[p].channel
               interface == control.number
    <2>1. volume = VolumeTarget(entities, interface, channel) /\ entities \in Seq(EntityType) /\ DistinctIds(entities)
      BY <1>3
    <2> HIDE DEF entities, channel, interface, volume
    <2>2. QED BY <2>1, TargetIs DEF entities, channel
  <1> HIDE DEF volume
  <1>7. ASSUME NEW why, Finish(p, why), why \notin NoUnit \/ (job[p].command = "volume" /\ why = volume.err)
        PROVE  Targeted(p)'
    <2>1. pc'[p] # "claim" /\ outcome'[p] = why
      BY <1>1, <1>7 DEF Finish
    <2>2. QED BY <1>5, <1>6, <1>7, <2>1 DEF Targeted, NoUnit
  <1>8. ASSUME job[p].command = "volume", volume.err = "none",
               target' = [target EXCEPT ![p] = volume.address], Goto(p, "claim")
        PROVE  Targeted(p)'
    <2>1. target'[p] = volume.address /\ outcome'[p] = "none"
      BY <1>1, <1>8 DEF Goto
    <2>2. QED BY <1>5, <1>6, <1>8, <2>1 DEF Targeted
  <1>9. CASE job[p].command # "volume"
    BY <1>5, <1>9 DEF Targeted
  <1>10. CASE job[p].command = "volume" /\ Planned(p, ac, control)
    <2>1. \/ ac.err # "none" /\ Finish(p, ac.err)
          \/ control.err # "none" /\ Finish(p, control.err)
          \/ Finish(p, volume.err)
          \/ \E why \in Printed("ok") : Finish(p, why)
          \/ volume.err = "none" /\ target' = [target EXCEPT ![p] = volume.address] /\ Goto(p, "claim")
      BY <1>10 DEF Planned, volume
    <2>2. \A why \in Printed("ok") : why \notin NoUnit
      BY DEF Printed, NoUnit
    <2>3. QED BY <1>4, <1>7, <1>8, <1>10, <2>1, <2>2
  <1>11. CASE Finish(p, "Usb")
    <2>1. "Usb" \notin NoUnit
      BY DEF NoUnit
    <2>2. QED BY <1>7, <1>11, <2>1
  <1>12. QED BY <1>9, <1>10, <1>11 DEF Descriptors, ac, control, list

(* A step elsewhere leaves what was said of the mixers' output.            *)
LEMMA ElsewhereKeeps ==
  ASSUME PlanInv, NEW p \in Procs, Targeted(p), Proceed(p) \/ Kill(p), ~Descriptors(p)
  PROVE  Targeted(p)'
  <1>1. Elsewhere(p) /\ p \in DOMAIN pc /\ p \in DOMAIN outcome
    BY OthersAreElsewhere DEF Proceed, PlanInv, IInv, Bookkeeping
  <1>2. pc'[p] # "claim"
    BY <1>1 DEF Elsewhere
  <1>3. outcome'[p] \in NoUnit => outcome'[p] = outcome[p]
    BY <1>1 DEF Elsewhere
  <1>4. UNCHANGED <<world, job>>
    BY DEF Proceed, Start, Claim, ReadHead, ReadBlock, ReadCur, SetCur, ReadBack, Drop, Kill
  <1>5. dev' = dev \/ pc[p] = "start"
    BY DEF Proceed, Start, Claim, ReadHead, ReadBlock, ReadCur, SetCur, ReadBack, Drop, Kill, aim
  <1>6. pc[p] = "start" => outcome[p] = "none"
    BY DEF PlanInv, IInv, RangeSeen, Ranged
  <1>7. CASE outcome'[p] \notin NoUnit
    BY <1>2, <1>7 DEF Targeted, NoUnit
  <1>8. CASE outcome'[p] \in NoUnit
    <2>1. outcome'[p] = outcome[p] /\ dev' = dev
      BY <1>3, <1>5, <1>6, <1>8 DEF NoUnit
    <2>2. Entities(p)' = Entities(p)
      BY <1>4, <2>1 DEF Entities, InterfacesOf
    <2>3. QED BY <1>2, <1>4, <2>1, <2>2 DEF Targeted
  <1>9. QED BY <1>7, <1>8

(* A step of an invocation changes its own row.                            *)
LEMMA StepsOfOne ==
  ASSUME PlanInv, NEW p \in Procs, Proceed(p) \/ Kill(p)
  PROVE  RowOnly(p)
  <1>1. IInv
    BY DEF PlanInv
  <1>2. Start(p) => RowOnly(p)
    BY <1>1, StartStep
  <1>3. Descriptors(p) => RowOnly(p)
    BY <1>1, DescriptorsStep
  <1>4. Claim(p) => RowOnly(p)
    BY <1>1, ClaimStep
  <1>5. SessionStep(p) => RowOnly(p)
    BY <1>1, SessionStepFrame DEF SessionFrame
  <1>6. Drop(p) \/ Kill(p) => RowOnly(p)
    BY <1>1, LeaveStep
  <1>7. QED BY <1>2, <1>3, <1>4, <1>5, <1>6 DEF Proceed, SessionStep

(* A volume command that goes on has found the one Feature Unit nearest    *)
(* downstream of the mixers, whatever loops and branches the units form,   *)
(* and says that there is none, or several, only if that is so.            *)
THEOREM VolumeFindsTheMixerOutput == IdsAreUnique => (Spec => []TargetIsMixerOutput)
  <1> SUFFICES ASSUME IdsAreUnique PROVE Spec => []TargetIsMixerOutput
    OBVIOUS
  <1>1. TargetIsMixerOutput <=> \A p \in Procs : Targeted(p)
    BY DEF TargetIsMixerOutput, Targeted
  <1>2. Init => TargetIsMixerOutput
    BY DEF Init, TargetIsMixerOutput
  <1>3. PlanInv /\ TargetIsMixerOutput /\ [Next]_vars => TargetIsMixerOutput'
    <2> SUFFICES ASSUME PlanInv, \A p \in Procs : Targeted(p), [Next]_vars, NEW q \in Procs
                 PROVE  Targeted(q)'
      BY <1>1 DEF TargetIsMixerOutput, Targeted
    <2>1. CASE UNCHANGED <<world, job, pc, outcome, aim>>
      <3>1. Entities(q)' = Entities(q)
        BY <2>1 DEF Entities, InterfacesOf, aim
      <3>2. QED BY <2>1, <3>1 DEF Targeted, aim
    <2>2. ASSUME NEW p \in Procs, Proceed(p) \/ Kill(p)
          PROVE  Targeted(q)'
      <3>1. CASE q = p
        BY <2>2, <3>1, PlannerAims, ElsewhereKeeps
      <3>2. CASE q # p
        <4>1. RowOnly(p)
          BY <2>2, StepsOfOne
        <4>2. /\ pc'[q] = pc[q] /\ outcome'[q] = outcome[q] /\ dev'[q] = dev[q] /\ target'[q] = target[q]
              /\ job' = job /\ world' = world
          BY <3>2, <4>1 DEF RowOnly, OnlyAt
        <4>3. Entities(q)' = Entities(q)
          BY <4>2 DEF Entities, InterfacesOf
        <4>4. QED BY <4>2, <4>3 DEF Targeted
      <3>3. QED BY <3>1, <3>2
    <2>3. QED BY <2>1, <2>2 DEF Next, Device, Over, vars
  <1>4. QED BY <1>2, <1>3, PlanInvariantHolds, PTL DEF Spec
=============================================================================

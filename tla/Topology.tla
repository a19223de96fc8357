-------------------------------- MODULE Topology --------------------------------
(***************************************************************************)
(* What a descriptor declares, said without the walks of descriptor.rs and *)
(* the loops of plan.rs: the properties are measured against it.           *)
(***************************************************************************)
EXTENDS Plan

(* Every entity has an id of its own, as the USB Audio standard demands.   *)
DistinctIds(ac) == \A i, j \in DOMAIN ac : ac[i].id = ac[j].id => i = j

(* What an entity feeds; an output terminal feeds nothing.                 *)
FedBy(ac, a) == {b \in DOMAIN ac : ac[a].kind # "OutputTerminal" /\ ac[a].id \in AudioSources(ac[b])}

(* The entities exactly k steps downstream of a mixer.                     *)
Downstream(ac, mixer) ==
  LET at[k \in 0..Len(ac)] ==
        IF k = 0 THEN {mixer} ELSE UNION {FedBy(ac, a) : a \in at[k - 1]}
  IN at

VolumeUnits(ac) == {k \in DOMAIN ac : ac[k].kind = "Feature" /\ Declares(ac[k], Volume)}

(* Volume units that no other volume unit is nearer than.                  *)
NearestUnits(ac, mixer) ==
  {u \in VolumeUnits(ac) : \E n \in 1..Len(ac) :
      /\ u \in Downstream(ac, mixer)[n]
      /\ \A k \in 1..(n - 1) : Downstream(ac, mixer)[k] \cap VolumeUnits(ac) = {}}

OutputUnits(ac) == UNION {NearestUnits(ac, m) : m \in {k \in DOMAIN ac : ac[k].kind = "Mixer"}}

(* A bit pair declares its control when the lower bit is set.              *)
LowBit(bytes, pair) == (bytes[1 + pair \div 4] \div 4 ^ (pair % 4)) % 2 = 1

(* What an id names: the first entity that has it.                         *)
Named(ac, id) == {j \in DOMAIN ac : ac[j].id = id /\ \A i \in 1..(j - 1) : ac[i].id # id}

(* The entities exactly k steps upstream of an id, past those that pass a  *)
(* cluster on; and the channels of the cluster they end in.                *)
Upstream(ac, id) ==
  LET at[k \in 0..Len(ac)] ==
        IF k = 0 THEN Named(ac, id)
        ELSE UNION {Named(ac, ac[a].sources[1]) :
                      a \in {b \in at[k - 1] : ac[b].kind \in PassedOn /\ ac[b].sources # << >>}}
  IN at
ClusterOf(ac, id) ==
  {ac[j].channels : j \in {i \in UNION {Upstream(ac, id)[k] : k \in 0..Len(ac)} : ac[i].kind \in Counted}}

(* Every control of an entity that can be read: <<entity, selector,        *)
(* channel>>.                                                              *)
ReadableOf(ac, e) ==
  LET inputs == Total([k \in DOMAIN e.sources |-> CHOOSE c \in ClusterOf(ac, e.sources[k]) : TRUE])
      nodes  == inputs * e.channels
  IN CASE e.kind \in {"ClockSource", "ClockSelector"} -> {<<e.id, 1, 0>> : x \in {y \in {0} : LowBit(e.controls, y)}}
       [] e.kind = "Feature" ->
            {<<e.id, x[1], x[2]>> : x \in {y \in FeatureControls \X ChannelsOf(e) :
                LowBit(Slice(e.controls, 4 * y[2], 4), y[1] - 1)}}
       [] /\ e.kind = "Mixer" /\ \A k \in DOMAIN e.sources : ClusterOf(ac, e.sources[k]) # {}
          /\ nodes <= 256 /\ Len(e.controls) * 8 \in nodes..(nodes + 7) ->
            {e.id} \X {1} \X (0..(nodes - 1))
       [] OTHER -> {}

Readable(ac) == UNION {ReadableOf(ac, ac[k]) : k \in DOMAIN ac}

(* What a plan reads, and through which interface.                         *)
Triple(address) == <<address.entity, address.selector, address.channel>>
Triples(reads) == {Triple(read.address) : read \in ToSet(reads)}
Through(reads, interface) == \A read \in ToSet(reads) : read.address.interface = interface
=================================================================================

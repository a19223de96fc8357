------------------------------- MODULE Id14ctlInv -------------------------------
(***************************************************************************)
(* The inductive invariant behind the theorems about id14ctl.              *)
(***************************************************************************)
EXTENDS Id14ctl

Bookkeeping ==
  /\ \A f \in {DOMAIN pc, DOMAIN outcome, DOMAIN dev, DOMAIN iface, DOMAIN target, DOMAIN range,
               DOMAIN run, DOMAIN seen, DOMAIN job} : f = Procs
  /\ \A p \in Procs : /\ job[p] \in Jobs
                      /\ DOMAIN run[p] = DOMAIN FreshRun
  /\ plugged \subseteq DOMAIN world
  /\ DOMAIN level = DOMAIN world
  /\ ranges \in [DOMAIN world -> Ranges]

(* From the moment an invocation may claim until it has let go.            *)
Engaged(p) == pc[p] = "claim" \/ InSession(p) \/ pc[p] = "drop"

(* The interface is a function of the device: two invocations that use one *)
(* device meet at the same interface.                                      *)
Found(p) ==
  Engaged(p) =>
    LET control == FindControlInterface(InterfacesOf(dev[p]).list)
    IN control.err = "none" /\ iface[p] = control.number

ControlFound == \A p \in Procs : Found(p)

(* The kernel's claims are those of the invocations in session, each for   *)
(* what it talks to, and no interface is claimed twice.                    *)
ClaimsHeld ==
  /\ \A c \in claims : \E p \in Procs :
       /\ c = <<dev[p], iface[p], p>> /\ dev[p] \in DOMAIN world
       /\ InSession(p) \/ pc[p] = "drop"
  /\ \A p \in Procs : InSession(p) => <<dev[p], iface[p], p>> \in claims
  /\ \A c, e \in claims : c[1] = e[1] /\ c[2] = e[2] => c[3] = e[3]

(* The gates were passed before the descriptors were read.                 *)
Gated(p) ==
  /\ pc[p] = "descriptors" \/ Engaged(p) =>
       (job[p].command = "volume" => job[p].enable_write /\ DbToRaw(job[p].scaled) # NotALevel)
  /\ Engaged(p) => ~job[p].dry_run
  /\ pc[p] \in {"set", "readback"} => job[p].command = "volume"
  /\ pc[p] = "cur" => job[p].command # "volume"

(* A volume command knows its control, asks for at least one entry, and    *)
(* has seen a range that holds the level when it may send it, and none     *)
(* that holds it when the level was refused.                               *)
Ranged(p) ==
  /\ pc[p] = "block" /\ job[p].command = "volume" =>
       run[p].count \in Nat \ {0} /\ RangeLength("Two", run[p].count) # LengthOverflow
  /\ Engaged(p) /\ job[p].command = "volume" =>
       target[p].selector = Volume /\ target[p].channel = job[p].channel
  /\ \/ pc[p] \in {"start", "descriptors", "claim"}
     \/ pc[p] \in {"head", "block"} /\ job[p].command = "volume"
     => seen[p] = << >>
  /\ pc[p] = "set" => Holds(seen[p], job[p].scaled)
  /\ pc[p] \notin {"drop", "done"} => outcome[p] = "none"
  /\ outcome[p] = "OutOfRange" => ~Holds(seen[p], job[p].scaled)

GatesPassed == \A p \in Procs : Gated(p)
RangeSeen == \A p \in Procs : Ranged(p)

IInv == Bookkeeping /\ ControlFound /\ ClaimsHeld /\ GatesPassed /\ RangeSeen /\ SetAuthorised

-----------------------------------------------------------------------------
(* What is planned and what is asked.                                      *)

(* An invocation that looks at a device or talks to it has one, and what   *)
(* it means to do is well formed.                                          *)
Planning(p) ==
  /\ pc[p] \in {"descriptors", "claim"} \/ InSession(p) => dev[p] \in DOMAIN world
  /\ target[p] \in Addresses
  /\ run[p].reads \in Seq(Reads) /\ run[p].failed \in Nat

(* What it asks next goes through the interface it has claimed; only what  *)
(* has a range is asked for one, and entries only as many as fit.          *)
Asking(p) ==
  /\ pc[p] = "claim" \/ InSession(p) =>
       IF job[p].command = "volume" THEN target[p].interface = iface[p]
       ELSE Through(run[p].reads, iface[p])
  /\ InSession(p) /\ job[p].command # "volume" => run[p].reads # << >>
  /\ pc[p] \in {"head", "block"} /\ job[p].command # "volume" => ReadsRange(Head(run[p].reads))
  /\ pc[p] = "block" => /\ run[p].count \in Nat \ {0}
                        /\ RangeLength(CurrentLayout(p), run[p].count) # LengthOverflow

(* As long as no read has failed, what a dump has shown and what it has    *)
(* still to read are together what is readable.                            *)
Shown(p) == {Triple(a) : a \in run[p].printed}
Dumping(p) ==
  job[p].command = "dump" =>
    /\ pc[p] \in {"start", "descriptors"} => run[p].printed = {}
    /\ pc[p] \in {"start", "descriptors", "claim"} => run[p].failed = 0
    /\ pc[p] = "claim" \/ InSession(p) =>
         (run[p].failed = 0 => Shown(p) \cup Triples(run[p].reads) = Readable(Entities(p)))
    /\ outcome[p] = "ok" /\ ~job[p].dry_run => Shown(p) = Readable(Entities(p))

(* The last request, and who made it.                                      *)
WireSent ==
  wire.by \in Procs =>
    LET asked == Asked(wire.bytes)
    IN /\ Address(asked.entity, asked.selector, asked.channel, asked.interface) = wire.meant
       /\ asked.length = wire.room
       /\ InSession(wire.by) \/ pc[wire.by] \in {"drop", "done"}
       /\ InSession(wire.by) => wire.to = dev[wire.by] /\ asked.interface = iface[wire.by]

Rows(p) == Planning(p) /\ Asking(p) /\ Dumping(p)

PlanInv ==
  /\ IInv /\ TypeOK /\ RangeIsOneReply /\ WireSent
  /\ world \in Worlds
  /\ \A p \in Procs : Rows(p)

-----------------------------------------------------------------------------
(* Devices number their entities as the standard demands: no two entities  *)
(* of what they carry have one id.                                         *)
IdsAreUnique ==
  \A w \in Worlds : \A d \in DOMAIN w : DistinctIds(FromInterfaces(Interfaces(w[d]).list).entities)
=============================================================================

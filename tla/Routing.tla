-------------------------------- MODULE Routing --------------------------------
(***************************************************************************)
(* The id14-sr command (linux/id14-sr) by its steps on PipeWire's metadata,*)
(* the managed fragment, the saved state and the filter unit: `on`, `off`, *)
(* `reconcile`, `mix set` and `mix step`, the unit's ExecStartPost, and    *)
(* the USB oneshot's attempts to bring the filter up.                      *)
(*                                                                         *)
(* A process is a label and its local variables.  What a command reads in  *)
(* one go is one step, what it changes is one step each.                   *)
(***************************************************************************)
EXTENDS Integers, Sequences, SequencesExt

CONSTANTS
  Users,      (* Places at which somebody runs commands.                   *)
  Jobs,       (* The commands: [command, mode, value].                     *)
  Overlap,    (* Sets of commands that may run at the same time.           *)
  Ids,        (* Node ids of PipeWire.                                     *)
  Plain,      (* The filter.smart keys in the order they are set.          *)
  Tries,      (* Attempts of the oneshot.                                  *)
  Faults,     (* Of fail, put, delete, claim, look, kill, unplug, stale,   *)
              (* move, restart.                                            *)
  MaxFaults

Post == "post"      (* ExecStartPost of the filter unit.                   *)
Proc == Users \cup {Post}

Commands == {"on", "off", "reconcile", "restore", "set", "step"}

AutoMix == -1          (* The port's value for automatic.                     *)
Mixes == AutoMix .. 200

All == <<"line", "headphones">>
Output == {"line", "headphones"}
Modes == Output \cup {"none", "all"}
OutputsOf(mode) == IF mode = "all" THEN All ELSE IF mode \in Output THEN <<mode>> ELSE << >>

ASSUME RoutingAssumption ==
  /\ 0 \notin Ids
  /\ Post \notin Users /\ "nobody" \notin Users
  /\ \A j \in Jobs : j.command \in Commands
  /\ "owner" \notin ToSet(Plain)

(* The commands that switch the filter on or off take no lock: what is     *)
(* said of the metadata and the mix supposes that they, and a restart of   *)
(* WirePlumber, come one after the other, and no mix command beside them.  *)
SwitchCommands == {"on", "off", "reconcile", "restore"}
MixCommands == {"set", "step"}
OneAfterAnother == \A c, d \in SwitchCommands \cup {"post"} : {c, d} \notin Overlap
SwitchAlone == \A c \in SwitchCommands, m \in MixCommands : {c, m} \notin Overlap

(* Two sinks have two ids; normalize_mode and set_mix admit no other mode  *)
(* and no other mix.                                                       *)
ASSUME InputsTyped ==
  /\ \E i, j \in Ids : i # j
  /\ Jobs \subseteq [command : Commands, mode : Modes, value : Int]
  /\ \A j \in Jobs : j.command = "set" => j.value \in Mixes
  /\ Plain \in Seq(ToSet(Plain))

(* Slip: the owner key is put last.                                        *)
OwnerLastPut == Append(Plain, "owner")

PutOrder == <<"owner">> \o Plain

DeleteOrder == Append(Plain, "owner")
Key == ToSet(Plain) \cup {"owner"}

VARIABLES
  sink,       (* Node id of each physical sink, 0 while it is absent.      *)
  meta,       (* [Ids -> [Key -> "none", "foreign" or the output's name]]  *)
  service, enabled,                     (* The filter unit,                *)
  live,       (* and its nodes: the Mix of each output's, or Gone.         *)
  config,     (* The fragment: [by, mode, mix].                            *)
  saved,      (* Files in STATE_DIR: [mode, id, pending, legacy, mix].     *)
  holder,     (* mix.lock                                                  *)
  pc,
  at,         (* The node id a process works on,                           *)
  todo,       (* its outputs to go,                                        *)
  loc,        (* and its other local variables; the command is its job.    *)
  hit         (* How often each disturbance came.                          *)

pipewire == <<sink, meta>>
unit == <<service, enabled, live>>
local == <<pc, at, todo, loc>>
vars == <<sink, meta, service, enabled, live, config, saved, holder, pc, at, todo, loc, hit>>

Gone == -2
NoConfig == [by |-> "none", mode |-> "none", mix |-> AutoMix]
NoIds == [o \in Output |-> 0]
NothingSaved == [mode |-> "none", id |-> NoIds, pending |-> NoIds, legacy |-> 0, mix |-> AutoMix]
NoJob == [command |-> "none", mode |-> "none", value |-> 0]
Fresh == [job |-> NoJob, why |-> "none", left |-> << >>, sv |-> 0, result |-> "none", bad |-> FALSE,
          mode |-> "none", val |-> AutoMix, old |-> AutoMix, tries |-> 0]
NoKeys == [k \in Key |-> "none"]
KeysOf(who) == [k \in Key |-> IF who = "foreign" /\ k = "owner" THEN "none" ELSE who]

(* Where PipeWire may put the two sinks; Home is where it did.             *)
Places == {h \in [Output -> Ids] : h["line"] # h["headphones"]}
Home == CHOOSE h \in Places : TRUE

(* Off, with nothing, with somebody else's keys or fragment, or with what  *)
(* an earlier release left; or on for both outputs.                        *)
InitOff ==
  /\ \/ meta = [i \in Ids |-> NoKeys] /\ saved = NothingSaved
     \/ \E j \in Ids : meta = [i \in Ids |-> IF i = j THEN KeysOf("foreign") ELSE NoKeys] /\ saved = NothingSaved
     \/ /\ meta = [i \in Ids |-> IF i = Home["line"] THEN KeysOf("line") ELSE NoKeys]
        /\ saved = [NothingSaved EXCEPT !.legacy = Home["line"]]
  /\ config \in {NoConfig, [NoConfig EXCEPT !.by = "foreign"]}
  /\ service = "inactive" /\ enabled = FALSE
  /\ live = [o \in Output |-> Gone]
InitOn ==
  /\ meta = [i \in Ids |-> IF \E o \in Output : Home[o] = i THEN KeysOf(CHOOSE o \in Output : Home[o] = i) ELSE NoKeys]
  /\ config = [by |-> "ours", mode |-> "all", mix |-> AutoMix]
  /\ saved = [NothingSaved EXCEPT !.mode = "all", !.id = Home]
  /\ service = "active" /\ enabled = TRUE
  /\ live = [o \in Output |-> AutoMix]
Init ==
  /\ InitOff \/ InitOn
  /\ sink = Home
  /\ holder = "nobody"
  /\ pc = [p \in Proc |-> "idle"] /\ at = [p \in Proc |-> 0]
  /\ todo = [p \in Proc |-> << >>] /\ loc = [p \in Proc |-> Fresh]
  /\ hit = [f \in Faults |-> 0]

-----------------------------------------------------------------------------
(* What the command looks at.                                              *)

HasKeys(id) == \E k \in Key : meta[id][k] # "none"          (* owned_metadata_present *)
IsOurs(o, id) == meta[id]["owner"] = o                      (* metadata_owner_is_ours *)
Matches(o, id) == \A k \in Key : meta[id][k] = o            (* smart_metadata_matches *)

(* Slip: keys that are there may be replaced, whoever set them.            *)
ClaimableAnyway(o, id) == TRUE

Claimable(o, id) == HasKeys(id) => IsOurs(o, id)

ConfigTargets(mode) ==
  config.by = "ours" /\ ToSet(OutputsOf(mode)) \subseteq ToSet(OutputsOf(config.mode))

ActiveOutputOk(o) == sink[o] # 0 /\ live[o] # Gone /\ Matches(o, sink[o])
AllOk(mode) == \A o \in ToSet(OutputsOf(mode)) : ActiveOutputOk(o)

(* Slip: an id that is only pending is forgotten.                          *)
SavedIdWithoutPending(o) ==
  IF saved.id[o] # 0 THEN saved.id[o] ELSE IF o = "line" THEN saved.legacy ELSE 0

SavedId(o) ==
  IF saved.id[o] # 0 THEN saved.id[o]
  ELSE IF saved.pending[o] # 0 THEN saved.pending[o]
  ELSE IF o = "line" THEN saved.legacy ELSE 0

(* Only the nodes are looked for with pw-dump, whose failure is no node.   *)
PendingPresent == \E o \in Output : saved.pending[o] # 0
EffectFiled ==
  service = "active" \/ saved.mode # "none" \/ config.by = "ours" \/ PendingPresent \/ saved.legacy # 0
EffectPresent == EffectFiled \/ \E o \in Output : live[o] # Gone

-----------------------------------------------------------------------------
Running(p) == pc[p] \notin {"idle", "cleared"}
Command(p) == IF p = Post THEN "post" ELSE loc[p].job.command

Step(p, label) == pc[p] = label
Goto(p, label) == pc' = [pc EXCEPT ![p] = label]
Outputs(p, outputs) == todo' = [todo EXCEPT ![p] = outputs]
Due(p, o) == todo[p] # << >> /\ o = Head(todo[p])
Next1(p) == Outputs(p, Tail(todo[p]))
Well == UNCHANGED hit
Fault(kind) ==
  /\ kind \in Faults /\ FoldFunction(+, 0, hit) < MaxFaults
  /\ hit' = [hit EXCEPT ![kind] = @ + 1]

(* A process ends; with it go its variables and its lock.  Of how it ended *)
(* only this is remembered, that an off or a rollback cleared everything.  *)
End(p, how) ==
  /\ Goto(p, IF how \in {"ok", "failed"} THEN "idle" ELSE how)
  /\ at' = [at EXCEPT ![p] = 0] /\ todo' = [todo EXCEPT ![p] = << >>] /\ loc' = [loc EXCEPT ![p] = Fresh]
  /\ holder' = IF holder = p THEN "nobody" ELSE holder

(* Clean-up starts with the first output.                                  *)
CleanUp(p, why) ==
  /\ Goto(p, "look") /\ Outputs(p, All)
  /\ loc' = [loc EXCEPT ![p].why = why, ![p].bad = FALSE]
  /\ UNCHANGED <<at, holder>>

(* systemd: the unit's nodes come from the fragment it finds, then its     *)
(* ExecStartPost runs; stopping the unit ends both.                        *)
StartUnit ==
  /\ service' = "starting"
  /\ live' = [o \in Output |-> IF config.by = "ours" /\ o \in ToSet(OutputsOf(config.mode)) THEN config.mix ELSE Gone]
StopUnit == service' = "inactive" /\ live' = [o \in Output |-> Gone]

(* p goes on to `label` while systemd starts or ends the ExecStartPost.    *)
MoveWithPost(p, label, postLabel) ==
  /\ pc' = [pc EXCEPT ![p] = label, ![Post] = postLabel]
  /\ at' = [at EXCEPT ![Post] = 0] /\ todo' = [todo EXCEPT ![Post] = << >>] /\ loc' = [loc EXCEPT ![Post] = Fresh]

(* `systemctl enable --now`, which waits for the ExecStartPost.            *)
Launch(p, next) ==
  /\ enabled' = TRUE
  /\ IF service = "inactive"
     THEN StartUnit /\ MoveWithPost(p, next, "r_begin")
     ELSE Goto(p, next) /\ UNCHANGED <<service, live, at, todo, loc>>

(* A command starts beside those it may run with.                          *)
Begin(u) ==
  /\ ~Running(u)
  /\ \E j \in Jobs :
       /\ \A p \in Proc \ {u} : Running(p) => {j.command, Command(p)} \in Overlap
       /\ loc' = [loc EXCEPT ![u].job = j]
       /\ Goto(u, j.command)
  /\ Well /\ UNCHANGED <<pipewire, unit, config, saved, holder, at, todo>>

-----------------------------------------------------------------------------
(* reconcile: of the unit, of a user, of `on` (why = "repair") and of the  *)
(* oneshot (why = "restore").  "remix" is the last part of an `on` that    *)
(* found everything in place: the saved mix only.                          *)

Reconciled(p) ==
  CASE p = Post -> End(p, "idle") /\ service' = "active"
    [] p # Post /\ loc[p].why = "repair" ->
         /\ Goto(p, "r_mix") /\ Outputs(p, OutputsOf(loc[p].job.mode)) /\ loc' = [loc EXCEPT ![p].why = "remix"]
         /\ UNCHANGED <<at, holder, service>>
    [] p # Post /\ loc[p].why = "remix" -> Goto(p, "reenable") /\ UNCHANGED <<at, todo, loc, holder, service>>
    [] OTHER -> End(p, "ok") /\ UNCHANGED service

NotReconciled(p) ==
  CASE p = Post -> End(p, "idle") /\ StopUnit
    [] p # Post /\ loc[p].why = "repair" -> CleanUp(p, "rollback") /\ UNCHANGED <<service, live>>
    [] p # Post /\ loc[p].why = "restore" -> Goto(p, "again") /\ UNCHANGED <<at, todo, loc, holder, service, live>>
    [] OTHER -> End(p, "failed") /\ UNCHANGED <<service, live>>

ReconcileBegin(p) ==
  /\ Step(p, "r_begin") \/ Step(p, "reconcile")
  /\ IF saved.mode # "none" /\ ConfigTargets(saved.mode)
     THEN Goto(p, "r_wait") /\ Outputs(p, OutputsOf(saved.mode)) /\ UNCHANGED <<at, loc, holder, service, live>>
     ELSE NotReconciled(p)
  /\ Well /\ UNCHANGED <<pipewire, enabled, config, saved>>

Claim(p, o) ==
  /\ Goto(p, "r_key") /\ at' = [at EXCEPT ![p] = sink[o]] /\ loc' = [loc EXCEPT ![p].left = PutOrder]
  /\ UNCHANGED <<todo, holder, service, live>>

(* Waits for the sink and the output's nodes, for five seconds each; then  *)
(* reads the sink's id and whether it may be claimed.                      *)
ReconcileWait(p) ==
  /\ Step(p, "r_wait")
  /\ \E o \in Output :
       /\ Due(p, o)
       /\ IF sink[o] # 0 /\ live[o] # Gone /\ Claimable(o, sink[o]) THEN Claim(p, o) ELSE NotReconciled(p)
  /\ Well /\ UNCHANGED <<pipewire, enabled, config, saved>>

(* metadata_for_id takes a listing that failed for an empty one: the node  *)
(* seems to have no keys, or not our owner key (claimable_metadata).       *)
ClaimUnread(p) ==
  /\ Step(p, "r_wait") /\ Fault("claim")
  /\ \E o \in Output : Due(p, o) /\ sink[o] # 0 /\ live[o] # Gone /\ (Claim(p, o) \/ NotReconciled(p))
  /\ UNCHANGED <<pipewire, enabled, config, saved>>

PutKey(p) ==
  /\ Step(p, "r_key")
  /\ \E o \in Output : Due(p, o) /\ meta' = [meta EXCEPT ![at[p]][Head(loc[p].left)] = o]
  /\ loc' = [loc EXCEPT ![p].left = Tail(@)]
  /\ Goto(p, IF Len(loc[p].left) = 1 THEN "r_save" ELSE "r_key")
  /\ Well /\ UNCHANGED <<sink, unit, config, saved, holder, at, todo>>

SaveId(p) ==
  /\ Step(p, "r_save")
  /\ \E o \in Output :
       /\ Due(p, o)
       /\ saved' = [saved EXCEPT !.id[o] = at[p]]
       /\ IF Matches(o, at[p])
          THEN Goto(p, "r_mix") /\ UNCHANGED <<at, todo, loc, holder, service, live>>
          ELSE NotReconciled(p)
  /\ Well /\ UNCHANGED <<pipewire, enabled, config>>

ReadMix(p) ==
  /\ Step(p, "r_mix")
  /\ loc' = [loc EXCEPT ![p].val = saved.mix]
  /\ Goto(p, "r_live")
  /\ Well /\ UNCHANGED <<pipewire, unit, config, saved, holder, at, todo>>

ApplyMix(p) ==
  /\ Step(p, "r_live")
  /\ \E o \in Output :
       /\ Due(p, o)
       /\ \/ live[o] = Gone /\ NotReconciled(p)
          \/ /\ live[o] # Gone
             /\ live' = [live EXCEPT ![o] = loc[p].val]
             /\ IF Len(todo[p]) = 1 THEN Reconciled(p)
                ELSE /\ Goto(p, IF loc[p].why = "remix" THEN "r_mix" ELSE "r_wait") /\ Next1(p)
                     /\ UNCHANGED <<at, loc, holder, service>>
  /\ Well /\ UNCHANGED <<pipewire, enabled, config, saved>>

(* The keys that were put cannot be read back.                             *)
SavedUnread(p) ==
  /\ Step(p, "r_save") /\ Fault("fail")
  /\ \E o \in Output : Due(p, o) /\ saved' = [saved EXCEPT !.id[o] = at[p]]
  /\ NotReconciled(p)
  /\ UNCHANGED <<pipewire, enabled, config>>

(* A node is not found, a key is not set, an id is not written, a node     *)
(* takes no parameter.                                                     *)
ReconcileFails(p) ==
  /\ \/ Step(p, "r_key") /\ Fault("put")
     \/ pc[p] \in {"r_wait", "r_save", "r_live"} /\ Fault("fail")
  /\ NotReconciled(p)
  /\ UNCHANGED <<pipewire, enabled, config, saved>>

-----------------------------------------------------------------------------
(* Clean-up: of `off`, of an `on` that first turns off what is there       *)
(* (why = "clean"), and of a failed `on` (why = "rollback").               *)

(* Slip: what is at the saved id, or else at the sink's, is deleted without *)
(* asking whose it is.                                                     *)
LookAtSaved(u) ==
  /\ Step(u, "look")
  /\ \E o \in Output :
       /\ Due(u, o)
       /\ LET sv == SavedId(o)
              id == IF sv # 0 THEN sv ELSE sink[o] IN
          IF id # 0
          THEN /\ Goto(u, "delete") /\ at' = [at EXCEPT ![u] = id]
               /\ loc' = [loc EXCEPT ![u].sv = sv, ![u].left = DeleteOrder]
          ELSE /\ Goto(u, "record") /\ UNCHANGED at
               /\ loc' = [loc EXCEPT ![u].sv = sv, ![u].result = "done"]
  /\ Well /\ UNCHANGED <<pipewire, unit, config, saved, holder, todo>>

Look(u) ==
  /\ Step(u, "look")
  /\ \E o \in Output :
       /\ Due(u, o)
       /\ LET sv == SavedId(o) IN
          IF sink[o] # 0 /\ IsOurs(o, sink[o])
          THEN /\ Goto(u, "delete") /\ at' = [at EXCEPT ![u] = sink[o]]
               /\ loc' = [loc EXCEPT ![u].sv = sv, ![u].left = DeleteOrder]
          ELSE /\ Goto(u, "record") /\ UNCHANGED at
               /\ loc' = [loc EXCEPT ![u].sv = sv, ![u].result =
                            IF sv # 0 /\ sv # sink[o] /\ IsOurs(o, sv) THEN "pending" ELSE "done"]
  /\ Well /\ UNCHANGED <<pipewire, unit, config, saved, holder, todo>>

(* The sink is not found, or a listing fails: no keys, or not our owner    *)
(* key.  Those of the saved id are still noted, if they are seen.          *)
LookUnread(u) ==
  /\ Step(u, "look") /\ Fault("look")
  /\ \E o \in Output, result \in {"done", "pending"} :
       /\ Due(u, o)
       /\ result = "pending" => SavedId(o) # 0 /\ IsOurs(o, SavedId(o))
       /\ loc' = [loc EXCEPT ![u].sv = SavedId(o), ![u].result = result]
  /\ Goto(u, "record")
  /\ UNCHANGED <<pipewire, unit, config, saved, holder, at, todo>>

DeleteKey(u) ==
  /\ Step(u, "delete")
  /\ meta' = [meta EXCEPT ![at[u]][Head(loc[u].left)] = "none"]
  /\ loc' = [loc EXCEPT ![u].left = Tail(@),
                        ![u].result = IF \E k \in Key : meta'[at[u]][k] # "none" THEN "error" ELSE "done"]
  /\ Goto(u, IF Len(loc[u].left) = 1 THEN "record" ELSE "delete")
  /\ Well /\ UNCHANGED <<sink, unit, config, saved, holder, at, todo>>

(* After the last one, nothing is seen to be left.                         *)
DeleteUnread(u) ==
  /\ Step(u, "delete") /\ Len(loc[u].left) = 1 /\ Fault("look")
  /\ meta' = [meta EXCEPT ![at[u]][Head(loc[u].left)] = "none"]
  /\ loc' = [loc EXCEPT ![u].left = Tail(@), ![u].result = "done"]
  /\ Goto(u, "record")
  /\ UNCHANGED <<sink, unit, config, saved, holder, at, todo>>

DeleteFails(u) ==
  /\ Step(u, "delete") /\ Fault("delete")
  /\ loc' = [loc EXCEPT ![u].result = "error"]
  /\ Goto(u, "record")
  /\ UNCHANGED <<pipewire, unit, config, saved, holder, at, todo>>

(* record_cleanup_result; a rollback passes an error by.                   *)
Record(u) ==
  /\ Step(u, "record")
  /\ \E o \in Output :
       /\ Due(u, o)
       /\ saved' = IF loc[u].result = "error" /\ loc[u].why = "rollback" THEN saved
                   ELSE [saved EXCEPT !.pending[o] = IF loc[u].result = "pending" THEN loc[u].sv ELSE 0]
  /\ loc' = [loc EXCEPT ![u].bad = @ \/ loc[u].result = "error", ![u].sv = 0, ![u].result = "none"]
  /\ at' = [at EXCEPT ![u] = 0]
  /\ Goto(u, IF Len(todo[u]) = 1 THEN "stop" ELSE "look") /\ Next1(u)
  /\ Well /\ UNCHANGED <<pipewire, unit, config, holder>>

(* `systemctl disable --now`                                               *)
StopFilter(u) ==
  /\ Step(u, "stop")
  /\ enabled' = FALSE /\ StopUnit /\ MoveWithPost(u, "unconfig", "idle")
  /\ Well /\ UNCHANGED <<pipewire, config, saved, holder>>

StopFails(u) ==
  /\ Step(u, "stop") /\ Fault("fail")
  /\ loc' = [loc EXCEPT ![u].bad = TRUE] /\ Goto(u, "unconfig")
  /\ UNCHANGED <<pipewire, unit, config, saved, holder, at, todo>>

RemoveConfig(u) ==
  /\ Step(u, "unconfig")
  /\ config' = IF config.by = "ours" THEN NoConfig ELSE config
  /\ loc' = [loc EXCEPT ![u].bad = @ \/ config.by = "foreign"]
  /\ Goto(u, "forget")
  /\ Well /\ UNCHANGED <<pipewire, unit, saved, holder, at, todo>>

Forget(u) ==
  /\ Step(u, "forget")
  /\ saved' = [saved EXCEPT !.mode = "none", !.id = NoIds, !.legacy = 0]
  /\ Goto(u, "gone")
  /\ Well /\ UNCHANGED <<pipewire, unit, config, holder, at, todo, loc>>

(* Slip: what went wrong on the way is not passed on.                      *)
CleanedCarelessly(u) ==
  /\ Step(u, "gone")
  /\ LET bad == service = "active" IN
     CASE loc[u].why = "off" -> End(u, IF bad THEN "failed" ELSE "cleared")
       [] loc[u].why = "rollback" -> End(u, IF bad THEN "failed" ELSE "cleared")
       [] loc[u].why = "clean" /\ (bad \/ PendingPresent) -> End(u, "failed")
       [] OTHER -> Goto(u, "config") /\ UNCHANGED <<at, todo, loc, holder>>
  /\ Well /\ UNCHANGED <<pipewire, unit, config, saved>>

(* Back to who asked.                                                      *)
BackFromCleanUp(u, bad) ==
  CASE loc[u].why = "off" -> End(u, IF bad THEN "failed" ELSE "cleared")
    [] loc[u].why = "rollback" -> End(u, IF bad THEN "failed" ELSE "cleared")
    [] loc[u].why = "clean" /\ (bad \/ PendingPresent) -> End(u, "failed")
    [] OTHER -> Goto(u, "config") /\ UNCHANGED <<at, todo, loc, holder>>

(* The nodes and the unit have to be gone; a node that cannot be looked    *)
(* for is gone.                                                            *)
Cleaned(u) ==
  /\ Step(u, "gone")
  /\ \/ Well /\ BackFromCleanUp(u, loc[u].bad \/ service = "active" \/ \E o \in Output : live[o] # Gone)
     \/ Fault("fail") /\ BackFromCleanUp(u, loc[u].bad \/ service = "active")
  /\ UNCHANGED <<pipewire, unit, config, saved>>

TurnOff(u) ==
  /\ Step(u, "off")
  /\ \/ Well /\ IF EffectPresent THEN CleanUp(u, "off") ELSE End(u, "cleared")
     \/ Fault("fail") /\ ~EffectFiled /\ End(u, "cleared")
  /\ UNCHANGED <<pipewire, unit, config, saved>>

-----------------------------------------------------------------------------
(* on                                                                      *)

Plugged(mode) == \A o \in ToSet(OutputsOf(mode)) : sink[o] # 0
AllClaimable(mode) == \A o \in ToSet(OutputsOf(mode)) : Claimable(o, sink[o])

(* What is left to do if the outputs are `ok` and an `effect` is there.    *)
SwitchOn(u, ok, effect) ==
  LET mode == loc[u].job.mode IN
  IF service = "active" /\ saved.mode = mode /\ ConfigTargets(mode)
  THEN IF ok
       THEN /\ Goto(u, "r_mix") /\ Outputs(u, OutputsOf(mode)) /\ loc' = [loc EXCEPT ![u].why = "remix"]
            /\ UNCHANGED <<at, holder>>
       ELSE Goto(u, "r_begin") /\ loc' = [loc EXCEPT ![u].why = "repair"] /\ UNCHANGED <<at, todo, holder>>
  ELSE IF effect THEN CleanUp(u, "clean")
  ELSE Goto(u, "config") /\ UNCHANGED <<at, todo, loc, holder>>

TurnOn(u) ==
  /\ Step(u, "on")
  /\ LET mode == loc[u].job.mode IN
     IF Plugged(mode) /\ AllClaimable(mode) THEN SwitchOn(u, AllOk(mode), EffectPresent) ELSE End(u, "failed")
  /\ Well /\ UNCHANGED <<pipewire, unit, config, saved>>

(* A listing fails in claimable_metadata, or a lookup after it.            *)
OnUnread(u) ==
  /\ Step(u, "on") /\ Plugged(loc[u].job.mode)
  /\ LET mode == loc[u].job.mode IN
     \/ Fault("claim") /\ (SwitchOn(u, AllOk(mode), EffectPresent) \/ End(u, "failed"))
     \/ Fault("fail") /\ AllClaimable(mode) /\ SwitchOn(u, FALSE, EffectFiled)
  /\ UNCHANGED <<pipewire, unit, config, saved>>

Reenable(u) ==
  /\ Step(u, "reenable")
  /\ enabled' = TRUE /\ End(u, "ok")
  /\ Well /\ UNCHANGED <<pipewire, service, live, config, saved>>

(* write_config leaves somebody else's fragment alone.                     *)
WriteConfig(u) ==
  /\ Step(u, "config")
  /\ IF config.by = "foreign" THEN CleanUp(u, "rollback") /\ UNCHANGED config
     ELSE /\ config' = [by |-> "ours", mode |-> loc[u].job.mode, mix |-> saved.mix]
          /\ Goto(u, "mode") /\ UNCHANGED <<at, todo, loc, holder>>
  /\ Well /\ UNCHANGED <<pipewire, unit, saved>>

SaveMode(u) ==
  /\ Step(u, "mode")
  /\ saved' = [saved EXCEPT !.mode = loc[u].job.mode]
  /\ Goto(u, "enable")
  /\ Well /\ UNCHANGED <<pipewire, unit, config, holder, at, todo, loc>>

EnableFilter(u) ==
  /\ Step(u, "enable")
  /\ Launch(u, "starting")
  /\ Well /\ UNCHANGED <<pipewire, config, saved, holder>>

Started(u) ==
  /\ Step(u, "starting") /\ service # "starting"
  /\ IF service = "active" THEN Goto(u, "verify") /\ UNCHANGED <<at, todo, loc, holder>>
     ELSE CleanUp(u, "rollback")
  /\ Well /\ UNCHANGED <<pipewire, unit, config, saved>>

Verify(u) ==
  /\ Step(u, "verify")
  /\ IF AllOk(loc[u].job.mode) THEN End(u, "ok") ELSE CleanUp(u, "rollback")
  /\ Well /\ UNCHANGED <<pipewire, unit, config, saved>>

(* A command, a lookup or a write of `on` fails; before the first write,   *)
(* and in `enable` alone, that is no reason to turn off.                   *)
OnFails(u) ==
  /\ Fault("fail")
  /\ \/ pc[u] \in {"config", "mode", "enable", "verify"} /\ CleanUp(u, "rollback")
     \/ pc[u] \in {"on", "reenable"} /\ End(u, "failed")
  /\ UNCHANGED <<pipewire, unit, config, saved>>

-----------------------------------------------------------------------------
(* mix set, mix step                                                       *)

(* Slip: a step adds to what it finds, however far that goes.              *)
Unclamped(mix, by) == (IF mix = AutoMix THEN 0 ELSE mix) + by

Stepped(mix, by) ==
  LET value == (IF mix = AutoMix THEN 0 ELSE mix) + by IN
  IF value < 0 THEN 0 ELSE IF value > 200 THEN 200 ELSE value

(* What a mix command makes of the mix it finds.                           *)
Outcome(j, mix) == IF j.command = "set" THEN j.value ELSE Stepped(mix, j.value)

(* Slip: without the lock.                                                 *)
NoLock(u) ==
  /\ pc[u] \in {"set", "step"}
  /\ Goto(u, "m_read") /\ UNCHANGED holder
  /\ Well /\ UNCHANGED <<pipewire, unit, config, saved, at, todo, loc>>

Lock(u) ==
  /\ pc[u] \in {"set", "step"} /\ holder = "nobody"
  /\ Goto(u, "m_read") /\ holder' = u
  /\ Well /\ UNCHANGED <<pipewire, unit, config, saved, at, todo, loc>>

(* The old mix, the mode, and whether the unit and its nodes are there.    *)
MixRead(u) ==
  /\ Step(u, "m_read")
  /\ IF saved.mode # "none" /\ (service # "active" \/ \E o \in ToSet(OutputsOf(saved.mode)) : live[o] = Gone)
     THEN End(u, "failed")
     ELSE /\ Goto(u, IF saved.mode = "none" THEN "m_save" ELSE "m_config")
          /\ loc' = [loc EXCEPT ![u].old = saved.mix, ![u].mode = saved.mode,
                               ![u].val = Outcome(loc[u].job, saved.mix)]
          /\ UNCHANGED <<at, todo, holder>>
  /\ Well /\ UNCHANGED <<pipewire, unit, config, saved>>

MixConfig(u) ==
  /\ Step(u, "m_config")
  /\ IF config.by = "foreign" THEN End(u, "failed") /\ UNCHANGED config
     ELSE /\ config' = [by |-> "ours", mode |-> loc[u].mode, mix |-> loc[u].val]
          /\ Goto(u, "m_live") /\ Outputs(u, OutputsOf(loc[u].mode)) /\ UNCHANGED <<at, loc, holder>>
  /\ Well /\ UNCHANGED <<pipewire, unit, saved>>

(* Slip: a failed update is not taken back.                                *)
NotPutBack(u) == End(u, "failed")

(* restore_mix                                                             *)
PutBack(u) == Goto(u, "m_undo") /\ UNCHANGED <<at, todo, loc, holder>>

MixLive(u) ==
  /\ Step(u, "m_live")
  /\ \E o \in Output :
       /\ Due(u, o)
       /\ \/ live[o] = Gone /\ PutBack(u) /\ UNCHANGED live
          \/ /\ live[o] # Gone
             /\ live' = [live EXCEPT ![o] = loc[u].val]
             /\ Goto(u, IF Len(todo[u]) = 1 THEN "m_save" ELSE "m_live") /\ Next1(u)
             /\ UNCHANGED <<at, loc, holder>>
  /\ Well /\ UNCHANGED <<pipewire, service, enabled, config, saved>>

MixUndo(u) ==
  /\ Step(u, "m_undo")
  /\ config' = IF config.by = "foreign" THEN config
               ELSE [by |-> "ours", mode |-> loc[u].mode, mix |-> loc[u].old]
  /\ Goto(u, "m_relive") /\ Outputs(u, OutputsOf(loc[u].mode))
  /\ Well /\ UNCHANGED <<pipewire, unit, saved, holder, at, loc>>

MixRelive(u) ==
  /\ Step(u, "m_relive")
  /\ \E o \in Output :
       /\ Due(u, o)
       /\ live' = [live EXCEPT ![o] = IF @ = Gone THEN Gone ELSE loc[u].old]
  /\ IF Len(todo[u]) = 1 THEN End(u, "failed")
     ELSE Goto(u, "m_relive") /\ Next1(u) /\ UNCHANGED <<at, loc, holder>>
  /\ Well /\ UNCHANGED <<pipewire, service, enabled, config, saved>>

MixSave(u) ==
  /\ Step(u, "m_save")
  /\ saved' = [saved EXCEPT !.mix = loc[u].val]
  /\ End(u, "ok")
  /\ Well /\ UNCHANGED <<pipewire, unit, config>>

(* A node is not found; a fragment, a node's parameter or the mix file     *)
(* cannot be written.  In the repair that follows the rest is still done.  *)
MixFails(u) ==
  /\ Fault("fail")
  /\ \/ Step(u, "m_read") /\ saved.mode # "none" /\ End(u, "failed")
     \/ Step(u, "m_config") /\ End(u, "failed")
     \/ Step(u, "m_live") /\ PutBack(u)
     \/ /\ Step(u, "m_save")
        /\ IF loc[u].mode # "none" /\ saved.mode # "none" THEN PutBack(u) ELSE End(u, "failed")
     \/ Step(u, "m_undo") /\ Goto(u, "m_relive") /\ Outputs(u, OutputsOf(loc[u].mode)) /\ UNCHANGED <<at, loc, holder>>
     \/ /\ Step(u, "m_relive") /\ \E o \in Output : Due(u, o)
        /\ IF Len(todo[u]) = 1 THEN End(u, "failed")
           ELSE Goto(u, "m_relive") /\ Next1(u) /\ UNCHANGED <<at, loc, holder>>
  /\ UNCHANGED <<pipewire, unit, config, saved>>

-----------------------------------------------------------------------------
(* The USB oneshot (restore).                                              *)

Restore(u) ==
  /\ Step(u, "restore")
  /\ IF saved.mode = "none" THEN End(u, "ok")
     ELSE /\ Goto(u, "try") /\ loc' = [loc EXCEPT ![u].mode = saved.mode, ![u].why = "restore"]
          /\ UNCHANGED <<at, todo, holder>>
  /\ Well /\ UNCHANGED <<pipewire, unit, config, saved>>

(* Another selection or no device: nothing to do.  Without its sinks the   *)
(* device may be there or not; with them it is.                            *)
Try(u) ==
  /\ Step(u, "try")
  /\ LET absent == \A o \in Output : sink[o] = 0 IN
     \/ (absent \/ saved.mode # loc[u].mode) /\ End(u, "ok")
     \/ /\ saved.mode = loc[u].mode
        /\ Goto(u, IF absent THEN "again" ELSE "revive") /\ UNCHANGED <<at, todo, loc, holder>>
  /\ Well /\ UNCHANGED <<pipewire, unit, config, saved>>

Revive(u) ==
  /\ Step(u, "revive")
  /\ IF service = "active" THEN StartUnit /\ MoveWithPost(u, "revived", "r_begin") /\ UNCHANGED enabled
     ELSE Launch(u, "revived")
  /\ Well /\ UNCHANGED <<pipewire, config, saved, holder>>

Revived(u) ==
  /\ Step(u, "revived") /\ service # "starting"
  /\ Goto(u, IF service = "active" THEN "r_begin" ELSE "again")
  /\ Well /\ UNCHANGED <<pipewire, unit, config, saved, holder, at, todo, loc>>

(* systemctl fails, or pw-dump, which ends the oneshot.                    *)
ReviveFails(u) ==
  /\ Fault("fail")
  /\ \/ Step(u, "revive") /\ Goto(u, "again") /\ UNCHANGED <<at, todo, loc, holder>>
     \/ Step(u, "try") /\ saved.mode = loc[u].mode /\ End(u, "failed")
  /\ UNCHANGED <<pipewire, unit, config, saved>>

Again(u) ==
  /\ Step(u, "again")
  /\ IF loc[u].tries + 1 = Tries THEN End(u, "failed")
     ELSE /\ Goto(u, "try") /\ Outputs(u, << >>)
          /\ loc' = [loc EXCEPT ![u].tries = @ + 1] /\ UNCHANGED <<at, holder>>
  /\ Well /\ UNCHANGED <<pipewire, unit, config, saved>>

-----------------------------------------------------------------------------
(* The device, WirePlumber, and the death of a command.                    *)

Kill(u) ==
  /\ Running(u) /\ Fault("kill")
  /\ End(u, "failed")
  /\ UNCHANGED <<pipewire, unit, config, saved>>

(* Metadata of a node goes with it, or stays on its number.                *)
Unplug ==
  /\ \A o \in Output : sink[o] # 0
  /\ sink' = [o \in Output |-> 0]
  /\ \/ Fault("unplug") /\ meta' = [i \in Ids |-> IF \E o \in Output : sink[o] = i THEN NoKeys ELSE meta[i]]
     \/ Fault("stale") /\ meta' = meta
  /\ UNCHANGED <<unit, config, saved, holder, local>>

Plug ==
  /\ \A o \in Output : sink[o] = 0
  /\ \/ Well /\ sink' = Home
     \/ Fault("move") /\ sink' \in Places \ {Home}
  /\ UNCHANGED <<meta, unit, config, saved, holder, local>>

(* WirePlumber owns the metadata, and the unit is part of it.              *)
RestartWirePlumber ==
  /\ Fault("restart")
  /\ \A u \in Users : Running(u) => {loc[u].job.command, "post"} \in Overlap
  /\ meta' = [i \in Ids |-> NoKeys]
  /\ IF service = "inactive" THEN UNCHANGED <<service, live, local>>
     ELSE /\ StartUnit
          /\ pc' = [pc EXCEPT ![Post] = "r_begin"]
          /\ at' = [at EXCEPT ![Post] = 0] /\ todo' = [todo EXCEPT ![Post] = << >>] /\ loc' = [loc EXCEPT ![Post] = Fresh]
  /\ UNCHANGED <<sink, enabled, config, saved, holder>>

Environment == Unplug \/ Plug \/ RestartWirePlumber

-----------------------------------------------------------------------------
Reconcile(p) ==
  \/ ReconcileBegin(p) \/ ReconcileWait(p) \/ PutKey(p) \/ SaveId(p) \/ ReadMix(p) \/ ApplyMix(p)
  \/ ClaimUnread(p) \/ SavedUnread(p) \/ ReconcileFails(p)
Clean(u) ==
  \/ Look(u) \/ LookUnread(u) \/ DeleteKey(u) \/ DeleteUnread(u) \/ DeleteFails(u) \/ Record(u) \/ StopFilter(u) \/ StopFails(u)
  \/ RemoveConfig(u) \/ Forget(u) \/ Cleaned(u)
On(u) ==
  \/ TurnOn(u) \/ OnUnread(u) \/ Reenable(u) \/ WriteConfig(u) \/ SaveMode(u) \/ EnableFilter(u) \/ Started(u) \/ Verify(u)
  \/ OnFails(u)
Mix(u) ==
  Lock(u) \/ MixRead(u) \/ MixConfig(u) \/ MixLive(u) \/ MixUndo(u) \/ MixRelive(u) \/ MixSave(u) \/ MixFails(u)
Oneshot(u) == Restore(u) \/ Try(u) \/ Revive(u) \/ Revived(u) \/ ReviveFails(u) \/ Again(u)

Next ==
  \/ \E p \in Proc : Reconcile(p)
  \/ \E u \in Users : Begin(u) \/ TurnOff(u) \/ Clean(u) \/ On(u) \/ Mix(u) \/ Oneshot(u) \/ Kill(u)
  \/ Environment

Spec == Init /\ [][Next]_vars

-----------------------------------------------------------------------------
(* Ids, mixes and local variables of their kind: a mix stays on the scale  *)
(* of the port, an id is a node's or 0.                                    *)
Id0 == Ids \cup {0}
Fragment == [by : {"none", "ours", "foreign"}, mode : Modes, mix : Mixes]
Files == [mode : Modes, id : [Output -> Id0], pending : [Output -> Id0], legacy : Id0, mix : Mixes]
HostOK ==
  /\ sink \in [Output -> Id0]
  /\ meta \in [Ids -> [Key -> Output \cup {"none", "foreign"}]]
  /\ service \in {"inactive", "starting", "active"} /\ enabled \in BOOLEAN
  /\ live \in [Output -> {Gone} \cup Mixes]
  /\ config \in Fragment /\ saved \in Files
  /\ holder \in Users \cup {"nobody"}
LocalOK(p) ==
  /\ at[p] \in Id0 /\ todo[p] \in Seq(Output)
  /\ DOMAIN loc[p] = DOMAIN Fresh
  /\ loc[p].job \in Jobs \cup {NoJob} /\ loc[p].mode \in Modes /\ loc[p].sv \in Id0
  /\ {loc[p].val, loc[p].old} \subseteq Mixes
TypeOK ==
  /\ HostOK
  /\ {DOMAIN pc, DOMAIN at, DOMAIN todo, DOMAIN loc} = {Proc}
  /\ \A p \in Proc : LocalOK(p)
  /\ hit \in [Faults -> Nat]

AtRest == \A p \in Proc : ~Running(p)

PluggedThroughout == hit["unplug"] = 0 /\ hit["stale"] = 0
NothingFailed == \A kind \in {"fail", "put", "delete", "kill"} : hit[kind] = 0

(* When what is on the nodes can be followed: either the device stays, or  *)
(* nothing fails and it comes back with the ids it had.  One id is saved   *)
(* for an output, so that keys which stayed on an earlier one are lost.    *)
Followed == PluggedThroughout \/ (NothingFailed /\ hit["move"] = 0)

(* Metadata of ours always carries the owner key, so that whoever cleans   *)
(* up can tell it from others': keys are put owner first and deleted owner *)
(* last (apply_smart_metadata, remove_smart_metadata), whatever fails,     *)
(* unless the node lost its metadata between two keys.                     *)
OwnerMarks ==
  hit["unplug"] = 0 /\ hit["claim"] = 0 =>
    \A i \in Ids, k \in Key, o \in Output : meta[i][k] = o => meta[i]["owner"] = o

(* When no command runs and the next `off` would say "already inactive",   *)
(* no present sink carries keys of ours: what a command could not remove   *)
(* is still known to be there (effect_present), unless deleting failed.    *)
Traceable ==
  AtRest /\ ~EffectPresent /\ hit["delete"] = 0 /\ hit["look"] = 0 /\ Followed =>
    \A o \in Output : sink[o] # 0 => ~IsOurs(o, sink[o])

(* With the filter active, its nodes, the fragment and the mix file have   *)
(* one mix, unless a mix command was killed or failed twice (set_mix,      *)
(* restore_mix, reconcile).                                                *)
MixAgrees ==
  AtRest /\ service = "active" /\ saved.mode # "none"
    /\ hit["kill"] = 0 /\ hit["fail"] < 2 /\ hit["restart"] = 0 =>
    \A o \in ToSet(OutputsOf(saved.mode)) : live[o] = saved.mix /\ config.mix = saved.mix

(* An `off` or a rollback that says it succeeded has left nothing: no unit,*)
(* no node, no fragment, no selection, and keys only where they are noted  *)
(* as pending (disable, rollback_activation, record_cleanup_result).       *)
SuccessIsTrue ==
  [][\A u \in Users :
       Step(u, "gone") /\ pc'[u] = "cleared" =>
         /\ service = "inactive" /\ ~enabled /\ \A o \in Output : live[o] = Gone
         /\ config.by # "ours" /\ saved.mode = "none"
         /\ hit["look"] = 0 /\ Followed =>
              \A o \in Output : sink[o] # 0 /\ IsOurs(o, sink[o]) => saved.pending[o] # 0]_vars

(* A mix command saves what its argument makes of the mix saved at that    *)
(* moment: no step is lost or counted twice (set_mix under mix.lock).      *)
StepsCount ==
  [][saved'.mix # saved.mix =>
       \E u \in Users :
         /\ Step(u, "m_save")
         /\ saved'.mix = Outcome(loc[u].job, saved.mix)]_vars

(* No command takes keys of somebody else away or replaces them, unless    *)
(* claimable_metadata once saw none because its listing failed.            *)
NoCommandTakesForeign ==
  [][\A i \in Ids, k \in Key :
       meta[i][k] = "foreign" /\ ~Environment /\ hit["claim"] = 0 => meta'[i][k] = "foreign"]_vars

=============================================================================

----------------------------- MODULE RoutingProofs -----------------------------
(***************************************************************************)
(* For every set of users, commands, disturbances and overlaps: no command *)
(* touches somebody else's metadata as long as claimable_metadata sees it, *)
(* no step of the mix is lost, and the mix stays on the scale of the port. *)
(***************************************************************************)
EXTENDS Routing, SequenceTheorems, TLAPS

(* The labels at which a mix command has the lock.                         *)
MixLabel == {"m_read", "m_config", "m_live", "m_undo", "m_relive", "m_save"}
(* Those at which a process is about to change a node's metadata.          *)
KeyLabel == {"r_key", "delete"}

(* What the variables are functions of.                                    *)
Shape ==
  /\ DOMAIN pc = Proc /\ DOMAIN at = Proc /\ DOMAIN loc = Proc
  /\ \A p \in Proc : {"job", "val"} \subseteq DOMAIN loc[p]
  /\ "mix" \in DOMAIN saved
  /\ DOMAIN meta = Ids /\ \A i \in Ids : DOMAIN meta[i] = Key

(* Who is past the lock has it.                                            *)
Locked == \A u \in Users : pc[u] \in MixLabel => holder = u

(* What will be saved is still what the argument makes of what is saved.   *)
Counted ==
  \A u \in Users : pc[u] \in {"m_config", "m_live", "m_save"} => loc[u].val = Outcome(loc[u].job, saved.mix)

(* A node with somebody else's keys has no owner key.                      *)
ForeignAlone == \A i \in Ids, k \in Key : meta[i][k] = "foreign" => meta[i]["owner"] = "none"

(* The node that a process is about to change has no key of somebody else. *)
WorksOnOurs ==
  \A p \in Proc : pc[p] \in KeyLabel /\ at[p] \in Ids => \A k \in Key : meta[at[p]][k] # "foreign"

(* No listing has failed in claimable_metadata.                            *)
Checked == "claim" \in Faults => hit["claim"] = 0
Counts == hit \in [Faults -> Nat]

IInv == Shape /\ Counts /\ Locked /\ Counted /\ (Checked => ForeignAlone /\ WorksOnOurs)

(* What every step does to the counts of disturbances.                     *)
Grows == Counts' /\ (Checked' => Checked)

-----------------------------------------------------------------------------
(* Every step is counted as a disturbance or is none.                      *)
LEMMA WellOrFault == Next => Well \/ \E kind : Fault(kind)
  <1> SUFFICES ASSUME Next PROVE Well \/ \E kind : Fault(kind)
    OBVIOUS
  <1>1. ASSUME NEW p, Reconcile(p) PROVE Well \/ \E kind : Fault(kind)
    BY <1>1 DEF Reconcile, ReconcileBegin, ReconcileWait, PutKey, SaveId, ReadMix, ApplyMix,
       ClaimUnread, SavedUnread, ReconcileFails
  <1>2. ASSUME NEW u, Begin(u) \/ TurnOff(u) \/ Clean(u) \/ Kill(u) PROVE Well \/ \E kind : Fault(kind)
    BY <1>2 DEF Begin, TurnOff, Kill, Clean, Look, LookUnread, DeleteKey, DeleteUnread, DeleteFails,
        Record, StopFilter, StopFails, RemoveConfig, Forget, Cleaned
  <1>3. ASSUME NEW u, On(u) PROVE Well \/ \E kind : Fault(kind)
    BY <1>3 DEF On, TurnOn, OnUnread, Reenable, WriteConfig, SaveMode, EnableFilter, Started, Verify, OnFails
  <1>4. ASSUME NEW u, Mix(u) PROVE Well \/ \E kind : Fault(kind)
    BY <1>4 DEF Mix, Lock, MixRead, MixConfig, MixLive, MixUndo, MixRelive, MixSave, MixFails
  <1>5. ASSUME NEW u, Oneshot(u) PROVE Well \/ \E kind : Fault(kind)
    BY <1>5 DEF Oneshot, Restore, Try, Revive, Revived, ReviveFails, Again
  <1>6. Environment => Well \/ \E kind : Fault(kind)
    BY DEF Environment, Unplug, Plug, RestartWirePlumber
  <1>7. QED BY <1>1, <1>2, <1>3, <1>4, <1>5, <1>6, Zenon DEF Next

(* A disturbance that came stays counted.                                  *)
LEMMA CountsGrow == IInv /\ [Next]_vars => Grows
  <1> SUFFICES ASSUME IInv, [Next]_vars PROVE Grows
    OBVIOUS
  <1>1. Well \/ \E kind : Fault(kind)
    BY WellOrFault DEF vars, Well
  <1>2. CASE Well
    BY <1>2 DEF Well, Grows, IInv, Counts, Checked
  <1>3. CASE \E kind : Fault(kind)
    <2>1. PICK kind : kind \in Faults /\ hit' = [hit EXCEPT ![kind] = @ + 1]
      BY <1>3 DEF Fault
    <2>2. QED BY <2>1 DEF Grows, IInv, Counts, Checked
  <1>4. QED BY <1>1, <1>2, <1>3

-----------------------------------------------------------------------------
(* A step of p that is neither about the metadata nor at a mix command's   *)
(* labels; it may start or end the ExecStartPost.                          *)
Quiet(p) ==
  /\ Shape'
  /\ meta' = meta /\ saved'.mix = saved.mix
  /\ holder' = holder \/ holder = p
  /\ pc'[p] \notin MixLabel \cup KeyLabel
  /\ \A q \in Proc \ {p} :
       \/ pc'[q] = pc[q] /\ at'[q] = at[q] /\ loc'[q] = loc[q]
       \/ q = Post /\ pc'[q] \in {"idle", "r_begin"}

(* A step that leaves the metadata and the saved mix alone keeps the       *)
(* invariant.                                                              *)
LEMMA QuietKeeps ==
  ASSUME IInv, Grows, NEW p \in Proc, Quiet(p) PROVE IInv'
  <1> USE RoutingAssumption DEF IInv, Grows, Quiet, Proc, MixLabel, KeyLabel
  <1>1. Locked' BY DEF Locked
  <1>2. Counted' BY DEF Counted
  <1>3. ForeignAlone => ForeignAlone' BY DEF ForeignAlone
  <1>4. WorksOnOurs => WorksOnOurs' BY DEF WorksOnOurs
  <1> QED BY <1>1, <1>2, <1>3, <1>4

(* Nothing is running at the start.                                        *)
LEMMA InitHolds == Init => IInv
  <1> SUFFICES ASSUME Init PROVE IInv OBVIOUS
  <1> USE RoutingAssumption
  <1>1. /\ pc = [p \in Proc |-> "idle"] /\ at = [p \in Proc |-> 0] /\ loc = [p \in Proc |-> Fresh]
        /\ "mix" \in DOMAIN saved /\ Counts
    BY DEF Counts, Init, InitOff, InitOn, NothingSaved
  <1>2. ASSUME NEW o \in {"none", "foreign", "line", "headphones"}, NEW k \in Key
        PROVE  DOMAIN KeysOf(o) = Key /\ KeysOf(o)["owner"] # "foreign" /\ (KeysOf(o)[k] = "foreign" => o = "foreign" /\ k # "owner")
    BY DEF KeysOf, Key
  <1>3. ASSUME NEW i \in Ids
        PROVE  meta[i] = NoKeys \/ \E o \in {"none", "foreign", "line", "headphones"} : meta[i] = KeysOf(o)
    <2>1. CASE InitOff BY <2>1 DEF InitOff
    <2>2. CASE InitOn
      <3>1. ASSUME \E o \in Output : Home[o] = i PROVE (CHOOSE o \in Output : Home[o] = i) \in Output
        BY <3>1
      <3> QED BY <2>2, <3>1 DEF InitOn, Output
    <2> QED BY <2>1, <2>2 DEF Init
  <1>4. DOMAIN meta = Ids
    <2>1. CASE InitOff BY <2>1 DEF InitOff
    <2>2. CASE InitOn BY <2>2 DEF InitOn
    <2> QED BY <2>1, <2>2 DEF Init
  <1>5. Shape
    <2>1. DOMAIN NoKeys = Key BY DEF NoKeys
    <2>2. \A i \in Ids : DOMAIN meta[i] = Key
      <3>1. TAKE i \in Ids
      <3>2. "owner" \in Key BY DEF Key
      <3> QED BY <1>2, <1>3, <2>1, <3>2
    <2> QED BY <1>1, <1>4, <2>2 DEF Shape, Fresh
  <1>6. Locked /\ Counted /\ WorksOnOurs
    BY <1>1 DEF Locked, Counted, WorksOnOurs, MixLabel, KeyLabel, Proc
  <1>7. ASSUME NEW i \in Ids, NEW k \in Key, meta[i][k] = "foreign" PROVE meta[i]["owner"] = "none"
    <2>1. meta[i] # NoKeys BY <1>7 DEF NoKeys
    <2>2. PICK o \in {"none", "foreign", "line", "headphones"} : meta[i] = KeysOf(o) BY <1>3, <2>1
    <2>3. KeysOf(o)[k] = "foreign" BY <1>7, <2>2
    <2>4. o = "foreign" BY <1>2, <2>2, <2>3, Zenon
    <2>5. KeysOf("foreign")["owner"] = "none" BY DEF KeysOf, Key
    <2> QED BY <2>2, <2>4, <2>5
  <1> QED BY <1>1, <1>5, <1>6, <1>7 DEF IInv, ForeignAlone

-----------------------------------------------------------------------------
(* A command starts at a label of its own.                                 *)
LEMMA BeginIsQuiet ==
  ASSUME IInv, NEW u \in Users, Begin(u)
  PROVE Quiet(u)
  <1> USE RoutingAssumption DEF Quiet, IInv, Shape, Proc, Step, Goto, Outputs, End, CleanUp, Fresh, pipewire, unit, MixLabel, KeyLabel
  <1>1. CASE Begin(u) BY <1>1 DEF Begin, Commands, local
  <1> QED BY <1>1

(* Reconciling touches no key but at PutKey, and looks for it before.      *)
LEMMA ReconcileIsQuiet ==
  ASSUME IInv, NEW p \in Proc, ReconcileBegin(p) \/ SaveId(p) \/ ReadMix(p) \/ ApplyMix(p) \/ SavedUnread(p) \/ ReconcileFails(p)
  PROVE Quiet(p)
  <1> USE RoutingAssumption DEF Quiet, IInv, Shape, Proc, Step, Goto, Outputs, End, CleanUp, Fresh, pipewire, unit, MixLabel, KeyLabel
  <1>1. CASE ReconcileBegin(p) BY <1>1 DEF ReconcileBegin, NotReconciled
  <1>2. CASE SaveId(p) BY <1>2 DEF SaveId, NotReconciled
  <1>3. CASE ReadMix(p) BY <1>3 DEF ReadMix
  <1>4. CASE ApplyMix(p) BY <1>4 DEF ApplyMix, NotReconciled, Reconciled, Next1
  <1>5. CASE ReconcileFails(p) BY <1>5 DEF ReconcileFails, NotReconciled
  <1>6. CASE SavedUnread(p) BY <1>6 DEF SavedUnread, NotReconciled
  <1> QED BY <1>1, <1>2, <1>3, <1>4, <1>5, <1>6

(* So does cleaning up but at DeleteKey, DeleteUnread and Look.            *)
LEMMA CleanIsQuiet ==
  ASSUME IInv, NEW u \in Users,
         LookUnread(u) \/ Record(u) \/ StopFilter(u) \/ StopFails(u) \/ RemoveConfig(u) \/ Forget(u) \/ Cleaned(u) \/ DeleteFails(u) \/ TurnOff(u)
  PROVE Quiet(u)
  <1> USE RoutingAssumption DEF Quiet, IInv, Shape, Proc, Step, Goto, Outputs, End, CleanUp, Fresh, pipewire, unit, MixLabel, KeyLabel
  <1>1. CASE Record(u) BY <1>1 DEF Record, Next1
  <1>2. CASE StopFilter(u) BY <1>2 DEF StopFilter, MoveWithPost
  <1>3. CASE StopFails(u) BY <1>3 DEF StopFails
  <1>4. CASE RemoveConfig(u) BY <1>4 DEF RemoveConfig
  <1>5. CASE Forget(u) BY <1>5 DEF Forget
  <1>6. CASE Cleaned(u) BY <1>6 DEF Cleaned, BackFromCleanUp
  <1>7. CASE DeleteFails(u) BY <1>7 DEF DeleteFails
  <1>8. CASE TurnOff(u) BY <1>8 DEF TurnOff
  <1>9. CASE LookUnread(u)
    <2>1. PICK sv, result : loc' = [loc EXCEPT ![u].sv = sv, ![u].result = result]
      BY <1>9, Zenon DEF LookUnread
    <2>2. pc' = [pc EXCEPT ![u] = "record"] /\ UNCHANGED <<meta, saved, holder, at>>
      BY <1>9 DEF LookUnread
    <2>3. Shape' BY <2>1, <2>2
    <2> QED BY <2>1, <2>2, <2>3
  <1> QED BY <1>1, <1>2, <1>3, <1>4, <1>5, <1>6, <1>7, <1>8, <1>9

(* `on` itself.                                                            *)
LEMMA OnIsQuiet ==
  ASSUME IInv, NEW u \in Users,
         TurnOn(u) \/ OnUnread(u) \/ Reenable(u) \/ WriteConfig(u) \/ SaveMode(u) \/ EnableFilter(u) \/ Started(u) \/ Verify(u) \/ OnFails(u)
  PROVE Quiet(u)
  <1> USE RoutingAssumption DEF Quiet, IInv, Shape, Proc, Step, Goto, Outputs, End, CleanUp, Fresh, pipewire, unit, MixLabel, KeyLabel
  <1>1. CASE TurnOn(u) BY <1>1 DEF TurnOn, SwitchOn
  <1>2. CASE Reenable(u) BY <1>2 DEF Reenable
  <1>3. CASE WriteConfig(u) BY <1>3 DEF WriteConfig
  <1>4. CASE SaveMode(u) BY <1>4 DEF SaveMode
  <1>5. CASE EnableFilter(u) BY <1>5 DEF EnableFilter, Launch, MoveWithPost
  <1>6. CASE Started(u) BY <1>6 DEF Started
  <1>7. CASE Verify(u) BY <1>7 DEF Verify
  <1>8. CASE OnFails(u) BY <1>8 DEF OnFails
  <1>9. CASE OnUnread(u) BY <1>9 DEF OnUnread, SwitchOn
  <1> QED BY <1>1, <1>2, <1>3, <1>4, <1>5, <1>6, <1>7, <1>8, <1>9

(* The oneshot.                                                            *)
LEMMA OneshotIsQuiet ==
  ASSUME IInv, NEW u \in Users, Restore(u) \/ Try(u) \/ Revive(u) \/ Revived(u) \/ ReviveFails(u) \/ Again(u)
  PROVE Quiet(u)
  <1> USE RoutingAssumption DEF Quiet, IInv, Shape, Proc, Step, Goto, Outputs, End, CleanUp, Fresh, pipewire, unit, MixLabel, KeyLabel
  <1>1. CASE Restore(u) BY <1>1 DEF Restore
  <1>2. CASE Try(u) BY <1>2 DEF Try
  <1>3. CASE Revive(u) BY <1>3 DEF Revive, Launch, MoveWithPost
  <1>4. CASE Revived(u) BY <1>4 DEF Revived
  <1>5. CASE ReviveFails(u) BY <1>5 DEF ReviveFails
  <1>6. CASE Again(u) BY <1>6 DEF Again
  <1> QED BY <1>1, <1>2, <1>3, <1>4, <1>5, <1>6

(* A killed process holds nothing.                                         *)
LEMMA KillIsQuiet ==
  ASSUME IInv, NEW u \in Users, Kill(u)
  PROVE Quiet(u)
  <1> USE RoutingAssumption DEF Quiet, IInv, Shape, Proc, Step, Goto, Outputs, End, CleanUp, Fresh, pipewire, unit, MixLabel, KeyLabel
  <1>1. CASE Kill(u) BY <1>1 DEF Kill
  <1> QED BY <1>1

-----------------------------------------------------------------------------
(* Keys are put where nobody else has any, unless the listing failed.      *)
LEMMA PutKeeps ==
  ASSUME IInv, Grows, NEW p \in Proc, ReconcileWait(p) \/ ClaimUnread(p) \/ PutKey(p)
  PROVE IInv'
  <1> USE RoutingAssumption DEF IInv, Grows, Proc, Step, Goto, pipewire, unit, KeyLabel, MixLabel, Output
  <1>1. CASE ReconcileWait(p) /\ pc'[p] # "r_key"
    <2>1. Quiet(p) BY <1>1 DEF ReconcileWait, Claim, NotReconciled, Quiet, Shape, End, CleanUp, Outputs, Fresh
    <2> QED BY <2>1, QuietKeeps
  <1>2. CASE ReconcileWait(p) /\ pc'[p] = "r_key"
    <2>1. PICK o \in Output :
            /\ Claimable(o, sink[o])
            /\ at' = [at EXCEPT ![p] = sink[o]] /\ loc' = [loc EXCEPT ![p].left = PutOrder]
            /\ pc' = [pc EXCEPT ![p] = "r_key"]
      BY <1>2 DEF ReconcileWait, Claim, NotReconciled, Shape, End, CleanUp
    <2>2. meta' = meta /\ saved' = saved /\ UNCHANGED holder
      BY <1>2 DEF ReconcileWait, Claim, NotReconciled, Shape, End, CleanUp
    <2>3. Shape' BY <2>1, <2>2 DEF Shape
    <2>4. Locked' /\ Counted' BY <2>1, <2>2 DEF Shape, Locked, Counted
    <2>5. ForeignAlone => ForeignAlone' BY <2>2 DEF ForeignAlone
    <2>6. ForeignAlone /\ sink[o] \in Ids => \A k \in Key : meta[sink[o]][k] # "foreign"
      BY <2>1 DEF Claimable, HasKeys, IsOurs, ForeignAlone, Key
    <2>7. ForeignAlone /\ WorksOnOurs => WorksOnOurs' BY <2>1, <2>2, <2>6 DEF Shape, WorksOnOurs
    <2> QED BY <2>3, <2>4, <2>5, <2>7
  <1>3. CASE PutKey(p)
    <2>1. Shape' BY <1>3 DEF PutKey, Shape
    <2>2. Locked' /\ Counted' BY <1>3 DEF PutKey, Shape, Locked, Counted
    <2>3. \A i \in Ids, k \in Key : meta'[i][k] = "foreign" => meta[i][k] = "foreign"
      BY <1>3 DEF PutKey, Shape
    <2>4. ForeignAlone /\ WorksOnOurs => ForeignAlone' BY <1>3, <2>3 DEF PutKey, Shape, ForeignAlone, WorksOnOurs, Key
    <2>5. WorksOnOurs => WorksOnOurs' BY <1>3, <2>3 DEF PutKey, Shape, WorksOnOurs
    <2> QED BY <2>1, <2>2, <2>4, <2>5
  <1>4. CASE ClaimUnread(p)
    <2>1. CASE pc'[p] # "r_key"
      <3>1. Quiet(p) BY <1>4, <2>1 DEF ClaimUnread, Claim, NotReconciled, Quiet, Shape, End, CleanUp, Outputs, Fresh
      <3> QED BY <3>1, QuietKeeps
    <2>2. CASE pc'[p] = "r_key"
      <3>1. ~Checked'
        <4>1. "claim" \in Faults /\ hit' = [hit EXCEPT !["claim"] = @ + 1]
          BY <1>4, Zenon DEF ClaimUnread, Fault
        <4> QED BY <4>1 DEF Counts, Checked
      <3>2. /\ \E id : at' = [at EXCEPT ![p] = id]
            /\ loc' = [loc EXCEPT ![p].left = PutOrder] /\ pc' = [pc EXCEPT ![p] = "r_key"]
            /\ meta' = meta /\ saved' = saved /\ UNCHANGED holder
        BY <1>4, <2>2 DEF ClaimUnread, Claim, NotReconciled, Shape, End, CleanUp
      <3>3. Shape' BY <3>2 DEF Shape
      <3>4. Locked' /\ Counted' BY <3>2 DEF Shape, Locked, Counted
      <3> QED BY <3>1, <3>3, <3>4
    <2> QED BY <2>1, <2>2
  <1> QED BY <1>1, <1>2, <1>3, <1>4

(* Keys are deleted where the owner key is ours.                           *)
LEMMA DeleteKeeps ==
  ASSUME IInv, Grows, NEW u \in Users, Look(u) \/ DeleteKey(u) \/ DeleteUnread(u)
  PROVE IInv'
  <1> USE RoutingAssumption DEF IInv, Grows, Proc, Step, Goto, pipewire, unit, KeyLabel, MixLabel
  <1>1. CASE Look(u)
    <2>1. Shape' BY <1>1 DEF Look, Shape
    <2>2. Locked' /\ Counted' BY <1>1 DEF Look, Shape, Locked, Counted
    <2>3. ForeignAlone => ForeignAlone' BY <1>1 DEF Look, ForeignAlone
    <2>4. ASSUME ForeignAlone, NEW o \in Output, sink[o] \in Ids, IsOurs(o, sink[o])
          PROVE  \A k \in Key : meta[sink[o]][k] # "foreign"
      BY <2>4 DEF IsOurs, ForeignAlone, Output
    <2>5. ForeignAlone /\ WorksOnOurs => WorksOnOurs' BY <1>1, <2>4 DEF Look, Shape, WorksOnOurs
    <2> QED BY <2>1, <2>2, <2>3, <2>5
  <1>2. CASE DeleteKey(u) \/ DeleteUnread(u)
    <2>1. Shape'
      <3>1. CASE DeleteKey(u) BY <3>1 DEF DeleteKey, Shape
      <3>2. CASE DeleteUnread(u) BY <3>2 DEF DeleteUnread, Shape
      <3> QED BY <1>2, <3>1, <3>2
    <2>2. Locked' /\ Counted' BY <1>2 DEF DeleteKey, DeleteUnread, Shape, Locked, Counted
    <2>3. \A i \in Ids, k \in Key : meta'[i][k] \in {meta[i][k], "none"}
      BY <1>2 DEF DeleteKey, DeleteUnread, Shape
    <2>4. ForeignAlone => ForeignAlone' BY <2>3 DEF ForeignAlone, Key
    <2>5. WorksOnOurs => WorksOnOurs' BY <1>2, <2>3 DEF DeleteKey, DeleteUnread, Shape, WorksOnOurs
    <2> QED BY <2>1, <2>2, <2>4, <2>5
  <1> QED BY <1>1, <1>2

(* One mix command at a time is between reading and saving.                *)
LEMMA MixKeeps ==
  ASSUME IInv, Grows, NEW u \in Users, Mix(u)
  PROVE IInv'
  <1> USE RoutingAssumption DEF IInv, Grows, Proc, Step, Goto, End, Fresh, pipewire, unit, KeyLabel, MixLabel
  <1> DEFINE Only ==
        /\ Shape' /\ meta' = meta
        /\ \A q \in Proc \ {u} : pc'[q] = pc[q] /\ at'[q] = at[q] /\ loc'[q] = loc[q]
        /\ pc'[u] \notin KeyLabel
  <1>1. Only
    <2>1. CASE Lock(u) BY <2>1 DEF Lock, Shape
    <2>2. CASE MixRead(u) BY <2>2 DEF MixRead, Shape
    <2>3. CASE MixConfig(u) BY <2>3 DEF MixConfig, Shape
    <2>4. CASE MixLive(u) BY <2>4 DEF MixLive, PutBack, Shape
    <2>5. CASE MixUndo(u) BY <2>5 DEF MixUndo, Shape
    <2>6. CASE MixRelive(u) BY <2>6 DEF MixRelive, Shape
    <2>7. CASE MixSave(u) BY <2>7 DEF MixSave, Shape
    <2>8. CASE MixFails(u) BY <2>8 DEF MixFails, PutBack, Shape
    <2> QED BY <2>1, <2>2, <2>3, <2>4, <2>5, <2>6, <2>7, <2>8 DEF Mix
  <1>2. Locked'
    <2>1. pc'[u] \in MixLabel => holder' = u
      BY DEF Mix, Lock, MixRead, MixConfig, MixLive, MixUndo, MixRelive, MixSave, MixFails, PutBack, Shape, Locked
    <2>2. ASSUME NEW v \in Users \ {u}, pc[v] \in MixLabel PROVE holder' = v
      BY <2>2 DEF Mix, Lock, MixRead, MixConfig, MixLive, MixUndo, MixRelive, MixSave, MixFails, PutBack, Shape, Locked
    <2> QED BY <1>1, <2>1, <2>2 DEF Locked
  <1>3. Counted'
    <2>1. CASE MixSave(u)
      <3>1. \A v \in Users \ {u} : pc[v] \notin MixLabel BY <2>1 DEF MixSave, Locked
      <3> QED BY <1>1, <2>1, <3>1 DEF MixSave, Shape, Counted
    <2>2. CASE ~MixSave(u)
      <3>1. saved' = saved
        BY <2>2 DEF Mix, Lock, MixRead, MixConfig, MixLive, MixUndo, MixRelive, MixFails
      <3>2. pc'[u] \in {"m_config", "m_live", "m_save"} => loc'[u].val = Outcome(loc'[u].job, saved.mix)
        BY <2>2 DEF Mix, Lock, MixRead, MixConfig, MixLive, MixUndo, MixRelive, MixFails, PutBack, Shape, Counted
      <3> QED BY <1>1, <3>1, <3>2 DEF Counted
    <2> QED BY <2>1, <2>2
  <1>4. ForeignAlone /\ WorksOnOurs => ForeignAlone' /\ WorksOnOurs' BY <1>1 DEF ForeignAlone, WorksOnOurs
  <1> QED BY <1>1, <1>2, <1>3, <1>4

(* The environment moves nodes and clears metadata, and adds none.         *)
LEMMA EnvironmentKeeps ==
  ASSUME IInv, Grows, Environment
  PROVE IInv'
  <1> USE RoutingAssumption DEF IInv, Grows, Proc, local, unit, KeyLabel, MixLabel
  <1>1. /\ Shape' /\ saved' = saved /\ holder' = holder
        /\ \A q \in Users : pc'[q] = pc[q] /\ at'[q] = at[q] /\ loc'[q] = loc[q]
        /\ (pc'[Post] = pc[Post] /\ at'[Post] = at[Post]) \/ pc'[Post] = "r_begin"
    BY DEF Environment, Unplug, Plug, RestartWirePlumber, Shape, NoKeys, Fresh
  <1>2. \A i \in Ids, k \in Key : meta'[i][k] \in {meta[i][k], "none"} /\ (meta'[i] = meta[i] \/ meta'[i][k] = "none")
    BY DEF Environment, Unplug, Plug, RestartWirePlumber, Shape, NoKeys
  <1>3. Locked' /\ Counted' BY <1>1 DEF Locked, Counted
  <1>4. ForeignAlone => ForeignAlone' BY <1>2 DEF ForeignAlone, Key
  <1>5. WorksOnOurs => WorksOnOurs' BY <1>1, <1>2 DEF WorksOnOurs
  <1> QED BY <1>1, <1>3, <1>4, <1>5

(* No step of a command, of the service or of the desktop breaks the       *)
(* invariant.                                                              *)
LEMMA NextKeeps == IInv /\ [Next]_vars => IInv'
  <1> SUFFICES ASSUME IInv, [Next]_vars PROVE IInv' OBVIOUS
  <1>0. Grows
    BY CountsGrow
  <1>1. CASE UNCHANGED vars
    BY <1>1 DEF vars, IInv, Shape, Counts, Checked, Locked, Counted, ForeignAlone, WorksOnOurs
  <1>2. ASSUME NEW p \in Proc, Reconcile(p) PROVE IInv'
    BY <1>0, <1>2, ReconcileIsQuiet, QuietKeeps, PutKeeps DEF Reconcile
  <1>3. ASSUME NEW u \in Users, Begin(u) \/ TurnOff(u) \/ Clean(u) \/ On(u) \/ Oneshot(u) \/ Kill(u)
        PROVE  IInv'
    <2>1. Quiet(u) \/ Look(u) \/ DeleteKey(u) \/ DeleteUnread(u)
      BY <1>3, BeginIsQuiet, CleanIsQuiet, OnIsQuiet, OneshotIsQuiet, KillIsQuiet DEF Clean, On, Oneshot
    <2> QED BY <1>0, <2>1, QuietKeeps, DeleteKeeps DEF Proc
  <1>4. ASSUME NEW u \in Users, Mix(u) PROVE IInv' BY <1>0, <1>4, MixKeeps
  <1>5. CASE Environment BY <1>0, <1>5, EnvironmentKeeps
  <1> QED BY <1>1, <1>2, <1>3, <1>4, <1>5 DEF Next

(* The invariant of every behaviour.                                       *)
THEOREM InvariantHolds == Spec => []IInv
  BY InitHolds, NextKeeps, PTL DEF Spec

-----------------------------------------------------------------------------
(* Commands change only metadata of their own (claimable_metadata,         *)
(* remove_smart_metadata), for every number of users, nodes and keys and   *)
(* whatever runs at the same time or fails, until a listing fails in       *)
(* claimable_metadata: that one takes the failure for a node without keys. *)
THEOREM ForeignMetadataIsSafe == Spec => NoCommandTakesForeign
  <1>1. ASSUME IInv, Next, ~Environment, hit["claim"] = 0, NEW i \in Ids, NEW k \in Key, meta[i][k] = "foreign"
        PROVE  meta'[i][k] = "foreign"
    <2>0. WorksOnOurs BY <1>1 DEF IInv, Checked
    <2>1. ASSUME NEW p \in Proc, Reconcile(p) PROVE meta'[i][k] = "foreign"
      <3>1. CASE PutKey(p)
        <4>1. at[p] # i BY <1>1, <2>0, <3>1 DEF PutKey, Step, WorksOnOurs, KeyLabel
        <4> QED BY <1>1, <3>1, <4>1 DEF PutKey, IInv, Shape
      <3>2. CASE ReconcileWait(p) \/ ClaimUnread(p) BY <1>1, <3>2 DEF ReconcileWait, ClaimUnread, pipewire
      <3> QED BY <1>1, <2>1, <3>1, <3>2, ReconcileIsQuiet DEF Reconcile, Quiet
    <2>2. ASSUME NEW u \in Users, Begin(u) \/ TurnOff(u) \/ Clean(u) \/ On(u) \/ Oneshot(u) \/ Kill(u)
          PROVE  meta'[i][k] = "foreign"
      <3>1. CASE DeleteKey(u) \/ DeleteUnread(u)
        <4>1. at[u] # i BY <1>1, <2>0, <3>1 DEF DeleteKey, DeleteUnread, Step, WorksOnOurs, KeyLabel, Proc
        <4> QED BY <1>1, <3>1, <4>1 DEF DeleteKey, DeleteUnread, IInv, Shape
      <3>2. CASE Look(u) BY <1>1, <3>2 DEF Look, pipewire
      <3>3. Quiet(u) \/ Look(u) \/ DeleteKey(u) \/ DeleteUnread(u)
        BY <1>1, <2>2, BeginIsQuiet, CleanIsQuiet, OnIsQuiet, OneshotIsQuiet, KillIsQuiet DEF Clean, On, Oneshot
      <3> QED BY <1>1, <3>1, <3>2, <3>3 DEF Quiet
    <2>3. ASSUME NEW u \in Users, Mix(u) PROVE meta'[i][k] = "foreign"
      BY <1>1, <2>3
      DEF Mix, Lock, MixRead, MixConfig, MixLive, MixUndo, MixRelive, MixSave, MixFails, pipewire
    <2> QED BY <1>1, <2>1, <2>2, <2>3 DEF Next
  <1>2. IInv /\ [Next]_vars =>
          [\A i \in Ids, k \in Key : meta[i][k] = "foreign" /\ ~Environment /\ hit["claim"] = 0 => meta'[i][k] = "foreign"]_vars
    BY <1>1
  <1> QED BY <1>2, InvariantHolds, PTL DEF Spec, NoCommandTakesForeign

(* No step of the mix is lost or counted twice (set_mix under mix.lock),   *)
(* for every number of commands and whatever runs beside them.             *)
THEOREM NoStepIsLost == Spec => StepsCount
  <1>1. ASSUME IInv, Next, saved'.mix # saved.mix
        PROVE  \E u \in Users : Step(u, "m_save") /\ saved'.mix = Outcome(loc[u].job, saved.mix)
    <2>1. \E u \in Users : MixSave(u)
      <3>1. ASSUME NEW p \in Proc, Reconcile(p) PROVE FALSE
        BY <1>1, <3>1, ReconcileIsQuiet DEF Reconcile, Quiet, ReconcileWait, ClaimUnread, PutKey
      <3>2. ASSUME NEW u \in Users, Begin(u) \/ TurnOff(u) \/ Clean(u) \/ On(u) \/ Oneshot(u) \/ Kill(u)
            PROVE  FALSE
        BY <1>1, <3>2, BeginIsQuiet, CleanIsQuiet, OnIsQuiet, OneshotIsQuiet, KillIsQuiet
        DEF Clean, On, Oneshot, Quiet, Look, DeleteKey, DeleteUnread
      <3>3. ASSUME NEW u \in Users, Mix(u), ~MixSave(u) PROVE FALSE
        BY <1>1, <3>3 DEF Mix, Lock, MixRead, MixConfig, MixLive, MixUndo, MixRelive, MixFails
      <3>4. ~Environment BY <1>1 DEF Environment, Unplug, Plug, RestartWirePlumber
      <3> QED BY <1>1, <3>1, <3>2, <3>3, <3>4 DEF Next
    <2>2. PICK u \in Users : MixSave(u) BY <2>1
    <2>3. saved'.mix = loc[u].val BY <1>1, <2>2 DEF MixSave, IInv, Shape
    <2> QED BY <1>1, <2>2, <2>3 DEF MixSave, Step, IInv, Counted
  <1>2. IInv /\ [Next]_vars =>
          [saved'.mix # saved.mix =>
             \E u \in Users :
               /\ Step(u, "m_save")
               /\ saved'.mix = Outcome(loc[u].job, saved.mix)]_vars
    BY <1>1
  <1> QED BY <1>2, InvariantHolds, PTL DEF Spec, StepsCount

-----------------------------------------------------------------------------
(* Who moves.                                                              *)

(* The local variables, beside what Shape says of them.                    *)
Rows == DOMAIN todo = Proc /\ \A p \in Proc : {"why", "left"} \subseteq DOMAIN loc[p]

(* A step of p moves nobody but p and the ExecStartPost, which it starts   *)
(* or ends.                                                                *)
Moves(p) ==
  /\ Rows'
  /\ \A q \in Proc \ {p} :
       \/ pc'[q] = pc[q] /\ at'[q] = at[q] /\ todo'[q] = todo[q] /\ loc'[q] = loc[q]
       \/ q = Post /\ pc'[q] \in {"idle", "r_begin"} /\ at'[q] = 0 /\ todo'[q] = << >> /\ loc'[q] = Fresh

(* Reconciling moves one process,                                          *)
LEMMA ReconcileMoves ==
  ASSUME Shape, Rows, NEW p \in Proc, Reconcile(p)
  PROVE  Moves(p)
  <1> USE RoutingAssumption DEF Shape, Rows, Proc, Step, Goto, Outputs, End, CleanUp, Fresh
  <1>1. CASE ReconcileBegin(p)
    BY <1>1 DEF Moves, ReconcileBegin, NotReconciled
  <1>2. CASE ReconcileWait(p)
    BY <1>2 DEF Moves, ReconcileWait, Claim, NotReconciled
  <1>3. CASE PutKey(p)
    BY <1>3 DEF Moves, PutKey
  <1>4. CASE SaveId(p)
    <2>1. Rows'
      BY <1>4 DEF SaveId, NotReconciled
    <2>2. \A q \in Proc \ {p} :
            \/ pc'[q] = pc[q] /\ at'[q] = at[q] /\ todo'[q] = todo[q] /\ loc'[q] = loc[q]
            \/ q = Post /\ pc'[q] \in {"idle", "r_begin"} /\ at'[q] = 0 /\ todo'[q] = << >> /\ loc'[q] = Fresh
      BY <1>4 DEF SaveId, NotReconciled
    <2>3. QED BY <2>1, <2>2 DEF Moves
  <1>5. CASE ReadMix(p)
    BY <1>5 DEF Moves, ReadMix
  <1>6. CASE ApplyMix(p)
    BY <1>6 DEF Moves, ApplyMix, NotReconciled, Reconciled, Next1
  <1>7. CASE ReconcileFails(p)
    BY <1>7 DEF Moves, ReconcileFails, NotReconciled
  <1>8. CASE ClaimUnread(p)
    BY <1>8 DEF Moves, ClaimUnread, Claim, NotReconciled
  <1>9. CASE SavedUnread(p)
    <2>1. Rows'
      BY <1>9 DEF SavedUnread, NotReconciled
    <2>2. \A q \in Proc \ {p} :
            \/ pc'[q] = pc[q] /\ at'[q] = at[q] /\ todo'[q] = todo[q] /\ loc'[q] = loc[q]
            \/ q = Post /\ pc'[q] \in {"idle", "r_begin"} /\ at'[q] = 0 /\ todo'[q] = << >> /\ loc'[q] = Fresh
      BY <1>9 DEF SavedUnread, NotReconciled
    <2>3. QED BY <2>1, <2>2 DEF Moves
  <1>10. QED BY <1>1, <1>2, <1>3, <1>4, <1>5, <1>6, <1>7, <1>8, <1>9 DEF Reconcile

(* and so does cleaning up,                                                *)
LEMMA CleanMoves ==
  ASSUME Shape, Rows, NEW u \in Users, Clean(u)
  PROVE  Moves(u)
  <1> USE RoutingAssumption DEF Shape, Rows, Proc, Step, Goto, Outputs, End, CleanUp, Fresh
  <1>1. CASE Look(u)
    <2>1. /\ \A q \in Proc \ {u} : pc'[q] = pc[q] /\ at'[q] = at[q] /\ loc'[q] = loc[q]
          /\ todo' = todo
      BY <1>1 DEF Look
    <2>2. PICK sv, left, result :
            \/ loc' = [loc EXCEPT ![u].sv = sv, ![u].left = left]
            \/ loc' = [loc EXCEPT ![u].sv = sv, ![u].result = result]
      BY <1>1, Zenon DEF Look
    <2>3. Rows'
      BY <2>1, <2>2
    <2>4. QED BY <2>1, <2>3 DEF Moves
  <1>2. CASE DeleteKey(u)
    BY <1>2 DEF Moves, DeleteKey
  <1>3. CASE DeleteFails(u)
    BY <1>3 DEF Moves, DeleteFails
  <1>4. CASE Record(u)
    BY <1>4 DEF Moves, Record, Next1
  <1>5. CASE StopFilter(u)
    BY <1>5 DEF Moves, StopFilter, MoveWithPost, StopUnit
  <1>6. CASE StopFails(u)
    BY <1>6 DEF Moves, StopFails
  <1>7. CASE RemoveConfig(u)
    BY <1>7 DEF Moves, RemoveConfig
  <1>8. CASE Forget(u)
    BY <1>8 DEF Moves, Forget
  <1>9. CASE Cleaned(u)
    BY <1>9 DEF Moves, Cleaned, BackFromCleanUp
  <1>10. CASE LookUnread(u)
    BY <1>10 DEF Moves, LookUnread
  <1>11. CASE DeleteUnread(u)
    BY <1>11 DEF Moves, DeleteUnread
  <1>12. QED BY <1>1, <1>2, <1>3, <1>4, <1>5, <1>6, <1>7, <1>8, <1>9, <1>10, <1>11 DEF Clean

(* switching on,                                                           *)
LEMMA OnMoves ==
  ASSUME Shape, Rows, NEW u \in Users, On(u)
  PROVE  Moves(u)
  <1> USE RoutingAssumption DEF Shape, Rows, Proc, Step, Goto, Outputs, End, CleanUp, Fresh
  <1>1. CASE TurnOn(u)
    BY <1>1 DEF Moves, TurnOn, SwitchOn
  <1>2. CASE Reenable(u)
    BY <1>2 DEF Moves, Reenable
  <1>3. CASE WriteConfig(u)
    BY <1>3 DEF Moves, WriteConfig
  <1>4. CASE SaveMode(u)
    BY <1>4 DEF Moves, SaveMode
  <1>5. CASE EnableFilter(u)
    <2>1. Rows'
      BY <1>5 DEF EnableFilter, Launch, MoveWithPost, StartUnit
    <2>2. \A q \in Proc \ {u} :
            \/ pc'[q] = pc[q] /\ at'[q] = at[q] /\ todo'[q] = todo[q] /\ loc'[q] = loc[q]
            \/ q = Post /\ pc'[q] \in {"idle", "r_begin"} /\ at'[q] = 0 /\ todo'[q] = << >> /\ loc'[q] = Fresh
      BY <1>5 DEF EnableFilter, Launch, MoveWithPost, StartUnit
    <2>3. QED BY <2>1, <2>2 DEF Moves
  <1>6. CASE Started(u)
    BY <1>6 DEF Moves, Started
  <1>7. CASE Verify(u)
    BY <1>7 DEF Moves, Verify
  <1>8. CASE OnFails(u)
    BY <1>8 DEF Moves, OnFails
  <1>9. CASE OnUnread(u)
    BY <1>9 DEF Moves, OnUnread, SwitchOn
  <1>10. QED BY <1>1, <1>2, <1>3, <1>4, <1>5, <1>6, <1>7, <1>8, <1>9 DEF On

(* changing the mix,                                                       *)
LEMMA MixMoves ==
  ASSUME Shape, Rows, NEW u \in Users, Mix(u)
  PROVE  Moves(u)
  <1> USE RoutingAssumption DEF Shape, Rows, Proc, Step, Goto, Outputs, End, CleanUp, Fresh
  <1>1. CASE Lock(u)
    BY <1>1 DEF Moves, Lock
  <1>2. CASE MixRead(u)
    BY <1>2 DEF Moves, MixRead
  <1>3. CASE MixConfig(u)
    BY <1>3 DEF Moves, MixConfig
  <1>4. CASE MixLive(u)
    BY <1>4 DEF Moves, MixLive, PutBack, Next1
  <1>5. CASE MixUndo(u)
    BY <1>5 DEF Moves, MixUndo
  <1>6. CASE MixRelive(u)
    <2>1. Rows'
      BY <1>6 DEF MixRelive, Next1
    <2>2. \A q \in Proc \ {u} :
            \/ pc'[q] = pc[q] /\ at'[q] = at[q] /\ todo'[q] = todo[q] /\ loc'[q] = loc[q]
            \/ q = Post /\ pc'[q] \in {"idle", "r_begin"} /\ at'[q] = 0 /\ todo'[q] = << >> /\ loc'[q] = Fresh
      BY <1>6 DEF MixRelive, Next1
    <2>3. QED BY <2>1, <2>2 DEF Moves
  <1>7. CASE MixSave(u)
    BY <1>7 DEF Moves, MixSave
  <1>8. CASE MixFails(u)
    BY <1>8 DEF Moves, MixFails, PutBack, Next1
  <1>9. QED BY <1>1, <1>2, <1>3, <1>4, <1>5, <1>6, <1>7, <1>8 DEF Mix

(* the oneshot,                                                            *)
LEMMA OneshotMoves ==
  ASSUME Shape, Rows, NEW u \in Users, Oneshot(u)
  PROVE  Moves(u)
  <1> USE RoutingAssumption DEF Shape, Rows, Proc, Step, Goto, Outputs, End, CleanUp, Fresh
  <1>1. CASE Restore(u)
    BY <1>1 DEF Moves, Restore
  <1>2. CASE Try(u)
    BY <1>2 DEF Moves, Try
  <1>3. CASE Revive(u)
    <2>1. Rows'
      BY <1>3 DEF Revive, Launch, MoveWithPost, StartUnit
    <2>2. \A q \in Proc \ {u} :
            \/ pc'[q] = pc[q] /\ at'[q] = at[q] /\ todo'[q] = todo[q] /\ loc'[q] = loc[q]
            \/ q = Post /\ pc'[q] \in {"idle", "r_begin"} /\ at'[q] = 0 /\ todo'[q] = << >> /\ loc'[q] = Fresh
      BY <1>3 DEF Revive, Launch, MoveWithPost, StartUnit
    <2>3. QED BY <2>1, <2>2 DEF Moves
  <1>4. CASE Revived(u)
    BY <1>4 DEF Moves, Revived
  <1>5. CASE ReviveFails(u)
    BY <1>5 DEF Moves, ReviveFails
  <1>6. CASE Again(u)
    BY <1>6 DEF Moves, Again
  <1>7. QED BY <1>1, <1>2, <1>3, <1>4, <1>5, <1>6 DEF Oneshot

(* `off`,                                                                  *)
LEMMA TurnOffMoves ==
  ASSUME Shape, Rows, NEW u \in Users, TurnOff(u)
  PROVE  Moves(u)
  <1> USE RoutingAssumption DEF Shape, Rows, Proc, TurnOff, Step, Goto, Outputs, End, CleanUp, Fresh
  <1>1. QED BY DEF Moves

(* and a kill.                                                             *)
LEMMA KillMoves ==
  ASSUME Shape, Rows, NEW u \in Users, Kill(u)
  PROVE  Moves(u)
  <1> USE RoutingAssumption DEF Shape, Rows, Proc, Kill, Goto, End, Fresh
  <1>1. QED BY DEF Moves

(* Whoever runs a command moves alone.                                     *)
LEMMA UserMoves ==
  ASSUME Shape, Rows, NEW u \in Users,
         Begin(u) \/ TurnOff(u) \/ Clean(u) \/ On(u) \/ Mix(u) \/ Oneshot(u) \/ Kill(u)
  PROVE  Moves(u)
  <1>1. CASE Begin(u)
    <2>1. PICK j \in Jobs : loc' = [loc EXCEPT ![u].job = j] /\ pc' = [pc EXCEPT ![u] = j.command]
      BY <1>1 DEF Begin, Goto
    <2>2. UNCHANGED <<at, todo>>
      BY <1>1 DEF Begin
    <2>3. QED BY <2>1, <2>2, RoutingAssumption, InputsTyped DEF Moves, Shape, Rows, Proc
  <1>2. QED BY <1>1, TurnOffMoves, CleanMoves, OnMoves, MixMoves, OneshotMoves, KillMoves

-----------------------------------------------------------------------------
(* Types.                                                                  *)

(* The outputs of a mode.                                                  *)
LEMMA OutputsTyped == \A mode : OutputsOf(mode) \in Seq(Output)
  <1>1. All \in Seq(Output) /\ << >> \in Seq(Output)
    BY DEF All, Output
  <1>2. \A o \in Output : <<o>> \in Seq(Output)
    OBVIOUS
  <1>3. QED BY <1>1, <1>2 DEF OutputsOf

(* What a mix command saves is on the scale of the port.                   *)
LEMMA OutcomeTyped == \A j \in Jobs \cup {NoJob}, mix \in Mixes : Outcome(j, mix) \in Mixes
  <1>1. ASSUME NEW by \in Int, NEW mix \in Mixes PROVE Stepped(mix, by) \in Mixes
    BY DEF Stepped, Mixes, AutoMix
  <1>2. \A j \in Jobs \cup {NoJob} : j.value \in Int /\ (j.command = "set" => j.value \in Mixes)
    BY RoutingAssumption, InputsTyped DEF NoJob
  <1>3. QED BY <1>1, <1>2 DEF Outcome

(* PipeWire has a place for both sinks.                                    *)
LEMMA HomeIsPlace == Home \in Places /\ Home \in [Output -> Ids]
  <1>1. PICK i, j \in Ids : i # j
    BY RoutingAssumption, InputsTyped
  <1> DEFINE h == [o \in Output |-> IF o = "line" THEN i ELSE j]
  <1>2. h \in Places
    BY <1>1 DEF Places, Output
  <1>3. QED BY <1>2 DEF Home, Places

(* The saved id of an output is an id.                                     *)
LEMMA SavedIdTyped == HostOK => \A o \in Output : SavedId(o) \in Id0
  BY DEF HostOK, Files, SavedId, Id0

(* A process that begins or ends has local variables of their types.       *)
LEMMA FreshTyped ==
  /\ Fresh.job = NoJob /\ Fresh.mode = "none" /\ Fresh.sv = 0 /\ Fresh.val = AutoMix /\ Fresh.old = AutoMix
  /\ {"job", "why", "mode", "sv", "val", "old", "left", "result", "bad", "tries"} = DOMAIN Fresh
  /\ "none" \in Modes /\ 0 \in Id0 /\ AutoMix \in Mixes /\ << >> \in Seq(Output) /\ All \in Seq(Output)
  BY DEF Fresh, Modes, Id0, Mixes, AutoMix, All, Output

(* The mode of a command is one.                                           *)
LEMMA JobTyped == \A j \in Jobs \cup {NoJob} : j.mode \in Modes
  BY RoutingAssumption, InputsTyped DEF NoJob, Modes

(* How a process goes on, or ends.                                         *)
LEMMA RowTyped ==
  ASSUME TypeOK, NEW p \in Proc
  PROVE  /\ \A how : End(p, how) => LocalOK(p)'
         /\ \A why : CleanUp(p, why) => LocalOK(p)'
         /\ UNCHANGED <<at, todo, loc>> => LocalOK(p)'
         /\ \A s \in Seq(Output) : UNCHANGED <<at, loc>> /\ Outputs(p, s) => LocalOK(p)'
  <1>0. DOMAIN at = Proc /\ DOMAIN todo = Proc /\ DOMAIN loc = Proc /\ LocalOK(p)
    BY DEF TypeOK
  <1>1. ASSUME NEW how, End(p, how) PROVE LocalOK(p)'
    <2>1. at'[p] = 0 /\ todo'[p] = << >> /\ loc'[p] = Fresh
      BY <1>0, <1>1 DEF End
    <2>2. QED BY <2>1, FreshTyped DEF LocalOK
  <1>2. ASSUME NEW why, CleanUp(p, why) PROVE LocalOK(p)'
    <2>1. at' = at /\ todo'[p] = All /\ loc'[p] = [loc[p] EXCEPT !.why = why, !.bad = FALSE]
      BY <1>0, <1>2 DEF CleanUp, Outputs
    <2>2. QED BY <1>0, <2>1, FreshTyped DEF LocalOK
  <1>3. UNCHANGED <<at, todo, loc>> => LocalOK(p)'
    BY <1>0 DEF LocalOK
  <1>4. ASSUME NEW s \in Seq(Output), UNCHANGED <<at, loc>>, Outputs(p, s) PROVE LocalOK(p)'
    <2>1. todo'[p] = s
      BY <1>0, <1>4 DEF Outputs
    <2>2. QED BY <1>0, <1>4, <2>1 DEF LocalOK
  <1>5. QED BY <1>1, <1>2, <1>3, <1>4

(* The outputs still to go, when there are any.                            *)
LEMMA NextTyped ==
  ASSUME TypeOK, NEW p \in Proc, NEW o, Due(p, o)
  PROVE  Tail(todo[p]) \in Seq(Output)
  <1>1. todo[p] \in Seq(Output) /\ todo[p] # << >>
    BY DEF TypeOK, LocalOK, Due
  <1>2. QED BY <1>1, HeadTailProperties

(* The files of STATE_DIR.                                                 *)
LEMMA FilesTyped ==
  ASSUME saved \in Files
  PROVE  /\ \A o \in Output, i \in Id0 : [saved EXCEPT !.id[o] = i] \in Files /\ [saved EXCEPT !.pending[o] = i] \in Files
         /\ \A m \in Modes : [saved EXCEPT !.mode = m] \in Files
         /\ \A x \in Mixes : [saved EXCEPT !.mix = x] \in Files
         /\ [saved EXCEPT !.mode = "none", !.id = NoIds, !.legacy = 0] \in Files
  <1>1. ASSUME NEW o \in Output, NEW i \in Id0 PROVE [saved EXCEPT !.id[o] = i] \in Files /\ [saved EXCEPT !.pending[o] = i] \in Files
    <2>1. [saved.id EXCEPT ![o] = i] \in [Output -> Id0] /\ [saved.pending EXCEPT ![o] = i] \in [Output -> Id0]
      BY DEF Files
    <2>2. QED BY <2>1 DEF Files
  <1>2. \A m \in Modes : [saved EXCEPT !.mode = m] \in Files
    BY DEF Files
  <1>3. \A x \in Mixes : [saved EXCEPT !.mix = x] \in Files
    BY DEF Files
  <1>4. NoIds \in [Output -> Id0] /\ "none" \in Modes /\ 0 \in Id0
    BY DEF NoIds, Id0, Modes
  <1>5. [saved EXCEPT !.mode = "none", !.id = NoIds, !.legacy = 0] \in Files
    BY <1>4 DEF Files
  <1>6. QED BY <1>1, <1>2, <1>3, <1>5

(* Reconciling keeps the types.                                            *)
LEMMA ReconcileTyped ==
  ASSUME TypeOK, NEW p \in Proc, Reconcile(p)
  PROVE  HostOK' /\ LocalOK(p)'
  <1> USE RoutingAssumption, InputsTyped, FreshTyped, JobTyped DEF TypeOK, Proc, Step, Well, pipewire, unit
  <1>1. CASE ReconcileBegin(p)
    <2>1. HostOK'
      BY <1>1 DEF HostOK, StopUnit, Goto, Outputs, End, CleanUp, ReconcileBegin, NotReconciled
    <2>2. LocalOK(p)'
      BY <1>1, OutputsTyped, RowTyped, NextTyped DEF ReconcileBegin, NotReconciled
    <2>3. QED BY <2>1, <2>2
  <1>2. CASE ReconcileWait(p)
    <2>1. HostOK'
      BY <1>2 DEF HostOK, StopUnit, Goto, Outputs, End, CleanUp, ReconcileWait, Claim, NotReconciled
    <2>2. LocalOK(p)'
      <3>1. CASE NotReconciled(p)
        BY <3>1, RowTyped DEF NotReconciled
      <3>2. CASE ~NotReconciled(p)
        <4>1. PICK o \in Output :
                at' = [at EXCEPT ![p] = sink[o]] /\ loc' = [loc EXCEPT ![p].left = PutOrder] /\ todo' = todo
          BY <1>2, <3>2 DEF ReconcileWait, Claim
        <4>2. QED BY <4>1 DEF LocalOK, HostOK
      <3>3. QED BY <3>1, <3>2
    <2>3. QED BY <2>1, <2>2
  <1>3. CASE PutKey(p)
    <2>1. HostOK'
      <3>1. PICK o \in Output : meta' = [meta EXCEPT ![at[p]][Head(loc[p].left)] = o]
        BY <1>3 DEF PutKey
      <3>2. meta' \in [Ids -> [Key -> Output \cup {"none", "foreign"}]]
        BY <3>1 DEF HostOK
      <3>3. QED BY <1>3, <3>2 DEF HostOK, PutKey
    <2>2. LocalOK(p)'
      BY <1>3 DEF LocalOK, End, PutKey
    <2>3. QED BY <2>1, <2>2
  <1>4. CASE SaveId(p)
    <2>1. HostOK'
      <3>a. PICK o \in Output : saved' = [saved EXCEPT !.id[o] = at[p]]
        BY <1>4 DEF SaveId
      <3>1. saved' \in Files
        BY <3>a, FilesTyped DEF HostOK, LocalOK
      <3>2. QED BY <1>4, <3>1 DEF HostOK, SaveId, NotReconciled, StopUnit, End, CleanUp
    <2>2. LocalOK(p)'
      BY <1>4, OutputsTyped, RowTyped, NextTyped DEF SaveId, NotReconciled
    <2>3. QED BY <2>1, <2>2
  <1>5. CASE ReadMix(p)
    <2>1. HostOK'
      BY <1>5 DEF HostOK, StopUnit, Goto, Outputs, End, CleanUp, ReadMix
    <2>2. LocalOK(p)'
      BY <1>5 DEF LocalOK, HostOK, Files, ReadMix
    <2>3. QED BY <2>1, <2>2
  <1>6. CASE ApplyMix(p)
    <2>1. HostOK'
      <3>1. live' \in [Output -> {Gone} \cup Mixes]
        BY <1>6 DEF HostOK, LocalOK, ApplyMix, NotReconciled, StopUnit
      <3>2. service' \in {"inactive", "starting", "active"} /\ holder' \in Users \cup {"nobody"}
        BY <1>6 DEF HostOK, ApplyMix, NotReconciled, StopUnit, Reconciled, End, CleanUp
      <3>3. QED BY <1>6, <3>1, <3>2 DEF HostOK, ApplyMix
    <2>2. LocalOK(p)'
      <3>1. CASE NotReconciled(p)
        BY <3>1, RowTyped DEF NotReconciled
      <3>2. CASE Reconciled(p)
        <4>1. CASE p # Post /\ loc[p].why = "repair"
          <5>1. todo' = [todo EXCEPT ![p] = OutputsOf(loc[p].job.mode)] /\ loc' = [loc EXCEPT ![p].why = "remix"] /\ at' = at
            BY <3>2, <4>1 DEF Reconciled, Outputs
          <5>2. QED BY <5>1, OutputsTyped DEF LocalOK
        <4>2. CASE p = Post \/ loc[p].why # "repair"
          BY <3>2, <4>2, RowTyped DEF Reconciled
        <4>3. QED BY <4>1, <4>2
      <3>3. CASE ~NotReconciled(p) /\ ~Reconciled(p)
        BY <1>6, <3>3, RowTyped, NextTyped DEF ApplyMix, Next1
      <3>4. QED BY <3>1, <3>2, <3>3
    <2>3. QED BY <2>1, <2>2
  <1>7. CASE ReconcileFails(p)
    <2>1. HostOK'
      BY <1>7 DEF HostOK, StopUnit, Goto, Outputs, End, CleanUp, ReconcileFails, NotReconciled
    <2>2. LocalOK(p)'
      BY <1>7, OutputsTyped, RowTyped, NextTyped DEF ReconcileFails, NotReconciled
    <2>3. QED BY <2>1, <2>2
  <1>8. CASE ClaimUnread(p)
    <2>1. HostOK'
      BY <1>8 DEF HostOK, StopUnit, Goto, Outputs, End, CleanUp, ClaimUnread, Claim, NotReconciled
    <2>2. LocalOK(p)'
      <3>1. CASE NotReconciled(p)
        BY <3>1, RowTyped DEF NotReconciled
      <3>2. CASE ~NotReconciled(p)
        <4>1. PICK o \in Output :
                at' = [at EXCEPT ![p] = sink[o]] /\ loc' = [loc EXCEPT ![p].left = PutOrder] /\ todo' = todo
          BY <1>8, <3>2 DEF ClaimUnread, Claim
        <4>2. QED BY <4>1 DEF LocalOK, HostOK
      <3>3. QED BY <3>1, <3>2
    <2>3. QED BY <2>1, <2>2
  <1>9. CASE SavedUnread(p)
    <2>1. HostOK'
      <3>1. PICK o \in Output : saved' = [saved EXCEPT !.id[o] = at[p]]
        BY <1>9 DEF SavedUnread
      <3>2. saved' \in Files
        BY <3>1, FilesTyped DEF HostOK, LocalOK
      <3>3. QED BY <1>9, <3>2 DEF HostOK, SavedUnread, NotReconciled, StopUnit, End, CleanUp
    <2>2. LocalOK(p)'
      BY <1>9, RowTyped DEF SavedUnread, NotReconciled
    <2>3. QED BY <2>1, <2>2
  <1>10. QED BY <1>1, <1>2, <1>3, <1>4, <1>5, <1>6, <1>7, <1>8, <1>9 DEF Reconcile

(* So does cleaning up,                                                    *)
LEMMA CleanTyped ==
  ASSUME TypeOK, NEW u \in Users, Clean(u)
  PROVE  HostOK' /\ LocalOK(u)'
  <1> USE RoutingAssumption, InputsTyped, FreshTyped, JobTyped DEF TypeOK, Proc, Step, Well, pipewire, unit
  <1>1. CASE Look(u)
    <2>1. HostOK'
      BY <1>1 DEF HostOK, StopUnit, Goto, Outputs, End, CleanUp, Look
    <2>2. LocalOK(u)'
      <3>1. PICK o \in Output :
              LET sv == SavedId(o) IN
              /\ todo' = todo
              /\ \/ at' = [at EXCEPT ![u] = sink[o]] /\ loc' = [loc EXCEPT ![u].sv = sv, ![u].left = DeleteOrder]
                 \/ at' = at /\ \E result : loc' = [loc EXCEPT ![u].sv = sv, ![u].result = result]
        BY <1>1, Zenon DEF Look
      <3>2. SavedId(o) \in Id0 /\ sink[o] \in Id0
        BY SavedIdTyped DEF HostOK
      <3>3. CASE at' = [at EXCEPT ![u] = sink[o]] /\ loc' = [loc EXCEPT ![u].sv = SavedId(o), ![u].left = DeleteOrder]
        BY <3>1, <3>2, <3>3 DEF LocalOK
      <3>4. CASE at' = at /\ \E result : loc' = [loc EXCEPT ![u].sv = SavedId(o), ![u].result = result]
        BY <3>1, <3>2, <3>4 DEF LocalOK
      <3>5. QED BY <3>1, <3>3, <3>4
    <2>3. QED BY <2>1, <2>2
  <1>2. CASE DeleteKey(u)
    <2>1. HostOK'
      BY <1>2 DEF HostOK, StopUnit, Goto, Outputs, End, CleanUp, DeleteKey
    <2>2. LocalOK(u)'
      BY <1>2 DEF LocalOK, End, DeleteKey
    <2>3. QED BY <2>1, <2>2
  <1>3. CASE DeleteFails(u)
    <2>1. HostOK'
      BY <1>3 DEF HostOK, StopUnit, Goto, Outputs, End, CleanUp, DeleteFails
    <2>2. LocalOK(u)'
      BY <1>3 DEF LocalOK, End, DeleteFails
    <2>3. QED BY <2>1, <2>2
  <1>4. CASE Record(u)
    <2>1. HostOK'
      <3>1. loc[u].sv \in Id0 /\ 0 \in Id0
        BY DEF LocalOK
      <3>a. PICK o \in Output :
              saved' = saved \/ saved' = [saved EXCEPT !.pending[o] = loc[u].sv] \/ saved' = [saved EXCEPT !.pending[o] = 0]
        BY <1>4 DEF Record
      <3>2. saved' \in Files
        <4>1. saved \in Files
          BY DEF HostOK
        <4>2. \A i \in Id0 : [saved EXCEPT !.pending[o] = i] \in Files
          BY <4>1, FilesTyped
        <4>3. /\ [saved EXCEPT !.pending[o] = loc[u].sv] \in Files
              /\ [saved EXCEPT !.pending[o] = 0] \in Files
          BY <3>1, <4>2
        <4>4. QED BY <3>a, <4>1, <4>3, Zenon
      <3>3. QED BY <1>4, <3>2 DEF HostOK, Record
    <2>2. LocalOK(u)'
      <3> DEFINE bad == loc[u].bad \/ loc[u].result = "error"
      <3>a. loc' = [loc EXCEPT ![u].bad = bad, ![u].sv = 0, ![u].result = "none"]
        BY <1>4, Zenon DEF Record
      <3> HIDE DEF bad
      <3>b. loc'[u] = [loc[u] EXCEPT !.bad = bad, !.sv = 0, !.result = "none"]
        BY <3>a
      <3>1. at'[u] = 0 /\ todo'[u] = Tail(todo[u])
        BY <1>4 DEF Record, Next1, Outputs
      <3>2. Tail(todo[u]) \in Seq(Output)
        BY <1>4, NextTyped DEF Record
      <3>3. QED BY <3>b, <3>1, <3>2 DEF LocalOK
    <2>3. QED BY <2>1, <2>2
  <1>5. CASE StopFilter(u)
    <2>1. HostOK'
      BY <1>5 DEF HostOK, StopUnit, Goto, Outputs, End, CleanUp, StopFilter, MoveWithPost
    <2>2. LocalOK(u)'
      BY <1>5 DEF LocalOK, End, StopFilter, MoveWithPost
    <2>3. QED BY <2>1, <2>2
  <1>6. CASE StopFails(u)
    <2>1. HostOK'
      BY <1>6 DEF HostOK, StopUnit, Goto, Outputs, End, CleanUp, StopFails
    <2>2. LocalOK(u)'
      BY <1>6 DEF LocalOK, End, StopFails
    <2>3. QED BY <2>1, <2>2
  <1>7. CASE RemoveConfig(u)
    <2>1. HostOK'
      <3>1. NoConfig \in Fragment
        BY DEF NoConfig, Fragment
      <3>2. QED BY <1>7, <3>1 DEF HostOK, RemoveConfig
    <2>2. LocalOK(u)'
      BY <1>7 DEF LocalOK, End, RemoveConfig
    <2>3. QED BY <2>1, <2>2
  <1>8. CASE Forget(u)
    <2>1. HostOK'
      BY <1>8, FilesTyped DEF HostOK, LocalOK, End, Next1, Forget
    <2>2. LocalOK(u)'
      BY <1>8 DEF LocalOK, End, Forget
    <2>3. QED BY <2>1, <2>2
  <1>9. CASE Cleaned(u)
    <2>1. HostOK'
      BY <1>9 DEF HostOK, StopUnit, Goto, Outputs, End, CleanUp, Cleaned, BackFromCleanUp
    <2>2. LocalOK(u)'
      BY <1>9, OutputsTyped, RowTyped, NextTyped DEF Cleaned, BackFromCleanUp
    <2>3. QED BY <2>1, <2>2
  <1>10. CASE LookUnread(u)
    <2>1. HostOK'
      BY <1>10 DEF HostOK, LookUnread
    <2>2. LocalOK(u)'
      <3>1. PICK o \in Output, result \in {"done", "pending"} : loc' = [loc EXCEPT ![u].sv = SavedId(o), ![u].result = result]
        BY <1>10 DEF LookUnread
      <3>2. SavedId(o) \in Id0
        BY SavedIdTyped
      <3>3. at' = at /\ todo' = todo
        BY <1>10 DEF LookUnread
      <3>4. QED BY <3>1, <3>2, <3>3 DEF LocalOK
    <2>3. QED BY <2>1, <2>2
  <1>11. CASE DeleteUnread(u)
    <2>1. HostOK'
      BY <1>11 DEF HostOK, DeleteUnread
    <2>2. LocalOK(u)'
      BY <1>11 DEF LocalOK, DeleteUnread
    <2>3. QED BY <2>1, <2>2
  <1>12. QED BY <1>1, <1>2, <1>3, <1>4, <1>5, <1>6, <1>7, <1>8, <1>9, <1>10, <1>11 DEF Clean

(* switching on,                                                           *)
LEMMA OnTyped ==
  ASSUME TypeOK, NEW u \in Users, On(u)
  PROVE  HostOK' /\ LocalOK(u)'
  <1> USE RoutingAssumption, InputsTyped, FreshTyped, JobTyped DEF TypeOK, Proc, Step, Well, pipewire, unit
  <1>1. CASE TurnOn(u) \/ OnUnread(u)
    <2>1. HostOK'
      BY <1>1 DEF HostOK, StopUnit, Goto, Outputs, End, CleanUp, TurnOn, OnUnread, SwitchOn
    <2>2. LocalOK(u)'
      <3>1. CASE UNCHANGED <<at, todo, loc>> \/ End(u, "failed") \/ CleanUp(u, "clean")
        BY <3>1, RowTyped
      <3>2. CASE ~(UNCHANGED <<at, todo, loc>> \/ End(u, "failed") \/ CleanUp(u, "clean"))
        <4>1. /\ at' = at
              /\ todo' = todo \/ todo' = [todo EXCEPT ![u] = OutputsOf(loc[u].job.mode)]
              /\ \E why : loc' = [loc EXCEPT ![u].why = why]
          BY <1>1, <3>2 DEF TurnOn, OnUnread, SwitchOn, Outputs
        <4>2. todo'[u] \in Seq(Output)
          BY <4>1, OutputsTyped DEF LocalOK
        <4>3. QED BY <4>1, <4>2 DEF LocalOK
      <3>3. QED BY <3>1, <3>2
    <2>3. QED BY <2>1, <2>2
  <1>2. CASE Reenable(u)
    <2>1. HostOK'
      BY <1>2 DEF HostOK, StopUnit, Goto, Outputs, End, CleanUp, Reenable
    <2>2. LocalOK(u)'
      BY <1>2 DEF LocalOK, End, Reenable
    <2>3. QED BY <2>1, <2>2
  <1>3. CASE WriteConfig(u)
    <2>1. HostOK'
      <3>1. loc[u].job.mode \in Modes /\ saved.mix \in Mixes
        BY DEF LocalOK, HostOK, Files
      <3>2. [by |-> "ours", mode |-> loc[u].job.mode, mix |-> saved.mix] \in Fragment
        BY <3>1 DEF Fragment
      <3>3. config' \in Fragment
        BY <1>3, <3>2 DEF HostOK, WriteConfig
      <3>4. QED BY <1>3, <3>3 DEF HostOK, WriteConfig, CleanUp
    <2>2. LocalOK(u)'
      BY <1>3, OutputsTyped, RowTyped, NextTyped DEF WriteConfig
    <2>3. QED BY <2>1, <2>2
  <1>4. CASE SaveMode(u)
    <2>1. HostOK'
      BY <1>4, FilesTyped DEF HostOK, LocalOK, End, Next1, SaveMode
    <2>2. LocalOK(u)'
      BY <1>4 DEF LocalOK, End, SaveMode
    <2>3. QED BY <2>1, <2>2
  <1>5. CASE EnableFilter(u)
    <2>1. HostOK'
      <3>1. live' \in [Output -> {Gone} \cup Mixes]
        BY <1>5 DEF HostOK, Fragment, EnableFilter, Launch, StartUnit
      <3>2. service' \in {"inactive", "starting", "active"} /\ enabled' \in BOOLEAN
        BY <1>5 DEF HostOK, EnableFilter, Launch, StartUnit
      <3>3. QED BY <1>5, <3>1, <3>2 DEF HostOK, EnableFilter
    <2>2. LocalOK(u)'
      <3>1. at'[u] = at[u] /\ todo'[u] = todo[u] /\ loc'[u] = loc[u]
        BY <1>5 DEF EnableFilter, Launch, MoveWithPost
      <3>2. QED BY <3>1 DEF LocalOK
    <2>3. QED BY <2>1, <2>2
  <1>6. CASE Started(u)
    <2>1. HostOK'
      BY <1>6 DEF HostOK, StopUnit, Goto, Outputs, End, CleanUp, Started
    <2>2. LocalOK(u)'
      BY <1>6, OutputsTyped, RowTyped, NextTyped DEF Started
    <2>3. QED BY <2>1, <2>2
  <1>7. CASE Verify(u)
    <2>1. HostOK'
      BY <1>7 DEF HostOK, StopUnit, Goto, Outputs, End, CleanUp, Verify
    <2>2. LocalOK(u)'
      BY <1>7, OutputsTyped, RowTyped, NextTyped DEF Verify
    <2>3. QED BY <2>1, <2>2
  <1>8. CASE OnFails(u)
    <2>1. HostOK'
      BY <1>8 DEF HostOK, StopUnit, Goto, Outputs, End, CleanUp, OnFails
    <2>2. LocalOK(u)'
      BY <1>8, OutputsTyped, RowTyped, NextTyped DEF OnFails
    <2>3. QED BY <2>1, <2>2
  <1>9. QED BY <1>1, <1>2, <1>3, <1>4, <1>5, <1>6, <1>7, <1>8 DEF On

(* changing the mix,                                                       *)
LEMMA MixTyped ==
  ASSUME TypeOK, NEW u \in Users, Mix(u)
  PROVE  HostOK' /\ LocalOK(u)'
  <1> USE RoutingAssumption, InputsTyped, FreshTyped, JobTyped DEF TypeOK, Proc, Step, Well, pipewire, unit
  <1>1. CASE Lock(u)
    <2>1. HostOK'
      BY <1>1 DEF HostOK, StopUnit, Goto, Outputs, End, CleanUp, Lock
    <2>2. LocalOK(u)'
      BY <1>1 DEF LocalOK, End, Lock
    <2>3. QED BY <2>1, <2>2
  <1>2. CASE MixRead(u)
    <2>1. HostOK'
      BY <1>2 DEF HostOK, StopUnit, Goto, Outputs, End, CleanUp, MixRead
    <2>2. LocalOK(u)'
      <3>1. CASE End(u, "failed")
        BY <3>1, RowTyped
      <3>2. CASE ~End(u, "failed")
        <4>1. /\ at' = at /\ todo' = todo
              /\ loc'[u] = [loc[u] EXCEPT !.old = saved.mix, !.mode = saved.mode, !.val = Outcome(loc[u].job, saved.mix)]
          BY <1>2, <3>2 DEF MixRead
        <4>2. saved.mix \in Mixes /\ saved.mode \in Modes
          BY DEF HostOK, Files
        <4>3. Outcome(loc[u].job, saved.mix) \in Mixes
          BY <4>2, OutcomeTyped DEF LocalOK
        <4>4. QED BY <4>1, <4>2, <4>3 DEF LocalOK
      <3>3. QED BY <3>1, <3>2
    <2>3. QED BY <2>1, <2>2
  <1>3. CASE MixConfig(u)
    <2>1. HostOK'
      <3>1. loc[u].mode \in Modes /\ loc[u].val \in Mixes
        BY DEF LocalOK
      <3>2. [by |-> "ours", mode |-> loc[u].mode, mix |-> loc[u].val] \in Fragment
        BY <3>1 DEF Fragment
      <3>3. config' \in Fragment
        BY <1>3, <3>2 DEF HostOK, MixConfig
      <3>4. QED BY <1>3, <3>3 DEF HostOK, MixConfig, End
    <2>2. LocalOK(u)'
      BY <1>3, OutputsTyped, RowTyped, NextTyped DEF MixConfig
    <2>3. QED BY <2>1, <2>2
  <1>4. CASE MixLive(u)
    <2>1. HostOK'
      BY <1>4, FilesTyped DEF HostOK, LocalOK, End, Next1, MixLive, PutBack, Next1
    <2>2. LocalOK(u)'
      BY <1>4, OutputsTyped, RowTyped, NextTyped DEF MixLive, PutBack, Next1
    <2>3. QED BY <2>1, <2>2
  <1>5. CASE MixUndo(u)
    <2>1. HostOK'
      <3>1. loc[u].mode \in Modes /\ loc[u].old \in Mixes
        BY DEF LocalOK
      <3>2. [by |-> "ours", mode |-> loc[u].mode, mix |-> loc[u].old] \in Fragment
        BY <3>1 DEF Fragment
      <3>3. config' \in Fragment
        BY <1>5, <3>2 DEF HostOK, MixUndo
      <3>4. QED BY <1>5, <3>3 DEF HostOK, MixUndo
    <2>2. LocalOK(u)'
      BY <1>5, OutputsTyped, RowTyped, NextTyped DEF MixUndo
    <2>3. QED BY <2>1, <2>2
  <1>6. CASE MixRelive(u)
    <2>1. HostOK'
      BY <1>6, FilesTyped DEF HostOK, LocalOK, End, Next1, MixRelive, Next1
    <2>2. LocalOK(u)'
      BY <1>6, OutputsTyped, RowTyped, NextTyped DEF MixRelive, Next1
    <2>3. QED BY <2>1, <2>2
  <1>7. CASE MixSave(u)
    <2>1. HostOK'
      BY <1>7, FilesTyped DEF HostOK, LocalOK, End, Next1, MixSave
    <2>2. LocalOK(u)'
      BY <1>7, OutputsTyped, RowTyped, NextTyped DEF MixSave
    <2>3. QED BY <2>1, <2>2
  <1>8. CASE MixFails(u)
    <2>1. HostOK'
      BY <1>8 DEF HostOK, StopUnit, Goto, Outputs, End, CleanUp, MixFails, PutBack, Next1
    <2>2. LocalOK(u)'
      BY <1>8, OutputsTyped, RowTyped, NextTyped DEF MixFails, PutBack, Next1
    <2>3. QED BY <2>1, <2>2
  <1>9. QED BY <1>1, <1>2, <1>3, <1>4, <1>5, <1>6, <1>7, <1>8 DEF Mix

(* and the oneshot.                                                        *)
LEMMA OneshotTyped ==
  ASSUME TypeOK, NEW u \in Users, Oneshot(u)
  PROVE  HostOK' /\ LocalOK(u)'
  <1> USE RoutingAssumption, InputsTyped, FreshTyped, JobTyped DEF TypeOK, Proc, Step, Well, pipewire, unit
  <1>1. CASE Restore(u)
    <2>1. HostOK'
      BY <1>1 DEF HostOK, StopUnit, Goto, Outputs, End, CleanUp, Restore
    <2>2. LocalOK(u)'
      <3>1. CASE End(u, "ok")
        BY <3>1, RowTyped
      <3>2. CASE ~End(u, "ok")
        <4>1. /\ at' = at /\ todo' = todo
              /\ loc'[u] = [loc[u] EXCEPT !.mode = saved.mode, !.why = "restore"]
          BY <1>1, <3>2 DEF Restore
        <4>2. saved.mode \in Modes
          BY DEF HostOK, Files
        <4>3. QED BY <4>1, <4>2 DEF LocalOK
      <3>3. QED BY <3>1, <3>2
    <2>3. QED BY <2>1, <2>2
  <1>2. CASE Try(u)
    <2>1. HostOK'
      BY <1>2 DEF HostOK, StopUnit, Goto, Outputs, End, CleanUp, Try
    <2>2. LocalOK(u)'
      BY <1>2, OutputsTyped, RowTyped, NextTyped DEF Try
    <2>3. QED BY <2>1, <2>2
  <1>3. CASE Revive(u)
    <2>1. HostOK'
      <3>1. live' \in [Output -> {Gone} \cup Mixes]
        BY <1>3 DEF HostOK, Fragment, Revive, Launch, StartUnit
      <3>2. service' \in {"inactive", "starting", "active"} /\ enabled' \in BOOLEAN
        BY <1>3 DEF HostOK, Revive, Launch, StartUnit
      <3>3. QED BY <1>3, <3>1, <3>2 DEF HostOK, Revive
    <2>2. LocalOK(u)'
      <3>1. at'[u] = at[u] /\ todo'[u] = todo[u] /\ loc'[u] = loc[u]
        BY <1>3 DEF Revive, Launch, MoveWithPost
      <3>2. QED BY <3>1 DEF LocalOK
    <2>3. QED BY <2>1, <2>2
  <1>4. CASE Revived(u)
    <2>1. HostOK'
      BY <1>4 DEF HostOK, StopUnit, Goto, Outputs, End, CleanUp, Revived
    <2>2. LocalOK(u)'
      BY <1>4 DEF LocalOK, End, Revived
    <2>3. QED BY <2>1, <2>2
  <1>5. CASE ReviveFails(u)
    <2>1. HostOK'
      BY <1>5 DEF HostOK, StopUnit, Goto, Outputs, End, CleanUp, ReviveFails
    <2>2. LocalOK(u)'
      BY <1>5, RowTyped DEF ReviveFails
    <2>3. QED BY <2>1, <2>2
  <1>6. CASE Again(u)
    <2>1. HostOK'
      BY <1>6 DEF HostOK, StopUnit, Goto, Outputs, End, CleanUp, Again
    <2>2. LocalOK(u)'
      <3>1. CASE End(u, "failed")
        BY <3>1, RowTyped
      <3>2. CASE ~End(u, "failed")
        <4>1. /\ at' = at /\ todo'[u] = << >>
              /\ loc'[u] = [loc[u] EXCEPT !.tries = loc[u].tries + 1]
          <5>1. loc' = [loc EXCEPT ![u].tries = @ + 1] /\ todo' = [todo EXCEPT ![u] = << >>] /\ at' = at
            BY <1>6, <3>2 DEF Again, Outputs
          <5>2. QED BY <5>1
        <4>2. QED BY <4>1 DEF LocalOK
      <3>3. QED BY <3>1, <3>2
    <2>3. QED BY <2>1, <2>2
  <1>7. QED BY <1>1, <1>2, <1>3, <1>4, <1>5, <1>6 DEF Oneshot

(* `off`, a beginning and a kill.                                          *)
LEMMA OthersTyped ==
  ASSUME TypeOK, NEW u \in Users, Begin(u) \/ TurnOff(u) \/ Kill(u)
  PROVE  HostOK' /\ LocalOK(u)'
  <1> USE RoutingAssumption, InputsTyped DEF TypeOK, Proc, Well, pipewire, unit
  <1>1. CASE Begin(u)
    <2>1. PICK j \in Jobs : loc' = [loc EXCEPT ![u].job = j]
      BY <1>1 DEF Begin
    <2>2. UNCHANGED <<pipewire, unit, config, saved, holder, at, todo>>
      BY <1>1 DEF Begin
    <2>3. loc'[u] = [loc[u] EXCEPT !.job = j]
      BY <2>1
    <2>4. LocalOK(u)'
      BY <2>2, <2>3, FreshTyped DEF LocalOK
    <2>5. QED BY <2>2, <2>4 DEF HostOK
  <1>2. CASE TurnOff(u)
    <2>1. HostOK'
      BY <1>2 DEF HostOK, TurnOff, End, CleanUp
    <2>2. QED BY <1>2, <2>1, RowTyped DEF TurnOff
  <1>3. CASE Kill(u)
    <2>1. HostOK'
      BY <1>3 DEF HostOK, Kill, End
    <2>2. QED BY <1>3, <2>1, RowTyped DEF Kill
  <1>4. QED BY <1>1, <1>2, <1>3

(* The environment.                                                        *)
LEMMA EnvironmentTyped ==
  ASSUME TypeOK, Environment
  PROVE  HostOK' /\ DOMAIN todo' = Proc /\ \A q \in Proc : LocalOK(q)'
  <1> USE RoutingAssumption, InputsTyped DEF TypeOK, Proc, pipewire, unit
  <1>1. CASE Unplug \/ Plug
    <2>1. UNCHANGED <<unit, config, saved, holder, at, todo, loc>>
      BY <1>1 DEF Unplug, Plug, local
    <2>2. sink' \in [Output -> Id0]
      <3>1. CASE Unplug
        BY <3>1 DEF Unplug, Id0
      <3>2. CASE Plug
        <4>1. sink' \in Places
          BY <3>2, HomeIsPlace DEF Plug
        <4>2. QED BY <4>1 DEF Places, Id0
      <3>3. QED BY <1>1, <3>1, <3>2
    <2>3. meta' \in [Ids -> [Key -> Output \cup {"none", "foreign"}]]
      <3>1. NoKeys \in [Key -> Output \cup {"none", "foreign"}]
        BY DEF NoKeys
      <3>2. QED BY <1>1, <3>1 DEF Unplug, Plug, HostOK
    <2>4. HostOK'
      BY <2>1, <2>2, <2>3 DEF HostOK
    <2>5. QED BY <2>1, <2>4 DEF LocalOK
  <1>2. CASE RestartWirePlumber
    <2>1. UNCHANGED <<sink, enabled, config, saved, holder>>
      BY <1>2 DEF RestartWirePlumber
    <2>2. meta' \in [Ids -> [Key -> Output \cup {"none", "foreign"}]]
      BY <1>2 DEF RestartWirePlumber, NoKeys
    <2>3. live' \in [Output -> {Gone} \cup Mixes] /\ service' \in {"inactive", "starting", "active"}
      BY <1>2 DEF RestartWirePlumber, StartUnit, HostOK, Fragment
    <2>4. HostOK'
      BY <2>1, <2>2, <2>3 DEF HostOK
    <2>5. /\ DOMAIN todo' = Proc
          /\ \A q \in Proc : \/ at'[q] = at[q] /\ todo'[q] = todo[q] /\ loc'[q] = loc[q]
                             \/ at'[q] = 0 /\ todo'[q] = << >> /\ loc'[q] = Fresh
      <3>1. DOMAIN at = Proc /\ DOMAIN todo = Proc /\ DOMAIN loc = Proc
        OBVIOUS
      <3>2. CASE service = "inactive"
        BY <1>2, <3>1, <3>2 DEF RestartWirePlumber, local
      <3>3. CASE service # "inactive"
        <4>1. /\ at' = [at EXCEPT ![Post] = 0] /\ todo' = [todo EXCEPT ![Post] = << >>]
              /\ loc' = [loc EXCEPT ![Post] = Fresh]
          BY <1>2, <3>3 DEF RestartWirePlumber
        <4>2. QED BY <3>1, <4>1
      <3>4. QED BY <3>2, <3>3
    <2>6. ASSUME NEW q \in Proc PROVE LocalOK(q)'
      <3>1. CASE at'[q] = at[q] /\ todo'[q] = todo[q] /\ loc'[q] = loc[q]
        BY <3>1 DEF LocalOK
      <3>2. CASE at'[q] = 0 /\ todo'[q] = << >> /\ loc'[q] = Fresh
        BY <3>2, FreshTyped DEF LocalOK
      <3>3. QED BY <2>5, <3>1, <3>2
    <2>7. QED BY <2>4, <2>5, <2>6
  <1>3. QED BY <1>1, <1>2 DEF Environment

(* The initial states have their types.                                    *)
LEMMA InitTyped == Init => TypeOK
  <1> SUFFICES ASSUME Init PROVE TypeOK
    OBVIOUS
  <1> USE RoutingAssumption, InputsTyped
  <1> DEFINE Rings == [Key -> Output \cup {"none", "foreign"}]
  <1>1. /\ sink = Home /\ holder = "nobody" /\ pc = [p \in Proc |-> "idle"] /\ at = [p \in Proc |-> 0]
        /\ todo = [p \in Proc |-> << >>] /\ loc = [p \in Proc |-> Fresh] /\ hit = [f \in Faults |-> 0]
    BY DEF Init
  <1>2. sink \in [Output -> Id0]
    BY <1>1, HomeIsPlace DEF Id0
  <1>3. NoKeys \in Rings /\ \A who \in Output \cup {"foreign"} : KeysOf(who) \in Rings
    BY DEF NoKeys, KeysOf
  <1>4. meta \in [Ids -> Rings]
    <2>1. CASE InitOff
      BY <1>3, <2>1 DEF InitOff, Output
    <2>2. CASE InitOn
      <3>1. ASSUME NEW i \in Ids, \E o \in Output : Home[o] = i PROVE (CHOOSE o \in Output : Home[o] = i) \in Output
        BY <3>1
      <3>2. QED BY <1>3, <2>2, <3>1 DEF InitOn
    <2>3. QED BY <2>1, <2>2 DEF Init
  <1>5. service \in {"inactive", "active"} /\ enabled \in BOOLEAN /\ live \in [Output -> {Gone} \cup Mixes]
    <2>1. Gone \in {Gone} \cup Mixes /\ AutoMix \in {Gone} \cup Mixes
      BY DEF Mixes, AutoMix
    <2>2. CASE InitOff
      BY <2>1, <2>2 DEF InitOff
    <2>3. CASE InitOn
      BY <2>1, <2>3 DEF InitOn
    <2>4. QED BY <2>2, <2>3 DEF Init
  <1>6. config \in Fragment
    <2>1. NoConfig \in Fragment /\ [NoConfig EXCEPT !.by = "foreign"] \in Fragment
      BY DEF NoConfig, Fragment, Modes, Mixes, AutoMix
    <2>2. [by |-> "ours", mode |-> "all", mix |-> AutoMix] \in Fragment
      BY DEF Fragment, Modes, Mixes, AutoMix
    <2>3. QED BY <2>1, <2>2 DEF Init, InitOff, InitOn
  <1>7. saved \in Files
    <2>1. NothingSaved \in Files /\ "all" \in Modes
      BY DEF NothingSaved, NoIds, Files, Id0, Modes, Mixes, AutoMix
    <2>2. Home \in [Output -> Id0] /\ \A o \in Output : Home[o] \in Id0
      BY HomeIsPlace DEF Id0
    <2>3. [NothingSaved EXCEPT !.legacy = Home["line"]] \in Files
      BY <2>1, <2>2 DEF Files, Output
    <2>4. [NothingSaved EXCEPT !.mode = "all", !.id = Home] \in Files
      BY <2>1, <2>2 DEF Files
    <2>5. QED BY <2>1, <2>3, <2>4 DEF Init, InitOff, InitOn
  <1>8. HostOK
    BY <1>1, <1>2, <1>4, <1>5, <1>6, <1>7 DEF HostOK
  <1>9. \A p \in Proc : LocalOK(p)
    BY <1>1, FreshTyped DEF LocalOK
  <1>10. {DOMAIN pc, DOMAIN at, DOMAIN todo, DOMAIN loc} = {Proc} /\ hit \in [Faults -> Nat]
    BY <1>1
  <1>11. QED BY <1>8, <1>9, <1>10 DEF TypeOK

(* Every step keeps the types.                                             *)
LEMMA NextTypes ==
  ASSUME IInv, TypeOK, [Next]_vars
  PROVE  TypeOK'
  <1>1. CASE UNCHANGED vars
    BY <1>1 DEF vars, TypeOK, HostOK, LocalOK
  <1>2. CASE Next
    <2>1. Shape /\ Rows
      BY FreshTyped DEF IInv, Shape, Rows, TypeOK, LocalOK
    <2>2. Shape'
      BY NextKeeps DEF IInv
    <2>3. ASSUME NEW p \in Proc, Moves(p), HostOK', LocalOK(p)'
          PROVE  HostOK' /\ DOMAIN todo' = Proc /\ \A q \in Proc : LocalOK(q)'
      <3>1. ASSUME NEW q \in Proc \ {p} PROVE LocalOK(q)'
        <4>1. CASE at'[q] = at[q] /\ todo'[q] = todo[q] /\ loc'[q] = loc[q]
          BY <4>1 DEF TypeOK, LocalOK
        <4>2. CASE at'[q] = 0 /\ todo'[q] = << >> /\ loc'[q] = Fresh
          BY <4>2, FreshTyped DEF LocalOK
        <4>3. QED BY <2>3, <4>1, <4>2 DEF Moves
      <3>2. QED BY <2>3, <3>1 DEF Moves, Rows
    <2>4. HostOK' /\ DOMAIN todo' = Proc /\ \A q \in Proc : LocalOK(q)'
      <3>1. ASSUME NEW p \in Proc, Reconcile(p) PROVE Moves(p) /\ HostOK' /\ LocalOK(p)'
        BY <2>1, <3>1, ReconcileMoves, ReconcileTyped
      <3>2. ASSUME NEW u \in Users, Begin(u) \/ TurnOff(u) \/ Clean(u) \/ On(u) \/ Mix(u) \/ Oneshot(u) \/ Kill(u)
            PROVE  u \in Proc /\ Moves(u) /\ HostOK' /\ LocalOK(u)'
        BY <2>1, <3>2, UserMoves, OthersTyped, CleanTyped, OnTyped, MixTyped, OneshotTyped DEF Proc
      <3>3. CASE Environment
        BY <3>3, EnvironmentTyped
      <3>4. QED BY <1>2, <2>3, <3>1, <3>2, <3>3 DEF Next
    <2>5. Counts'
      <3>1. Counts
        BY DEF TypeOK, Counts
      <3>2. CASE Well
        BY <3>1, <3>2 DEF Well, Counts
      <3>3. CASE \E kind : Fault(kind)
        <4>1. PICK kind : kind \in Faults /\ hit' = [hit EXCEPT ![kind] = @ + 1]
          BY <3>3 DEF Fault
        <4>2. QED BY <3>1, <4>1 DEF Counts
      <3>4. QED BY <1>2, <3>2, <3>3, WellOrFault
    <2>6. QED BY <2>2, <2>4, <2>5 DEF TypeOK, Shape, Counts
  <1>3. QED BY <1>1, <1>2

(* Whatever commands run beside each other and whatever fails, the mix     *)
(* stays on the scale of the port in the file, the fragment and the nodes  *)
(* (set_mix), ids are nodes' and modes are outputs'.                       *)
THEOREM MixIsOnScale == Spec => []TypeOK
  <1>1. IInv /\ TypeOK /\ [Next]_vars => TypeOK'
    BY NextTypes
  <1>2. QED BY <1>1, InitTyped, InvariantHolds, PTL DEF Spec
=============================================================================

-------------------------- MODULE RoutingOwnerProofs --------------------------
(***************************************************************************)
(* What holds of id14-sr as long as the commands that switch the filter    *)
(* run one after the other and no mix command runs beside them, for every  *)
(* set of users, commands, nodes, keys and disturbances:                   *)
(*                                                                         *)
(*   OwnerKeyMarksOurs   its metadata can be told from other people's,     *)
(*   NothingIsForgotten  what it leaves on a node is known to be there,    *)
(*   OffTellsTheTruth    an `off` that succeeds has left nothing,          *)
(*   OneMix              nodes, fragment and mix file have one mix.        *)
(*                                                                         *)
(* Each has an inductive invariant, built on the one before: Turns says    *)
(* who may run beside whom, OInv what keys are on a node, CInv how far     *)
(* clean-up has come, TInv where keys of ours are and that they are known, *)
(* MInv what mix the nodes and the fragment have.                          *)
(***************************************************************************)
EXTENDS RoutingProofs

(* A process that runs, other than a mix command.                          *)
Switches(p) == pc[p] \notin {"idle", "cleared", "set", "step"} \cup MixLabel
(* The labels at which a command waits for systemd.                        *)
Awaits == {"starting", "revived"}

-----------------------------------------------------------------------------
(* The invariant.                                                          *)

(* What a key's value may be.                                              *)
Values == \A i \in Ids, k \in Key : meta[i][k] \in Output \cup {"none", "foreign"}

(* Who switches runs a switching command.                                  *)
Labelled == \A u \in Users : Switches(u) => loc[u].job.command \in SwitchCommands
Alone == \A u, v \in Users : Switches(u) /\ Switches(v) => u = v
(* The ExecStartPost runs while the unit is starting, and nobody switches  *)
(* meanwhile, but who waits for it.                                        *)
Posted == pc[Post] # "idle" => service = "starting" /\ pc[Post] # "cleared"
PostAlone == \A u \in Users : Switches(u) /\ pc[Post] # "idle" => pc[u] \in Awaits

Turns == IInv /\ Rows /\ Counts /\ Labelled /\ Alone /\ Posted /\ PostAlone

(* No node has lost its metadata with its device, nor has one seemed to    *)
(* have none when it was claimed.                                          *)
Kept == ("unplug" \in Faults => hit["unplug"] = 0) /\ Checked

(* Whatever is ours says so.                                               *)
Marked == \A i \in Ids, k \in Key : meta[i][k] \in Output => meta[i]["owner"] = meta[i][k]

(* While keys are put, the owner key is first.                             *)
Putting(p) ==
  pc[p] = "r_key" /\ at[p] \in Ids =>
    \E o \in Output :
      /\ Due(p, o)
      /\ \A k \in Key : meta[at[p]][k] \in {"none", o}
      /\ loc[p].left = PutOrder \/ meta[at[p]]["owner"] = o

(* While they are deleted, all that are there are still to go, and the     *)
(* owner key is last.                                                      *)
Deleting(p) ==
  pc[p] = "delete" /\ at[p] \in Ids =>
    LET left == loc[p].left IN
    /\ left \in Seq(Key) /\ left # << >>
    /\ \A i \in 1..Len(left) : left[i] = "owner" <=> i = Len(left)
    /\ \A k \in Key : meta[at[p]][k] # "none" => k \in ToSet(left)
    /\ \A k \in Key : meta[at[p]][k] \in {"none", meta[at[p]]["owner"]}

Guarded == Kept => Marked /\ \A p \in Proc : Putting(p) /\ Deleting(p)

OInv == Turns /\ Values /\ Guarded

-----------------------------------------------------------------------------
(* Nobody begins to switch but in Begin, or goes on while he awaits        *)
(* the ExecStartPost.                                                      *)
Turn(p) ==
  /\ Switches(p)' => Switches(p) /\ loc'[p].job = loc[p].job
  /\ pc'[Post] # "idle" =>
       /\ service' = "starting" /\ pc'[Post] # "cleared"
       /\ pc[Post] # "idle" \/ Switches(p)
       /\ p # Post /\ Switches(p)' => pc'[p] \in Awaits

(* A disturbance counts.                                                   *)
LEMMA FaultCounts ==
  ASSUME Counts, NEW kind, Fault(kind)
  PROVE  Counts' /\ (Kept' => Kept) /\ (kind \in {"unplug", "claim"} => ~Kept')
  <1>1. kind \in Faults /\ hit' = [hit EXCEPT ![kind] = @ + 1]
    BY DEF Fault
  <1>2. QED BY <1>1 DEF Counts, Kept, Checked

(* Whoever's turn it is, nobody gets in his way.                           *)
LEMMA TurnKeeps ==
  ASSUME Turns, NEW p \in Proc, Moves(p), Turn(p)
  PROVE  (Labelled /\ Alone /\ Posted /\ PostAlone)'
  <1> USE RoutingAssumption DEF Turns, Moves, Turn, Proc
  <1>1. \A u \in Users \ {p} : pc'[u] = pc[u] /\ loc'[u] = loc[u]
    OBVIOUS
  <1>2. \A u \in Users \ {p} : Switches(u)' <=> Switches(u)
    BY <1>1 DEF Switches
  <1>3. Labelled'
    BY <1>1, <1>2 DEF Labelled
  <1>4. Alone'
    BY <1>2 DEF Alone
  <1>5. Posted'
    BY DEF Posted
  <1>6. PostAlone'
    <2> SUFFICES ASSUME NEW u \in Users, Switches(u)', pc'[Post] # "idle" PROVE pc'[u] \in Awaits
      BY DEF PostAlone
    <2>1. CASE u = p
      BY <2>1
    <2>2. CASE u # p
      <3>1. Switches(u)
        BY <1>2, <2>2
      <3>2. pc[Post] # "idle"
        BY <2>2, <3>1 DEF Alone, Switches
      <3>3. QED BY <1>1, <2>2, <3>1, <3>2 DEF PostAlone
    <2>3. QED BY <2>1, <2>2
  <1>7. QED BY <1>3, <1>4, <1>5, <1>6

(* Reconciling is a turn.                                                  *)
LEMMA ReconcileIsTurn ==
  ASSUME Turns, NEW p \in Proc, Reconcile(p)
  PROVE  Turn(p)
  <1> USE RoutingAssumption DEF Turns, IInv, Shape, Rows, Proc, Step, Goto, Outputs, End, CleanUp, Fresh
  <1>1. CASE ReconcileBegin(p)
    BY <1>1 DEF Turn, Posted, PostAlone, Switches, Awaits, MixLabel, unit, ReconcileBegin, NotReconciled
  <1>2. CASE ReconcileWait(p)
    BY <1>2 DEF Turn, Posted, PostAlone, Switches, Awaits, MixLabel, unit, ReconcileWait, Claim, NotReconciled
  <1>3. CASE PutKey(p)
    BY <1>3 DEF Turn, Posted, PostAlone, Switches, Awaits, MixLabel, unit, PutKey
  <1>4. CASE SaveId(p)
    BY <1>4 DEF Turn, Posted, PostAlone, Switches, Awaits, MixLabel, unit, SaveId, NotReconciled
  <1>5. CASE ReadMix(p)
    BY <1>5 DEF Turn, Posted, PostAlone, Switches, Awaits, MixLabel, unit, ReadMix
  <1>6. CASE ApplyMix(p)
    BY <1>6 DEF Turn, Posted, PostAlone, Switches, Awaits, MixLabel, unit, ApplyMix, NotReconciled, Reconciled, Next1
  <1>7. CASE ReconcileFails(p)
    BY <1>7 DEF Turn, Posted, PostAlone, Switches, Awaits, MixLabel, unit, ReconcileFails, NotReconciled
  <1>8. CASE ClaimUnread(p)
    BY <1>8 DEF Turn, Posted, PostAlone, Switches, Awaits, MixLabel, unit, ClaimUnread, Claim, NotReconciled
  <1>9. CASE SavedUnread(p)
    BY <1>9 DEF Turn, Posted, PostAlone, Switches, Awaits, MixLabel, unit, SavedUnread, NotReconciled
  <1>10. QED BY <1>1, <1>2, <1>3, <1>4, <1>5, <1>6, <1>7, <1>8, <1>9 DEF Reconcile

(* So is cleaning up.                                                      *)
LEMMA CleanIsTurn ==
  ASSUME Turns, NEW u \in Users, Clean(u)
  PROVE  Turn(u)
  <1> USE RoutingAssumption DEF Turns, IInv, Shape, Rows, Proc, Step, Goto, Outputs, End, CleanUp, Fresh
  <1>1. CASE Look(u)
    BY <1>1 DEF Turn, Posted, PostAlone, Switches, Awaits, MixLabel, unit, Look
  <1>2. CASE DeleteKey(u)
    BY <1>2 DEF Turn, Posted, PostAlone, Switches, Awaits, MixLabel, unit, DeleteKey
  <1>3. CASE DeleteFails(u)
    BY <1>3 DEF Turn, Posted, PostAlone, Switches, Awaits, MixLabel, unit, DeleteFails
  <1>4. CASE Record(u)
    BY <1>4 DEF Turn, Posted, PostAlone, Switches, Awaits, MixLabel, unit, Record, Next1
  <1>5. CASE StopFilter(u)
    BY <1>5 DEF Turn, Posted, PostAlone, Switches, Awaits, MixLabel, unit, StopFilter, MoveWithPost, StopUnit
  <1>6. CASE StopFails(u)
    BY <1>6 DEF Turn, Posted, PostAlone, Switches, Awaits, MixLabel, unit, StopFails
  <1>7. CASE RemoveConfig(u)
    BY <1>7 DEF Turn, Posted, PostAlone, Switches, Awaits, MixLabel, unit, RemoveConfig
  <1>8. CASE Forget(u)
    BY <1>8 DEF Turn, Posted, PostAlone, Switches, Awaits, MixLabel, unit, Forget
  <1>9. CASE Cleaned(u)
    BY <1>9 DEF Turn, Posted, PostAlone, Switches, Awaits, MixLabel, unit, Cleaned, BackFromCleanUp
  <1>10. CASE LookUnread(u)
    <2>1. PICK sv, result : loc' = [loc EXCEPT ![u].sv = sv, ![u].result = result]
      BY <1>10, Zenon DEF LookUnread
    <2>2. pc[u] = "look" /\ pc' = [pc EXCEPT ![u] = "record"] /\ UNCHANGED <<unit, at, todo>>
      BY <1>10 DEF LookUnread
    <2>3. QED BY <2>1, <2>2 DEF Turn, Posted, PostAlone, Switches, Awaits, MixLabel, unit
  <1>11. CASE DeleteUnread(u)
    BY <1>11 DEF Turn, Posted, PostAlone, Switches, Awaits, MixLabel, unit, DeleteUnread
  <1>12. QED BY <1>1, <1>2, <1>3, <1>4, <1>5, <1>6, <1>7, <1>8, <1>9, <1>10, <1>11 DEF Clean

(* And switching on.                                                       *)
LEMMA OnIsTurn ==
  ASSUME Turns, NEW u \in Users, On(u)
  PROVE  Turn(u)
  <1> USE RoutingAssumption DEF Turns, IInv, Shape, Rows, Proc, Step, Goto, Outputs, End, CleanUp, Fresh
  <1>1. CASE TurnOn(u)
    BY <1>1 DEF Turn, Posted, PostAlone, Switches, Awaits, MixLabel, unit, TurnOn, SwitchOn
  <1>2. CASE Reenable(u)
    BY <1>2 DEF Turn, Posted, PostAlone, Switches, Awaits, MixLabel, unit, Reenable
  <1>3. CASE WriteConfig(u)
    BY <1>3 DEF Turn, Posted, PostAlone, Switches, Awaits, MixLabel, unit, WriteConfig
  <1>4. CASE SaveMode(u)
    BY <1>4 DEF Turn, Posted, PostAlone, Switches, Awaits, MixLabel, unit, SaveMode
  <1>5. CASE EnableFilter(u)
    BY <1>5 DEF Turn, Posted, PostAlone, Switches, Awaits, MixLabel, unit, EnableFilter, Launch, MoveWithPost, StartUnit
  <1>6. CASE Started(u)
    BY <1>6 DEF Turn, Posted, PostAlone, Switches, Awaits, MixLabel, unit, Started
  <1>7. CASE Verify(u)
    BY <1>7 DEF Turn, Posted, PostAlone, Switches, Awaits, MixLabel, unit, Verify
  <1>8. CASE OnFails(u)
    <2>1. /\ UNCHANGED service /\ Switches(u) /\ pc[u] \notin Awaits
          /\ pc' = [pc EXCEPT ![u] = "look"] \/ pc' = [pc EXCEPT ![u] = "idle"]
          /\ loc'[u].job = loc[u].job \/ pc'[u] = "idle"
      BY <1>8 DEF OnFails, unit, Switches, Awaits, MixLabel
    <2>2. QED BY <2>1 DEF Turn, Posted, PostAlone, Switches
  <1>9. CASE OnUnread(u)
    BY <1>9 DEF Turn, Posted, PostAlone, Switches, Awaits, MixLabel, unit, OnUnread, SwitchOn
  <1>10. QED BY <1>1, <1>2, <1>3, <1>4, <1>5, <1>6, <1>7, <1>8, <1>9 DEF On

(* A mix command does not switch.                                          *)
LEMMA MixIsTurn ==
  ASSUME Turns, NEW u \in Users, Mix(u)
  PROVE  Turn(u)
  <1> USE RoutingAssumption DEF Turns, IInv, Shape, Rows, Proc, Step, Goto, Outputs, End, CleanUp, Fresh
  <1>1. CASE Lock(u)
    BY <1>1 DEF Turn, Posted, PostAlone, Switches, Awaits, MixLabel, unit, Lock
  <1>2. CASE MixRead(u)
    BY <1>2 DEF Turn, Posted, PostAlone, Switches, Awaits, MixLabel, unit, MixRead
  <1>3. CASE MixConfig(u)
    BY <1>3 DEF Turn, Posted, PostAlone, Switches, Awaits, MixLabel, unit, MixConfig
  <1>4. CASE MixLive(u)
    BY <1>4 DEF Turn, Posted, PostAlone, Switches, Awaits, MixLabel, unit, MixLive, PutBack, Next1
  <1>5. CASE MixUndo(u)
    BY <1>5 DEF Turn, Posted, PostAlone, Switches, Awaits, MixLabel, unit, MixUndo
  <1>6. CASE MixRelive(u)
    BY <1>6 DEF Turn, Posted, PostAlone, Switches, Awaits, MixLabel, unit, MixRelive, Next1
  <1>7. CASE MixSave(u)
    BY <1>7 DEF Turn, Posted, PostAlone, Switches, Awaits, MixLabel, unit, MixSave
  <1>8. CASE MixFails(u)
    BY <1>8 DEF Turn, Posted, PostAlone, Switches, Awaits, MixLabel, unit, MixFails, PutBack, Next1
  <1>9. QED BY <1>1, <1>2, <1>3, <1>4, <1>5, <1>6, <1>7, <1>8 DEF Mix

(* The oneshot waits for the unit as well.                                 *)
LEMMA OneshotIsTurn ==
  ASSUME Turns, NEW u \in Users, Oneshot(u)
  PROVE  Turn(u)
  <1> USE RoutingAssumption DEF Turns, IInv, Shape, Rows, Proc, Step, Goto, Outputs, End, CleanUp, Fresh
  <1>1. CASE Restore(u)
    BY <1>1 DEF Turn, Posted, PostAlone, Switches, Awaits, MixLabel, unit, Restore
  <1>2. CASE Try(u)
    BY <1>2 DEF Turn, Posted, PostAlone, Switches, Awaits, MixLabel, unit, Try
  <1>3. CASE Revive(u)
    BY <1>3 DEF Turn, Posted, PostAlone, Switches, Awaits, MixLabel, unit, Revive, Launch, MoveWithPost, StartUnit
  <1>4. CASE Revived(u)
    BY <1>4 DEF Turn, Posted, PostAlone, Switches, Awaits, MixLabel, unit, Revived
  <1>5. CASE ReviveFails(u)
    BY <1>5 DEF Turn, Posted, PostAlone, Switches, Awaits, MixLabel, unit, ReviveFails
  <1>6. CASE Again(u)
    BY <1>6 DEF Turn, Posted, PostAlone, Switches, Awaits, MixLabel, unit, Again
  <1>7. QED BY <1>1, <1>2, <1>3, <1>4, <1>5, <1>6 DEF Oneshot

(* `off` begins to clean up, or has nothing to do.                         *)
LEMMA TurnOffIsTurn ==
  ASSUME Turns, NEW u \in Users, TurnOff(u)
  PROVE  Turn(u)
  <1> USE RoutingAssumption DEF Turns, IInv, Shape, Rows, Proc, TurnOff, Step, Goto, Outputs, End, CleanUp, Fresh
  <1>1. QED BY DEF Turn, Posted, PostAlone, Switches, Awaits, MixLabel, unit

(* Who is killed does not switch any more.                                 *)
LEMMA KillIsTurn ==
  ASSUME Turns, NEW u \in Users, Kill(u)
  PROVE  Turn(u)
  <1> USE RoutingAssumption DEF Turns, IInv, Shape, Rows, Proc, Kill, Goto, End, Fresh
  <1>1. QED BY DEF Turn, Posted, PostAlone, Switches, Awaits, MixLabel, unit

(* A command begins to switch when nobody else does.                       *)
LEMMA BeginKeeps ==
  ASSUME OneAfterAnother, Turns, NEW u \in Users, Begin(u)
  PROVE  (Labelled /\ Alone /\ Posted /\ PostAlone)'
  <1> USE RoutingAssumption DEF Turns, IInv, Shape, Rows, Proc
  <1>1. PICK j \in Jobs :
          /\ \A p \in Proc \ {u} : Running(p) => {j.command, Command(p)} \in Overlap
          /\ loc' = [loc EXCEPT ![u].job = j]
          /\ pc' = [pc EXCEPT ![u] = j.command]
    BY DEF Begin, Goto
  <1>2. UNCHANGED <<unit, at, todo>>
    BY DEF Begin
  <1>4. \A v \in Proc \ {u} : pc'[v] = pc[v] /\ loc'[v] = loc[v]
    BY <1>1
  <1>5. pc'[u] = j.command /\ loc'[u].job = j /\ j.command \in Commands
    BY <1>1
  <1>6. Switches(u)' => j.command \in SwitchCommands
    BY <1>5 DEF Switches, Commands, SwitchCommands
  <1>7. \A v \in Users \ {u} : Switches(v)' <=> Switches(v)
    BY <1>4 DEF Switches
  <1>8. Switches(u)' => \A v \in Users \ {u} : ~Switches(v)
    <2> SUFFICES ASSUME NEW v \in Users \ {u}, Switches(u)', Switches(v) PROVE FALSE
      OBVIOUS
    <2>1. Running(v) /\ Command(v) \in SwitchCommands
      BY DEF Running, Command, Switches, Labelled
    <2>2. QED BY <1>1, <1>6, <2>1 DEF OneAfterAnother
  <1>9. Switches(u)' => pc[Post] = "idle"
    <2> SUFFICES ASSUME Switches(u)', pc[Post] # "idle" PROVE FALSE
      OBVIOUS
    <2>1. Running(Post) /\ Command(Post) = "post"
      BY DEF Running, Command, Posted
    <2>2. QED BY <1>1, <1>6, <2>1 DEF OneAfterAnother
  <1>10. Labelled'
    BY <1>4, <1>5, <1>6, <1>7 DEF Labelled
  <1>11. Alone'
    BY <1>7, <1>8 DEF Alone
  <1>12. Posted'
    BY <1>2, <1>4 DEF Posted, unit
  <1>13. PostAlone'
    BY <1>4, <1>7, <1>9 DEF PostAlone
  <1>14. QED BY <1>10, <1>11, <1>12, <1>13

(* So does WirePlumber start again.                                        *)
LEMMA EnvironmentTurns ==
  ASSUME OneAfterAnother, Turns, Environment
  PROVE  (Rows /\ Labelled /\ Alone /\ Posted /\ PostAlone)'
  <1> USE RoutingAssumption DEF Turns, IInv, Shape, Rows, Proc
  <1>1. CASE Unplug \/ Plug
    <2>1. UNCHANGED <<unit, local>>
      BY <1>1 DEF Unplug, Plug
    <2>2. QED BY <2>1 DEF unit, local, Labelled, Alone, Posted, PostAlone, Switches
  <1>2. CASE RestartWirePlumber
    <2>1. \A u \in Users : ~Switches(u)
      BY <1>2 DEF RestartWirePlumber, Running, Switches, Labelled, OneAfterAnother
    <2>2. \A u \in Users : pc'[u] = pc[u]
      BY <1>2 DEF RestartWirePlumber, local
    <2>3. \A u \in Users : ~Switches(u)'
      BY <2>1, <2>2 DEF Switches
    <2>4. Rows'
      BY <1>2 DEF RestartWirePlumber, local, Fresh
    <2>5. Posted'
      BY <1>2 DEF RestartWirePlumber, StartUnit, local, Posted
    <2>6. QED BY <2>3, <2>4, <2>5 DEF Labelled, Alone, PostAlone
  <1>3. QED BY <1>1, <1>2 DEF Environment

(* Every step is a turn of a process, a beginning, or the environment's.   *)
LEMMA TurnsKeep ==
  ASSUME OneAfterAnother, Turns, Next
  PROVE  Turns' /\ (Kept' => Kept)
  <1>2. Counts' /\ (Kept' => Kept)
    <2>1. Well => Counts' /\ (Kept' => Kept)
      BY DEF Well, Turns, Counts, Kept, Checked
    <2>2. QED BY <2>1, WellOrFault, FaultCounts DEF Turns
  <1>3. IInv'
    BY NextKeeps DEF Turns
  <1>4. (Rows /\ Labelled /\ Alone /\ Posted /\ PostAlone)'
    <2>1. ASSUME NEW p \in Proc, Moves(p), Turn(p) PROVE (Rows /\ Labelled /\ Alone /\ Posted /\ PostAlone)'
      BY <2>1, TurnKeeps DEF Moves
    <2>2. ASSUME NEW p \in Proc, Reconcile(p) PROVE Moves(p) /\ Turn(p)
      BY <2>2, ReconcileMoves, ReconcileIsTurn DEF Turns, IInv
    <2>3. ASSUME NEW u \in Users, TurnOff(u) \/ Clean(u) \/ On(u) \/ Mix(u) \/ Oneshot(u) \/ Kill(u)
          PROVE  Moves(u) /\ Turn(u)
      BY <2>3, UserMoves, TurnOffIsTurn, CleanIsTurn, OnIsTurn, MixIsTurn, OneshotIsTurn, KillIsTurn DEF Turns, IInv
    <2>4. Users \subseteq Proc
      BY DEF Proc
    <2>5. ASSUME NEW u \in Users, Begin(u) PROVE (Rows /\ Labelled /\ Alone /\ Posted /\ PostAlone)'
      BY <2>5, BeginKeeps, UserMoves DEF Moves, Turns, IInv
    <2>6. Environment => (Rows /\ Labelled /\ Alone /\ Posted /\ PostAlone)'
      BY EnvironmentTurns
    <2>7. QED BY <2>1, <2>2, <2>3, <2>4, <2>5, <2>6, Zenon DEF Next
  <1>5. QED BY <1>2, <1>3, <1>4 DEF Turns

-----------------------------------------------------------------------------
(* The metadata.                                                           *)

(* One process at a time is about to change metadata.                      *)
LEMMA OneAtAKey ==
  ASSUME Turns, NEW p \in Proc, NEW q \in Proc, pc[p] \in KeyLabel, pc[q] \in KeyLabel
  PROVE  p = q
  <1>1. \A r \in Proc : pc[r] \in KeyLabel => Switches(r) /\ pc[r] \notin Awaits /\ pc[r] # "idle"
    BY DEF KeyLabel, Switches, Awaits, MixLabel
  <1>2. QED BY <1>1 DEF Turns, Alone, PostAlone, Proc

(* A step that leaves the metadata alone, and is not to change any next.   *)
LEMMA SteadyKeeps ==
  ASSUME Guarded, NEW p \in Proc, Moves(p), meta' = meta, pc'[p] \notin KeyLabel, Kept' => Kept
  PROVE  Guarded'
  <1> SUFFICES ASSUME Kept' PROVE Marked' /\ \A q \in Proc : (Putting(q) /\ Deleting(q))'
    BY DEF Guarded
  <1>1. Marked /\ \A q \in Proc : Putting(q) /\ Deleting(q)
    BY DEF Guarded
  <1>2. Marked'
    BY <1>1 DEF Marked
  <1>3. ASSUME NEW q \in Proc PROVE (Putting(q) /\ Deleting(q))'
    <2>1. CASE pc'[q] \notin KeyLabel
      BY <2>1 DEF Putting, Deleting, KeyLabel
    <2>2. CASE pc'[q] \in KeyLabel
      <3>1. pc'[q] = pc[q] /\ at'[q] = at[q] /\ todo'[q] = todo[q] /\ loc'[q] = loc[q]
        BY <2>2 DEF Moves, KeyLabel
      <3>2. QED BY <1>1, <3>1 DEF Putting, Deleting, Due
    <2>3. QED BY <2>1, <2>2
  <1>4. QED BY <1>2, <1>3

(* A step of the only process that is about to change metadata.            *)
LEMMA OwnTurn ==
  ASSUME Turns, NEW p \in Proc, Moves(p), pc[p] \in KeyLabel,
         Kept' => Marked' /\ Putting(p)' /\ Deleting(p)'
  PROVE  Guarded'
  <1> SUFFICES ASSUME NEW q \in Proc \ {p} PROVE Putting(q)' /\ Deleting(q)'
    BY DEF Guarded
  <1>1. pc[q] \notin KeyLabel
    BY OneAtAKey
  <1>2. pc'[q] \notin KeyLabel
    BY <1>1 DEF Moves, KeyLabel
  <1>3. QED BY <1>2 DEF Putting, Deleting, KeyLabel

(* The order in which keys are put and deleted.                            *)
LEMMA Orders ==
  /\ PutOrder \in Seq(Key) /\ PutOrder # << >> /\ Head(PutOrder) = "owner"
  /\ DeleteOrder \in Seq(Key) /\ DeleteOrder # << >>
  /\ \A i \in 1..Len(DeleteOrder) : DeleteOrder[i] = "owner" <=> i = Len(DeleteOrder)
  /\ \A k \in Key : k \in ToSet(DeleteOrder)
  <1> USE RoutingAssumption, InputsTyped
  <1>1. Plain \in Seq(Key) /\ "owner" \in Key
    BY DEF Key
  <1>2. <<"owner">> \in Seq(Key) /\ Len(<<"owner">>) = 1 /\ <<"owner">>[1] = "owner"
    BY <1>1
  <1>3. PutOrder \in Seq(Key) /\ Len(PutOrder) = 1 + Len(Plain) /\ PutOrder[1] = "owner"
    BY <1>1, <1>2, ConcatProperties DEF PutOrder
  <1>4. /\ DeleteOrder \in Seq(Key) /\ Len(DeleteOrder) = Len(Plain) + 1
        /\ \A i \in 1..Len(Plain) : DeleteOrder[i] = Plain[i]
        /\ DeleteOrder[Len(Plain) + 1] = "owner"
    BY <1>1, AppendProperties DEF DeleteOrder
  <1>5. \A i \in 1..Len(Plain) : Plain[i] # "owner"
    BY DEF ToSet
  <1>6. \A i \in 1..Len(DeleteOrder) : DeleteOrder[i] = "owner" <=> i = Len(DeleteOrder)
    BY <1>1, <1>4, <1>5
  <1>7. ASSUME NEW k \in Key PROVE k \in ToSet(DeleteOrder)
    <2>1. CASE k = "owner"
      BY <1>1, <1>4, <2>1 DEF ToSet
    <2>2. CASE k # "owner"
      <3>1. PICK i \in 1..Len(Plain) : Plain[i] = k
        BY <2>2 DEF Key, ToSet
      <3>2. QED BY <1>1, <1>4, <3>1 DEF ToSet
    <2>3. QED BY <2>1, <2>2
  <1>8. PutOrder # << >> /\ Head(PutOrder) = "owner" /\ DeleteOrder # << >>
    BY <1>1, <1>3, <1>4
  <1>9. QED BY <1>3, <1>4, <1>6, <1>7, <1>8

(* What is put next is the owner key, and nothing but that output's keys   *)
(* is there.                                                               *)
LEMMA WaitGuards ==
  ASSUME OInv, NEW p \in Proc, ReconcileWait(p) \/ ClaimUnread(p), Moves(p), Kept' => Kept
  PROVE  Guarded'
  <1> USE RoutingAssumption DEF OInv, Turns, IInv, Shape, Rows
  <1>1. meta' = meta
    BY DEF ReconcileWait, ClaimUnread, pipewire
  <1>2. CASE pc'[p] \notin KeyLabel
    BY <1>1, <1>2, SteadyKeeps
  <1>a. CASE ClaimUnread(p)
    <2>1. ~Kept'
      BY <1>a, FaultCounts DEF ClaimUnread
    <2>2. QED BY <2>1 DEF Guarded
  <1>3. CASE ReconcileWait(p) /\ pc'[p] \in KeyLabel
    <2>1. PICK o \in Output :
            /\ Due(p, o) /\ Claimable(o, sink[o]) /\ todo' = todo
            /\ at' = [at EXCEPT ![p] = sink[o]] /\ loc' = [loc EXCEPT ![p].left = PutOrder]
            /\ pc' = [pc EXCEPT ![p] = "r_key"]
      BY <1>3 DEF ReconcileWait, Claim, NotReconciled, End, CleanUp, Goto, KeyLabel, Step
    <2> SUFFICES ASSUME Kept' PROVE Marked' /\ \A q \in Proc : (Putting(q) /\ Deleting(q))'
      BY DEF Guarded
    <2>2. ForeignAlone /\ Marked /\ \A q \in Proc : Putting(q) /\ Deleting(q)
      BY DEF Guarded, Kept
    <2>3. Marked'
      BY <1>1, <2>2 DEF Marked
    <2>4. ASSUME NEW q \in Proc \ {p} PROVE (Putting(q) /\ Deleting(q))'
      <3>1. pc'[q] = pc[q] /\ at'[q] = at[q] /\ todo'[q] = todo[q] /\ loc'[q] = loc[q]
        BY <2>1
      <3>2. QED BY <1>1, <2>2, <3>1 DEF Putting, Deleting, Due
    <2>5. Deleting(p)'
      BY <2>1 DEF Deleting
    <2>6. sink[o] \in Ids => \A k \in Key : meta[sink[o]][k] \in {"none", o}
      <3> SUFFICES ASSUME sink[o] \in Ids, NEW k \in Key, meta[sink[o]][k] # "none"
                   PROVE  meta[sink[o]][k] = o
        OBVIOUS
      <3>1. meta[sink[o]]["owner"] = o
        BY <2>1 DEF Claimable, HasKeys, IsOurs
      <3>2. meta[sink[o]][k] # "foreign"
        BY <2>2, <3>1 DEF ForeignAlone, Output
      <3>3. meta[sink[o]][k] \in Output
        BY <3>2 DEF Values
      <3>4. QED BY <2>2, <3>1, <3>3 DEF Marked
    <2>7. Putting(p)'
      <3>1. at'[p] = sink[o] /\ loc'[p].left = PutOrder /\ Due(p, o)'
        BY <2>1 DEF Due
      <3>2. QED BY <1>1, <2>6, <3>1 DEF Putting
    <2>8. QED BY <2>3, <2>4, <2>5, <2>7
  <1>4. QED BY <1>2, <1>3, <1>a

(* A key is put beside the owner key, or is the owner key.                 *)
LEMMA PutGuards ==
  ASSUME OInv, NEW p \in Proc, PutKey(p), Moves(p), Kept' => Kept
  PROVE  Guarded' /\ Values'
  <1> USE RoutingAssumption DEF OInv, Turns, IInv, Shape, Rows
  <1>1. PICK o \in Output : Due(p, o) /\ meta' = [meta EXCEPT ![at[p]][Head(loc[p].left)] = o]
    BY DEF PutKey
  <1>2. /\ loc'[p].left = Tail(loc[p].left) /\ UNCHANGED <<at, todo>>
        /\ pc[p] = "r_key" /\ pc'[p] \in {"r_key", "r_save"}
    BY DEF PutKey, Step, Goto
  <1>3. \A i \in Ids, k \in Key : meta'[i][k] \in {meta[i][k], o} /\ (i # at[p] => meta'[i][k] = meta[i][k])
    BY <1>1
  <1>4. Values'
    BY <1>3 DEF Values
  <1>5. ASSUME Kept' PROVE Marked' /\ Putting(p)' /\ Deleting(p)'
    <2>1. Marked /\ Putting(p)
      BY <1>5 DEF Guarded
    <2>2. CASE at[p] \in Ids
      <3>1. /\ \A k \in Key : meta[at[p]][k] \in {"none", o}
            /\ loc[p].left = PutOrder \/ meta[at[p]]["owner"] = o
        BY <1>1, <1>2, <2>1, <2>2 DEF Putting, Due
      <3>2. meta'[at[p]]["owner"] = o
        <4>1. "owner" \in Key
          BY DEF Key
        <4>2. CASE loc[p].left = PutOrder
          BY <1>1, <2>2, <4>1, <4>2, Orders
        <4>3. CASE meta[at[p]]["owner"] = o
          BY <1>3, <2>2, <4>1, <4>3
        <4>4. QED BY <3>1, <4>2, <4>3
      <3>3. \A k \in Key : meta'[at[p]][k] \in {"none", o}
        BY <1>3, <2>2, <3>1
      <3>4. Marked'
        <4>1. "owner" \in Key /\ "none" \notin Output
          BY DEF Key, Output
        <4>2. QED BY <1>3, <2>1, <3>2, <3>3, <4>1 DEF Marked
      <3>5. Putting(p)'
        BY <1>1, <1>2, <3>2, <3>3 DEF Putting, Due
      <3>6. QED BY <1>2, <3>4, <3>5 DEF Deleting
    <2>3. CASE at[p] \notin Ids
      <3>1. \A i \in Ids, k \in Key : meta'[i][k] = meta[i][k]
        BY <1>3, <2>3
      <3>2. "owner" \in Key
        BY DEF Key
      <3>3. QED BY <1>2, <2>1, <2>3, <3>1, <3>2 DEF Marked, Putting, Deleting
    <2>4. QED BY <2>2, <2>3
  <1>6. Guarded'
    BY <1>2, <1>5, OwnTurn DEF KeyLabel
  <1>7. QED BY <1>4, <1>6

(* Keys are deleted from a node whose owner key is ours.                   *)
LEMMA LookGuards ==
  ASSUME OInv, NEW u \in Users, Look(u), Moves(u), Kept' => Kept
  PROVE  Guarded'
  <1> USE RoutingAssumption DEF OInv, Turns, IInv, Shape, Rows, Proc
  <1>1. meta' = meta
    BY DEF Look, pipewire
  <1>2. CASE pc'[u] \notin KeyLabel
    BY <1>1, <1>2, SteadyKeeps
  <1>3. CASE pc'[u] \in KeyLabel
    <2>1. PICK o, sv :
            /\ o \in Output /\ IsOurs(o, sink[o]) /\ todo' = todo
            /\ at' = [at EXCEPT ![u] = sink[o]]
            /\ loc' = [loc EXCEPT ![u].sv = sv, ![u].left = DeleteOrder]
            /\ pc' = [pc EXCEPT ![u] = "delete"]
      BY <1>3 DEF Look, Goto, KeyLabel, Step
    <2> SUFFICES ASSUME Kept' PROVE Marked' /\ \A q \in Proc : (Putting(q) /\ Deleting(q))'
      BY DEF Guarded
    <2>2. ForeignAlone /\ Marked /\ \A q \in Proc : Putting(q) /\ Deleting(q)
      BY DEF Guarded, Kept
    <2>3. Marked'
      BY <1>1, <2>2 DEF Marked
    <2>4. ASSUME NEW q \in Proc \ {u} PROVE (Putting(q) /\ Deleting(q))'
      <3>1. pc'[q] = pc[q] /\ at'[q] = at[q] /\ todo'[q] = todo[q] /\ loc'[q] = loc[q]
        BY <2>1
      <3>2. QED BY <1>1, <2>2, <3>1 DEF Putting, Deleting, Due
    <2>5. Putting(u)'
      BY <2>1 DEF Putting
    <2>6. sink[o] \in Ids => \A k \in Key : meta[sink[o]][k] \in {"none", o}
      <3> SUFFICES ASSUME sink[o] \in Ids, NEW k \in Key, meta[sink[o]][k] # "none"
                   PROVE  meta[sink[o]][k] = o
        OBVIOUS
      <3>1. meta[sink[o]]["owner"] = o
        BY <2>1 DEF IsOurs
      <3>a. o # "none"
        BY <2>1 DEF Output
      <3>2. meta[sink[o]][k] # "foreign"
        BY <2>2, <3>1, <3>a DEF ForeignAlone
      <3>3. meta[sink[o]][k] \in Output
        BY <3>2 DEF Values
      <3>4. QED BY <2>2, <3>1, <3>3 DEF Marked
    <2>7. Deleting(u)'
      <3>1. at'[u] = sink[o] /\ loc'[u].left = DeleteOrder
        BY <2>1
      <3>2. meta[sink[o]]["owner"] = o
        BY <2>1 DEF IsOurs
      <3>3. QED BY <1>1, <2>6, <3>1, <3>2, Orders DEF Deleting
    <2>8. QED BY <2>3, <2>4, <2>5, <2>7
  <1>4. QED BY <1>2, <1>3

(* The owner key is deleted when nothing else is left.                     *)
LEMMA DeleteGuards ==
  ASSUME OInv, NEW u \in Users, DeleteKey(u) \/ DeleteUnread(u), Moves(u), Kept' => Kept
  PROVE  Guarded' /\ Values'
  <1> USE RoutingAssumption DEF OInv, Turns, IInv, Shape, Rows, Proc
  <1> DEFINE left == loc[u].left
  <1>1. /\ meta' = [meta EXCEPT ![at[u]][Head(left)] = "none"] /\ UNCHANGED <<at, todo>>
        /\ pc[u] = "delete" /\ pc'[u] = IF Len(left) = 1 THEN "record" ELSE "delete"
        /\ loc'[u].left = Tail(left)
    <2>1. CASE DeleteKey(u)
      BY <2>1 DEF DeleteKey, Step, Goto
    <2>2. CASE DeleteUnread(u)
      BY <2>2 DEF DeleteUnread, Step, Goto
    <2>3. QED BY <2>1, <2>2
  <1>2. \A i \in Ids, k \in Key : /\ meta'[i][k] \in {meta[i][k], "none"}
                                  /\ i # at[u] \/ k # Head(left) => meta'[i][k] = meta[i][k]
                                  /\ i = at[u] /\ k = Head(left) => meta'[i][k] = "none"
    BY <1>1
  <1>3. Values'
    BY <1>2 DEF Values
  <1>4. "owner" \in Key /\ "none" \notin Output
    BY DEF Key, Output
  <1>5. ASSUME Kept' PROVE Marked' /\ Putting(u)' /\ Deleting(u)'
    <2>1. Marked /\ Deleting(u)
      BY <1>5 DEF Guarded
    <2>2. Putting(u)'
      BY <1>1 DEF Putting
    <2>3. CASE at[u] \notin Ids
      <3>1. \A i \in Ids, k \in Key : meta'[i][k] = meta[i][k]
        BY <1>2, <2>3
      <3>2. QED BY <1>1, <1>4, <2>1, <2>2, <2>3, <3>1 DEF Marked, Deleting
    <2>4. CASE at[u] \in Ids
      <3>1. /\ left \in Seq(Key) /\ left # << >>
            /\ \A i \in 1..Len(left) : left[i] = "owner" <=> i = Len(left)
            /\ \A k \in Key : meta[at[u]][k] # "none" => k \in ToSet(left)
            /\ \A k \in Key : meta[at[u]][k] \in {"none", meta[at[u]]["owner"]}
        BY <1>1, <2>1, <2>4 DEF Deleting
      <3> HIDE DEF left
      <3>2. /\ Len(left) \in Nat /\ Len(left) >= 1 /\ Head(left) = left[1]
            /\ Tail(left) \in Seq(Key) /\ Len(Tail(left)) = Len(left) - 1
            /\ \A i \in 1..(Len(left) - 1) : Tail(left)[i] = left[i + 1]
        BY <3>1, HeadTailProperties, EmptySeq
      <3>3. CASE Len(left) = 1
        <4>1. ToSet(left) = {"owner"} /\ Head(left) = "owner"
          BY <3>1, <3>2, <3>3 DEF ToSet
        <4>2. \A k \in Key : meta'[at[u]][k] = "none"
          BY <1>2, <2>4, <3>1, <4>1
        <4>3. Marked'
          BY <1>2, <1>4, <2>1, <4>2 DEF Marked
        <4>4. QED BY <1>1, <2>2, <3>3, <4>3 DEF Deleting, left
      <3>4. CASE Len(left) # 1
        <4> DEFINE n == Len(left)
        <4>a. n \in Nat /\ n > 1 /\ 1 \in 1..n /\ 1 # n
          BY <3>2, <3>4
        <4>1. Head(left) # "owner"
          BY <3>1, <3>2, <4>a, Zenon
        <4>2. meta'[at[u]]["owner"] = meta[at[u]]["owner"]
          BY <1>2, <1>4, <2>4, <4>1
        <4>3. \A k \in Key : meta'[at[u]][k] \in {"none", meta'[at[u]]["owner"]}
          BY <1>2, <2>4, <3>1, <4>2
        <4>4. ASSUME NEW k \in Key, meta'[at[u]][k] # "none" PROVE k \in ToSet(Tail(left))
          <5>1. k # Head(left) /\ meta[at[u]][k] # "none"
            BY <1>2, <2>4, <4>4
          <5>2. PICK i \in 1..Len(left) : left[i] = k
            BY <3>1, <5>1 DEF ToSet
          <5>a. i # 1
            BY <3>2, <5>1, <5>2, Zenon
          <5>b. i - 1 \in 1..(Len(left) - 1) /\ (i - 1) + 1 = i
            BY <3>2, <5>a
          <5>3. i - 1 \in 1..Len(Tail(left)) /\ Tail(left)[i - 1] = k
            BY <3>2, <5>2, <5>b, Zenon
          <5>4. DOMAIN Tail(left) = 1..Len(Tail(left))
            BY <3>2, LenProperties
          <5>5. QED BY <5>3, <5>4, Zenon DEF ToSet
        <4>5. Tail(left) # << >> /\ \A i \in 1..Len(Tail(left)) : Tail(left)[i] = "owner" <=> i = Len(Tail(left))
          <5>1. \A i \in 1..(n - 1) : i + 1 \in 1..n /\ (i + 1 = n <=> i = n - 1)
            BY <4>a
          <5>2. \A i \in 1..(n - 1) : Tail(left)[i] = "owner" <=> i + 1 = n
            BY <3>1, <3>2, <5>1, Zenon
          <5>3. \A i \in 1..(n - 1) : Tail(left)[i] = "owner" <=> i = n - 1
            BY <5>1, <5>2, Zenon
          <5>4. Tail(left) # << >>
            <6>1. Len(Tail(left)) # 0
              BY <3>2, <4>a
            <6>2. QED BY <6>1, EmptySeq
          <5>5. QED BY <3>2, <5>3, <5>4, Zenon
        <4>6. Marked'
          BY <1>2, <1>4, <2>1, <4>3 DEF Marked
        <4>7. Deleting(u)'
          BY <1>1, <3>2, <4>3, <4>4, <4>5 DEF Deleting, left
        <4>8. QED BY <2>2, <4>6, <4>7
      <3>5. QED BY <3>3, <3>4
    <2>5. QED BY <2>3, <2>4
  <1>6. Guarded'
    BY <1>1, <1>5, OwnTurn DEF KeyLabel
  <1>7. QED BY <1>3, <1>6

(* The environment takes metadata of whole nodes away.                     *)
LEMMA EnvironmentGuards ==
  ASSUME OneAfterAnother, OInv, Environment, Kept' => Kept
  PROVE  Guarded' /\ Values'
  <1> USE RoutingAssumption DEF OInv, Turns, IInv, Shape, Rows, Proc
  <1>1. CASE Unplug \/ Plug
    <2>1. UNCHANGED local
      BY <1>1 DEF Unplug, Plug
    <2>2. (Unplug /\ Fault("unplug")) \/ meta' = meta
      BY <1>1 DEF Unplug, Plug
    <2>3. CASE Unplug /\ Fault("unplug")
      <3>1. ~Kept'
        BY <2>3, FaultCounts
      <3>2. \A i \in Ids, k \in Key : meta'[i][k] \in {meta[i][k], "none"}
        BY <2>3 DEF Unplug, NoKeys
      <3>3. QED BY <3>1, <3>2 DEF Guarded, Values
    <2>4. CASE meta' = meta
      BY <2>1, <2>4 DEF local, Guarded, Marked, Putting, Deleting, Due, Values
    <2>5. QED BY <2>2, <2>3, <2>4
  <1>2. CASE RestartWirePlumber
    <2>1. \A i \in Ids, k \in Key : meta'[i][k] = "none"
      BY <1>2 DEF RestartWirePlumber, NoKeys
    <2>2. \A u \in Users : ~Switches(u) /\ pc'[u] = pc[u]
      BY <1>2 DEF RestartWirePlumber, Running, Switches, Labelled, OneAfterAnother, local
    <2>3. \A u \in Users : pc'[u] \notin KeyLabel
      BY <2>2 DEF Switches, KeyLabel, MixLabel
    <2>4. pc'[Post] \in {"idle", "r_begin"}
      BY <1>2 DEF RestartWirePlumber, StartUnit, local, Posted
    <2>5. \A p \in Proc : pc'[p] \notin KeyLabel
      BY <2>3, <2>4 DEF KeyLabel
    <2>6. Marked' /\ Values'
      BY <2>1 DEF Marked, Values, Output
    <2>7. QED BY <2>5, <2>6 DEF Guarded, Putting, Deleting, KeyLabel
  <1>3. QED BY <1>1, <1>2 DEF Environment

(* At the start nothing runs, and keys are complete or not ours.           *)
LEMMA InitOurs == Init => OInv
  <1> SUFFICES ASSUME Init PROVE OInv
    OBVIOUS
  <1> USE RoutingAssumption
  <1>1. /\ pc = [p \in Proc |-> "idle"] /\ todo = [p \in Proc |-> << >>] /\ loc = [p \in Proc |-> Fresh]
        /\ hit = [f \in Faults |-> 0]
    BY DEF Init
  <1>2. ASSUME NEW i \in Ids
        PROVE  meta[i] = NoKeys \/ \E o \in Output \cup {"foreign"} : meta[i] = KeysOf(o)
    <2>1. CASE InitOff
      BY <2>1 DEF InitOff, Output
    <2>2. CASE InitOn
      <3>1. ASSUME \E o \in Output : Home[o] = i PROVE (CHOOSE o \in Output : Home[o] = i) \in Output
        BY <3>1
      <3>2. QED BY <2>2, <3>1 DEF InitOn
    <2>3. QED BY <2>1, <2>2 DEF Init
  <1>3. "owner" \in Key
    BY DEF Key
  <1>4. ASSUME NEW i \in Ids, NEW k \in Key
        PROVE  /\ meta[i][k] \in Output \cup {"none", "foreign"}
               /\ meta[i][k] \in Output => meta[i]["owner"] = meta[i][k]
    <2>1. CASE meta[i] = NoKeys
      <3>1. meta[i][k] = "none"
        BY <2>1 DEF NoKeys
      <3>2. QED BY <3>1 DEF Output
    <2>2. ASSUME NEW o \in Output \cup {"foreign"}, meta[i] = KeysOf(o)
          PROVE  /\ meta[i][k] \in Output \cup {"none", "foreign"}
                 /\ meta[i][k] \in Output => meta[i]["owner"] = meta[i][k]
      <3>1. CASE o = "foreign"
        BY <1>3, <2>2, <3>1 DEF KeysOf, Output
      <3>2. CASE o # "foreign"
        <4>1. o \in Output /\ meta[i][k] = o /\ meta[i]["owner"] = o
          BY <1>3, <2>2, <3>2 DEF KeysOf
        <4>2. QED BY <4>1
      <3>3. QED BY <3>1, <3>2
    <2>3. QED BY <1>2, <2>1, <2>2
  <1>5. Values /\ Marked
    BY <1>4 DEF Values, Marked
  <1>6. Rows /\ Counts
    BY <1>1 DEF Rows, Counts, Fresh
  <1>7. /\ Labelled /\ Alone /\ Posted /\ PostAlone
        /\ \A p \in Proc : Putting(p) /\ Deleting(p)
    BY <1>1 DEF Labelled, Alone, Posted, PostAlone, Switches, Putting, Deleting, Proc
  <1>8. IInv
    BY InitHolds
  <1>9. QED BY <1>5, <1>6, <1>7, <1>8 DEF OInv, Turns, Guarded

(* A mix command touches no metadata.                                      *)
LEMMA MixIsSteady ==
  ASSUME Turns, NEW u \in Users, Mix(u)
  PROVE  meta' = meta /\ pc'[u] \notin KeyLabel
  <1> USE DEF Turns, IInv, Shape, Proc, Goto, End, pipewire, KeyLabel
  <1>1. CASE Lock(u) \/ MixRead(u)
    BY <1>1 DEF Lock, MixRead
  <1>2. CASE MixConfig(u) \/ MixUndo(u)
    BY <1>2 DEF MixConfig, MixUndo
  <1>3. CASE MixLive(u) \/ MixRelive(u)
    BY <1>3 DEF MixLive, MixRelive, PutBack
  <1>4. CASE MixSave(u) \/ MixFails(u)
    BY <1>4 DEF MixSave, MixFails, PutBack
  <1>5. QED BY <1>1, <1>2, <1>3, <1>4 DEF Mix

(* Every step keeps the metadata recognisable.                             *)
LEMMA OursKeep ==
  ASSUME OneAfterAnother, OInv, [Next]_vars
  PROVE  OInv'
  <1>1. CASE UNCHANGED vars
    <2>1. Turns'
      BY <1>1 DEF OInv, vars, Turns, IInv, Shape, Checked, Locked, Counted, ForeignAlone, WorksOnOurs, Rows, Counts,
                  Labelled, Alone, Posted, PostAlone, Switches
    <2>2. Guarded' /\ Values'
      BY <1>1 DEF OInv, vars, Guarded, Kept, Checked, Marked, Putting, Deleting, Due, Values
    <2>3. QED BY <2>1, <2>2 DEF OInv
  <1>2. CASE Next
    <2>1. Turns' /\ (Kept' => Kept)
      BY <1>2, TurnsKeep DEF OInv
    <2>2. ASSUME NEW p \in Proc, Moves(p), meta' = meta, pc'[p] \notin KeyLabel PROVE Guarded' /\ Values'
      BY <2>1, <2>2, SteadyKeeps DEF OInv, Values
    <2>3. ASSUME NEW p \in Proc, Reconcile(p) PROVE Guarded' /\ Values'
      <3>1. Moves(p)
        BY <2>3, ReconcileMoves DEF OInv, Turns, IInv
      <3>2. CASE ReconcileWait(p) \/ ClaimUnread(p)
        <4>1. meta' = meta
          BY <3>2 DEF ReconcileWait, ClaimUnread, pipewire
        <4>2. QED BY <2>1, <3>1, <3>2, <4>1, WaitGuards DEF OInv, Values
      <3>3. CASE PutKey(p)
        BY <2>1, <3>1, <3>3, PutGuards
      <3>4. CASE ~ReconcileWait(p) /\ ~ClaimUnread(p) /\ ~PutKey(p)
        <4>1. Quiet(p)
          BY <2>3, <3>4, ReconcileIsQuiet DEF Reconcile, OInv, Turns
        <4>2. QED BY <2>2, <3>1, <4>1 DEF Quiet
      <3>5. QED BY <3>2, <3>3, <3>4
    <2>4. ASSUME NEW u \in Users, Begin(u) \/ TurnOff(u) \/ Clean(u) \/ On(u) \/ Oneshot(u) \/ Kill(u)
          PROVE  Guarded' /\ Values'
      <3>1. Moves(u) /\ u \in Proc
        BY <2>4, UserMoves DEF OInv, Turns, IInv, Proc
      <3>2. CASE Look(u)
        <4>1. meta' = meta
          BY <3>2 DEF Look, pipewire
        <4>2. QED BY <2>1, <3>1, <3>2, <4>1, LookGuards DEF OInv, Values
      <3>3. CASE DeleteKey(u) \/ DeleteUnread(u)
        BY <2>1, <3>1, <3>3, DeleteGuards
      <3>4. CASE ~Look(u) /\ ~DeleteKey(u) /\ ~DeleteUnread(u)
        <4>1. Quiet(u)
          BY <2>4, <3>4, BeginIsQuiet, CleanIsQuiet, OnIsQuiet, OneshotIsQuiet, KillIsQuiet
          DEF Clean, On, Oneshot, OInv, Turns
        <4>2. QED BY <2>2, <3>1, <4>1 DEF Quiet
      <3>5. QED BY <3>2, <3>3, <3>4
    <2>5. ASSUME NEW u \in Users, Mix(u) PROVE Guarded' /\ Values'
      BY <2>2, <2>5, UserMoves, MixIsSteady DEF OInv, Turns, IInv, Proc
    <2>6. Environment => Guarded' /\ Values'
      BY <2>1, EnvironmentGuards
    <2>7. Guarded' /\ Values'
      BY <1>2, <2>3, <2>4, <2>5, <2>6, Zenon DEF Next
    <2>8. QED BY <2>1, <2>7 DEF OInv
  <1>3. QED BY <1>1, <1>2

(* Metadata of ours carries the owner key, whatever fails but a listing    *)
(* before keys are put, and whenever a command is killed                   *)
(* (apply_smart_metadata, remove_smart_metadata), for every number of      *)
(* users, nodes and keys.                                                  *)
THEOREM OwnerKeyMarksOurs ==
  ASSUME OneAfterAnother
  PROVE  Spec => []OwnerMarks
  <1>1. Init => OInv
    BY InitOurs
  <1>2. OInv /\ [Next]_vars => OInv'
    BY OursKeep
  <1>3. OInv => OwnerMarks
    BY DEF OInv, Guarded, Kept, Checked, Marked, OwnerMarks
  <1>4. QED BY <1>1, <1>2, <1>3, PTL DEF Spec

-----------------------------------------------------------------------------
(* Mix commands and the commands that switch.                              *)

(* A process that runs a mix command, or waits for the lock.               *)
Changes(p) == pc[p] \in MixCommands \cup MixLabel
Apart ==
  /\ \A u \in Users : Changes(u) => loc[u].job.command \in MixCommands
  /\ \A u, v \in Users : Changes(u) => ~Switches(v)

StartingPost == service = "starting" => pc[Post] # "idle"

(* A step of p begins no mix command, and the ExecStartPost is disturbed   *)
(* only by somebody who switches and does not wait for it.                 *)
Orderly(p) ==
  /\ Changes(p)' => Changes(p) /\ loc'[p].job = loc[p].job
  /\ p # Post =>
       \/ pc'[Post] = pc[Post] /\ at'[Post] = at[Post] /\ todo'[Post] = todo[Post] /\ loc'[Post] = loc[Post]
       \/ Switches(p) /\ pc[p] \notin Awaits
  /\ \/ service' = "starting" => pc'[Post] # "idle"
     \/ service' = service /\ pc'[Post] = pc[Post]

(* Reconciling is orderly,                                                 *)
LEMMA ReconcileIsOrderly ==
  ASSUME Turns, NEW p \in Proc, Reconcile(p)
  PROVE  Orderly(p)
  <1> USE RoutingAssumption DEF Turns, IInv, Shape, Rows, Proc, Step, Goto, Outputs, End, CleanUp, Fresh
  <1>1. CASE ReconcileBegin(p)
    BY <1>1 DEF Orderly, Changes, MixCommands, MixLabel, unit, ReconcileBegin, NotReconciled, StopUnit
  <1>2. CASE ReconcileWait(p)
    BY <1>2 DEF Orderly, Changes, MixCommands, MixLabel, unit, ReconcileWait, Claim, NotReconciled, StopUnit
  <1>3. CASE PutKey(p)
    BY <1>3 DEF Orderly, Changes, MixCommands, MixLabel, unit, PutKey
  <1>4. CASE SaveId(p)
    BY <1>4 DEF Orderly, Changes, MixCommands, MixLabel, unit, SaveId, NotReconciled, StopUnit
  <1>5. CASE ReadMix(p)
    BY <1>5 DEF Orderly, Changes, MixCommands, MixLabel, unit, ReadMix
  <1>6. CASE ApplyMix(p)
    BY <1>6 DEF Orderly, Changes, MixCommands, MixLabel, unit, ApplyMix, NotReconciled, Reconciled, Next1, StopUnit
  <1>7. CASE ReconcileFails(p)
    BY <1>7 DEF Orderly, Changes, MixCommands, MixLabel, unit, ReconcileFails, NotReconciled, StopUnit
  <1>8. CASE ClaimUnread(p)
    BY <1>8 DEF Orderly, Changes, MixCommands, MixLabel, unit, ClaimUnread, Claim, NotReconciled, StopUnit
  <1>9. CASE SavedUnread(p)
    BY <1>9 DEF Orderly, Changes, MixCommands, MixLabel, unit, SavedUnread, NotReconciled, StopUnit
  <1>10. QED BY <1>1, <1>2, <1>3, <1>4, <1>5, <1>6, <1>7, <1>8, <1>9 DEF Reconcile

(* so is cleaning up,                                                      *)
LEMMA CleanIsOrderly ==
  ASSUME Turns, NEW u \in Users, Clean(u)
  PROVE  Orderly(u)
  <1> USE RoutingAssumption DEF Turns, IInv, Shape, Rows, Proc, Step, Goto, Outputs, End, CleanUp, Fresh
  <1>1. CASE Look(u)
    BY <1>1 DEF Orderly, Changes, MixCommands, MixLabel, unit, Look
  <1>2. CASE DeleteKey(u)
    BY <1>2 DEF Orderly, Changes, MixCommands, MixLabel, unit, DeleteKey
  <1>3. CASE DeleteFails(u)
    BY <1>3 DEF Orderly, Changes, MixCommands, MixLabel, unit, DeleteFails
  <1>4. CASE Record(u)
    BY <1>4 DEF Orderly, Changes, MixCommands, MixLabel, unit, Record, Next1
  <1>5. CASE StopFilter(u)
    BY <1>5 DEF Orderly, Changes, MixCommands, MixLabel, unit, StopFilter, MoveWithPost, StopUnit, Switches, Awaits
  <1>6. CASE StopFails(u)
    BY <1>6 DEF Orderly, Changes, MixCommands, MixLabel, unit, StopFails
  <1>7. CASE RemoveConfig(u)
    BY <1>7 DEF Orderly, Changes, MixCommands, MixLabel, unit, RemoveConfig
  <1>8. CASE Forget(u)
    BY <1>8 DEF Orderly, Changes, MixCommands, MixLabel, unit, Forget
  <1>9. CASE Cleaned(u)
    BY <1>9 DEF Orderly, Changes, MixCommands, MixLabel, unit, Cleaned, BackFromCleanUp
  <1>10. CASE LookUnread(u)
    <2>1. PICK sv, result : loc' = [loc EXCEPT ![u].sv = sv, ![u].result = result]
      BY <1>10, Zenon DEF LookUnread
    <2>2. pc[u] = "look" /\ pc' = [pc EXCEPT ![u] = "record"] /\ UNCHANGED <<unit, at, todo>>
      BY <1>10 DEF LookUnread
    <2>3. QED BY <2>1, <2>2 DEF Orderly, Changes, MixCommands, MixLabel, unit
  <1>11. CASE DeleteUnread(u)
    BY <1>11 DEF Orderly, Changes, MixCommands, MixLabel, unit, DeleteUnread
  <1>12. QED BY <1>1, <1>2, <1>3, <1>4, <1>5, <1>6, <1>7, <1>8, <1>9, <1>10, <1>11 DEF Clean

(* turning on,                                                             *)
LEMMA OnIsOrderly ==
  ASSUME Turns, NEW u \in Users, On(u)
  PROVE  Orderly(u)
  <1> USE RoutingAssumption DEF Turns, IInv, Shape, Rows, Proc, Step, Goto, Outputs, End, CleanUp, Fresh
  <1>1. CASE TurnOn(u)
    BY <1>1 DEF Orderly, Changes, MixCommands, MixLabel, unit, TurnOn, SwitchOn
  <1>2. CASE Reenable(u)
    BY <1>2 DEF Orderly, Changes, MixCommands, MixLabel, unit, Reenable
  <1>3. CASE WriteConfig(u)
    BY <1>3 DEF Orderly, Changes, MixCommands, MixLabel, unit, WriteConfig
  <1>4. CASE SaveMode(u)
    BY <1>4 DEF Orderly, Changes, MixCommands, MixLabel, unit, SaveMode
  <1>5. CASE EnableFilter(u)
    BY <1>5 DEF Orderly, Changes, MixCommands, MixLabel, unit, EnableFilter, Launch, MoveWithPost, StartUnit, Switches, Awaits
  <1>6. CASE Started(u)
    BY <1>6 DEF Orderly, Changes, MixCommands, MixLabel, unit, Started
  <1>7. CASE Verify(u)
    BY <1>7 DEF Orderly, Changes, MixCommands, MixLabel, unit, Verify
  <1>8. CASE OnFails(u)
    BY <1>8 DEF Orderly, Changes, MixCommands, MixLabel, unit, OnFails
  <1>9. CASE OnUnread(u)
    BY <1>9 DEF Orderly, Changes, MixCommands, MixLabel, unit, OnUnread, SwitchOn
  <1>10. QED BY <1>1, <1>2, <1>3, <1>4, <1>5, <1>6, <1>7, <1>8, <1>9 DEF On

(* changing the mix,                                                       *)
LEMMA MixIsOrderly ==
  ASSUME Turns, NEW u \in Users, Mix(u)
  PROVE  Orderly(u)
  <1> USE RoutingAssumption DEF Turns, IInv, Shape, Rows, Proc, Step, Goto, Outputs, End, CleanUp, Fresh
  <1>1. CASE Lock(u)
    BY <1>1 DEF Orderly, Changes, MixCommands, MixLabel, unit, Lock
  <1>2. CASE MixRead(u)
    BY <1>2 DEF Orderly, Changes, MixCommands, MixLabel, unit, MixRead
  <1>3. CASE MixConfig(u)
    BY <1>3 DEF Orderly, Changes, MixCommands, MixLabel, unit, MixConfig
  <1>4. CASE MixLive(u)
    BY <1>4 DEF Orderly, Changes, MixCommands, MixLabel, unit, MixLive, PutBack, Next1
  <1>5. CASE MixUndo(u)
    BY <1>5 DEF Orderly, Changes, MixCommands, MixLabel, unit, MixUndo
  <1>6. CASE MixRelive(u)
    BY <1>6 DEF Orderly, Changes, MixCommands, MixLabel, unit, MixRelive, Next1
  <1>7. CASE MixSave(u)
    BY <1>7 DEF Orderly, Changes, MixCommands, MixLabel, unit, MixSave
  <1>8. CASE MixFails(u)
    BY <1>8 DEF Orderly, Changes, MixCommands, MixLabel, unit, MixFails, PutBack, Next1
  <1>9. QED BY <1>1, <1>2, <1>3, <1>4, <1>5, <1>6, <1>7, <1>8 DEF Mix

(* the oneshot,                                                            *)
LEMMA OneshotIsOrderly ==
  ASSUME Turns, NEW u \in Users, Oneshot(u)
  PROVE  Orderly(u)
  <1> USE RoutingAssumption DEF Turns, IInv, Shape, Rows, Proc, Step, Goto, Outputs, End, CleanUp, Fresh
  <1>1. CASE Restore(u)
    BY <1>1 DEF Orderly, Changes, MixCommands, MixLabel, unit, Restore
  <1>2. CASE Try(u)
    BY <1>2 DEF Orderly, Changes, MixCommands, MixLabel, unit, Try
  <1>3. CASE Revive(u)
    BY <1>3 DEF Orderly, Changes, MixCommands, MixLabel, unit, Revive, Launch, MoveWithPost, StartUnit, Switches, Awaits
  <1>4. CASE Revived(u)
    BY <1>4 DEF Orderly, Changes, MixCommands, MixLabel, unit, Revived
  <1>5. CASE ReviveFails(u)
    BY <1>5 DEF Orderly, Changes, MixCommands, MixLabel, unit, ReviveFails
  <1>6. CASE Again(u)
    BY <1>6 DEF Orderly, Changes, MixCommands, MixLabel, unit, Again
  <1>7. QED BY <1>1, <1>2, <1>3, <1>4, <1>5, <1>6 DEF Oneshot

(* turning off and dying.                                                  *)
LEMMA EndsAreOrderly ==
  ASSUME Turns, NEW u \in Users, TurnOff(u) \/ Kill(u)
  PROVE  Orderly(u)
  <1> USE RoutingAssumption DEF Turns, IInv, Shape, Rows, Proc, Step, Goto, Outputs, End, CleanUp, Fresh
  <1>1. CASE TurnOff(u)
    BY <1>1 DEF Orderly, Changes, MixCommands, MixLabel, unit, TurnOff
  <1>2. CASE Kill(u)
    BY <1>2 DEF Orderly, Changes, MixCommands, MixLabel, unit, Kill
  <1>3. QED BY <1>1, <1>2

Same(q) == pc'[q] = pc[q] /\ at'[q] = at[q] /\ todo'[q] = todo[q] /\ loc'[q] = loc[q]

(* A step of process p, once it has begun.                                 *)
Works(p) ==
  \/ Reconcile(p)
  \/ p \in Users /\ (TurnOff(p) \/ Clean(p) \/ On(p) \/ Mix(p) \/ Oneshot(p) \/ Kill(p))

(* A step is one of a process that has begun, a beginning, or one of the   *)
(* environment.                                                            *)
LEMMA NextIs == Next => (\E p \in Proc : Works(p)) \/ (\E u \in Users : Begin(u)) \/ Environment
  <1>1. QED BY Zenon DEF Next, Works, Proc

(* Every step of a process moves nobody else, waits its turn and is        *)
(* orderly.                                                                *)
LEMMA WorkIsOrderly ==
  ASSUME Turns, NEW p \in Proc, Works(p)
  PROVE  Moves(p) /\ Turn(p) /\ Orderly(p)
  <1>1. CASE Reconcile(p)
    BY <1>1, ReconcileMoves, ReconcileIsTurn, ReconcileIsOrderly DEF Turns, IInv
  <1>2. CASE p \in Users /\ (TurnOff(p) \/ Clean(p) \/ On(p) \/ Mix(p) \/ Oneshot(p) \/ Kill(p))
    <2>1. Moves(p)
      BY <1>2, UserMoves DEF Turns, IInv
    <2>2. Turn(p)
      BY <1>2, TurnOffIsTurn, CleanIsTurn, OnIsTurn, MixIsTurn, OneshotIsTurn, KillIsTurn
    <2>3. Orderly(p)
      BY <1>2, CleanIsOrderly, OnIsOrderly, MixIsOrderly, OneshotIsOrderly, EndsAreOrderly
    <2>4. QED BY <2>1, <2>2, <2>3
  <1>3. QED BY <1>1, <1>2 DEF Works

(* Who goes on either switches or changes the mix.                         *)
LEMMA WhoWorks ==
  ASSUME NEW p \in Proc, Works(p)
  PROVE  Switches(p) \/ (p \in Users /\ Changes(p))
  <1>1. CASE Reconcile(p)
    <2>1. pc[p] \in {"r_begin", "reconcile", "r_wait", "r_key", "r_save", "r_mix", "r_live"}
      BY <1>1 DEF Reconcile, ReconcileBegin, ReconcileWait, PutKey, SaveId, ReadMix, ApplyMix,
             ClaimUnread, SavedUnread, ReconcileFails, Step
    <2>2. QED BY <2>1 DEF Switches, MixLabel
  <1>2. CASE p \in Users /\ (TurnOff(p) \/ Clean(p))
    <2>1. pc[p] \in {"off", "look", "delete", "record", "stop", "unconfig", "forget", "gone"}
      BY <1>2 DEF TurnOff, Clean, Look, LookUnread, DeleteKey, DeleteUnread, DeleteFails,
             Record, StopFilter, StopFails, RemoveConfig, Forget, Cleaned, Step
    <2>2. QED BY <2>1 DEF Switches, MixLabel
  <1>3. CASE p \in Users /\ On(p)
    <2>1. pc[p] \in {"on", "reenable", "config", "mode", "enable", "starting", "verify"}
      BY <1>3 DEF On, TurnOn, OnUnread, Reenable, WriteConfig, SaveMode, EnableFilter, Started, Verify, OnFails, Step
    <2>2. QED BY <2>1 DEF Switches, MixLabel
  <1>4. CASE p \in Users /\ Mix(p)
    <2>1. pc[p] \in {"set", "step"} \cup MixLabel
      BY <1>4 DEF Mix, Lock, MixRead, MixConfig, MixLive, MixUndo, MixRelive, MixSave, MixFails, Step, MixLabel
    <2>2. QED BY <1>4, <2>1 DEF Changes, MixCommands
  <1>5. CASE p \in Users /\ Oneshot(p)
    <2>1. pc[p] \in {"restore", "try", "revive", "revived", "again"}
      BY <1>5 DEF Oneshot, Restore, Try, Revive, Revived, ReviveFails, Again, Step
    <2>2. QED BY <2>1 DEF Switches, MixLabel
  <1>6. CASE p \in Users /\ Kill(p)
    BY <1>6 DEF Kill, Running, Switches, Changes, MixCommands
  <1>7. QED BY <1>1, <1>2, <1>3, <1>4, <1>5, <1>6 DEF Works

(* Besides p's, the local variables stay, but that the ExecStartPost may   *)
(* begin.                                                                  *)
LEMMA OthersRest ==
  ASSUME Turns, NEW p \in Proc, Works(p), NEW q \in Proc \ {p}
  PROVE  Same(q) \/ (q = Post /\ pc[q] = "idle" /\ pc'[q] \in {"idle", "r_begin"} /\ todo'[q] = << >> /\ loc'[q] = Fresh)
  <1>1. Moves(p) /\ Orderly(p)
    BY WorkIsOrderly
  <1>2. Same(q) \/ (q = Post /\ pc'[q] \in {"idle", "r_begin"} /\ at'[q] = 0 /\ todo'[q] = << >> /\ loc'[q] = Fresh)
    BY <1>1 DEF Moves, Same
  <1>3. q = Post => Same(q) \/ pc[q] = "idle"
    <2> SUFFICES ASSUME q = Post PROVE Same(q) \/ pc[q] = "idle"
      OBVIOUS
    <2>1. Same(q) \/ (Switches(p) /\ pc[p] \notin Awaits)
      BY <1>1 DEF Orderly, Same
    <2>2. QED BY <2>1 DEF Turns, PostAlone, Proc
  <1>4. QED BY <1>2, <1>3

(* While a command switches and does not wait, nobody else goes on.        *)
LEMMA NobodyElse ==
  ASSUME Turns, Apart, NEW v \in Users, Switches(v), pc[v] \notin Awaits, NEW p \in Proc, Works(p)
  PROVE  p = v
  <1>1. Switches(p) \/ (p \in Users /\ Changes(p))
    BY WhoWorks
  <1>2. ~(p \in Users /\ Changes(p))
    BY DEF Apart
  <1>3. p = Post => pc[Post] # "idle"
    BY <1>1, <1>2 DEF Switches
  <1>4. p # Post
    BY <1>3 DEF Turns, PostAlone
  <1>5. QED BY <1>1, <1>2, <1>4 DEF Turns, Alone, Proc

(* A mix command begins when nobody switches, and the other way round.     *)
LEMMA ApartKeeps ==
  ASSUME OneAfterAnother, SwitchAlone, Turns, Apart, Next
  PROVE  Apart'
  <1> USE RoutingAssumption DEF Turns, IInv, Shape, Rows
  <1>1. ASSUME NEW p \in Proc, Works(p) PROVE Apart'
    <2>1. Turn(p) /\ Orderly(p)
      BY <1>1, WorkIsOrderly
    <2>2. \A v \in Users \ {p} : Same(v)
      BY <1>1, OthersRest DEF Proc
    <2>3. \A v \in Users : /\ Changes(v)' => Changes(v) /\ loc'[v].job = loc[v].job
                           /\ Switches(v)' => Switches(v)
      BY <2>1, <2>2 DEF Orderly, Turn, Same, Changes, Switches
    <2>4. QED BY <2>3 DEF Apart
  <1>2. ASSUME NEW u \in Users, Begin(u) PROVE Apart'
    <2>1. PICK j \in Jobs :
            /\ \A p \in Proc \ {u} : Running(p) => {j.command, Command(p)} \in Overlap
            /\ loc' = [loc EXCEPT ![u].job = j]
            /\ pc' = [pc EXCEPT ![u] = j.command]
      BY <1>2 DEF Begin, Goto
    <2>2. \A v \in Users \ {u} : pc'[v] = pc[v] /\ loc'[v] = loc[v]
      BY <2>1
    <2>3. pc'[u] = j.command /\ loc'[u].job = j /\ j.command \in Commands
      BY <2>1 DEF Proc
    <2>4. /\ Changes(u)' => j.command \in MixCommands
          /\ Switches(u)' => j.command \in SwitchCommands
          /\ ~(Changes(u)' /\ Switches(u)')
      BY <2>3 DEF Changes, Switches, Commands, MixCommands, SwitchCommands, MixLabel
    <2>5. \A v \in Users \ {u} : (Changes(v)' <=> Changes(v)) /\ (Switches(v)' <=> Switches(v))
      BY <2>2 DEF Changes, Switches
    <2>6. ASSUME NEW v \in Users \ {u}, Changes(v), Switches(u)' PROVE FALSE
      <3>1. Running(v) /\ Command(v) \in MixCommands
        BY <2>6 DEF Running, Command, Changes, Apart, MixCommands, MixLabel
      <3>2. QED BY <2>1, <2>4, <2>6, <3>1 DEF SwitchAlone, Proc
    <2>7. ASSUME NEW v \in Users \ {u}, Switches(v), Changes(u)' PROVE FALSE
      <3>1. Running(v) /\ Command(v) \in SwitchCommands
        BY <2>7 DEF Running, Command, Switches, Labelled
      <3>2. {Command(v), j.command} = {j.command, Command(v)}
        OBVIOUS
      <3>3. QED BY <2>1, <2>4, <2>7, <3>1, <3>2 DEF SwitchAlone, Proc
    <2>8. \A v \in Users : Changes(v)' => loc'[v].job.command \in MixCommands
      BY <2>2, <2>3, <2>4, <2>5 DEF Apart
    <2>9. \A v, w \in Users : Changes(v)' => ~Switches(w)'
      BY <2>4, <2>5, <2>6, <2>7 DEF Apart
    <2>10. QED BY <2>8, <2>9 DEF Apart
  <1>3. CASE Environment
    <2>1. \A v \in Users : pc'[v] = pc[v] /\ loc'[v] = loc[v]
      BY <1>3 DEF Environment, Unplug, Plug, RestartWirePlumber, local, Proc
    <2>2. QED BY <2>1 DEF Apart, Changes, Switches
  <1>4. QED BY <1>1, <1>2, <1>3, NextIs

(* The unit is starting as long as its ExecStartPost runs.                 *)
LEMMA PostKeeps ==
  ASSUME Turns, StartingPost, Next
  PROVE  StartingPost'
  <1>1. ASSUME NEW p \in Proc, Works(p) PROVE StartingPost'
    BY <1>1, WorkIsOrderly DEF Orderly, StartingPost
  <1>2. ASSUME NEW u \in Users, Begin(u) PROVE StartingPost'
    BY <1>2, RoutingAssumption DEF Begin, Goto, unit, StartingPost, Turns, IInv, Shape, Proc
  <1>3. CASE Environment
    BY <1>3 DEF Environment, Unplug, Plug, RestartWirePlumber, StartUnit, unit, local, StartingPost, Turns, IInv, Shape, Proc
  <1>4. QED BY <1>1, <1>2, <1>3, NextIs

Stopped == service = "inactive" /\ enabled = FALSE /\ \A o \in Output : live[o] = Gone
(* What clean-up has done, when it goes on without an error.               *)
Removed(u) ==
  /\ loc[u].bad \in BOOLEAN
  /\ pc[u] \in {"unconfig", "forget", "gone"} /\ loc[u].bad = FALSE => Stopped
  /\ pc[u] \in {"forget", "gone"} => config.by # "ours"
  /\ pc[u] = "gone" => saved.mode = "none"
  /\ pc[u] = "mode" => config.by = "ours"

Fields == \A p \in Proc : DOMAIN loc[p] = DOMAIN Fresh
(* The local variables have the fields of Fresh.                           *)
LEMMA FieldsHold == TypeOK => Fields /\ DOMAIN pc = Proc /\ DOMAIN at = Proc /\ DOMAIN todo = Proc /\ DOMAIN loc = Proc
  <1>1. QED BY DEF TypeOK, LocalOK, Fields

(* How reconciling ends.                                                   *)
LEMMA NotReconciledIs ==
  ASSUME NEW p \in Proc, NotReconciled(p)
  PROVE  \/ p = Post /\ End(p, "idle") /\ StopUnit
         \/ /\ p # Post /\ UNCHANGED <<service, live>>
            /\ \/ CleanUp(p, "rollback")
               \/ Goto(p, "again") /\ UNCHANGED <<at, todo, loc, holder>>
               \/ End(p, "failed")
  <1>1. QED BY DEF NotReconciled

(* When reconciling succeeds, the unit is active or as it was.             *)
LEMMA ReconciledIs ==
  ASSUME NEW p \in Proc, Reconciled(p)
  PROVE  \/ p = Post /\ End(p, "idle") /\ service' = "active"
         \/ /\ p # Post /\ service' = service
            /\ \/ /\ Goto(p, "r_mix") /\ Outputs(p, OutputsOf(loc[p].job.mode)) /\ loc' = [loc EXCEPT ![p].why = "remix"]
                  /\ UNCHANGED <<at, holder>>
               \/ Goto(p, "reenable") /\ UNCHANGED <<at, todo, loc, holder>>
               \/ End(p, "ok")
  <1>1. QED BY DEF Reconciled

(* Clean-up reaches its later labels only with the unit stopped, the       *)
(* fragment and the selection removed.                                     *)
LEMMA CleanRemoves ==
  ASSUME TypeOK, NEW u \in Users, Removed(u), Clean(u)
  PROVE  Removed(u)'
  <1>0. u \in Proc /\ u # Post
    BY RoutingAssumption DEF Proc
  <1>f. "bad" \in DOMAIN loc[u] /\ DOMAIN pc = Proc /\ DOMAIN at = Proc /\ DOMAIN todo = Proc /\ DOMAIN loc = Proc /\ Fresh.bad = FALSE
    BY <1>0, FieldsHold, FreshTyped DEF Fields, Fresh
  <1>t. saved \in Files /\ config \in Fragment
    BY DEF TypeOK, HostOK
  <1> USE <1>0, <1>f DEF Step, Goto, Outputs
  <1>1. CASE Look(u)
    BY <1>1 DEF Removed, Look
  <1>2. CASE DeleteKey(u)
    BY <1>2 DEF Removed, DeleteKey
  <1>3. CASE DeleteFails(u)
    BY <1>3 DEF Removed, DeleteFails
  <1>4. CASE Record(u)
    <2>1. pc'[u] \in {"stop", "look"} /\ loc'[u].bad = (loc[u].bad \/ loc[u].result = "error")
      BY <1>4 DEF Record
    <2>2. loc'[u].bad \in BOOLEAN
      BY <2>1
    <2>3. QED BY <2>1, <2>2 DEF Removed
  <1>5. CASE StopFilter(u)
    BY <1>5 DEF Removed, StopFilter, StopUnit, MoveWithPost, Stopped
  <1>6. CASE StopFails(u)
    BY <1>6 DEF Removed, StopFails
  <1>7. CASE RemoveConfig(u)
    <2>1. /\ pc[u] = "unconfig" /\ pc'[u] = "forget" /\ loc'[u].bad = (loc[u].bad \/ config.by = "foreign") /\ UNCHANGED unit
          /\ config'.by # "ours"
      BY <1>7 DEF RemoveConfig, NoConfig
    <2>2. loc'[u].bad \in BOOLEAN /\ (loc'[u].bad = FALSE => loc[u].bad = FALSE)
      BY <2>1 DEF Removed
    <2>3. loc'[u].bad = FALSE => Stopped'
      BY <2>1, <2>2 DEF Removed, Stopped, unit
    <2>4. QED BY <2>1, <2>2, <2>3 DEF Removed
  <1>8. CASE Forget(u)
    <2>1. saved'.mode = "none"
      BY <1>8, <1>t DEF Forget, Files
    <2>2. QED BY <1>8, <2>1 DEF Removed, Forget, unit, Stopped
  <1>9. CASE Cleaned(u)
    BY <1>9 DEF Removed, Cleaned, BackFromCleanUp, End
  <1>10. CASE LookUnread(u)
    BY <1>10 DEF Removed, LookUnread
  <1>11. CASE DeleteUnread(u)
    BY <1>11 DEF Removed, DeleteUnread
  <1>12. QED BY <1>1, <1>2, <1>3, <1>4, <1>5, <1>6, <1>7, <1>8, <1>9, <1>10, <1>11 DEF Clean

(* No other action leads to these labels.                                  *)
LEMMA OthersRemove ==
  ASSUME TypeOK, NEW u \in Users, Removed(u), Reconcile(u) \/ TurnOff(u) \/ On(u) \/ Oneshot(u) \/ Kill(u) \/ Mix(u)
  PROVE  Removed(u)'
  <1>0. u \in Proc /\ u # Post
    BY RoutingAssumption DEF Proc
  <1>f. "bad" \in DOMAIN loc[u] /\ DOMAIN pc = Proc /\ DOMAIN at = Proc /\ DOMAIN todo = Proc /\ DOMAIN loc = Proc /\ Fresh.bad = FALSE
    BY <1>0, FieldsHold, FreshTyped DEF Fields, Fresh
  <1>b. loc[u].bad \in BOOLEAN
    BY DEF Removed
  <1> USE <1>0, <1>f DEF Step, Goto, Outputs
  <1>1. CASE Reconcile(u)
    <2>9. ASSUME NotReconciled(u) PROVE pc'[u] \in {"idle", "look", "again"} /\ loc'[u].bad \in BOOLEAN
      <3>1. /\ pc'[u] \in {"idle", "look", "again"}
            /\ loc'[u] = Fresh \/ loc' = loc \/ loc' = [loc EXCEPT ![u].why = "rollback", ![u].bad = FALSE]
        BY <2>9, NotReconciledIs DEF End, CleanUp
      <3>2. loc'[u] = Fresh \/ loc'[u].bad = loc[u].bad \/ loc'[u].bad = FALSE
        BY <3>1
      <3>3. QED BY <1>b, <3>1, <3>2, Zenon
    <2>1. CASE ReconcileBegin(u) BY <2>1 DEF ReconcileBegin, NotReconciled, End, CleanUp, Removed
    <2>2. CASE ReconcileWait(u) BY <2>2 DEF ReconcileWait, Claim, NotReconciled, End, CleanUp, Removed
    <2>3. CASE PutKey(u)
      <3>1. pc'[u] \in {"r_key", "r_save"} /\ loc'[u].bad = loc[u].bad
        BY <2>3 DEF PutKey
      <3>2. loc'[u].bad \in BOOLEAN
        BY <3>1, <1>b, Zenon
      <3>3. QED BY <3>1, <3>2 DEF Removed
    <2>4. CASE SaveId(u)
      <3>1. (pc'[u] = "r_mix" /\ loc' = loc) \/ NotReconciled(u)
        BY <2>4 DEF SaveId
      <3>2. QED BY <3>1, <2>9 DEF Removed
    <2>5. CASE ReadMix(u)
      <3>1. pc'[u] = "r_live" /\ loc'[u].bad = loc[u].bad
        BY <2>5 DEF ReadMix
      <3>2. loc'[u].bad \in BOOLEAN
        BY <3>1, <1>b, Zenon
      <3>3. QED BY <3>1, <3>2 DEF Removed
    <2>6. CASE ApplyMix(u)
      <3>1. (pc'[u] \in {"r_mix", "r_wait"} /\ loc' = loc) \/ Reconciled(u) \/ NotReconciled(u)
        BY <2>6 DEF ApplyMix
      <3>2. ASSUME Reconciled(u) PROVE pc'[u] \in {"idle", "r_mix", "reenable"} /\ loc'[u].bad \in BOOLEAN
        <4>1. pc'[u] \in {"idle", "r_mix", "reenable"} /\ (loc'[u] = Fresh \/ loc' = loc \/ loc' = [loc EXCEPT ![u].why = "remix"])
          BY <3>2, ReconciledIs DEF End
        <4>2. loc'[u] = Fresh \/ loc'[u].bad = loc[u].bad
          BY <4>1
        <4>3. QED BY <1>b, <4>1, <4>2, Zenon
      <3>3. QED BY <3>1, <3>2, <2>9 DEF Removed
    <2>7. CASE ReconcileFails(u) BY <2>7 DEF ReconcileFails, NotReconciled, End, CleanUp, Removed
    <2>8. CASE ClaimUnread(u)
      <3>1. (pc'[u] = "r_key" /\ loc' = [loc EXCEPT ![u].left = PutOrder]) \/ NotReconciled(u)
        BY <2>8, Zenon DEF ClaimUnread, Claim
      <3>2. (pc'[u] = "r_key" /\ loc'[u].bad = loc[u].bad) \/ NotReconciled(u)
        BY <3>1
      <3>3. (pc'[u] = "r_key" /\ loc'[u].bad \in BOOLEAN) \/ NotReconciled(u)
        BY <3>2, <1>b, Zenon
      <3>4. QED BY <3>3, <2>9 DEF Removed
    <2>10. CASE SavedUnread(u) BY <2>10, <2>9 DEF SavedUnread, Removed
    <2>11. QED BY <1>1, <2>1, <2>2, <2>3, <2>4, <2>5, <2>6, <2>7, <2>8, <2>10 DEF Reconcile
  <1>2. CASE TurnOff(u) \/ Kill(u)
    BY <1>2 DEF TurnOff, Kill, End, CleanUp, Removed
  <1>3. CASE On(u)
    <2>1. CASE TurnOn(u) BY <2>1 DEF TurnOn, SwitchOn, End, CleanUp, Removed
    <2>10. CASE OnUnread(u) BY <2>10 DEF OnUnread, SwitchOn, End, CleanUp, Removed
    <2>2. CASE Reenable(u) BY <2>2 DEF Reenable, End, Removed
    <2>3. CASE WriteConfig(u) BY <2>3 DEF WriteConfig, CleanUp, Removed
    <2>4. CASE SaveMode(u) BY <2>4 DEF SaveMode, Removed
    <2>5. CASE EnableFilter(u) BY <2>5 DEF EnableFilter, Launch, MoveWithPost, Removed
    <2>6. CASE Started(u) BY <2>6 DEF Started, CleanUp, Removed
    <2>7. CASE Verify(u) BY <2>7 DEF Verify, End, CleanUp, Removed
    <2>8. CASE OnFails(u) BY <2>8 DEF OnFails, End, CleanUp, Removed
    <2>9. QED BY <1>3, <2>1, <2>10, <2>2, <2>3, <2>4, <2>5, <2>6, <2>7, <2>8 DEF On
  <1>4. CASE Oneshot(u)
    <2>1. CASE Restore(u) \/ Try(u) BY <2>1 DEF Restore, Try, End, Removed
    <2>2. CASE Revive(u) BY <2>2 DEF Revive, Launch, MoveWithPost, Removed
    <2>3. CASE Revived(u) \/ ReviveFails(u) BY <2>3 DEF Revived, ReviveFails, End, Removed
    <2>4. CASE Again(u) BY <2>4 DEF Again, End, Removed
    <2>5. QED BY <1>4, <2>1, <2>2, <2>3, <2>4 DEF Oneshot
  <1>5. CASE Mix(u)
    <2>1. CASE Lock(u) BY <2>1 DEF Lock, Removed
    <2>9. CASE MixRead(u)
      <3>1. pc'[u] \in {"m_save", "m_config", "idle"} /\ (loc'[u] = Fresh \/ loc'[u].bad = loc[u].bad)
        BY <2>9 DEF MixRead, End
      <3>2. loc'[u].bad \in BOOLEAN
        BY <3>1, <1>b, Zenon
      <3>3. QED BY <3>1, <3>2 DEF Removed
    <2>2. CASE MixConfig(u) BY <2>2 DEF MixConfig, End, Removed
    <2>3. CASE MixLive(u) BY <2>3 DEF MixLive, PutBack, Next1, Removed
    <2>4. CASE MixUndo(u) BY <2>4 DEF MixUndo, Removed
    <2>5. CASE MixRelive(u) BY <2>5 DEF MixRelive, End, Next1, Removed
    <2>6. CASE MixSave(u) BY <2>6 DEF MixSave, End, Removed
    <2>7. CASE MixFails(u) BY <2>7 DEF MixFails, PutBack, End, Next1, Removed
    <2>8. QED BY <1>5, <2>1, <2>9, <2>2, <2>3, <2>4, <2>5, <2>6, <2>7 DEF Mix
  <1>6. QED BY <1>1, <1>2, <1>3, <1>4, <1>5

CInv == Apart /\ StartingPost /\ \A u \in Users : Removed(u)

(* While a command switches and does not wait, nobody else does.           *)
LEMMA OthersIdle ==
  ASSUME Turns, NEW v \in Users, Switches(v), pc[v] \notin Awaits, NEW q \in Proc \ {v}
  PROVE  ~Switches(q)
  <1>1. CASE q = Post
    <2>1. pc[Post] = "idle"
      BY DEF Turns, PostAlone
    <2>2. QED BY <1>1, <2>1 DEF Switches
  <1>2. CASE q # Post
    BY <1>2 DEF Turns, Alone, Proc
  <1>3. QED BY <1>1, <1>2

(* A beginning and the environment leave the variables of the others.      *)
LEMMA BeginIs ==
  ASSUME Shape, TypeOK, NEW u \in Users, Begin(u)
  PROVE  /\ UNCHANGED <<sink, meta, service, enabled, live, config, saved, holder, at, todo, hit>>
         /\ \A q \in Proc \ {u} : Same(q)
         /\ pc'[u] \in Commands /\ loc'[u].job.command = pc'[u] /\ loc'[u].bad = loc[u].bad /\ ~Running(u)
  <1>1. PICK j \in Jobs : loc' = [loc EXCEPT ![u].job = j] /\ pc' = [pc EXCEPT ![u] = j.command]
    BY DEF Begin, Goto
  <1>2. UNCHANGED <<sink, meta, service, enabled, live, config, saved, holder, at, todo, hit>> /\ ~Running(u)
    BY DEF Begin, Well, pipewire, unit
  <1>3. DOMAIN loc[u] = DOMAIN Fresh /\ "job" \in DOMAIN Fresh
    BY FieldsHold, FreshTyped DEF Fields, Proc
  <1>4. QED BY <1>1, <1>2, <1>3, RoutingAssumption DEF Same, Proc, Shape

(* And nobody starts the unit or selects anything meanwhile.               *)
LEMMA RemovedKeeps ==
  ASSUME OneAfterAnother, TypeOK, Turns, Apart, NEW v \in Users, Removed(v), Next
  PROVE  Removed(v)'
  <1>0. v \in Proc /\ v # Post
    BY RoutingAssumption DEF Proc
  <1>1. ASSUME NEW p \in Proc, Works(p) PROVE Removed(v)'
    <2>1. CASE p = v
      BY <1>1, <2>1, CleanRemoves, OthersRemove DEF Works
    <2>2. CASE p # v
      <3>1. Same(v)
        BY <1>0, <1>1, <2>2, OthersRest
      <3>2. pc[v] \notin {"unconfig", "forget", "gone", "mode"}
        <4> SUFFICES ASSUME pc[v] \in {"unconfig", "forget", "gone", "mode"} PROVE FALSE
          OBVIOUS
        <4>1. Switches(v) /\ pc[v] \notin Awaits
          BY DEF Switches, Awaits, MixLabel
        <4>2. QED BY <1>1, <2>2, <4>1, NobodyElse
      <3>3. QED BY <3>1, <3>2 DEF Removed, Same
    <2>3. QED BY <2>1, <2>2
  <1>2. ASSUME NEW u \in Users, Begin(u) PROVE Removed(v)'
    <2>1. /\ UNCHANGED <<service, enabled, live, config, saved>> /\ loc'[v].bad = loc[v].bad
          /\ pc'[v] = pc[v] \/ pc'[v] \in Commands
      BY <1>0, <1>2, BeginIs DEF Same, Turns, IInv
    <2>2. pc'[v] \in {"unconfig", "forget", "gone", "mode"} => pc'[v] = pc[v]
      BY <2>1 DEF Commands
    <2>3. Stopped' <=> Stopped
      BY <2>1 DEF Stopped
    <2>4. loc'[v].bad \in BOOLEAN
      BY <2>1, Zenon DEF Removed
    <2>5. loc'[v].bad = FALSE => loc[v].bad = FALSE
      BY <2>1, Zenon
    <2>6. QED BY <2>1, <2>2, <2>3, <2>4, <2>5 DEF Removed
  <1>3. CASE Environment
    <2>1. pc'[v] = pc[v] /\ loc'[v] = loc[v] /\ config' = config /\ saved' = saved
      BY <1>0, <1>3 DEF Environment, Unplug, Plug, RestartWirePlumber, local, Turns, IInv, Shape
    <2>2. Switches(v) => UNCHANGED unit
      BY <1>3 DEF Environment, Unplug, Plug, RestartWirePlumber, Turns, Running, Switches, Labelled, OneAfterAnother
    <2>3. pc[v] \in {"unconfig", "forget", "gone"} => Switches(v)
      BY DEF Switches, MixLabel
    <2>4. QED BY <2>1, <2>2, <2>3 DEF Removed, Stopped, unit
  <1>4. QED BY <1>1, <1>2, <1>3, NextIs

(* Who may run beside whom, and what clean-up has done, is an invariant.   *)
LEMMA CalledKeeps ==
  ASSUME OneAfterAnother, SwitchAlone, TypeOK, OInv, CInv, [Next]_vars
  PROVE  CInv'
  <1>1. CASE UNCHANGED vars
    BY <1>1 DEF vars, CInv, Apart, Changes, Switches, StartingPost, Removed, Stopped
  <1>2. CASE Next
    <2>1. Turns
      BY DEF OInv
    <2>2. QED BY <1>2, <2>1, ApartKeeps, PostKeeps, RemovedKeeps DEF CInv
  <1>3. QED BY <1>1, <1>2

(* At first nobody runs.                                                   *)
LEMMA InitCalled == Init => CInv
  <1> SUFFICES ASSUME Init PROVE CInv
    OBVIOUS
  <1>1. \A u \in Users : pc[u] = "idle" /\ loc[u] = Fresh
    BY DEF Init, Proc
  <1>2. service # "starting"
    BY DEF Init, InitOff, InitOn
  <1>3. Fresh.bad = FALSE
    BY DEF Fresh
  <1>4. QED BY <1>1, <1>2, <1>3 DEF CInv, Apart, Changes, MixCommands, MixLabel, StartingPost, Removed

-----------------------------------------------------------------------------
(* What is known of the metadata that is ours.                             *)

(* No disturbance of this kind has come, as far as the kind may.           *)
Zero(kind) == kind \in Faults => hit[kind] = 0

(* As Followed, in parts, and no listing has failed in a clean-up.         *)
Stayed == Zero("unplug") /\ Zero("stale")
Unharmed == Zero("fail") /\ Zero("put") /\ Zero("delete") /\ Zero("kill") /\ Zero("move")
Traced == Zero("look") /\ (Stayed \/ Unharmed)

(* An output's sink has keys of ours.                                      *)
Marks(o) == meta[Home[o]]["owner"] = o

(* Every id that is in use or saved is where the device was at first.      *)
Placed ==
  /\ \A o \in Output : /\ sink[o] \in {0, Home[o]} /\ (Stayed => sink[o] = Home[o])
                       /\ saved.id[o] \in {0, Home[o]} /\ saved.pending[o] \in {0, Home[o]}
  /\ saved.legacy \in {0, Home["line"]}
WorksAt == {"r_key", "r_save", "delete"}
PlacedAt(p) == pc[p] \in WorksAt => \E o \in Output : Due(p, o) /\ at[p] = Home[o]

(* A process that puts keys, or has put them.                              *)
Puts(p, o) == pc[p] \in {"r_key", "r_save"} /\ Due(p, o)

(* The id of keys of ours is saved.                                        *)
Known == Unharmed => \A o \in Output : Marks(o) => SavedId(o) # 0 \/ \E p \in Proc : Puts(p, o)

(* The next `off` will not say that it is already inactive.                *)
Chosen == saved.mode # "none" \/ config.by = "ours"
Remembered == Zero("delete") => \A o \in Output : Marks(o) => Chosen \/ saved.legacy # 0 \/ saved.pending[o] # 0

(* What clean-up has done with the outputs that it is through with.        *)
AfterAll == {"stop", "unconfig", "forget", "gone"}
CleanLabel == {"look", "delete", "record"} \cup AfterAll
Through(p) ==
  pc[p] \in CleanLabel /\ (Zero("delete") \/ loc[p].bad = FALSE) =>
    \A o \in Output \ ToSet(todo[p]) : Marks(o) => saved.pending[o] = Home[o]
(* What it has found out about the one it is at.                           *)
Found(p) ==
  pc[p] = "record" => \A o \in Output : Due(p, o) =>
    /\ loc[p].result \in {"error", "done", "pending"}
    /\ loc[p].result = "error" => ~Zero("delete")
    /\ loc[p].result = "done" => ~Marks(o)
    /\ loc[p].result = "pending" => loc[p].sv = Home[o]
Handled(p) == Through(p) /\ Found(p) /\ (pc[p] \in AfterAll => todo[p] = << >>)

TInv ==
  Traced =>
    /\ Placed /\ Known /\ Remembered
    /\ \A p \in Proc : PlacedAt(p) /\ Handled(p)

(* Whoever reconciles found a selection.                                   *)
Selected(p) ==
  /\ pc[p] \in {"r_wait", "r_key", "r_save"} => saved.mode # "none"
  /\ pc[p] \in {"r_mix", "r_live"} /\ loc[p].why # "remix" => saved.mode # "none"

(* Of the keys to delete the owner key is last, and all that are there are *)
(* among them.                                                             *)
OwnerLast(left) == \A i \in 1..Len(left) : left[i] = "owner" <=> i = Len(left)
ToGo(p) ==
  pc[p] = "delete" =>
    /\ at[p] \in Ids
    /\ loc[p].left \in Seq(Key) /\ loc[p].left # << >> /\ OwnerLast(loc[p].left)
    /\ \A k \in Key : meta[at[p]][k] # "none" => k \in ToSet(loc[p].left)

AInv == \A p \in Proc : Selected(p) /\ ToGo(p)

-----------------------------------------------------------------------------
(* A step of p that touches neither the metadata nor what is known of it.  *)
Aside(p) ==
  /\ UNCHANGED <<sink, meta>>
  /\ saved'.id = saved.id /\ saved'.pending = saved.pending /\ saved'.legacy = saved.legacy
  /\ Chosen => Chosen'
  /\ saved'.mode # saved.mode => p \in Users /\ pc[p] = "mode"
  /\ pc[p] \in {"r_key", "r_save"} => Fault("put") \/ Fault("fail") \/ Fault("kill")
  /\ pc'[p] \notin {"r_key", "r_save", "delete", "record"}
  /\ pc'[p] = "look" => todo'[p] = All
  /\ pc'[p] \in AfterAll => pc[p] \in AfterAll /\ todo'[p] = todo[p] /\ (loc'[p].bad = FALSE => loc[p].bad = FALSE)
  /\ pc'[p] \in {"r_wait", "r_mix", "r_live"} => Selected(p)'

(* Such are turning off and dying,                                         *)
LEMMA EndsAside ==
  ASSUME Turns, TypeOK, CInv, NEW u \in Users, TurnOff(u) \/ Kill(u)
  PROVE  Aside(u)
  <1> USE RoutingAssumption DEF Turns, IInv, Shape, Rows, Proc, Step, Goto, Outputs, End, CleanUp
  <1>1. CASE TurnOff(u)
    BY <1>1 DEF Aside, pipewire, AfterAll, Chosen, TurnOff
  <1>2. CASE Kill(u)
    BY <1>2 DEF Aside, pipewire, AfterAll, Chosen, Kill
  <1>3. QED BY <1>1, <1>2

(* the steps of `on`,                                                      *)
LEMMA OnAside ==
  ASSUME Turns, TypeOK, CInv, NEW u \in Users, On(u)
  PROVE  Aside(u)
  <1> USE RoutingAssumption DEF Turns, IInv, Shape, Rows, Proc, Step, Goto, Outputs, End, CleanUp
  <1>1. CASE TurnOn(u)
    BY <1>1 DEF Aside, pipewire, AfterAll, Chosen, TurnOn, SwitchOn, Selected
  <1>2. CASE Reenable(u)
    BY <1>2 DEF Aside, pipewire, AfterAll, Chosen, Reenable
  <1>3. CASE WriteConfig(u)
    BY <1>3 DEF Aside, pipewire, AfterAll, Chosen, WriteConfig
  <1>4. CASE SaveMode(u)
    BY <1>4 DEF Aside, pipewire, AfterAll, Chosen, SaveMode, CInv, Removed
  <1>5. CASE EnableFilter(u)
    BY <1>5 DEF Aside, pipewire, AfterAll, Chosen, EnableFilter, Launch, MoveWithPost
  <1>6. CASE Started(u)
    BY <1>6 DEF Aside, pipewire, AfterAll, Chosen, Started
  <1>7. CASE Verify(u)
    BY <1>7 DEF Aside, pipewire, AfterAll, Chosen, Verify
  <1>8. CASE OnFails(u)
    BY <1>8 DEF Aside, pipewire, AfterAll, Chosen, OnFails
  <1>9. CASE OnUnread(u)
    BY <1>9 DEF Aside, pipewire, AfterAll, Chosen, OnUnread, SwitchOn, Selected
  <1>10. QED BY <1>1, <1>2, <1>3, <1>4, <1>5, <1>6, <1>7, <1>8, <1>9 DEF On

(* those of a mix command,                                                 *)
LEMMA MixAside ==
  ASSUME Turns, TypeOK, CInv, NEW u \in Users, Mix(u)
  PROVE  Aside(u)
  <1> USE RoutingAssumption DEF Turns, IInv, Shape, Rows, Proc, Step, Goto, Outputs, End, CleanUp
  <1>1. CASE Lock(u)
    BY <1>1 DEF Aside, pipewire, AfterAll, Chosen, Lock
  <1>2. CASE MixRead(u)
    BY <1>2 DEF Aside, pipewire, AfterAll, Chosen, MixRead
  <1>3. CASE MixConfig(u)
    BY <1>3 DEF Aside, pipewire, AfterAll, Chosen, MixConfig
  <1>4. CASE MixLive(u)
    BY <1>4 DEF Aside, pipewire, AfterAll, Chosen, MixLive, PutBack, Next1
  <1>5. CASE MixUndo(u)
    BY <1>5 DEF Aside, pipewire, AfterAll, Chosen, MixUndo
  <1>6. CASE MixRelive(u)
    BY <1>6 DEF Aside, pipewire, AfterAll, Chosen, MixRelive, Next1
  <1>7. CASE MixSave(u)
    BY <1>7 DEF Aside, pipewire, AfterAll, Chosen, MixSave
  <1>8. CASE MixFails(u)
    BY <1>8 DEF Aside, pipewire, AfterAll, Chosen, MixFails, PutBack, Next1
  <1>9. QED BY <1>1, <1>2, <1>3, <1>4, <1>5, <1>6, <1>7, <1>8 DEF Mix

(* those of the oneshot,                                                   *)
LEMMA OneshotAside ==
  ASSUME Turns, TypeOK, CInv, NEW u \in Users, Oneshot(u)
  PROVE  Aside(u)
  <1> USE RoutingAssumption DEF Turns, IInv, Shape, Rows, Proc, Step, Goto, Outputs, End, CleanUp
  <1>1. CASE Restore(u)
    BY <1>1 DEF Aside, pipewire, AfterAll, Chosen, Restore
  <1>2. CASE Try(u)
    BY <1>2 DEF Aside, pipewire, AfterAll, Chosen, Try
  <1>3. CASE Revive(u)
    BY <1>3 DEF Aside, pipewire, AfterAll, Chosen, Revive, Launch, MoveWithPost
  <1>4. CASE Revived(u)
    BY <1>4 DEF Aside, pipewire, AfterAll, Chosen, Revived
  <1>5. CASE ReviveFails(u)
    BY <1>5 DEF Aside, pipewire, AfterAll, Chosen, ReviveFails
  <1>6. CASE Again(u)
    BY <1>6 DEF Aside, pipewire, AfterAll, Chosen, Again
  <1>7. QED BY <1>1, <1>2, <1>3, <1>4, <1>5, <1>6 DEF Oneshot

(* Cleaning up, but where it looks at metadata or forgets.                 *)
LEMMA StopsAside ==
  ASSUME Turns, TypeOK, CInv, NEW u \in Users, StopFilter(u) \/ StopFails(u) \/ Cleaned(u)
  PROVE  Aside(u)
  <1> USE RoutingAssumption DEF Turns, IInv, Shape, Rows, Proc, Step, Goto, Outputs, End, CleanUp
  <1>f. DOMAIN loc[u] = DOMAIN Fresh /\ "bad" \in DOMAIN Fresh
    BY FieldsHold, FreshTyped DEF Fields
  <1>1. CASE StopFilter(u)
    BY <1>1 DEF Aside, pipewire, AfterAll, Chosen, StopFilter, MoveWithPost
  <1>2. CASE StopFails(u)
    BY <1>2, <1>f DEF Aside, pipewire, AfterAll, Chosen, StopFails
  <1>3. CASE Cleaned(u)
    BY <1>3 DEF Aside, pipewire, AfterAll, Chosen, Cleaned, BackFromCleanUp
  <1>4. QED BY <1>1, <1>2, <1>3

(* Reconciling, but where it puts keys or saves their id.                  *)
LEMMA ReconcileAside ==
  ASSUME Turns, TypeOK, CInv, NEW p \in Proc, Selected(p),
         \/ ReconcileBegin(p) \/ ReadMix(p) \/ ApplyMix(p) \/ ReconcileFails(p)
         \/ (ReconcileWait(p) \/ ClaimUnread(p)) /\ pc'[p] # "r_key"
  PROVE  Aside(p)
  <1> USE RoutingAssumption DEF Turns, IInv, Shape, Rows, Proc, Step, Goto, Outputs, End, CleanUp
  <1>f. DOMAIN loc[p] = DOMAIN Fresh /\ "why" \in DOMAIN Fresh
    BY FieldsHold, FreshTyped DEF Fields
  <1> DEFINE Over ==
         /\ pc'[p] \in {"idle", "look", "again"}
         /\ pc'[p] = "look" => todo'[p] = All
  <1>n. ASSUME NotReconciled(p) PROVE Over
    <2>1. End(p, "idle") \/ End(p, "failed") \/ CleanUp(p, "rollback") \/ Goto(p, "again")
      BY <1>n, NotReconciledIs DEF End, CleanUp, Goto
    <2>2. QED BY <2>1
  <1>1. CASE ReconcileBegin(p)
    <2>1. /\ UNCHANGED <<sink, meta, config, saved>> /\ pc[p] \in {"r_begin", "reconcile"}
          /\ (pc'[p] = "r_wait" /\ saved.mode # "none") \/ NotReconciled(p)
      BY <1>1 DEF ReconcileBegin, pipewire
    <2>2. QED BY <2>1, <1>n DEF Aside, AfterAll, Chosen, Selected
  <1>2. CASE (ReconcileWait(p) \/ ClaimUnread(p)) /\ pc'[p] # "r_key"
    <2>0. ~ \E o \in Output : Claim(p, o)
      BY <1>2 DEF Claim
    <2>1. /\ UNCHANGED <<sink, meta, config, saved>> /\ pc[p] = "r_wait" /\ NotReconciled(p)
      BY <1>2, <2>0 DEF ReconcileWait, ClaimUnread, pipewire
    <2>2. QED BY <2>1, <1>n DEF Aside, AfterAll, Chosen
  <1>3. CASE ReadMix(p)
    <2>1. /\ UNCHANGED <<sink, meta, config, saved>> /\ pc[p] = "r_mix" /\ pc'[p] = "r_live" /\ loc'[p].why = loc[p].why
      BY <1>3, <1>f DEF ReadMix, pipewire
    <2>2. QED BY <2>1, <1>n DEF Aside, AfterAll, Chosen, Selected
  <1>4. CASE ApplyMix(p)
    <2>1. /\ UNCHANGED <<sink, meta, config, saved>> /\ pc[p] = "r_live"
          /\ \/ NotReconciled(p) \/ Reconciled(p)
             \/ loc' = loc /\ pc'[p] = IF loc[p].why = "remix" THEN "r_mix" ELSE "r_wait"
      BY <1>4 DEF ApplyMix, pipewire
    <2>2. Reconciled(p) => pc'[p] \in {"idle", "reenable"} \/ (pc'[p] = "r_mix" /\ loc'[p].why = "remix")
      BY <1>f, ReconciledIs
    <2>3. QED BY <2>1, <2>2, <1>n DEF Aside, AfterAll, Chosen, Selected
  <1>5. CASE ReconcileFails(p)
    <2>1. /\ UNCHANGED <<sink, meta, config, saved>> /\ NotReconciled(p) /\ (Fault("put") \/ Fault("fail"))
      BY <1>5 DEF ReconcileFails, pipewire
    <2>2. QED BY <2>1, <1>n DEF Aside, AfterAll, Chosen
  <1>6. QED BY <1>1, <1>2, <1>3, <1>4, <1>5

(* Disturbances are only ever added.                                       *)
LEMMA ZeroKeeps ==
  ASSUME Counts, Next
  PROVE  /\ \A kind : Zero(kind)' => Zero(kind)
         /\ Well => \A kind : Zero(kind)' <=> Zero(kind)
         /\ \A kind : Fault(kind) => ~Zero(kind)'
  <1>1. Well => \A kind : Zero(kind)' <=> Zero(kind)
    BY DEF Well, Zero
  <1>2. ASSUME NEW kind, Fault(kind) PROVE (\A k : Zero(k)' => Zero(k)) /\ ~Zero(kind)'
    <2>1. kind \in Faults /\ hit' = [hit EXCEPT ![kind] = @ + 1]
      BY <1>2 DEF Fault
    <2>2. QED BY <2>1 DEF Counts, Zero
  <1>3. QED BY <1>1, <1>2, WellOrFault

(* The two sinks have two ids.                                             *)
LEMMA Homes == /\ \A o \in Output : Home[o] \in Ids /\ Home[o] # 0
               /\ \A o, q \in Output : Home[o] = Home[q] => o = q
               /\ "line" \in Output
  <1>1. Home \in Places /\ Home \in [Output -> Ids]
    BY HomeIsPlace
  <1>2. QED BY <1>1, RoutingAssumption DEF Places, Output

Busy == {"r_wait", "r_key", "r_save", "r_mix", "r_live"} \cup CleanLabel

(* Whoever is at one of these labels is alone there, before and after his  *)
(* step.                                                                   *)
LEMMA OnlyOne ==
  ASSUME Turns, NEW p \in Proc, Works(p), pc[p] \in Busy, NEW q \in Proc \ {p}
  PROVE  pc[q] \notin Busy /\ pc'[q] \notin Busy
  <1>1. \A r : pc[r] \in Busy => Switches(r) /\ pc[r] \notin Awaits /\ pc[r] # "idle"
    BY DEF Busy, CleanLabel, AfterAll, Switches, MixLabel, Awaits
  <1>2. pc[q] \notin Busy
    BY <1>1 DEF Turns, Alone, PostAlone, Proc
  <1>3. pc'[q] = pc[q] \/ pc'[q] \in {"idle", "r_begin"}
    BY OthersRest DEF Same
  <1>4. QED BY <1>2, <1>3 DEF Busy, CleanLabel, AfterAll

(* So that it is enough to look at what he does.                           *)
LEMMA OwnSuffices ==
  ASSUME Turns, NEW p \in Proc, Works(p), pc[p] \in Busy, Selected(p)', ToGo(p)',
         Traced' => Placed' /\ Known' /\ Remembered' /\ PlacedAt(p)' /\ Handled(p)'
  PROVE  AInv' /\ TInv'
  <1>1. ASSUME NEW q \in Proc \ {p} PROVE Selected(q)' /\ ToGo(q)' /\ PlacedAt(q)' /\ Handled(q)'
    <2>1. pc'[q] \notin Busy
      BY OnlyOne
    <2>2. QED BY <2>1 DEF Busy, CleanLabel, AfterAll, WorksAt, Selected, ToGo, PlacedAt, Handled, Through, Found
  <1>2. QED BY <1>1 DEF AInv, TInv

(* A step that touches neither the metadata nor what is known of it.       *)
LEMMA AsideKeeps ==
  ASSUME Turns, TypeOK, AInv, TInv, Next, NEW p \in Proc, Works(p), Aside(p)
  PROVE  AInv' /\ TInv'
  <1>z. \A kind : Zero(kind)' => Zero(kind)
    BY ZeroKeeps DEF Turns
  <1>f. Unharmed' => pc[p] \notin {"r_key", "r_save"}
    BY ZeroKeeps DEF Turns, Unharmed, Aside
  <1>s. UNCHANGED <<sink, meta>> /\ saved'.id = saved.id /\ saved'.pending = saved.pending /\ saved'.legacy = saved.legacy
    BY DEF Aside
  <1>o. ASSUME NEW q \in Proc \ {p} PROVE Same(q) \/ (q = Post /\ pc[q] = "idle" /\ pc'[q] \in {"idle", "r_begin"})
    BY OthersRest
  <1>1. ASSUME NEW q \in Proc PROVE Selected(q)' /\ ToGo(q)'
    <2>1. CASE q = p
      BY <2>1 DEF Aside, Selected, ToGo
    <2>2. CASE q # p /\ Same(q)
      <3>1. ToGo(q)'
        BY <1>s, <2>2 DEF Same, ToGo, AInv
      <3>2. CASE saved'.mode = saved.mode
        BY <2>2, <3>1, <3>2 DEF Same, Selected, AInv
      <3>3. CASE saved'.mode # saved.mode
        <4>1. p \in Users /\ Switches(p) /\ pc[p] \notin Awaits
          BY <3>3 DEF Aside, Switches, Awaits, MixLabel
        <4>2. ~Switches(q)
          BY <2>2, <4>1, OthersIdle
        <4>3. pc'[q] \notin {"r_wait", "r_key", "r_save", "r_mix", "r_live"}
          BY <2>2, <4>2 DEF Same, Switches, MixLabel
        <4>4. QED BY <3>1, <4>3 DEF Selected
      <3>4. QED BY <3>2, <3>3
    <2>3. CASE q = Post /\ pc'[q] \in {"idle", "r_begin"}
      BY <2>3 DEF Selected, ToGo
    <2>4. QED BY <1>o, <2>1, <2>2, <2>3
  <1> SUFFICES ASSUME Traced'
               PROVE  (Placed /\ Known /\ Remembered /\ \A q \in Proc : PlacedAt(q) /\ Handled(q))'
    BY <1>1 DEF AInv, TInv
  <1>t. Traced /\ Placed /\ Known /\ Remembered /\ \A q \in Proc : PlacedAt(q) /\ Handled(q)
    BY <1>z DEF Traced, Stayed, Unharmed, TInv
  <1>2. Placed'
    BY <1>z, <1>s, <1>t DEF Placed, Stayed
  <1>3. \A o \in Output : (Marks(o)' <=> Marks(o)) /\ SavedId(o)' = SavedId(o)
    BY <1>s DEF Marks, SavedId
  <1>4. Known'
    <2> SUFFICES ASSUME Unharmed', NEW o \in Output, Marks(o)', SavedId(o)' = 0
                 PROVE  \E q \in Proc : Puts(q, o)'
      BY DEF Known
    <2>1. PICK q \in Proc : Puts(q, o)
      BY <1>z, <1>t, <1>3 DEF Known, Unharmed
    <2>2. q # p /\ pc[q] # "idle"
      BY <1>f, <2>1 DEF Puts
    <2>3. Same(q)
      BY <1>o, <2>2
    <2>4. QED BY <2>1, <2>3 DEF Same, Puts, Due
  <1>5. Remembered'
    BY <1>z, <1>s, <1>t, <1>3 DEF Remembered, Aside
  <1>6. ASSUME NEW q \in Proc PROVE PlacedAt(q)' /\ Handled(q)'
    <2>1. CASE q = p
      <3>1. PlacedAt(q)' /\ Found(q)'
        BY <2>1 DEF Aside, PlacedAt, WorksAt, Found
      <3>2. CASE pc'[q] = "look"
        <4>1. Output \ ToSet(todo'[q]) = {}
          BY <2>1, <3>2 DEF Aside, All, Output, ToSet
        <4>2. QED BY <3>1, <3>2, <4>1 DEF Handled, Through, AfterAll
      <3>3. CASE pc'[q] \in AfterAll
        <4>1. pc[q] \in AfterAll /\ todo'[q] = todo[q] /\ (loc'[q].bad = FALSE => loc[q].bad = FALSE)
          BY <2>1, <3>3 DEF Aside
        <4>2. Through(q) /\ todo[q] = << >>
          BY <1>t, <4>1 DEF Handled
        <4>3. Through(q)'
          BY <1>z, <1>s, <1>3, <4>1, <4>2 DEF Through, CleanLabel
        <4>4. QED BY <3>1, <4>1, <4>2, <4>3 DEF Handled
      <3>4. CASE pc'[q] \notin CleanLabel
        BY <3>1, <3>4 DEF Handled, Through, CleanLabel
      <3>5. QED BY <2>1, <3>2, <3>3, <3>4 DEF CleanLabel, Aside
    <2>2. CASE q # p /\ Same(q)
      <3>1. PlacedAt(q)'
        BY <1>t, <2>2 DEF Same, PlacedAt, Due
      <3>2. Through(q)'
        BY <1>z, <1>s, <1>t, <1>3, <2>2 DEF Same, Handled, Through
      <3>3. Found(q)'
        BY <1>z, <1>t, <1>3, <2>2 DEF Same, Handled, Found, Due
      <3>4. QED BY <1>t, <2>2, <3>1, <3>2, <3>3 DEF Same, Handled
    <2>3. CASE q = Post /\ pc'[q] \in {"idle", "r_begin"}
      BY <2>3 DEF PlacedAt, WorksAt, Handled, Through, Found, CleanLabel, AfterAll
    <2>4. QED BY <1>o, <2>1, <2>2, <2>3
  <1>7. QED BY <1>2, <1>4, <1>5, <1>6

(* A sink that may be claimed is where it was at first.                    *)
LEMMA WaitTraces ==
  ASSUME Turns, TypeOK, AInv, TInv, Next, NEW p \in Proc, ReconcileWait(p) \/ ClaimUnread(p), pc'[p] = "r_key"
  PROVE  AInv' /\ TInv'
  <1> USE RoutingAssumption DEF Turns, IInv, Shape, Rows
  <1>0. Works(p) /\ pc[p] = "r_wait"
    BY DEF Works, Reconcile, ReconcileWait, ClaimUnread, Step
  <1>1. PICK o \in Output :
          /\ Due(p, o) /\ sink[o] # 0 /\ todo' = todo
          /\ at' = [at EXCEPT ![p] = sink[o]]
    <2>1. ASSUME NotReconciled(p) PROVE FALSE
      <3>1. End(p, "idle") \/ End(p, "failed") \/ CleanUp(p, "rollback") \/ Goto(p, "again")
        BY <2>1, NotReconciledIs
      <3>2. QED BY <3>1 DEF End, CleanUp, Goto
    <2>2. QED BY <2>1 DEF ReconcileWait, ClaimUnread, Claim
  <1>2. UNCHANGED <<sink, meta, config, saved>>
    BY DEF ReconcileWait, ClaimUnread, pipewire
  <1>3. Selected(p)' /\ ToGo(p)'
    BY <1>0, <1>2 DEF AInv, Selected, ToGo
  <1>z. \A kind : Zero(kind)' => Zero(kind)
    BY ZeroKeeps
  <1>4. ASSUME Traced' PROVE (Placed /\ Known /\ Remembered /\ PlacedAt(p) /\ Handled(p))'
    <2>1. Placed /\ Known /\ Remembered
      BY <1>z, <1>4 DEF Traced, Stayed, Unharmed, TInv
    <2>2. Placed'
      BY <1>2, <1>z, <2>1 DEF Placed, Stayed
    <2>3. PlacedAt(p)'
      <3>1. sink[o] = Home[o] /\ at'[p] = sink[o]
        BY <1>1, <2>1 DEF Placed
      <3>2. Due(p, o)'
        BY <1>1 DEF Due
      <3>3. QED BY <3>1, <3>2 DEF PlacedAt
    <2>4. Handled(p)'
      BY DEF Handled, Through, Found, CleanLabel, AfterAll
    <2>5. \A q \in Proc, r \in Output : ~Puts(q, r)
      BY <1>0, OnlyOne DEF Puts, Busy
    <2>6. Known' /\ Remembered'
      BY <1>2, <1>z, <2>1, <2>5 DEF Known, Remembered, Unharmed, Marks, SavedId, Chosen
    <2>7. QED BY <2>2, <2>3, <2>4, <2>6
  <1>5. QED BY <1>0, <1>3, <1>4, OwnSuffices DEF Busy

(* Keys are put while their id is noted next, and for a selection.         *)
LEMMA PutTraces ==
  ASSUME Turns, TypeOK, AInv, TInv, Next, NEW p \in Proc, PutKey(p)
  PROVE  AInv' /\ TInv'
  <1> USE RoutingAssumption DEF Turns, IInv, Shape, Rows
  <1>0. Works(p) /\ pc[p] = "r_key" /\ pc'[p] \in {"r_key", "r_save"}
    BY DEF Works, Reconcile, PutKey, Step, Goto
  <1>1. PICK o \in Output : Due(p, o) /\ meta' = [meta EXCEPT ![at[p]][Head(loc[p].left)] = o]
    BY DEF PutKey
  <1>2. UNCHANGED <<sink, config, saved, at, todo>> /\ Well
    BY DEF PutKey
  <1>3. Selected(p)' /\ ToGo(p)'
    BY <1>0, <1>2 DEF AInv, Selected, ToGo
  <1>z. \A kind : Zero(kind)' <=> Zero(kind)
    BY <1>2, ZeroKeeps
  <1>4. ASSUME Traced' PROVE (Placed /\ Known /\ Remembered /\ PlacedAt(p) /\ Handled(p))'
    <2>1. Placed /\ Known /\ Remembered /\ PlacedAt(p)
      BY <1>z, <1>4 DEF Traced, Stayed, Unharmed, TInv
    <2>2. Placed'
      BY <1>2, <1>z, <2>1 DEF Placed, Stayed
    <2>3. PlacedAt(p)'
      BY <1>0, <1>2, <2>1 DEF PlacedAt, WorksAt, Due
    <2>4. Handled(p)'
      BY <1>0 DEF Handled, Through, Found, CleanLabel, AfterAll
    <2>5. at[p] = Home[o]
      BY <1>0, <1>1, <2>1 DEF PlacedAt, WorksAt, Due
    <2>6. ASSUME NEW r \in Output, r # o PROVE Marks(r)' <=> Marks(r)
      BY <1>1, <2>5, <2>6, Homes DEF Marks
    <2>7. Puts(p, o)'
      BY <1>0, <1>1, <1>2 DEF Puts, Due
    <2>8. Known'
      <3> SUFFICES ASSUME Unharmed', NEW r \in Output, Marks(r)', SavedId(r)' = 0, r # o
                   PROVE  FALSE
        BY <2>7 DEF Known
      <3>1. SavedId(r) = 0 /\ Unharmed
        BY <1>2, <1>z DEF SavedId, Unharmed
      <3>2. PICK q \in Proc : Puts(q, r)
        BY <2>1, <2>6, <3>1 DEF Known
      <3>3. q = p
        BY <1>0, <3>2, OnlyOne DEF Puts, Busy
      <3>4. QED BY <1>1, <3>2, <3>3 DEF Puts, Due
    <2>9. Remembered'
      BY <1>0, <1>2 DEF AInv, Selected, Remembered, Chosen
    <2>10. QED BY <2>2, <2>3, <2>4, <2>8, <2>9
  <1>5. QED BY <1>0, <1>3, <1>4, OwnSuffices DEF Busy

(* Then the id is saved.                                                   *)
LEMMA SaveTraces ==
  ASSUME Turns, TypeOK, AInv, TInv, Next, NEW p \in Proc, SaveId(p) \/ SavedUnread(p)
  PROVE  AInv' /\ TInv'
  <1> USE RoutingAssumption DEF Turns, IInv, Shape, Rows
  <1>0. Works(p) /\ pc[p] = "r_save"
    BY DEF Works, Reconcile, SaveId, SavedUnread, Step
  <1>1. PICK o \in Output :
          /\ Due(p, o) /\ saved' = [saved EXCEPT !.id[o] = at[p]]
          /\ (pc'[p] = "r_mix" /\ loc' = loc) \/ NotReconciled(p)
    BY DEF SaveId, SavedUnread, Goto
  <1>2. UNCHANGED <<sink, meta, config>>
    BY DEF SaveId, SavedUnread, pipewire
  <1>f. saved \in Files /\ DOMAIN saved.id = Output
    BY DEF TypeOK, HostOK, Files
  <1>s. /\ saved'.mode = saved.mode /\ saved'.pending = saved.pending /\ saved'.legacy = saved.legacy
        /\ saved'.id = [saved.id EXCEPT ![o] = at[p]]
    BY <1>1, <1>f DEF Files
  <1>e. NotReconciled(p) => pc'[p] \in {"idle", "look", "again"} /\ (pc'[p] = "look" => todo'[p] = All)
    <2> SUFFICES ASSUME NotReconciled(p) PROVE pc'[p] \in {"idle", "look", "again"} /\ (pc'[p] = "look" => todo'[p] = All)
      OBVIOUS
    <2>1. End(p, "idle") \/ End(p, "failed") \/ CleanUp(p, "rollback") \/ Goto(p, "again")
      BY NotReconciledIs
    <2>2. QED BY <2>1 DEF End, CleanUp, Goto, Outputs
  <1>3. Selected(p)' /\ ToGo(p)'
    BY <1>0, <1>1, <1>s, <1>e DEF AInv, Selected, ToGo
  <1>z. \A kind : Zero(kind)' => Zero(kind)
    BY ZeroKeeps
  <1>4. ASSUME Traced' PROVE (Placed /\ Known /\ Remembered /\ PlacedAt(p) /\ Handled(p))'
    <2>1. Placed /\ Known /\ Remembered /\ PlacedAt(p)
      BY <1>z, <1>4 DEF Traced, Stayed, Unharmed, TInv
    <2>2. at[p] = Home[o]
      BY <1>0, <1>1, <2>1 DEF PlacedAt, WorksAt, Due
    <2>3. Placed'
      BY <1>2, <1>f, <1>s, <1>z, <2>1, <2>2 DEF Placed, Stayed
    <2>4. PlacedAt(p)' /\ Found(p)'
      BY <1>1, <1>e DEF PlacedAt, WorksAt, Found
    <2>5. Handled(p)'
      <3>1. pc'[p] = "look" => Output \ ToSet(todo'[p]) = {}
        BY <1>1, <1>e DEF All, Output, ToSet
      <3>2. QED BY <1>1, <1>e, <2>4, <3>1 DEF Handled, Through, AfterAll, CleanLabel
    <2>6. \A r \in Output : Marks(r)' <=> Marks(r)
      BY <1>2 DEF Marks
    <2>7. Known'
      <3> SUFFICES ASSUME Unharmed', NEW r \in Output, Marks(r)', SavedId(r)' = 0
                   PROVE  FALSE
        BY DEF Known
      <3>1. r # o
        BY <1>f, <1>s, <2>2, Homes DEF SavedId
      <3>2. SavedId(r) = 0 /\ Unharmed
        BY <1>f, <1>s, <1>z, <3>1 DEF SavedId, Unharmed
      <3>3. PICK q \in Proc : Puts(q, r)
        BY <2>1, <2>6, <3>2 DEF Known
      <3>4. q = p
        BY <1>0, <3>3, OnlyOne DEF Puts, Busy
      <3>5. QED BY <1>1, <3>1, <3>3, <3>4 DEF Puts, Due
    <2>8. Remembered'
      BY <1>2, <1>s, <1>z, <2>1, <2>6 DEF Remembered, Chosen
    <2>9. QED BY <2>3, <2>4, <2>5, <2>7, <2>8
  <1>5. QED BY <1>0, <1>3, <1>4, OwnSuffices DEF Busy

(* What is left when the first is taken off.                               *)
LEMMA TailIs ==
  ASSUME NEW S, NEW s \in Seq(S), s # << >>
  PROVE  /\ Len(s) \in Nat /\ Len(s) >= 1 /\ Head(s) = s[1]
         /\ Tail(s) \in Seq(S) /\ Len(Tail(s)) = Len(s) - 1
         /\ \A i \in 1..(Len(s) - 1) : Tail(s)[i] = s[i + 1]
         /\ Len(s) = 1 <=> Tail(s) = << >>
         /\ Tail(s) = << >> => ToSet(s) = {Head(s)}
         /\ ToSet(s) = {Head(s)} \cup ToSet(Tail(s))
  <1>1. /\ Len(s) \in Nat /\ Len(s) >= 1 /\ Head(s) = s[1]
        /\ Tail(s) \in Seq(S) /\ Len(Tail(s)) = Len(s) - 1
        /\ \A i \in 1..(Len(s) - 1) : Tail(s)[i] = s[i + 1]
    BY HeadTailProperties, EmptySeq
  <1>2. DOMAIN s = 1..Len(s) /\ DOMAIN Tail(s) = 1..(Len(s) - 1)
    BY <1>1, LenProperties
  <1>3. Len(s) = 1 <=> Tail(s) = << >>
    <2>1. Len(Tail(s)) = 0 <=> Tail(s) = << >>
      BY <1>1, EmptySeq
    <2>2. Len(Tail(s)) = 0 <=> Len(s) = 1
      BY <1>1
    <2>3. QED BY <2>1, <2>2
  <1>4. ASSUME NEW r \in ToSet(s), r # Head(s) PROVE r \in ToSet(Tail(s))
    <2>1. PICK i \in 1..Len(s) : s[i] = r
      BY <1>2, <1>4, Zenon DEF ToSet
    <2>2. i # 1
      BY <1>1, <1>4, <2>1, Zenon
    <2>3. i - 1 \in 1..(Len(s) - 1) /\ (i - 1) + 1 = i
      BY <1>1, <2>2
    <2>4. Tail(s)[i - 1] = r
      BY <1>1, <2>1, <2>3, Zenon
    <2>5. QED BY <1>2, <2>3, <2>4, Zenon DEF ToSet
  <1>5. Head(s) \in ToSet(s)
    <2>1. 1 \in 1..Len(s)
      BY <1>1
    <2>2. QED BY <1>1, <1>2, <2>1, Zenon DEF ToSet
  <1>6. ASSUME NEW r \in ToSet(Tail(s)) PROVE r \in ToSet(s)
    <2>1. PICK i \in 1..(Len(s) - 1) : Tail(s)[i] = r
      BY <1>2, <1>6, Zenon DEF ToSet
    <2>2. i + 1 \in 1..Len(s)
      BY <1>1
    <2>3. s[i + 1] = r
      BY <1>1, <2>1, Zenon
    <2>4. QED BY <1>2, <2>2, <2>3, Zenon DEF ToSet
  <1>7. ToSet(s) = {Head(s)} \cup ToSet(Tail(s))
    BY <1>4, <1>5, <1>6
  <1>8. Tail(s) = << >> => ToSet(s) = {Head(s)}
    <2>1. ToSet(<< >>) = {}
      BY DEF ToSet
    <2>2. QED BY <1>7, <2>1
  <1>9. QED BY <1>1, <1>3, <1>7, <1>8

(* Taking the first key off the keys to delete.                            *)
LEMMA OneFewer ==
  ASSUME NEW left \in Seq(Key), left # << >>, OwnerLast(left)
  PROVE  /\ Len(left) \in Nat
         /\ Len(left) = 1 => Head(left) = "owner" /\ ToSet(left) = {"owner"}
         /\ Len(left) # 1 => /\ Head(left) # "owner"
                             /\ Tail(left) \in Seq(Key) /\ Tail(left) # << >> /\ OwnerLast(Tail(left))
                             /\ \A k \in ToSet(left) : k = Head(left) \/ k \in ToSet(Tail(left))
  <1> DEFINE n == Len(left)
  <1>1. /\ n \in Nat /\ n >= 1 /\ Head(left) = left[1]
        /\ Tail(left) \in Seq(Key) /\ Len(Tail(left)) = n - 1
        /\ \A i \in 1..(n - 1) : Tail(left)[i] = left[i + 1]
        /\ n = 1 <=> Tail(left) = << >>
        /\ Tail(left) = << >> => ToSet(left) = {Head(left)}
        /\ \A k \in ToSet(left) : k = Head(left) \/ k \in ToSet(Tail(left))
    BY TailIs
  <1> HIDE DEF n
  <1>2. \A i \in 1..n : left[i] = "owner" <=> i = n
    BY DEF OwnerLast, n
  <1>3. CASE n = 1
    BY <1>1, <1>2, <1>3 DEF n
  <1>4. CASE n # 1
    <2>1. n > 1 /\ 1 \in 1..n /\ 1 # n
      BY <1>1, <1>4
    <2>2. Head(left) # "owner"
      BY <1>1, <1>2, <2>1, Zenon
    <2>3. \A i \in 1..(n - 1) : i + 1 \in 1..n /\ (i + 1 = n <=> i = n - 1)
      BY <2>1, <1>1
    <2>4. \A i \in 1..(n - 1) : Tail(left)[i] = "owner" <=> i + 1 = n
      BY <1>1, <1>2, <2>3, Zenon
    <2>5. OwnerLast(Tail(left))
      BY <1>1, <2>3, <2>4, Zenon DEF OwnerLast
    <2>6. QED BY <1>1, <1>4, <2>2, <2>5 DEF n
  <1>5. QED BY <1>1, <1>3, <1>4 DEF n

(* Looking finds the keys of ours where the device is, or where it was.    *)
LEMMA LookTraces ==
  ASSUME Turns, TypeOK, AInv, TInv, Next, NEW p \in Users, Look(p)
  PROVE  AInv' /\ TInv'
  <1> USE RoutingAssumption DEF Turns, IInv, Shape, Rows
  <1>0. p \in Proc /\ Works(p) /\ pc[p] = "look"
    BY DEF Works, Clean, Look, Step, Proc
  <1>f. DOMAIN loc[p] = DOMAIN Fresh /\ {"sv", "left", "result", "bad"} \subseteq DOMAIN Fresh
    BY <1>0, FieldsHold, FreshTyped DEF Fields
  <1>1. PICK o \in Output :
          /\ Due(p, o)
          /\ IF sink[o] # 0 /\ IsOurs(o, sink[o])
             THEN /\ Goto(p, "delete") /\ at' = [at EXCEPT ![p] = sink[o]]
                  /\ loc' = [loc EXCEPT ![p].sv = SavedId(o), ![p].left = DeleteOrder]
             ELSE /\ Goto(p, "record") /\ UNCHANGED at
                  /\ loc' = [loc EXCEPT ![p].sv = SavedId(o), ![p].result =
                               IF SavedId(o) # 0 /\ SavedId(o) # sink[o] /\ IsOurs(o, SavedId(o)) THEN "pending" ELSE "done"]
    BY DEF Look
  <1>2. UNCHANGED <<sink, meta, config, saved, todo>> /\ Well
    BY DEF Look, pipewire
  <1>a. /\ \/ /\ sink[o] # 0 /\ IsOurs(o, sink[o]) /\ pc'[p] = "delete" /\ at'[p] = sink[o]
              /\ loc'[p].left = DeleteOrder
           \/ /\ ~(sink[o] # 0 /\ IsOurs(o, sink[o])) /\ pc'[p] = "record"
              /\ loc'[p].sv = SavedId(o)
              /\ loc'[p].result = IF SavedId(o) # 0 /\ SavedId(o) # sink[o] /\ IsOurs(o, SavedId(o)) THEN "pending" ELSE "done"
        /\ loc'[p].bad = loc[p].bad
    BY <1>0, <1>1, <1>f DEF Goto
  <1>3. Selected(p)' /\ ToGo(p)'
    <2>1. Selected(p)'
      BY <1>a DEF Selected
    <2>2. sink[o] \in Id0
      BY DEF TypeOK, HostOK
    <2>3. pc'[p] = "delete" => at'[p] \in Ids
      BY <1>a, <2>2 DEF Id0
    <2>4. ToGo(p)'
      BY <1>a, <2>3, Orders DEF ToGo, OwnerLast
    <2>5. QED BY <2>1, <2>4
  <1>z. \A kind : Zero(kind)' <=> Zero(kind)
    BY <1>2, ZeroKeeps
  <1>4. ASSUME Traced' PROVE (Placed /\ Known /\ Remembered /\ PlacedAt(p) /\ Handled(p))'
    <2>1. Placed /\ Known /\ Remembered /\ Handled(p)
      BY <1>0, <1>z, <1>4 DEF Traced, Stayed, Unharmed, TInv
    <2>2. Placed'
      BY <1>2, <1>z, <2>1 DEF Placed, Stayed
    <2>3. Due(p, o)'
      BY <1>1, <1>2 DEF Due
    <2>4. PlacedAt(p)'
      BY <1>a, <2>1, <2>3 DEF PlacedAt, WorksAt, Placed
    <2>5. \A r \in Output : (Marks(r)' <=> Marks(r)) /\ SavedId(r)' = SavedId(r)
      BY <1>2 DEF Marks, SavedId
    <2>6. \A q \in Proc, r \in Output : ~Puts(q, r)
      BY <1>0, OnlyOne DEF Puts, Busy, CleanLabel
    <2>7. Known' /\ Remembered'
      BY <1>2, <1>z, <2>1, <2>5, <2>6 DEF Known, Remembered, Unharmed, Chosen
    <2>8. Through(p)'
      <3> SUFFICES ASSUME Zero("delete")' \/ loc'[p].bad = FALSE, NEW r \in Output \ ToSet(todo'[p]), Marks(r)'
                   PROVE  saved'.pending[r] = Home[r]
        BY DEF Through
      <3>1. Zero("delete") \/ loc[p].bad = FALSE
        BY <1>a, <1>z, Zenon
      <3>2. QED BY <1>0, <1>2, <2>1, <2>5, <3>1 DEF Handled, Through, CleanLabel
    <2>9. SavedId(o) \in {0, Home[o]}
      BY <2>1 DEF Placed, SavedId
    <2>10. Found(p)'
      <3> SUFFICES ASSUME pc'[p] = "record", NEW r \in Output, Due(p, r)'
                   PROVE  /\ loc'[p].result \in {"error", "done", "pending"}
                          /\ loc'[p].result = "error" => ~Zero("delete")'
                          /\ loc'[p].result = "done" => ~Marks(r)'
                          /\ loc'[p].result = "pending" => loc'[p].sv = Home[r]
        BY DEF Found
      <3>1. r = o
        BY <1>1, <1>2 DEF Due
      <3>2. /\ ~(sink[o] # 0 /\ IsOurs(o, sink[o])) /\ loc'[p].sv = SavedId(o)
            /\ loc'[p].result = IF SavedId(o) # 0 /\ SavedId(o) # sink[o] /\ IsOurs(o, SavedId(o)) THEN "pending" ELSE "done"
        BY <1>a
      <3>3. loc'[p].result = "pending" => loc'[p].sv = Home[o]
        BY <2>9, <3>2
      <3>4. loc'[p].result = "done" => ~Marks(o)
        <4> SUFFICES ASSUME Marks(o), loc'[p].result = "done" PROVE FALSE
          OBVIOUS
        <4>1. sink[o] = 0
          BY <2>1, <3>2 DEF Placed, Marks, IsOurs
        <4>2. Unharmed
          BY <1>4, <1>z, <2>1, <4>1, Homes DEF Placed, Traced, Stayed, Unharmed
        <4>3. SavedId(o) # 0
          BY <2>1, <2>6, <4>2 DEF Known
        <4>4. SavedId(o) = Home[o] /\ IsOurs(o, SavedId(o))
          BY <2>9, <4>3 DEF Marks, IsOurs
        <4>5. QED BY <3>2, <4>1, <4>3, <4>4
      <3>5. QED BY <2>5, <3>1, <3>2, <3>3, <3>4
    <2>11. Handled(p)'
      BY <1>a, <2>8, <2>10 DEF Handled, AfterAll
    <2>12. QED BY <2>2, <2>4, <2>7, <2>11
  <1>5. QED BY <1>0, <1>3, <1>4, OwnSuffices DEF Busy, CleanLabel

(* With the last key, which is the owner key, nothing is left.             *)
LEMMA DeleteTraces ==
  ASSUME Turns, TypeOK, AInv, TInv, Next, NEW p \in Users, DeleteKey(p)
  PROVE  AInv' /\ TInv'
  <1> USE RoutingAssumption DEF Turns, IInv, Shape, Rows
  <1> DEFINE left == loc[p].left
  <1>0. p \in Proc /\ Works(p) /\ pc[p] = "delete"
    BY DEF Works, Clean, DeleteKey, Step, Proc
  <1>f. DOMAIN loc[p] = DOMAIN Fresh /\ {"sv", "left", "result", "bad"} \subseteq DOMAIN Fresh
    BY <1>0, FieldsHold, FreshTyped DEF Fields
  <1>1. /\ meta' = [meta EXCEPT ![at[p]][Head(left)] = "none"]
        /\ pc'[p] = IF Len(left) = 1 THEN "record" ELSE "delete"
        /\ loc'[p].left = Tail(left)
        /\ loc'[p].result = IF \E k \in Key : meta'[at[p]][k] # "none" THEN "error" ELSE "done"
        /\ loc'[p].bad = loc[p].bad
    BY <1>0, <1>f DEF DeleteKey, Goto
  <1>2. UNCHANGED <<sink, config, saved, at, todo>> /\ Well
    BY DEF DeleteKey
  <1>a. /\ at[p] \in Ids
        /\ left \in Seq(Key) /\ left # << >> /\ OwnerLast(left)
        /\ \A k \in Key : meta[at[p]][k] # "none" => k \in ToSet(left)
    BY <1>0 DEF AInv, ToGo
  <1> HIDE DEF left
  <1>b. /\ Len(left) \in Nat
        /\ Len(left) = 1 => Head(left) = "owner" /\ ToSet(left) = {"owner"}
        /\ Len(left) # 1 => /\ Head(left) # "owner"
                            /\ Tail(left) \in Seq(Key) /\ Tail(left) # << >> /\ OwnerLast(Tail(left))
                            /\ \A k \in ToSet(left) : k = Head(left) \/ k \in ToSet(Tail(left))
    BY <1>a, OneFewer
  <1>c. \A i \in Ids, k \in Key : /\ meta'[i][k] \in {meta[i][k], "none"}
                                  /\ i = at[p] /\ k = Head(left) => meta'[i][k] = "none"
    BY <1>1
  <1>d. Len(left) = 1 => \A k \in Key : meta'[at[p]][k] = "none"
    <2> SUFFICES ASSUME Len(left) = 1, NEW k \in Key, meta'[at[p]][k] # "none" PROVE FALSE
      OBVIOUS
    <2>1. meta[at[p]][k] # "none"
      BY <1>a, <1>c
    <2>2. k = Head(left)
      BY <1>a, <1>b, <2>1
    <2>3. QED BY <1>a, <1>c, <2>2
  <1>3. Selected(p)' /\ ToGo(p)'
    <2>1. Selected(p)'
      BY <1>1 DEF Selected
    <2>2. ASSUME Len(left) # 1, NEW k \in Key, meta'[at[p]][k] # "none" PROVE k \in ToSet(Tail(left))
      <3>1. meta[at[p]][k] # "none" /\ k # Head(left)
        BY <1>a, <1>c, <2>2
      <3>2. QED BY <1>a, <1>b, <2>2, <3>1
    <2>3. ToGo(p)'
      BY <1>1, <1>2, <1>a, <1>b, <2>2 DEF ToGo
    <2>4. QED BY <2>1, <2>3
  <1>z. \A kind : Zero(kind)' <=> Zero(kind)
    BY <1>2, ZeroKeeps
  <1>4. ASSUME Traced' PROVE (Placed /\ Known /\ Remembered /\ PlacedAt(p) /\ Handled(p))'
    <2>1. Placed /\ Known /\ Remembered /\ PlacedAt(p) /\ Handled(p)
      BY <1>0, <1>z, <1>4 DEF Traced, Stayed, Unharmed, TInv
    <2>2. Placed'
      BY <1>2, <1>z, <2>1 DEF Placed, Stayed
    <2>3. PlacedAt(p)'
      BY <1>0, <1>1, <1>2, <2>1 DEF PlacedAt, WorksAt, Due
    <2>4. "owner" \in Key /\ \A r \in Output : Home[r] \in Ids /\ r # "none"
      BY Homes DEF Key, Output
    <2>5. \A r \in Output : (Marks(r)' => Marks(r)) /\ SavedId(r)' = SavedId(r)
      BY <1>2, <1>c, <2>4 DEF Marks, SavedId
    <2>6. \A q \in Proc, r \in Output : ~Puts(q, r)
      BY <1>0, OnlyOne DEF Puts, Busy, CleanLabel
    <2>7. Known' /\ Remembered'
      BY <1>2, <1>z, <2>1, <2>5, <2>6 DEF Known, Remembered, Unharmed, Chosen
    <2>8. Through(p)'
      <3> SUFFICES ASSUME Zero("delete")' \/ loc'[p].bad = FALSE, NEW r \in Output \ ToSet(todo'[p]), Marks(r)'
                   PROVE  saved'.pending[r] = Home[r]
        BY DEF Through
      <3>1. Zero("delete") \/ loc[p].bad = FALSE
        BY <1>1, <1>z, Zenon
      <3>2. QED BY <1>0, <1>2, <2>1, <2>5, <3>1 DEF Handled, Through, CleanLabel
    <2>9. Found(p)'
      <3> SUFFICES ASSUME pc'[p] = "record", NEW r \in Output, Due(p, r)'
                   PROVE  loc'[p].result = "done" /\ ~Marks(r)'
        BY DEF Found
      <3>1. Len(left) = 1
        BY <1>1
      <3>2. at[p] = Home[r]
        BY <1>0, <1>2, <2>1 DEF PlacedAt, WorksAt, Due
      <3>3. QED BY <1>1, <1>d, <2>4, <3>1, <3>2 DEF Marks
    <2>10. Handled(p)'
      BY <1>1, <2>8, <2>9 DEF Handled, AfterAll
    <2>11. QED BY <2>2, <2>3, <2>7, <2>10
  <1>5. QED BY <1>0, <1>3, <1>4, OwnSuffices DEF Busy, CleanLabel

(* Keys that could not be deleted are an error.                            *)
LEMMA DeleteFailsTraces ==
  ASSUME Turns, TypeOK, AInv, TInv, Next, NEW p \in Users, DeleteFails(p)
  PROVE  AInv' /\ TInv'
  <1> USE RoutingAssumption DEF Turns, IInv, Shape, Rows
  <1>0. p \in Proc /\ Works(p) /\ pc[p] = "delete" /\ pc'[p] = "record"
    BY DEF Works, Clean, DeleteFails, Step, Goto, Proc
  <1>f. DOMAIN loc[p] = DOMAIN Fresh /\ {"sv", "left", "result", "bad"} \subseteq DOMAIN Fresh
    BY <1>0, FieldsHold, FreshTyped DEF Fields
  <1>1. loc'[p].result = "error" /\ loc'[p].bad = loc[p].bad
    BY <1>0, <1>f DEF DeleteFails
  <1>2. UNCHANGED <<sink, meta, config, saved, at, todo>>
    BY DEF DeleteFails, pipewire
  <1>3. Selected(p)' /\ ToGo(p)'
    BY <1>0 DEF Selected, ToGo
  <1>z. (\A kind : Zero(kind)' => Zero(kind)) /\ ~Zero("delete")'
    BY ZeroKeeps DEF DeleteFails
  <1>4. ASSUME Traced' PROVE (Placed /\ Known /\ Remembered /\ PlacedAt(p) /\ Handled(p))'
    <2>1. Placed /\ Handled(p)
      BY <1>0, <1>z, <1>4 DEF Traced, Stayed, Unharmed, TInv
    <2>2. Placed'
      BY <1>2, <1>z, <2>1 DEF Placed, Stayed
    <2>3. PlacedAt(p)'
      BY <1>0 DEF PlacedAt, WorksAt
    <2>4. Known' /\ Remembered'
      BY <1>z DEF Known, Remembered, Unharmed
    <2>5. Through(p)'
      <3> SUFFICES ASSUME loc'[p].bad = FALSE, NEW r \in Output \ ToSet(todo'[p]), Marks(r)'
                   PROVE  saved'.pending[r] = Home[r]
        BY <1>z DEF Through
      <3>1. loc[p].bad = FALSE
        BY <1>1, Zenon
      <3>2. Marks(r)
        BY <1>2 DEF Marks
      <3>3. QED BY <1>0, <1>2, <2>1, <3>1, <3>2 DEF Handled, Through, CleanLabel
    <2>6. Handled(p)'
      BY <1>0, <1>1, <1>z, <2>5 DEF Handled, Found, AfterAll
    <2>7. QED BY <2>2, <2>3, <2>4, <2>6
  <1>5. QED BY <1>0, <1>3, <1>4, OwnSuffices DEF Busy, CleanLabel

(* A listing that fails ends what can be said.                             *)
LEMMA UnreadTraces ==
  ASSUME Turns, TypeOK, AInv, TInv, Next, NEW p \in Users, LookUnread(p) \/ DeleteUnread(p)
  PROVE  AInv' /\ TInv'
  <1> USE RoutingAssumption DEF Turns, IInv, Shape, Rows
  <1>0. p \in Proc /\ Works(p) /\ pc[p] \in {"look", "delete"} /\ pc'[p] = "record" /\ Fault("look")
    BY DEF Works, Clean, LookUnread, DeleteUnread, Step, Goto, Proc
  <1>1. Selected(p)' /\ ToGo(p)'
    BY <1>0 DEF Selected, ToGo
  <1>2. ~Traced'
    BY <1>0, ZeroKeeps DEF Traced
  <1>3. QED BY <1>0, <1>1, <1>2, OwnSuffices DEF Busy, CleanLabel

(* What is recorded is what was found.                                     *)
LEMMA RecordTraces ==
  ASSUME Turns, TypeOK, CInv, AInv, TInv, Next, NEW p \in Users, Record(p)
  PROVE  AInv' /\ TInv'
  <1> USE RoutingAssumption DEF Turns, IInv, Shape, Rows
  <1>0. p \in Proc /\ Works(p) /\ pc[p] = "record"
    BY DEF Works, Clean, Record, Step, Proc
  <1>f. DOMAIN loc[p] = DOMAIN Fresh /\ {"sv", "left", "result", "bad"} \subseteq DOMAIN Fresh
    BY <1>0, FieldsHold, FreshTyped DEF Fields
  <1>1. PICK o \in Output :
          /\ Due(p, o)
          /\ saved' = IF loc[p].result = "error" /\ loc[p].why = "rollback" THEN saved
                      ELSE [saved EXCEPT !.pending[o] = IF loc[p].result = "pending" THEN loc[p].sv ELSE 0]
    BY DEF Record
  <1>2. UNCHANGED <<sink, meta, config>> /\ Well
    BY DEF Record, pipewire
  <1>a. /\ pc'[p] = IF Len(todo[p]) = 1 THEN "stop" ELSE "look"
        /\ loc'[p].bad = (loc[p].bad \/ loc[p].result = "error")
        /\ todo'[p] = Tail(todo[p])
    BY <1>0, <1>f DEF Record, Goto, Next1, Outputs
  <1>b. saved \in Files /\ saved.pending \in [Output -> Id0] /\ todo[p] \in Seq(Output)
    BY <1>0 DEF TypeOK, HostOK, Files, LocalOK
  <1>s. /\ saved'.mode = saved.mode /\ saved'.id = saved.id /\ saved'.legacy = saved.legacy
        /\ \/ loc[p].result = "error" /\ saved'.pending = saved.pending
           \/ saved'.pending = [saved.pending EXCEPT ![o] = IF loc[p].result = "pending" THEN loc[p].sv ELSE 0]
    BY <1>1, <1>b DEF Files
  <1>3. Selected(p)' /\ ToGo(p)'
    BY <1>a DEF Selected, ToGo
  <1>z. \A kind : Zero(kind)' <=> Zero(kind)
    BY <1>2, ZeroKeeps
  <1>t. /\ todo[p] # << >> /\ Head(todo[p]) = o
        /\ Len(todo[p]) = 1 => Tail(todo[p]) = << >>
        /\ \A r \in Output : r \in ToSet(todo[p]) => r = o \/ r \in ToSet(Tail(todo[p]))
    <2>1. todo[p] # << >> /\ Head(todo[p]) = o
      BY <1>1 DEF Due
    <2>2. QED BY <1>b, <2>1, TailIs
  <1>4. ASSUME Traced' PROVE (Placed /\ Known /\ Remembered /\ PlacedAt(p) /\ Handled(p))'
    <2>1. Placed /\ Known /\ Remembered /\ Handled(p)
      BY <1>0, <1>z, <1>4 DEF Traced, Stayed, Unharmed, TInv
    <2>2. /\ loc[p].result \in {"error", "done", "pending"}
          /\ loc[p].result = "error" => ~Zero("delete")
          /\ loc[p].result = "done" => ~Marks(o)
          /\ loc[p].result = "pending" => loc[p].sv = Home[o]
      BY <1>0, <1>1, <2>1 DEF Handled, Found
    <2>3. /\ \A r \in Output \ {o} : saved'.pending[r] = saved.pending[r]
          /\ saved'.pending[o] \in {0, Home[o]}
          /\ loc[p].result # "error" /\ Marks(o) => saved'.pending[o] = Home[o]
      BY <1>s, <1>b, <2>1, <2>2 DEF Placed
    <2>4. \A r \in Output : Marks(r)' <=> Marks(r)
      BY <1>2 DEF Marks
    <2>5. Placed'
      BY <1>2, <1>s, <1>z, <2>1, <2>3 DEF Placed, Stayed
    <2>6. PlacedAt(p)'
      BY <1>a DEF PlacedAt, WorksAt
    <2>7. \A q \in Proc, r \in Output : ~Puts(q, r)
      BY <1>0, OnlyOne DEF Puts, Busy, CleanLabel
    <2>8. Known'
      <3> SUFFICES ASSUME Unharmed', NEW r \in Output, Marks(r)' PROVE SavedId(r)' # 0
        BY DEF Known
      <3>1. Unharmed /\ Zero("delete") /\ Marks(r) /\ SavedId(r) # 0
        BY <1>z, <2>1, <2>4, <2>7 DEF Known, Unharmed
      <3>2. CASE r = o
        BY <2>2, <2>3, <3>1, <3>2, Homes DEF SavedId
      <3>3. CASE r # o
        BY <1>s, <2>3, <3>1, <3>3 DEF SavedId
      <3>4. QED BY <3>2, <3>3
    <2>9. Remembered'
      <3> SUFFICES ASSUME Zero("delete")', NEW r \in Output, Marks(r)' PROVE Chosen' \/ saved'.legacy # 0 \/ saved'.pending[r] # 0
        BY DEF Remembered
      <3>1. Zero("delete") /\ Marks(r) /\ (Chosen' <=> Chosen)
        BY <1>2, <1>s, <1>z, <2>4 DEF Chosen
      <3>2. CASE r = o
        BY <2>2, <2>3, <3>1, <3>2, Homes
      <3>3. CASE r # o
        BY <1>s, <2>1, <2>3, <3>1, <3>3 DEF Remembered
      <3>4. QED BY <3>2, <3>3
    <2>10. Through(p)'
      <3> SUFFICES ASSUME Zero("delete")' \/ loc'[p].bad = FALSE, NEW r \in Output \ ToSet(todo'[p]), Marks(r)'
                   PROVE  saved'.pending[r] = Home[r]
        BY DEF Through
      <3>a. ASSUME Zero("delete")' PROVE Zero("delete") /\ loc[p].result # "error"
        BY <1>z, <2>2, <3>a
      <3>b. ASSUME loc'[p].bad = FALSE PROVE loc[p].bad = FALSE /\ loc[p].result # "error"
        <4>1. loc[p].bad \in BOOLEAN
          BY DEF CInv, Removed
        <4>2. QED BY <1>a, <3>b, <4>1
      <3>1. (Zero("delete") \/ loc[p].bad = FALSE) /\ loc[p].result # "error"
        BY <3>a, <3>b
      <3>2. CASE r = o
        BY <2>3, <2>4, <3>1, <3>2
      <3>3. CASE r # o
        <4>1. r \notin ToSet(todo[p])
          BY <1>a, <1>t, <3>3
        <4>2. QED BY <1>0, <2>1, <2>3, <2>4, <3>1, <3>3, <4>1 DEF Handled, Through, CleanLabel
      <3>4. QED BY <3>2, <3>3
    <2>11. Handled(p)'
      BY <1>a, <1>t, <2>10 DEF Handled, Found, AfterAll
    <2>12. QED BY <2>5, <2>6, <2>8, <2>9, <2>11
  <1>5. QED BY <1>0, <1>3, <1>4, OwnSuffices DEF Busy, CleanLabel

(* The fragment and the selection go when what is on the nodes is noted.   *)
LEMMA UnconfigTraces ==
  ASSUME Turns, TypeOK, CInv, AInv, TInv, Next, NEW p \in Users, RemoveConfig(p)
  PROVE  AInv' /\ TInv'
  <1> USE RoutingAssumption DEF Turns, IInv, Shape, Rows
  <1>0. p \in Proc /\ Works(p) /\ pc[p] = "unconfig" /\ pc'[p] = "forget"
    BY DEF Works, Clean, RemoveConfig, Step, Goto, Proc
  <1>f. DOMAIN loc[p] = DOMAIN Fresh /\ {"sv", "left", "result", "bad"} \subseteq DOMAIN Fresh
    BY <1>0, FieldsHold, FreshTyped DEF Fields
  <1>1. loc'[p].bad = (loc[p].bad \/ config.by = "foreign")
    BY <1>0, <1>f DEF RemoveConfig
  <1>2. UNCHANGED <<sink, meta, saved, at, todo>> /\ Well
    BY DEF RemoveConfig, pipewire
  <1>3. Selected(p)' /\ ToGo(p)'
    BY <1>0 DEF Selected, ToGo
  <1>z. \A kind : Zero(kind)' <=> Zero(kind)
    BY <1>2, ZeroKeeps
  <1>4. ASSUME Traced' PROVE (Placed /\ Known /\ Remembered /\ PlacedAt(p) /\ Handled(p))'
    <2>1. Placed /\ Known /\ Remembered /\ Handled(p)
      BY <1>0, <1>z, <1>4 DEF Traced, Stayed, Unharmed, TInv
    <2>2. Placed'
      BY <1>2, <1>z, <2>1 DEF Placed, Stayed
    <2>3. PlacedAt(p)' /\ Found(p)'
      BY <1>0 DEF PlacedAt, WorksAt, Found
    <2>4. \A r \in Output : (Marks(r)' <=> Marks(r)) /\ SavedId(r)' = SavedId(r)
      BY <1>2 DEF Marks, SavedId
    <2>5. \A q \in Proc, r \in Output : ~Puts(q, r)
      BY <1>0, OnlyOne DEF Puts, Busy, CleanLabel, AfterAll
    <2>6. Known'
      BY <1>z, <2>1, <2>4, <2>5 DEF Known, Unharmed
    <2>7. todo[p] = << >> /\ Output \ ToSet(todo[p]) = Output
      BY <1>0, <2>1 DEF Handled, AfterAll, ToSet
    <2>8. Remembered'
      <3> SUFFICES ASSUME Zero("delete")', NEW r \in Output, Marks(r)' PROVE saved'.pending[r] # 0
        BY DEF Remembered
      <3>1. saved.pending[r] = Home[r]
        BY <1>0, <1>z, <2>1, <2>4, <2>7 DEF Handled, Through, CleanLabel, AfterAll
      <3>2. QED BY <1>2, <3>1, Homes
    <2>9. Through(p)'
      <3> SUFFICES ASSUME Zero("delete")' \/ loc'[p].bad = FALSE, NEW r \in Output \ ToSet(todo'[p]), Marks(r)'
                   PROVE  saved'.pending[r] = Home[r]
        BY DEF Through
      <3>1. ASSUME loc'[p].bad = FALSE PROVE loc[p].bad = FALSE
        <4>1. loc[p].bad \in BOOLEAN
          BY DEF CInv, Removed
        <4>2. QED BY <1>1, <3>1, <4>1
      <3>2. Zero("delete") \/ loc[p].bad = FALSE
        BY <1>z, <3>1
      <3>3. QED BY <1>0, <1>2, <2>1, <2>4, <3>2 DEF Handled, Through, CleanLabel, AfterAll
    <2>10. Handled(p)'
      BY <1>2, <2>3, <2>7, <2>9 DEF Handled
    <2>11. QED BY <2>2, <2>3, <2>6, <2>8, <2>10
  <1>5. QED BY <1>0, <1>3, <1>4, OwnSuffices DEF Busy, CleanLabel, AfterAll

(* Forget: the ids of what is still marked are pending.                    *)
LEMMA ForgetTraces ==
  ASSUME Turns, TypeOK, AInv, TInv, Next, NEW p \in Users, Forget(p)
  PROVE  AInv' /\ TInv'
  <1> USE RoutingAssumption DEF Turns, IInv, Shape, Rows
  <1>0. p \in Proc /\ Works(p) /\ pc[p] = "forget" /\ pc'[p] = "gone"
    BY DEF Works, Clean, Forget, Step, Goto, Proc
  <1>2. UNCHANGED <<sink, meta, config, at, todo, loc>> /\ Well
    BY DEF Forget, pipewire
  <1>s. saved'.mode = "none" /\ saved'.id = NoIds /\ saved'.legacy = 0 /\ saved'.pending = saved.pending
    BY DEF Forget, TypeOK, HostOK, Files
  <1>3. Selected(p)' /\ ToGo(p)'
    BY <1>0 DEF Selected, ToGo
  <1>z. \A kind : Zero(kind)' <=> Zero(kind)
    BY <1>2, ZeroKeeps
  <1>4. ASSUME Traced' PROVE (Placed /\ Known /\ Remembered /\ PlacedAt(p) /\ Handled(p))'
    <2>1. Placed /\ Handled(p)
      BY <1>0, <1>z, <1>4 DEF Traced, Stayed, Unharmed, TInv
    <2>2. Placed'
      BY <1>2, <1>s, <1>z, <2>1 DEF Placed, Stayed, NoIds
    <2>3. PlacedAt(p)' /\ Found(p)'
      BY <1>0 DEF PlacedAt, WorksAt, Found
    <2>4. \A r \in Output : Marks(r)' <=> Marks(r)
      BY <1>2 DEF Marks
    <2>5. todo[p] = << >> /\ Output \ ToSet(todo[p]) = Output
      BY <1>0, <2>1 DEF Handled, AfterAll, ToSet
    <2>6. ASSUME Zero("delete")', NEW r \in Output, Marks(r)' PROVE saved'.pending[r] = Home[r]
      BY <1>0, <1>s, <1>z, <2>1, <2>4, <2>5, <2>6 DEF Handled, Through, CleanLabel, AfterAll
    <2>7. Known'
      BY <2>6, <1>s, Homes DEF Known, Unharmed, SavedId, NoIds
    <2>8. Remembered'
      BY <2>6, Homes DEF Remembered
    <2>9. Through(p)'
      BY <1>0, <1>2, <1>s, <1>z, <2>1, <2>4 DEF Handled, Through, CleanLabel, AfterAll
    <2>10. Handled(p)'
      BY <1>2, <2>3, <2>5, <2>9 DEF Handled
    <2>11. QED BY <2>2, <2>3, <2>7, <2>8, <2>10
  <1>5. QED BY <1>0, <1>3, <1>4, OwnSuffices DEF Busy, CleanLabel, AfterAll

(* The device goes and comes back.                                         *)
LEMMA DeviceTraces ==
  ASSUME Turns, TypeOK, AInv, TInv, Next, Unplug \/ Plug
  PROVE  AInv' /\ TInv'
  <1>1. UNCHANGED <<config, saved, pc, at, todo, loc>>
    BY DEF Unplug, Plug, local
  <1>2. \A i \in Ids, k \in Key : meta'[i][k] \in {meta[i][k], "none"}
    BY DEF Unplug, Plug, NoKeys, TypeOK, HostOK
  <1>z. \A kind : Zero(kind)' => Zero(kind)
    BY ZeroKeeps DEF Turns
  <1>m. \A o \in Output : /\ Marks(o)' => Marks(o)
                          /\ SavedId(o)' = SavedId(o)
    <2>1. \A o \in Output : Home[o] \in Ids /\ o # "none" /\ "owner" \in Key
      BY Homes DEF Output, Key
    <2>2. QED BY <1>1, <1>2, <2>1 DEF Marks, SavedId
  <1>3. AInv'
    <2>1. ASSUME NEW p \in Proc PROVE Selected(p)' /\ ToGo(p)'
      BY <1>1, <1>2 DEF AInv, Selected, ToGo
    <2>2. QED BY <2>1 DEF AInv
  <1>4. ASSUME Traced' PROVE (Placed /\ Known /\ Remembered /\ \A p \in Proc : PlacedAt(p) /\ Handled(p))'
    <2>1. Placed /\ Known /\ Remembered /\ \A p \in Proc : PlacedAt(p) /\ Handled(p)
      BY <1>z, <1>4 DEF Traced, Stayed, Unharmed, TInv
    <2>2. Placed'
      <3>1. CASE Unplug
        <4>1. ~Stayed'
          BY <3>1, ZeroKeeps DEF Unplug, Turns, Stayed
        <4>2. \A o \in Output : sink'[o] = 0
          BY <3>1 DEF Unplug
        <4>3. QED BY <1>1, <2>1, <4>1, <4>2 DEF Placed
      <3>2. CASE Plug
        <4>1. \A o \in Output : sink[o] = 0
          BY <3>2 DEF Plug
        <4>2. ~Stayed /\ ~Stayed'
          BY <1>z, <2>1, <4>1, Homes DEF Placed, Stayed
        <4>3. ~Fault("move")
          BY <1>4, <4>2, ZeroKeeps DEF Turns, Traced, Unharmed
        <4>4. sink' = Home
          BY <3>2, <4>3 DEF Plug
        <4>5. QED BY <1>1, <2>1, <4>2, <4>4 DEF Placed
      <3>3. QED BY <3>1, <3>2
    <2>3. Known'
      BY <1>1, <1>m, <1>z, <2>1 DEF Known, Unharmed, Puts, Due
    <2>4. Remembered'
      BY <1>1, <1>m, <1>z, <2>1 DEF Remembered, Chosen
    <2>5. ASSUME NEW p \in Proc PROVE PlacedAt(p)' /\ Handled(p)'
      <3>1. PlacedAt(p)'
        BY <1>1, <2>1 DEF PlacedAt, Due
      <3>2. Through(p)'
        BY <1>1, <1>m, <1>z, <2>1 DEF Handled, Through
      <3>3. Found(p)'
        BY <1>1, <1>m, <1>z, <2>1 DEF Handled, Found, Due
      <3>4. QED BY <1>1, <2>1, <3>1, <3>2, <3>3 DEF Handled
    <2>6. QED BY <2>2, <2>3, <2>4, <2>5
  <1>5. QED BY <1>3, <1>4 DEF TInv

(* With WirePlumber goes all metadata.                                     *)
LEMMA RestartTraces ==
  ASSUME OneAfterAnother, Turns, TypeOK, AInv, TInv, Next, RestartWirePlumber
  PROVE  AInv' /\ TInv'
  <1> USE RoutingAssumption DEF Turns, IInv, Shape, Rows
  <1>1. UNCHANGED <<sink, config, saved>> /\ \A i \in Ids, k \in Key : meta'[i][k] = "none"
    BY DEF RestartWirePlumber, NoKeys
  <1>2. ASSUME NEW p \in Proc PROVE pc'[p] \notin Busy
    <2>1. CASE p \in Users
      <3>1. ~Switches(p) /\ pc'[p] = pc[p]
        BY <2>1 DEF RestartWirePlumber, Running, Switches, Labelled, OneAfterAnother, local, Proc
      <3>2. QED BY <3>1 DEF Switches, Busy, CleanLabel, AfterAll, MixLabel
    <2>2. CASE p = Post
      <3>1. pc'[p] \in {"idle", "r_begin"}
        BY <2>2 DEF RestartWirePlumber, StartUnit, local, Posted, Proc
      <3>2. QED BY <3>1 DEF Busy, CleanLabel, AfterAll
    <2>3. QED BY <2>1, <2>2 DEF Proc
  <1>z. \A kind : Zero(kind)' => Zero(kind)
    BY ZeroKeeps
  <1>3. \A o \in Output : ~Marks(o)'
    <2>1. \A o \in Output : Home[o] \in Ids /\ o # "none" /\ "owner" \in Key
      BY Homes DEF Output, Key
    <2>2. QED BY <1>1, <2>1 DEF Marks
  <1>4. \A p \in Proc : Selected(p)' /\ ToGo(p)' /\ PlacedAt(p)' /\ Handled(p)'
    BY <1>2 DEF Busy, CleanLabel, AfterAll, WorksAt, Selected, ToGo, PlacedAt, Handled, Through, Found
  <1>5. Traced' => Placed'
    <2>1. Traced' => Placed
      BY <1>z DEF Traced, Stayed, Unharmed, TInv
    <2>2. QED BY <1>1, <1>z, <2>1 DEF Placed, Stayed
  <1>6. QED BY <1>3, <1>4, <1>5 DEF AInv, TInv, Known, Remembered

(* A command that begins has done nothing yet.                             *)
LEMMA BeginTraces ==
  ASSUME Turns, TypeOK, AInv, TInv, Next, NEW u \in Users, Begin(u)
  PROVE  AInv' /\ TInv'
  <1>1. /\ UNCHANGED <<sink, meta, config, saved, at, todo, hit>>
        /\ \A q \in Proc \ {u} : Same(q)
        /\ pc[u] \notin Busy /\ pc'[u] \notin Busy
    BY BeginIs DEF Turns, IInv, Running, Commands, Busy, CleanLabel, AfterAll
  <1>z. \A kind : Zero(kind)' <=> Zero(kind)
    BY <1>1 DEF Zero
  <1>2. ASSUME NEW p \in Proc PROVE Selected(p)' /\ ToGo(p)' /\ (PlacedAt(p) => PlacedAt(p)') /\ (Handled(p) => Handled(p)')
    <2>1. CASE p = u
      BY <1>1, <2>1 DEF Busy, CleanLabel, AfterAll, WorksAt, Selected, ToGo, PlacedAt, Handled, Through, Found
    <2>2. CASE p # u
      <3>1. pc'[p] = pc[p] /\ at'[p] = at[p] /\ todo'[p] = todo[p] /\ loc'[p] = loc[p]
        BY <1>1, <2>2 DEF Same
      <3>2. Selected(p)' /\ ToGo(p)'
        BY <1>1, <3>1 DEF AInv, Selected, ToGo
      <3>3. PlacedAt(p) => PlacedAt(p)'
        BY <1>1, <3>1 DEF PlacedAt, Due
      <3>4. Through(p) => Through(p)'
        BY <1>1, <1>z, <3>1 DEF Through, Marks
      <3>5. Found(p) => Found(p)'
        BY <1>1, <1>z, <3>1 DEF Found, Due, Marks
      <3>6. QED BY <3>1, <3>2, <3>3, <3>4, <3>5 DEF Handled
    <2>3. QED BY <2>1, <2>2
  <1>3. ASSUME Traced' PROVE Traced /\ Placed' /\ Known' /\ Remembered'
    <2>1. Traced /\ Placed /\ Known /\ Remembered
      BY <1>z, <1>3 DEF Traced, Stayed, Unharmed, TInv
    <2>2. Placed' /\ Remembered'
      BY <1>1, <1>z, <2>1 DEF Placed, Stayed, Remembered, Chosen, Marks
    <2>3. Known'
      <3> SUFFICES ASSUME Unharmed', NEW o \in Output, Marks(o)', SavedId(o)' = 0
                   PROVE  \E q \in Proc : Puts(q, o)'
        BY DEF Known
      <3>1. PICK q \in Proc : Puts(q, o)
        BY <1>1, <1>z, <2>1 DEF Known, Unharmed, Marks, SavedId
      <3>2. q # u
        BY <1>1, <3>1 DEF Puts, Busy
      <3>3. QED BY <1>1, <3>1, <3>2 DEF Same, Puts, Due
    <2>4. QED BY <2>1, <2>2, <2>3
  <1>4. QED BY <1>2, <1>3 DEF AInv, TInv

-----------------------------------------------------------------------------
(* Traceable and SuccessIsTrue.                                            *)

(* At first the sinks have their homes, and the keys of ours that are      *)
(* there are saved or left by an earlier release.                          *)
LEMMA InitTraced == Init => AInv /\ TInv
  <1> SUFFICES ASSUME Init PROVE AInv /\ TInv
    OBVIOUS
  <1>1. /\ \A p \in Proc : pc[p] = "idle" /\ Selected(p) /\ ToGo(p) /\ PlacedAt(p) /\ Handled(p)
        /\ sink = Home
    BY DEF Init, Selected, ToGo, PlacedAt, WorksAt, Handled, Through, Found, CleanLabel, AfterAll
  <1>2. "owner" \in Key /\ \A o \in Output : o # "none" /\ o # "foreign"
    BY DEF Key, Output
  <1>3. Placed
    <2>1. CASE InitOff
      <3>1. saved = NothingSaved \/ saved = [NothingSaved EXCEPT !.legacy = Home["line"]]
        BY <2>1 DEF InitOff
      <3>2. QED BY <1>1, <3>1 DEF NothingSaved, NoIds, Placed
    <2>2. CASE InitOn
      <3>1. saved.id = Home /\ saved.pending = NoIds /\ saved.legacy = 0
        BY <2>2 DEF InitOn, NothingSaved
      <3>2. QED BY <1>1, <3>1 DEF NoIds, Placed
    <2>3. QED BY <2>1, <2>2 DEF Init
  <1>4. ASSUME NEW o \in Output, Marks(o) PROVE SavedId(o) # 0 /\ (saved.mode # "none" \/ saved.legacy # 0)
    <2>1. CASE InitOff
      <3>1. CASE meta = [i \in Ids |-> NoKeys]
        BY <1>2, <1>4, <3>1, Homes DEF NoKeys, Marks
      <3>2. CASE \E j \in Ids : meta = [i \in Ids |-> IF i = j THEN KeysOf("foreign") ELSE NoKeys]
        <4>1. meta[Home[o]] = NoKeys \/ meta[Home[o]] = KeysOf("foreign")
          BY <3>2, Homes
        <4>2. QED BY <1>2, <1>4, <4>1 DEF NoKeys, KeysOf, Marks
      <3>3. CASE /\ meta = [i \in Ids |-> IF i = Home["line"] THEN KeysOf("line") ELSE NoKeys]
                 /\ saved = [NothingSaved EXCEPT !.legacy = Home["line"]]
        <4>1. Home[o] # Home["line"] => meta[Home[o]] = NoKeys
          BY <3>3, Homes
        <4>2. Home[o] = Home["line"]
          BY <1>2, <1>4, <4>1 DEF NoKeys, Marks
        <4>3. o = "line" /\ Home["line"] # 0
          BY <4>2, Homes
        <4>4. saved.legacy = Home["line"] /\ saved.id[o] = 0 /\ saved.pending[o] = 0
          BY <3>3 DEF NothingSaved, NoIds
        <4>5. QED BY <4>3, <4>4 DEF SavedId
      <3>4. QED BY <2>1, <3>1, <3>2, <3>3 DEF InitOff
    <2>2. CASE InitOn
      <3>1. saved.id = Home /\ saved.mode = "all"
        BY <2>2 DEF InitOn, NothingSaved
      <3>2. QED BY <3>1, Homes DEF SavedId
    <2>3. QED BY <2>1, <2>2 DEF Init
  <1>5. Known /\ Remembered
    BY <1>4 DEF Known, Remembered, Chosen
  <1>6. QED BY <1>1, <1>3, <1>5 DEF AInv, TInv

(* Every step of a process.                                                *)
LEMMA WorkTraces ==
  ASSUME Turns, TypeOK, CInv, AInv, TInv, Next, NEW p \in Proc, Works(p)
  PROVE  AInv' /\ TInv'
  <1>1. Aside(p) => AInv' /\ TInv'
    BY AsideKeeps
  <1>2. CASE Reconcile(p)
    <2>1. Selected(p)
      BY DEF AInv
    <2>2. (ReconcileWait(p) \/ ClaimUnread(p)) /\ pc'[p] = "r_key" => AInv' /\ TInv'
      BY WaitTraces
    <2>3. PutKey(p) \/ SaveId(p) \/ SavedUnread(p) => AInv' /\ TInv'
      BY PutTraces, SaveTraces
    <2>4. \/ ReconcileBegin(p) \/ ReadMix(p) \/ ApplyMix(p) \/ ReconcileFails(p)
          \/ (ReconcileWait(p) \/ ClaimUnread(p)) /\ pc'[p] # "r_key"
          => Aside(p)
      BY <2>1, ReconcileAside
    <2>5. QED BY <1>1, <1>2, <2>2, <2>3, <2>4 DEF Reconcile
  <1>3. CASE p \in Users /\ Clean(p)
    <2>1. Look(p) \/ LookUnread(p) \/ DeleteKey(p) \/ DeleteUnread(p) \/ DeleteFails(p) => AInv' /\ TInv'
      BY <1>3, LookTraces, UnreadTraces, DeleteTraces, DeleteFailsTraces
    <2>2. Record(p) \/ RemoveConfig(p) \/ Forget(p) => AInv' /\ TInv'
      BY <1>3, RecordTraces, UnconfigTraces, ForgetTraces
    <2>3. StopFilter(p) \/ StopFails(p) \/ Cleaned(p) => Aside(p)
      BY <1>3, StopsAside
    <2>4. QED BY <1>1, <1>3, <2>1, <2>2, <2>3 DEF Clean
  <1>4. CASE p \in Users /\ (TurnOff(p) \/ On(p) \/ Mix(p) \/ Oneshot(p) \/ Kill(p))
    BY <1>1, <1>4, EndsAside, OnAside, MixAside, OneshotAside
  <1>5. QED BY <1>2, <1>3, <1>4 DEF Works

(* The invariant of these two properties.                                  *)
RInv == TypeOK /\ OInv /\ CInv /\ AInv /\ TInv

(* It holds at first,                                                      *)
LEMMA InitRouted == Init => RInv
  BY InitTyped, InitOurs, InitCalled, InitTraced DEF RInv

(* and every step keeps it.                                                *)
LEMMA RoutedKeeps ==
  ASSUME OneAfterAnother, SwitchAlone, RInv, [Next]_vars
  PROVE  RInv'
  <1>1. TypeOK' /\ OInv' /\ CInv'
    BY NextTypes, OursKeep, CalledKeeps DEF RInv, OInv, Turns
  <1>2. AInv' /\ TInv'
    <2>1. CASE UNCHANGED vars
      BY <2>1 DEF vars, RInv, AInv, TInv, Traced, Stayed, Unharmed, Zero, Placed, Known, Remembered, PlacedAt, Handled,
                  Through, Found, Selected, ToGo, Marks, SavedId, Puts, Due, Chosen
    <2>2. CASE Next
      <3>1. ASSUME NEW p \in Proc, Works(p) PROVE AInv' /\ TInv'
        BY <2>2, <3>1, WorkTraces DEF RInv, OInv
      <3>2. ASSUME NEW u \in Users, Begin(u) PROVE AInv' /\ TInv'
        BY <2>2, <3>2, BeginTraces DEF RInv, OInv
      <3>3. Environment => AInv' /\ TInv'
        BY <2>2, DeviceTraces, RestartTraces DEF RInv, OInv, Environment
      <3>4. QED BY <2>2, <3>1, <3>2, <3>3, NextIs
    <2>3. QED BY <2>1, <2>2
  <1>3. QED BY <1>1, <1>2 DEF RInv

(* Where the properties speak of disturbances, so does the invariant.      *)
LEMMA FollowedIsTraced == (Followed /\ hit["look"] = 0 => Traced) /\ (hit["delete"] = 0 => Zero("delete"))
  BY DEF Followed, PluggedThroughout, NothingFailed, Traced, Stayed, Unharmed, Zero

(* While nobody runs and the next `off` would say "already inactive", no   *)
(* present sink carries keys of ours, unless deleting failed, a listing    *)
(* failed in a clean-up, or the nodes could not be followed: commands      *)
(* forget an id only when they have seen no key of ours there              *)
(* (effect_present, remove_smart_metadata).                                *)
THEOREM NothingIsForgotten ==
  ASSUME OneAfterAnother, SwitchAlone
  PROVE  Spec => []Traceable
  <1>1. RInv => Traceable
    <2> SUFFICES ASSUME RInv, ~EffectPresent, hit["delete"] = 0, hit["look"] = 0, Followed,
                        NEW o \in Output, sink[o] # 0, IsOurs(o, sink[o])
                 PROVE  FALSE
      BY DEF Traceable
    <2>1. Placed /\ Remembered /\ Zero("delete")
      BY FollowedIsTraced DEF RInv, TInv
    <2>2. Marks(o)
      BY <2>1 DEF Placed, IsOurs, Marks
    <2>3. QED BY <2>1, <2>2 DEF Remembered, Chosen, EffectPresent, EffectFiled, PendingPresent
  <1>2. Init => RInv
    BY InitRouted
  <1>3. RInv /\ [Next]_vars => RInv'
    BY RoutedKeeps
  <1>4. QED BY <1>1, <1>2, <1>3, PTL DEF Spec

(* An `off` or a rollback that succeeds leaves no unit, no node, no        *)
(* fragment and no selection; and keys of ours only where they are noted   *)
(* as pending, unless a listing failed in a clean-up (disable,             *)
(* rollback_activation, remove_smart_metadata).                            *)
THEOREM OffTellsTheTruth ==
  ASSUME OneAfterAnother, SwitchAlone
  PROVE  Spec => SuccessIsTrue
  <1>1. ASSUME RInv, Next, NEW u \in Users, Step(u, "gone"), pc'[u] = "cleared"
        PROVE  /\ service = "inactive" /\ ~enabled /\ \A o \in Output : live[o] = Gone
               /\ config.by # "ours" /\ saved.mode = "none"
               /\ hit["look"] = 0 /\ Followed =>
                    \A o \in Output : sink[o] # 0 /\ IsOurs(o, sink[o]) => saved.pending[o] # 0
    <2>1. u \in Proc /\ pc[u] = "gone" /\ Switches(u) /\ pc[u] \notin Awaits
      BY <1>1 DEF Proc, Step, Switches, Awaits, MixLabel
    <2>2. Cleaned(u)
      <3>1. ASSUME NEW p \in Proc, Works(p) PROVE Cleaned(u)
        <4>1. p = u
          BY <1>1, <2>1, <3>1, NobodyElse DEF RInv, OInv, CInv
        <4>2. ~Reconcile(u)
          BY <2>1 DEF Reconcile, ReconcileBegin, ReconcileWait, PutKey, SaveId, ReadMix, ApplyMix,
                      ClaimUnread, SavedUnread, ReconcileFails, Step
        <4>3. ~TurnOff(u) /\ ~On(u)
          BY <2>1 DEF TurnOff, On, TurnOn, OnUnread, Reenable, WriteConfig, SaveMode, EnableFilter, Started, Verify, OnFails, Step
        <4>4. ~Mix(u) /\ ~Oneshot(u)
          BY <2>1 DEF Mix, Lock, MixRead, MixConfig, MixLive, MixUndo, MixRelive, MixSave, MixFails,
                      Oneshot, Restore, Try, Revive, Revived, ReviveFails, Again, Step
        <4>5. ~Kill(u)
          BY <1>1, <2>1 DEF Kill, End, Goto, RInv, TypeOK
        <4>6. Clean(u)
          BY <3>1, <4>1, <4>2, <4>3, <4>4, <4>5 DEF Works
        <4>7. QED BY <2>1, <4>6 DEF Clean, Look, LookUnread, DeleteKey, DeleteUnread, DeleteFails, Record, StopFilter, StopFails, RemoveConfig, Forget, Step
      <3>2. ASSUME NEW v \in Users, Begin(v) PROVE FALSE
        <4>1. v = u
          BY <1>1, <2>1, <3>2, BeginIs DEF RInv, OInv, Turns, IInv, Same
        <4>2. QED BY <2>1, <3>2, <4>1 DEF Begin, Running
      <3>3. CASE Environment
        <4>0. u # Post /\ DOMAIN pc = Proc
          BY <1>1, RoutingAssumption, FieldsHold DEF RInv
        <4>1. pc'[u] = pc[u]
          BY <2>1, <3>3, <4>0 DEF Environment, Unplug, Plug, RestartWirePlumber, local
        <4>2. QED BY <1>1, <2>1, <4>1
      <3>4. QED BY <1>1, <3>1, <3>2, <3>3, NextIs
    <2>3. ~loc[u].bad
      <3>0. PICK more : BackFromCleanUp(u, loc[u].bad \/ more)
        <4>1. \/ BackFromCleanUp(u, loc[u].bad \/ (service = "active" \/ \E o \in Output : live[o] # Gone))
              \/ BackFromCleanUp(u, loc[u].bad \/ service = "active")
          BY <2>2, Zenon DEF Cleaned
        <4>2. QED BY <4>1
      <3> DEFINE bad == loc[u].bad \/ more
      <3>1. DOMAIN pc = Proc
        BY <1>1, FieldsHold DEF RInv
      <3>2. \/ Goto(u, IF bad THEN "idle" ELSE "cleared") \/ Goto(u, "idle") \/ Goto(u, "config")
        BY <3>0 DEF BackFromCleanUp, End
      <3> HIDE DEF bad
      <3>3. ~bad
        BY <1>1, <2>1, <3>1, <3>2 DEF Goto
      <3>4. QED BY <3>3, Zenon DEF bad
    <2>4. Removed(u) /\ loc[u].bad = FALSE
      <3>1. Removed(u)
        BY <1>1 DEF RInv, CInv
      <3>2. loc[u].bad \in BOOLEAN
        BY <3>1 DEF Removed
      <3>3. QED BY <2>3, <3>1, <3>2, Zenon
    <2>5. Stopped /\ config.by # "ours" /\ saved.mode = "none"
      BY <2>1, <2>4 DEF Removed
    <2>6. ASSUME hit["look"] = 0, Followed, NEW o \in Output, sink[o] # 0, IsOurs(o, sink[o]) PROVE saved.pending[o] # 0
      <3>1. Placed /\ Handled(u)
        BY <1>1, <2>1, <2>6, FollowedIsTraced DEF RInv, TInv
      <3>2. Marks(o)
        BY <2>6, <3>1 DEF Placed, IsOurs, Marks
      <3>3. todo[u] = << >> /\ Output \ ToSet(todo[u]) = Output
        BY <2>1, <3>1 DEF Handled, AfterAll, ToSet
      <3>4. saved.pending[o] = Home[o]
        BY <2>1, <2>4, <3>1, <3>2, <3>3 DEF Handled, Through, CleanLabel, AfterAll
      <3>5. QED BY <3>4, Homes
    <2>7. QED BY <2>5, <2>6 DEF Stopped
  <1>2. RInv /\ [Next]_vars =>
          [\A u \in Users :
             Step(u, "gone") /\ pc'[u] = "cleared" =>
               /\ service = "inactive" /\ ~enabled /\ \A o \in Output : live[o] = Gone
               /\ config.by # "ours" /\ saved.mode = "none"
               /\ hit["look"] = 0 /\ Followed =>
                    \A o \in Output : sink[o] # 0 /\ IsOurs(o, sink[o]) => saved.pending[o] # 0]_vars
    BY <1>1
  <1>3. Init => RInv
    BY InitRouted
  <1>4. RInv /\ [Next]_vars => RInv'
    BY RoutedKeeps
  <1>5. QED BY <1>2, <1>3, <1>4, PTL DEF Spec, SuccessIsTrue

-----------------------------------------------------------------------------
(* One mix.                                                                *)

(* No more has happened than MixAgrees allows.                             *)
Calm == Zero("kill") /\ Zero("restart") /\ ("fail" \in Faults => hit["fail"] < 2)
FailedOnce == "fail" \in Faults /\ hit["fail"] > 0

(* Whoever has started the unit waits for its ExecStartPost.               *)
Awaited == pc[Post] # "idle" => \E u \in Users : pc[u] \in Awaits

(* The fragment is that of the selection, and its mix the saved one, which *)
(* the nodes have too.                                                     *)
Agrees == saved.mode # "none" => config.by = "ours" /\ config.mode = saved.mode
Equal ==
  saved.mode # "none" =>
    /\ config.mix = saved.mix
    /\ service # "inactive" => \A o \in ToSet(OutputsOf(saved.mode)) : live[o] = saved.mix

(* While the fragment is removed it has no selection, and while a mix is   *)
(* being set there are two.                                                *)
Setting == {"m_live", "m_save", "m_undo", "m_relive"}
Agreed == (\A u \in Users : pc[u] # "forget") => Agrees
Even == (\A u \in Users : pc[u] # "forget" /\ pc[u] \notin Setting) => Equal

(* What a process that switches has found or prepared.                     *)
Prepared(p) ==
  /\ pc[p] \in {"config", "mode"} => saved.mode = "none"
  /\ pc[p] \in {"config", "mode", "enable"} => service = "inactive"
  /\ pc[p] = "mode" => config = [by |-> "ours", mode |-> loc[p].job.mode, mix |-> saved.mix]
  /\ pc[p] \in CleanLabel => loc[p].why \in {"off", "clean", "rollback"}
  /\ pc[p] = "r_live" => loc[p].val = saved.mix

(* What a mix command has found, and what it has done for the outputs that *)
(* it is through with.                                                     *)
AllAre(u, mix) == \A o \in ToSet(OutputsOf(saved.mode)) : o \notin ToSet(todo[u]) => live[o] = mix
InMix(u) ==
  /\ pc[u] \in MixLabel \ {"m_read"} =>
       /\ loc[u].mode = saved.mode /\ loc[u].old = saved.mix
       /\ saved.mode # "none" => service = "active" /\ \A o \in ToSet(OutputsOf(saved.mode)) : live[o] # Gone
  /\ pc[u] \in MixLabel \ {"m_read", "m_save"} => saved.mode # "none"
  /\ pc[u] \in {"m_live", "m_relive"} => ToSet(todo[u]) \subseteq ToSet(OutputsOf(saved.mode))
  /\ pc[u] = "m_save" /\ saved.mode # "none" => todo[u] = << >>
  /\ pc[u] \in {"m_live", "m_save"} /\ saved.mode # "none" => config.mix = loc[u].val /\ AllAre(u, loc[u].val)
  /\ pc[u] \in {"m_undo", "m_relive"} => FailedOnce
  /\ pc[u] = "m_relive" => config.mix = saved.mix /\ AllAre(u, saved.mix)

MInv ==
  Calm => Awaited /\ Agreed /\ Even /\ (\A p \in Proc : Prepared(p)) /\ (\A u \in Users : InMix(u))

-----------------------------------------------------------------------------
(* A step of p, who switches: what he has before it and afterwards.        *)
Ready(p) ==
  /\ Prepared(p) /\ (pc[p] # "forget" => Agrees /\ Equal)
  /\ service = "starting" <=> p = Post
Settled(p) ==
  /\ Prepared(p)' /\ ((p # Post /\ pc'[p] = "forget") \/ (Agrees' /\ Equal'))
  /\ p # Post => pc'[Post] = pc[Post] \/ pc'[Post] = "idle" \/ pc'[p] \in Awaits

(* The selection, the fragment and the mixes stay.                         *)
Rests == UNCHANGED <<service, live, config>> /\ saved'.mode = saved.mode /\ saved'.mix = saved.mix
(* Then what agreed with the selection still does.                         *)
LEMMA RestKeeps == Rests => (Agrees' <=> Agrees) /\ (Equal' <=> Equal)
  BY DEF Rests, Agrees, Equal

(* Reconciling gives the nodes the saved mix, or stops the unit.           *)
LEMMA ReconcileSettles ==
  ASSUME TypeOK, NEW p \in Proc, Ready(p), Reconcile(p)
  PROVE  Settled(p)
  <1>f. DOMAIN pc = Proc /\ DOMAIN at = Proc /\ DOMAIN todo = Proc /\ DOMAIN loc = Proc /\ DOMAIN loc[p] = DOMAIN Fresh
        /\ saved \in Files /\ live \in [Output -> {Gone} \cup Mixes] /\ {"why", "val", "left", "bad"} \subseteq DOMAIN Fresh
        /\ Post \in Proc
    BY FieldsHold, FreshTyped DEF Fields, TypeOK, HostOK, Proc
  <1>r. pc[p] \in {"r_begin", "reconcile", "r_wait", "r_key", "r_save", "r_mix", "r_live"}
    BY DEF Reconcile, ReconcileBegin, ReconcileWait, PutKey, SaveId, ReadMix, ApplyMix,
           ClaimUnread, SavedUnread, ReconcileFails, Step
  <1>a. Agrees /\ Equal /\ (service = "starting" <=> p = Post)
    BY <1>r DEF Ready
  <1>s. Rests => Agrees' /\ Equal'
    BY <1>a, RestKeeps
  <1>n. ASSUME NotReconciled(p), config' = config, saved'.mode = saved.mode, saved'.mix = saved.mix
        PROVE  Settled(p)
    <2>1. CASE p = Post /\ End(p, "idle") /\ StopUnit
      BY <1>a, <1>f, <1>n, <2>1 DEF End, Goto, StopUnit, Settled, Prepared, CleanLabel, AfterAll, Agrees, Equal
    <2>2. CASE p # Post /\ UNCHANGED <<service, live>>
      <3>1. Rests
        BY <1>n, <2>2 DEF Rests
      <3>2. /\ pc'[p] \in {"look", "again", "idle"} /\ pc'[Post] = pc[Post]
            /\ pc'[p] = "look" => loc'[p].why = "rollback"
        <4>1. CleanUp(p, "rollback") \/ Goto(p, "again") \/ End(p, "failed")
          BY <1>n, <2>2, NotReconciledIs
        <4>2. CASE CleanUp(p, "rollback")
          BY <1>f, <2>2, <4>2 DEF CleanUp, Goto
        <4>3. CASE Goto(p, "again") \/ End(p, "failed")
          BY <1>f, <2>2, <4>3 DEF End, Goto
        <4>4. QED BY <4>1, <4>2, <4>3
      <3>3. QED BY <1>s, <3>1, <3>2 DEF Settled, Prepared, CleanLabel, AfterAll
    <2>3. QED BY <1>n, <2>1, <2>2, NotReconciledIs
  <1> USE <1>f DEF Step, Goto, Outputs
  <1>1. CASE ReconcileBegin(p)
    <2>1. UNCHANGED <<config, saved>>
      BY <1>1 DEF ReconcileBegin
    <2>2. NotReconciled(p) \/ (Rests /\ pc' = [pc EXCEPT ![p] = "r_wait"])
      BY <1>1, <2>1 DEF ReconcileBegin, Rests
    <2>3. QED BY <1>n, <1>s, <2>1, <2>2 DEF Settled, Prepared, CleanLabel, AfterAll
  <1>2. CASE ReconcileWait(p) \/ ClaimUnread(p)
    <2>1. UNCHANGED <<config, saved>>
      BY <1>2 DEF ReconcileWait, ClaimUnread
    <2>2. NotReconciled(p) \/ (Rests /\ pc' = [pc EXCEPT ![p] = "r_key"])
      BY <1>2, <2>1 DEF ReconcileWait, ClaimUnread, Claim, Rests
    <2>3. QED BY <1>n, <1>s, <2>1, <2>2 DEF Settled, Prepared, CleanLabel, AfterAll
  <1>3. CASE PutKey(p)
    <2>1. Rests /\ pc'[p] \in {"r_key", "r_save"} /\ (p # Post => pc'[Post] = pc[Post])
      BY <1>3 DEF PutKey, Rests, unit
    <2>2. QED BY <1>s, <2>1 DEF Settled, Prepared, CleanLabel, AfterAll
  <1>4. CASE SaveId(p) \/ SavedUnread(p)
    <2>1. config' = config /\ saved'.mode = saved.mode /\ saved'.mix = saved.mix
      BY <1>4 DEF SaveId, SavedUnread, Files
    <2>2. NotReconciled(p) \/ (Rests /\ pc' = [pc EXCEPT ![p] = "r_mix"])
      BY <1>4, <2>1 DEF SaveId, SavedUnread, Rests
    <2>3. QED BY <1>n, <1>s, <2>1, <2>2 DEF Settled, Prepared, CleanLabel, AfterAll
  <1>5. CASE ReadMix(p)
    <2>1. Rests /\ pc'[p] = "r_live" /\ (p # Post => pc'[Post] = pc[Post]) /\ loc'[p].val = saved'.mix
      BY <1>5 DEF ReadMix, Rests, unit
    <2>2. QED BY <1>s, <2>1 DEF Settled, Prepared, CleanLabel, AfterAll
  <1>6. CASE ApplyMix(p)
    <2>1. UNCHANGED <<config, saved>> /\ pc[p] = "r_live"
      BY <1>6 DEF ApplyMix
    <2>2. CASE NotReconciled(p)
      BY <1>n, <2>1, <2>2
    <2>3. CASE ~NotReconciled(p)
      <3>1. loc[p].val = saved.mix
        BY <2>1 DEF Ready, Prepared
      <3>2. PICK o \in Output : live' = [live EXCEPT ![o] = saved.mix]
        BY <1>6, <2>3, <3>1 DEF ApplyMix
      <3>3. Reconciled(p) \/ (service' = service /\ pc'[p] \in {"r_mix", "r_wait"} /\ (p # Post => pc'[Post] = pc[Post]))
        BY <1>6, <2>3 DEF ApplyMix
      <3>4. /\ service' # "inactive" => service # "inactive"
            /\ pc'[p] \in {"r_mix", "r_wait", "idle", "reenable"} /\ (p # Post => pc'[Post] = pc[Post])
        BY <1>a, <3>3, ReconciledIs DEF End
      <3>5. Agrees' /\ Equal'
        BY <1>a, <2>1, <3>2, <3>4 DEF Agrees, Equal
      <3>6. QED BY <3>4, <3>5 DEF Settled, Prepared, CleanLabel, AfterAll
    <2>4. QED BY <2>2, <2>3
  <1>7. CASE ReconcileFails(p)
    BY <1>7, <1>n DEF ReconcileFails
  <1>8. QED BY <1>1, <1>2, <1>3, <1>4, <1>5, <1>6, <1>7 DEF Reconcile

(* What the actions use of the types.                                      *)
LEMMA Parts ==
  ASSUME TypeOK, NEW u \in Users
  PROVE  /\ u \in Proc /\ u # Post /\ Post \in Proc
         /\ DOMAIN pc = Proc /\ DOMAIN at = Proc /\ DOMAIN todo = Proc /\ DOMAIN loc = Proc
         /\ {"job", "why", "mode", "sv", "val", "old", "left", "result", "bad", "tries"} = DOMAIN loc[u]
         /\ saved \in Files /\ config \in Fragment /\ live \in [Output -> {Gone} \cup Mixes]
         /\ service \in {"inactive", "starting", "active"}
  <1>1. u \in Proc /\ u # Post /\ Post \in Proc
    BY RoutingAssumption DEF Proc
  <1>2. DOMAIN loc[u] = DOMAIN Fresh
    BY <1>1, FieldsHold DEF Fields
  <1>3. QED BY <1>1, <1>2, FieldsHold, FreshTyped DEF TypeOK, HostOK

(* Clean-up goes on to a new fragment only when nothing is left.           *)
LEMMA CleanSettles ==
  ASSUME TypeOK, NEW u \in Users, Ready(u), Removed(u), Clean(u)
  PROVE  Settled(u)
  <1> USE Parts DEF Step, Goto, Outputs, CleanLabel, AfterAll
  <1>w. loc[u].why \in {"off", "clean", "rollback"} /\ pc[u] \in CleanLabel
    <2>1. pc[u] \in CleanLabel
      BY DEF Clean, Look, LookUnread, DeleteKey, DeleteUnread, DeleteFails, Record, StopFilter, StopFails, RemoveConfig, Forget, Cleaned
    <2>2. QED BY <2>1 DEF Ready, Prepared
  <1>s. ASSUME Rests, pc[u] # "forget" PROVE Agrees' /\ Equal'
    BY <1>s, RestKeeps DEF Ready
  <1>q. ASSUME Rests, pc[u] # "forget", pc'[u] \in CleanLabel, loc'[u].why = loc[u].why, pc'[Post] = pc[Post] PROVE Settled(u)
    BY <1>s, <1>q, <1>w DEF Settled, Prepared
  <1>1. CASE Look(u)
    <2>1. PICK o \in Output : /\ pc'[u] \in {"delete", "record"} /\ pc'[Post] = pc[Post]
                              /\ loc'[u].why = loc[u].why
      BY <1>1 DEF Look
    <2>2. QED BY <1>1, <1>q, <2>1 DEF Look, Rests, unit
  <1>9. CASE LookUnread(u)
    <2>1. /\ pc'[u] = "record" /\ pc'[Post] = pc[Post] /\ loc'[u].why = loc[u].why
      BY <1>9 DEF LookUnread
    <2>2. QED BY <1>9, <1>q, <2>1 DEF LookUnread, Rests, unit
  <1>2. CASE DeleteKey(u) \/ DeleteUnread(u) \/ DeleteFails(u)
    BY <1>2, <1>q DEF DeleteKey, DeleteUnread, DeleteFails, Rests, unit
  <1>3. CASE Record(u)
    BY <1>3, <1>q DEF Record, Rests, unit, Files
  <1>4. CASE StopFilter(u)
    <2>1. /\ pc'[u] = "unconfig" /\ pc'[Post] = "idle" /\ loc'[u].why = loc[u].why
          /\ service' = "inactive" /\ UNCHANGED <<config, saved>> /\ pc[u] = "stop"
      BY <1>4 DEF StopFilter, StopUnit, MoveWithPost
    <2>2. QED BY <1>w, <2>1 DEF Settled, Prepared, Ready, Agrees, Equal
  <1>5. CASE StopFails(u)
    BY <1>5, <1>q DEF StopFails, Rests, unit
  <1>6. CASE RemoveConfig(u)
    BY <1>6, <1>w DEF RemoveConfig, Settled, Prepared
  <1>7. CASE Forget(u)
    <2>1. pc'[u] = "gone" /\ pc'[Post] = pc[Post] /\ loc' = loc /\ saved'.mode = "none"
      BY <1>7 DEF Forget, Files
    <2>2. QED BY <1>w, <2>1 DEF Settled, Prepared, Agrees, Equal
  <1>8. CASE Cleaned(u)
    <2>0. PICK more : BackFromCleanUp(u, loc[u].bad \/ more)
      <3>1. \/ BackFromCleanUp(u, loc[u].bad \/ (service = "active" \/ \E o \in Output : live[o] # Gone))
            \/ BackFromCleanUp(u, loc[u].bad \/ service = "active")
        BY <1>8, Zenon DEF Cleaned
      <3>2. QED BY <3>1
    <2> DEFINE bad == loc[u].bad \/ more
    <2>1. /\ Rests /\ pc[u] = "gone"
          /\ \/ \E how : (how = "failed" \/ how = "cleared") /\ End(u, how)
             \/ ~bad /\ Goto(u, "config")
      BY <1>8, <1>w, <2>0, Zenon DEF Cleaned, BackFromCleanUp, Rests, unit
    <2>2. CASE \E how : (how = "failed" \/ how = "cleared") /\ End(u, how)
      <3>1. pc'[u] \in {"idle", "cleared"} /\ pc'[Post] = pc[Post]
        BY <2>2 DEF End
      <3>2. QED BY <1>s, <2>1, <3>1 DEF Settled, Prepared
    <2>3. CASE ~bad /\ Goto(u, "config")
      <3>1. ~loc[u].bad /\ saved.mode = "none" /\ loc[u].bad \in BOOLEAN
        BY <2>1, <2>3, Zenon DEF Removed
      <3>2. loc[u].bad = FALSE
        BY <3>1, Zenon
      <3>3. service = "inactive"
        BY <2>1, <3>2 DEF Removed, Stopped
      <3>4. pc'[u] = "config" /\ pc'[Post] = pc[Post]
        BY <2>3
      <3>5. QED BY <1>s, <2>1, <3>1, <3>3, <3>4 DEF Settled, Prepared, Rests
    <2>4. QED BY <2>1, <2>2, <2>3
  <1>10. QED BY <1>1, <1>2, <1>3, <1>4, <1>5, <1>6, <1>7, <1>8, <1>9 DEF Clean

(* `on` writes the fragment with the saved mix before it selects and       *)
(* enables.                                                                *)
LEMMA OnSettles ==
  ASSUME TypeOK, NEW u \in Users, Ready(u), TurnOff(u) \/ On(u)
  PROVE  Settled(u)
  <1> USE Parts DEF Step, Goto, Outputs, CleanLabel, AfterAll
  <1>a. Agrees /\ Equal
    <2>1. pc[u] # "forget"
      BY DEF TurnOff, On, TurnOn, OnUnread, Reenable, WriteConfig, SaveMode, EnableFilter, Started, Verify, OnFails
    <2>2. QED BY <2>1 DEF Ready
  <1>s. Rests => Agrees' /\ Equal'
    BY <1>a, RestKeeps
  <1>e. ASSUME Rests, NEW how \in {"ok", "failed", "cleared"}, End(u, how) PROVE Settled(u)
    <2>1. pc'[u] \in {"idle", "cleared"} /\ pc'[Post] = pc[Post]
      BY <1>e DEF End
    <2>2. QED BY <1>e, <1>s, <2>1 DEF Settled, Prepared
  <1>c. ASSUME Rests, NEW why \in {"off", "clean", "rollback"}, CleanUp(u, why) PROVE Settled(u)
    <2>1. pc'[u] = "look" /\ pc'[Post] = pc[Post] /\ loc'[u].why = why
      BY <1>c DEF CleanUp
    <2>2. QED BY <1>c, <1>s, <2>1 DEF Settled, Prepared
  <1>g. ASSUME Rests, pc'[Post] = pc[Post], pc'[u] \in {"r_mix", "r_begin", "verify"} PROVE Settled(u)
    BY <1>g, <1>s DEF Settled, Prepared
  <1>0. CASE TurnOff(u)
    BY <1>0, <1>e, <1>c DEF TurnOff, Rests, unit
  <1>1. CASE TurnOn(u) \/ OnUnread(u)
    <2>1. Rests
      BY <1>1 DEF TurnOn, OnUnread, Rests, unit
    <2>2. \/ End(u, "failed") \/ CleanUp(u, "clean")
          \/ pc' = [pc EXCEPT ![u] = "r_mix"] \/ pc' = [pc EXCEPT ![u] = "r_begin"]
          \/ ~EffectFiled /\ pc' = [pc EXCEPT ![u] = "config"]
      BY <1>1 DEF TurnOn, OnUnread, SwitchOn, EffectPresent
    <2>3. CASE ~EffectFiled /\ pc' = [pc EXCEPT ![u] = "config"]
      <3>1. saved.mode = "none" /\ service = "inactive"
        BY <2>3 DEF EffectFiled, Ready
      <3>2. QED BY <1>s, <2>1, <2>3, <3>1 DEF Settled, Prepared, Rests
    <2>4. QED BY <1>e, <1>c, <1>g, <2>1, <2>2, <2>3
  <1>2. CASE Reenable(u)
    BY <1>2, <1>e DEF Reenable, Rests
  <1>3. CASE WriteConfig(u)
    <2>1. saved.mode = "none" /\ service = "inactive"
      BY <1>3 DEF WriteConfig, Ready, Prepared
    <2>2. CASE CleanUp(u, "rollback") /\ UNCHANGED config
      BY <1>3, <1>c, <2>2 DEF WriteConfig, Rests, unit
    <2>3. CASE ~(CleanUp(u, "rollback") /\ UNCHANGED config)
      <3>1. /\ config' = [by |-> "ours", mode |-> loc[u].job.mode, mix |-> saved.mix]
            /\ pc'[u] = "mode" /\ pc'[Post] = pc[Post] /\ UNCHANGED <<service, saved, loc>>
        BY <1>3, <2>3 DEF WriteConfig, unit
      <3>2. QED BY <2>1, <3>1 DEF Settled, Prepared, Agrees, Equal
    <2>4. QED BY <2>2, <2>3
  <1>4. CASE SaveMode(u)
    <2>1. service = "inactive" /\ config = [by |-> "ours", mode |-> loc[u].job.mode, mix |-> saved.mix]
      BY <1>4 DEF SaveMode, Ready, Prepared
    <2>2. /\ saved'.mode = loc[u].job.mode /\ saved'.mix = saved.mix /\ UNCHANGED <<service, config>>
          /\ pc'[u] = "enable" /\ pc'[Post] = pc[Post]
      BY <1>4 DEF SaveMode, Files, unit
    <2>3. QED BY <2>1, <2>2 DEF Settled, Prepared, Agrees, Equal
  <1>5. CASE EnableFilter(u)
    <2>1. service = "inactive"
      BY <1>5 DEF EnableFilter, Ready, Prepared
    <2>2. /\ live' = [o \in Output |-> IF config.by = "ours" /\ o \in ToSet(OutputsOf(config.mode)) THEN config.mix ELSE Gone]
          /\ pc'[u] = "starting" /\ UNCHANGED <<config, saved>>
      BY <1>5, <2>1 DEF EnableFilter, Launch, StartUnit, MoveWithPost
    <2>3. \A o \in ToSet(OutputsOf(saved.mode)) : o \in Output
      BY DEF OutputsOf, All, Output, ToSet
    <2>4. Agrees' /\ Equal'
      BY <1>a, <2>2, <2>3 DEF Agrees, Equal
    <2>5. QED BY <2>2, <2>4 DEF Settled, Prepared, Awaits
  <1>6. CASE Started(u)
    BY <1>6, <1>c, <1>g DEF Started, Rests, unit
  <1>7. CASE Verify(u)
    BY <1>7, <1>e, <1>c DEF Verify, Rests, unit
  <1>8. CASE OnFails(u)
    BY <1>8, <1>e, <1>c DEF OnFails, Rests, unit
  <1>9. QED BY <1>0, <1>1, <1>2, <1>3, <1>4, <1>5, <1>6, <1>7, <1>8 DEF On

(* The oneshot starts the unit from the fragment that it finds.            *)
LEMMA OneshotSettles ==
  ASSUME TypeOK, NEW u \in Users, Ready(u), Oneshot(u)
  PROVE  Settled(u)
  <1> USE Parts DEF Step, Goto, Outputs, CleanLabel, AfterAll
  <1>a. Agrees /\ Equal
    <2>1. pc[u] # "forget"
      BY DEF Oneshot, Restore, Try, Revive, Revived, ReviveFails, Again
    <2>2. QED BY <2>1 DEF Ready
  <1>s. Rests => Agrees' /\ Equal'
    BY <1>a, RestKeeps
  <1>g. ASSUME Rests, pc'[Post] = pc[Post], pc'[u] \in {"idle", "try", "revive", "revived", "again", "r_begin"} PROVE Settled(u)
    BY <1>g, <1>s DEF Settled, Prepared
  <1>1. CASE Restore(u)
    BY <1>1, <1>g DEF Restore, End, Rests, unit
  <1>2. CASE Try(u)
    BY <1>2, <1>g DEF Try, End, Rests, unit
  <1>3. CASE Revive(u)
    <2>1. \/ Rests /\ pc' = [pc EXCEPT ![u] = "revived"]
          \/ StartUnit /\ UNCHANGED <<config, saved>> /\ pc'[u] = "revived"
      BY <1>3 DEF Revive, Launch, MoveWithPost, Rests
    <2>2. CASE StartUnit /\ UNCHANGED <<config, saved>> /\ pc'[u] = "revived"
      <3>1. \A o \in ToSet(OutputsOf(saved.mode)) : o \in Output
        BY DEF OutputsOf, All, Output, ToSet
      <3>2. Agrees' /\ Equal'
        BY <1>a, <2>2, <3>1 DEF Agrees, Equal, StartUnit
      <3>3. QED BY <2>2, <3>2 DEF Settled, Prepared, Awaits
    <2>3. QED BY <1>g, <2>1, <2>2
  <1>4. CASE Revived(u) \/ ReviveFails(u)
    BY <1>4, <1>g DEF Revived, ReviveFails, End, Rests, unit
  <1>5. CASE Again(u)
    BY <1>5, <1>g DEF Again, End, Rests, unit
  <1>6. QED BY <1>1, <1>2, <1>3, <1>4, <1>5 DEF Oneshot

(* A mix command before its step and afterwards.                           *)
Mixing(u) == Agrees /\ (pc[u] \notin Setting => Equal) /\ InMix(u)

(* The second failure is one too many.                                     *)
LEMMA OneFailure ==
  ASSUME Counts, Calm'
  PROVE  /\ Fault("fail") => FailedOnce' /\ ~FailedOnce
         /\ Well /\ FailedOnce => FailedOnce'
  <1>1. ASSUME Fault("fail") PROVE FailedOnce' /\ ~FailedOnce
    <2>1. "fail" \in Faults /\ hit' = [hit EXCEPT !["fail"] = @ + 1]
      BY <1>1 DEF Fault
    <2>2. hit'["fail"] = hit["fail"] + 1 /\ hit["fail"] \in Nat /\ hit'["fail"] < 2
      BY <2>1 DEF Counts, Calm
    <2>3. QED BY <2>1, <2>2 DEF FailedOnce
  <1>2. Well /\ FailedOnce => FailedOnce'
    BY DEF Well, FailedOnce
  <1>3. QED BY <1>1, <1>2

(* What changes the mix leaves the selection and the fragment's alone.     *)
LEMMA MixSettles ==
  ASSUME TypeOK, Counts, Calm', NEW u \in Users, Mixing(u), Mix(u)
  PROVE  Mixing(u)'
  <1> USE Parts DEF Step, Goto, Outputs
  <1>o. \A mode : ToSet(OutputsOf(mode)) \subseteq Output
    BY DEF OutputsOf, All, Output, ToSet
  <1>t. todo[u] \in Seq(Output)
    BY DEF TypeOK, LocalOK
  <1>a. Agrees /\ (pc[u] \notin Setting => Equal) /\ InMix(u)
    BY DEF Mixing
  <1>s. Rests => Agrees' /\ (pc[u] \notin Setting => Equal')
    BY <1>a, RestKeeps
  <1>e. ASSUME Rests, NEW how \in {"ok", "failed"}, End(u, how), pc[u] \notin Setting PROVE Mixing(u)'
    <2>1. pc'[u] = "idle"
      BY <1>e DEF End
    <2>2. QED BY <1>e, <1>s, <2>1 DEF Mixing, InMix, MixLabel
  (* It finds nothing amiss: the failure that brings it to PutBack is a    *)
  (* disturbance.                                                          *)
  <1>p. ASSUME UNCHANGED <<pipewire, unit, config, saved, at, todo, loc>>, pc'[u] = "m_undo", FailedOnce',
               pc[u] \in {"m_live", "m_save"}, saved.mode # "none"
        PROVE  Mixing(u)'
    <2>1. Rests
      BY <1>p DEF Rests, unit
    <2>2. InMix(u)'
      BY <1>a, <1>p, Zenon DEF InMix, MixLabel, unit, AllAre
    <2>3. QED BY <1>p, <1>s, <2>1, <2>2 DEF Mixing, Setting
  <1>1. CASE Lock(u)
    <2>1. Rests /\ pc'[u] = "m_read" /\ pc[u] \in {"set", "step"}
      BY <1>1 DEF Lock, Rests, unit
    <2>2. QED BY <1>s, <2>1 DEF Mixing, InMix, MixLabel, Setting
  <1>2. CASE MixRead(u)
    <2>1. Rests /\ pc[u] = "m_read" /\ UNCHANGED <<saved, config>>
      BY <1>2 DEF MixRead, Rests, unit
    <2>2. CASE End(u, "failed")
      BY <1>e, <2>1, <2>2 DEF Setting
    <2>3. CASE ~End(u, "failed")
      <3>1. /\ pc'[u] = IF saved.mode = "none" THEN "m_save" ELSE "m_config"
            /\ loc'[u].old = saved.mix /\ loc'[u].mode = saved.mode
            /\ saved.mode # "none" => service = "active" /\ \A o \in ToSet(OutputsOf(saved.mode)) : live[o] # Gone
        BY <1>2, <2>3 DEF MixRead
      <3>2. InMix(u)'
        BY <2>1, <3>1 DEF InMix, Rests, MixLabel
      <3>3. QED BY <1>s, <2>1, <3>2 DEF Mixing, Setting
    <2>4. QED BY <2>2, <2>3
  <1>3. CASE MixConfig(u)
    <2>1. pc[u] = "m_config" /\ UNCHANGED <<saved, unit>>
      BY <1>3 DEF MixConfig
    <2>2. CASE End(u, "failed") /\ UNCHANGED config
      BY <1>e, <2>1, <2>2 DEF Setting, Rests, unit
    <2>3. CASE ~(End(u, "failed") /\ UNCHANGED config)
      <3>1. /\ config' = [by |-> "ours", mode |-> loc[u].mode, mix |-> loc[u].val]
            /\ pc'[u] = "m_live" /\ todo'[u] = OutputsOf(loc[u].mode) /\ loc' = loc
        BY <1>3, <2>3 DEF MixConfig
      <3>2. /\ loc[u].mode = saved.mode /\ loc[u].old = saved.mix /\ saved.mode # "none"
            /\ service = "active" /\ \A o \in ToSet(OutputsOf(saved.mode)) : live[o] # Gone
        BY <1>a, <2>1 DEF InMix, MixLabel
      <3>3. Agrees' /\ InMix(u)'
        BY <2>1, <3>1, <3>2 DEF InMix, Agrees, MixLabel, AllAre, unit
      <3>4. QED BY <3>1, <3>3 DEF Mixing, Setting
    <2>4. QED BY <2>2, <2>3
  <1>4. CASE MixLive(u)
    <2>1. /\ pc[u] = "m_live" /\ UNCHANGED <<saved, config, service>>
          /\ loc[u].mode = saved.mode /\ loc[u].old = saved.mix /\ saved.mode # "none" /\ service = "active"
          /\ \A o \in ToSet(OutputsOf(saved.mode)) : live[o] # Gone
          /\ ToSet(todo[u]) \subseteq ToSet(OutputsOf(saved.mode)) /\ config.mix = loc[u].val /\ AllAre(u, loc[u].val)
      BY <1>4, <1>a DEF MixLive, InMix, MixLabel
    <2>2. PICK o \in Output :
            /\ todo[u] # << >> /\ o = Head(todo[u])
            /\ \/ live[o] = Gone
               \/ /\ live' = [live EXCEPT ![o] = loc[u].val]
                  /\ pc' = [pc EXCEPT ![u] = IF Len(todo[u]) = 1 THEN "m_save" ELSE "m_live"]
                  /\ todo' = [todo EXCEPT ![u] = Tail(todo[u])] /\ loc' = loc
      BY <1>4 DEF MixLive, Due, Next1
    <2>3. ToSet(todo[u]) = {o} \cup ToSet(Tail(todo[u])) /\ (Len(todo[u]) = 1 <=> Tail(todo[u]) = << >>)
      BY <1>t, <2>2, TailIs
    <2>4. /\ live' = [live EXCEPT ![o] = loc[u].val] /\ loc' = loc
          /\ pc'[u] = (IF Len(todo[u]) = 1 THEN "m_save" ELSE "m_live") /\ todo'[u] = Tail(todo[u])
      BY <2>1, <2>2, <2>3
    <2>5. loc[u].val # Gone
      <3>1. loc[u].val \in Mixes
        BY DEF TypeOK, LocalOK
      <3>2. QED BY <3>1 DEF Mixes, AutoMix, Gone
    <2>6. \A q \in ToSet(OutputsOf(saved.mode)) : live'[q] # Gone
      BY <1>o, <2>1, <2>4, <2>5
    <2>7. AllAre(u, loc[u].val)'
      BY <1>o, <2>1, <2>3, <2>4 DEF AllAre
    <2>8. InMix(u)'
      BY <2>1, <2>3, <2>4, <2>6, <2>7 DEF InMix, MixLabel, AllAre
    <2>9. QED BY <1>a, <2>1, <2>4, <2>8 DEF Mixing, Setting, Agrees
  <1>5. CASE MixUndo(u)
    <2>1. /\ pc[u] = "m_undo" /\ UNCHANGED <<saved, unit, loc>> /\ pc'[u] = "m_relive"
          /\ todo'[u] = OutputsOf(loc[u].mode)
          /\ config' = IF config.by = "foreign" THEN config ELSE [by |-> "ours", mode |-> loc[u].mode, mix |-> loc[u].old]
      BY <1>5 DEF MixUndo
    <2>2. /\ loc[u].mode = saved.mode /\ loc[u].old = saved.mix /\ saved.mode # "none" /\ service = "active"
          /\ \A o \in ToSet(OutputsOf(saved.mode)) : live[o] # Gone
      BY <1>a, <2>1 DEF InMix, MixLabel
    <2>3. FailedOnce'
      BY <1>5, <1>a, <2>1, OneFailure DEF InMix, MixUndo
    <2>4. config' = [by |-> "ours", mode |-> saved.mode, mix |-> saved.mix]
      BY <1>a, <2>1, <2>2 DEF Agrees
    <2>5. Agrees' /\ InMix(u)'
      BY <2>1, <2>2, <2>3, <2>4 DEF InMix, Agrees, MixLabel, AllAre, unit
    <2>6. QED BY <2>1, <2>5 DEF Mixing, Setting
  <1>6. CASE MixRelive(u)
    <2>1. /\ pc[u] = "m_relive" /\ UNCHANGED <<saved, config, service>>
          /\ loc[u].mode = saved.mode /\ loc[u].old = saved.mix /\ saved.mode # "none" /\ service = "active"
          /\ \A o \in ToSet(OutputsOf(saved.mode)) : live[o] # Gone
          /\ ToSet(todo[u]) \subseteq ToSet(OutputsOf(saved.mode)) /\ config.mix = saved.mix /\ AllAre(u, saved.mix)
      BY <1>6, <1>a DEF MixRelive, InMix, MixLabel
    <2>f. FailedOnce'
      BY <1>6, <1>a, <2>1, OneFailure DEF InMix, MixRelive
    <2>2. PICK o \in Output :
            /\ todo[u] # << >> /\ o = Head(todo[u])
            /\ live' = [live EXCEPT ![o] = IF @ = Gone THEN Gone ELSE loc[u].old]
      BY <1>6 DEF MixRelive, Due
    <2>3. ToSet(todo[u]) = {o} \cup ToSet(Tail(todo[u])) /\ (Len(todo[u]) = 1 <=> Tail(todo[u]) = << >>)
      BY <1>t, <2>2, TailIs
    <2>4. live' = [live EXCEPT ![o] = saved.mix]
      BY <2>1, <2>2, <2>3
    <2>5. saved.mix # Gone
      BY DEF Files, Mixes, AutoMix, Gone
    <2>6. \A q \in ToSet(OutputsOf(saved.mode)) : live'[q] # Gone
      BY <1>o, <2>1, <2>4, <2>5
    <2>7. \A q \in ToSet(OutputsOf(saved.mode)) : q \notin ToSet(Tail(todo[u])) => live'[q] = saved.mix
      BY <1>o, <2>1, <2>3, <2>4 DEF AllAre
    <2>8. CASE Len(todo[u]) = 1
      <3>1. pc'[u] = "idle"
        BY <1>6, <2>8 DEF MixRelive, End
      <3>2. \A q \in ToSet(OutputsOf(saved.mode)) : live'[q] = saved.mix
        <4>1. ToSet(Tail(todo[u])) = {}
          BY <2>3, <2>8 DEF ToSet
        <4>2. QED BY <2>7, <4>1
      <3>3. QED BY <1>a, <2>1, <3>1, <3>2 DEF Mixing, Agrees, Equal, InMix, MixLabel
    <2>9. CASE Len(todo[u]) # 1
      <3>1. pc'[u] = "m_relive" /\ todo'[u] = Tail(todo[u]) /\ loc' = loc
        BY <1>6, <2>9 DEF MixRelive, Next1
      <3>2. QED BY <1>a, <2>1, <2>f, <2>3, <2>6, <2>7, <3>1 DEF Mixing, Agrees, InMix, MixLabel, AllAre, Setting
    <2>10. QED BY <2>8, <2>9
  <1>7. CASE MixSave(u)
    <2>1. /\ pc[u] = "m_save" /\ pc'[u] = "idle" /\ UNCHANGED <<unit, config>>
          /\ saved'.mode = saved.mode /\ saved'.mix = loc[u].val
      BY <1>7 DEF MixSave, End, Files
    <2>2. saved.mode # "none" => config.mix = loc[u].val /\ \A o \in ToSet(OutputsOf(saved.mode)) : live[o] = loc[u].val
      <3>1. ToSet(<< >>) = {}
        BY DEF ToSet
      <3>2. QED BY <1>a, <2>1, <3>1 DEF InMix, AllAre
    <2>3. QED BY <1>a, <2>1, <2>2 DEF Mixing, Agrees, Equal, InMix, MixLabel, unit
  <1>8. CASE MixFails(u)
    <2>1. Fault("fail") /\ UNCHANGED <<pipewire, unit, config, saved>> /\ Rests
      BY <1>8 DEF MixFails, Rests, unit
    <2>2. FailedOnce' /\ ~FailedOnce
      BY <2>1, OneFailure
    <2>3. CASE (Step(u, "m_config") \/ Step(u, "m_read")) /\ End(u, "failed")
      BY <1>e, <2>1, <2>3 DEF Setting
    <2>4. CASE Step(u, "m_live") /\ PutBack(u)
      <3>1. pc'[u] = "m_undo" /\ UNCHANGED <<at, todo, loc>> /\ saved.mode # "none"
        BY <1>a, <2>4 DEF PutBack, InMix, MixLabel
      <3>2. QED BY <1>p, <2>1, <2>2, <2>4, <3>1
    <2>5. CASE Step(u, "m_save") /\ saved.mode # "none"
      <3>1. loc[u].mode # "none"
        BY <1>a, <2>5 DEF InMix, MixLabel
      <3>2. pc'[u] = "m_undo" /\ UNCHANGED <<at, todo, loc>>
        BY <1>8, <2>5, <3>1 DEF MixFails, PutBack
      <3>3. QED BY <1>p, <2>1, <2>2, <2>5, <3>2
    <2>6. CASE Step(u, "m_save") /\ saved.mode = "none"
      <3>1. pc'[u] = "idle"
        BY <1>8, <2>6 DEF MixFails, End
      <3>2. QED BY <1>s, <2>1, <2>6, <3>1 DEF Mixing, Rests, Equal, InMix, MixLabel
    <2>7. pc[u] \notin {"m_undo", "m_relive"}
      BY <1>a, <2>2 DEF InMix
    <2>8. QED BY <1>8, <2>3, <2>4, <2>5, <2>6, <2>7 DEF MixFails
  <1>9. QED BY <1>1, <1>2, <1>3, <1>4, <1>5, <1>6, <1>7, <1>8 DEF Mix

(* Disturbances are only ever added.                                       *)
LEMMA CalmKeeps ==
  ASSUME Counts, Next, Calm'
  PROVE  Calm /\ (FailedOnce => FailedOnce') /\ ~Fault("kill") /\ ~Fault("restart")
  <1>1. Zero("kill") /\ Zero("restart") /\ ~Fault("kill") /\ ~Fault("restart")
    BY ZeroKeeps DEF Calm
  <1>2. ASSUME "fail" \in Faults PROVE hit["fail"] \in Nat /\ hit'["fail"] \in {hit["fail"], hit["fail"] + 1}
    <2>1. CASE Well
      BY <1>2, <2>1 DEF Well, Counts
    <2>2. ASSUME NEW kind, Fault(kind) PROVE hit["fail"] \in Nat /\ hit'["fail"] \in {hit["fail"], hit["fail"] + 1}
      <3>1. kind \in Faults /\ hit' = [hit EXCEPT ![kind] = @ + 1]
        BY <2>2 DEF Fault
      <3>2. QED BY <1>2, <3>1 DEF Counts
    <2>3. QED BY <2>1, <2>2, WellOrFault
  <1>3. QED BY <1>1, <1>2 DEF Calm, FailedOnce

(* At first the mix is automatic everywhere.                               *)
LEMMA InitMixes == Init => MInv
  <1> SUFFICES ASSUME Init PROVE MInv
    OBVIOUS
  <1>1. \A p \in Proc : pc[p] = "idle"
    BY DEF Init
  <1>2. Awaited
    BY <1>1, RoutingAssumption DEF Awaited, Proc
  <1>3. \A p \in Proc : Prepared(p) /\ InMix(p)
    BY <1>1 DEF Prepared, CleanLabel, AfterAll, InMix, MixLabel
  <1>4. Agrees /\ Equal
    <2>1. CASE InitOff
      <3>1. saved.mode = "none"
        BY <2>1 DEF InitOff, NothingSaved
      <3>2. QED BY <3>1 DEF Agrees, Equal
    <2>2. CASE InitOn
      <3>1. saved.mode = "all" /\ saved.mix = AutoMix /\ config = [by |-> "ours", mode |-> "all", mix |-> AutoMix]
        BY <2>2 DEF InitOn, NothingSaved
      <3>2. ToSet(OutputsOf("all")) \subseteq Output /\ \A o \in Output : live[o] = AutoMix
        BY <2>2 DEF InitOn, OutputsOf, All, Output, ToSet
      <3>3. QED BY <3>1, <3>2 DEF Agrees, Equal
    <2>3. QED BY <2>1, <2>2 DEF Init
  <1>5. QED BY <1>2, <1>3, <1>4 DEF MInv, Agreed, Even, Proc

(* A command waits for the ExecStartPost until it has ended.               *)
LEMMA WaitsWhileStarting ==
  ASSUME Turns, StartingPost, NEW p \in Users, Works(p), Switches(p), ~Fault("kill")
  PROVE  service # "starting" /\ pc[Post] = "idle"
  <1>1. p # Post
    BY RoutingAssumption
  <1>2. pc[p] \in Awaits => service # "starting"
    <2> SUFFICES ASSUME pc[p] \in Awaits PROVE service # "starting"
      OBVIOUS
    <2>1. ~Reconcile(p) /\ ~TurnOff(p) /\ ~Clean(p) /\ ~Mix(p)
      BY DEF Awaits, Reconcile, ReconcileBegin, ReconcileWait, PutKey, SaveId, ReadMix, ApplyMix,
             ClaimUnread, SavedUnread, ReconcileFails, TurnOff,
             Clean, Look, LookUnread, DeleteKey, DeleteUnread, DeleteFails, Record, StopFilter, StopFails, RemoveConfig, Forget, Cleaned,
             Mix, Lock, MixRead, MixConfig, MixLive, MixUndo, MixRelive, MixSave, MixFails, Step
    <2>2. On(p) => Started(p)
      BY DEF Awaits, On, TurnOn, OnUnread, Reenable, WriteConfig, SaveMode, EnableFilter, Verify, OnFails, Step
    <2>3. Oneshot(p) => Revived(p)
      BY DEF Awaits, Oneshot, Restore, Try, Revive, ReviveFails, Again, Step
    <2>4. QED BY <2>1, <2>2, <2>3 DEF Works, Kill, Started, Revived
  <1>3. pc[Post] # "idle" => service = "starting" /\ pc[p] \in Awaits
    BY DEF Turns, Posted, PostAlone
  <1>4. QED BY <1>2, <1>3 DEF StartingPost

(* A step of somebody who switches.                                        *)
LEMMA SwitchMixes ==
  ASSUME Turns, TypeOK, CInv, MInv, Next, Calm', NEW p \in Proc, Works(p), Switches(p)
  PROVE  MInv'
  <1>c. ~Fault("kill") /\ Awaited /\ Agreed /\ Even /\ \A q \in Proc : Prepared(q)
    BY CalmKeeps DEF MInv, Turns
  <1>u. p \in Users => p # Post /\ service # "starting" /\ pc[Post] = "idle"
    BY <1>c, WaitsWhileStarting, RoutingAssumption DEF CInv
  <1>p. p = Post => service = "starting"
    BY DEF Turns, Posted, Switches
  <1>1. \A v \in Users : ~Changes(v)
    <2>1. CASE p \in Users
      BY <2>1 DEF CInv, Apart
    <2>2. CASE p = Post
      <3>1. PICK w \in Users : pc[w] \in Awaits
        BY <1>c, <2>2 DEF Awaited, Switches
      <3>2. Switches(w)
        BY <3>1 DEF Awaits, Switches, MixLabel
      <3>3. QED BY <3>2 DEF CInv, Apart
    <2>3. QED BY <2>1, <2>2 DEF Proc
  <1>2. ASSUME NEW v \in Users \ {p} PROVE Same(v) /\ (~Switches(v) \/ (p = Post /\ pc[v] \in Awaits))
    <2>1. Same(v)
      BY OthersRest, RoutingAssumption DEF Proc
    <2>2. QED BY <2>1 DEF Turns, Alone, PostAlone, Switches, Proc
  <1>3. ASSUME NEW v \in Users \ {p} PROVE pc[v] \notin CleanLabel \cup {"config", "mode", "enable", "r_live"} /\ pc[v] # "forget" /\ pc[v] \notin Setting
    <2>1. pc[v] \notin Setting
      BY <1>1 DEF Changes, Setting, MixLabel
    <2>2. QED BY <1>2, <2>1 DEF Switches, MixLabel, Awaits, CleanLabel, AfterAll
  <1>4. Ready(p)
    <2>1. pc[p] \notin Setting
      BY DEF Switches, MixLabel, Setting
    <2>2. pc[p] # "forget" => Agrees /\ Equal
      BY <1>c, <1>3, <2>1 DEF Agreed, Even
    <2>3. QED BY <1>c, <1>u, <1>p, <2>2 DEF Ready, Proc
  <1>5. Settled(p)
    <2>1. CASE p \in Users
      <3>1. ~Mix(p)
        BY <1>1, <2>1 DEF Mix, Lock, MixRead, MixConfig, MixLive, MixUndo, MixRelive, MixSave, MixFails, Step, Changes, MixCommands, MixLabel
      <3>2. ~Kill(p)
        BY <1>c DEF Kill
      <3>3. Removed(p)
        BY <2>1 DEF CInv
      <3>4. QED BY <1>4, <2>1, <3>1, <3>2, <3>3, ReconcileSettles, CleanSettles, OnSettles, OneshotSettles DEF Works
    <2>2. CASE p \notin Users
      BY <1>4, <2>2, ReconcileSettles DEF Works
    <2>3. QED BY <2>1, <2>2
  <1>6. Turn(p) /\ Orderly(p)
    BY WorkIsOrderly
  <1>7. p # Post => pc'[Post] = "idle" \/ (pc'[Post] = "r_begin" /\ pc'[p] \in Awaits)
    <2> SUFFICES ASSUME p # Post PROVE pc'[Post] = "idle" \/ (pc'[Post] = "r_begin" /\ pc'[p] \in Awaits)
      OBVIOUS
    <2>1. pc[Post] = "idle" /\ Post \in Proc
      BY <1>u DEF Proc
    <2>2. pc'[Post] = "idle" \/ pc'[Post] = "r_begin"
      BY <2>1, OthersRest DEF Same
    <2>3. QED BY <1>5, <2>1, <2>2 DEF Settled
  <1>8. Awaited'
    <2>1. CASE p = Post
      <3>1. PICK w \in Users : pc[w] \in Awaits
        BY <1>c, <2>1 DEF Awaited, Switches
      <3>2. pc'[w] = pc[w]
        BY <1>2, <2>1, RoutingAssumption DEF Same
      <3>3. QED BY <3>1, <3>2 DEF Awaited
    <2>2. CASE p # Post
      BY <1>7, <2>2 DEF Awaited, Proc
    <2>3. QED BY <2>1, <2>2
  <1>9. \A q \in Proc : Prepared(q)'
    <2>1. ASSUME NEW q \in Proc PROVE Prepared(q)'
      <3>1. CASE q = p
        BY <1>5, <3>1 DEF Settled
      <3>2. CASE q = Post /\ q # p
        BY <1>7, <3>2 DEF Prepared, CleanLabel, AfterAll
      <3>3. CASE q \in Users \ {p}
        BY <1>2, <1>3, <3>3 DEF Prepared, Same
      <3>4. QED BY <3>1, <3>2, <3>3 DEF Proc
    <2>2. QED BY <2>1
  <1>10. \A v \in Users : pc'[v] \notin MixLabel
    <2>1. p \in Users => ~Changes(p)'
      BY <1>1, <1>6 DEF Orderly
    <2>2. QED BY <1>1, <1>2, <2>1 DEF Same, Changes
  <1>11. \A v \in Users : InMix(v)'
    BY <1>10 DEF InMix, MixLabel
  <1>12. Agreed' /\ Even'
    <2>1. CASE p \in Users
      BY <1>5, <2>1 DEF Settled, Agreed, Even
    <2>2. CASE p = Post
      BY <1>5, <2>2 DEF Settled, Agreed, Even
    <2>3. QED BY <2>1, <2>2 DEF Proc
  <1>13. QED BY <1>8, <1>9, <1>11, <1>12 DEF MInv

(* A step of a mix command.                                                *)
LEMMA ChangeMixes ==
  ASSUME Turns, TypeOK, CInv, MInv, Next, Calm', NEW u \in Users, Works(u), Changes(u)
  PROVE  MInv'
  <1>c. ~Fault("kill") /\ Awaited /\ Agreed /\ Even /\ InMix(u)
    BY CalmKeeps DEF MInv, Turns
  <1>1. \A v \in Users : ~Switches(v)
    BY DEF CInv, Apart
  <1>2. pc[Post] = "idle"
    <2> SUFFICES ASSUME NEW w \in Users, pc[w] \in Awaits PROVE FALSE
      BY <1>c DEF Awaited
    <2>1. Switches(w)
      BY DEF Awaits, Switches, MixLabel
    <2>2. QED BY <1>1, <2>1
  <1>3. Mix(u)
    <2>1. Switches(u) \/ Mix(u) \/ Kill(u)
      BY DEF Works, Reconcile, ReconcileBegin, ReconcileWait, PutKey, SaveId, ReadMix, ApplyMix,
             ClaimUnread, SavedUnread, ReconcileFails, TurnOff,
             Clean, Look, LookUnread, DeleteKey, DeleteUnread, DeleteFails, Record, StopFilter, StopFails, RemoveConfig, Forget, Cleaned,
             On, TurnOn, OnUnread, Reenable, WriteConfig, SaveMode, EnableFilter, Started, Verify, OnFails,
             Oneshot, Restore, Try, Revive, Revived, ReviveFails, Again, Step, Switches, MixLabel
    <2>2. QED BY <1>1, <1>c, <2>1 DEF Kill
  <1>4. \A v \in Users \ {u} : Same(v)
    BY OthersRest, RoutingAssumption DEF Proc
  <1>5. Turn(u) /\ Orderly(u) /\ u # Post
    BY WorkIsOrderly, RoutingAssumption DEF Proc
  <1>6. pc'[Post] = "idle"
    BY <1>1, <1>2, <1>5 DEF Orderly
  <1>7. \A v \in Users : ~Switches(v)'
    BY <1>1, <1>4, <1>5 DEF Turn, Same, Switches
  <1>8. Awaited'
    BY <1>6 DEF Awaited
  <1>9. \A q \in Proc : Prepared(q)'
    <2>1. \A q \in Proc : pc'[q] \notin CleanLabel \cup {"config", "mode", "enable", "r_live"}
      BY <1>6, <1>7 DEF Proc, Switches, MixLabel, CleanLabel, AfterAll
    <2>2. QED BY <2>1 DEF Prepared
  <1>10. CASE pc[u] \in MixLabel
    <2>1. \A v \in Users \ {u} : pc[v] \notin MixLabel /\ pc[v] # "forget"
      BY <1>1, <1>10 DEF Turns, IInv, Locked, Switches, MixLabel
    <2>2. Mixing(u)
      <3>1. pc[u] # "forget"
        BY <1>10 DEF MixLabel
      <3>2. QED BY <1>c, <2>1, <3>1 DEF Mixing, Agreed, Even, Setting, MixLabel
    <2>3. Mixing(u)'
      BY <1>3, <2>2, MixSettles DEF Turns
    <2>4. \A v \in Users \ {u} : InMix(v)'
      BY <1>4, <2>1 DEF InMix, Same, MixLabel
    <2>5. Agreed' /\ Even'
      BY <2>3 DEF Mixing, Agreed, Even
    <2>6. QED BY <1>8, <1>9, <2>3, <2>4, <2>5 DEF MInv, Mixing
  <1>11. CASE pc[u] \notin MixLabel
    <2>1. pc[u] \in {"set", "step"} /\ Lock(u)
      BY <1>3, <1>11 DEF Changes, MixCommands, Mix, MixRead, MixConfig, MixLive, MixUndo, MixRelive, MixSave, MixFails, Step, MixLabel
    <2>2. /\ pc' = [pc EXCEPT ![u] = "m_read"] /\ UNCHANGED <<service, live, config, saved, todo, loc, hit>>
          /\ holder = "nobody"
      BY <2>1 DEF Lock, Goto, Well, unit
    <2>3. \A v \in Users : pc[v] \notin MixLabel
      BY <2>2, RoutingAssumption DEF Turns, IInv, Locked
    <2>4. \A v \in Users : pc'[v] = pc[v] \/ pc'[v] = "m_read"
      BY <2>2 DEF Turns, IInv, Shape
    <2>5. \A v \in Users : InMix(v)'
      BY <2>3, <2>4 DEF InMix, MixLabel
    <2>6. \A v \in Users : pc[v] # "forget" /\ pc[v] \notin Setting
      BY <1>1, <2>3 DEF Switches, MixLabel, Setting
    <2>7. Agrees /\ Equal
      BY <1>c, <2>6 DEF Agreed, Even
    <2>8. Agreed' /\ Even'
      BY <2>2, <2>7 DEF Agreed, Even, Agrees, Equal
    <2>9. QED BY <1>8, <1>9, <2>5, <2>8 DEF MInv
  <1>12. QED BY <1>10, <1>11

(* A command begins, or the device comes or goes.                          *)
LEMMA OthersMix ==
  ASSUME Turns, TypeOK, MInv, Next, Calm', Environment \/ \E u \in Users : Begin(u)
  PROVE  MInv'
  <1>c. ~Fault("restart") /\ Awaited /\ Agreed /\ Even /\ (FailedOnce => FailedOnce')
        /\ (\A q \in Proc : Prepared(q)) /\ (\A v \in Users : InMix(v))
    BY CalmKeeps DEF MInv, Turns
  <1>1. CASE Environment
    <2>1. UNCHANGED <<service, live, config, saved, pc, todo, loc>>
      BY <1>1, <1>c DEF Environment, Unplug, Plug, RestartWirePlumber, unit, local
    <2>2. Awaited' /\ Agreed' /\ Even' /\ \A q \in Proc : Prepared(q)'
      BY <1>c, <2>1 DEF Awaited, Agreed, Even, Agrees, Equal, Prepared
    <2>3. \A v \in Users : InMix(v)'
      BY <1>c, <2>1 DEF InMix, AllAre
    <2>4. QED BY <2>2, <2>3 DEF MInv
  <1>2. ASSUME NEW u \in Users, Begin(u) PROVE MInv'
    <2>1. /\ UNCHANGED <<service, live, config, saved, todo>> /\ \A q \in Proc \ {u} : Same(q)
          /\ pc'[u] \in Commands /\ pc[u] \in {"idle", "cleared"}
      BY <1>2, BeginIs DEF Turns, IInv, Running
    <2>2. u \in Proc /\ u # Post /\ Post \in Proc
      BY RoutingAssumption DEF Proc
    <2>3. Awaited'
      <3>1. pc'[Post] = pc[Post] /\ \A w \in Users : pc[w] \in Awaits => pc'[w] = pc[w]
        BY <2>1, <2>2 DEF Same, Awaits, Proc
      <3>2. QED BY <1>c, <3>1 DEF Awaited
    <2>4. \A v \in Users : pc[v] = "forget" \/ pc[v] \in Setting => pc'[v] = pc[v]
      BY <2>1 DEF Same, Setting, Proc
    <2>5. Agreed' /\ Even'
      BY <1>c, <2>1, <2>4 DEF Agreed, Even, Agrees, Equal
    <2>6. ASSUME NEW q \in Proc PROVE Prepared(q)' /\ (q \in Users => InMix(q)')
      <3>1. CASE q = u
        BY <2>1, <3>1 DEF Prepared, InMix, Commands, CleanLabel, AfterAll, MixLabel
      <3>2. CASE q # u
        <4>1. Same(q)
          BY <2>1, <3>2
        <4>2. Prepared(q)'
          BY <1>c, <2>1, <4>1 DEF Prepared, Same
        <4>3. q \in Users => InMix(q)'
          BY <1>c, <2>1, <4>1 DEF InMix, Same, AllAre
        <4>4. QED BY <4>2, <4>3
      <3>3. QED BY <3>1, <3>2
    <2>7. QED BY <2>3, <2>5, <2>6 DEF MInv, Proc
  <1>3. QED BY <1>1, <1>2

(* The invariant of MixAgrees.                                             *)
MixInv == TypeOK /\ OInv /\ CInv /\ MInv

(* The invariant with all that it rests on is kept.                        *)
LEMMA MixedKeeps ==
  ASSUME OneAfterAnother, SwitchAlone, MixInv, [Next]_vars
  PROVE  MixInv'
  <1>1. TypeOK' /\ OInv' /\ CInv'
    BY NextTypes, OursKeep, CalledKeeps DEF MixInv, OInv, Turns
  <1>2. MInv'
    <2>1. CASE UNCHANGED vars
      BY <2>1 DEF vars, MixInv, MInv, Calm, Zero, Awaited, Agreed, Even, Agrees, Equal, Prepared, InMix, AllAre, FailedOnce
    <2>2. CASE Next /\ Calm'
      <3>1. ASSUME NEW p \in Proc, Works(p) PROVE MInv'
        BY <2>2, <3>1, WhoWorks, SwitchMixes, ChangeMixes DEF MixInv, OInv
      <3>2. QED BY <2>2, <3>1, NextIs, OthersMix DEF MixInv, OInv
    <2>3. CASE ~Calm'
      BY <2>3 DEF MInv
    <2>4. QED BY <2>1, <2>2, <2>3
  <1>3. QED BY <1>1, <1>2 DEF MixInv

(* At rest with the filter active, its nodes, the fragment and the mix     *)
(* file have one mix, unless a mix command was killed or failed twice, or  *)
(* WirePlumber restarted under it (set_mix, restore_mix, reconcile).       *)
THEOREM OneMix ==
  ASSUME OneAfterAnother, SwitchAlone
  PROVE  Spec => []MixAgrees
  <1>1. MixInv => MixAgrees
    <2> SUFFICES ASSUME MixInv, AtRest, service = "active", saved.mode # "none",
                        hit["kill"] = 0, hit["fail"] < 2, hit["restart"] = 0
                 PROVE  \A o \in ToSet(OutputsOf(saved.mode)) : live[o] = saved.mix /\ config.mix = saved.mix
      BY DEF MixAgrees
    <2>1. Calm
      BY DEF Calm, Zero
    <2>2. \A u \in Users : pc[u] # "forget" /\ pc[u] \notin Setting
      BY DEF AtRest, Running, Setting, Proc
    <2>3. Equal
      BY <2>1, <2>2 DEF MixInv, MInv, Even
    <2>4. QED BY <2>3 DEF Equal
  <1>2. Init => MixInv
    BY InitTyped, InitOurs, InitCalled, InitMixes DEF MixInv
  <1>3. MixInv /\ [Next]_vars => MixInv'
    BY MixedKeeps
  <1>4. QED BY <1>1, <1>2, <1>3, PTL DEF Spec
=============================================================================

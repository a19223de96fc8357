# TLA+ specification of audient-id14-linux

The repository has two halves. `id14-sr*` is a stereo high-frequency completion
engine, its LADSPA plugin, a bash command that routes PipeWire through it, and a
journaled user installer. `id14ctl` / `id14-protocol` talk to the interface's USB
control endpoint. This directory specifies what is stateful and hard to test
there: the installer (several processes, a lock, a journal, crashes), the plugin's block
adapter (buffers of four sizes that have to agree), the routing command (metadata on
nodes that come and go, two outputs, a unit that runs the same command) and the USB
control tool (descriptors, multi-request exchanges with a device that changes).

## 1. The system

| component | state | operations | talks to |
|---|---|---|---|
| installer `linux/id14-sr-lifecycle.py install` | eight paths, unit flags, transaction directory (`journal.json`, `backup-N`), local `committed` | back up, save journal, spawn guard, publish 3,4,0,1,2, enable, switch, commit, clean up, abort | lock on the lifecycle directory, systemd, `id14-sr on/off/reconcile` |
| guard `… guard` | blocked on a pipe, then on the lock | recover its own transaction | installer (pipe, journal), lock |
| USB oneshot `… restore` | none of its own | recover everything, then bring the filter up with five retries | lock, systemd, device unit, saved selection |
| `id14-sr` routing | mode file, fragment, node ids, metadata-pending files, PipeWire metadata | `on`, `off`, `reconcile`, `status` | PipeWire, WirePlumber, systemd; no lifecycle lock |
| `id14-sr mix` | mix file, fragment, live `Mix` port, `mix.lock` | `get`, `set`, `step`, `auto`, slider | live nodes |
| LADSPA adapter, bass guard | input and output buffer, ramp, detector, 1024-frame ring | `run` with any block length | engine, once per 256 frames |
| engine `StreamingSr` | 1024-frame history and overlap buffer, peak guard, limiter gain, source presence | `process_with_mix` | – |
| `id14-protocol` | none | parse descriptors and parameter blocks, plan requests | – |
| `id14ctl` | one claimed interface | `list`, `info`, `dump`, `volume`, `request` | device |

What makes them hard: for the installer, processes that die at any point and others
that act on what they left (a repeated rollback over a half-restored tree, a
guard that arrives late, a child that survives its parent), and actors that take
no lock (WirePlumber restarting the filter, a `mix set`, an `off`). For the command,
PipeWire node ids that are reused after a replug, and updates of two outputs
of which the second fails. For the plugin, history: four buffers, a ramp, a limiter
and a ring that each remember a different stretch of the past. For `id14ctl`,
requests that belong together with a device that may change in between.

What makes each correct: the installer is atomic (section 3) and always ends;
routing leaves no key, fragment or node behind; a mix is live everywhere or nowhere;
the plugin is a delay line of 1024 frames with a gain that protects what it added;
a volume write is one that the device reported as in range.

## 2. Modules

| # | modules | what | state |
|---|---|---|---|
| 1 | `Layout`, `AtomicInstall`, `Install`, `MCInstall` | installer, guard, oneshot's recovery, refinement of the atomic installation | done |
| 2 | `InstallInv`, `InstallProofs`, `InstallAtomicProofs` | inductive invariants, ten theorems, the refinement among them | proved |
| 3 | `Engine`, `Adapter`, `DelayLine`, `AdapterProofs` | block adapter, overlap-add, ramp, limiter, refinement of a delay line | done; five theorems, the refinement among them |
| 4 | `Routing`, `MCRouting` | `on`, `off`, `reconcile`, `mix`, the oneshot's attempts, by step against metadata, node ids, replugs | done |
| 5 | `RoutingProofs`, `RoutingOwnerProofs` | foreign metadata, the mix register, types and the scale of the mix; the owner key, what is remembered of it, what `off` says, one mix | seven theorems |
| 6 | `Uac2`, `Descriptor`, `Plan`, `Fixtures`, `Topology` | parameter blocks and requests in bytes, descriptor lists, entity walks, dump and volume plans; what a descriptor declares, without loops and walks | done |
| 7 | `Id14ctl`, `Panel`, `MCId14ctl`, `MCCommands` | invocations of `id14ctl` against devices, refinement of a shared panel | done |
| 8 | `Id14ctlInv`, `Id14ctlProofs`, `DescriptorProofs`, `Id14ctlPlanProofs` | inductive invariants, fifteen theorems; what parser, walk and planner compute | proved |
| 9 | further models | NaN in `Adapter` and `Engine`; the inode of `mix.lock` under a rollback (`Install` composed with `Routing`) | open |

Modules build on each other by EXTENDS: `Install` on `Layout`, `Adapter` on `Engine`,
`Id14ctl` on `Topology` on `Plan` on `Descriptor` on `Uac2`. The abstract modules `AtomicInstall`,
`DelayLine` and `Panel` are instantiated with a mapping. No module uses RECURSIVE, so
that all of them can be proved about. Every safety property of the passing runs is
stated by a theorem; the four that only TLC checks are liveness: `EventuallyWhole`,
`InstallTerminates`, `ReachesSetting` and `EveryOneEnds`.

## 3. The installer

`Layout` names the eight paths in journal order and the three units. Contents are
abstracted to who wrote them (a run, an earlier release, `off`, a `mix set`), which is
all that the properties compare.

`Install` has one process per installer run, one guard per run and one oneshot. Each
process is a program counter, the transaction it is resolving (`target`) and, in the two loops
over files, an index (`todo`). One step is one durable effect: a rename into
place, a saved journal, a `systemctl` call, a directory removal. A copy into a
`.id14-sr-new` or `-rollback` file beside its target is not a step, because nobody
reads it. `rmtree` is one step: a directory that is half gone has lost its
journal, and is then removed by the next `recover`, or still has one whose phase is not "applying",
and is then removed too.

| code (`id14-sr-lifecycle.py`) | actions |
|---|---|
| `locked` 120–136 | `Acquire`, and the release in `Leave` |
| `recover` 203–208 | `Scan`, `Scanned` |
| `guard` 211–216 | `GuardWakes`, `Check` |
| `install` 285–316 | `Prepare`, `Arm` |
| 317–324 | `SpawnGuard` |
| 325–346 | `PublishHelper`, `RetireTimer`, `EnableRestore`, `PublishProgram` |
| 347–359 | `Switch`, `Activate`, `RestartFilter` |
| 360–378 | `Commit`, `Cleanup`, `Abort`, `CleanupFails` |
| `rollback` 149–200 | `RbRead`, `RbOff`, `RbAux`, `RbFile`, `RbFlags`, `RbFilter`, `RbSave`, `Rmtree`, `RollbackRaises` |
| `restore` 390–432 | `StartRestore`, then recovery as above, then `BringUpFilter` |
| `id14-sr` `enable`, `disable` | `Activate`, `ActivateFails`, `OrphanActs`; `CliOff` |
| `id14-sr` `set_mix` | `SetMix` |

`loaded` is the plugin version that the running filter has open, which is not the one
on disk. Whether the oneshot is running is its program counter, so `unit["restore"].active`
stays FALSE.

Disturbances are named in `Faults` and bounded by `MaxFaults`: `fail` (a command
or file operation raises, or a signal handler does), `kill` (SIGKILL of one process),
`orphan` (SIGKILL of an installer whose `id14-sr on all` lives on), `crash` (power
cut; enabled units come up at boot, or do not), `gap` (an exception between the durable
commit and `committed = True`), `bounce` (WirePlumber restarts, the filter with it),
`mix` (a user saves a mix).

`AtomicInstall` is the promise: files and unit flags that change only by the
whole commit of one run, by the oneshot, or by a reboot. `ImplementsAtomicInstall`
maps to it: while a journal says "applying", the installation is what its backups and
recorded flags say, because every later process restores them before anything else.
That makes the instant of the commit the rename of `journal.json`.

### Runs

| run | disturbances | bound | properties |
|---|---|---|---|
| atomic | fail, kill, crash | 2 | `IInv`, `NeverMixed`, `NoTrace`, `ImplementsAtomicInstall` |
| disturbed | all seven | 2 | `BaseInv`, `OneTransaction`, `BackupsOutliveApplying`, `LateGuardInert` |
| live | fail, kill | 1 | `CandidateStopped`, `EventuallyWhole`, `InstallTerminates` |
| wedged, gap, mix | each its own | 1–2 | the finding's property (section 7) |

All have two runs. Two are what it takes to have a transaction of one process and
a guard of another, a late guard beside a later transaction, and a recovery
interrupted and resumed by a third process; a third run adds no new role,
because of `OneTransaction`, which is proved for any number. Two disturbances
are what it takes to interrupt an installation and then its recovery. Histories start with nothing
installed, with an installation whose filter runs or is off, or with an earlier release
and its timer. Runs are interchangeable (`Symmetry`), except in the liveness run, where TLC's
symmetry is not sound. Deadlock is not an error there: a history in which every run
has ended and no device is plugged in stops.

`CandidateStopped` is run without power cuts and bounces: a boot in mid-installation
starts whatever plugin is on disk and the following rollback leaves it running, like the bounce of
section 7. `NoTrace` and `NeverMixed` are run without `orphan` and `gap`, which
break them (section 7), and without `mix`, which is a change of the installation by
somebody else.

### Fairness

A live process keeps taking steps (weak fairness on `InstallerStep`, `RecoveryStep`, `Check`,
`GuardWakes`, `BringUpFilter`): every command it runs has a timeout (`run`, line 59), and the guard's read
returns when its pipe closes. The lock is strongly fair, per process: Linux queues
`flock` waiters. Starting an installer, plugging a device in, and every disturbance
are not fair. One disturbance is the bound for liveness, because a second one, against the
guard, leaves nobody until the next invocation.

### Proofs

`InstallProofs` proves for every set of runs, every `Faults` and every `MaxFaults`:

- `BaseInvariant`: `Spec => []BaseInv`. `BaseInv` is inductive: types; which labels a
  kind of process visits; `pc[p] \in LockedLabel <=> holder = p`; a transaction
  that does not exist has no journal, the one that does is the only one, and a run whose
  `committed` is set has a journal that is not "applying" and is past its commit; the
  process at each label owns exactly the transaction its label says. `OneTransaction`
  alone is not inductive: it holds because `Prepare` happens with `dirs = {}`,
  which needs that `Scanned` saw it empty and that nobody else held the lock since.
- `TypeCorrect`, `OneTransactionHolds`, from it.
- `BackupsSurvive`: removals happen at `rmtree` and `cleanup`, where `OwnerInv` says
  whose directory it is and that its journal is not "applying".
- `LateGuardIsInert`: a guard of a committed run is at no rollback label past the
  read of its journal, so that all it can do is read it and remove its own directory.

Assumptions: `ContentAssumption`, `FaultAssumption` and `NameAssumption`, which say
that the names are distinct and `MaxFaults` is a number.

`InstallAtomicProofs` goes on under `OnlyFailures`, `Faults \subseteq {"fail", "kill",
"crash"}`, for every set of runs and every number of them. The hypothesis is what the
promise is about: with `orphan`, `gap` or `mix` it is false (section 7).

- `InstallInvariant`: `Spec => []IInv`, `IInv` being `BaseInv` and `AtomicInv`. `NeverMixed`
  says nothing while a transaction is pending, so by itself it does not survive the end of a
  rollback. What carries it there: a transaction being rolled back is pending
  (`PhaseInv`; this is what `gap` breaks); its backups are a whole release and nobody's
  uncommitted files (`BackupInv`); a rollback that works downwards through the files has put
  back all above `todo` (`RollbackInv`); an installer has published exactly the files its
  label says, and has not touched state, fragment and filter before the switch
  (`PublishInv`); the flags in the journal say what the installer did (`JournalInv`); a run
  that has not begun has no transaction (`NewcomerInv`).
- `ReleasesNeverMix` and `FailedRunsLeaveNoTrace` are conjuncts of it.
- `InstallIsAtomic`: `Spec => ImplementsAtomicInstall`. Steps map to stutters, except
  `Commit`, which maps to the commit of the whole release (by `PublishInv`, the disk is then
  the run's), the oneshot's `BringUpFilter`, and a power cut, which maps to a reboot. The end of a rollback is a stutter, since by `RollbackInv` the disk has become
  what was visible all along.
- `CandidateIsStopped`: `Spec => []CandidateStopped` under `NoPowerCut`, `Faults \subseteq
  {"fail", "kill"}`, from `LoadedInv`: the filter has loaded an uncommitted plugin only if
  its journal says that the filter was switched, and no longer once the rollback is past
  `RbOff`.

Only model-checked: `EventuallyWhole` and `InstallTerminates`, which are liveness, and the
three runs that expect a violation.

## 4. The plugin

`Engine` is `StreamingSr::process_with_mix` by chunk. Audio is abstracted to
origin: the history is a sequence of chunk numbers, an overlap slot is the set of source
chunks added to it, how many windows were, and whether one of them was completed. A chunk's
peak is an input, given as the gain that would bring it to full scale, in tenths;
the limiter's arithmetic on it is the code's. Spectra, network, window and
source presence are data.

`Adapter` is `process_with_user_mix` by frame: a frame is its chunk's number and its
place in it, and `heard` pairs the frame that came out of the engine with the one that
the bass guard's ring gave for it. Mixes are in fortieths, where 0.1, 0.125, 0.5 and 2.0
are whole. A call begins with `Call` (clamp, or automatic) and proceeds by `Frame`; the
step that fills the chunk includes detector, ramp and engine, as in the code. A run at another
sample rate (pass-through, no state) and the first-order sections are left out.

`DelayLine` is the promise: what comes out is what went in, `DELAY_FRAMES` earlier,
silence before that. The mapping `InFlight` reads the line off the output buffer, the
engine's history and the input.

| run | instance | properties |
|---|---|---|
| stream | 4 hops of 2 frames, blocks of 1 and 3, mixes automatic, 0, 55 and an out-of-range 300, a detector that asks for full completion, two peaks | `TypeOK`, `Aligned`, `Reconstructed`, `PeakSafe`, `ImplementsDelayLine`, `ReachesSetting` |
| ramp | the smallest buffers | the finding's property |

Four hops are the code's; two frames and blocks of 1 and 3 give every phase of a
block against a chunk, blocks that end inside one and blocks that cover a whole one.
Chunk numbers repeat after `Numbers`, more than the adapter holds at once, so a
repeated number is never mistaken. 55 is no multiple of the ramp's step, so that reaching it
takes a shorter last one. A detector that changes its mind is in `ramp`, on the smallest
buffers. Fairness: the sound server keeps calling `run`, and `run` ends; a setting that
keeps changing is not required to be reached.

Proved, for all hops, block lengths, settings, detector results and peaks:
`PeaksAreSafe` (`Spec => []PeakSafe`). The invariant says that a slot with completed
material lies within `peak_guard_chunks` of the head, and that the limiter gain is at
most one; the guard is refreshed at a positive mix and falls by one per produced chunk,
and so does the slot's distance. Further, from one inductive invariant `AdapterInv`:
`AdapterTyped`, `GuardIsAligned`, `ChunksAreReconstructed` and `AdapterIsDelayLine`
(`Spec => ImplementsDelayLine`).

`AdapterInv` says where everything between input and output is. `WindowInv`: the overlap buffer
runs one chunk behind the window, and a slot has seen every window its chunk has been in.
`InStep`: the place in the output that is read next is the place in the input that is written
next, or the output is silence; it is why output and input buffer never disagree about the
phase although the host's blocks have any size. `RingInv`: the bass guard's ring, read from
its cursor, holds the frames in flight in their order. `InFlight` is a sequence put together of
three buffers, so most of the work is arithmetic of places: a place in the line is a chunk and
an offset (`Division`, `DivisionUnique`, `PlaceAt`), and a frame that leaves or a chunk that is
handed over moves every place by one, or by one chunk. For the refinement, a step of a frame is
one of the line's, and a call, a ramp or a detector none.

The assumptions are `EngineAssumption` and `AdapterAssumption`. Only model-checked:
`ReachesSetting`, which is liveness, and the finding.

## 5. The routing command

`Routing` is `linux/id14-sr`, a bash script, by its outside calls, together with the
attempts of the USB oneshot, which runs the same `reconcile`. Each place in `Users` runs
one command after the other, chosen from `Jobs`; `Post` is the unit's ExecStartPost. A
process is a label, the node id it works on (`at`), the outputs it has to go (`todo`) and its
other locals (`loc`). What a command reads before it acts is one step; every change
(a metadata key, a file, a node's parameter, the unit) is one step.

| state | code |
|---|---|
| `sink`, `meta` | ids of the two physical sinks, the metadata object `filters` by node id and key |
| `service`, `enabled` | the filter unit ("starting" is systemd's "activating") |
| `live` | the four nodes of each output, by the `sr:Mix` they have |
| `config` | the fragment: whose it is, for which mode, with which mix |
| `saved` | `output`, `physical-id-*`, `metadata-pending-*`, `physical-id`, `mix` in the state directory |
| `holder` | `mix.lock` |

| code (`id14-sr`) | actions |
|---|---|
| `reconcile` 503–524, `apply_smart_metadata` 289–305 | `ReconcileBegin`, `ReconcileWait`, `ClaimUnread`, `PutKey`, `SaveId`, `SavedUnread`, `ReadMix`, `ApplyMix`, `ReconcileFails` |
| `remove_smart_metadata` 307–350, `record_cleanup_result` 422–429 | `Look`, `LookUnread`, `DeleteKey`, `DeleteUnread`, `DeleteFails`, `Record` |
| `disable` 431–469, `rollback_activation` 471–494 | `TurnOff`, then these, then `StopFilter`, `StopFails`, `RemoveConfig`, `Forget`, `Cleaned` |
| `enable` 531–584 | `TurnOn`, `OnUnread`, `WriteConfig`, `SaveMode`, `EnableFilter`, `Started`, `Verify`, `Reenable`, `OnFails` |
| `set_mix` 630–681, `restore_mix` 621–628 | `Lock`, `MixRead`, `MixConfig`, `MixLive`, `MixSave`, `MixUndo`, `MixRelive`, `MixFails` |
| `restore` (lifecycle 390–432) | `Restore`, `Try`, `Revive`, `Revived`, `ReviveFails`, `Again` |

`why` says on whose behalf a shared part runs: clean-up for `off`, for an `on` that first
turns off what is there, or for a failed `on`; reconciling for the unit, a user, an `on` that
repairs, or the oneshot. The owner key and the smart keys are in the order of the code.

Readings may fail, and the code does not always notice. `metadata_for_id` (253) lists the
metadata and discards an error, so that a failed listing says that a node has no keys, or not
our owner key. The actions named `...Unread` do what a command does after such an
answer; they stand beside the ones that see what is there.

Disturbances: `fail` (a command, a write, a lookup or a verification fails), `put` and `delete`
(`pw-metadata` does, when it sets or deletes), `claim` (a listing fails in
`claimable_metadata`), `look` (a listing or the lookup of the sink fails in `remove_smart_metadata`),
`kill`, `unplug` (with the node goes its metadata), `stale` (it stays on the number), `move` (a
replug gives the ids the other way round), `restart` (WirePlumber, with it the metadata
and, being `PartOf` it, the unit). `hit` counts each.

`Overlap` says which commands may run beside each other. Nothing in the code keeps `on`,
`off` and `reconcile` apart; in the run they are, and mix commands overlap each other, and a
step overlaps the unit's reconcile. What other overlaps do is in section 7.

| run | instance | properties |
|---|---|---|
| routing | two users, ids 1 and 2, owner key and one smart key; `on all`, `on line`, `off`, `reconcile`, `restore`, `mix auto`, `mix step 150`; two attempts; two disturbances of all ten kinds | `TypeOK`, `OwnerMarks`, `Traceable`, `MixAgrees`, `SuccessIsTrue`, `StepsCount`, `NoCommandTakesForeign` |

Commands are begun over and over, so histories have any length. With two ids a replug
that moves them exchanges them, so that a saved id belongs to another present sink, which is when
deleting by it would hurt; a third id, that may belong to nobody, was tried and breaks
nothing, at twice the states. One smart key
stands for the four, which are always put and deleted in a row; with the owner key there
is a first, a last and a moment between them. A step by 150 is added once, twice (into the
clamp at 200), or taken back by `auto`. Two disturbances are an error and the error of its
repair, or an unplug and a plug that moves. Foreign keys and a foreign fragment are there from
the start; somebody who sets keys between `claimable_metadata` and the put is not modelled.
Users are interchangeable (`Symmetry`); there is no liveness property and no fairness: a
command may always be the last one.

- `OwnerMarks`: whatever of ours is on a node, the owner key is there too, so that whoever
  cleans up recognises it. Not claimed after an unplug that takes a node's metadata
  between two puts, nor after a failed listing in `claimable_metadata`, which may let a
  reconcile put its keys over the other output's.
- `Traceable`: if no command runs and the next `off` would say "already inactive", then no
  present sink carries our owner key. Three conditions exclude what breaks it (section 7):
  no deletion failed, no reading of a clean-up failed, and the node can be followed (`Followed`): the device stayed, or
  nothing failed and it came back under the ids it had.
- `SuccessIsTrue`: an `off` or a rollback that reports success left nothing behind but
  metadata noted as pending; as to metadata, under the second and third condition of `Traceable`.
- `MixAgrees`: at rest with an active unit, fragment, nodes and mix file have one mix, with one
  failure anywhere, that of a live update on the second output included. Not claimed
  after a kill, a failure of the repair itself, or a WirePlumber restart beside a step.
- `StepsCount`: a mix command saves what its argument makes of what is saved at that
  moment. `NoCommandTakesForeign`: commands neither delete nor replace keys of others, until
  `claimable_metadata` has seen none because its listing failed. Failed readings of a clean-up
  or of a verification do not endanger them.

### Proofs

`RoutingProofs`, for every set of users, jobs, ids, keys, disturbances and overlaps:
`ForeignMetadataIsSafe` and `NoStepIsLost`. The invariant has four parts besides the domains of
the functions. `WorksOnOurs`: the node of a process that is about to put or delete a key has no key
of somebody else. It is what makes "look, then change" safe, and it is kept because
no command makes a key foreign. It and the next part speak until a listing failed for somebody who
was about to claim a node (`Checked`; disturbances are only counted up, `Counts`). To clean up after a
failed listing is to leave keys alone, so `look` does not disturb them. `ForeignAlone`: a node with foreign keys has no owner key, so
that a node that passes `claimable_metadata`, or whose owner key is ours, has none.
`Locked`: who is past the lock has it. `Counted`: between reading and saving, what
will be saved is still what the argument makes of what is saved; it needs `Locked`, because only
another mix command could change the file. Most steps are `Quiet`: no metadata, no mix file and
no label at which the parts say anything. The assumption is `RoutingAssumption`: 0 is no id,
the names of users, unit and lock differ, commands are known ones, and the owner key is none of
the smart ones.

`MixIsOnScale` is `TypeOK`, and `TypeOK` beside `IInv` is inductive: the mix a command steps
to is on the scale because `Stepped` stops at both ends, the one it puts back because it
was read from the file. It takes a second assumption, `InputsTyped`: there are two
ids for two sinks, and `normalize_mode` and `set_mix` have checked modes and mixes.

`OwnerKeyMarksOurs` (`RoutingOwnerProofs`) is `OwnerMarks`. Its invariant `OInv` says of the
process that puts keys that the node has none but its own and that the owner key is
put or the next one to put (`Putting`), and of the one that deletes that what is still
there is still to go, the owner key last (`Deleting`). Both are lost when another process
works on the same node, so `Turns` says that none does: at most one user switches the
filter (`Alone`), and the ExecStartPost runs only while whoever switches waits for it
(`Posted`, `PostAlone`). The code has no lock that would give this: `on`, `off`,
`reconcile` and the oneshot may be run beside each other, and then a key put after another's
deletions has no owner key; a WirePlumber restart between two puts does the same (TLC shows it
as soon as `Overlap` allows it). The theorem therefore has the hypothesis `OneAfterAnother`: those
commands, and a restart of the unit by WirePlumber, do not overlap, while mix commands may
run beside each other and beside all of them. `Guarded`
holds until a device takes its metadata along in the middle of it, or a listing fails in
`claimable_metadata`, as `OwnerMarks` says.

The other three theorems of `RoutingOwnerProofs` have a second hypothesis, `SwitchAlone`: mix
commands may overlap each other and an ExecStartPost, but no command that switches. The code does not
enforce that either (an `off` beside a `mix set` leaves a fragment, section 7). The assumption
`Supposed` of `MCRouting` has TLC evaluate both for the run's `Overlap`. All three start from
`TypeOK`, `OInv` and `CInv`: `CInv` says that nobody switches while a mix command runs
(`Apart`), that a unit that is starting has its ExecStartPost (`StartingPost`), and how much a
clean-up without an error has removed when it comes to each label (`Removed`).

`NothingIsForgotten` and `OffTellsTheTruth` are `Traceable` and `SuccessIsTrue`; their invariant is
`RInv`. Beside `AInv` (whoever puts keys found a selection; whoever deletes has the owner key as the last
of what is left, and nothing is on the node that is not still to go) it has `TInv`, which speaks
as long as the node could be followed and no reading of a clean-up failed (`Traced`):

- `Placed`: present and saved ids are those the device had at first. Without it
  `remove_smart_metadata`, which deletes at the current id, deletes somewhere else.
- `Known`: keys of ours are on a node only if its id is saved or the process that put them is about
  to save it. It is what lets `off` see an absent device as "pending", and it is lost if a put
  or its process ends before the id is saved; so it is claimed only while nothing failed, and
  a device that stays does not need it.
- `Remembered`: while there are such keys, there is a selection, a fragment, or an id that
  `effect_present` finds. `off` forgets the selection last, so this needs the next part.
- `Handled`: of the outputs that a clean-up is through with, each has no keys left or is
  noted as pending. The code forgets all ids (453) whatever the deletions said, which is why both
  end with a failed deletion.

`OneMix` is `MixAgrees`, with the invariant `MixInv`. As long as there is no kill, no restart
of WirePlumber and at most one failure (`Calm`), fragment and selection agree unless a clean-up is between
removing the one and the other (`Agreed`), and the mixes agree unless a mix command is
between its first and last change (`Even`). For those labels, `Prepared` says what the
commands that switch have built, and `InMix` what a mix command has done for the outputs that it is
through with: all have the new mix while it goes forward, all the old one while it goes back,
and it goes back only once a failure has happened, so that none is left for the repair. `Awaited`
(the ExecStartPost runs while somebody waits for it) keeps the new process's reading of the
mix file apart from the commands that write it.

## 6. The control tool

| module | code |
|---|---|
| `Uac2` | `uac2.rs`: setup packets byte by byte, parameter blocks of 1, 2 and 4 bytes, ranges, selectors, control bitmaps |
| `Descriptor` | `descriptor.rs`: the entity list parsed from the interface's extra bytes; channel counts under a budget; the walk from the mixer to its volume |
| `Plan` | `plan.rs`, `db.rs`: what `dump` reads, which control `volume` addresses, levels in 1/256 dB |
| `Topology` | what a descriptor declares, said by reachability and bits: the reference for the three above |
| `Fixtures` | `fixtures.rs`: the mk2's entities and the encoder of descriptors |
| `Id14ctl` | `main.rs`, `ops.rs`, `usb.rs`, `transport.rs`: an invocation from its gates to the release of its claim |
| `Panel` | the promise: one invocation has a device at a time, and only it or the device changes the level |

An invocation is a label, the device and interface it talks to, its control and what it has
read. Each enumeration, claim, control transfer and release is a step.

| code | actions |
|---|---|
| gates of `main.rs`, `select_primary` | `Start` |
| reading descriptors, plans, `--dry-run` | `Descriptors` (`Planned`) |
| `open_control` | `Claim` |
| `read_range`: count, block | `ReadHead`, `ReadBlock` |
| `dump_one`: value | `ReadCur` |
| `run_volume`: SET, read-back | `SetCur`, `ReadBack` |
| `Drop` of the transport | `Drop` |

Devices are the environment: they turn their level, report another range, are unplugged, stall, answer
late (a SET that was carried out and timed out), short, or with a full buffer (`Faults`), and may
announce a wrong number of subranges (`OddCounts`); a closed output pipe and a kill are faults
of the invocation.

| run | instance | properties |
|---|---|---|
| walk | one invocation, no disturbance; every topology of three units (feature with or without volume, selector, extension unit, output terminal, each fed by any of the others) behind one mixer, or two units and two mixers; mixers of seven shapes around what is accepted; all entity kinds; loops; the mk2 cut after every byte | `ParsedAsDeclared`, `TargetIsMixerOutput`, `DumpIsComplete`, `WireMeansPlan` |
| session | two invocations of `volume` or `dump` on one small device, all seven faults, two moves of the device | `TypeOK`, `PlanInv`, `RangeIsOneReply`, `SetAuthorised`, `RefusedOnlyOutside`, `OneSessionPerDevice`, `NothingHeld`, `DumpIsComplete`, `SharedAsPanel` |
| commands | one invocation of every command with every flag; mk1 and mk2 together, an unknown product, configurations unreadable, equal or different, the DFU interface on an audio interface's number; stalls, unplug, kill, two moves | `GateBeforeClaim`, `OneSessionPerDevice`, `EveryOneEnds` |

Three units are what a branch, a detour of another length and a loop take. Two invocations
are all there is to a claim. Two moves change a range between its two requests and
the level between SET and read-back; the ranges include one with two subranges, on either side of
zero, beside one with a single subrange, so that count and block can disagree. 10923
subranges of six bytes and a count overflow 16 bits. `ParsedAsDeclared`,
`TargetIsMixerOutput` and `DumpIsComplete` compare with definitions by reachability and by
bit pairs (`OutputUnits`, `ClusterOf`, `Readable`), not with the code's walk. Symmetry of invocations is
used in `session` alone, which has only safety properties.

Fairness: weak, of every invocation's own steps. A transfer ends by `TRANSFER_TIMEOUT` at
the latest and everything else in an invocation is local, so a live process goes on; devices and
kills are not fair. Deadlock is checked; `Over` is the state in which all have ended.

### Proofs

`Id14ctlProofs`, for every set of invocations, jobs, devices, ranges, wrong counts and faults:

- `InvariantHolds`: `IInv` is inductive. `Bookkeeping` is types as far as needed;
  `ControlFound` says that the interface is a function of the device, without which two
  invocations could hold two interfaces of one device; `ClaimsHeld` ties the kernel's claims
  to labels; `GatesPassed` carries what `Start` and `Descriptors` tested; `RangeSeen` carries
  the range from `ReadBlock` to `SetCur`, and with it what was refused; `SetAuthorised` is about
  the last transfer, and needs itself because other steps leave it on the wire.
- `SetIsAuthorised`, `OnlyOutsideIsRefused`, `SessionsExclude`, `NothingStaysHeld`,
  `GatesComeFirst` follow from it, and `DevicesAreShared` is the refinement of `Panel`.

`DescriptorProofs` is about what parser and planner compute, for every descriptor. They are
recursive functions; no prover here does induction over a predicate, but sets serve:
`Recursion` shows that a function whose value at a place depends on lower places only exists and
satisfies its equation, `SetInduction` and `RankInduction` that a set which has a place
whenever it has those below has all of them. The rank is the bytes left for the parser's loop,
the budget for a count, the index for a sum, the bytes not yet visited for a walk.

- `ParseTyped`, `EntitiesTyped`: whatever the bytes, the result is well-formed entities or one of
  the errors. `CutParses`: bytes that were cut parse to an error or to the first of the
  entities; the loop over the cut bytes runs with the loop over the whole ones until
  a descriptor crosses the cut.
- `ClusterIs`: `output_channels`, which spends its budget from entity to entity, finds the count
  that the levels of `Upstream` end in, and is unresolved exactly if they end in none. An id
  names its first entity only (`NamedIs`), so a level is one entity or empty.
- `MixerReadsAre`: the plan reads every node of a mixer exactly if its shape is
  known, row by row; `FeatureReadsAre`, `ClockRead` likewise.
- `WalkFinds`: the breadth-first walk of `mixer_output_feature_unit` finds the units with a
  volume at the least number of steps behind the mixer (`NearestUnits`). The walk carries the last
  frontier and what it has visited; the reference is the units within k steps, without either.
  `Walked` relates them: at the k-th turn the walk has visited what is within k steps, its
  frontier is what of that is no nearer, and there was no hit up to there; `WalkedOn` carries
  that to the next turn. A turn that leaves nothing to go on from ends the walk rightly, since nothing
  new is ahead at any distance (`NothingBeyond`), and there are no more turns than entities
  (`RoomAhead`). `UnitFound` is what `volume` makes of it.
- `PlanIsComplete`: the plan of a dump reads the controls in `Readable`, no others, through one
  interface.

`Id14ctlPlanProofs` carries that through an invocation, for the same constants as `IInv`:

- `PlanInvariantHolds`: `PlanInv` is inductive. It is `IInv` and three rows per invocation:
  `Planning`, its device exists and its plan is one; `Asking`, what it asks next goes
  through the interface it claimed, and entries only as many as were found to fit;
  `Dumping`, as long as no read failed, what was shown and what is still to be read make up
  `Readable`. `WireSent` says of the last request that its bytes mean what was planned, and
  needs that its sender still is, or was, in session. `TypeOK` and `RangeIsOneReply` are in it
  because the device's answers are.
- `Id14ctlTyped`, `RangesAreOneReply`, `RequestsMeanThePlan`, `DumpsAreComplete` follow.
- `CutsParseAsDeclared` concludes `ParsedAsDeclared` from `CutFromDeclared`: the AudioControl
  interface carries a first part, or all, of bytes that parse to `declared`. It is what makes
  `declared` the declared entities; without it nothing relates the two. `DeclaredIsParsed`
  in `MCCommands` has TLC evaluate that the encoded entities of the instances are such bytes.

- `VolumeFindsTheMixerOutput` concludes `TargetIsMixerOutput` from `IdsAreUnique`: no two entities
  of a device have one id, which USB Audio demands and the code relies on. TLC evaluates it
  for the instances of all three runs (`UniqueIds` in `MCId14ctl`). Without it the property is
  false: `entity()` and the walk take the first entity of an id, so that of a Selector and a
  Feature Unit of one id only the Selector is seen.

The assumption is `Id14ctlAssumption`: the types of jobs, counts, ranges and of what is
attached, and that no two devices share bus and address. Only model-checked is
`EveryOneEnds`, which is liveness.

Left out: formatting of values, the evidence that `dump` prints beside a row, the
framing in `extension.rs` and `request.rs`, which is printed and never sent. Four-byte parameters
beyond TLC's integers do not occur.

## 7. Where the code and its documentation disagree

| run | what happens |
|---|---|
| wedged | rollback of a first installation runs `id14-sr off` (lifecycle 157). A previous attempt of the same rollback that removed the command and then failed or died makes every later recovery, and so every later installation, raise there. |
| gap | `save_json` has committed, `committed = True` (362) has not run, an exception arrives: a committed journal is rolled back. The trace ends in the middle of that rollback, with mixed files and nothing pending. Killed there, which is a step further, the guard deletes journal and backups and the files stay mixed. |
| mix | the state directory is copied at the start and put back by a rollback; a mix saved in between is lost. |
| ramp | from a manual mix to automatic, only the first chunk ramps (`lib.rs` 196). |

The following have no run of their own. They were found as counterexamples to the
properties named, or read off the code; conditions in the properties keep them out.

- Installer, `CandidateStopped` with `bounce`: WirePlumber restarts between the publication of
  the plugin and the switch; the filter loads the candidate, `filter_touched` is FALSE, and the
  rollback does not stop it (159).
- Installer, `NoTrace` with `orphan`: `id14-sr on all` (350) survives the SIGKILL of its installer
  alone and acts after the guard's rollback.
- Installer: a reinstallation over `off` stays off (347–359, and `AtomicInstall!Commit` says
  so), while the plugin's README (line 196) says that it turns SR on.
- Engine: a source above full scale is attenuated at a steady mix of 0 for as long as it plays,
  if completion was on before (`id14-sr/src/lib.rs` 272).
- `off`, `Traceable` with `delete`: a `pw-metadata -d` that fails makes `off` report an
  error, but the pending file is removed (427), then the ids (453); the next `off` says
  "already inactive" with the keys still there.
- `off` or a rollback, `Traceable` and `SuccessIsTrue` with `look`: the device is there and one
  `pw-metadata` listing, or the `pw-dump` that looks for the sink, fails. `metadata_for_id` (253) and
  `node_id` (309) discard the error, so the answer is "absent" (314, 325) or "skipped" (339); the ids are removed (453), success is reported (466–468) with
  keys still set and nothing pending, and the next `off` says "already inactive". The
  plugin's README says that `off` removes the five keys of the owner (189–190), retains
  `metadata-pending-*` for what it cannot clean (191–194), and that a failed `on` removes owned
  metadata (177–180).
- `on` and `reconcile`, `NoCommandTakesForeign` with `claim`: the listing of `claimable_metadata` (283)
  fails, the node seems to have no keys, and `apply_smart_metadata` (293–299) sets its own over
  those of somebody else, which the message of line 284 says it refuses ("refusing to
  replace filter metadata not owned by id14-sr"). An `on` asks twice, itself (540) and in its
  ExecStartPost (292), so both listings fail in the trace; a `reconcile` of a selection that is in place,
  on a sink that has got a node with such keys, asks once. If they were the other output's, because a replug
  exchanged the ids, the node has keys of both for a while (`OwnerMarks`).
- `on`, `Traceable` with `put` and `stale`: a put that fails after the owner key, before the id
  is saved (300), and an unplug before the rollback: nothing is saved, so "absent", and the
  rollback reports success. The keys are on the node when it is back; the plugin's README (177–180)
  says that a failed `on` removes owned metadata.
- `on`, `reconcile`, `Traceable` with `move`: the device is back under another id while keys of
  ours are still on the first one (they outlived it, or were put after a wait that it did not
  outlast). Reconcile saves the new id over the old (300), and `off` deletes only at the
  current one: should a sink get the first id again, the keys are on it, although the last
  `off` reported success. The plugin's README (191–194) says that what could not be cleaned is
  kept until it is.
- `off` after a replug that exchanged the ids and left the metadata: on each sink are the
  other output's keys, which `off` does not delete; they stay on present nodes, noted as
  pending, and `on` refuses to claim those nodes (283). `Traceable` therefore speaks of an
  output's own key on its own sink.
- `off` beside `reconcile` (a WirePlumber restart, an `on` whose child was interrupted): keys
  are put again on what `off` has cleaned.
- `off` beside `mix set`: the mode file is read (651), `off` removes fragment and mode, and
  `write_config` (658) writes a fragment that says of itself "removed when processing is off" (12).
- `off` beside the oneshot: `enable --now` (lifecycle 425) after the selection was checked
  (411) turns the filter on again; the plugin's README (220–221) says that after an explicit
  `off` the filter unit stays stopped until `on` or a reinstallation. Adding `{"off", "restore"}` to `Overlap` admits it.
- `volume`, `TargetIsMixerOutput` on a descriptor with an id that occurs twice: the code takes the first
  entity of the id (`descriptor.rs` 301–306, 389–395) and may say that the mixer's Feature Unit is
  missing. The parser does not refuse such a descriptor.
- `mix step` beside a restart of WirePlumber: reconcile reads the old mix (521), the step
  sets the new one live, reconcile puts the old one back: saved and live mix differ.

## 8. Not modelled

`probe`, argument checks and everything else before the installer's lock, which change nothing;
the text of journals, units and fragments; `id14-sr status`, `mix get`, `mix bar`, which only read;
the slider, a series of `mix set` whose cancel sets what was read at its start; the
comparison of the default sink in `on`. Waiting times: a wait for a node is its outcome.
The inode of `mix.lock`, which a rollback of the installer replaces under a waiting mix
command; NaN in mixes and samples. The network, its training scripts, the corpus
and evidence files are numeric programs or data; the denormal scope saves and restores a
control register around one call; the LADSPA entry points only forward. udev rules, CI and the
verification scripts hold no state.

Smaller simplifications, none of which a property's verdict depends on: in `Routing`, `rm` of
the state files does not fail (453–454), what `systemctl is-active` answers is right, and a device
unit that is up before its sinks are is a device without sinks (`Try`). In `Install`, stopping the old timer and removing its file are one step
(`RetireTimer`, 338–339), several `systemctl` calls in a row are one step without a
partial effect (`RbFlags`, `RbAux`, `RbFilter`), and the oneshot's unit is never active, although
`RemainAfterExit=yes` keeps it so (`id14-sr-restore.service` 8), so that a rollback that stops or
restarts it (163–164, 190–191) is not exercised. In `Id14ctl`, every device descriptor can be read (`usb.rs` 50–52 skips
one that cannot), and a control write transfers all its bytes or fails (`usb.rs` 240–250
ignores the count).

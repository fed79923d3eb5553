# Formal models of meraki2tf

This directory is the verification project of meraki2tf, the tool that captures
a Meraki organization as Terraform code and as a snapshot, and that rebuilds
what was lost from it (`--restore`, `--heal`, `--replay-gaps`). It holds TLA+
modules translated from the Python source, TLC configurations that check them
on small instances, and proofs that TLAPS checks for every instance. Paths of
source files below are relative to `src/src/meraki2tf/`.

## 1. The system

| Part | State it keeps | Operations | What is hard about it | What makes it correct |
|---|---|---|---|---|
| Restore executor, `restorer.py` `OrgRestorer` | journal on disk; resolver, queues and ledgers in memory; the target organization | one pass per round over the pending actions; dispatch, adopt, defer, retry, skip | kills at any point, lost answers, throttling, second incidents, colliding IDs, provisioned defaults | nothing made twice, nothing forgotten, nothing sent out of scope, journal ahead of every create |
| Reference resolver, `restorer.py` `ReferenceResolver` | rows old -> new with their context | record, forget, resolve | IDs unique per type and parent only | a reference never leads out of its own scope |
| Restore journal, `restorer.py` `RestoreJournal` | JSONL file | attempt, done, map, unmap | torn lines, crash between two lines | what is loaded is what happened |
| Wiper, `restorer.py` `OrgWiper` | none; the organization | preview, ordered deletion | check and deletion far apart, retries | nothing is deleted that was not confirmed |
| Discovery, `providers/live.py` | graph, diagnostics; a worker pool | list, sweep by levels, abort | workers, shared pacing, abort races, resume | a graph is complete or it is nothing |
| Checkpoint, `providers/discovery_checkpoint.py` | JSONL[.gz] file | open, get, record, close, complete | kills, torn tails | resumed outcomes are real ones, and none are lost |
| Rate limiter, `providers/ratelimit.py` | rate, next slot, pause | acquire, success, throttle | shared by all workers | bounded rate, nobody starves |
| Orchestrator, `orchestrator.py` | work directory, saved plan, state | one sync run: discover, generate, import, plan, review | partial failure, concurrent runs, deletions | nothing is destroyed without review |
| Terraform runner, `terraform_runner.py`; plan reconciler, `plan_reconciler.py` | Terraform state, plan file | init, import in batches, plan, show; reconcile in rounds | a batch that fails in the middle, convergence | what was imported stays imported |
| Work directory lock, `workdir_lock.py` | a flock | acquire, release | death of the holder | one run per directory |
| Healer, `healer.py` | none; a plan | what of the snapshot is missing, the part `--only` names | scopes, bindings and references of the chosen part | what is chosen is what was meant and all it needs |
| Replayer, `replayer.py` | none, not even a journal | plan, map the networks, check and send one object after another | identifiers re-issued by a rebuilt organization, runs repeated | a write reaches the object it was taken from, once |
| Command line, `cli.py`, `config.py` | one process; its exit code | read and refuse flags, run one mode, report | fifty flags and a config file, several outcomes in one code, kills | no flag is accepted and ignored, the exit code is true |
| Alerts, `alerts/` | channels, events that reached nobody | dispatch to channels | one channel failing, or all | the others still get it, an outage shows in the exit code |
| The rest | none or a cached file | parsing, matching, rendering, sanitizing, checks | data, not behaviour | see `PROJECT.json`, `components` |

How they interact: the command line starts either the orchestrator or one of the
disaster-recovery commands. The orchestrator holds the work directory lock, asks a
provider (live discovery or a dump) for a graph, has HCL generated, drives
Terraform, writes snapshot and coverage, and sends alerts. A restore or a heal
plans from a snapshot (`plan_restore`; `plan_heal` compares with the living
organization first) and runs the restore executor over a journal; a replay writes
from a snapshot without one; a rebuild applies a recovery kit. One command after
the other runs in a directory and meets what the last one left: the journal, the
kit, the organizations. The live provider runs a thread pool that shares one rate
limiter and one checkpoint file; that pool is the only concurrency inside the
program. Everything else concurrent is outside: the dashboard, other
administrators, a second process, and kills.

`PROJECT.json` lists the hazards with their source lines; the properties below
are there for them.

## 2. Modules

| Module | Models | Lines of the source |
|---|---|---|
| `RestoreExecutor` | `OrgRestorer.execute` and all it calls, with the journal, the resolver, the dashboard and the operator | `restorer.py` 119-483, 594-938, 1505-3343 |
| `RestoreExecutorProofs` | theorems about it | |
| `RestoreRoundsProofs`, `RestoreTargetProofs` | theorems about its rounds and queues, and about what reaches the target | |
| `MCRestoreExecutor` | plans for its runs | |
| `AdaptiveTokenBucket` | the rate limiter, state and operations | `providers/ratelimit.py` |
| `DiscoveryCheckpoint` | the checkpoint file, state and operations | `providers/discovery_checkpoint.py` |
| `Discovery` | the sweep, composing the two above | `providers/live.py` 322-1038 |
| `DiscoveryProofs` | theorems about it | |
| `MCDiscovery` | calls for its runs | |
| `TerraformRunner` | the recovery kit, the state and the saved plan; what a plan says; surgery, apply and removal | `terraform_runner.py` 935-1605, 1963-1993; `plan_reconciler.py` |
| `PipelineOrchestrator` | runs of the pipeline on one work directory, composed with the module above and the lock | `orchestrator.py` 242-1365; `workdir_lock.py` |
| `PipelineOrchestratorProofs` | theorems about it | |
| `MCPipelineOrchestrator` | the objects, edits and command lines of its runs | |
| `CommandLine` | which lines `main()` accepts, and the mode it then runs | `cli.py` 167-2713 (validations), `config.py` 183-645 |
| `AlertDispatcher` | dispatching, the count of lost events, the alert exit code | `alerts/dispatcher.py`, `alerts/pagerduty.py` 189-198 |
| `CommandProcess` | one invocation after another: where it is, how it ends, how it reports | `cli.py` 665-2645 |
| `OrgWiper` | the teardown, and the organization that people go on using | `restorer.py` 3458-3791 |
| `RestoreRecord` | what a restore journal promises (the abstract specification) | |
| `RestoreJournal` | the journal as the file it is, with torn endings | `restorer.py` 1533-1735 |
| `Healer` | `plan_heal`, `filter_heal_plan` | `healer.py` 60-654 |
| `GapReplayer` | `plan_replay`, `GapReplayer` | `replayer.py` 100-1089 |
| `DisasterRecovery` | `_wipe_org`, `_restore`, `_heal`, `_replay_gaps`, `_rebuild`, each driving its component | `cli.py` 1030-1950, parts of `dump.py`, `preflight.py`, `terraform_runner.py` |
| `ScheduledRuns` | the pipeline of one or several organizations as a process, the export, the read-only helpers; exit codes | `cli.py` 875-3076, `preflight.py` |
| `Operations` | sessions of commands in one directory: all of the above composed | |
| `MCOperations` | organizations, snapshots and command lines of its runs | |
| `CommandLineProofs`, `OrgWiperProofs`, `OperationsProofs` | theorems about them | |

### RestoreExecutor

One step is the local work up to and including one durable or remote effect, so
that a kill or somebody else's change can fall between any two effects. The
journal variables (`attempted`, `completed`, `mappings`) and the target
(`live`, `nextId`) survive `Crash`; everything else is rebuilt by `Start` from
the journal, as `execute` does. `pc` follows the current action through the
loop body: `take` (drill and journal checks), `address` (addressing checks when
a journaled action re-executes), `lookup` (adoption instead of a POST), `send`
(`_dispatch` up to the call), `call` (the answer), `map` and `done` (the two
journal lines of `_bookkeep_success`), `round` (the end of a round).
`phase = "salvage"` is the end-of-run retry.

The order of the guards is the order of the early `continue`s in the code:
`SkewedAddress`, `SkipDrill`, `SkipCompleted` / `Reexecute`, `RefuseForeign`,
`SkipDead`, `SkipHeld`, `AwaitClaim`, `VerifyBlocks` / `VerifyPasses`.

The data of a plan is in the constant `Attr`: kind, identity, parents, scalar
references, list members, how an object can be recognised (natural key or
client-assigned ID), whether its collection can be read, whether the dashboard
provisions it, whether one object serves all networks, and the drill and
address verdicts that depend on payloads only. `Faults` says what the
dashboard may do. The dashboard itself is modelled from what the code relies
on: it refuses duplicates it can see (unless `"duplicate"`), assigns IDs,
deletes descendants with their parents and provisions defaults in a new parent.

Left out or abstracted:
- payload shaping, drill secrets, firmware catalogs, wording;
- a row's context holds identity pairs, where the code holds bare values;
- the `-1` sentinel that `_adopt_default` re-reads;
- a heal re-plans on every run, so heal runs have `MaxRuns = 1`;
- mappings preset for survivors: a survivor outside the plan is in no path.

### Discovery

The main thread (`pc`) opens the checkpoint, makes the two list calls, then
submits and gathers level by level in submission order; `cancel`, `drain` and
`close` are the abort path. A job (`jobs[c]`) waits in the pool's queue, in
`acquire()`, in the call, or with an answer that is not settled yet. Which
calls there are, on which of `Depth` levels each is and whose elements scope it
(`Level`, `Parent`) are constants; what a call returned decides whether those scoped by
it are made (`Due`), so a call is submitted only after its parent's level was gathered.
Template and aggregation levels are levels like the others; refusing to
dispatch an unverified SDK method is one of the ways to be unreadable; scope
selection and expansion of payloads are data.

The checkpoint file is its lines and how it ends. A kill may cut the line being
appended anywhere, its newline included; a compressed member that was written
to has no trailer after a kill. What is appended behind such an end is lost in
the way the two formats lose it. Instants of the token bucket are kept as what
is left until them, so time needs no counter.

### TerraformRunner and PipelineOrchestrator

An object is its resource address; the organization (`live`) and `resources.tf`
(`config`) hold a version of it, `imports.tf` (`imports`) and the state (`state`) are
sets of addresses. `PlanOf(over)` is what `terraform plan` says, restricted to `over` for
a targeted one: a block is generated for an import that has none, an import whose
block says what the dashboard says is harmless, one that differs is an update, a
tracked address without a block is a delete, a block without an object is a create.
`Phantom` objects are those with a difference that reconciliation can pin. `rejected` is
what the installed provider refuses: it starts as `Rejected`, and `Upgrade`, between two
runs, lets a newer provider refuse one of `MayBeRejected` too. A diagnostic of a plan
(`Failing`) names any address of `rejected` that has a block, tracked or not, and the plan
loop drops that block without a look at the state, as `_drop_unexpressible` (1206-1230)
does. A Read that goes on failing while there is no block to drop ends in `GiveUp` or `Fault`.

`pc[p]` is the stage of process `p`, `idle` when it does not run, and `mem[p]` its local
variables. A step reads the organization (`discover`, `plan`, `window`) or has one effect
on a file or on the state:

- `Start` (lock, rebaseline preflight), `Discover`, `Generate` (imports, baseline reset);
- `NothingDeleted`, `ReviewDeletions`, `ConfirmDeletions`, `AlertDeletions`,
  `PersistReview`: the deletion review, whose record survives the run;
- `Prune`, `RemoveFromState`: the two halves of `remove_resources`;
- `PlanRejected`, `PlanThrottled`, `Reconcile`, `TakePlan`, `GiveUp`: one attempt of
  `plan_with_generation` each;
- `Judge`, `Heal`, `HealAborts`, `HealSpent`, `Regenerate`, `DeferAborts`, `Defer`: what a
  sync run does about drift;
- `Apply`, or `PlanWindow`, `WindowUnreadable`, `ApplyWindow`, `DeferWindow`, `SkipWindow`,
  `WindowsDone`: the guarded full apply, or targeted windows;
- `Finish` (the manifest), `Fault` (any stage raises, the saved plan is discarded) and
  `Kill` (it stays, the kernel releases the lock), each with what Terraform may have
  done of an apply or a removal by then.

`Edit` is somebody working in the dashboard. It happens in stages that read the
organization; one made in any other stage is not seen before the next of these, so
nothing is lost by moving it there. A plan that fails may have written generated blocks
(`LeftBehind`). A work directory may hold blocks that an earlier run left of objects that
were deleted since (`MayBeOrphans`).

`asked` and `cut` are history variables: deletions alerted and not seen back since, and
removals that were interrupted half-way.

A rebuild from the kit is no process here: `--rebuild` applies without the import-only
guard, and is a command of `DisasterRecovery`.

Left out: scoped runs (`--only`), the snapshot comparison and file, the guard of the
state's organization, enum-case repairs, duplicate sets, and the delivery of alerts (an
alert is taken as sent).

### Operations and what it composes

A *session* (`Sessions`) is a few command lines that may be typed one after another
in one directory, whether a key is set, and which alert channels are configured.
`pc` is `"shell"` between commands; `Type` is `main()` up to the dispatch of the
mode, and the running command is at `pc`, its name and the step it is about to
take (`"restore execute"`, `"wipe_org preview"`). `Leave` is `sys.exit`. `Kill` ends
the process anywhere, in a restore also in the middle of the append of a journal
record. `ChangeDevices` is somebody claiming or unclaiming hardware while a wipe
runs, `LoseObject` somebody deleting what was restored.

- `CommandLine`: a line is a set of flags by their argparse destination, the
  `--org-id` values and the keys that a config file adds (`ConfigOf` merges them as
  `RuntimeConfig` does). `Ladder` is the chain of `if`s of `main()` as a sequence of
  rungs (when it applies, when it refuses); `Mode` is what the first rung that applies
  says. Values of flags are the other fields of a line. Left out: argparse's own
  syntax, paths that must exist, wording.
- `AlertDispatcher`: one dispatch goes to every channel that handles it, with any
  subset of endpoints down; an event nobody got is counted and becomes exit code 5
  when there is no worse one. What the channels send is I/O.
- `OrgWiper`: `stage` is where `preview` or `execute` is; every deletion and read is a
  step, so inventory changes fall between any two. Reads may be refused or raise, the
  last deletion is retried. A device is remembered with the moment it was claimed
  (`Moment`): before `execute` verified the organization, during the teardown, or after
  the last check; no code can see the last.
- `RestoreJournal`: `lines` and `tail` (`whole`, `torn`: a fragment of the record the
  process died in; `bare`: a record without its line end). `Load` refuses a file with
  garbage before its end, drops a torn one, reads a bare one like any other line;
  `Remember` is an append and the image in memory, `Durable` what the next process will
  read. What lines say (`FactsOf`) is said line by line: a fact stands unless a later line
  retires it. `RestoreRecord` is the promise: a set of facts, bound once, that only grows
  except for retired mappings. The promise ends (`spoiled`) where a kill falls between a
  record and its line end, and nowhere else. It says what that costs: the next write
  continues the line and loses that record, the write after it makes the file unreadable
  and loses all of them; a process that opens the file in between drops the broken line.
- `Healer`: an asset of the snapshot is a record of what the code reads of it (own
  identity, scopes of its path, references, what it binds or creates). `PlanHeal` is
  what is missing; `SelectDirect`, `GrowScope`, `FollowDependencies` are the
  three passes of `filter_heal_plan`, one object at a time where the order is the
  set's.
- `GapReplayer`: the plan is the indexes `PlanReplay` of the assets, taken in the order of
  the planner (`IsNext`); `MapNetworks` and `Guard` for the target, `Check` with every refusal before a call, `Call` with an answer that may be
  lost. An organization is its networks, serials and what an item number names in it.
- `DisasterRecovery`: a restore here is the order of its journal lines and effects
  (bind, attempt, create, map, done) over a flat list of objects; what waves, references
  and throttling do is `RestoreExecutor`. A heal hands `chosen` to the executor. An object
  is created, or fails, or is *skipped*, which no exit code counts: `HoldBack` is `Hardware`
  under `--skip-claims`, whatever the journal says of it; `AlreadyDone` a journaled object
  that the probe of the resume found or could not tell about; `NotSent` what waits below
  something failed or held back; and `Recreate` may find that the read which must come
  before a heal's write cannot tell. `skips` is what was skipped; what is not there although
  a command is done is `left`: `"skipped"`, or `"work"` when it was not skipped.
- `ScheduledRuns`: what a pipeline run did is one action with each of its outcomes; what
  it does inside is `PipelineOrchestrator`.

Left out: reading and parsing snapshots and kits, the printed plans, log files, secret
handling, the address of a backend, and time.

## 3. Runs

| Run | Question | States |
|---|---|---|
| `RestoreCrash` | three runs, two kills, lost answers, duplicates tolerated, throttling, refusals, errors | 169 thousand |
| `RestoreIncident` | three runs, two changes by other people between them, no faults | 1.5 thousand |
| `RestoreWave` | a drill over fourteen actions with every answer of the dashboard | 960 thousand |
| `Heal` | a heal among survivors: two networks with the same policy IDs, one shared profile, failing reads | 744 thousand |
| `Discovery` | a sweep of three levels, stopped once anywhere and resumed | 256 thousand |
| `Pipeline` | scheduled sync runs beside an operator's confirming, offline and rebaselining runs, two edits or upgrades, one fault | 441 thousand |
| `Operations` | sessions of commands: flags, wipes, restores, heals, replays, rebuilds, scheduled runs | 263 thousand |
| `CheckpointKilled` | violated: a compressed checkpoint does not survive two kills | |
| `HealedUnseen` | violated: what a heal takes out of the state is not always imported again | |
| `ReplayNamesake` | violated: a replayed secret does not always reach its own object | |
| `SkippedUnseen` | violated: exit code 0 does not mean that every object made it back | |
| `BlockRefused` | violated: the kit is not apply-safe between runs, after a provider upgrade | |

What they show:
- `RestoreCrash`: `WriteAhead` (a create is journaled before it can exist),
  `NoDuplicate` (what can be looked up is made once, however often the process
  dies or answers are lost), `JournalTruthful` (a completion is backed by an
  object), `DeviceWritesAfterClaim`, and `RunEnds` under `FairSpec`.
- `RestoreIncident`: `RunRestoresAll`, `MappingsAgree`, `OnlyDeadRowsRetired`,
  `NoFactoryDefaults`. Nobody is killed here: what a kill between a mapping and its
  completion does to `MappingsAgree` is in section 4.
- `RestoreWave`: `NothingForgotten`, `DrillVerdictsPropagate` (what is held back, and
  everything under it, gets its verdict and is never sent), `LinkSurvives`.
- `Heal`: `MappingStaysInScope`, `ReferenceStaysInScope`, `SharedOnce`, `HealIsAdditive`.
  Other people act before the heal (`EnvWhen = "down"`), so `HealIsAdditive` is about what
  the heal planned from and what its reads say; a recreation by hand in the middle of the
  heal is in section 4.
- `Discovery`: `RecordsAreAnswers`, `GraphIsComplete`, `SuspectsSurviveResume`,
  `RecordsResume`, `SweepEnds`.
- `Pipeline`: `TypeOK`, `Exclusive` (one process at a time works on the directory, and
  holds its lock), `ApplySafe` (nothing tracked lacks a block, so no apply destroys it, but
  for a removal under way or interrupted between its two halves, and for what the provider
  has come to refuse; `BlockRefused` shows that the latter exemption is needed, where the
  docstring makes none), `CoverageIsHonest` (the manifest left on disk agrees
  with the `imports.tf` it vouches for), `PendingIsReported`, `RemovedWasReviewed` (nothing
  leaves the state that was not healed or alerted and confirmed), and under `FairSpec`
  `RunEnds` and `EveryObjectIsBanked` (once people stop editing, everything that exists and
  is not refused is tracked).
- `Operations`:
  - `FlagsHonoured`: in a disaster-recovery mode nothing typed is ignored, and nothing
    it acts on came from a config file;
  - `ExitTellsTheTruth`: what the exit code says is so, whatever failed and whoever
    could be told; 0 leaves nothing undone but what the command skipped and reported.
    `SkippedUnseen` shows that the exemption is needed, where a comment makes none;
  - `HardwareStopsWipe`: devices stop the teardown, those claimed meanwhile included;
  - `RestoreStaysBound`: a restore writes only to the target of its line and of its
    journal, never to where the snapshot came from, and a sanitized snapshot only into
    an organization nobody uses, also over a journal that another command left; and the
    journal that says so is on disk, unless a kill has spoiled the file;
  - `JournalImplementsRecord`: the file, torn and resumed, implements `RestoreRecord`
    (`Promise == INSTANCE RestoreRecord WITH facts <- Durable, spoiled <- Spoiled,
    open <- loaded`);
  - `WritesReachTheirOwn`, `ReplayCreatesOnce`: a replayed write reaches the object of
    its name in the network of its name, and a repeated replay creates nothing twice;
  - `SelectionIsClosed`: a heal of selected objects takes what was meant and all it
    needs, and nothing else.

**Bounds.** `MaxThrottle` is 40 in the code and 2 in the runs: one throttle that
is retried and one that exhausts the budget are the two cases. `MaxRuns`,
`MaxCrashes`, `MaxEnv` and `MaxStops` bound how often the command is run, killed and
interfered with; two kills and three runs let a run meet the leftovers of a run
that met leftovers itself. `Discovery` has `MaxStops = 1` and `MaxRuns = 2`: with
one stop `RecordsResume` holds, with a second kill it does not
(`CheckpointKilled`). Plans have two to fourteen actions: the smallest in which a
parent, a child, a claim, a device setting, a reference and its cycle occur.
In `Pipeline`, `MaxHealRounds` is 1 (3 in
the code), `MaxDeferRounds` 1 (2), `MaxPlanAttempts` 4 (10) and `ChunkSize` 2 (1000), so
that every budget is met and exceeded and windows are more than one; its four objects
are a network with a phantom difference, a VLAN whose endpoint may be unreadable and
that comes and goes, an orphaned SSID and an object that is refused. Two edits bring an
object away and back, or change it again after its heal, and `MaxEdits` also counts the one
upgrade, which refuses the network; one fault interrupts each step once. Sessions of `Operations` have one to
three commands: a wipe and a second try, a restore that is killed, resumed and resumed
again, a replay that is run twice. The flag session types every combination of three
flags that `main()` tests by name, with none, one or two organizations, restores with two flags
more, and all pairs of flags with a config file; `OrgDeleteAttempts` is 2 (5 in the
code): the first failure is retried, the second is final. `MaxClaims = 2` lets a device
come and go, `MaxCopies = 2` lets a duplicate be seen. `Tears` has both ways an append can
break, `Hardware` one of the objects of the plan. Two workers are the fewest that race. In the token bucket, rates 1 and 2 and a
pause of one tick make every branch of its arithmetic happen.

**Deadlock** is checked in `Pipeline`, where a scheduler always has a next run to
start. It is not in the other runs: those programs, and the sessions of `Operations`,
stop when their work is done, and the environment need not act.

**Fairness.** The executor is a single thread that blocks only on answers and on
bounded waits, so `WF(Step)` is what an operating system gives it; `Start`, `Crash`
and everything other people do are never forced. In a sweep, the main thread,
each job and the clock are weakly fair. No strong fairness is needed there: a worker
may lose a free slot to another one, but throttle budgets make every other worker
finish. `Operations` checks safety only and assumes none. In the pipeline a process that runs goes on (`WF(Step)`), except that nothing
forces a fault, a throttled plan or an edit; `SF(Scheduled)` says that the cron job or
timer that the documentation asks for starts a sync run again and again: strong, because
an operator's run may hold the lock whenever it fires.

## 4. Where the code departs from what it says

Five violated runs stay in the project; each checks a sentence of the
repository, quoted in `PROJECT.json` under `findings`.

More departures were met while choosing the bounds of the passing runs. Each is
a violation of a property of section 3 that appears when the named constants of a
run are changed, and is the reason for the bound:

| Change | Violated | What happens |
|---|---|---|
| `RestoreIncident` with `Faults = {"throttle"}`, `MaxRuns = 2`, `MaxEnv = 1`, and `NestPlan` with `PolicyNestAttr` | `RunRestoresAll` | a second incident takes a parent and its child, the parent's recreation is throttled: the child's probe cannot tell, the journaled child is skipped as already restored, and the run succeeds without it (`restorer.py` 1993-2037) |
| `RestoreIncident` with `Faults = {"throttle", "refuse"}` and `SiteAttr` | `DeviceWritesAfterClaim` | network and device gone, the network's recreation throttled: the journaled claim is skipped, the device's settings are sent although it is not in the target (`restorer.py` 2008) |
| `RestoreIncident` with `FactoryPolicyAttr` | `NoFactoryDefaults` | a re-executed create adopts the provisioned default of the same name as if it were its own interrupted attempt, unaligned (2195) |
| `RestoreIncident` with `MaxCrashes = 1` | `NoFactoryDefaults` | what was minted is only in memory: after a kill a recreated parent's factory settings pass for restored ones (2584) |
| `RestoreIncident` with `MaxCrashes = 1` | `MappingsAgree` | killed between mapping and completion, then the object is deleted: its re-creation leaves two mappings (2002) |
| `Heal` with `MaxRuns = 2` | `MappingsAgree` | a heal records the mapping of a survivor it verified, but no completion (2123-2137); the survivor is deleted, the next heal over the same journal creates it again, and nothing retires the first row (2550) |
| `Heal` with `AdditiveOnly = FALSE`, `Survivors = {}`, `MaxRuns = 2` | `OnlyDeadRowsRetired` | one network's policy is deleted, the namesake's mapping is retired too (2560) |
| `Heal` with `westPolicy` born and not readable | `MappingStaysInScope` | a conflict adopts the sibling network's object while it is the only one mapped (714) |
| `Heal` with `AdditiveOnly = FALSE`, `Survivors = {}`, `Faults = {"read"}`, `MaxCrashes = 1`, `MaxRuns = 2` | `MappingStaysInScope` | killed after the POST; in the next run the lookup before the create and the search after the conflict both fail to read, and the conflict takes the sibling network's mapping (703-714, 2869-2924) |
| `RestoreCrash` with `"read"` among the faults | `NoDuplicate` | a lookup that fails lets the create be sent again (3324-3329); the server tolerates the duplicate |
| `RestoreWave` with a third object that lists one of the pair | `LinkSurvives` | the drop round is granted to every deferred action at once; a one-sided link is dropped (2363) |
| `Heal` with `EnvWhen = "between"` | `HealIsAdditive` | the probe is cached for the whole pass, and no probe precedes an end-of-run retry (2107) |
| `Heal` with `Faults = {}`, `eastSsid` surviving too and SSIDs addressed under their policies | `HealIsAdditive` | what was recreated is remembered by type and old ID, without the network (`restorer.py` 1818, 2343, 2584-2610): when the west policy is recreated, the surviving SSID under its east namesake passes for absent and is overwritten |
| `CheckpointKilled` with `Gzip = FALSE` | `RecordsResume` | records appended behind a torn plain line are not resumed either |

The comment at `restorer.py` 1566-1575 speaks of any torn append as a fragment that the next
run drops. A tear that costs only the line end is read as a record and not repaired: the next
append continues that line, and the run after loses both records or refuses the file.
`RestoreRecord` says so, and `JournalImplementsRecord` holds with that tear included.

Three more about the pipeline, seen while translating it and not made into runs:
- deferred imports are in the manifest's pending list but have no block in `imports.tf`,
  although `workdir_lock.py` 8-12 says that a manifest with the right fingerprint never
  vouches for absent resources (`CoverageIsHonest` excludes them by name);
- `RUN_SUCCESS` reports zero pending imports after an apply that deferred some
  (`orchestrator.py` 525-526; `PendingIsReported` excludes them);
- a block in `resources.tf` of an object that was deleted before it was imported is a
  create in every later plan. It blocks the full apply for good, and no deletion is
  alerted, because the review compares with the state. `EveryObjectIsBanked` holds
  because the windows go around it.

And about the commands, seen while translating them:
- `--rebuild --confirm` plans again and applies that plan at once; the plan shown by
  the preview is discarded, although `terraform_runner.py` 1648-1654 and 1675-1686 speak
  of applying what was reviewed. When the exclusive copy of the kit raises `OSError` the
  plan file stays behind.
- a deferral of the stall terminator, which `restorer.py` 2378-2382 calls unreachable, is
  reached when a claim is skipped because its network's creation failed (2069-2074);
- two `--org-id` with `--replay-gaps` are accepted and neither is used: `_replay_gaps` takes
  `config.org_id`, which is nothing when several were typed, and falls back to the snapshot's
  organization (`cli.py` 1838; `config.py` 565-567), while the help speaks of one value. `FlagsHonoured`
  asks only that a mode given organizations is one that reads them;
- `deleteOrganization` is retried up to five times, half a minute apart, without the
  interlock of 3740-3743 being run again: `HardwareStopsWipe` speaks of devices claimed
  before the last check, no more can be had;
- `--list-orgs --only` is accepted, `--diff-networks` ignores `--check` and `--estimate`,
  `--estimate` ignores `--discovery-checkpoint`, although `cli.py` calls accepted and
  ignored flags the hazard; `FlagsHonoured` is about the modes that write;
- the disaster-recovery commands take no work directory lock: two restores at once
  append to one journal;
- a journal append that fails leaves the attempt in memory as if it were on disk;
- `--heal --only` of a child of a deleted network recreates the network without its
  template binding when the binding is not itself selected;
- two objects of the snapshot with one name in one collection are taken for one by a
  replay, and a network that was renamed since the snapshot is not mapped.

A plain checkpoint whose header line was cut short refuses every later run: the
`refused` state of `Discovery`.

## 5. Proofs

`RestoreExecutorProofs` proves, for every plan, every target, every set of faults and every
number of runs, crashes and changes by other people:

- `SafeInvHolds`: `Spec => []SafeInv`;
- `TypeCorrect`: `Spec => []TypeOK`;
- `JournalIsWriteAhead`: `Spec => []WriteAhead`.

The assumptions are the three `ASSUME`s of `RestoreExecutor`: the plan lists each action
once, creates and claims have an identity, the constants have their types. TLC evaluates
them in every run.

`WriteAhead` alone is not inductive: that an object just created is journaled follows from
what was done before the call. `SafeInv` adds `CallJournaled` (a create in flight is
journaled), `Working` (a busy executor has a current action, without which `cur` means
nothing) and `IdInHand` (an ID in hand belongs to a create, without which a recorded row
would have no identity). The proof has one lemma per action, split over the conjuncts the
action can disturb; lemmas about `Advance`, `Align`, `Landed` and the probe are shared.

`RestoreRoundsProofs` adds, under the same assumptions,

- `RoundsForgetNothing`: `Spec => []NothingForgotten`. The queues alone do not say it: an
  action without a verdict is in the rest of the round, deferred or throttled (`Queued`),
  and a round that ends with both queues empty therefore has a verdict for everything.

`RestoreTargetProofs` builds on both:

- `CompletionsAreBacked`: with `EnvWhen = "never"`, `Spec => []JournalTruthful`. Nobody else
  changes the target, so an object stays once it is there (`TargetKeeps`), and an action
  about to be recorded has its object in the target (`InHand`). Without the assumption the
  property is false: an administrator may delete what the journal says was done;
- `DrillsSpareHardware`: `Spec => []DrillSparesHardware`, the part of
  `DrillVerdictsPropagate` about what is sent. Past the drill guard no action touches
  hardware, and the salvage round, which does not come by the guard of the first round
  again, holds only actions that passed it (`Drilled`);
- `DevicesAreClaimedFirst`: with `EnvWhen = "never"` and `ClaimsStandAlone` (the address of
  a claim names no serial: `claimNetworkDevices` is addressed by its network), `Spec =>
  []DeviceWritesAfterClaim`. Only the first round waits for claims; that the salvage round
  need not is `Unlocked`: what was sent once had its serials claimed, and a claim, with
  nobody else about, is not undone (`TruthInv`);
- `OneAnswerEach`: with `PathsTellApart` (address and identity name one create), `MaxCrashes
  = 0` and `~AdditiveOnly`, `Spec => []MappingsAgree`, whatever other people do between the
  runs. A row belongs to a create that is completed or about to be (`Recorded`), what waits
  to be sent has no row (`Unmapped`), and an action waits in one place, once (`OnceInv`).
  The last two hypotheses cannot go: section 4 has the counterexamples;
- `DrillsHoldAllTheWay`: with `ParentsFirst` (the waves of `plan_restore`),
  `FaultsAreOutside` (no skewed or foreign address under hardware: the code reports those
  before the drill's verdict) and `MaxRuns = 1` (an empty journal), `Spec =>
  []DrillVerdictsPropagate`. `HeldBack`: nothing was taken before its parents, in no round,
  so a skipped parent is known before its children come up (`Ordered` for each queue);
- `MadeOnce`: with `EnvWhen = "never"`, `LookupsWork`, `NothingUnknown` (a survivor or a
  provisioned object that a lookup finds carries the dashboard's default flag) and
  `ParentsAreNumbered` (an object that brings others along has its ID from the server),
  `Spec => []NoDuplicate`. `DupInv`: every object a lookup could find was journaled before
  it was made (`Known`), so it is looked for before it is sent again, and between the lookup
  and the call there is none (`Looked`); two scopes are never confused, because IDs are
  handed out in order (`FreshIds`). `LookupsWork` leaves out failing reads, for which the
  property is false (section 4), and refusals without a cause, for which `RestoreCrash`
  finds it true: the salvage round sends without looking, and that no other run has put the
  object there by then is not proved;
- `MappingsStayHome`: with `NamesakesAreFound` (reads work, duplicates are refused, what
  networks do not share is readable where its key is unique), `SharedAlike` (whether
  networks share an object is a matter of its identity) and `ParentsAreNumbered`, `Spec =>
  []MappingStaysInScope`, whoever changes what at whatever moment the model allows.
  `IdsLead`: every ID about, in the target, in a cached listing or in hand, is that of one
  object of one network. A conflict is answered from a sibling's mapping only if the object
  is not found where it is, hence only if it is shared: that is what `sibling_mapping`
  relies on. `Heal` checks failing reads as well, for one run without kills;
- `OneForAllNetworks`: with `EnvWhen = "never"` and `SharedAreCreated` (a shared object is a
  create with an ID of the server's, provisioned by nothing, and at first there once at
  most), `Spec => []SharedOnce`, failing reads, kills and heals included. The server refuses
  a second one, which gives `OneEach`, and whatever ID the executor recovers, adopts, is
  given or remembers is of the one that is there (`SharedAreThere`).

- `ReferencesStayHome`: with the hypotheses of `MappingsStayHome`, `PathsTellApart`,
  `RefsAreNumbered` (references are to creates numbered by the server), `NothingInItself`,
  `NestedAlike` (whether an object has parents is a matter of its type) and `MaxRuns = 1`
  (an empty journal), `Spec => []ReferenceStaysInScope`, whoever changes what meanwhile. That
  a mapping leads to the right object is not enough: the object must also stand where its
  address says. `AllPlaced` says so of every ID about, in the target, in a cached listing, in
  the mappings or in hand: while mappings are only added, the answer for a parent, once
  known, is the one its children were written under. A second run retires rows and makes
  parents again while children stand under the old ones; for that it is only checked;
- `HealsAreAdditive`: with `EnvWhen # "between"`, `MaxRuns = 1`, `SurvivorsStand` (what
  survives survives with what it hangs under), `AddressesAreWhole` (an address spells out the
  parents of its parents, as paths of the dashboard do), `OneCollectionOnePlace` (what is
  listed together has one address), `ParentsAreFound` (parents can be looked up) and
  `ParentsTellApart` (no two parents of one identity), `Spec => HealIsAdditive`, failing
  reads, lost answers and kills included. The guards go by what the executor remembers, the
  property by what is in the target; between the two stands `HealInv`. While the heal runs,
  what survived hangs under survivors, each parent there once (`OldWorld`), every listing
  read shows the survivors in its place (`Honest`), every mapping of a parent leads to the
  surviving one if there is one (`RowsLead`), no such parent counts as minted (`MintedNew`),
  and what is on its way to a write, or was written, did not survive (`WritesLost`).
  Without `ParentsTellApart`, and with changes between the actions, the property is false:
  section 4 has both counterexamples;
- `LinksSurvive`: with `LinksAreMutual` (who lists somebody is listed by him, and by nobody
  else; both are creates with an identity of their own, in reach of each other's
  references) and `MaxRuns = 1`, `Spec => LinkSurvives`, with every fault, kills, heals and
  other people's changes at any moment. The stall breaker lets both sides drop the link at
  once; which one does is decided much later, when they are sent. `LinkInv`: what is still
  to be written has neither object nor row (`NotYet`), so the side written second finds the
  row of the first, or the first never gets one (`WrittenLast`). A list that is not mutual
  is dropped for good: section 4 has the counterexample.
- `RunsRestoreAll`: with `EnvWhen # "between"`, `MaxCrashes = 0`, `~AdditiveOnly`,
  `AnswersAreFinal` (a call is answered, with the new ID, or is a failure: no throttling, no
  response without an ID, no refusal kept for the salvage round) and `AllAreFound`
  (everything can be looked up and belongs to one network), and for plans in wave order
  (`ParentsFirst`) whose parents are planned, one of a kind, numbered by the server and refer
  to nothing beside their own parents (`ParentsArePlanned`, `ParentsTellApart`,
  `ParentsAreNumbered`, `ParentsReferToParents`, with `PathsNest` and `PathsTellApart` for the
  addresses), `Spec => RunRestoresAll`: for any number of runs, and whatever other people
  delete or put back before each. The verdict "already restored" is taken from a journal of
  earlier runs; it is right because a completed action is probed first, at an address whose
  parents this run has already settled. `RestoredInv` says when that is so. Parents come up
  in order and are never deferred, so one that was settled has a row (`ParentsSettled`),
  hence the probe of a child is never the "cannot tell" that lets the child pass; what a
  probe answers from its cache is in the target (`Remembers`, `Truthful`); and what was
  settled is there (`SettledLive`). `ParentsSettled` and `SettledLive` are claimed only while
  no action of the run failed (`Untroubled`): a completed child of a failed parent is reported as restored
  although nobody looked. Two hypotheses are known to be needed: under throttling a parent
  waits while its children pass (section 4), and with changes between
  the actions what was looked for may be gone when the run ends.

The runs whose properties these are meet the hypotheses, with these exceptions where they go
further: the faults named above in `RestoreCrash` and in `Heal` (failing reads, for
`MappingsStayHome` and `ReferencesStayHome`), and the one change by other people before the
heal in `Heal`, which for `OneForAllNetworks` is another set of survivors.

`PipelineOrchestratorProofs` proves, for every set of processes, objects, edits and command
lines and every budget:

- `KitInvHolds`: `Spec => []KitInv`, the inductive invariant;
- `LockIsExclusive`: `Spec => []Exclusive`;
- `KitIsApplySafe`: `Spec => []ApplySafe`: only a removal, under way or interrupted, and the
  plan loop over what the provider has come to refuse leave something tracked without a block;
- `DeletionsAreReviewed`: `Spec => RemovedWasReviewed`;
- `ManifestIsHonest`: `Spec => []CoverageIsHonest`;
- `PipelineTypes`: `Spec => []TypeOK`;
- `PendingIsCounted`: `Spec => []PendingIsReported`.

The assumptions are `ObjsAssumption` and `RunAssumption`. `ApplySafe` is not inductive: an
apply adds to the state whatever the saved plan imports, so those must still have their
blocks (`SavedHasBlocks`, between a plan and its apply), and a rebaseline empties
`resources.tf`, so the state must still be as empty as at the preflight
(`EmptyWhenRebaselined`). Both hold only because nobody else moves meanwhile, which is
`Exclusive` in `Control`. One lemma per action, one step per conjunct.

`RemovedWasReviewed` speaks of the step that removes; the decision is several stages older.
What waits for a confirmation was named by an alert (`AlertedFirst`), what is doomed at the
removal is healed or was confirmed while missing (`Confirmed`), and what the run is about to
alert, or to record as alerted, is missing from its sweep (`Noted`). `CoverageIsHonest`
needs that from the generation to the manifest every captured object is tracked or has its
import block (`Covers`); a manifest left behind by an earlier run is judged by its
fingerprint alone (`Honest`). `TypeOK` needs that the local variables that reach the kit
hold objects only (`InScope`), besides the types of the kit's own files (`KitType`).
`PendingIsReported` compares a number computed after the plan with a list written at the
end; `Accounts` follows what is still pending from one to the other: it is in the plan's
scope while the plan is made, among its imports while they are decided upon, and in the
windows to come, the chunk in hand or what is owed afterwards while they are applied.

`OrgWiperProofs` proves, for every organization, every inventory history and every number of
attempts, under `WiperAssumption`:

- `WiperTypes`: `WiperSpec => []WiperTypeOK`;
- `WipeStopsAtHardware`: `WiperSpec => HardwareStopsWipe`;
- `CallerKeepsAccess`: `WiperSpec => []CallerStays`, the key in use always belongs to an
  admin.

`HardwareStopsWipe` speaks of steps; it needs that during the teardown no device from before
its beginning is there (`NoOldHardware`, since `Verify` saw none and a later claim is
remembered as later), and that after the last check none claimed meanwhile is
(`NoMidHardware`).

`DiscoveryProofs` proves, for all calls on any number of levels, every pool, rate, throttle
budget and file format, and any number of runs and stops:

- `SweepTypes`: `Spec => []TypeOK`;
- `CheckpointHoldsAnswers`: `Spec => []RecordsAreAnswers`;
- `FinishedIsWhole`: `Spec => []GraphIsComplete`;
- `TallyIsOfOneRun`: `Spec => []SuspectsSurviveResume`.

The assumptions are `BucketAssumption`, `CheckpointAssumption` and `DiscoveryAssumption`.
The invariant has two halves. The file holds nothing but answers (`Kept`): a tear, an append
behind one and a reading never make a record of anything else, which the lemmas about
`Appended`, `CutShort`, `Killed` and `Readings` say once for both formats. The sweep: a job
that is settled holds an answer of the API, with its tally, unless the sweep is aborting
(`Jobs`); a sweep that aborts never gathers again and submits nothing twice (`Courses`);
what is gathered is what the jobs hold, and nothing due on a level that was swept is missing
(`Gatherings`), because gathering a level cannot change what was due on it or before it.
`Budgets` bounds the throttled attempts.

`CommandLineProofs` proves `AcceptedIsHonoured`: whatever the line, if its mode is a
disaster-recovery one the line is honoured. The first rung that applies exists and is unique
(`FirstRung`), so all rungs before it were passed without a refusal (`RungsPassed`), and
what they refuse together with what the mode's own rung refuses leaves only flags the mode
uses (`NothingIgnored`).

`OperationsProofs` proves, for all sessions, every safety property of `Operations` but
`SecretsReachTheirOwn` and `CleanMeansDone`, which the violated runs refute. The assumptions are `SessionsAssumption` (lines are
made of known flags), `WiperAssumption`, `JournalAssumption` (an append breaks in one of the two
ways), `SnapshotAssumption` (a snapshot lists a key once),
`RestoreAssumption` (the objects of a plan are a list, a line names a known target) and
`ReplayAssumption` (a name of the snapshot is one object, a network object is of a network
of the snapshot):

- `SessionsHonourFlags`: `Spec => []FlagsHonoured`. A mode is entered only by `Type`; every
  other action is *quiet*: it stays on its line or goes to no beginning of a mode.
- `SessionsSpareHardware`: `Spec => HardwareStopsWipe`, because a session implements
  `WiperSpec`: every other command leaves the wiper's variables alone, and a wipe begins
  only when none is under way (`WipeHere`).
- `SessionsSelectClosed`: `Spec => []SelectionIsClosed`. The property is about the end of
  the selection; `HealInv` says what each pass has reached: after the direct matches
  everything chosen was meant, growing a scope keeps that, and while dependencies are
  followed every need of a chosen object is chosen or still in the frontier.
- `SessionsStayBound`: `Spec => RestoreStaysBound`, and `SessionsKeepTheRecord`: `Spec =>
  JournalImplementsRecord`, the refinement of `RestoreRecord`, whatever a kill leaves of the
  append it falls into. `FileInv`: the file holds records of this restore and garbage, a
  bare ending is that of a record, no process has a torn one open, and what a process holds
  in memory is what the lines say unless the file is spoiled. While it is not, a write adds one line and one fact (`CleanLines`, `OneMore`);
  what stands behind a bare record costs that record (`LastLineUndone`), what stands behind
  garbage costs all (`BehindGarbage`). `RestoreInv`: a running restore is bound to the target
  of its line, and completes only what it attempted. That a spoiled file cannot send a
  resumed restore elsewhere is `OnlyTold`: nothing is held in memory that no line told.
- `SessionsReachTheirOwn`: `Spec => []WritesReachTheirOwn`, and `SessionsCreateOnce`: `Spec
  => []ReplayCreatesOnce`. `ReplayInv`: the networks a run has mapped are those
  `NetworkIdMap` gives for its target, and between check and call the call is `Admitted`: it
  passed every refusal, and a create found nothing unless nobody could look.
- `SessionsTellTheTruth`: `Spec => []ExitTellsTheTruth`. The exit code is computed at the
  end from what a command counted on the way, so `TruthInv` follows the counting: what a
  restore or a heal has neither pending, failed nor skipped is in the target, each planned write of a
  replay is queued or has a verdict, a wipe that says so has wiped (`WipeTruth`,
  `RestoreTruth`, `HealTruth`, `ReplayTruth`), and the codes of a scheduled run and what it
  leaves agree (`RunTruth`).
- `SessionsStayTyped`: `Spec => []TypeOK` (`SessionTypes`).

Only model-checked are:
- `OnlyDeadRowsRetired`: it speaks of rows that an earlier run left, so it needs the target
  followed over several runs, and holds only for the bounds of section 4;
- `NoFactoryDefaults`: an object that was provisioned in a run which then failed would pass
  for a restored one in the next, so it holds only where no run fails, and needs what an
  earlier run minted followed into the next;
- `RecordsResume`: it speaks of the lines a later run reads back and would need an induction
  over data;
- the liveness properties (`RunEnds` twice, `SweepEnds`, `EveryObjectIsBanked`): liveness
  and fairness are out of the prover's reach.

## 6. Plan

In this order; what exists is marked.

1. `RestoreExecutor` with runs and proofs (done).
2. `AdaptiveTokenBucket`, `DiscoveryCheckpoint`, `Discovery` with runs and proofs (done).
3. `TerraformRunner` and `PipelineOrchestrator` with runs and proofs, of the deletion
   review, of the manifest and of the types too (done).
4. `JournalTruthful` proved for `EnvWhen = "never"` (done); an abstract `Restore` (a set of
   objects each made at most once) that `RestoreExecutor` implements on plans whose
   objects can be looked up.
5. `RestoreJournal` implementing `RestoreRecord` (done).
6. `OrgWiper` with its proofs (done).
7. Pure operators: feature classification, reference resolution and rewriting, snapshot
   and network diff, against reference definitions.
8. `Healer`, `GapReplayer`, the alert dispatcher and the command line, composed in
   `Operations` (done), with proofs of every safety property that holds (done).
9. The rest of the restore's safety, each with its invariant: `MappingsAgree`,
   `DeviceWritesAfterClaim`, `DrillVerdictsPropagate`, `NoDuplicate`, `MappingStaysInScope`,
   `SharedOnce`, `RunRestoresAll`, and for one run `ReferenceStaysInScope`, `HealIsAdditive`
   and `LinkSurvives` (done);
   `NoDuplicate` under refusals without a cause, `ReferenceStaysInScope` over several runs and
   `OnlyDeadRowsRetired` over an invariant of the target that outlives a run.

## 7. Not modelled

Endpoint expansion, the dump's format, progress, the snapshot diff, the text of the
sanitizer, the specification and the catalog, file helpers, runbook documents, the Azure
runbook, packaged data, the tools, and the single checks of preflight: data in, data or
text out, without state that a second step could meet. `PROJECT.json` gives a reason for
each, and says of every partly modelled part what is missing.

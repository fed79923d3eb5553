----------------------- MODULE PipelineOrchestrator -----------------------
(***************************************************************************)
(* PipelineOrchestrator (orchestrator.py): one run of the pipeline, and    *)
(* the runs of a scheduler and an operator on one work directory over the  *)
(* months.  Runs overlap only in trying: each holds the work directory's   *)
(* lock.  People edit the organization in the dashboard at any moment, and *)
(* any run can fail or be killed at any step.                              *)
(*                                                                         *)
(* A step reads the organization (discovery, a terraform plan) or has one  *)
(* effect on the kit, the state or the files beside them.                  *)
(***************************************************************************)
EXTENDS TerraformRunner

CONSTANTS
  Runs,              \* processes: the scheduled run, an operator's run
  Nobody,            \* no process holds the lock
  Invocations,       \* the option sets that each process is started with
  Edits,             \* the versions that people bring each object to
  MayBeOrphans,      \* those an earlier run may have left a block of, and
                     \* that were deleted since
  MayBeUnreadable,   \* those whose endpoint sometimes cannot be read
  MaxHealRounds,     \* _MAX_HEAL_ROUNDS (3 in the code)
  MaxDeferRounds,    \* _MAX_DEFER_ROUNDS (2 in the code)
  MaxPlanAttempts,   \* _MAX_PLAN_ATTEMPTS (10 in the code)
  ChunkSize,         \* _MATERIALIZE_CHUNK_SIZE (1000 in the code)
  MaxEdits,          \* bound: changes in the dashboard and of the provider
  MaxFaults          \* bound: failures, kills and unreadable endpoints

ASSUME RunAssumption ==
  /\ Nobody \notin Runs
  /\ \A p \in Runs :
       Invocations[p] \subseteq {o \in [sync : BOOLEAN, confirm : BOOLEAN, compare : BOOLEAN,
                                    rebaseline : BOOLEAN] : o.sync \/ o.rebaseline => o.compare}
  /\ Edits \in [Objs -> SUBSET (0 .. MaxVersion)]
  /\ MayBeOrphans \subseteq Objs /\ MayBeUnreadable \subseteq Objs
  /\ MaxHealRounds \in Nat /\ MaxDeferRounds \in Nat
  /\ MaxPlanAttempts \in Nat \ {0} /\ ChunkSize \in Nat \ {0}
  /\ MaxEdits \in Nat /\ MaxFaults \in Nat

VARIABLES
  holder,     \* the process that holds the lock on the work directory
  pc, mem,    \* where each process is, and its local variables
  reviewed,   \* pending-deletions.json
  manifest,   \* coverage.json, with what RUN_SUCCESS said of pending imports
  asked,      \* history: alerted deletions not seen back by a review since
  cut,        \* history: addresses whose surgery was interrupted half-way
  edits, faults

files == <<reviewed, manifest>>
history == <<asked, cut>>
bounds == <<edits, rejected, faults>>
vars == <<live, state, kit, holder, pc, mem, files, history, bounds>>

Stages == {"idle", "discover", "generate", "review", "alert", "persist", "prune", "rm",
           "plan", "judge", "healed", "deferred", "heal", "regenerate", "defer", "apply",
           "window", "act", "manifest"}

\* A count that may be absent is a set with at most one member.
Unknown == {}

Fresh ==
  [sync |-> FALSE, confirm |-> FALSE, compare |-> FALSE, rebaseline |-> FALSE,
   graph |-> {}, unread |-> {}, existing |-> {}, missing |-> {},
   doomed |-> {}, then |-> "plan", over |-> {}, after |-> "judge", attempts |-> 0,
   dropped |-> {}, drift |-> FALSE, regenerated |-> {}, deferred |-> {},
   heals |-> 0, defers |-> 0, todo |-> {}, chunk |-> {}, retried |-> FALSE,
   owed |-> {}, pending |-> Unknown]

\* Process p goes to a stage with these local variables.
Goto(p, stage, locals) ==
  /\ pc' = [pc EXCEPT ![p] = stage]
  /\ mem' = [mem EXCEPT ![p] = locals]

Untouched == UNCHANGED <<live, state, kit>>
Quiet == UNCHANGED <<holder, files, history, bounds>>

\* report.captured after the reconciliation audit, and what of it is left
\* to import (_pending_targets).
Captured(p) == mem[p].graph \ mem[p].dropped
PendingTargets(p) == (Captured(p) \ state) \ mem[p].deferred

-----------------------------------------------------------------------------
(* The lock, discovery, generation.                                        *)

\* The options of the command line.
Given(p, o) == [mem[p] EXCEPT !.sync = o.sync, !.confirm = o.confirm,
                              !.compare = o.compare, !.rebaseline = o.rebaseline]

\* Mutant: no lock on the work directory.
StartUnlocked(p) ==
  /\ pc[p] = "idle"
  /\ \E o \in Invocations[p] : /\ o.rebaseline => state = {}
                            /\ Goto(p, "discover", Given(p, o))
  /\ Untouched /\ UNCHANGED <<holder, files, history, bounds>>

\* WorkdirLock.acquire; a run that finds the lock taken refuses and touches
\* nothing.  --rebaseline over a populated state is refused here as well.
Start(p) ==
  /\ pc[p] = "idle" /\ holder = Nobody
  /\ \E o \in Invocations[p] : /\ o.rebaseline => state = {}
                            /\ Goto(p, "discover", Given(p, o))
  /\ holder' = p
  /\ Untouched /\ UNCHANGED <<files, history, bounds>>

Discover(p) ==
  /\ pc[p] = "discover"
  /\ \E u \in SUBSET MayBeUnreadable :
       /\ faults + Cardinality(u) <= MaxFaults
       /\ faults' = faults + Cardinality(u)
       /\ Goto(p, "generate", [mem[p] EXCEPT !.graph = {a \in Objs : live[a] # 0} \ u,
                                             !.unread = u])
  /\ Untouched /\ UNCHANGED <<holder, files, history, edits, rejected>>

\* State inspection, the baseline reset, and the first generation of
\* imports.tf.
Generate(p) ==
  /\ pc[p] = "generate"
  /\ imports' = mem[p].graph \ state
  /\ IF mem[p].rebaseline
     THEN config' = Without(config, Objs) /\ pinned' = {}
     ELSE UNCHANGED <<config, pinned>>
  /\ Goto(p, "review", [mem[p] EXCEPT !.existing = state])
  /\ UNCHANGED <<live, state, saved>> /\ Quiet

-----------------------------------------------------------------------------
(* _review_deletions.                                                      *)

ToComparison(p) == IF mem[p].compare THEN "plan" ELSE "manifest"

Deleted(p) == (mem[p].existing \ mem[p].graph) \ mem[p].unread
Whole(p) == [mem[p] EXCEPT !.existing = {}, !.missing = {}, !.unread = {},
                           !.over = Objs, !.after = "judge"]

\* Nothing is missing any more: the record of an earlier alert is cleared.
NothingDeleted(p) ==
  /\ pc[p] = "review" /\ Deleted(p) = {}
  /\ reviewed' = {}
  /\ asked' = asked \ mem[p].graph
  /\ Goto(p, ToComparison(p), Whole(p))
  /\ Untouched /\ UNCHANGED <<holder, manifest, cut, bounds>>

ReviewDeletions(p) ==
  /\ pc[p] = "review" /\ ~mem[p].confirm /\ Deleted(p) # {}
  /\ Goto(p, "alert", [mem[p] EXCEPT !.missing = Deleted(p)])
  /\ Untouched /\ Quiet

\* Mutant: a confirmation covers whatever is missing.
ConfirmAll(p) ==
  /\ pc[p] = "review" /\ mem[p].confirm /\ Deleted(p) # {}
  /\ Goto(p, "prune", [mem[p] EXCEPT !.missing = {}, !.doomed = Deleted(p),
                                     !.then = "persist"])
  /\ Untouched /\ Quiet

\* --confirm-deletions covers what an earlier run alerted, nothing else.
ConfirmDeletions(p) ==
  /\ pc[p] = "review" /\ mem[p].confirm /\ Deleted(p) # {}
  /\ LET confirmed == Deleted(p) \cap reviewed
         unalerted == Deleted(p) \ reviewed
         next == IF unalerted = {} THEN "persist" ELSE "alert"
     IN Goto(p, IF confirmed = {} THEN next ELSE "prune",
             [mem[p] EXCEPT !.missing = unalerted, !.doomed = confirmed, !.then = next])
  /\ Untouched /\ Quiet

AlertDeletions(p) ==
  /\ pc[p] = "alert"
  /\ asked' = asked \cup mem[p].missing
  /\ Goto(p, "persist", mem[p])
  /\ Untouched /\ UNCHANGED <<holder, files, cut, bounds>>

PersistReview(p) ==
  /\ pc[p] = "persist"
  /\ reviewed' = mem[p].missing
  /\ asked' = asked \ mem[p].graph
  /\ Goto(p, ToComparison(p), Whole(p))
  /\ Untouched /\ UNCHANGED <<holder, manifest, cut, bounds>>

-----------------------------------------------------------------------------
(* remove_resources: the baseline first, then the state.                   *)

Prune(p) ==
  /\ pc[p] = "prune"
  /\ PruneBaseline(mem[p].doomed)
  /\ Goto(p, "rm", mem[p])
  /\ Quiet

RemoveFromState(p) ==
  /\ pc[p] = "rm"
  /\ StateRm(mem[p].doomed)
  /\ cut' = cut \ mem[p].doomed
  /\ Goto(p, mem[p].then, [mem[p] EXCEPT !.doomed = {}])
  /\ UNCHANGED <<holder, files, asked, bounds>>

-----------------------------------------------------------------------------
(* plan_with_generation: one terraform plan per step.                      *)

LastAttempt(p) == mem[p].attempts + 1 >= MaxPlanAttempts

\* Terraform reports validation errors piecemeal; a named resource leaves
\* the kit and is reported as unsupported.
PlanRejected(p) ==
  /\ pc[p] = "plan" /\ ~LastAttempt(p)
  /\ \E named \in (SUBSET Failing(mem[p].over)) \ {{}} :
       /\ \E blocks \in LeftBehind(mem[p].over) : DropFrom(blocks, named)
       /\ Goto(p, "plan", [mem[p] EXCEPT !.dropped = @ \cup named, !.attempts = @ + 1])
  /\ UNCHANGED <<live, state, saved>> /\ Quiet

PlanThrottled(p) ==
  /\ pc[p] = "plan" /\ Failing(mem[p].over) = {} /\ ~LastAttempt(p)
  /\ faults < MaxFaults /\ faults' = faults + 1
  /\ Goto(p, "plan", [mem[p] EXCEPT !.attempts = @ + 1])
  /\ Untouched /\ UNCHANGED <<holder, files, history, edits, rejected>>

\* Only phantom differences: pin them and plan again.
Reconcile(p) ==
  /\ pc[p] = "plan" /\ Failing(mem[p].over) = {} /\ ~LastAttempt(p)
  /\ LET found == Remediable(PlanOf(mem[p].over), mem[p].over)
     IN found # {} /\ pinned' = pinned \cup found
  /\ SavePlan(mem[p].over)
  /\ Goto(p, "plan", [mem[p] EXCEPT !.attempts = @ + 1])
  /\ Quiet

\* The plan is taken.  Only sync keeps the file.
Outlook(p, plan) ==
  [mem[p] EXCEPT !.drift = Mutations(plan) # {}, !.attempts = 0,
                 !.pending = {Cardinality(Imported(plan))}]

TakePlan(p) ==
  /\ pc[p] = "plan" /\ Failing(mem[p].over) = {}
  /\ LET plan == PlanOf(mem[p].over)
     IN /\ LastAttempt(p) \/ Remediable(plan, mem[p].over) = {}
        /\ Goto(p, mem[p].after, Outlook(p, plan))
        /\ saved' = IF mem[p].sync THEN plan ELSE NoPlan
  /\ config' = Generated(mem[p].over)
  /\ UNCHANGED <<live, state, pinned, imports>> /\ Quiet

-----------------------------------------------------------------------------
(* The decision on a plan, and _handle_sync_drift.                         *)

ToWindows(p) ==
  Goto(p, "window", [mem[p] EXCEPT !.todo = PendingTargets(p), !.owed = {}])

\* After the first plan, after a heal's plan and after a deferral's.
Judge(p) ==
  /\ pc[p] \in {"judge", "healed", "deferred"}
  /\ Goto(p, IF ~mem[p].sync THEN "manifest"
             ELSE IF mem[p].drift THEN IF pc[p] = "deferred" THEN "defer" ELSE "heal"
             ELSE IF HasChanges(saved) THEN "apply" ELSE "manifest", mem[p])
  /\ Untouched /\ Quiet

Blocking == Mutations(saved) \ Updates(saved)

\* Mutant: an abort of the full apply ends the run.
HealAbortsAll(p) ==
  /\ pc[p] = "heal" /\ mem[p].heals < MaxHealRounds
  /\ Blocking # {} \/ Updates(saved) = {}
  /\ Goto(p, "manifest", mem[p])
  /\ Untouched /\ Quiet

\* Creates, deletes and replaces are for a human to judge.
HealAborts(p) ==
  /\ pc[p] = "heal" /\ mem[p].heals < MaxHealRounds
  /\ Blocking # {} \/ Updates(saved) = {}
  /\ ToWindows(p)
  /\ Untouched /\ Quiet

\* Meraki is truth: modified resources become import candidates again.
Heal(p) ==
  /\ pc[p] = "heal" /\ mem[p].heals < MaxHealRounds
  /\ Blocking = {} /\ Updates(saved) \ mem[p].regenerated # {}
  /\ Goto(p, "prune", [mem[p] EXCEPT !.doomed = Updates(saved), !.then = "regenerate",
                                     !.regenerated = @ \cup Updates(saved),
                                     !.heals = @ + 1])
  /\ Untouched /\ Quiet

HealSpent(p) ==
  /\ pc[p] = "heal"
  /\ \/ mem[p].heals = MaxHealRounds
     \/ Blocking = {} /\ Updates(saved) # {} /\ Updates(saved) \subseteq mem[p].regenerated
  /\ Goto(p, "defer", mem[p])
  /\ Untouched /\ Quiet

\* Mutant: what the plan loop dropped is written back.
RegenerateAll(p) ==
  /\ pc[p] = "regenerate"
  /\ imports' = mem[p].graph \ state
  /\ LET targets == PendingTargets(p)
     IN Goto(p, "plan", [mem[p] EXCEPT !.over = IF targets = {} THEN Objs ELSE targets,
                                       !.after = "healed"])
  /\ UNCHANGED <<live, state, config, pinned, saved>> /\ Quiet

Regenerate(p) ==
  /\ pc[p] = "regenerate"
  /\ imports' = Captured(p) \ state
  /\ LET targets == PendingTargets(p)
     IN Goto(p, "plan", [mem[p] EXCEPT !.over = IF targets = {} THEN Objs ELSE targets,
                                       !.after = "healed"])
  /\ UNCHANGED <<live, state, config, pinned, saved>> /\ Quiet

-----------------------------------------------------------------------------
(* _defer_racy_pending: the rest can be applied without the few imports    *)
(* that somebody keeps editing.                                            *)

Racy == Updates(saved) \ state

DeferAborts(p) ==
  /\ pc[p] = "defer"
  /\ \/ mem[p].defers = MaxDeferRounds
     \/ Mutations(saved) # Racy
     \/ Racy \subseteq mem[p].deferred
  /\ ToWindows(p)
  /\ Untouched /\ Quiet

\* Mutant: resources that the state tracks are deferred like the others.
DeferTracked(p) ==
  /\ pc[p] = "defer" /\ mem[p].defers < MaxDeferRounds
  /\ Updates(saved) \ mem[p].deferred # {}
  /\ DropFromKit(Updates(saved))
  /\ Goto(p, "window", [mem[p] EXCEPT !.todo = {}, !.owed = {}])
  /\ UNCHANGED <<live, state, saved>> /\ Quiet

Defer(p) ==
  /\ pc[p] = "defer" /\ mem[p].defers < MaxDeferRounds
  /\ Mutations(saved) = Racy /\ Racy \ mem[p].deferred # {}
  /\ DropFromKit(Racy)
  /\ LET left == PendingTargets(p) \ Racy
     IN /\ Goto(p, IF left = {} THEN "window" ELSE "plan",
                [mem[p] EXCEPT !.deferred = @ \cup Racy, !.defers = @ + 1,
                               !.over = left, !.after = "deferred", !.todo = {},
                               !.owed = {}])
        /\ saved' = IF left = {} THEN NoPlan ELSE saved
  /\ UNCHANGED <<live, state>> /\ Quiet

-----------------------------------------------------------------------------
(* Materialization: one guarded apply, or one targeted window after        *)
(* another (_materialize_state_batched, _apply_targeted_chunk).            *)

Apply(p) ==
  /\ pc[p] = "apply" /\ GuardHolds
  /\ ApplySaved
  /\ Goto(p, "manifest",
          IF Imported(saved) \subseteq state THEN mem[p] ELSE [mem[p] EXCEPT !.pending = {0}])
  /\ Quiet

Chunks(p) ==
  IF mem[p].chunk # {} THEN {mem[p].chunk}
  ELSE {c \in SUBSET mem[p].todo :
          Cardinality(c) = IF Cardinality(mem[p].todo) < ChunkSize
                           THEN Cardinality(mem[p].todo) ELSE ChunkSize}

\* The window is over; what was not imported is still owed.
Close(p, owing) ==
  Goto(p, "window", [mem[p] EXCEPT !.chunk = {}, !.retried = FALSE,
                                   !.owed = @ \cup owing])

\* Mutant: a window that could not be planned is forgotten.
PlanWindowForgets(p) ==
  /\ pc[p] = "window" /\ mem[p].todo \cup mem[p].chunk # {}
  /\ \E c \in Chunks(p) :
       /\ Failing(c) # {} /\ config' \in LeftBehind(c)
       /\ Goto(p, "window", [mem[p] EXCEPT !.todo = @ \ c, !.chunk = {},
                                           !.retried = FALSE])
  /\ saved' = NoPlan
  /\ UNCHANGED <<live, state, pinned, imports>> /\ Quiet

\* Mutant: a window that could not be planned is tried again.
WindowAgain(p) ==
  /\ pc[p] = "window" /\ mem[p].todo \cup mem[p].chunk # {}
  /\ \E c \in Chunks(p) :
       /\ Failing(c) # {} /\ config' \in LeftBehind(c)
       /\ Goto(p, "window", [mem[p] EXCEPT !.todo = @ \cup c, !.chunk = {},
                                           !.retried = FALSE])
  /\ saved' = NoPlan
  /\ UNCHANGED <<live, state, pinned, imports>> /\ Quiet

\* plan_targeted fails: whatever plan file there was is deleted.
WindowUnreadable(p) ==
  /\ pc[p] = "window" /\ mem[p].todo \cup mem[p].chunk # {}
  /\ \E c \in Chunks(p) :
       /\ Failing(c) # {} /\ config' \in LeftBehind(c)
       /\ Goto(p, "window", [mem[p] EXCEPT !.todo = @ \ c, !.chunk = {},
                                           !.retried = FALSE, !.owed = @ \cup c])
  /\ saved' = NoPlan
  /\ UNCHANGED <<live, state, pinned, imports>> /\ Quiet

PlanWindow(p) ==
  /\ pc[p] = "window"
  /\ \E c \in Chunks(p) \ {{}} :
       /\ Failing(c) = {}
       /\ SavePlan(c)
       /\ Goto(p, "act", [mem[p] EXCEPT !.chunk = c, !.todo = @ \ c])
  /\ UNCHANGED pinned /\ Quiet

ApplyWindow(p) ==
  /\ pc[p] = "act" /\ Mutations(saved) = {}
  /\ IF Imported(saved) = {} THEN Untouched ELSE ApplySaved
  /\ Close(p, {})
  /\ Quiet

\* One retry without the imports that were edited meanwhile.
DeferWindow(p) ==
  /\ pc[p] = "act" /\ ~mem[p].retried /\ Racy # {}
  /\ DropFromKit(Racy)
  /\ Goto(p, "window", [mem[p] EXCEPT !.deferred = @ \cup Racy, !.owed = @ \cup Racy,
                                      !.chunk = @ \ Racy,
                                      !.retried = mem[p].chunk \ Racy # {}])
  /\ UNCHANGED <<live, state, saved>> /\ Quiet

SkipWindow(p) ==
  /\ pc[p] = "act" /\ Mutations(saved) # {}
  /\ mem[p].retried \/ Racy = {}
  /\ Close(p, mem[p].chunk)
  /\ Untouched /\ Quiet

WindowsDone(p) ==
  /\ pc[p] = "window" /\ mem[p].todo \cup mem[p].chunk = {}
  /\ Goto(p, "manifest", [mem[p] EXCEPT !.pending = {Cardinality(mem[p].owed)}])
  /\ Untouched /\ Quiet

-----------------------------------------------------------------------------
(* The end of a run.                                                       *)

Leave(p) ==
  /\ pc' = [pc EXCEPT ![p] = "idle"]
  /\ mem' = [mem EXCEPT ![p] = Fresh]
  /\ holder' = Nobody

\* coverage.json with the fingerprint of imports.tf, the runbook, RUN_SUCCESS;
\* the saved plan is discarded on every way out.
Finish(p) ==
  /\ pc[p] = "manifest"
  /\ manifest' = [pending |-> Captured(p) \ state,
                  unsupported |-> mem[p].graph \cap mem[p].dropped,
                  deferred |-> mem[p].deferred, kit |-> imports, said |-> mem[p].pending]
  /\ saved' = NoPlan
  /\ Leave(p)
  /\ UNCHANGED <<live, state, config, pinned, imports, reviewed, history, bounds>>

\* The plan loop is out of attempts: a pipeline fault.
GiveUp(p) ==
  /\ pc[p] = "plan" /\ LastAttempt(p) /\ Failing(mem[p].over) # {}
  /\ config' \in LeftBehind(mem[p].over)
  /\ saved' = NoPlan
  /\ Leave(p)
  /\ UNCHANGED <<live, state, pinned, imports, files, history, bounds>>

\* A failure or a kill, with what terraform had done of the step by then.
BreakOff(p) ==
  /\ pc[p] # "idle" /\ faults < MaxFaults
  /\ faults' = faults + 1
  /\ state' \in CASE pc[p] = "rm" -> HalfRemoved(mem[p].doomed)
                   [] pc[p] = "apply" -> HalfApplied
                   [] pc[p] = "act" /\ GuardHolds -> HalfApplied
                   [] OTHER -> {state}
  /\ cut' = cut \cup (IF pc[p] = "rm" THEN mem[p].doomed \cap state' ELSE {})
  /\ Leave(p)
  /\ UNCHANGED <<live, config, pinned, imports, files, asked, edits, rejected>>

\* Any stage can fail: a terraform command, the disk, the network.
Fault(p) == BreakOff(p) /\ saved' = NoPlan

\* Killed: the kernel releases the lock, the plan file stays.
Kill(p) == BreakOff(p) /\ UNCHANGED saved

\* The stages that read the organization.
Reading == {"discover", "plan", "window"}

\* Somebody creates, edits or deletes an object in the dashboard.  No other
\* stage looks at it: an edit counts from the next reading stage on.
Edit(a) ==
  /\ \E p \in Runs : pc[p] \in Reading
  /\ edits < MaxEdits /\ edits' = edits + 1
  /\ \E v \in Edits[a] \ {live[a]} : live' = [live EXCEPT ![a] = v]
  /\ UNCHANGED <<state, kit, holder, pc, mem, files, history, rejected, faults>>

\* Between two runs somebody installs a newer provider, which refuses the
\* configuration of one more object.
Upgrade(a) ==
  /\ holder = Nobody /\ a \in MayBeRejected \ rejected
  /\ edits < MaxEdits /\ edits' = edits + 1
  /\ rejected' = rejected \cup {a}
  /\ UNCHANGED <<live, state, kit, holder, pc, mem, files, history, faults>>

-----------------------------------------------------------------------------
(* The specification.                                                      *)

Init ==
  /\ \E gone \in SUBSET MayBeOrphans :
       /\ live = [a \in Objs |-> IF a \in gone THEN 0 ELSE 1]
       /\ config = [a \in Objs |-> IF a \in gone THEN 1 ELSE 0]
  /\ rejected = Rejected /\ state = {} /\ pinned = {} /\ imports = {}
  /\ saved = NoPlan
  /\ holder = Nobody
  /\ pc = [p \in Runs |-> "idle"] /\ mem = [p \in Runs |-> Fresh]
  /\ reviewed = {} /\ manifest = NoPlan
  /\ asked = {} /\ cut = {}
  /\ edits = 0 /\ faults = 0

Review(p) ==
  \/ Discover(p) \/ Generate(p) \/ NothingDeleted(p) \/ ReviewDeletions(p)
  \/ ConfirmDeletions(p) \/ AlertDeletions(p) \/ PersistReview(p)
Compare(p) ==
  \/ Prune(p) \/ RemoveFromState(p)
  \/ PlanRejected(p) \/ Reconcile(p) \/ TakePlan(p) \/ GiveUp(p) \/ Judge(p)
  \/ HealAborts(p) \/ Heal(p) \/ HealSpent(p) \/ Regenerate(p)
  \/ DeferAborts(p) \/ Defer(p)
Materialize(p) ==
  \/ Apply(p) \/ WindowUnreadable(p) \/ PlanWindow(p) \/ ApplyWindow(p)
  \/ DeferWindow(p) \/ SkipWindow(p) \/ WindowsDone(p) \/ Finish(p)

Step(p) == Review(p) \/ Compare(p) \/ Materialize(p)
Next ==
  \/ \E p \in Runs : Start(p) \/ Step(p) \/ PlanThrottled(p) \/ Fault(p) \/ Kill(p)
  \/ \E a \in Objs : Edit(a) \/ Upgrade(a)

Spec == Init /\ [][Next]_vars

\* A process that runs goes on; the scheduler starts a sync run again and
\* again, whatever else is run in between.
Scheduled == \E p \in Runs : Start(p) /\ mem'[p].sync
FairSpec ==
  Spec /\ (\A p \in Runs : WF_vars(Step(p))) /\ SF_vars(Scheduled)

-----------------------------------------------------------------------------
(* Properties.                                                             *)

\* The lock of the work directory: a process runs if and only if it holds
\* the lock, so that no two run at a time.
Exclusive == \A p \in Runs : holder = p <=> pc[p] # "idle"

\* The kit has its types and the lock its holder, and the
\* bounds are kept.
TypeOK ==
  /\ KitType
  /\ pc \in [Runs -> Stages] /\ DOMAIN mem = Runs
  /\ holder \in Runs \cup {Nobody}
  /\ reviewed \subseteq Objs /\ asked \subseteq Objs /\ cut \subseteq Objs
  /\ edits \in 0 .. MaxEdits /\ faults \in 0 .. MaxFaults

\* "apply-safe DR kit" (_absorb_generated_config): whatever the state tracks
\* has a block in resources.tf, so that an apply never proposes to destroy
\* it.  Exempt are a removal between its two halves or interrupted there
\* (terraform_runner.py:1433), and what the provider has come to refuse,
\* whose block the plan loop drops (_drop_unexpressible).
ApplySafe ==
  \A a \in state :
    \/ config[a] # 0
    \/ a \in rejected
    \/ a \in cut
    \/ \E p \in Runs : pc[p] = "rm" /\ a \in mem[p].doomed

\* What the docstring of _absorb_generated_config says without exemption:
\* while nothing runs, the workspace is an apply-safe kit.
WorkspaceIsApplySafe == holder = Nobody => \A a \in state : config[a] # 0

\* _review_deletions: what leaves the state was either healed, because the
\* plan of this run read it as modified, or it is missing, a human passed
\* --confirm-deletions, and an earlier alert named it that no review has
\* seen back since.
RemovedWasReviewed ==
  [][\A a \in state \ state' :
       \E p \in Runs :
         /\ pc[p] = "rm" /\ a \in mem[p].doomed
         /\ \/ mem[p].then = "regenerate"
            \/ mem[p].confirm /\ a \in asked /\ a \notin mem[p].graph]_vars

\* The module comment of workdir_lock.py: while nothing runs, a manifest
\* whose fingerprint is that of imports.tf does not vouch for resources
\* absent from it.  Pending imports have their block unless they were
\* deferred, and nothing the provider refuses has one.
CoverageIsHonest ==
  (/\ holder = Nobody /\ manifest # NoPlan
   /\ manifest.kit = imports)
    => /\ manifest.pending \subseteq imports \cup manifest.deferred
       /\ manifest.unsupported \cap imports = {}

\* RUN_SUCCESS counts what is still to be imported: never fewer than the
\* manifest of the same run lists, the deferred ones apart.
PendingIsReported ==
  manifest # NoPlan =>
    \A n \in manifest.said :
      Cardinality(manifest.pending \ manifest.deferred) <= n

\* The heal, deferral, window and plan loops end: a run comes to its end.
RunEnds == holder # Nobody ~> holder = Nobody

\* "State growth is monotone": once people stop editing, the scheduled sync
\* runs bring every object that exists into the state, the refused ones
\* apart, whatever blocks the full apply.
EveryObjectIsBanked ==
  <>[](\A a \in Objs \ rejected : live[a] # 0 => a \in state)

\* The module comment of orchestrator.py on modified objects: "the HCL
\* baseline is regenerated to mirror current Meraki (local state surgery +
\* re-import - Meraki untouched)".  Whatever a run has pulled out of the
\* state to regenerate it is an import candidate again when the run ends, if
\* it is not in the state, deferred or reported as inexpressible.
HealReimports ==
  \A p \in Runs :
    pc[p] = "manifest" =>
      mem[p].regenerated \subseteq state \cup imports \cup mem[p].deferred \cup mem[p].dropped

=============================================================================

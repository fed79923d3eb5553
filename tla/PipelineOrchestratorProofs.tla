-------------------- MODULE PipelineOrchestratorProofs --------------------
(***************************************************************************)
(* What holds of the sync pipeline for every kit, every number of          *)
(* processes and every bound: only one run at a time, a kit whose apply    *)
(* destroys nothing, no removal that was not reviewed, a manifest that     *)
(* vouches for nothing absent, and a count of pending imports that is      *)
(* never too small.                                                        *)
(*                                                                         *)
(* ApplySafe is not inductive.  An apply adds to the state what the saved  *)
(* plan imports, so the plan must have put a block of each into            *)
(* resources.tf and nothing may have removed it since (SavedHasBlocks);    *)
(* a baseline reset must find the state as empty as the preflight did      *)
(* (EmptyWhenRebaselined).  Both rest on the lock: nobody else moves.      *)
(*                                                                         *)
(* What may leave the state was decided stages earlier, so the review is   *)
(* followed from the alert to the removal (ReviewInv); what the manifest   *)
(* says is true of the kit because every object captured is tracked or has *)
(* an import block at every stage after the generation (CoverageInv).      *)
(* The count of pending imports holds because what is left to import is    *)
(* among what a plan imports or the windows still owe (ReportInv).         *)
(* Types need the local variables that reach the kit (TypeInv).            *)
(***************************************************************************)
EXTENDS PipelineOrchestrator, FiniteSetTheorems, TLAPS

\* Where the processes are, and who holds the lock.
Control ==
  /\ pc \in [Runs -> Stages] /\ holder \in Runs \cup {Nobody}
  /\ Exclusive

\* The local variables that decide where a process goes next.
LocalsOK ==
  /\ DOMAIN mem = Runs
  /\ \A p \in Runs :
       /\ {"graph", "doomed", "then", "after", "rebaseline", "confirm", "missing",
             "dropped", "deferred"} \subseteq DOMAIN mem[p]
       /\ mem[p].graph \subseteq Objs
       /\ mem[p].then \in {"plan", "persist", "alert", "regenerate"}
       /\ mem[p].after \in {"judge", "healed", "deferred"}

\* The baseline is reset only over an empty state.
EmptyWhenRebaselined ==
  \A p \in Runs :
    pc[p] \in {"discover", "generate"} /\ mem[p].rebaseline => state = {}

\* The stages from a plan to its apply.
Saving == {"judge", "healed", "deferred", "apply", "act"}

\* There, whatever the saved plan imports has its block.
SavedHasBlocks ==
  (\E p \in Runs : pc[p] \in Saving)
    => \A a \in Imported(saved) : a \in Objs /\ config[a] # 0

KitInv ==
  /\ Control /\ LocalsOK
  /\ state \subseteq Objs /\ imports \subseteq Objs
  /\ EmptyWhenRebaselined /\ SavedHasBlocks /\ ApplySafe

-----------------------------------------------------------------------------
(* What a plan imports.                                                    *)

\* terraform plan generates a block of every import that has none.
LEMMA PlannedImports ==
  ASSUME NEW over, imports \subseteq Objs, NEW a \in Imported(PlanOf(over))
  PROVE  a \in Objs /\ Generated(over)[a] # 0
<1>1. a \in Planned(over) /\ ActionOn(a, over) \in Importing
  BY DEF Imported, PlanOf
<1>2. a \in Pending(over)
  <2>1. CASE a \in state
    BY <1>1, <2>1 DEF ActionOn, Importing
  <2>2. CASE a \notin state /\ a \notin Pending(over)
    BY <1>1, <2>2 DEF ActionOn, Importing
  <2> QED BY <2>1, <2>2
<1> QED BY <1>1, <1>2 DEF Planned, Pending

\* No plan file, no imports.
LEMMA NoPlanImports == Imported(NoPlan) = {}
BY DEF Imported, NoPlan

\* A plan that was taken is one whose imports have blocks.
LEMMA PlanSaved ==
  ASSUME NEW over, imports \subseteq Objs, config' = Generated(over),
         saved' \in {PlanOf(over), NoPlan}
  PROVE  SavedHasBlocks'
<1>1. \A a \in Imported(saved') : a \in Objs /\ Generated(over)[a] # 0
  BY PlannedImports, NoPlanImports
<1>2. Imported(saved)' = Imported(saved')
  BY DEF Imported
<1> QED BY <1>1, <1>2 DEF SavedHasBlocks

\* Outside those stages the saved plan does not matter: whoever moves is
\* alone.
LEMMA NothingSaved ==
  ASSUME NEW p \in Runs, Control, pc[p] # "idle", NEW s \in Stages \ Saving,
         pc' = [pc EXCEPT ![p] = s]
  PROVE  SavedHasBlocks'
<1>1. \A q \in Runs : pc'[q] \notin Saving
  BY DEF Control, Exclusive, Saving, Stages
<1> QED BY <1>1 DEF SavedHasBlocks

-----------------------------------------------------------------------------
(* The lock, discovery, the deletion review and removal.                   *)

\* The lock is taken.
LEMMA StartKeeps ==
  ASSUME NEW p \in Runs, KitInv, Start(p)
  PROVE  KitInv'
<1> USE RunAssumption DEF KitInv, Control, Goto, Exclusive, Stages, Quiet, Untouched, kit,
                          files, history, bounds
<1>1. Control'
  BY DEF Start, Given, LocalsOK
<1>2. LocalsOK'
  BY DEF Start, Given, LocalsOK
<1>3. state' \subseteq Objs /\ imports' \subseteq Objs
  BY DEF Start, Given, LocalsOK, SavedHasBlocks, Saving
<1>4. EmptyWhenRebaselined'
  BY DEF Start, Given, LocalsOK, EmptyWhenRebaselined
<1>5. SavedHasBlocks'
  BY DEF Start, Given, SavedHasBlocks, Saving
<1>6. ApplySafe'
  BY DEF Start, Given, LocalsOK, ApplySafe, SavedHasBlocks, Saving,
     EmptyWhenRebaselined
<1> QED BY <1>1, <1>2, <1>3, <1>4, <1>5, <1>6

\* Discovery.
LEMMA DiscoverKeeps ==
  ASSUME NEW p \in Runs, KitInv, Discover(p)
  PROVE  KitInv'
<1> USE RunAssumption DEF KitInv, Control, Goto, Exclusive, Stages, Quiet, Untouched, kit,
                          files, history, bounds
<1>1. Control'
  BY DEF Discover, LocalsOK
<1>2. LocalsOK'
  BY DEF Discover, LocalsOK
<1>3. state' \subseteq Objs /\ imports' \subseteq Objs
  BY DEF Discover, LocalsOK, SavedHasBlocks, Saving
<1>4. EmptyWhenRebaselined'
  BY DEF Discover, LocalsOK, EmptyWhenRebaselined
<1>5. SavedHasBlocks'
  BY NothingSaved DEF Discover, LocalsOK, Saving
<1>6. ApplySafe'
  BY DEF Discover, LocalsOK, ApplySafe, SavedHasBlocks, Saving,
     EmptyWhenRebaselined
<1> QED BY <1>1, <1>2, <1>3, <1>4, <1>5, <1>6

\* The baseline is reset over an empty state only.
LEMMA GenerateKeeps ==
  ASSUME NEW p \in Runs, KitInv, Generate(p)
  PROVE  KitInv'
<1> USE RunAssumption DEF KitInv, Control, Goto, Exclusive, Stages, Quiet, Untouched, kit,
                          files, history, bounds
<1>1. Control'
  BY DEF Generate, LocalsOK, Without
<1>2. LocalsOK'
  BY DEF Generate, LocalsOK, Without
<1>3. state' \subseteq Objs /\ imports' \subseteq Objs
  BY DEF Generate, LocalsOK, Without, SavedHasBlocks, Saving
<1>4. EmptyWhenRebaselined'
  BY DEF Generate, LocalsOK, EmptyWhenRebaselined, Without
<1>5. SavedHasBlocks'
  BY NothingSaved DEF Generate, LocalsOK, Saving
<1>6. ApplySafe'
  BY DEF Generate, LocalsOK, ApplySafe, SavedHasBlocks, Saving,
     EmptyWhenRebaselined, Without
<1> QED BY <1>1, <1>2, <1>3, <1>4, <1>5, <1>6

\* A review that finds nothing missing.
LEMMA NothingDeletedKeeps ==
  ASSUME NEW p \in Runs, KitInv, NothingDeleted(p)
  PROVE  KitInv'
BY RunAssumption DEF NothingDeleted, ToComparison, Whole, KitInv, Control,
   Goto, Exclusive, Stages, Quiet, Untouched, kit, files, history, bounds,
   LocalsOK, EmptyWhenRebaselined, SavedHasBlocks, Saving,
   ApplySafe, Imported, NoPlan

\* A review that finds something missing.
LEMMA ReviewDeletionsKeeps ==
  ASSUME NEW p \in Runs, KitInv, ReviewDeletions(p)
  PROVE  KitInv'
BY RunAssumption DEF ReviewDeletions, KitInv, Control, Goto, Exclusive,
   Stages, Quiet, Untouched, kit, files, history, bounds, LocalsOK,
   EmptyWhenRebaselined, SavedHasBlocks, Saving, ApplySafe, Imported, NoPlan

\* A confirmed removal begins.
LEMMA ConfirmDeletionsKeeps ==
  ASSUME NEW p \in Runs, KitInv, ConfirmDeletions(p)
  PROVE  KitInv'
BY RunAssumption DEF ConfirmDeletions, KitInv, Control, Goto, Exclusive,
   Stages, Quiet, Untouched, kit, files, history, bounds, LocalsOK,
   EmptyWhenRebaselined, SavedHasBlocks, Saving, ApplySafe, Imported, NoPlan

\* The alert.
LEMMA AlertDeletionsKeeps ==
  ASSUME NEW p \in Runs, KitInv, AlertDeletions(p)
  PROVE  KitInv'
<1> USE RunAssumption DEF KitInv, Control, Goto, Exclusive, Stages, Quiet, Untouched, kit,
                          files, history, bounds
<1>1. Control'
  BY DEF AlertDeletions, LocalsOK
<1>2. LocalsOK'
  BY DEF AlertDeletions, LocalsOK
<1>3. state' \subseteq Objs /\ imports' \subseteq Objs
  BY DEF AlertDeletions, LocalsOK, SavedHasBlocks, Saving
<1>4. EmptyWhenRebaselined'
  BY DEF AlertDeletions, LocalsOK, EmptyWhenRebaselined
<1>5. SavedHasBlocks'
  BY NothingSaved DEF AlertDeletions, LocalsOK, Saving
<1>6. ApplySafe'
  BY DEF AlertDeletions, LocalsOK, ApplySafe, SavedHasBlocks, Saving,
     EmptyWhenRebaselined
<1> QED BY <1>1, <1>2, <1>3, <1>4, <1>5, <1>6

\* The record of the review.
LEMMA PersistReviewKeeps ==
  ASSUME NEW p \in Runs, KitInv, PersistReview(p)
  PROVE  KitInv'
BY RunAssumption DEF PersistReview, ToComparison, Whole, KitInv, Control,
   Goto, Exclusive, Stages, Quiet, Untouched, kit, files, history, bounds,
   LocalsOK, EmptyWhenRebaselined, SavedHasBlocks, Saving,
   ApplySafe, Imported, NoPlan

\* The first half of a removal: the doomed are exempt until the second.
LEMMA PruneKeeps ==
  ASSUME NEW p \in Runs, KitInv, Prune(p)
  PROVE  KitInv'
<1> USE RunAssumption DEF KitInv, Control, Goto, Exclusive, Stages, Quiet, Untouched, kit,
                          files, history, bounds
<1>1. Control'
  BY DEF Prune, LocalsOK, PruneBaseline, Without
<1>2. LocalsOK'
  BY DEF Prune, LocalsOK, PruneBaseline, Without
<1>3. state' \subseteq Objs /\ imports' \subseteq Objs
  BY DEF Prune, LocalsOK, PruneBaseline, Without, SavedHasBlocks,
     Saving
<1>4. EmptyWhenRebaselined'
  BY DEF Prune, LocalsOK, EmptyWhenRebaselined, PruneBaseline,
     Without
<1>5. SavedHasBlocks'
  BY NothingSaved DEF Prune, LocalsOK, Saving
<1>6. ApplySafe'
  BY DEF Prune, LocalsOK, ApplySafe, SavedHasBlocks, Saving,
     EmptyWhenRebaselined, PruneBaseline, Without
<1> QED BY <1>1, <1>2, <1>3, <1>4, <1>5, <1>6

\* The second half.
LEMMA RemoveFromStateKeeps ==
  ASSUME NEW p \in Runs, KitInv, RemoveFromState(p)
  PROVE  KitInv'
BY RunAssumption DEF RemoveFromState, StateRm, KitInv, Control, Goto,
   Exclusive, Stages, Quiet, Untouched, kit, files, history, bounds,
   LocalsOK, EmptyWhenRebaselined, SavedHasBlocks, Saving,
   ApplySafe, Imported, NoPlan

-----------------------------------------------------------------------------
(* The plan loop.                                                          *)

\* What a failed plan drops was pending, so that the state does not track it,
\* or the provider refuses it.
LEMMA PlanRejectedKeeps ==
  ASSUME NEW p \in Runs, KitInv, PlanRejected(p)
  PROVE  KitInv'
<1> USE RunAssumption DEF KitInv, Control, Goto, Exclusive, Stages, Quiet, Untouched, kit,
                          files, history, bounds
<1>1. Control'
  BY DEF PlanRejected, LocalsOK, DropFrom, Without, LeftBehind, Failing,
     Pending, Generated
<1>2. LocalsOK'
  BY DEF PlanRejected, LocalsOK, DropFrom, Without, LeftBehind, Failing,
     Pending, Generated
<1>3. state' \subseteq Objs /\ imports' \subseteq Objs
  BY DEF PlanRejected, LocalsOK, DropFrom, Without, LeftBehind, Failing,
     Pending, Generated, SavedHasBlocks, Saving
<1>4. EmptyWhenRebaselined'
  BY DEF PlanRejected, LocalsOK, EmptyWhenRebaselined, DropFrom,
     Without, LeftBehind, Failing, Pending, Generated
<1>5. SavedHasBlocks'
  BY NothingSaved DEF PlanRejected, LocalsOK, Saving
<1>6. ApplySafe'
  <2>1. PICK named \in SUBSET Failing(mem[p].over), blocks \in LeftBehind(mem[p].over) :
          config' = Without(blocks, named)
    BY DEF PlanRejected, DropFrom
  <2>2. pc[p] = "plan" /\ pc' = [pc EXCEPT ![p] = "plan"] /\ UNCHANGED <<state, cut, rejected>>
    BY DEF PlanRejected
  <2>3. \A q \in Runs : pc[q] # "rm"
    BY <2>2
  <2>4. ASSUME NEW a \in state, a \notin rejected, a \notin cut
        PROVE  config'[a] # 0
    <3>1. a \in Objs /\ config[a] # 0
      BY <2>3, <2>4 DEF ApplySafe
    <3>2. a \notin named
      BY <2>1, <2>4 DEF Failing, Pending
    <3>3. blocks[a] = config[a]
      BY <2>1, <2>4, <3>1 DEF LeftBehind, Generated, Pending
    <3> QED BY <2>1, <3>1, <3>2, <3>3 DEF Without
  <2> QED BY <2>2, <2>4 DEF ApplySafe
<1> QED BY <1>1, <1>2, <1>3, <1>4, <1>5, <1>6

\* A throttled plan.
LEMMA PlanThrottledKeeps ==
  ASSUME NEW p \in Runs, KitInv, PlanThrottled(p)
  PROVE  KitInv'
BY RunAssumption DEF PlanThrottled, KitInv, Control, Goto, Exclusive,
   Stages, Quiet, Untouched, kit, files, history, bounds, LocalsOK,
   EmptyWhenRebaselined, SavedHasBlocks, Saving, ApplySafe, Imported, NoPlan

\* Pinned differences.
LEMMA ReconcileKeeps ==
  ASSUME NEW p \in Runs, KitInv, Reconcile(p)
  PROVE  KitInv'
<1> USE RunAssumption DEF KitInv, Control, Goto, Exclusive, Stages, Quiet, Untouched, kit,
                          files, history, bounds
<1>1. Control'
  BY DEF Reconcile, LocalsOK, SavePlan, Generated, LastAttempt
<1>2. LocalsOK'
  BY DEF Reconcile, LocalsOK, SavePlan, Generated, LastAttempt
<1>3. state' \subseteq Objs /\ imports' \subseteq Objs
  BY DEF Reconcile, LocalsOK, SavePlan, Generated, LastAttempt,
     SavedHasBlocks, Saving
<1>4. EmptyWhenRebaselined'
  BY DEF Reconcile, LocalsOK, EmptyWhenRebaselined, SavePlan,
     Generated, LastAttempt
<1>5. SavedHasBlocks'
  BY NothingSaved DEF Reconcile, LocalsOK, Saving
<1>6. ApplySafe'
  BY DEF Reconcile, LocalsOK, ApplySafe, SavedHasBlocks, Saving,
     EmptyWhenRebaselined, SavePlan, Generated, LastAttempt
<1> QED BY <1>1, <1>2, <1>3, <1>4, <1>5, <1>6

\* A plan is taken: its imports have blocks.
LEMMA TakePlanKeeps ==
  ASSUME NEW p \in Runs, KitInv, TakePlan(p)
  PROVE  KitInv'
<1> USE RunAssumption DEF KitInv, Control, Goto, Exclusive, Stages, Quiet, Untouched, kit,
                          files, history, bounds
<1>1. Control'
  BY DEF TakePlan, LocalsOK, Outlook, Generated
<1>2. LocalsOK'
  BY DEF TakePlan, LocalsOK, Outlook, Generated
<1>3. state' \subseteq Objs /\ imports' \subseteq Objs
  BY DEF TakePlan, LocalsOK, Outlook, Generated, SavedHasBlocks, Saving
<1>4. EmptyWhenRebaselined'
  BY DEF TakePlan, LocalsOK, EmptyWhenRebaselined, Outlook,
     Generated
<1>5. SavedHasBlocks'
  BY PlanSaved DEF TakePlan
<1>6. ApplySafe'
  BY DEF TakePlan, LocalsOK, ApplySafe, SavedHasBlocks, Saving,
     EmptyWhenRebaselined, Outlook, Generated
<1> QED BY <1>1, <1>2, <1>3, <1>4, <1>5, <1>6

\* Out of attempts.
LEMMA GiveUpKeeps ==
  ASSUME NEW p \in Runs, KitInv, GiveUp(p)
  PROVE  KitInv'
<1> USE RunAssumption DEF KitInv, Control, Goto, Exclusive, Stages, Quiet, Untouched, kit,
                          files, history, bounds
<1>1. Control'
  BY DEF GiveUp, LocalsOK, Leave, Fresh, LeftBehind, Generated
<1>2. LocalsOK'
  BY DEF GiveUp, LocalsOK, Leave, Fresh, LeftBehind, Generated
<1>3. state' \subseteq Objs /\ imports' \subseteq Objs
  BY DEF GiveUp, LocalsOK, Leave, Fresh, LeftBehind, Generated,
     SavedHasBlocks, Saving
<1>4. EmptyWhenRebaselined'
  BY DEF GiveUp, LocalsOK, EmptyWhenRebaselined, Leave, Fresh,
     LeftBehind, Generated
<1>5. SavedHasBlocks'
  BY NothingSaved DEF GiveUp, LocalsOK, Saving, Leave
<1>6. ApplySafe'
  BY DEF GiveUp, LocalsOK, ApplySafe, SavedHasBlocks, Saving,
     EmptyWhenRebaselined, Leave, Fresh, LeftBehind, Generated
<1> QED BY <1>1, <1>2, <1>3, <1>4, <1>5, <1>6

-----------------------------------------------------------------------------
(* Heal and deferral.                                                      *)

\* A judged plan is the saved one.
LEMMA JudgeKeeps ==
  ASSUME NEW p \in Runs, KitInv, Judge(p)
  PROVE  KitInv'
BY RunAssumption DEF Judge, KitInv, Control, Goto, Exclusive, Stages,
   Quiet, Untouched, kit, files, history, bounds, LocalsOK,
   EmptyWhenRebaselined, SavedHasBlocks, Saving, ApplySafe, Imported, NoPlan

\* A heal that is not possible.
LEMMA HealAbortsKeeps ==
  ASSUME NEW p \in Runs, KitInv, HealAborts(p)
  PROVE  KitInv'
BY RunAssumption DEF HealAborts, ToWindows, KitInv, Control, Goto,
   Exclusive, Stages, Quiet, Untouched, kit, files, history, bounds,
   LocalsOK, EmptyWhenRebaselined, SavedHasBlocks, Saving,
   ApplySafe, Imported, NoPlan

\* A heal begins like a removal.
LEMMA HealKeeps ==
  ASSUME NEW p \in Runs, KitInv, Heal(p)
  PROVE  KitInv'
BY RunAssumption DEF Heal, KitInv, Control, Goto, Exclusive, Stages, Quiet,
   Untouched, kit, files, history, bounds, LocalsOK,
   EmptyWhenRebaselined, SavedHasBlocks, Saving, ApplySafe, Imported, NoPlan

\* The heal budget is spent.
LEMMA HealSpentKeeps ==
  ASSUME NEW p \in Runs, KitInv, HealSpent(p)
  PROVE  KitInv'
BY RunAssumption DEF HealSpent, KitInv, Control, Goto, Exclusive,
   Stages, Quiet, Untouched, kit, files, history, bounds, LocalsOK,
   EmptyWhenRebaselined, SavedHasBlocks, Saving, ApplySafe, Imported, NoPlan

\* New import blocks.
LEMMA RegenerateKeeps ==
  ASSUME NEW p \in Runs, KitInv, Regenerate(p)
  PROVE  KitInv'
BY RunAssumption DEF Regenerate, Captured, KitInv, Control, Goto, Exclusive,
   Stages, Quiet, Untouched, kit, files, history, bounds, LocalsOK,
   EmptyWhenRebaselined, SavedHasBlocks, Saving, ApplySafe, Imported, NoPlan

\* A deferral that is not possible.
LEMMA DeferAbortsKeeps ==
  ASSUME NEW p \in Runs, KitInv, DeferAborts(p)
  PROVE  KitInv'
BY RunAssumption DEF DeferAborts, ToWindows, KitInv, Control, Goto,
   Exclusive, Stages, Quiet, Untouched, kit, files, history, bounds,
   LocalsOK, EmptyWhenRebaselined, SavedHasBlocks, Saving,
   ApplySafe, Imported, NoPlan

\* What is deferred is not tracked.
LEMMA DeferKeeps ==
  ASSUME NEW p \in Runs, KitInv, Defer(p)
  PROVE  KitInv'
<1> USE RunAssumption DEF KitInv, Control, Goto, Exclusive, Stages, Quiet, Untouched, kit,
                          files, history, bounds
<1>1. Control'
  BY DEF Defer, LocalsOK, DropFromKit, DropFrom, Without, Racy, Updates
<1>2. LocalsOK'
  BY DEF Defer, LocalsOK, DropFromKit, DropFrom, Without, Racy, Updates
<1>3. state' \subseteq Objs /\ imports' \subseteq Objs
  BY DEF Defer, LocalsOK, DropFromKit, DropFrom, Without, Racy, Updates,
     SavedHasBlocks, Saving
<1>4. EmptyWhenRebaselined'
  BY DEF Defer, LocalsOK, EmptyWhenRebaselined, DropFromKit,
     DropFrom, Without, Racy, Updates
<1>5. SavedHasBlocks'
  BY NothingSaved DEF Defer, LocalsOK, Saving
<1>6. ApplySafe'
  BY DEF Defer, LocalsOK, ApplySafe, SavedHasBlocks, Saving,
     EmptyWhenRebaselined, DropFromKit, DropFrom, Without, Racy,
     Updates
<1> QED BY <1>1, <1>2, <1>3, <1>4, <1>5, <1>6

-----------------------------------------------------------------------------
(* Materialization and the end of a run.                                   *)

\* The full apply.
LEMMA ApplyKeeps ==
  ASSUME NEW p \in Runs, KitInv, Apply(p)
  PROVE  KitInv'
<1> USE RunAssumption DEF KitInv, Control, Goto, Exclusive, Stages, Quiet, Untouched, kit,
                          files, history, bounds
<1>1. Control'
  BY DEF Apply, LocalsOK, ApplySaved
<1>2. LocalsOK'
  BY DEF Apply, LocalsOK, ApplySaved
<1>3. state' \subseteq Objs /\ imports' \subseteq Objs
  BY DEF Apply, LocalsOK, ApplySaved, SavedHasBlocks, Saving
<1>4. EmptyWhenRebaselined'
  BY DEF Apply, LocalsOK, EmptyWhenRebaselined, ApplySaved
<1>5. SavedHasBlocks'
  BY NothingSaved DEF Apply, LocalsOK, Saving
<1>6. ApplySafe'
  BY DEF Apply, LocalsOK, ApplySafe, SavedHasBlocks, Saving,
     EmptyWhenRebaselined, ApplySaved
<1> QED BY <1>1, <1>2, <1>3, <1>4, <1>5, <1>6

\* A window that cannot be planned.
LEMMA WindowUnreadableKeeps ==
  ASSUME NEW p \in Runs, KitInv, WindowUnreadable(p)
  PROVE  KitInv'
<1> USE RunAssumption DEF KitInv, Control, Goto, Exclusive, Stages, Quiet, Untouched, kit,
                          files, history, bounds
<1>1. Control'
  BY DEF WindowUnreadable, LocalsOK, LeftBehind, Generated
<1>2. LocalsOK'
  BY DEF WindowUnreadable, LocalsOK, LeftBehind, Generated
<1>3. state' \subseteq Objs /\ imports' \subseteq Objs
  BY DEF WindowUnreadable, LocalsOK, LeftBehind, Generated, SavedHasBlocks,
     Saving
<1>4. EmptyWhenRebaselined'
  BY DEF WindowUnreadable, LocalsOK, EmptyWhenRebaselined,
     LeftBehind, Generated
<1>5. SavedHasBlocks'
  BY NothingSaved DEF WindowUnreadable, LocalsOK, Saving
<1>6. ApplySafe'
  BY DEF WindowUnreadable, LocalsOK, ApplySafe, SavedHasBlocks, Saving,
     EmptyWhenRebaselined, LeftBehind, Generated
<1> QED BY <1>1, <1>2, <1>3, <1>4, <1>5, <1>6

\* The plan of a window.
LEMMA PlanWindowKeeps ==
  ASSUME NEW p \in Runs, KitInv, PlanWindow(p)
  PROVE  KitInv'
<1> USE RunAssumption DEF KitInv, Control, Goto, Exclusive, Stages, Quiet, Untouched, kit,
                          files, history, bounds
<1>1. Control'
  BY DEF PlanWindow, LocalsOK, SavePlan, Generated
<1>2. LocalsOK'
  BY DEF PlanWindow, LocalsOK, SavePlan, Generated
<1>3. state' \subseteq Objs /\ imports' \subseteq Objs
  BY DEF PlanWindow, LocalsOK, SavePlan, Generated, SavedHasBlocks, Saving
<1>4. EmptyWhenRebaselined'
  BY DEF PlanWindow, LocalsOK, EmptyWhenRebaselined, SavePlan,
     Generated
<1>5. SavedHasBlocks'
  BY PlanSaved DEF PlanWindow, SavePlan
<1>6. ApplySafe'
  BY DEF PlanWindow, LocalsOK, ApplySafe, SavedHasBlocks, Saving,
     EmptyWhenRebaselined, SavePlan, Generated
<1> QED BY <1>1, <1>2, <1>3, <1>4, <1>5, <1>6

\* The apply of a window.
LEMMA ApplyWindowKeeps ==
  ASSUME NEW p \in Runs, KitInv, ApplyWindow(p)
  PROVE  KitInv'
<1> USE RunAssumption DEF KitInv, Control, Goto, Exclusive, Stages, Quiet, Untouched, kit,
                          files, history, bounds
<1>1. Control'
  BY DEF ApplyWindow, LocalsOK, Close, ApplySaved
<1>2. LocalsOK'
  BY DEF ApplyWindow, LocalsOK, Close, ApplySaved
<1>3. state' \subseteq Objs /\ imports' \subseteq Objs
  BY DEF ApplyWindow, LocalsOK, Close, ApplySaved, SavedHasBlocks, Saving
<1>4. EmptyWhenRebaselined'
  BY DEF ApplyWindow, LocalsOK, EmptyWhenRebaselined, Close,
     ApplySaved
<1>5. SavedHasBlocks'
  BY NothingSaved DEF ApplyWindow, LocalsOK, Saving, Close
<1>6. ApplySafe'
  BY DEF ApplyWindow, LocalsOK, ApplySafe, SavedHasBlocks, Saving,
     EmptyWhenRebaselined, Close, ApplySaved
<1> QED BY <1>1, <1>2, <1>3, <1>4, <1>5, <1>6

\* A window defers what is not tracked.
LEMMA DeferWindowKeeps ==
  ASSUME NEW p \in Runs, KitInv, DeferWindow(p)
  PROVE  KitInv'
<1> USE RunAssumption DEF KitInv, Control, Goto, Exclusive, Stages, Quiet, Untouched, kit,
                          files, history, bounds
<1>1. Control'
  BY DEF DeferWindow, LocalsOK, DropFromKit, DropFrom, Without, Racy,
     Updates
<1>2. LocalsOK'
  BY DEF DeferWindow, LocalsOK, DropFromKit, DropFrom, Without, Racy,
     Updates
<1>3. state' \subseteq Objs /\ imports' \subseteq Objs
  BY DEF DeferWindow, LocalsOK, DropFromKit, DropFrom, Without, Racy,
     Updates, SavedHasBlocks, Saving
<1>4. EmptyWhenRebaselined'
  BY DEF DeferWindow, LocalsOK, EmptyWhenRebaselined, DropFromKit,
     DropFrom, Without, Racy, Updates
<1>5. SavedHasBlocks'
  BY NothingSaved DEF DeferWindow, LocalsOK, Saving
<1>6. ApplySafe'
  BY DEF DeferWindow, LocalsOK, ApplySafe, SavedHasBlocks, Saving,
     EmptyWhenRebaselined, DropFromKit, DropFrom, Without, Racy,
     Updates
<1> QED BY <1>1, <1>2, <1>3, <1>4, <1>5, <1>6

\* A window is given up.
LEMMA SkipWindowKeeps ==
  ASSUME NEW p \in Runs, KitInv, SkipWindow(p)
  PROVE  KitInv'
BY RunAssumption DEF SkipWindow, Close, KitInv, Control, Goto, Exclusive,
   Stages, Quiet, Untouched, kit, files, history, bounds, LocalsOK,
   EmptyWhenRebaselined, SavedHasBlocks, Saving, ApplySafe, Imported, NoPlan

\* The last window.
LEMMA WindowsDoneKeeps ==
  ASSUME NEW p \in Runs, KitInv, WindowsDone(p)
  PROVE  KitInv'
BY RunAssumption DEF WindowsDone, KitInv, Control, Goto, Exclusive, Stages,
   Quiet, Untouched, kit, files, history, bounds, LocalsOK,
   EmptyWhenRebaselined, SavedHasBlocks, Saving, ApplySafe, Imported, NoPlan

\* The end of a run.
LEMMA FinishKeeps ==
  ASSUME NEW p \in Runs, KitInv, Finish(p)
  PROVE  KitInv'
<1> USE RunAssumption DEF KitInv, Control, Goto, Exclusive, Stages, Quiet, Untouched, kit,
                          files, history, bounds
<1>1. Control'
  BY DEF Finish, LocalsOK, Leave, Fresh, Unknown
<1>2. LocalsOK'
  BY DEF Finish, LocalsOK, Leave, Fresh, Unknown
<1>3. state' \subseteq Objs /\ imports' \subseteq Objs
  BY DEF Finish, LocalsOK, Leave, Fresh, Unknown, SavedHasBlocks, Saving
<1>4. EmptyWhenRebaselined'
  BY DEF Finish, LocalsOK, EmptyWhenRebaselined, Leave, Fresh,
     Unknown
<1>5. SavedHasBlocks'
  BY NothingSaved DEF Finish, LocalsOK, Saving, Leave
<1>6. ApplySafe'
  BY DEF Finish, LocalsOK, ApplySafe, SavedHasBlocks, Saving,
     EmptyWhenRebaselined, Leave, Fresh, Unknown
<1> QED BY <1>1, <1>2, <1>3, <1>4, <1>5, <1>6

\* A failure or a kill, at any step.
LEMMA BreakOffKeeps ==
  ASSUME NEW p \in Runs, KitInv, BreakOff(p)
  PROVE  KitInv'
<1> USE RunAssumption DEF KitInv, Control, Goto, Exclusive, Stages, Quiet, Untouched, kit,
                          files, history, bounds
<1>1. Control'
  BY DEF BreakOff, LocalsOK, Leave, Fresh, HalfApplied, HalfRemoved
<1>2. LocalsOK'
  BY DEF BreakOff, LocalsOK, Leave, Fresh, HalfApplied, HalfRemoved
<1>3. state' \subseteq Objs /\ imports' \subseteq Objs
  BY DEF BreakOff, LocalsOK, Leave, Fresh, HalfApplied, HalfRemoved,
     SavedHasBlocks, Saving
<1>4. EmptyWhenRebaselined'
  BY DEF BreakOff, LocalsOK, EmptyWhenRebaselined, Leave, Fresh,
     HalfApplied, HalfRemoved
<1>5. SavedHasBlocks'
  BY NothingSaved DEF BreakOff, LocalsOK, Saving, Leave
<1>6. ApplySafe'
  BY DEF BreakOff, LocalsOK, ApplySafe, SavedHasBlocks, Saving,
     EmptyWhenRebaselined, Leave, Fresh, HalfApplied, HalfRemoved
<1> QED BY <1>1, <1>2, <1>3, <1>4, <1>5, <1>6

-----------------------------------------------------------------------------
(* The theorems.                                                           *)

\* An empty state and no plan: it holds initially.
LEMMA InitKeeps == Init => KitInv
BY RunAssumption
   DEF Init, KitInv, Control, LocalsOK, Exclusive, EmptyWhenRebaselined, SavedHasBlocks,
       Saving, ApplySafe, Fresh, Stages

\* Every step of every process, and every edit, keeps the invariant.
LEMMA NextKeeps == KitInv /\ [Next]_vars => KitInv'
<1> SUFFICES ASSUME KitInv, [Next]_vars
             PROVE  KitInv'
  OBVIOUS
<1>1. ASSUME NEW p \in Runs, Review(p)
      PROVE  KitInv'
  BY <1>1, DiscoverKeeps, GenerateKeeps, NothingDeletedKeeps, ReviewDeletionsKeeps,
     ConfirmDeletionsKeeps, AlertDeletionsKeeps, PersistReviewKeeps DEF Review
<1>2. ASSUME NEW p \in Runs, Compare(p)
      PROVE  KitInv'
  BY <1>2, PruneKeeps, RemoveFromStateKeeps, PlanRejectedKeeps, ReconcileKeeps, TakePlanKeeps,
     GiveUpKeeps, JudgeKeeps, HealAbortsKeeps, HealKeeps, HealSpentKeeps, RegenerateKeeps,
     DeferAbortsKeeps, DeferKeeps DEF Compare
<1>3. ASSUME NEW p \in Runs, Materialize(p)
      PROVE  KitInv'
  BY <1>3, ApplyKeeps, WindowUnreadableKeeps, PlanWindowKeeps, ApplyWindowKeeps,
     DeferWindowKeeps, SkipWindowKeeps, WindowsDoneKeeps, FinishKeeps DEF Materialize
<1>4. ASSUME NEW p \in Runs, Start(p) \/ PlanThrottled(p) \/ Fault(p) \/ Kill(p)
      PROVE  KitInv'
  BY <1>4, StartKeeps, PlanThrottledKeeps, BreakOffKeeps DEF Fault, Kill
<1>5. ASSUME NEW a \in Objs, Edit(a) \/ Upgrade(a)
      PROVE  KitInv'
  BY <1>5 DEF Edit, Upgrade, KitInv, Control, LocalsOK, Exclusive, EmptyWhenRebaselined,
     SavedHasBlocks, ApplySafe, Imported, kit, files, history
<1>6. CASE UNCHANGED vars
  BY <1>6 DEF vars, KitInv, Control, LocalsOK, Exclusive, EmptyWhenRebaselined,
     SavedHasBlocks, ApplySafe, Imported, kit, files, history, bounds
<1> QED BY <1>1, <1>2, <1>3, <1>4, <1>5, <1>6 DEF Next, Step

\* The pipeline's inductive invariant.
THEOREM KitInvHolds == Spec => []KitInv
<1> QED BY InitKeeps, NextKeeps, PTL DEF Spec

\* WorkdirLock: no two runs work on the directory at a time, whatever fails
\* or is killed.
THEOREM LockIsExclusive == Spec => []Exclusive
<1>1. KitInv => Exclusive
  BY DEF KitInv, Control
<1> QED BY <1>1, KitInvHolds, PTL

\* The kit is apply-safe: what the state tracks has a block, unless the
\* provider refuses it or its removal is under way or was interrupted
\* half-way.
THEOREM KitIsApplySafe == Spec => []ApplySafe
<1>1. KitInv => ApplySafe
  BY DEF KitInv
<1> QED BY <1>1, KitInvHolds, PTL

-----------------------------------------------------------------------------
(* The deletion review.  What a review alerted is asked (AlertedFirst),    *)
(* what a removal is about to take was confirmed and asked (Confirmed),    *)
(* and what the review still has to record is missing and asked (Noted).   *)

AlertedFirst == reviewed \subseteq asked

Removing == {"prune", "rm"}
Reviewing == Removing \cup {"alert", "persist"}

Confirmed(p) ==
  pc[p] \in Removing =>
    /\ mem[p].then \in {"persist", "alert", "regenerate"}
    /\ mem[p].then # "regenerate" =>
         mem[p].confirm /\ mem[p].doomed \subseteq asked \ mem[p].graph

Noted(p) ==
  /\ pc[p] = "alert" \/ (pc[p] \in Removing /\ mem[p].then = "alert") =>
       mem[p].missing \cap mem[p].graph = {}
  /\ pc[p] = "persist" => mem[p].missing \subseteq asked \ mem[p].graph
  /\ pc[p] \in Removing /\ mem[p].then = "persist" => mem[p].missing = {}

ReviewInv ==
  KitInv /\ AlertedFirst /\ \A p \in Runs : Confirmed(p) /\ Noted(p)

\* Whoever moves is alone: only its own part can change.
LEMMA MoverIsAlone ==
  ASSUME NEW p \in Runs, KitInv, pc[p] # "idle" \/ holder = Nobody,
         NEW s, pc' = [pc EXCEPT ![p] = s]
  PROVE  pc'[p] = s /\ \A q \in Runs \ {p} : Confirmed(q)' /\ Noted(q)'
<1>1. pc'[p] = s
  BY DEF KitInv, Control
<1>2. ASSUME NEW q \in Runs \ {p}
      PROVE  pc'[q] = "idle"
  BY <1>2, RunAssumption DEF KitInv, Control, Exclusive
<1> QED BY <1>1, <1>2 DEF Confirmed, Noted, Removing

\* Most steps have nothing to do with the review.
LEMMA ReviewOver ==
  ASSUME NEW p \in Runs, KitInv, pc[p] # "idle" \/ holder = Nobody,
         NEW s, pc' = [pc EXCEPT ![p] = s], s \notin Reviewing
  PROVE  \A q \in Runs : Confirmed(q)' /\ Noted(q)'
BY MoverIsAlone DEF Confirmed, Noted, Reviewing, Removing

\* Every step keeps it; those of the review and of a removal one by one.
LEMMA ReviewStep ==
  ASSUME ReviewInv, [Next]_vars
  PROVE  ReviewInv'
<1>0. KitInv /\ KitInv' /\ AlertedFirst
  BY NextKeeps DEF ReviewInv
<1>a. \A p \in Runs :
        /\ {"confirm", "missing", "graph", "doomed", "then"} \subseteq DOMAIN mem[p]
        /\ Confirmed(p) /\ Noted(p)
  BY DEF ReviewInv, KitInv, LocalsOK
<1>b. ASSUME NEW p \in Runs, NEW s, NEW l, Goto(p, s, l)
      PROVE  pc' = [pc EXCEPT ![p] = s] /\ mem'[p] = l
  BY <1>0, <1>b DEF Goto, KitInv, LocalsOK
<1>1. ASSUME NEW p \in Runs,
             \/ Start(p) \/ Discover(p) \/ Generate(p)
             \/ PlanRejected(p) \/ PlanThrottled(p) \/ Reconcile(p) \/ TakePlan(p) \/ Judge(p)
             \/ HealAborts(p) \/ HealSpent(p) \/ Regenerate(p) \/ DeferAborts(p) \/ Defer(p)
             \/ Apply(p) \/ WindowUnreadable(p) \/ PlanWindow(p) \/ ApplyWindow(p)
             \/ DeferWindow(p) \/ SkipWindow(p) \/ WindowsDone(p)
             \/ Finish(p) \/ GiveUp(p) \/ BreakOff(p)
      PROVE  ReviewInv'
  <2>1. UNCHANGED <<reviewed, asked>> /\ (pc[p] # "idle" \/ holder = Nobody)
    BY <1>1 DEF Start, Discover, Generate, PlanRejected, PlanThrottled, Reconcile, TakePlan,
       Judge, HealAborts, HealSpent, Regenerate, DeferAborts, Defer, Apply,
       WindowUnreadable, PlanWindow, ApplyWindow, DeferWindow, SkipWindow, WindowsDone,
       Finish, GiveUp, BreakOff, Quiet, files, history
  <2>2. \E s \in Stages \ Reviewing : pc' = [pc EXCEPT ![p] = s]
    BY <1>0, <1>1 DEF Start, Discover, Generate, PlanRejected, PlanThrottled, Reconcile,
       TakePlan, Judge, HealAborts, HealSpent, Regenerate, DeferAborts, Defer, Apply,
       WindowUnreadable, PlanWindow, ApplyWindow, DeferWindow, SkipWindow, WindowsDone,
       Finish, GiveUp, BreakOff, Goto, Leave, ToWindows, Close, Stages, Reviewing, Removing,
       KitInv, LocalsOK
  <2> QED BY <1>0, <2>1, <2>2, ReviewOver DEF ReviewInv, AlertedFirst
<1>2. ASSUME NEW p \in Runs, NothingDeleted(p) \/ PersistReview(p)
      PROVE  ReviewInv'
  <2>1. pc[p] # "idle" /\ Goto(p, ToComparison(p), Whole(p))
    BY <1>2 DEF NothingDeleted, PersistReview
  <2>2. ToComparison(p) \notin Reviewing
    BY DEF ToComparison, Reviewing, Removing
  <2>3. \A q \in Runs : Confirmed(q)' /\ Noted(q)'
    BY <1>0, <1>b, <2>1, <2>2, ReviewOver
  <2>4. AlertedFirst'
    BY <1>a, <1>2 DEF NothingDeleted, PersistReview, AlertedFirst, Noted
  <2> QED BY <1>0, <2>3, <2>4 DEF ReviewInv
<1>3. ASSUME NEW p \in Runs, NEW s, NEW l, Goto(p, s, l), pc[p] # "idle", AlertedFirst',
             Confirmed(p)' /\ Noted(p)'
      PROVE  ReviewInv'
  BY <1>0, <1>b, <1>3, MoverIsAlone DEF ReviewInv
<1>4. ASSUME NEW p \in Runs, ReviewDeletions(p)
      PROVE  ReviewInv'
  <2> DEFINE l == [mem[p] EXCEPT !.missing = Deleted(p)]
  <2>1. pc[p] # "idle" /\ Goto(p, "alert", l) /\ UNCHANGED <<reviewed, asked>>
    BY <1>4 DEF ReviewDeletions, Quiet, files, history
  <2>2. l.missing \cap l.graph = {}
    BY <1>a DEF Deleted
  <2> HIDE DEF l
  <2>3. pc'[p] = "alert" /\ mem'[p] = l
    BY <1>0, <1>b, <2>1, MoverIsAlone
  <2>4. AlertedFirst' /\ Confirmed(p)' /\ Noted(p)'
    BY <1>0, <2>1, <2>2, <2>3 DEF AlertedFirst, Confirmed, Noted, Removing
  <2> QED BY <1>3, <2>1, <2>4
<1>5. ASSUME NEW p \in Runs, ConfirmDeletions(p)
      PROVE  ReviewInv'
  <2> DEFINE unalerted == Deleted(p) \ reviewed
             confirmed == Deleted(p) \cap reviewed
             next == IF unalerted = {} THEN "persist" ELSE "alert"
             s == IF confirmed = {} THEN next ELSE "prune"
             l == [mem[p] EXCEPT !.missing = unalerted, !.doomed = confirmed, !.then = next]
  <2>1. /\ pc[p] # "idle" /\ mem[p].confirm /\ Goto(p, s, l)
        /\ UNCHANGED <<reviewed, asked>>
    BY <1>5 DEF ConfirmDeletions, Quiet, files, history
  <2>2. /\ l.missing = unalerted /\ l.doomed = confirmed /\ l.then = next
        /\ l.graph = mem[p].graph /\ l.confirm = mem[p].confirm
    BY <1>a
  <2>3. unalerted \cap mem[p].graph = {} /\ confirmed \subseteq asked \ mem[p].graph
    BY <1>0 DEF Deleted, AlertedFirst
  <2>4. /\ next = "persist" => unalerted = {}
        /\ next \in {"persist", "alert"} /\ s \in {"prune", next}
    OBVIOUS
  <2> HIDE DEF l, s, next, unalerted, confirmed
  <2>5. pc'[p] = s /\ mem'[p] = l
    BY <1>0, <1>b, <2>1, MoverIsAlone
  <2>6. AlertedFirst' /\ Confirmed(p)' /\ Noted(p)'
    BY <1>0, <2>1, <2>2, <2>3, <2>4, <2>5 DEF AlertedFirst, Confirmed, Noted, Removing
  <2> QED BY <1>3, <2>1, <2>6
<1>6. ASSUME NEW p \in Runs, AlertDeletions(p)
      PROVE  ReviewInv'
  <2>1. /\ pc[p] = "alert" /\ Goto(p, "persist", mem[p])
        /\ reviewed' = reviewed /\ asked' = asked \cup mem[p].missing
    BY <1>6 DEF AlertDeletions, files
  <2>2. pc'[p] = "persist" /\ mem'[p] = mem[p]
    BY <1>0, <1>b, <2>1, MoverIsAlone
  <2>3. AlertedFirst' /\ Confirmed(p)' /\ Noted(p)'
    BY <1>0, <1>a, <2>1, <2>2 DEF AlertedFirst, Confirmed, Noted, Removing
  <2> QED BY <1>3, <2>1, <2>3
<1>7. ASSUME NEW p \in Runs, Prune(p)
      PROVE  ReviewInv'
  <2>1. pc[p] = "prune" /\ Goto(p, "rm", mem[p]) /\ UNCHANGED <<reviewed, asked>>
    BY <1>7 DEF Prune, Quiet, files, history
  <2>2. pc'[p] = "rm" /\ mem'[p] = mem[p]
    BY <1>0, <1>b, <2>1, MoverIsAlone
  <2>3. AlertedFirst' /\ Confirmed(p)' /\ Noted(p)'
    BY <1>0, <1>a, <2>1, <2>2 DEF AlertedFirst, Confirmed, Noted, Removing
  <2> QED BY <1>3, <2>1, <2>3
<1>8. ASSUME NEW p \in Runs, RemoveFromState(p)
      PROVE  ReviewInv'
  <2> DEFINE l == [mem[p] EXCEPT !.doomed = {}]
  <2>1. pc[p] = "rm" /\ Goto(p, mem[p].then, l) /\ UNCHANGED <<reviewed, asked>>
    BY <1>8 DEF RemoveFromState, files
  <2>2. l.missing = mem[p].missing /\ l.graph = mem[p].graph
    BY <1>a
  <2> HIDE DEF l
  <2>3. pc'[p] = mem[p].then /\ mem'[p] = l
    BY <1>0, <1>b, <2>1, MoverIsAlone
  <2>4. mem[p].then \in {"persist", "alert", "regenerate"}
    BY <1>a, <2>1 DEF Confirmed, Removing
  <2>5. AlertedFirst' /\ Confirmed(p)' /\ Noted(p)'
    BY <1>0, <1>a, <2>1, <2>2, <2>3, <2>4 DEF AlertedFirst, Confirmed, Noted, Removing
  <2> QED BY <1>3, <2>1, <2>5
<1>9. ASSUME NEW p \in Runs, Heal(p)
      PROVE  ReviewInv'
  <2>1. PICK l : /\ l = [mem[p] EXCEPT !.doomed = Updates(saved), !.then = "regenerate",
                           !.regenerated = @ \cup Updates(saved), !.heals = @ + 1]
                 /\ pc[p] # "idle" /\ Goto(p, "prune", l) /\ UNCHANGED <<reviewed, asked>>
    BY <1>9 DEF Heal, Quiet, files, history
  <2>2. l.then = "regenerate"
    BY <1>a, <2>1
  <2>3. pc'[p] = "prune" /\ mem'[p] = l
    BY <1>0, <1>b, <2>1, MoverIsAlone
  <2>4. AlertedFirst' /\ Confirmed(p)' /\ Noted(p)'
    BY <1>0, <2>1, <2>2, <2>3 DEF AlertedFirst, Confirmed, Noted, Removing
  <2> QED BY <1>3, <2>1, <2>4
<1>10. CASE UNCHANGED <<pc, mem, reviewed, asked>>
  BY <1>0, <1>a, <1>10 DEF ReviewInv, AlertedFirst, Confirmed, Noted
<1>11. ASSUME NEW p \in Runs, Step(p) \/ Start(p) \/ PlanThrottled(p) \/ Fault(p) \/ Kill(p)
       PROVE  ReviewInv'
  BY <1>1, <1>2, <1>4, <1>5, <1>6, <1>7, <1>8, <1>9, <1>11
     DEF Step, Review, Compare, Materialize, Fault, Kill
<1> QED BY <1>10, <1>11 DEF Next, Edit, Upgrade, vars, files, history

\* The state shrinks only where a removal takes something out of it.
LEMMA StateShrinks ==
  ASSUME KitInv, [Next]_vars, NEW a \in state \ state'
  PROVE  \E p \in Runs : pc[p] = "rm" /\ a \in mem[p].doomed
<1>1. ASSUME NEW p \in Runs, RemoveFromState(p)
      PROVE  pc[p] = "rm" /\ a \in mem[p].doomed
  BY <1>1 DEF RemoveFromState, StateRm
<1>2. ASSUME NEW p \in Runs, BreakOff(p)
      PROVE  pc[p] = "rm" /\ a \in mem[p].doomed
  BY <1>2 DEF BreakOff, HalfRemoved, HalfApplied
<1>3. ASSUME NEW p \in Runs, Review(p) \/ Start(p) \/ PlanThrottled(p)
      PROVE  state \subseteq state'
  BY <1>3 DEF Review, Discover, Generate, NothingDeleted, ReviewDeletions, ConfirmDeletions,
     AlertDeletions, PersistReview, Start, PlanThrottled, Untouched
<1>4. ASSUME NEW p \in Runs, Compare(p), ~RemoveFromState(p)
      PROVE  state \subseteq state'
  BY <1>4 DEF Compare, Prune, PruneBaseline, PlanRejected, Reconcile, SavePlan, TakePlan,
     GiveUp, Judge, HealAborts, Heal, HealSpent, Regenerate, DeferAborts, Defer, Untouched
<1>5. ASSUME NEW p \in Runs, Materialize(p)
      PROVE  state \subseteq state'
  BY <1>5 DEF Materialize, Apply, ApplySaved, WindowUnreadable, PlanWindow, SavePlan,
     ApplyWindow, DeferWindow, SkipWindow, WindowsDone, Finish, Untouched
<1>6. CASE UNCHANGED vars \/ \E b \in Objs : Edit(b) \/ Upgrade(b)
  BY <1>6 DEF vars, Edit, Upgrade
<1> QED BY <1>1, <1>2, <1>3, <1>4, <1>5, <1>6 DEF Next, Step, Fault, Kill

LEMMA ReviewStarts == Init => ReviewInv
<1> SUFFICES ASSUME Init PROVE ReviewInv
  OBVIOUS
<1>1. \A p \in Runs : pc[p] = "idle" /\ mem[p] = Fresh
  BY DEF Init
<1> QED BY <1>1, InitKeeps DEF Init, ReviewInv, AlertedFirst, Confirmed, Noted, Removing,
           Fresh

\* What leaves the state was healed, because this run's plan read it as
\* modified, or it is missing, a human confirmed the deletions, and an
\* earlier alert named it (_review_deletions, remove_resources).
THEOREM DeletionsAreReviewed == Spec => RemovedWasReviewed
<1>1. Init => ReviewInv
  BY ReviewStarts
<1>2. ReviewInv /\ [Next]_vars => ReviewInv'
  BY ReviewStep
<1>3. ASSUME ReviewInv, [Next]_vars, NEW a \in state \ state'
      PROVE  \E p \in Runs :
               /\ pc[p] = "rm" /\ a \in mem[p].doomed
               /\ \/ mem[p].then = "regenerate"
                  \/ mem[p].confirm /\ a \in asked /\ a \notin mem[p].graph
  <2>1. PICK p \in Runs : pc[p] = "rm" /\ a \in mem[p].doomed
    BY <1>3, StateShrinks DEF ReviewInv
  <2>2. Confirmed(p)
    BY <1>3 DEF ReviewInv
  <2> QED BY <2>1, <2>2 DEF Confirmed, Removing
<1>4. ReviewInv /\ [Next]_vars =>
        [\A a \in state \ state' :
           \E p \in Runs :
             /\ pc[p] = "rm" /\ a \in mem[p].doomed
             /\ \/ mem[p].then = "regenerate"
                \/ mem[p].confirm /\ a \in asked /\ a \notin mem[p].graph]_vars
  BY <1>3
<1> QED BY <1>1, <1>2, <1>4, PTL DEF Spec, RemovedWasReviewed

-----------------------------------------------------------------------------
(* The coverage manifest.  While a run is past its first generation, what  *)
(* it captured and the state does not track has an import block or was     *)
(* deferred, and nothing it dropped has one (Covers).  A removal breaks it *)
(* only for what a heal regenerates next.                                  *)

Early == {"idle", "discover", "generate"}

Covers(p) ==
  /\ pc[p] \in Early => mem[p].dropped = {}
  /\ pc[p] \notin Early \cup {"regenerate"} =>
       /\ Captured(p) \ state \subseteq imports \cup mem[p].deferred
       /\ mem[p].dropped \cap imports = {}

Honest ==
  manifest # NoPlan =>
    /\ manifest.pending \subseteq manifest.kit \cup manifest.deferred
    /\ manifest.unsupported \cap manifest.kit = {}

CoverageInv == ReviewInv /\ Honest /\ \A p \in Runs : Covers(p)

\* Nobody but p moves.
OnlyMoves(p) == \A q \in Runs \ {p} : pc'[q] = pc[q] /\ mem'[q] = mem[q]

\* What p captured, dropped and deferred stays.
SameReport(p) ==
  /\ mem'[p].graph = mem[p].graph
  /\ mem'[p].dropped = mem[p].dropped /\ mem'[p].deferred = mem[p].deferred

\* The other processes are idle and stay so.
LEMMA OthersCover ==
  ASSUME NEW p \in Runs, KitInv, \A q \in Runs : Covers(q),
         pc[p] # "idle" \/ holder = Nobody, OnlyMoves(p)
  PROVE  \A q \in Runs \ {p} : Covers(q)'
<1>1. ASSUME NEW q \in Runs \ {p}
      PROVE  pc[q] = "idle" /\ pc'[q] = "idle" /\ mem'[q] = mem[q]
  BY <1>1, RunAssumption DEF KitInv, Control, Exclusive, OnlyMoves
<1> QED BY <1>1 DEF Covers, Early

\* Most steps capture, drop and defer nothing.
LEMMA CoverKept ==
  ASSUME NEW p \in Runs, KitInv, \A q \in Runs : Covers(q), OnlyMoves(p), SameReport(p),
         pc[p] \notin Early \cup {"regenerate"}, pc'[p] \notin Early,
         imports' = imports, state \subseteq state'
  PROVE  \A q \in Runs : Covers(q)'
<1>1. \A q \in Runs \ {p} : Covers(q)'
  BY OthersCover DEF Early
<1>2. Covers(p)'
  BY DEF Covers, Early, Captured, SameReport
<1> QED BY <1>1, <1>2

LEMMA CoverageStep ==
  ASSUME CoverageInv, [Next]_vars
  PROVE  CoverageInv'
<1>0. /\ KitInv /\ ReviewInv /\ ReviewInv' /\ Honest
      /\ \A p \in Runs : Covers(p)
  BY ReviewStep DEF CoverageInv, ReviewInv
<1>a. /\ DOMAIN mem = Runs /\ DOMAIN pc = Runs
      /\ \A p \in Runs : {"graph", "doomed", "then", "dropped", "deferred"}
                          \subseteq DOMAIN mem[p]
  BY <1>0 DEF KitInv, LocalsOK, Control
<1>b. UNCHANGED manifest => Honest'
  BY <1>0 DEF Honest
<1>c. ASSUME NEW p \in Runs, OnlyMoves(p), pc[p] # "idle" \/ holder = Nobody,
             UNCHANGED manifest, Covers(p)'
      PROVE  CoverageInv'
  BY <1>0, <1>b, <1>c, OthersCover DEF CoverageInv
<1>d. ASSUME NEW p \in Runs, OnlyMoves(p), SameReport(p), UNCHANGED <<imports, manifest>>,
             state \subseteq state', pc[p] \notin Early \cup {"regenerate"}, pc'[p] \notin Early
      PROVE  CoverageInv'
  BY <1>0, <1>b, <1>d, CoverKept DEF CoverageInv
<1>1. ASSUME NEW p \in Runs,
             \/ NothingDeleted(p) \/ ReviewDeletions(p) \/ ConfirmDeletions(p)
             \/ AlertDeletions(p) \/ PersistReview(p) \/ Prune(p)
      PROVE  CoverageInv'
  <2>1. /\ UNCHANGED <<state, imports, manifest>>
        /\ pc[p] \in {"review", "alert", "persist", "prune"}
    BY <1>1 DEF NothingDeleted, ReviewDeletions, ConfirmDeletions, AlertDeletions,
       PersistReview, Prune, PruneBaseline, Untouched, Quiet, kit, files
  <2>2. OnlyMoves(p) /\ SameReport(p)
    BY <1>a, <1>1, ZenonT(40) DEF NothingDeleted, ReviewDeletions, ConfirmDeletions, AlertDeletions,
       PersistReview, Prune, Whole, Goto, OnlyMoves, SameReport
  <2>3. pc'[p] \notin Early
    BY <1>a, <1>1 DEF NothingDeleted, ReviewDeletions, ConfirmDeletions, AlertDeletions,
       PersistReview, Prune, ToComparison, Goto, Early
  <2> QED BY <1>d, <2>1, <2>2, <2>3 DEF Early
<1>2. ASSUME NEW p \in Runs,
             \/ PlanThrottled(p) \/ Reconcile(p) \/ TakePlan(p) \/ Judge(p) \/ HealAborts(p)
             \/ Heal(p) \/ HealSpent(p) \/ DeferAborts(p)
      PROVE  CoverageInv'
  <2>1. /\ UNCHANGED <<state, imports, manifest>>
        /\ pc[p] \in {"plan", "judge", "healed", "deferred", "heal", "defer"}
    BY <1>2 DEF PlanThrottled, Reconcile, SavePlan, TakePlan, Judge, HealAborts, Heal,
       HealSpent, DeferAborts, Untouched, Quiet, kit, files
  <2>2. OnlyMoves(p) /\ SameReport(p)
    BY <1>a, <1>2, ZenonT(40) DEF PlanThrottled, Reconcile, TakePlan, Outlook, Judge, HealAborts, Heal,
       HealSpent, DeferAborts, ToWindows, Goto, OnlyMoves, SameReport
  <2>3. pc'[p] \notin Early
    BY <1>0, <1>a, <1>2 DEF PlanThrottled, Reconcile, TakePlan, Judge, HealAborts, Heal,
       HealSpent, DeferAborts, ToWindows, Goto, Early, KitInv, LocalsOK
  <2> QED BY <1>d, <2>1, <2>2, <2>3 DEF Early
<1>3. ASSUME NEW p \in Runs,
             \/ Apply(p) \/ WindowUnreadable(p) \/ PlanWindow(p) \/ ApplyWindow(p)
             \/ SkipWindow(p) \/ WindowsDone(p)
      PROVE  CoverageInv'
  <2>1. /\ UNCHANGED <<imports, manifest>> /\ state \subseteq state'
        /\ pc[p] \in {"apply", "window", "act"}
    BY <1>3 DEF Apply, ApplySaved, WindowUnreadable, PlanWindow, SavePlan, ApplyWindow,
       SkipWindow, WindowsDone, Untouched, Quiet, kit, files
  <2>2. OnlyMoves(p) /\ SameReport(p) /\ pc'[p] \notin Early
    <3>1. CASE Apply(p)
      <4> DEFINE to == IF Imported(saved) \subseteq state THEN mem[p]
                       ELSE [mem[p] EXCEPT !.pending = {0}]
      <4>1. /\ to.graph = mem[p].graph /\ to.dropped = mem[p].dropped
            /\ to.deferred = mem[p].deferred
        BY <1>a
      <4>2. Goto(p, "manifest", to)
        BY <3>1 DEF Apply
      <4> HIDE DEF to
      <4> QED BY <1>a, <4>1, <4>2 DEF Goto, OnlyMoves, SameReport, Early
    <3>2. CASE WindowUnreadable(p) \/ PlanWindow(p)
      BY <1>a, <3>2 DEF WindowUnreadable, PlanWindow, Goto, OnlyMoves, SameReport, Early
    <3>3. CASE ApplyWindow(p) \/ SkipWindow(p)
      BY <1>a, <3>3 DEF ApplyWindow, SkipWindow, Close, Goto, OnlyMoves, SameReport, Early
    <3>4. CASE WindowsDone(p)
      BY <1>a, <3>4 DEF WindowsDone, Goto, OnlyMoves, SameReport, Early
    <3> QED BY <1>3, <3>1, <3>2, <3>3, <3>4
  <2> QED BY <1>d, <2>1, <2>2 DEF Early
<1>4. ASSUME NEW p \in Runs, Start(p) \/ Discover(p)
      PROVE  CoverageInv'
  <2>1. /\ OnlyMoves(p) /\ mem'[p].dropped = mem[p].dropped
        /\ pc'[p] \in {"discover", "generate"}
    BY <1>a, <1>4 DEF Start, Given, Discover, Goto, OnlyMoves
  <2>2. /\ pc[p] \in Early /\ UNCHANGED manifest /\ (pc[p] # "idle" \/ holder = Nobody)
    BY <1>4 DEF Start, Discover, Early, files
  <2>3. Covers(p)'
    BY <1>0, <2>1, <2>2 DEF Covers, Early
  <2> QED BY <1>c, <2>1, <2>2, <2>3
<1>5. ASSUME NEW p \in Runs, Generate(p)
      PROVE  CoverageInv'
  <2>1. /\ OnlyMoves(p) /\ pc'[p] = "review"
        /\ mem'[p].graph = mem[p].graph /\ mem'[p].dropped = mem[p].dropped
    BY <1>a, <1>5 DEF Generate, Goto, OnlyMoves
  <2>2. /\ pc[p] = "generate" /\ imports' = mem[p].graph \ state
        /\ UNCHANGED <<state, manifest>>
    BY <1>5 DEF Generate, Quiet, files
  <2>3. Covers(p)'
    BY <1>0, <2>1, <2>2 DEF Covers, Early, Captured
  <2> QED BY <1>c, <2>1, <2>2, <2>3
<1>6. ASSUME NEW p \in Runs, Regenerate(p)
      PROVE  CoverageInv'
  <2>1. /\ OnlyMoves(p) /\ pc'[p] = "plan"
        /\ mem'[p].graph = mem[p].graph /\ mem'[p].dropped = mem[p].dropped
    BY <1>a, <1>6 DEF Regenerate, Goto, OnlyMoves
  <2>2. /\ pc[p] = "regenerate" /\ imports' = Captured(p) \ state
        /\ UNCHANGED <<state, manifest>>
    BY <1>6 DEF Regenerate, Quiet, files
  <2>3. Covers(p)'
    BY <2>1, <2>2 DEF Covers, Early, Captured
  <2> QED BY <1>c, <2>1, <2>2, <2>3
<1>7. ASSUME NEW p \in Runs, RemoveFromState(p)
      PROVE  CoverageInv'
  <2>1. OnlyMoves(p) /\ SameReport(p) /\ pc'[p] = mem[p].then
    BY <1>a, <1>7 DEF RemoveFromState, Goto, OnlyMoves, SameReport
  <2>2. /\ pc[p] = "rm" /\ state' = state \ mem[p].doomed /\ UNCHANGED <<imports, manifest>>
    BY <1>7 DEF RemoveFromState, StateRm, kit, files
  <2>3. /\ mem[p].then \in {"persist", "alert", "regenerate"}
        /\ mem[p].then # "regenerate" => mem[p].doomed \cap mem[p].graph = {}
    BY <1>0, <2>2 DEF ReviewInv, Confirmed, Removing
  <2>4. Covers(p)'
    BY <1>0, <2>1, <2>2, <2>3 DEF Covers, Early, Captured, SameReport
  <2> QED BY <1>c, <2>1, <2>2, <2>4
<1>8. ASSUME NEW p \in Runs, PlanRejected(p)
      PROVE  CoverageInv'
  <2>1. PICK named \in SUBSET Failing(mem[p].over) :
          /\ \E blocks \in LeftBehind(mem[p].over) : DropFrom(blocks, named)
          /\ Goto(p, "plan", [mem[p] EXCEPT !.dropped = @ \cup named, !.attempts = @ + 1])
    BY <1>8 DEF PlanRejected
  <2>2. /\ OnlyMoves(p) /\ pc'[p] = "plan"
        /\ mem'[p].graph = mem[p].graph /\ mem'[p].deferred = mem[p].deferred
        /\ mem'[p].dropped = mem[p].dropped \cup named
    BY <1>a, <2>1 DEF Goto, OnlyMoves
  <2>3. /\ pc[p] = "plan" /\ UNCHANGED <<state, manifest>> /\ imports' = imports \ named
    BY <1>8, <2>1 DEF PlanRejected, Quiet, files, DropFrom
  <2>4. Covers(p)'
    BY <1>0, <2>2, <2>3 DEF Covers, Early, Captured
  <2> QED BY <1>c, <2>2, <2>3, <2>4
<1>9. ASSUME NEW p \in Runs, Defer(p) \/ DeferWindow(p)
      PROVE  CoverageInv'
  <2>1. /\ OnlyMoves(p) /\ pc'[p] \in {"window", "plan"}
        /\ mem'[p].graph = mem[p].graph /\ mem'[p].dropped = mem[p].dropped
        /\ mem'[p].deferred = mem[p].deferred \cup Racy
    BY <1>a, <1>9, ZenonT(40) DEF Defer, DeferWindow, Goto, OnlyMoves
  <2>2. /\ pc[p] \in {"defer", "act"} /\ UNCHANGED <<state, manifest>>
        /\ imports' = imports \ Racy
    BY <1>9 DEF Defer, DeferWindow, Quiet, files, DropFromKit, DropFrom
  <2>3. Covers(p)'
    BY <1>0, <2>1, <2>2 DEF Covers, Early, Captured
  <2> QED BY <1>c, <2>1, <2>2, <2>3
<1>10. ASSUME NEW p \in Runs, Finish(p) \/ GiveUp(p) \/ BreakOff(p)
       PROVE  CoverageInv'
  <2>1. /\ pc[p] # "idle" /\ OnlyMoves(p) /\ pc'[p] = "idle" /\ mem'[p] = Fresh
    BY <1>a, <1>10 DEF Finish, GiveUp, BreakOff, Leave, OnlyMoves
  <2>2. Covers(p)'
    BY <2>1 DEF Covers, Early, Fresh
  <2>3. \A q \in Runs : Covers(q)'
    BY <1>0, <2>1, <2>2, OthersCover
  <2>4. Honest'
    <3>1. CASE Finish(p)
      <4>1. /\ manifest'.pending = Captured(p) \ state
            /\ manifest'.unsupported = mem[p].graph \cap mem[p].dropped
            /\ manifest'.deferred = mem[p].deferred /\ manifest'.kit = imports
            /\ pc[p] = "manifest"
        BY <3>1 DEF Finish
      <4> QED BY <1>0, <4>1 DEF Covers, Early, Honest
    <3>2. CASE GiveUp(p) \/ BreakOff(p)
      BY <1>b, <3>2 DEF GiveUp, BreakOff, files
    <3> QED BY <1>10, <3>1, <3>2
  <2> QED BY <1>0, <2>3, <2>4 DEF CoverageInv
<1>11. CASE UNCHANGED <<pc, mem, state, imports, manifest>>
  BY <1>0, <1>b, <1>11 DEF CoverageInv, Covers, Captured
<1>12. ASSUME NEW p \in Runs, Step(p) \/ Start(p) \/ PlanThrottled(p) \/ Fault(p) \/ Kill(p)
       PROVE  CoverageInv'
  BY <1>1, <1>2, <1>3, <1>4, <1>5, <1>6, <1>7, <1>8, <1>9, <1>10, <1>12
     DEF Step, Review, Compare, Materialize, Fault, Kill
<1> QED BY <1>11, <1>12 DEF Next, Edit, Upgrade, vars, files, kit

LEMMA CoverageInvHolds == Spec => []CoverageInv
<1>1. Init => CoverageInv
  <2> SUFFICES ASSUME Init PROVE CoverageInv
    OBVIOUS
  <2>1. \A p \in Runs : pc[p] = "idle" /\ mem[p] = Fresh
    BY DEF Init
  <2> QED BY <2>1, ReviewStarts DEF Init, CoverageInv, Honest, Covers, Early, Fresh
<1>2. CoverageInv /\ [Next]_vars => CoverageInv'
  BY CoverageStep
<1> QED BY <1>1, <1>2, PTL DEF Spec

\* A manifest whose fingerprint is that of imports.tf vouches for nothing
\* that is absent from it, whatever the runs after it left undone or were
\* killed at (workdir_lock.py; _write_manifest).
THEOREM ManifestIsHonest == Spec => []CoverageIsHonest
<1>1. CoverageInv => CoverageIsHonest
  BY DEF CoverageInv, Honest, CoverageIsHonest
<1> QED BY <1>1, CoverageInvHolds, PTL

-----------------------------------------------------------------------------
(* Types.                                                                  *)

\* The local variables that reach the kit and the history.
InScope(l) ==
  /\ {"existing", "missing", "over", "todo", "chunk"} \subseteq DOMAIN l
  /\ l.existing \subseteq Objs /\ l.missing \subseteq Objs /\ l.over \subseteq Objs
  /\ l.todo \subseteq Objs /\ l.chunk \subseteq Objs

Recorded ==
  /\ reviewed \subseteq Objs /\ asked \subseteq Objs /\ cut \subseteq Objs
  /\ edits \in 0 .. MaxEdits /\ faults \in 0 .. MaxFaults

TypeInv == KitInv /\ KitType /\ Recorded /\ \A p \in Runs : InScope(mem[p])

\* The versions that blocks can say.
Blocks == [Objs -> 0 .. MaxVersion]

LEMMA GeneratedType ==
  ASSUME KitType, NEW over
  PROVE  Generated(over) \in Blocks /\ LeftBehind(over) \subseteq Blocks
BY DEF KitType, Generated, LeftBehind, Blocks

LEMMA WithoutType ==
  ASSUME NEW blocks \in Blocks, NEW gone
  PROVE  Without(blocks, gone) \in Blocks
BY ObjsAssumption DEF Without, Blocks

\* A plan reports on what it was made over, with an action terraform has.
LEMMA PlanType ==
  ASSUME NEW over \in SUBSET Objs, NEW plan \in {PlanOf(over), NoPlan}
  PROVE  DOMAIN plan \subseteq Objs /\ \A a \in DOMAIN plan : plan[a] \in Actions
<1>1. CASE plan = NoPlan
  BY <1>1 DEF NoPlan
<1>2. CASE plan = PlanOf(over)
  <2>1. \A a : ActionOn(a, over) \in Actions
    BY DEF ActionOn, Actions
  <2> QED BY <1>2, <2>1 DEF PlanOf, Planned
<1> QED BY <1>1, <1>2

LEMMA ImportedType ==
  ASSUME KitType
  PROVE  Imported(saved) \subseteq Objs /\ Updates(saved) \subseteq Objs
BY DEF KitType, Imported, Updates

\* No run changes what the provider refuses.
LEMMA RejectedType ==
  ASSUME rejected \subseteq Objs, [Next]_vars
  PROVE  rejected' \subseteq Objs
<1>1. ASSUME NEW p \in Runs, Review(p)
      PROVE  rejected' = rejected
  BY <1>1 DEF Review, Discover, Generate, NothingDeleted, ReviewDeletions, ConfirmDeletions,
     AlertDeletions, PersistReview, Quiet, bounds
<1>2. ASSUME NEW p \in Runs, Compare(p)
      PROVE  rejected' = rejected
  BY <1>2 DEF Compare, Prune, RemoveFromState, PlanRejected, Reconcile, TakePlan, GiveUp,
     Judge, HealAborts, Heal, HealSpent, Regenerate, DeferAborts, Defer, Quiet, bounds
<1>3. ASSUME NEW p \in Runs, Materialize(p)
      PROVE  rejected' = rejected
  BY <1>3 DEF Materialize, Apply, WindowUnreadable, PlanWindow, ApplyWindow, DeferWindow,
     SkipWindow, WindowsDone, Finish, Quiet, bounds
<1>4. ASSUME NEW p \in Runs, Start(p) \/ PlanThrottled(p) \/ BreakOff(p)
      PROVE  rejected' = rejected
  BY <1>4 DEF Start, PlanThrottled, BreakOff, bounds
<1>5. ASSUME NEW a \in Objs, Edit(a) \/ Upgrade(a)
      PROVE  rejected' \subseteq Objs
  BY <1>5 DEF Edit, Upgrade
<1>6. CASE UNCHANGED vars
  BY <1>6 DEF vars, bounds
<1> QED BY <1>1, <1>2, <1>3, <1>4, <1>5, <1>6 DEF Next, Step, Fault, Kill

LEMMA KitTypeStep ==
  ASSUME TypeInv, [Next]_vars
  PROVE  KitType'
<1>0. KitInv /\ KitInv' /\ KitType /\ \A p \in Runs : InScope(mem[p])
  BY NextKeeps DEF TypeInv
<1>s. state' \subseteq Objs /\ imports' \subseteq Objs /\ rejected' \subseteq Objs
  BY <1>0, RejectedType DEF KitInv, KitType
<1>n. DOMAIN NoPlan \subseteq Objs /\ \A a \in DOMAIN NoPlan : NoPlan[a] \in Actions
  BY DEF NoPlan
<1>1. ASSUME NEW p \in Runs,
             \/ Start(p) \/ Discover(p) \/ NothingDeleted(p) \/ ReviewDeletions(p)
             \/ ConfirmDeletions(p) \/ AlertDeletions(p) \/ PersistReview(p)
             \/ RemoveFromState(p) \/ PlanThrottled(p) \/ Judge(p) \/ HealAborts(p) \/ Heal(p)
             \/ HealSpent(p) \/ Regenerate(p) \/ DeferAborts(p) \/ SkipWindow(p)
             \/ WindowsDone(p) \/ Kill(p)
      PROVE  KitType'
  <2>1. UNCHANGED <<live, config, pinned, saved>>
    BY <1>1 DEF Start, Discover, NothingDeleted, ReviewDeletions, ConfirmDeletions,
       AlertDeletions, PersistReview, RemoveFromState, StateRm, PlanThrottled, Judge,
       HealAborts, Heal, HealSpent, Regenerate, DeferAborts, SkipWindow, WindowsDone, Kill,
       BreakOff, Untouched, kit
  <2> QED BY <1>0, <1>s, <2>1 DEF KitType
<1>2. ASSUME NEW p \in Runs, Apply(p) \/ ApplyWindow(p) \/ Finish(p) \/ Fault(p)
      PROVE  KitType'
  <2>1. UNCHANGED <<live, config, pinned>> /\ saved' \in {saved, NoPlan}
    BY <1>2 DEF Apply, ApplySaved, ApplyWindow, Finish, Fault, BreakOff, Untouched, kit
  <2> QED BY <1>0, <1>s, <1>n, <2>1 DEF KitType
<1>3. ASSUME NEW p \in Runs, Generate(p) \/ Prune(p)
      PROVE  KitType'
  <2>1. /\ UNCHANGED <<live, saved>> /\ pinned' \subseteq pinned
        /\ \E gone : config' \in {config, Without(config, gone)}
    BY <1>3 DEF Generate, Prune, PruneBaseline
  <2> QED BY <1>0, <1>s, <2>1, WithoutType DEF KitType, Blocks
<1>4. ASSUME NEW p \in Runs, PlanRejected(p) \/ Defer(p) \/ DeferWindow(p)
      PROVE  KitType'
  <2>1. /\ live' = live /\ saved' \in {saved, NoPlan}
        /\ \E blocks \in {config} \cup LeftBehind(mem[p].over) :
             \E gone : config' = Without(blocks, gone) /\ pinned' = pinned \ gone
    BY <1>4 DEF PlanRejected, Defer, DeferWindow, DropFromKit, DropFrom
  <2>2. config' \in Blocks
    BY <1>0, <2>1, GeneratedType, WithoutType DEF KitType, Blocks
  <2> QED BY <1>0, <1>s, <1>n, <2>1, <2>2 DEF KitType, Blocks
<1>5. ASSUME NEW p \in Runs, Reconcile(p) \/ TakePlan(p)
      PROVE  KitType'
  <2> DEFINE over == mem[p].over
  <2>1. over \in SUBSET Objs
    BY <1>0 DEF InScope
  <2>2. /\ live' = live /\ config' = Generated(over) /\ saved' \in {PlanOf(over), NoPlan}
        /\ pinned' \subseteq pinned \cup Remediable(PlanOf(over), over)
    BY <1>5 DEF Reconcile, TakePlan, SavePlan
  <2>3. Remediable(PlanOf(over), over) \subseteq Objs
    BY <2>1, PlanType DEF Remediable, Updates
  <2> HIDE DEF over
  <2> QED BY <1>0, <1>s, <2>1, <2>2, <2>3, GeneratedType, PlanType DEF KitType, Blocks
<1>6. ASSUME NEW p \in Runs, GiveUp(p) \/ WindowUnreadable(p)
      PROVE  KitType'
  <2>1. /\ UNCHANGED <<live, pinned>> /\ saved' = NoPlan
        /\ \E over : config' \in LeftBehind(over)
    BY <1>6 DEF GiveUp, WindowUnreadable
  <2> QED BY <1>0, <1>s, <1>n, <2>1, GeneratedType DEF KitType, Blocks
<1>7. ASSUME NEW p \in Runs, PlanWindow(p)
      PROVE  KitType'
  <2>1. PICK c \in Chunks(p) : SavePlan(c) /\ pinned' = pinned
    BY <1>7 DEF PlanWindow
  <2>2. c \in SUBSET Objs
    BY <1>0 DEF Chunks, InScope
  <2> QED BY <1>0, <1>s, <2>1, <2>2, GeneratedType, PlanType DEF SavePlan, KitType, Blocks
<1>8. ASSUME NEW a \in Objs, Edit(a)
      PROVE  KitType'
  <2>1. PICK v \in Edits[a] : live' = [live EXCEPT ![a] = v]
    BY <1>8 DEF Edit
  <2>2. v \in 0 .. MaxVersion
    BY <2>1, RunAssumption
  <2>3. live' \in [Objs -> 0 .. MaxVersion]
    BY <1>0, <2>1, <2>2 DEF KitType
  <2>4. UNCHANGED <<config, pinned, saved>>
    BY <1>8 DEF Edit, kit
  <2> QED BY <1>0, <1>s, <2>3, <2>4 DEF KitType
<1>9. CASE UNCHANGED vars \/ \E a \in Objs : Upgrade(a)
  <2>1. UNCHANGED <<live, config, pinned, saved>>
    BY <1>9 DEF vars, Upgrade, kit
  <2> QED BY <1>0, <1>s, <2>1 DEF KitType
<1> QED BY <1>1, <1>2, <1>3, <1>4, <1>5, <1>6, <1>7, <1>8, <1>9
        DEF Next, Step, Review, Compare, Materialize

\* Whoever moves goes on with objects, and moves nobody else.
StaysInScope(p) ==
  InScope(mem'[p]) /\ \A q \in Runs \ {p} : mem'[q] = mem[q]

LEMMA ScopeStep ==
  ASSUME TypeInv, [Next]_vars
  PROVE  \A p \in Runs : InScope(mem[p])'
<1>0. /\ KitInv /\ KitType /\ DOMAIN mem = Runs /\ \A p \in Runs : InScope(mem[p])
      /\ \A p \in Runs : mem[p].graph \subseteq Objs
  BY DEF TypeInv, KitInv, LocalsOK
<1>1. ASSUME NEW p \in Runs, StaysInScope(p)
      PROVE  \A q \in Runs : InScope(mem[q])'
  BY <1>0, <1>1 DEF StaysInScope
<1>2. ASSUME NEW p \in Runs, PendingTargets(p) \subseteq Objs,
             \/ Start(p) \/ Discover(p) \/ Generate(p) \/ NothingDeleted(p)
             \/ ReviewDeletions(p) \/ ConfirmDeletions(p) \/ AlertDeletions(p)
             \/ PersistReview(p)
      PROVE  StaysInScope(p)
  <2>1. InScope(mem[p]) /\ DOMAIN mem = Runs /\ state \subseteq Objs
    BY <1>0 DEF KitType
  <2>2. CASE Start(p) \/ Discover(p) \/ Generate(p)
    <3>1. CASE Start(p)
      <4>1. PICK o \in Invocations[p] : Goto(p, "discover", Given(p, o))
        BY <3>1 DEF Start
      <4> QED BY <2>1, <4>1 DEF Given, Goto, StaysInScope, InScope
    <3>2. CASE Discover(p)
      <4>1. PICK u \in SUBSET MayBeUnreadable :
              Goto(p, "generate", [mem[p] EXCEPT !.graph = {a \in Objs : live[a] # 0} \ u,
                                                 !.unread = u])
        BY <3>2 DEF Discover
      <4> QED BY <2>1, <4>1 DEF Goto, StaysInScope, InScope
    <3>3. CASE Generate(p)
      BY <2>1, <3>3 DEF Generate, Goto, StaysInScope, InScope
    <3> QED BY <2>2, <3>1, <3>2, <3>3
  <2>3. CASE NothingDeleted(p) \/ PersistReview(p) \/ AlertDeletions(p)
    BY <2>1, <2>3, ZenonT(40) DEF NothingDeleted, PersistReview, AlertDeletions, Whole, Goto,
       StaysInScope, InScope
  <2>4. CASE ReviewDeletions(p) \/ ConfirmDeletions(p)
    <3>0. Deleted(p) \subseteq Objs
      BY <2>1 DEF Deleted, InScope
    <3>1. CASE ReviewDeletions(p)
      BY <2>1, <3>0, <3>1 DEF ReviewDeletions, Goto, StaysInScope, InScope
    <3>2. CASE ConfirmDeletions(p)
      <4> DEFINE next == IF Deleted(p) \ reviewed = {} THEN "persist" ELSE "alert"
      <4>1. PICK s : Goto(p, s, [mem[p] EXCEPT !.missing = Deleted(p) \ reviewed,
                                               !.doomed = Deleted(p) \cap reviewed,
                                               !.then = next])
        BY <3>2 DEF ConfirmDeletions
      <4> HIDE DEF next
      <4> QED BY <2>1, <3>0, <4>1 DEF Goto, StaysInScope, InScope
    <3> QED BY <2>4, <3>1, <3>2
  <2> QED BY <1>2, <2>2, <2>3, <2>4
<1>3. ASSUME NEW p \in Runs, PendingTargets(p) \subseteq Objs,
             \/ Prune(p) \/ RemoveFromState(p) \/ PlanRejected(p) \/ PlanThrottled(p)
             \/ Reconcile(p) \/ TakePlan(p) \/ Judge(p) \/ Heal(p) \/ HealSpent(p)
      PROVE  StaysInScope(p)
  <2>1. InScope(mem[p]) /\ DOMAIN mem = Runs
    BY <1>0
  <2>2. CASE Prune(p) \/ RemoveFromState(p)
    BY <2>1, <2>2 DEF Prune, RemoveFromState, Goto, StaysInScope, InScope
  <2>3. CASE PlanRejected(p) \/ PlanThrottled(p) \/ Reconcile(p)
    BY <2>1, <2>3, ZenonT(40) DEF PlanRejected, PlanThrottled, Reconcile, Goto, StaysInScope, InScope
  <2>4. CASE TakePlan(p)
    BY <2>1, <2>4 DEF TakePlan, Outlook, Goto, StaysInScope, InScope
  <2>5. CASE Judge(p) \/ Heal(p) \/ HealSpent(p)
    BY <2>1, <2>5 DEF Judge, Heal, HealSpent, Goto, StaysInScope, InScope
  <2> QED BY <1>3, <2>2, <2>3, <2>4, <2>5
<1>4. ASSUME NEW p \in Runs, PendingTargets(p) \subseteq Objs,
             \/ HealAborts(p) \/ DeferAborts(p) \/ Regenerate(p) \/ Defer(p)
             \/ WindowUnreadable(p) \/ PlanWindow(p) \/ ApplyWindow(p) \/ SkipWindow(p)
             \/ DeferWindow(p) \/ WindowsDone(p)
      PROVE  StaysInScope(p)
  <2>1. InScope(mem[p]) /\ DOMAIN mem = Runs
    BY <1>0
  <2>2. CASE HealAborts(p) \/ DeferAborts(p)
    BY <1>4, <2>1, <2>2 DEF HealAborts, DeferAborts, ToWindows, Goto, StaysInScope, InScope
  <2>3. CASE Regenerate(p) \/ Defer(p)
    <3> DEFINE over == IF PendingTargets(p) = {} THEN Objs ELSE PendingTargets(p)
               left == PendingTargets(p) \ Racy
    <3>1. CASE Regenerate(p)
      <4>1. Goto(p, "plan", [mem[p] EXCEPT !.over = over, !.after = "healed"])
        BY <3>1 DEF Regenerate
      <4>2. over \subseteq Objs
        BY <1>4
      <4> HIDE DEF over
      <4> QED BY <2>1, <4>1, <4>2 DEF Goto, StaysInScope, InScope
    <3>2. CASE Defer(p)
      <4>1. PICK s : Goto(p, s, [mem[p] EXCEPT !.deferred = @ \cup Racy, !.defers = @ + 1,
                                               !.over = left, !.after = "deferred",
                                               !.todo = {}, !.owed = {}])
        BY <3>2 DEF Defer
      <4>2. left \subseteq Objs
        BY <1>4
      <4> HIDE DEF left
      <4> QED BY <2>1, <4>1, <4>2 DEF Goto, StaysInScope, InScope
    <3> QED BY <2>3, <3>1, <3>2
  <2>4. CASE WindowUnreadable(p)
    BY <2>1, <2>4 DEF WindowUnreadable, Goto, StaysInScope, InScope
  <2>5. CASE PlanWindow(p)
    BY <2>1, <2>5 DEF PlanWindow, Chunks, Goto, StaysInScope, InScope
  <2>6. CASE ApplyWindow(p) \/ SkipWindow(p)
    BY <2>1, <2>6, ZenonT(40) DEF ApplyWindow, SkipWindow, Close, Goto, StaysInScope, InScope
  <2>7. CASE DeferWindow(p) \/ WindowsDone(p)
    <3>1. CASE DeferWindow(p)
      BY <2>1, <3>1 DEF DeferWindow, Goto, StaysInScope, InScope
    <3>2. CASE WindowsDone(p)
      BY <2>1, <3>2 DEF WindowsDone, Goto, StaysInScope, InScope
    <3> QED BY <2>7, <3>1, <3>2
  <2> QED BY <1>4, <2>2, <2>3, <2>4, <2>5, <2>6, <2>7
<1>5. ASSUME NEW p \in Runs, Apply(p)
      PROVE  StaysInScope(p)
  <2> DEFINE to == IF Imported(saved) \subseteq state THEN mem[p]
                   ELSE [mem[p] EXCEPT !.pending = {0}]
  <2>1. InScope(to)
    BY <1>0 DEF InScope
  <2>2. Goto(p, "manifest", to)
    BY <1>5 DEF Apply
  <2> HIDE DEF to
  <2> QED BY <1>0, <2>1, <2>2 DEF Goto, StaysInScope
<1>6. ASSUME NEW p \in Runs, Finish(p) \/ GiveUp(p) \/ BreakOff(p)
      PROVE  \A q \in Runs : InScope(mem[q])'
  <2>1. mem' = [mem EXCEPT ![p] = Fresh]
    BY <1>6 DEF Finish, GiveUp, BreakOff, Leave
  <2> QED BY <1>0, <2>1 DEF InScope, Fresh
<1>7. ASSUME UNCHANGED mem
      PROVE  \A q \in Runs : InScope(mem[q])'
  BY <1>0, <1>7
<1>8. \A p \in Runs : PendingTargets(p) \subseteq Objs
  BY <1>0 DEF PendingTargets, Captured
<1> QED BY <1>1, <1>2, <1>3, <1>4, <1>5, <1>6, <1>7, <1>8
        DEF Next, Step, Review, Compare, Materialize, Fault, Kill, Edit, Upgrade, vars

\* Readings that fail are counted like failures and kills.
LEMMA RecordedStep ==
  ASSUME TypeInv, [Next]_vars
  PROVE  Recorded'
<1>0. /\ Recorded /\ state' \subseteq Objs
      /\ \A p \in Runs : mem[p].missing \subseteq Objs
  BY NextKeeps DEF TypeInv, KitInv, InScope
<1>1. ASSUME NEW p \in Runs, Discover(p)
      PROVE  Recorded'
  <2>1. PICK u \in SUBSET MayBeUnreadable :
          faults + Cardinality(u) <= MaxFaults /\ faults' = faults + Cardinality(u)
    BY <1>1 DEF Discover
  <2>2. IsFiniteSet(u)
    BY <2>1, ObjsAssumption, RunAssumption, FS_Subset
  <2>3. Cardinality(u) \in Nat
    BY <2>2, FS_CardinalityType
  <2>4. faults' \in 0 .. MaxFaults
    BY <1>0, <2>1, <2>3, RunAssumption DEF Recorded
  <2> QED BY <1>0, <1>1, <2>4 DEF Discover, Recorded, files, history
<1>2. ASSUME NEW p \in Runs, NothingDeleted(p) \/ AlertDeletions(p) \/ PersistReview(p)
      PROVE  Recorded'
  BY <1>0, <1>2 DEF NothingDeleted, AlertDeletions, PersistReview, Recorded, files, bounds
<1>3. ASSUME NEW p \in Runs, PlanThrottled(p) \/ BreakOff(p)
      PROVE  Recorded'
  <2>1. faults' \in 0 .. MaxFaults
    BY <1>0, <1>3, RunAssumption DEF PlanThrottled, BreakOff, Recorded
  <2>2. UNCHANGED <<reviewed, asked, edits>> /\ cut' \subseteq cut \cup state'
    BY <1>3 DEF PlanThrottled, BreakOff, files, history
  <2> QED BY <1>0, <2>1, <2>2 DEF Recorded
<1>4. ASSUME NEW p \in Runs, RemoveFromState(p) \/ Finish(p)
      PROVE  Recorded'
  BY <1>0, <1>4 DEF RemoveFromState, Finish, Recorded, files, history, bounds
<1>5. ASSUME NEW a \in Objs, Edit(a) \/ Upgrade(a)
      PROVE  Recorded'
  <2>1. edits' \in 0 .. MaxEdits
    BY <1>0, <1>5, RunAssumption DEF Edit, Upgrade, Recorded
  <2> QED BY <1>0, <1>5, <2>1 DEF Edit, Upgrade, Recorded, files, history
<1>6. ASSUME UNCHANGED <<files, history, bounds>>
      PROVE  Recorded'
  BY <1>0, <1>6 DEF Recorded, files, history, bounds
<1>7. ASSUME NEW p \in Runs,
             \/ Start(p) \/ Generate(p) \/ ReviewDeletions(p) \/ ConfirmDeletions(p)
             \/ Prune(p) \/ PlanRejected(p) \/ Reconcile(p) \/ TakePlan(p) \/ GiveUp(p)
             \/ Judge(p) \/ HealAborts(p) \/ Heal(p) \/ HealSpent(p) \/ Regenerate(p)
             \/ DeferAborts(p) \/ Defer(p) \/ Apply(p) \/ WindowUnreadable(p)
             \/ PlanWindow(p) \/ ApplyWindow(p) \/ DeferWindow(p) \/ SkipWindow(p)
             \/ WindowsDone(p)
      PROVE  UNCHANGED <<files, history, bounds>>
  BY <1>7 DEF Start, Generate, ReviewDeletions, ConfirmDeletions, Prune, PlanRejected,
     Reconcile, TakePlan, GiveUp, Judge, HealAborts, Heal, HealSpent, Regenerate, DeferAborts,
     Defer, Apply, WindowUnreadable, PlanWindow, ApplyWindow, DeferWindow, SkipWindow,
     WindowsDone, Quiet
<1> QED BY <1>1, <1>2, <1>3, <1>4, <1>5, <1>6, <1>7
        DEF Next, Step, Review, Compare, Materialize, Fault, Kill, vars

LEMMA TypeInvHolds == Spec => []TypeInv
<1>1. Init => TypeInv
  <2> SUFFICES ASSUME Init PROVE TypeInv
    OBVIOUS
  <2>1. KitInv
    BY InitKeeps
  <2>2. KitType
    BY ObjsAssumption DEF Init, KitType, NoPlan
  <2>3. Recorded
    BY RunAssumption DEF Init, Recorded
  <2>4. \A p \in Runs : InScope(mem[p])
    BY DEF Init, InScope, Fresh
  <2> QED BY <2>1, <2>2, <2>3, <2>4 DEF TypeInv
<1>2. TypeInv /\ [Next]_vars => TypeInv'
  <2> SUFFICES ASSUME TypeInv, [Next]_vars PROVE TypeInv'
    OBVIOUS
  <2>1. KitInv'
    BY NextKeeps DEF TypeInv
  <2> QED BY <2>1, KitTypeStep, ScopeStep, RecordedStep DEF TypeInv
<1> QED BY <1>1, <1>2, PTL DEF Spec

\* Every variable keeps its type: the kit's files and the saved plan name
\* resources only, versions and budgets stay in their ranges.
THEOREM PipelineTypes == Spec => []TypeOK
<1>1. TypeInv => TypeOK
  BY DEF TypeInv, KitInv, Control, LocalsOK, Recorded, TypeOK
<1> QED BY <1>1, TypeInvHolds, PTL

-----------------------------------------------------------------------------
(* What RUN_SUCCESS says is still to be imported.  A count is taken when a *)
(* plan is, or when the windows are done, and reported stages later: what  *)
(* is left to import is among what the plan imports, or among what the     *)
(* windows have before them or still owe (Accounts).                       *)

Unplanned == {"idle", "discover", "generate", "review", "alert", "persist"}
Deciding == {"judge", "healed", "deferred", "apply"}
Counts(p) == \A n \in mem[p].pending : Cardinality(PendingTargets(p)) <= n

Accounts(p) ==
  /\ {"sync", "owed", "pending"} \subseteq DOMAIN mem[p]
  /\ mem[p].owed \subseteq Objs
  /\ pc[p] \in Unplanned => mem[p].pending = {}
  /\ pc[p] \in Removing /\ mem[p].then # "regenerate" => mem[p].pending = {}
  /\ pc[p] = "plan" => PendingTargets(p) \subseteq mem[p].over
  /\ pc[p] \in Deciding \cup {"manifest"} => Counts(p)
  /\ pc[p] \in Deciding /\ (mem[p].sync \/ pc[p] = "apply")
       => PendingTargets(p) \subseteq Imported(saved)
  /\ pc[p] \in {"window", "act"}
       => PendingTargets(p) \subseteq mem[p].todo \cup mem[p].chunk \cup mem[p].owed
  /\ pc[p] = "act" => mem[p].chunk \cap PendingTargets(p) \subseteq Imported(saved)

ReportInv == PendingIsReported /\ \A p \in Runs : Accounts(p)

\* A plan without diagnostics imports every pending object it is over.
LEMMA PendingIsImported ==
  ASSUME NEW over, Failing(over) = {}, imports \subseteq Objs
  PROVE  Pending(over) \subseteq Imported(PlanOf(over))
<1> SUFFICES ASSUME NEW a \in Pending(over)
             PROVE  a \in Imported(PlanOf(over))
  OBVIOUS
<1>1. a \in over /\ a \in Objs /\ a \notin state /\ live[a] # 0
  BY DEF Pending, Failing
<1>2. Generated(over)[a] # 0
  BY <1>1 DEF Generated
<1>3. a \in Planned(over) /\ ActionOn(a, over) \in Importing
  BY <1>1, <1>2 DEF Planned, ActionOn, Importing
<1> QED BY <1>3 DEF PlanOf, Imported

LEMMA LeftIsImported ==
  ASSUME NEW p \in Runs, KitInv, Covers(p), pc[p] \notin Early \cup {"regenerate"},
         NEW over, Failing(over) = {}
  PROVE  over \cap PendingTargets(p) \subseteq Imported(PlanOf(over))
<1>1. over \cap PendingTargets(p) \subseteq Pending(over)
  BY DEF Covers, PendingTargets, Pending
<1> QED BY <1>1, PendingIsImported DEF KitInv

LEMMA FewerCount ==
  ASSUME NEW T \in SUBSET Objs, NEW S \in SUBSET T
  PROVE  Cardinality(S) <= Cardinality(T)
<1>1. IsFiniteSet(T)
  BY ObjsAssumption, FS_Subset
<1> QED BY <1>1, FS_Subset

\* The other processes are idle and stay so.
LEMMA OthersAccount ==
  ASSUME NEW p \in Runs, KitInv, \A q \in Runs : Accounts(q),
         pc[p] # "idle" \/ holder = Nobody, OnlyMoves(p), Accounts(p)'
  PROVE  \A q \in Runs : Accounts(q)'
<1>1. ASSUME NEW q \in Runs \ {p}
      PROVE  pc[q] = "idle" /\ pc'[q] = "idle" /\ mem'[q] = mem[q]
  BY <1>1, RunAssumption DEF KitInv, Control, Exclusive, OnlyMoves
<1>2. ASSUME NEW q \in Runs \ {p}
      PROVE  Accounts(q)'
  BY <1>1, <1>2 DEF Accounts, Unplanned, Removing, Deciding
<1> QED BY <1>2

LEMMA ReportStep ==
  ASSUME ReportInv, CoverageInv, TypeInv, TypeInv', [Next]_vars
  PROVE  ReportInv'
<1>0. /\ KitInv /\ KitType /\ \A p \in Runs : Accounts(p) /\ Covers(p) /\ InScope(mem[p])
      /\ \A p \in Runs : Confirmed(p)
  BY DEF TypeInv, ReportInv, CoverageInv, ReviewInv
<1>a. /\ DOMAIN mem = Runs /\ DOMAIN pc = Runs
      /\ \A p \in Runs :
           {"graph", "doomed", "then", "after", "dropped", "deferred", "sync", "over", "todo",
            "chunk", "owed", "pending"} \subseteq DOMAIN mem[p]
  BY <1>0 DEF KitInv, LocalsOK, Control, Accounts, InScope
<1>b. \A p \in Runs : mem[p].graph \subseteq Objs /\ mem'[p].graph \subseteq Objs
  BY DEF TypeInv, KitInv, LocalsOK
<1>c. ASSUME NEW p \in Runs, OnlyMoves(p), pc[p] # "idle" \/ holder = Nobody,
             UNCHANGED manifest, Accounts(p)'
      PROVE  ReportInv'
  <2>1. \A q \in Runs : Accounts(q)'
    BY <1>0, <1>c, OthersAccount
  <2> QED BY <1>c, <2>1 DEF ReportInv, PendingIsReported
<1>d. \A p \in Runs : PendingTargets(p) \subseteq Objs
  BY <1>b DEF PendingTargets, Captured
<1>1. ASSUME NEW p \in Runs,
             \/ Start(p) \/ Discover(p) \/ Generate(p) \/ NothingDeleted(p)
             \/ ReviewDeletions(p) \/ ConfirmDeletions(p) \/ AlertDeletions(p)
             \/ PersistReview(p)
      PROVE  ReportInv'
  <2>1. /\ UNCHANGED manifest /\ (pc[p] # "idle" \/ holder = Nobody) /\ pc[p] \in Unplanned
    BY <1>1 DEF Start, Discover, Generate, NothingDeleted, ReviewDeletions,
       ConfirmDeletions, AlertDeletions, PersistReview, Quiet, files, Unplanned
  <2>2. /\ OnlyMoves(p) /\ {"sync", "owed", "pending"} \subseteq DOMAIN mem'[p]
        /\ mem'[p].owed = mem[p].owed /\ mem'[p].pending = mem[p].pending
    <3>1. CASE Start(p) \/ Generate(p)
      BY <1>a, <3>1, ZenonT(40) DEF Start, Given, Generate, Goto, OnlyMoves
    <3>2. CASE Discover(p)
      <4>1. PICK u \in SUBSET MayBeUnreadable :
              Goto(p, "generate", [mem[p] EXCEPT !.graph = {a \in Objs : live[a] # 0} \ u,
                                                 !.unread = u])
        BY <3>2 DEF Discover
      <4> QED BY <1>a, <4>1 DEF Goto, OnlyMoves
    <3>3. CASE NothingDeleted(p) \/ PersistReview(p) \/ AlertDeletions(p) \/ ReviewDeletions(p)
      BY <1>a, <3>3 DEF NothingDeleted, ReviewDeletions, AlertDeletions, PersistReview,
         Whole, Goto, OnlyMoves
    <3>4. CASE ConfirmDeletions(p)
      <4> DEFINE next == IF Deleted(p) \ reviewed = {} THEN "persist" ELSE "alert"
      <4>1. PICK s : Goto(p, s, [mem[p] EXCEPT !.missing = Deleted(p) \ reviewed,
                                               !.doomed = Deleted(p) \cap reviewed,
                                               !.then = next])
        BY <3>4 DEF ConfirmDeletions
      <4> HIDE DEF next
      <4> QED BY <1>a, <4>1 DEF Goto, OnlyMoves
    <3> QED BY <1>1, <3>1, <3>2, <3>3, <3>4
  <2>3. /\ pc'[p] \in Unplanned \cup {"plan", "manifest", "prune"}
        /\ pc'[p] = "plan" => mem'[p].over = Objs
        /\ pc'[p] = "prune" => mem'[p].then # "regenerate"
    BY <1>a, <1>1, ZenonT(40) DEF Start, Given, Discover, Generate, NothingDeleted, ReviewDeletions,
       ConfirmDeletions, AlertDeletions, PersistReview, Whole, ToComparison, Goto, Unplanned
  <2>4. mem'[p].pending = {} /\ mem'[p].owed \subseteq Objs
    BY <1>0, <2>1, <2>2 DEF Accounts
  <2>5. PendingTargets(p)' \subseteq Objs
    BY <1>b DEF PendingTargets, Captured
  <2>6. Accounts(p)'
    BY <2>2, <2>3, <2>4, <2>5 DEF Accounts, Counts, Unplanned, Removing, Deciding
  <2> QED BY <1>c, <2>1, <2>2, <2>6
<1>2. ASSUME NEW p \in Runs, Prune(p) \/ RemoveFromState(p)
      PROVE  ReportInv'
  <2>1. /\ UNCHANGED manifest /\ pc[p] \in Removing
    BY <1>2 DEF Prune, RemoveFromState, Quiet, files, Removing
  <2>2. /\ OnlyMoves(p) /\ {"sync", "owed", "pending"} \subseteq DOMAIN mem'[p]
        /\ mem'[p].owed = mem[p].owed /\ mem'[p].pending = mem[p].pending
        /\ mem'[p].then = mem[p].then /\ pc'[p] \in {"rm", mem[p].then}
    BY <1>a, <1>2 DEF Prune, RemoveFromState, Goto, OnlyMoves
  <2>3. mem[p].then \in {"persist", "alert", "regenerate"}
    BY <1>0, <2>1 DEF Confirmed
  <2>4. Accounts(p)'
    BY <1>0, <2>1, <2>2, <2>3 DEF Accounts, Counts, Unplanned, Removing, Deciding
  <2> QED BY <1>c, <2>1, <2>2, <2>4 DEF Removing
<1>3. ASSUME NEW p \in Runs, PlanRejected(p) \/ PlanThrottled(p) \/ Reconcile(p)
      PROVE  ReportInv'
  <2>1. /\ UNCHANGED <<manifest, state>> /\ pc[p] = "plan"
    BY <1>3 DEF PlanRejected, PlanThrottled, Reconcile, SavePlan, Untouched, Quiet, files
  <2>2. /\ OnlyMoves(p) /\ {"sync", "owed", "pending"} \subseteq DOMAIN mem'[p]
        /\ mem'[p].owed = mem[p].owed /\ mem'[p].over = mem[p].over /\ pc'[p] = "plan"
        /\ mem'[p].graph = mem[p].graph /\ mem[p].dropped \subseteq mem'[p].dropped
        /\ mem'[p].deferred = mem[p].deferred
    <3>1. CASE PlanRejected(p)
      <4>1. PICK named : Goto(p, "plan", [mem[p] EXCEPT !.dropped = @ \cup named,
                                                        !.attempts = @ + 1])
        BY <3>1 DEF PlanRejected
      <4> QED BY <1>a, <4>1 DEF Goto, OnlyMoves
    <3>2. CASE PlanThrottled(p) \/ Reconcile(p)
      <4>1. Goto(p, "plan", [mem[p] EXCEPT !.attempts = @ + 1])
        BY <3>2 DEF PlanThrottled, Reconcile
      <4> QED BY <1>a, <4>1 DEF Goto, OnlyMoves
    <3> QED BY <1>3, <3>1, <3>2
  <2>3. PendingTargets(p)' \subseteq PendingTargets(p)
    BY <2>1, <2>2 DEF PendingTargets, Captured
  <2>4. Accounts(p)'
    BY <1>0, <2>1, <2>2, <2>3 DEF Accounts, Unplanned, Removing, Deciding
  <2> QED BY <1>c, <2>1, <2>2, <2>4
<1>4. ASSUME NEW p \in Runs, TakePlan(p)
      PROVE  ReportInv'
  <2> DEFINE plan == PlanOf(mem[p].over)
  <2>1. /\ UNCHANGED <<manifest, state>> /\ pc[p] = "plan" /\ Failing(mem[p].over) = {}
        /\ saved' = IF mem[p].sync THEN plan ELSE NoPlan
    BY <1>4 DEF TakePlan, Quiet, files
  <2>2. /\ OnlyMoves(p) /\ {"sync", "owed", "pending"} \subseteq DOMAIN mem'[p]
        /\ mem'[p].owed = mem[p].owed /\ pc'[p] = mem[p].after
        /\ mem'[p].graph = mem[p].graph /\ mem'[p].dropped = mem[p].dropped
        /\ mem'[p].deferred = mem[p].deferred /\ mem'[p].sync = mem[p].sync
        /\ mem'[p].pending = {Cardinality(Imported(plan))}
    BY <1>a, <1>4 DEF TakePlan, Outlook, Goto, OnlyMoves
  <2>3. mem[p].after \in {"judge", "healed", "deferred"}
    BY <1>0 DEF KitInv, LocalsOK
  <2>4. PendingTargets(p)' = PendingTargets(p)
    BY <2>1, <2>2 DEF PendingTargets, Captured
  <2>5. PendingTargets(p) \subseteq Imported(plan)
    <3>1. PendingTargets(p) \subseteq mem[p].over
      BY <1>0, <2>1 DEF Accounts
    <3> QED BY <1>0, <2>1, <3>1, LeftIsImported DEF Early
  <2>6. Imported(plan) \in SUBSET Objs
    BY <1>0 DEF Imported, PlanOf, Planned, InScope
  <2>7. Cardinality(PendingTargets(p)) <= Cardinality(Imported(plan))
    BY <2>5, <2>6, FewerCount
  <2> HIDE DEF plan
  <2>8. Counts(p)'
    BY <2>2, <2>4, <2>7 DEF Counts
  <2>9. mem[p].sync => PendingTargets(p)' \subseteq Imported(saved)'
    BY <2>1, <2>4, <2>5 DEF Imported
  <2>10. Accounts(p)'
    BY <1>0, <2>2, <2>3, <2>8, <2>9 DEF Accounts, Unplanned, Removing, Deciding
  <2> QED BY <1>c, <2>1, <2>2, <2>10
<1>5. ASSUME NEW p \in Runs, Judge(p)
      PROVE  ReportInv'
  <2>1. /\ UNCHANGED <<manifest, state, saved>> /\ pc[p] \in {"judge", "healed", "deferred"}
    BY <1>5 DEF Judge, Untouched, kit, Quiet, files
  <2>2. /\ OnlyMoves(p) /\ mem'[p] = mem[p]
        /\ pc'[p] \in {"manifest", "defer", "heal"} \/ (pc'[p] = "apply" /\ mem[p].sync)
    BY <1>a, <1>5 DEF Judge, Goto, OnlyMoves
  <2>3. Accounts(p)'
    BY <1>0, <2>1, <2>2
       DEF Accounts, Counts, PendingTargets, Captured, Unplanned, Removing, Deciding
  <2> QED BY <1>c, <2>1, <2>2, <2>3
<1>6. ASSUME NEW p \in Runs, HealAborts(p) \/ DeferAborts(p)
      PROVE  ReportInv'
  <2>1. /\ UNCHANGED <<manifest, state>> /\ pc[p] \in {"heal", "defer"}
    BY <1>6 DEF HealAborts, DeferAborts, Untouched, Quiet, files
  <2>2. /\ OnlyMoves(p) /\ {"sync", "owed", "pending"} \subseteq DOMAIN mem'[p]
        /\ mem'[p].owed = {} /\ mem'[p].todo = PendingTargets(p) /\ pc'[p] = "window"
        /\ SameReport(p)
    BY <1>a, <1>6 DEF HealAborts, DeferAborts, ToWindows, Goto, OnlyMoves, SameReport
  <2>3. PendingTargets(p)' = PendingTargets(p)
    BY <2>1, <2>2 DEF PendingTargets, Captured, SameReport
  <2>4. Accounts(p)'
    BY <2>2, <2>3 DEF Accounts, Unplanned, Removing, Deciding
  <2> QED BY <1>c, <2>1, <2>2, <2>4
<1>7. ASSUME NEW p \in Runs, Heal(p) \/ HealSpent(p) \/ Regenerate(p)
      PROVE  ReportInv'
  <2>1. /\ UNCHANGED <<manifest, state>> /\ pc[p] \in {"heal", "regenerate"}
    BY <1>7 DEF Heal, HealSpent, Regenerate, Untouched, Quiet, files
  <2>2. /\ OnlyMoves(p) /\ {"sync", "owed", "pending"} \subseteq DOMAIN mem'[p]
        /\ mem'[p].owed = mem[p].owed /\ SameReport(p)
    BY <1>a, <1>7, ZenonT(40) DEF Heal, HealSpent, Regenerate, Goto, OnlyMoves, SameReport
  <2>3. PendingTargets(p)' = PendingTargets(p)
    BY <2>1, <2>2 DEF PendingTargets, Captured, SameReport
  <2>4. \/ pc'[p] = "prune" /\ mem'[p].then = "regenerate"
        \/ pc'[p] = "defer"
        \/ pc'[p] = "plan" /\ mem'[p].over \in {Objs, PendingTargets(p)}
    BY <1>a, <1>7 DEF Heal, HealSpent, Regenerate, Goto
  <2>5. Accounts(p)'
    BY <1>0, <1>d, <2>2, <2>3, <2>4 DEF Accounts, Unplanned, Removing, Deciding
  <2> QED BY <1>c, <2>1, <2>2, <2>5
<1>8. ASSUME NEW p \in Runs, Defer(p)
      PROVE  ReportInv'
  <2> DEFINE left == PendingTargets(p) \ Racy
  <2>1. /\ UNCHANGED <<manifest, state>> /\ pc[p] = "defer"
    BY <1>8 DEF Defer, Quiet, files
  <2>2. /\ OnlyMoves(p) /\ {"sync", "owed", "pending"} \subseteq DOMAIN mem'[p]
        /\ mem'[p].owed = {} /\ mem'[p].graph = mem[p].graph
        /\ mem'[p].dropped = mem[p].dropped /\ mem'[p].deferred = mem[p].deferred \cup Racy
        /\ mem'[p].over = left
        /\ pc'[p] = "plan" \/ (pc'[p] = "window" /\ left = {})
    BY <1>a, <1>8 DEF Defer, Goto, OnlyMoves
  <2>3. PendingTargets(p)' = left
    BY <2>1, <2>2 DEF PendingTargets, Captured
  <2> HIDE DEF left
  <2>4. Accounts(p)'
    BY <2>2, <2>3 DEF Accounts, Unplanned, Removing, Deciding
  <2> QED BY <1>c, <2>1, <2>2, <2>4
<1>9. ASSUME NEW p \in Runs, Apply(p)
      PROVE  ReportInv'
  <2> DEFINE to == IF Imported(saved) \subseteq state THEN mem[p]
                   ELSE [mem[p] EXCEPT !.pending = {0}]
  <2>1. /\ UNCHANGED manifest /\ state' = state \cup Imported(saved) /\ pc[p] = "apply"
        /\ Goto(p, "manifest", to)
    BY <1>9 DEF Apply, ApplySaved, Quiet, files
  <2>2. /\ {"sync", "owed", "pending"} \subseteq DOMAIN to
        /\ to.owed = mem[p].owed /\ to.graph = mem[p].graph
        /\ to.dropped = mem[p].dropped /\ to.deferred = mem[p].deferred
        /\ to.pending = {0} \/ (to.pending = mem[p].pending /\ Imported(saved) \subseteq state)
    BY <1>a
  <2> HIDE DEF to
  <2>3. OnlyMoves(p) /\ mem'[p] = to /\ pc'[p] = "manifest"
    BY <1>a, <2>1 DEF Goto, OnlyMoves
  <2>4. PendingTargets(p)' = {}
    BY <1>0, <2>1, <2>2, <2>3 DEF Accounts, Deciding, PendingTargets, Captured
  <2>5. PendingTargets(p) = {} \/ to.pending = {0}
    BY <1>0, <2>1, <2>2 DEF Accounts, Deciding, PendingTargets, Captured
  <2>6. Cardinality({}) = 0 /\ Cardinality({}) <= 0
    BY FS_EmptySet
  <2>7. \A n \in to.pending : Cardinality({}) <= n
    BY <1>0, <2>1, <2>2, <2>5, <2>6 DEF Accounts, Counts, Deciding
  <2>8. Accounts(p)'
    BY <1>0, <2>2, <2>3, <2>4, <2>7 DEF Accounts, Counts, Unplanned, Removing, Deciding
  <2> QED BY <1>c, <2>1, <2>3, <2>8
<1>10. ASSUME NEW p \in Runs, WindowUnreadable(p) \/ PlanWindow(p)
       PROVE  ReportInv'
  <2>1. /\ UNCHANGED <<manifest, state>> /\ pc[p] = "window"
    BY <1>10 DEF WindowUnreadable, PlanWindow, SavePlan, Quiet, files
  <2>2. OnlyMoves(p) /\ SameReport(p) /\ {"sync", "owed", "pending"} \subseteq DOMAIN mem'[p]
    BY <1>a, <1>10, ZenonT(40) DEF WindowUnreadable, PlanWindow, Goto, OnlyMoves, SameReport
  <2>3. PendingTargets(p)' = PendingTargets(p)
    BY <2>1, <2>2 DEF PendingTargets, Captured, SameReport
  <2>4. PendingTargets(p) \subseteq mem[p].todo \cup mem[p].chunk \cup mem[p].owed
    BY <1>0, <2>1 DEF Accounts
  <2>5. \A c \in Chunks(p) : c \subseteq Objs /\ (mem[p].chunk # {} => c = mem[p].chunk)
    BY <1>0 DEF Chunks, InScope
  <2>6. CASE WindowUnreadable(p)
    <3>1. PICK c \in Chunks(p) :
            Goto(p, "window", [mem[p] EXCEPT !.todo = @ \ c, !.chunk = {},
                                             !.retried = FALSE, !.owed = @ \cup c])
      BY <2>6 DEF WindowUnreadable
    <3>2. /\ pc'[p] = "window" /\ mem'[p].todo = mem[p].todo \ c /\ mem'[p].chunk = {}
          /\ mem'[p].owed = mem[p].owed \cup c
      BY <1>a, <3>1 DEF Goto
    <3>3. mem'[p].owed \subseteq Objs
      BY <1>0, <2>5, <3>2 DEF Accounts
    <3>4. PendingTargets(p) \subseteq mem'[p].todo \cup mem'[p].chunk \cup mem'[p].owed
      BY <2>4, <2>5, <3>2
    <3>5. Accounts(p)'
      BY <2>2, <2>3, <3>2, <3>3, <3>4 DEF Accounts, Unplanned, Removing, Deciding
    <3> QED BY <1>c, <2>1, <2>2, <3>5
  <2>7. CASE PlanWindow(p)
    <3>1. PICK c \in Chunks(p) :
            /\ Failing(c) = {} /\ SavePlan(c)
            /\ Goto(p, "act", [mem[p] EXCEPT !.chunk = c, !.todo = @ \ c])
      BY <2>7 DEF PlanWindow
    <3>2. /\ pc'[p] = "act" /\ mem'[p].todo = mem[p].todo \ c /\ mem'[p].chunk = c
          /\ mem'[p].owed = mem[p].owed /\ saved' = PlanOf(c)
      BY <1>a, <3>1 DEF Goto, SavePlan
    <3>3. PendingTargets(p) \subseteq mem'[p].todo \cup mem'[p].chunk \cup mem'[p].owed
      BY <2>4, <2>5, <3>2
    <3>4. c \cap PendingTargets(p) \subseteq Imported(PlanOf(c))
      BY <1>0, <2>1, <3>1, LeftIsImported DEF Early
    <3>5. mem'[p].chunk \cap PendingTargets(p)' \subseteq Imported(saved)'
      BY <2>3, <3>2, <3>4 DEF Imported
    <3>6. Accounts(p)'
      BY <1>0, <2>2, <2>3, <3>2, <3>3, <3>5 DEF Accounts, Unplanned, Removing, Deciding
    <3> QED BY <1>c, <2>1, <2>2, <3>6
  <2> QED BY <1>10, <2>6, <2>7
<1>11. ASSUME NEW p \in Runs, ApplyWindow(p) \/ SkipWindow(p) \/ DeferWindow(p)
       PROVE  ReportInv'
  <2>1. /\ UNCHANGED manifest /\ pc[p] = "act" /\ state \subseteq state'
    BY <1>11 DEF ApplyWindow, SkipWindow, DeferWindow, ApplySaved, Untouched, Quiet, files
  <2>2. /\ OnlyMoves(p) /\ {"sync", "owed", "pending"} \subseteq DOMAIN mem'[p]
        /\ mem'[p].graph = mem[p].graph /\ mem'[p].dropped = mem[p].dropped
        /\ mem'[p].todo = mem[p].todo /\ pc'[p] = "window"
    BY <1>a, <1>11, ZenonT(40) DEF ApplyWindow, SkipWindow, DeferWindow, Close, Goto, OnlyMoves
  <2>3. Racy \subseteq Objs /\ mem[p].chunk \subseteq Objs /\ mem[p].owed \subseteq Objs
    BY <1>0 DEF Racy, Updates, KitType, InScope, Accounts
  <2>4. /\ PendingTargets(p) \subseteq mem[p].todo \cup mem[p].chunk \cup mem[p].owed
        /\ mem[p].chunk \cap PendingTargets(p) \subseteq Imported(saved)
    BY <1>0, <2>1 DEF Accounts
  <2>5. /\ mem'[p].owed \subseteq Objs
        /\ PendingTargets(p)' \subseteq mem'[p].todo \cup mem'[p].chunk \cup mem'[p].owed
    <3>1. CASE ApplyWindow(p)
      <4>1. /\ mem'[p].owed = mem[p].owed /\ mem'[p].deferred = mem[p].deferred
            /\ Imported(saved) \subseteq state'
        BY <1>a, <3>1 DEF ApplyWindow, ApplySaved, Close, Goto
      <4>2. PendingTargets(p)' \subseteq PendingTargets(p) \ Imported(saved)
        BY <2>1, <2>2, <4>1 DEF PendingTargets, Captured
      <4> QED BY <2>2, <2>3, <2>4, <4>1, <4>2
    <3>2. CASE SkipWindow(p)
      <4>1. /\ mem'[p].owed = mem[p].owed \cup mem[p].chunk
            /\ mem'[p].deferred = mem[p].deferred
        BY <1>a, <3>2 DEF SkipWindow, Close, Goto
      <4>2. PendingTargets(p)' \subseteq PendingTargets(p)
        BY <2>1, <2>2, <4>1 DEF PendingTargets, Captured
      <4> QED BY <2>2, <2>3, <2>4, <4>1, <4>2
    <3>3. CASE DeferWindow(p)
      <4>1. /\ mem'[p].owed = mem[p].owed \cup Racy /\ mem'[p].chunk = mem[p].chunk \ Racy
            /\ mem'[p].deferred = mem[p].deferred \cup Racy
        BY <1>a, <3>3 DEF DeferWindow, Goto
      <4>2. PendingTargets(p)' \subseteq PendingTargets(p)
        BY <2>1, <2>2, <4>1 DEF PendingTargets, Captured
      <4> QED BY <2>2, <2>3, <2>4, <4>1, <4>2
    <3> QED BY <1>11, <3>1, <3>2, <3>3
  <2>6. Accounts(p)'
    BY <2>2, <2>5 DEF Accounts, Unplanned, Removing, Deciding
  <2> QED BY <1>c, <2>1, <2>2, <2>6
<1>12. ASSUME NEW p \in Runs, WindowsDone(p)
       PROVE  ReportInv'
  <2>1. /\ UNCHANGED <<manifest, state>> /\ pc[p] = "window"
        /\ mem[p].todo \cup mem[p].chunk = {}
    BY <1>12 DEF WindowsDone, Untouched, Quiet, files
  <2>2. /\ OnlyMoves(p) /\ SameReport(p) /\ {"sync", "owed", "pending"} \subseteq DOMAIN mem'[p]
        /\ mem'[p].owed = mem[p].owed /\ pc'[p] = "manifest"
        /\ mem'[p].pending = {Cardinality(mem[p].owed)}
    BY <1>a, <1>12 DEF WindowsDone, Goto, OnlyMoves, SameReport
  <2>3. PendingTargets(p)' = PendingTargets(p)
    BY <2>1, <2>2 DEF PendingTargets, Captured, SameReport
  <2>4. mem[p].owed \in SUBSET Objs /\ PendingTargets(p) \subseteq mem[p].owed
    BY <1>0, <2>1 DEF Accounts
  <2>5. Counts(p)'
    BY <2>2, <2>3, <2>4, FewerCount DEF Counts
  <2>6. Accounts(p)'
    BY <2>2, <2>4, <2>5 DEF Accounts, Unplanned, Removing, Deciding
  <2> QED BY <1>c, <2>1, <2>2, <2>6
<1>13. ASSUME NEW p \in Runs, Finish(p) \/ GiveUp(p) \/ BreakOff(p)
       PROVE  ReportInv'
  <2>1. /\ pc[p] # "idle" /\ OnlyMoves(p) /\ pc'[p] = "idle" /\ mem'[p] = Fresh
    BY <1>a, <1>13 DEF Finish, GiveUp, BreakOff, Leave, OnlyMoves
  <2>2. Accounts(p)'
    BY <2>1 DEF Accounts, Fresh, Unknown, Removing, Deciding
  <2>3. CASE GiveUp(p) \/ BreakOff(p)
    BY <1>c, <2>1, <2>2, <2>3 DEF GiveUp, BreakOff, files
  <2>4. CASE Finish(p)
    <3>1. /\ manifest'.pending = Captured(p) \ state /\ manifest'.deferred = mem[p].deferred
          /\ manifest'.said = mem[p].pending /\ pc[p] = "manifest"
      BY <2>4 DEF Finish
    <3>2. manifest'.pending \ manifest'.deferred = PendingTargets(p)
      BY <3>1 DEF PendingTargets
    <3>3. PendingIsReported'
      BY <1>0, <3>1, <3>2 DEF Accounts, Counts, PendingIsReported
    <3> QED BY <1>0, <2>1, <2>2, <3>3, OthersAccount DEF ReportInv
  <2> QED BY <1>13, <2>3, <2>4
<1>14. CASE UNCHANGED <<pc, mem, state, saved, manifest>>
  BY <1>14 DEF ReportInv, PendingIsReported, Accounts, Counts, PendingTargets, Captured
<1>15. ASSUME NEW p \in Runs, Step(p) \/ Start(p) \/ PlanThrottled(p) \/ Fault(p) \/ Kill(p)
       PROVE  ReportInv'
  BY <1>1, <1>2, <1>3, <1>4, <1>5, <1>6, <1>7, <1>8, <1>9, <1>10, <1>11, <1>12, <1>13, <1>15
     DEF Step, Review, Compare, Materialize, Fault, Kill
<1> QED BY <1>14, <1>15 DEF Next, Edit, Upgrade, vars, files, kit

\* Whatever a run heals, defers, retries or gives up, RUN_SUCCESS never counts
\* fewer pending imports than its manifest lists, the deferred ones apart
\* (_materialize_state_batched, RunResult.pending_imports).
THEOREM PendingIsCounted == Spec => []PendingIsReported
<1>1. Init => ReportInv
  BY DEF Init, ReportInv, PendingIsReported, Accounts, Fresh, Unknown, Unplanned, Removing,
     Deciding
<1>2. ReportInv /\ CoverageInv /\ TypeInv /\ TypeInv' /\ [Next]_vars => ReportInv'
  BY ReportStep
<1>3. ReportInv => PendingIsReported
  BY DEF ReportInv
<1> QED BY <1>1, <1>2, <1>3, CoverageInvHolds, TypeInvHolds, PTL DEF Spec

=============================================================================

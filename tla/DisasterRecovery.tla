-------------------------- MODULE DisasterRecovery --------------------------
(***************************************************************************)
(* The five commands that write to an organization (cli.py: _wipe_org,     *)
(* _restore, _heal, _replay_gaps, _rebuild), each with the component it    *)
(* drives.  "pc" is where a command is: its name, then its name and the    *)
(* step it is about to take.                                               *)
(***************************************************************************)
EXTENDS CommandProcess, OrgWiper, RestoreJournal, GapReplayer, Healer

CONSTANTS
  Objects,   \* what a restore creates, in the order of its plan
  Hardware,  \* the objects among them that a drill holds back
  Organizations, \* a restore may be pointed at
  Populated  \* organizations in use: they hold networks nobody restored

\* A plan is a list; a sanitized snapshot names no organization there is.
ASSUME RestoreAssumption ==
  /\ Objects \in Seq({Objects[i] : i \in DOMAIN Objects})
  /\ Hardware \subseteq {Objects[i] : i \in DOMAIN Objects}
  /\ Source # "pseudonym"
  /\ \A s \in DOMAIN Sessions : \A l \in Sessions[s].lines :
       l.target \in Organizations /\ l.only \subseteq Selectors

VARIABLES
  content,   \* organization -> what restores created there
  losses,    \* bound of LoseObject
  rebuildPlan \* the saved plan of a rebuild: "none", "changes" or "no changes"

restoreVars == <<journalVars, content, losses>>

ObjectSet == {Objects[i] : i \in DOMAIN Objects}

-----------------------------------------------------------------------------
(* The snapshot a line names: what it records of its origin.               *)

\* A sanitized snapshot records a pseudonym.
RecordedOrgs(snapshot) ==
  CASE snapshot = "sanitized" -> {"pseudonym"}
    [] snapshot = "several"   -> {Source, "other"}
    [] OTHER                  -> {Source}

RecordedOrg == CHOOSE o \in RecordedOrgs(line.snapshot) : TRUE

Sanitized(snapshot) == snapshot = "sanitized"

-----------------------------------------------------------------------------
(* _wipe_org.                                                              *)

WipeOrg ==
  /\ pc = "wipe_org"
  /\ \/ /\ Session.key
        /\ NewDispatcher(Session.channels) /\ Goto("wipe_org preview") /\ BeginPreview
     \/ Fails(1) /\ UNCHANGED wiperVars

\* A refusal or an error of the preview ends the command.
WipePreview ==
  /\ pc = "wipe_org preview"
  /\ \/ CallPreview(line.named) /\ Proceeds(pc)
     \/ stage = "refused" /\ Fails(2) /\ Forget
     \/ stage = "raised" /\ Fails(1) /\ Forget
     \/ /\ stage = "shown"
        /\ IF Given("confirm") THEN BeginExecute /\ Proceeds("wipe_org execute")
           ELSE Forget /\ Fails(0)

WipeExecute ==
  /\ pc = "wipe_org execute"
  /\ WiperStep(line.named)
  /\ wrote' = IF orgVars' = orgVars THEN wrote ELSE wrote \cup {"drill"}
  /\ UNCHANGED <<session, commands, line, pc, exit, left, pending, failures, skips, alertVars>>

WipeExecuted ==
  /\ pc = "wipe_org execute"
  /\ \/ stage = "refused" /\ Leave(2, {"work"}) /\ UNCHANGED alertVars
     \/ stage = "raised" /\ ReportFault
     \/ stage = "result" /\ Report("ORG_WIPE_EXECUTED", Severity(~failed /\ wiped),
                                   IF wiped THEN 0 ELSE 1, WorkLeft(exists))
  /\ Forget

WipeStep == WipeOrg \/ WipePreview \/ WipeExecute \/ WipeExecuted

-----------------------------------------------------------------------------
(* _restore, with the executor reduced to what it writes and journals.     *)

Restore == pc = "restore" /\ BuildDispatcher("restore load") /\ UNCHANGED restoreVars

\* What a snapshot, a target or a serial map is refused for.
RestoreRefusal ==
  \/ Cardinality(RecordedOrgs(line.snapshot)) > 1
  \/ line.snapshot = "partial"
  \/ line.target \in RecordedOrgs(line.snapshot)

RestoreLoad ==
  /\ pc = "restore load"
  /\ \/ Fails(1)
     \/ (RestoreRefusal \/ Given("serial_map")) /\ Fails(2)
     \/ /\ ~RestoreRefusal
        /\ CASE ~Given("confirm") -> Fails(0)
             [] Given("confirm") /\ ~Session.key -> Fails(1)
             [] OTHER -> Proceeds("restore journal")
  /\ UNCHANGED restoreVars

\* A sanitized snapshot cannot prove that the target is not its source: a
\* fresh restore of one counts the target's networks first.
Fresh == ~\E f \in memory' : f.kind \in {"attempt", "done"}

RestoreJournalOpens ==
  /\ pc = "restore journal"
  /\ IF Unreadable THEN Fails(2) /\ UNCHANGED journalVars
     ELSE /\ Load
          /\ Goto(IF Sanitized(line.snapshot) /\ Fresh THEN "restore count" ELSE "restore bind")
          /\ UNCHANGED alertVars
  /\ UNCHANGED <<content, losses>>

\* _target_network_count.
Empty(org) == org \notin Populated /\ content[org] = {}

RestoreCount ==
  /\ pc = "restore count"
  /\ \/ Fails(1) /\ DieIdle
     \/ ~Empty(line.target) /\ Fails(2) /\ DieIdle
     \/ Empty(line.target) /\ Proceeds("restore bind") /\ UNCHANGED journalVars
  /\ UNCHANGED <<content, losses>>

RestoreClaim == <<line.target, RecordedOrg>>

RestoreBind ==
  /\ pc = "restore bind"
  /\ IF BoundElsewhere(RestoreClaim) THEN Fails(2) /\ DieIdle
     ELSE /\ pc' = "restore execute" /\ pending' = ObjectSet
          /\ IF memory = {} THEN Remember(Record("bound", RestoreClaim))
             ELSE UNCHANGED journalVars
          /\ UNCHANGED <<session, commands, line, exit, wrote, left, failures, skips, alertVars>>
  /\ UNCHANGED <<content, losses>>

\* What is not there although the command is done: skipped on purpose, or undone.
LeftOut(absent, skipped) ==
  IF absent = {} THEN {} ELSE IF absent \subseteq skipped THEN {"skipped"} ELSE {"work"}

\* The plan's next object.
NextIs(k) == k \in pending /\ \A i, j \in DOMAIN Objects :
              Objects[j] = k /\ i < j => Objects[i] \notin pending

Journaled(kind, k) == Record(kind, k) \in memory
Present(k) == k \in content[line.target]

\* A drill leaves hardware out, whatever the journal says of it.
HeldBack(k) == Given("skip_claims") /\ k \in Hardware

\* A journaled object is probed; what is not, or found absent, is due.
Resumed(k) ==
  pc = "restore execute" /\ NextIs(k) /\ ~HeldBack(k) /\ Journaled("done", k)

Due(k) ==
  /\ NextIs(k) /\ ~HeldBack(k)
  /\ \/ pc = "restore due"
     \/ pc = "restore execute" /\ ~Journaled("done", k)

\* The steps of one object: its probe or reconciliation, the attempt, the
\* create, the mapping, the completion.
RestoreFrame == UNCHANGED <<session, commands, line, exit, left, alertVars, losses>>

\* On with the next object.
Done(k) == pc' = "restore execute" /\ pending' = pending \ {k}
Skipped(k) == Done(k) /\ skips' = skips \cup {k} /\ UNCHANGED failures
Failed(k) == Done(k) /\ failures' = failures \cup {k} /\ UNCHANGED skips

HoldBack(k) ==
  /\ pc = "restore execute" /\ NextIs(k) /\ HeldBack(k)
  /\ Skipped(k)
  /\ UNCHANGED <<wrote, journalVars, content>> /\ RestoreFrame

\* The resume skip: the probe found it, or could not tell.
AlreadyDone(k) ==
  /\ Resumed(k) /\ Skipped(k)
  /\ UNCHANGED <<wrote, journalVars, content>> /\ RestoreFrame

\* A completed create without a mapping, found: both are journaled again.
Recover(k) ==
  /\ Resumed(k) /\ Present(k) /\ ~Journaled("map", k)
  /\ pc' = "restore record"
  /\ UNCHANGED <<pending, failures, skips, wrote, journalVars, content>> /\ RestoreFrame

\* _forget_stale_identity: a completed object is gone again.
ForgetStale(k) ==
  /\ Resumed(k) /\ ~Present(k)
  /\ pc' = "restore due"
  /\ IF Journaled("map", k) THEN Remember(Record("unmap", k)) ELSE UNCHANGED journalVars
  /\ UNCHANGED <<pending, failures, skips, wrote, content>> /\ RestoreFrame

\* Not sent: a parent failed or was held back, a reference is dead.
NotSent(k) ==
  /\ Due(k)
  /\ \/ failures \cup (skips \cap Hardware) # {} /\ Skipped(k)
     \/ Failed(k)
  /\ UNCHANGED <<wrote, journalVars, content>> /\ RestoreFrame

\* record_attempt is silent about what it has journaled before.
Attempt(k) ==
  /\ Due(k)
  /\ pc' = "restore create"
  /\ IF Journaled("attempt", k) THEN UNCHANGED journalVars
     ELSE Remember(Record("attempt", k))
  /\ UNCHANGED <<pending, failures, skips, wrote, content>> /\ RestoreFrame

\* _reconcile_existing: an attempted object that is found is adopted.
Reconcile(k) ==
  /\ Due(k) /\ Journaled("attempt", k) /\ Present(k)
  /\ pc' = "restore record"
  /\ UNCHANGED <<pending, failures, skips, wrote, journalVars, content>> /\ RestoreFrame

Creates(k) ==
  /\ content' = [content EXCEPT ![line.target] = @ \cup {k}]
  /\ wrote' = wrote \cup {line.target}

\* The answer, or none (_salvage_failure: a refusal may be a skip).
Create(k) ==
  /\ pc = "restore create" /\ NextIs(k)
  /\ \/ Creates(k) /\ pc' = "restore record" /\ UNCHANGED <<pending, failures, skips>>
     \/ Creates(k) /\ Failed(k)
     \/ (Skipped(k) \/ Failed(k)) /\ UNCHANGED <<content, wrote>>
  /\ UNCHANGED journalVars /\ RestoreFrame

\* _bookkeep_success: two records.
RecordMapping(k) ==
  /\ pc = "restore record" /\ NextIs(k) /\ ~Journaled("map", k)
  /\ Remember(Record("map", k))
  /\ UNCHANGED <<pc, pending, failures, skips, wrote, content>> /\ RestoreFrame

RecordDone(k) ==
  /\ pc = "restore record" /\ NextIs(k) /\ Journaled("map", k)
  /\ Remember(Record("done", k))
  /\ Done(k)
  /\ UNCHANGED <<failures, skips, wrote, content>> /\ RestoreFrame

ObjectStep(k) ==
  \/ HoldBack(k) \/ AlreadyDone(k) \/ Recover(k) \/ ForgetStale(k)
  \/ NotSent(k) \/ Attempt(k) \/ Reconcile(k)
  \/ Create(k) \/ RecordMapping(k) \/ RecordDone(k)

Executing == {"restore execute", "restore due", "restore create", "restore record"}

\* What a process may die writing.
ObjectWriting(k) ==
  {r \in {Record(kind, k) : kind \in {"unmap", "attempt", "map", "done"}} :
     CASE r.kind = "unmap"   -> Resumed(k) /\ ~Present(k) /\ Journaled("map", k)
       [] r.kind = "attempt" -> Due(k) /\ ~Journaled("attempt", k)
       [] r.kind = "map"     -> pc = "restore record" /\ NextIs(k) /\ ~Journaled("map", k)
       [] r.kind = "done"    -> pc = "restore record" /\ NextIs(k) /\ Journaled("map", k)}

Writing ==
  IF pc = "restore bind" /\ memory = {} THEN {Record("bound", RestoreClaim)}
  ELSE UNION {ObjectWriting(k) : k \in ObjectSet}

\* Something escapes execute(), a journal write for one.
RestoreBreaks ==
  /\ pc \in Executing
  /\ ReportFault /\ DieIdle /\ UNCHANGED <<content, losses>>

RestoreExecuted ==
  /\ pc = "restore execute" /\ pending = {}
  /\ Report("RESTORE_EXECUTED", Severity(failures = {}), IF failures = {} THEN 0 ELSE 1,
            LeftOut(ObjectSet \ content[line.target], skips))
  /\ DieIdle /\ UNCHANGED <<content, losses>>

RestoreStep ==
  \/ Restore \/ RestoreLoad \/ RestoreJournalOpens \/ RestoreCount \/ RestoreBind
  \/ \E k \in ObjectSet : ObjectStep(k)
  \/ RestoreBreaks \/ RestoreExecuted

-----------------------------------------------------------------------------
(* _heal.                                                                  *)

Heal ==
  /\ pc = "heal"
  /\ \/ Session.key /\ BuildDispatcher("heal load")
     \/ ~Session.key /\ Fails(1)
  /\ UNCHANGED healVars

\* The inverse of a restore's interlock: the organization is the snapshot's.
HealRefusal == Sanitized(line.snapshot) \/ OrgId(line.orgs) \notin RecordedOrgs(line.snapshot)

HealLoad ==
  /\ pc = "heal load"
  /\ \/ Fails(1) /\ UNCHANGED healVars
     \/ HealRefusal /\ Fails(2) /\ UNCHANGED healVars
     \/ /\ ~HealRefusal
        /\ BeginHeal(IF Given("only") THEN line.only ELSE {})
        /\ Proceeds("heal plan")

HealPlans == pc = "heal plan" /\ HealStep /\ Goto(pc) /\ UNCHANGED alertVars

HealPlanned ==
  /\ pc = "heal plan"
  /\ \/ healStep = "refused" /\ Fails(2) /\ ForgetHeal
     \/ /\ healStep = "chosen"
        /\ IF chosen # {} /\ Given("confirm")
           THEN Proceeds("heal journal") /\ UNCHANGED healVars
           ELSE Fails(0) /\ ForgetHeal

\* heal-journal.jsonl: unreadable, another organization's, or this one's.
HealJournalOpens ==
  /\ pc = "heal journal"
  /\ \/ Fails(2) /\ ForgetHeal
     \/ /\ pc' = "heal execute" /\ pending' = chosen
        /\ UNCHANGED <<session, commands, line, exit, wrote, left, failures, skips>>
        /\ UNCHANGED <<alertVars, healVars>>

\* The executor's next object, in whatever order: recreated, or not, or
\* without an answer; or skipped, because the read that must come before the
\* write could not tell that it is absent, or for its parent, or its template.
Recreate(key) ==
  /\ pc = "heal execute" /\ pending # {} /\ key = CHOOSE k \in pending : TRUE
  /\ pending' = pending \ {key}
  /\ \/ /\ live' = live \cup {[key |-> key, class |-> "write"]}
        /\ wrote' = wrote \cup {OrgId(line.orgs)}
        /\ failures' \in {failures, failures \cup {key}} /\ UNCHANGED skips
     \/ /\ failures' = failures \cup {key} /\ UNCHANGED <<skips, live, wrote>>
     \/ /\ skips' = skips \cup {key} /\ UNCHANGED <<failures, live, wrote>>
  /\ UNCHANGED <<healStep, missing, unbound, surviving, only, chosen, frontier>>
  /\ UNCHANGED <<session, commands, line, pc, exit, left, alertVars>>

HealBreaks == pc = "heal execute" /\ ReportFault /\ ForgetHeal

Healed ==
  /\ pc = "heal execute" /\ pending = {}
  /\ Report("HEAL_EXECUTED", Severity(failures = {}), IF failures = {} THEN 0 ELSE 1,
            LeftOut(chosen \ LiveAssetKeys, skips))
  /\ ForgetHeal

HealCommandStep ==
  \/ Heal \/ HealLoad \/ HealPlans \/ HealPlanned \/ HealJournalOpens
  \/ \E key \in KeysOf(Snapshot) : Recreate(key)
  \/ HealBreaks \/ Healed

-----------------------------------------------------------------------------
(* _replay_gaps.                                                           *)

\* RuntimeConfig.org_id, else the snapshot's organization.
ReplayTarget ==
  IF OrgId(line.orgs) # "none" THEN OrgId(line.orgs) ELSE RecordedOrg

ReplayRefusal ==
  \/ line.snapshot = "partial"
  \/ Cardinality(RecordedOrgs(line.snapshot)) > 1
  \/ Given("expect_org") /\ line.expect # ReplayTarget

ReplayGaps ==
  /\ pc = "replay_gaps"
  /\ \/ Fails(1)
     \/ IF ReplayRefusal THEN Fails(2) ELSE BuildDispatcher("replay_gaps plan")
  /\ UNCHANGED replayVars

ReplayPlans ==
  /\ pc = "replay_gaps plan"
  /\ LET planned == PlanReplay(Sanitized(line.snapshot)) IN
     CASE planned = {} \/ ~Given("confirm") -> Fails(0) /\ UNCHANGED replayVars
       [] planned # {} /\ Given("confirm") /\ ~Session.key -> Fails(1) /\ UNCHANGED replayVars
       [] OTHER -> /\ BeginReplay(ReplayTarget, Sanitized(line.snapshot))
                   /\ Proceeds("replay_gaps execute")

ReplayExecutes ==
  /\ pc = "replay_gaps execute"
  /\ ReplayStep
  /\ wrote' = IF <<copies, hits>>' = <<copies, hits>> THEN wrote ELSE wrote \cup {target}
  /\ UNCHANGED <<session, commands, line, pc, exit, left, pending, failures, skips, alertVars>>

Unreplayed ==
  \E i \in PlanReplay(sanitized) : Assets[i].name \notin results.executed \cup results.skipped

ReplayExecuted ==
  /\ pc = "replay_gaps execute"
  /\ \/ step = "raised" /\ Fails(1)
     \/ step = "refused" /\ Fails(2)
     \/ /\ step = "done"
        /\ Report("GAP_REPLAY_EXECUTED", Severity(results.failed = {}),
                  IF results.failed = {} THEN 0 ELSE 1, WorkLeft(Unreplayed))
  /\ ForgetReplay

ReplayCommandStep == ReplayGaps \/ ReplayPlans \/ ReplayExecutes \/ ReplayExecuted

-----------------------------------------------------------------------------
(* _rebuild, and what terraform_runner.py does for it.                     *)

\* resolve_rebuild_organization: the organization of the kit, when the
\* working directory names one.
RebuildRefusal == Given("expect_org") /\ line.kit # line.expect

Rebuild ==
  /\ pc = "rebuild"
  /\ \/ Fails(1)
     \/ /\ Session.key /\ line.kit # "no kit"
        /\ IF RebuildRefusal THEN Fails(2) ELSE BuildDispatcher("rebuild plan")
  /\ UNCHANGED rebuildPlan

\* plan_preview: a plan that fails leaves nothing saved.
RebuildPlans ==
  /\ pc = "rebuild plan"
  /\ \/ Fails(1) /\ UNCHANGED rebuildPlan
     \/ rebuildPlan' \in {"changes", "no changes"} /\ Proceeds("rebuild shown")

\* discard_rebuild_plan, then the outage of an alert this command never sent.
RebuildShown ==
  /\ pc = "rebuild shown"
  /\ IF rebuildPlan = "changes" /\ Given("confirm")
     THEN Proceeds("rebuild apply") /\ UNCHANGED rebuildPlan
     ELSE Fails(AlertOutageExit(failedEvents)) /\ rebuildPlan' = "none"

\* rebuild_apply: the saved plan, consumed however it ends; an apply that
\* fails may have written.
RebuildApplies ==
  /\ pc = "rebuild apply" /\ rebuildPlan # "none"
  /\ rebuildPlan' = "none"
  /\ pc' \in {"rebuild applied", "rebuild failed"}
  /\ \/ wrote' = wrote \cup {line.kit}
     \/ pc' = "rebuild failed" /\ UNCHANGED wrote
  /\ UNCHANGED <<session, commands, line, exit, left, pending, failures, skips, alertVars>>

RebuildApplied ==
  /\ \/ /\ pc = "rebuild applied"
        /\ Report("REBUILD_EXECUTED", "info", 0, {})
     \/ /\ pc = "rebuild failed"
        /\ Report("REBUILD_EXECUTED", "critical", 1, {"work"})
  /\ UNCHANGED rebuildPlan

RebuildStep ==
  Rebuild \/ RebuildPlans \/ RebuildShown \/ RebuildApplies \/ RebuildApplied

=============================================================================

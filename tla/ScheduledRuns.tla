---------------------------- MODULE ScheduledRuns ----------------------------
(***************************************************************************)
(* The runs a scheduler starts (cli.py: the pipeline of one organization   *)
(* or of several, and the snapshot export), and the read-only helpers: how *)
(* what happens in a run becomes alerts and the one exit code the          *)
(* scheduler sees.  What the pipeline does inside is PipelineOrchestrator, *)
(* here one action with its outcomes.                                      *)
(***************************************************************************)
EXTENDS CommandProcess

VARIABLES
  codes  \* exit codes of the organizations done in this run

\* _EXIT_SEVERITY, _aggregate_exit.
ExitSeverity == <<1, 2, 4, 3, 5>>

\* Mutant: the highest code wins.
AggregateHighest(found) ==
  IF found = {} THEN 0 ELSE CHOOSE c \in found : \A d \in found : d <= c

AggregateExit(found) ==
  LET ranks == {i \in DOMAIN ExitSeverity : ExitSeverity[i] \in found} IN
  IF ranks = {} THEN 0
  ELSE ExitSeverity[CHOOSE i \in ranks : \A j \in ranks : i <= j]

\* _coverage_gap_exit: gaps count only for who asked to fail on them.
GapExit(gaps) == IF gaps /\ Given("fail_on_gaps") THEN 3 ELSE 0

-----------------------------------------------------------------------------
(* main(): the start of a run that is not a disaster-recovery action.      *)

RunFor == IF line.orgs = {} THEN {"snapshot"} ELSE line.orgs

Runs == {"pipeline", "export"}

NoKey == ~Session.key /\ (Given("sync") \/ ~Given("dump_path"))

RunStarts ==
  /\ pc \in Runs
  /\ \/ Fails(1) /\ UNCHANGED codes
     \/ /\ NewDispatcher(Session.channels)
        /\ codes' = {}
        /\ pc' = (IF NoKey THEN "no key" ELSE IF pc = "export" THEN "run export" ELSE "run")
        /\ pending' = RunFor
        /\ UNCHANGED <<session, commands, line, exit, wrote, left, failures, skips>>

RunRefused ==
  /\ pc = "no key"
  /\ Report("PROCESSING_FAULT", "critical", 1, {"fault"})
  /\ UNCHANGED codes

-----------------------------------------------------------------------------
(* _run_org_pipeline, _export_snapshot: one organization, its code and     *)
(* what it leaves.                                                         *)

OrgDone(org, code, remains) ==
  /\ org \in pending
  /\ pending' = pending \ {org}
  /\ codes' = codes \cup {code}
  /\ left' = left \cup remains
  /\ UNCHANGED <<session, commands, line, pc, exit, wrote, failures, skips>>

Alerts(event, severity) == \E down \in SUBSET Channels : Dispatch(event, severity, down)

\* A baseline that cannot be one, a terraform binary that cannot run, a
\* fault of the start, of the export or of the pipeline: announced once,
\* here or by the orchestrator.
Fault(org) ==
  /\ pc \in {"run", "run export"}
  /\ Alerts("PROCESSING_FAULT", "critical") /\ OrgDone(org, 1, {"fault"})

\* The operator's input, or another run in the workdir: a refusal, and no
\* alert.  A partial snapshot is never materialized.
PartialRefused == line.snapshot = "partial" /\ (Given("sync") \/ Given("confirm_deletions"))

Refused(org) ==
  /\ pc \in {"run", "run export"}
  /\ OrgDone(org, 2, {"work"}) /\ UNCHANGED alertVars

Exported(org, gaps) ==
  /\ pc = "run export"
  /\ Alerts("RUN_SUCCESS", "info")
  /\ OrgDone(org, GapExit(gaps), IF gaps /\ Given("fail_on_gaps") THEN {"gaps"} ELSE {})

\* A summary: the apply of a sync withheld, gaps, or neither.
Orchestrated(org, aborted, gaps) ==
  /\ pc = "run" /\ ~PartialRefused
  /\ aborted => Given("sync")
  /\ Alerts(IF aborted THEN "DRIFT_DETECTED" ELSE "RUN_SUCCESS", Severity(~aborted))
  /\ OrgDone(org, IF aborted THEN 4 ELSE GapExit(gaps),
       (IF aborted THEN {"apply"} ELSE {})
         \cup (IF gaps /\ Given("fail_on_gaps") THEN {"gaps"} ELSE {}))

\* _run_multi_org and the end of main(): the most severe code, or the
\* outage of the channels.
RunEnds ==
  /\ pc \in {"run", "run export"} /\ pending = {}
  /\ LET code == AggregateExit(codes) IN
     Leave(IF code # 0 THEN code ELSE AlertOutageExit(failedEvents), left)
  /\ UNCHANGED <<alertVars, codes>>

-----------------------------------------------------------------------------
(* --list-orgs, --diff-networks, --check, --estimate: they read, print and *)
(* say 0, or 1 for a fault and 2 for a pattern that names no network.      *)

ReadOnly(mode, found) ==
  /\ pc = mode
  /\ \E code \in found : Fails(code)
  /\ UNCHANGED codes

ListOrgs == ReadOnly("list_orgs", {0, 1})
DiffNetworks == ReadOnly("diff_networks", {0, 1, 2})
RunPreflight == ReadOnly("check", {0, 1})
RunEstimate == ReadOnly("estimate", {0, 1})

RunStep ==
  \/ RunStarts \/ RunRefused \/ RunEnds
  \/ ListOrgs \/ DiffNetworks \/ RunPreflight \/ RunEstimate
  \/ \E org \in pending :
       \/ Fault(org) \/ Refused(org)
       \/ \E gaps \in BOOLEAN :
            Exported(org, gaps) \/ \E aborted \in BOOLEAN : Orchestrated(org, aborted, gaps)

=============================================================================

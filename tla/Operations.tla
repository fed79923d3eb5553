----------------------------- MODULE Operations -----------------------------
(***************************************************************************)
(* Sessions of meraki2tf commands in one working directory: each line is   *)
(* typed, refused or run to its exit code, or killed on the way, and the   *)
(* next one finds the organizations and the journal as the last one left   *)
(* them.  Meanwhile people claim devices, and delete what was restored.    *)
(***************************************************************************)
EXTENDS DisasterRecovery, ScheduledRuns

vars ==
  <<commandVars, alertVars, wiperVars, restoreVars, healVars, replayVars,
    rebuildPlan, codes>>

Init ==
  /\ CommandInit /\ WiperInit /\ NewJournal /\ HealInit
  /\ ReplayInit(Session.worlds)
  /\ content = [o \in Organizations |-> {}] /\ losses = 0
  /\ rebuildPlan = "none" /\ codes = {}

Enter ==
  /\ \E l \in Session.lines : Type(l)
  /\ UNCHANGED <<wiperVars, restoreVars, healVars, replayVars, rebuildPlan, codes>>

Wiping == WipeStep /\ UNCHANGED <<restoreVars, healVars, replayVars, rebuildPlan, codes>>
Restoring == RestoreStep /\ UNCHANGED <<wiperVars, healVars, replayVars, rebuildPlan, codes>>
Healing == HealCommandStep /\ UNCHANGED <<wiperVars, restoreVars, replayVars, rebuildPlan, codes>>
Replaying == ReplayCommandStep /\ UNCHANGED <<wiperVars, restoreVars, healVars, rebuildPlan, codes>>
Rebuilding == RebuildStep /\ UNCHANGED <<wiperVars, restoreVars, healVars, replayVars, codes>>
Running == RunStep /\ UNCHANGED <<wiperVars, restoreVars, healVars, replayVars, rebuildPlan>>

\* The process dies anywhere; a restore also in the append of a record.
Kill ==
  /\ Die
  /\ Forget /\ ForgetHeal /\ ForgetReplay
  /\ codes' = {} /\ rebuildPlan' = rebuildPlan
  /\ DieIdle \/ \E record \in Writing : DieWriting(record)
  /\ UNCHANGED <<content, losses>>

-----------------------------------------------------------------------------
(* What other people do.                                                   *)

\* Devices are claimed and unclaimed while a wipe looks at the organization.
ChangeDevices ==
  /\ stage # "idle"
  /\ \E d \in Devices : Claim(d) \/ Unclaim(d)
  /\ UNCHANGED <<commandVars, alertVars, restoreVars, healVars, replayVars, rebuildPlan, codes>>

\* An object that was restored is deleted, between two commands.
LoseObject ==
  /\ pc = "shell" /\ losses < Session.losses
  /\ losses' = losses + 1
  /\ \E o \in Organizations : \E k \in content[o] :
       content' = [content EXCEPT ![o] = @ \ {k}]
  /\ UNCHANGED <<commandVars, alertVars, wiperVars, journalVars, healVars, replayVars,
                 rebuildPlan, codes>>

Next ==
  \/ Enter \/ Wiping \/ Restoring \/ Healing \/ Replaying \/ Rebuilding \/ Running
  \/ Kill \/ ChangeDevices \/ LoseObject

Spec == Init /\ [][Next]_vars

-----------------------------------------------------------------------------
TypeOK ==
  /\ CommandTypeOK /\ WiperTypeOK /\ JournalTypeOK /\ HealTypeOK /\ ReplayTypeOK
  /\ content \in [Organizations -> SUBSET ObjectSet]
  /\ rebuildPlan \in {"none", "changes", "no changes"}

\* An operator who typed a flag gets what it says or a refusal: in a
\* disaster-recovery mode no flag, no organization and no action is accepted
\* and then ignored, and a config file has supplied neither an action nor
\* what it acts on (main: "an accepted-but-ignored flag is how an operator
\* comes to believe a scope, a second factor, or a baseline reset applied
\* when it did not").
FlagsHonoured == pc \in DR_ACTION_FLAGS => Honoured(line, pc)

\* A restore writes only where its line points, never into an organization
\* its snapshot was captured from, and only under a journal that says so on
\* disk, unless a kill has spoiled the file; a sanitized snapshot, which
\* cannot tell its source, only into an organization nobody uses, the resumed
\* runs included (_restore; bind).
RestoreStaysBound ==
  [][\A o \in Organizations :
       ~(content'[o] \subseteq content[o]) =>
         /\ o = line.target /\ o \notin RecordedOrgs(line.snapshot)
         /\ Spoiled \/ Record("bound", <<o, RecordedOrg>>) \in Durable
         /\ Sanitized(line.snapshot) => o \notin Populated]_content

\* The journal file, with its torn endings and what they cost, keeps the
\* promises of a set of facts (RestoreRecord): a run that resumes knows every
\* attempt and every completion of the runs before it, and whose they are;
\* only a kill between a record and its line end can cost it one of them.
Facts ==
  {Record("bound", claim) : claim \in Organizations \X {Source, "pseudonym"}}
    \cup {Record(kind, k) : kind \in {"attempt", "done", "map"}, k \in ObjectSet}

Promise ==
  INSTANCE RestoreRecord WITH facts <- Durable, spoiled <- Spoiled, open <- loaded

JournalImplementsRecord == Promise!RecordSpec

\* What the exit code says is so, whatever happened on the way and whoever
\* could be told: success means that nothing is left to do but what the run
\* skipped and reported, and that every alert reached a channel, 5 that only
\* the alert is missing, 3 that there are gaps
\* and 4 that an apply was withheld and nothing worse; a fault of a scheduled
\* run is announced and never outranked; and a command that wrote to an
\* organization has said so (_aggregate_exit, _alert_outage_exit, the ends of
\* the commands).
ExitTellsTheTruth ==
  pc = "shell" /\ exit \notin {-1, Killed} =>
    /\ exit = 0 => left \subseteq {"skipped"} /\ failedEvents = 0
    /\ exit = 5 => left \subseteq {"skipped"} /\ failedEvents > 0
    /\ exit = 3 => left = {"gaps"}
    /\ exit = 4 => "apply" \in left /\ left \subseteq {"apply", "gaps"}
    /\ "fault" \in left => exit = 1 /\ "PROCESSING_FAULT" \in announced
    /\ wrote # {} => announced # {}

\* What _restore and _heal say of their exit code: "exit 0 means 'clean', and
\* a snapshot object that never made it back into the organization does not
\* qualify".
CleanMeansDone == pc = "shell" /\ exit = 0 => left = {}

=============================================================================

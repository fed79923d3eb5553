-------------------------- MODULE OperationsProofs --------------------------
(***************************************************************************)
(* Every safety property of the sessions, for whatever is typed, in        *)
(* whatever order, with kills and other people in between.                 *)
(*                                                                         *)
(* Flags: a mode is entered at one place, where the line is read (Entered, *)
(* from AcceptedIsHonoured); every other step stays on its line or goes    *)
(* somewhere that is not the beginning of an action (Quiet).               *)
(* Wipes: a session implements WiperSpec (WipeHere).                       *)
(* Heals: HealInv, what each pass of the selection has reached so far.     *)
(* Restores: FileInv (the file reads as the facts of its lines) and        *)
(* RestoreInv (where the journal is bound, what of it is done).            *)
(* Replays: ReplayInv (what the mapped scopes are, what was looked up).    *)
(* Exit codes: TruthInv (what the running command has failed at so far is  *)
(* in codes, and what it wrote it has announced).                          *)
(* Types: SessionTypes.                                                    *)
(***************************************************************************)
EXTENDS Operations, CommandLineProofs, OrgWiperProofs, FiniteSetTheorems, SequenceTheorems

HonourInv == session \in DOMAIN Sessions /\ FlagsHonoured

Quiet ==
  /\ session' = session
  /\ pc' = "shell" \/ line' = line
  /\ pc' \notin DR_ACTION_FLAGS \/ UNCHANGED <<pc, line>>

LEMMA QuietKeeps ==
  ASSUME HonourInv, Quiet
  PROVE  HonourInv'
<1>1. CASE pc' \notin DR_ACTION_FLAGS
  BY <1>1 DEF HonourInv, Quiet, FlagsHonoured
<1>2. CASE UNCHANGED <<pc, line>>
  BY <1>2 DEF HonourInv, Quiet, FlagsHonoured, Honoured, IsTyped
<1> QED BY <1>1, <1>2 DEF Quiet

\* The line is read.
LEMMA Entered ==
  ASSUME HonourInv, NEW l \in Session.lines, Type(l)
  PROVE  HonourInv'
<1>1. session' = session
  BY DEF Type
<1>2. ASSUME pc' \in DR_ACTION_FLAGS
      PROVE  Honoured(line', pc')
  <2>1. /\ ~FileRefused(l) /\ line' = l
        /\ pc' = Mode(ConfigOf(l, Session.key))
    BY <1>2 DEF Type, DR_ACTION_FLAGS
  <2>2. l.typed \subseteq Flags
    BY SessionsAssumption DEF HonourInv, Session
  <2> QED BY <1>2, <2>1, <2>2, AcceptedIsHonoured
<1> QED BY <1>1, <1>2 DEF HonourInv, FlagsHonoured, Honoured, IsTyped

-----------------------------------------------------------------------------
(* The commands.                                                           *)

WipeStations == {"wipe_org preview", "wipe_org execute"}
RestoreStations ==
  {"restore load", "restore journal", "restore count", "restore bind"} \cup Executing
HealStations == {"heal load", "heal plan", "heal journal", "heal execute"}
ReplayStations == {"replay_gaps plan", "replay_gaps execute"}
RebuildStations ==
  {"rebuild plan", "rebuild shown", "rebuild apply", "rebuild applied", "rebuild failed"}
ReadModes == {"list_orgs", "diff_networks", "check", "estimate"}
RunStations == {"run", "run export", "no key"}

\* A step of a command: on its line, from station to station.
Along(modes, stations) ==
  /\ session' = session
  /\ pc \in modes \cup stations /\ pc' \in {"shell"} \cup stations
  /\ pc' = "shell" \/ line' = line

LEMMA WipeGoes ==
  ASSUME WipeStep
  PROVE  Along({"wipe_org"}, WipeStations)
<1> USE DEF Along, WipeStations, Goto, Leave, Fails, Proceeds
<1>1. CASE WipeOrg
  BY <1>1 DEF WipeOrg
<1>2. CASE WipePreview
  BY <1>2 DEF WipePreview
<1>3. CASE WipeExecute
  BY <1>3 DEF WipeExecute
<1>4. CASE WipeExecuted
  BY <1>4 DEF WipeExecuted, Report, ReportFault
<1> QED BY <1>1, <1>2, <1>3, <1>4 DEF WipeStep

\* One step of one object: where it goes, and what it may write.
LEMMA ObjectStepIs ==
  ASSUME NEW k \in ObjectSet, ObjectStep(k)
  PROVE  /\ pc \in Executing /\ pc' \in Executing /\ NextIs(k)
         /\ UNCHANGED <<session, commands, line, exit, left, alertVars, losses>>
         /\ \/ UNCHANGED <<journalVars, content>>
            \/ Create(k) /\ UNCHANGED journalVars /\ Creates(k)
            \/ /\ UNCHANGED content
               /\ \E kind \in {"attempt", "done", "map", "unmap"} : Remember(Record(kind, k))
<1> USE DEF Executing, RestoreFrame, Done, Skipped, Failed, Resumed, Due
<1>1. CASE HoldBack(k) \/ AlreadyDone(k)
  BY <1>1 DEF HoldBack, AlreadyDone
<1>2. CASE Recover(k) \/ ForgetStale(k)
  BY <1>2 DEF Recover, ForgetStale
<1>3. CASE NotSent(k) \/ Reconcile(k)
  BY <1>3 DEF NotSent, Reconcile
<1>4. CASE Attempt(k) \/ Create(k)
  BY <1>4 DEF Attempt, Create
<1>5. CASE RecordMapping(k) \/ RecordDone(k)
  BY <1>5 DEF RecordMapping, RecordDone
<1> QED BY <1>1, <1>2, <1>3, <1>4, <1>5 DEF ObjectStep

LEMMA RestoreGoes ==
  ASSUME RestoreStep
  PROVE  Along({"restore"}, RestoreStations)
<1> USE DEF Along, RestoreStations, Executing, Goto, Leave, Fails, Proceeds
<1>1. CASE Restore
  BY <1>1 DEF Restore, BuildDispatcher
<1>2. CASE RestoreLoad
  BY <1>2 DEF RestoreLoad
<1>3. CASE RestoreJournalOpens
  BY <1>3 DEF RestoreJournalOpens
<1>4. CASE RestoreCount
  BY <1>4 DEF RestoreCount
<1>5. CASE RestoreBind
  BY <1>5 DEF RestoreBind
<1>6. ASSUME NEW k \in ObjectSet, ObjectStep(k)
      PROVE  Along({"restore"}, RestoreStations)
  BY <1>6, ObjectStepIs
<1>7. CASE RestoreBreaks \/ RestoreExecuted
  BY <1>7 DEF RestoreBreaks, RestoreExecuted, Report, ReportFault
<1> QED BY <1>1, <1>2, <1>3, <1>4, <1>5, <1>6, <1>7 DEF RestoreStep

LEMMA HealGoes ==
  ASSUME HealCommandStep
  PROVE  Along({"heal"}, HealStations)
<1> USE DEF Along, HealStations, Goto, Leave, Fails, Proceeds
<1>1. CASE Heal
  BY <1>1 DEF Heal, BuildDispatcher
<1>2. CASE HealLoad \/ HealPlans
  BY <1>2 DEF HealLoad, HealPlans
<1>3. CASE HealPlanned \/ HealJournalOpens
  BY <1>3 DEF HealPlanned, HealJournalOpens
<1>4. ASSUME NEW key \in KeysOf(Snapshot), Recreate(key)
      PROVE  Along({"heal"}, HealStations)
  BY <1>4 DEF Recreate
<1>5. CASE HealBreaks \/ Healed
  BY <1>5 DEF HealBreaks, Healed, Report, ReportFault
<1> QED BY <1>1, <1>2, <1>3, <1>4, <1>5 DEF HealCommandStep

LEMMA ReplayGoes ==
  ASSUME ReplayCommandStep
  PROVE  Along({"replay_gaps"}, ReplayStations)
<1> USE DEF Along, ReplayStations, Goto, Leave, Fails, Proceeds
<1>1. CASE ReplayGaps
  BY <1>1 DEF ReplayGaps, BuildDispatcher
<1>2. CASE ReplayPlans
  BY <1>2 DEF ReplayPlans
<1>3. CASE ReplayExecutes
  BY <1>3 DEF ReplayExecutes
<1>4. CASE ReplayExecuted
  BY <1>4 DEF ReplayExecuted, Report
<1> QED BY <1>1, <1>2, <1>3, <1>4 DEF ReplayCommandStep

LEMMA RebuildGoes ==
  ASSUME RebuildStep
  PROVE  Along({"rebuild"}, RebuildStations)
<1> USE DEF Along, RebuildStations, Goto, Leave, Fails, Proceeds
<1>1. CASE Rebuild
  BY <1>1 DEF Rebuild, BuildDispatcher
<1>2. CASE RebuildPlans \/ RebuildShown
  BY <1>2 DEF RebuildPlans, RebuildShown
<1>3. CASE RebuildApplies
  BY <1>3 DEF RebuildApplies
<1>4. CASE RebuildApplied
  BY <1>4 DEF RebuildApplied, Report
<1> QED BY <1>1, <1>2, <1>3, <1>4 DEF RebuildStep

LEMMA RunGoes ==
  ASSUME RunStep
  PROVE  Along(Runs \cup ReadModes, RunStations)
<1> USE DEF Along, Runs, ReadModes, RunStations, Leave, Fails
<1>1. CASE RunStarts \/ RunRefused \/ RunEnds
  BY <1>1 DEF RunStarts, RunRefused, RunEnds, Report
<1>2. CASE ListOrgs \/ DiffNetworks \/ RunPreflight \/ RunEstimate
  BY <1>2 DEF ListOrgs, DiffNetworks, RunPreflight, RunEstimate, ReadOnly
<1>3. ASSUME NEW org \in pending, Fault(org) \/ Refused(org)
      PROVE  Along(Runs \cup ReadModes, RunStations)
  BY <1>3 DEF Fault, Refused, OrgDone
<1>4. ASSUME NEW org \in pending, NEW gaps \in BOOLEAN, NEW aborted \in BOOLEAN,
             Exported(org, gaps) \/ Orchestrated(org, aborted, gaps)
      PROVE  Along(Runs \cup ReadModes, RunStations)
  BY <1>4 DEF Exported, Orchestrated, OrgDone
<1> QED BY <1>1, <1>2, <1>3, <1>4 DEF RunStep

\* No command goes back to the beginning of an action.
LEMMA CommandsAreQuiet ==
  ASSUME \/ WipeStep \/ RestoreStep \/ HealCommandStep
         \/ ReplayCommandStep \/ RebuildStep \/ RunStep
  PROVE  Quiet
BY WipeGoes, RestoreGoes, HealGoes, ReplayGoes, RebuildGoes, RunGoes
   DEF Along, Quiet, DR_ACTION_FLAGS, Runs, ReadModes, Executing, WipeStations,
   RestoreStations, HealStations, ReplayStations, RebuildStations, RunStations

-----------------------------------------------------------------------------

\* In every session, a disaster-recovery mode that has started honours every
\* flag of its line.
THEOREM SessionsHonourFlags == Spec => []FlagsHonoured
<1>1. Init => HonourInv
  BY DEF Init, CommandInit, HonourInv, FlagsHonoured, DR_ACTION_FLAGS
<1>2. ASSUME HonourInv, [Next]_vars
      PROVE  HonourInv'
  <2>1. CASE UNCHANGED vars
    <3>1. Quiet
      BY <2>1 DEF vars, commandVars, Quiet
    <3> QED BY <1>2, <3>1, QuietKeeps
  <2>2. CASE Enter
    BY <1>2, <2>2, Entered DEF Enter
  <2>3. CASE Wiping \/ Restoring \/ Healing
    <3>1. Quiet
      BY <2>3, CommandsAreQuiet DEF Wiping, Restoring, Healing
    <3> QED BY <1>2, <3>1, QuietKeeps
  <2>4. CASE Replaying \/ Rebuilding \/ Running
    <3>1. Quiet
      BY <2>4, CommandsAreQuiet DEF Replaying, Rebuilding, Running
    <3> QED BY <1>2, <3>1, QuietKeeps
  <2>5. CASE Kill
    <3>1. Quiet
      BY <2>5 DEF Kill, Die, Quiet, DR_ACTION_FLAGS
    <3> QED BY <1>2, <3>1, QuietKeeps
  <2>6. CASE ChangeDevices \/ LoseObject
    <3>1. Quiet
      BY <2>6 DEF ChangeDevices, LoseObject, commandVars, Quiet
    <3> QED BY <1>2, <3>1, QuietKeeps
  <2> QED BY <1>2, <2>1, <2>2, <2>3, <2>4, <2>5, <2>6 DEF Next
<1>3. HonourInv => FlagsHonoured
  BY DEF HonourInv
<1> QED BY <1>1, <1>2, <1>3, PTL DEF Spec

-----------------------------------------------------------------------------
(* A session implements the wiper.                                         *)

\* A wipe is under way only in the command that wipes; its line is one that
\* was typed.
WipeHere ==
  /\ session \in DOMAIN Sessions
  /\ pc # "shell" => line \in Session.lines
  /\ stage # "idle" => pc \in WipeStations

\* What the other commands do to it.
Elsewhere == pc \notin WipeStations /\ UNCHANGED wiperVars

LEMMA ElsewhereKeeps ==
  ASSUME WipeHere, Quiet, Elsewhere, pc # "shell"
  PROVE  WipeHere'
<1>1. stage = "idle" /\ stage' = stage
  BY DEF WipeHere, Elsewhere, wiperVars, callVars
<1> QED BY <1>1 DEF WipeHere, Quiet, Session

LEMMA OthersElsewhere ==
  ASSUME Restoring \/ Healing \/ Replaying \/ Rebuilding \/ Running
  PROVE  Elsewhere /\ Quiet /\ pc # "shell"
<1>1. UNCHANGED wiperVars
  BY DEF Restoring, Healing, Replaying, Rebuilding, Running
<1>2. pc \notin WipeStations /\ pc # "shell"
  BY RestoreGoes, HealGoes, ReplayGoes, RebuildGoes, RunGoes
     DEF Restoring, Healing, Replaying, Rebuilding, Running, Along, Runs, ReadModes, Executing,
     WipeStations, RestoreStations, HealStations, ReplayStations, RebuildStations, RunStations
<1>3. Quiet
  BY CommandsAreQuiet DEF Restoring, Healing, Replaying, Rebuilding, Running
<1> QED BY <1>1, <1>2, <1>3 DEF Elsewhere

\* The command that wipes.
LEMMA WipingWipes ==
  ASSUME WipeHere, Wiping
  PROVE  WipeHere' /\ [WiperNext]_wiperVars
<1>1. Quiet /\ WipeStep
  BY CommandsAreQuiet DEF Wiping
<1>2. pc # "shell" /\ line \in Session.lines /\ line.named \in BOOLEAN
  <2>1. pc # "shell"
    BY <1>1 DEF WipeStep, WipeOrg, WipePreview, WipeExecute, WipeExecuted
  <2>2. line \in Session.lines
    BY <2>1 DEF WipeHere
  <2> QED BY <2>1, <2>2, SessionsAssumption DEF WipeHere, Session
<1>3. pc' # "shell" => line' \in Session'.lines
  BY <1>1, <1>2 DEF Quiet, Session
<1>4. session' \in DOMAIN Sessions
  BY <1>1 DEF Quiet, WipeHere
<1>5. CASE WipeOrg
  <2>1. stage = "idle"
    BY <1>5 DEF WipeOrg, WipeHere, WipeStations
  <2>2. CASE Goto("wipe_org preview") /\ BeginPreview
    BY <1>3, <1>4, <2>1, <2>2 DEF Goto, WipeHere, WipeStations, WiperNext
  <2>3. CASE UNCHANGED wiperVars
    BY <1>3, <1>4, <2>1, <2>3 DEF WipeHere, wiperVars, callVars
  <2> QED BY <1>5, <2>2, <2>3 DEF WipeOrg
<1>6. CASE WipePreview
  <2>1. CASE CallPreview(line.named) /\ Proceeds(pc)
    <3>1. WiperNext
      BY <1>2, <2>1 DEF WiperNext, WiperStep
    <3>2. pc' \in WipeStations
      BY <1>6, <2>1 DEF WipePreview, WipeStations, Proceeds, Goto
    <3> QED BY <1>3, <1>4, <3>1, <3>2 DEF WipeHere
  <2>2. CASE Forget
    BY <1>3, <1>4, <2>2 DEF WipeHere, Forget, WiperNext
  <2>3. CASE BeginExecute /\ Proceeds("wipe_org execute")
    BY <1>3, <1>4, <2>3 DEF WipeHere, WiperNext, Proceeds, Goto, WipeStations
  <2> QED BY <1>6, <2>1, <2>2, <2>3 DEF WipePreview
<1>7. CASE WipeExecute
  <2>1. WiperNext
    BY <1>2, <1>7 DEF WipeExecute, WiperNext
  <2>2. pc' \in WipeStations
    BY <1>7 DEF WipeExecute, WipeStations
  <2> QED BY <1>3, <1>4, <2>1, <2>2 DEF WipeHere
<1>8. CASE WipeExecuted
  BY <1>3, <1>4, <1>8 DEF WipeExecuted, WipeHere, Forget, WiperNext
<1> QED BY <1>1, <1>5, <1>6, <1>7, <1>8 DEF WipeStep

\* Every step of a session is a step of the wiper, or none.
LEMMA SessionStepsWipe ==
  ASSUME WipeHere, [Next]_vars
  PROVE  WipeHere' /\ [WiperNext]_wiperVars
<1>1. CASE UNCHANGED vars
  BY <1>1 DEF vars, commandVars, wiperVars, callVars, WipeHere, Session
<1>2. ASSUME NEW l \in Session.lines, Enter, Type(l)
      PROVE  WipeHere' /\ [WiperNext]_wiperVars
  <2>1. stage = "idle" /\ UNCHANGED wiperVars
    BY <1>2 DEF Enter, Type, WipeHere, WipeStations
  <2>2. session' = session /\ (pc' # "shell" => line' = l)
    BY <1>2 DEF Type
  <2> QED BY <1>2, <2>1, <2>2 DEF WipeHere, Session, wiperVars, callVars
<1>3. CASE Wiping
  BY <1>3, WipingWipes
<1>4. CASE Restoring \/ Healing \/ Replaying \/ Rebuilding \/ Running
  <2>1. Quiet /\ Elsewhere /\ pc # "shell"
    BY <1>4, OthersElsewhere
  <2> QED BY <2>1, ElsewhereKeeps DEF Elsewhere
<1>6. CASE Kill
  BY <1>6 DEF Kill, Die, Forget, WipeHere, WiperNext
<1>7. CASE ChangeDevices
  <2>1. WiperNext /\ UNCHANGED <<stage, session, pc, line>>
    BY <1>7 DEF ChangeDevices, Claim, Unclaim, ChangeInventory, callVars, commandVars, WiperNext
  <2> QED BY <2>1 DEF WipeHere, Session
<1>8. CASE LoseObject
  <2>1. UNCHANGED wiperVars /\ UNCHANGED <<stage, session, pc, line>>
    BY <1>8 DEF LoseObject, wiperVars, callVars, commandVars
  <2> QED BY <2>1 DEF WipeHere, Session
<1> QED BY <1>1, <1>2, <1>3, <1>4, <1>6, <1>7, <1>8 DEF Next, Enter

\* Hardware stops the wipes of every session: no sequence of commands,
\* refusals, kills and claims gets an organization deleted with a device
\* that was there when it was last checked.
THEOREM SessionsSpareHardware == Spec => HardwareStopsWipe
<1>1. Init => WiperInit /\ WipeHere
  BY DEF Init, WiperInit, CommandInit, WipeHere
<1>2. Spec => WiperSpec
  BY <1>1, SessionStepsWipe, PTL DEF Spec, WiperSpec
<1> QED BY <1>2, WipeStopsAtHardware

-----------------------------------------------------------------------------
(* What a heal selects.                                                    *)

\* Nothing that stands is missing, nor a binding of a network that stands.
SortedOut ==
  /\ missing \cap surviving = {}
  /\ \A key \in missing : Asset(key).binds # "none" =>
       \E a \in Actions : a.creates_network /\ a.own[2] = Asset(key).binds
                            /\ a.key \notin surviving

\* In every set of keys with what is meant and all it needs.
WithinEvery(keys) ==
  \A others \in SUBSET KeysOf(Snapshot) :
    AllMeant \subseteq others /\ Whole(others) => keys \subseteq others

\* The selection on its way: direct matches, what lies under them, what
\* those need.
HealInv ==
  /\ healStep \in {"select", "grow", "close", "chosen"} => SortedOut
  /\ healStep \in {"select", "grow", "close"} => only # {}
  /\ healStep \in {"grow", "close", "chosen"} => chosen \subseteq KeysOf(MissingActions)
  /\ healStep = "grow" =>
       /\ \A s \in only : s \cap KeysOf(MissingActions) \subseteq chosen
       /\ chosen \subseteq AllMeant
  /\ healStep = "close" =>
       /\ AllMeant \subseteq chosen /\ frontier \subseteq chosen
       /\ \A key \in chosen \ frontier : Needed(key) \subseteq chosen
       /\ WithinEvery(chosen)
  /\ SelectionIsClosed

LEMMA AssetOf ==
  ASSUME NEW a \in Snapshot
  PROVE  Asset(a.key) = a
BY SnapshotAssumption DEF Asset

LEMMA MissingKey ==
  ASSUME NEW key \in KeysOf(MissingActions)
  PROVE  Asset(key) \in MissingActions /\ Asset(key).key = key /\ key \in missing
         /\ key \in KeysOf(Snapshot)
<1>1. PICK a \in MissingActions : a.key = key
  BY DEF KeysOf
<1>2. a \in Snapshot /\ a.key \in missing
  BY <1>1 DEF MissingActions, Actions
<1> QED BY <1>1, <1>2, AssetOf DEF KeysOf

LEMMA InScopeGrows ==
  ASSUME NEW a, NEW few, NEW many, few \subseteq many, InScope(a, few)
  PROVE  InScope(a, many)
BY DEF InScope

LEMMA AnchorsGrow ==
  ASSUME NEW few, NEW many, few \subseteq many
  PROVE  AnchorsOf(few) \subseteq AnchorsOf(many)
BY DEF AnchorsOf

\* What an object needs is missing.
LEMMA NeedsMissing ==
  ASSUME NEW key
  PROVE  Needed(key) \subseteq KeysOf(MissingActions)
<1>1. ASSUME NEW dep
      PROVE  Candidates(Asset(key), dep) \subseteq AnchorsOf(missing)
  <2> DEFINE named == {x \in AnchorsOf(missing) : x.own[2] = dep[2]}
  <2>1. Candidates(Asset(key), dep) \subseteq named
    <3> HIDE DEF named
    <3>1. Candidates(Asset(key), dep) =
            IF dep[1] = "" THEN {x \in named : Cardinality(named) = 1}
            ELSE {x \in named : x.own = dep /\ x.context \subseteq Values(Asset(key))}
      BY DEF Candidates, named
    <3>2. CASE dep[1] = ""
      BY <3>1, <3>2
    <3>3. CASE dep[1] # ""
      BY <3>1, <3>3
    <3> QED BY <3>2, <3>3
  <2> QED BY <2>1
<1>2. AnchorsOf(missing) \subseteq MissingActions
  BY DEF AnchorsOf, MissingActions
<1> QED BY <1>1, <1>2 DEF Needed, KeysOf

LEMMA MissingIsWhole == chosen = KeysOf(MissingActions) => Whole(chosen)
BY NeedsMissing DEF Whole

\* plan_heal.
LEMMA PlanHealSorts ==
  ASSUME HealInv, PlanHeal
  PROVE  HealInv'
<1> DEFINE gone == KeysOf(Snapshot) \ LiveAssetKeys
<1>1. missing' = SplitSurvivorBindings(gone) /\ surviving' = KeysOf(Actions) \cap LiveAssetKeys
  BY DEF PlanHeal
<1>2. SortedOut'
  <2>1. missing' \cap surviving' = {}
    BY <1>1 DEF SplitSurvivorBindings
  <2>2. ASSUME NEW key \in missing', Asset(key).binds # "none"
        PROVE  \E a \in Actions : a.creates_network /\ a.own[2] = Asset(key).binds
                                    /\ a.key \notin surviving'
    <3>1. Asset(key).binds \in Recreated(gone)
      BY <1>1, <2>2 DEF SplitSurvivorBindings
    <3>2. PICK a \in Actions : a.key \in gone /\ a.creates_network
                              /\ a.own[2] = Asset(key).binds
      BY <3>1 DEF Recreated
    <3> QED BY <1>1, <3>2
  <2> QED BY <2>1, <2>2 DEF SortedOut, Asset, Actions
<1>3. CASE only = {}
  <2>1. healStep' = "chosen" /\ chosen' = missing' \cap KeysOf(Actions) /\ only' = {}
    BY <1>3 DEF PlanHeal
  <2>2. (chosen = KeysOf(MissingActions))'
    BY <2>1 DEF KeysOf, MissingActions, Actions
  <2>4. Whole(chosen)'
    BY <2>2, MissingIsWhole, PTL
  <2>5. chosen' \subseteq missing'
    BY <2>1
  <2>6. SelectionIsClosed'
    BY <1>2, <2>1, <2>4, <2>5 DEF SelectionIsClosed, SortedOut, Asset, Actions
  <2> QED BY <1>2, <2>1, <2>2, <2>6 DEF HealInv
<1>4. CASE only # {}
  BY <1>2, <1>4 DEF PlanHeal, HealInv, SelectionIsClosed
<1> QED BY <1>3, <1>4

\* Meant of the direct matches and of what lies under them.
LEMMA SelectDirectMatches ==
  ASSUME HealInv, SelectDirect
  PROVE  HealInv'
<1>1. CASE healStep' = "refused"
  BY <1>1 DEF HealInv, SelectionIsClosed
<1>2. CASE healStep' # "refused"
  <2>1. /\ healStep' = "grow" /\ SortedOut /\ only # {}
        /\ chosen' = (UNION {HitsOf(s) : s \in only}) \cap KeysOf(MissingActions)
        /\ UNCHANGED <<live, missing, unbound, surviving, only, frontier>>
    BY <1>2 DEF SelectDirect, HealInv
  <2>2. SortedOut'
    BY <2>1 DEF SortedOut, Asset, Actions
  <2>3. KeysOf(MissingActions)' = KeysOf(MissingActions) /\ AllMeant' = AllMeant
    BY <2>1 DEF KeysOf, MissingActions, AllMeant, Meant, Containers, ContainersOf, AnchorsOf,
       Actions, InScope
  <2>4. ASSUME NEW s \in only, NEW key \in s, key \in KeysOf(MissingActions)
        PROVE  key \in chosen'
    BY <2>1, <2>4, MissingKey DEF HitsOf
  <2>5. ASSUME NEW key \in chosen', NEW keys \in SUBSET KeysOf(MissingActions), Meant(keys)
        PROVE  key \in keys
    <3>1. key \in KeysOf(MissingActions)
      BY <2>1
    <3>2. PICK s \in only : key \in HitsOf(s)
      BY <2>1
    <3>3. CASE key \in s
      BY <2>5, <3>1, <3>2, <3>3 DEF Meant
    <3>4. CASE InScope(Asset(key), ContainersOf(s))
      <4>1. ContainersOf(s) \subseteq AnchorsOf(keys) \cup Containers
        BY <3>2 DEF Containers
      <4>2. InScope(Asset(key), AnchorsOf(keys) \cup Containers)
        BY <3>4, <4>1, InScopeGrows
      <4> QED BY <2>5, <3>1, <4>2, MissingKey DEF Meant
    <3> QED BY <3>2, <3>3, <3>4 DEF HitsOf
  <2>6. chosen' \subseteq AllMeant
    <3>1. KeysOf(MissingActions) \subseteq KeysOf(Actions)
      BY DEF KeysOf, MissingActions
    <3> QED BY <2>1, <2>5, <3>1 DEF AllMeant
  <2> QED BY <2>1, <2>2, <2>3, <2>4, <2>6 DEF HealInv, SelectionIsClosed
<1> QED BY <1>1, <1>2

LEMMA GrownIsMeant ==
  ASSUME HealInv, healStep = "grow"
  PROVE  Grown \subseteq AllMeant \cap KeysOf(MissingActions)
<1> SUFFICES ASSUME NEW key \in Grown
             PROVE  key \in AllMeant /\ key \in KeysOf(MissingActions)
  OBVIOUS
<1>1. PICK a \in MissingActions : a.key = key /\ InScope(a, AnchorsOf(chosen) \cup Containers)
  BY DEF Grown
<1>2. key \in KeysOf(MissingActions) /\ key \in KeysOf(Actions)
  BY <1>1 DEF KeysOf, MissingActions
<1>3. ASSUME NEW keys \in SUBSET KeysOf(MissingActions), Meant(keys)
      PROVE  key \in keys
  <2>1. chosen \subseteq keys
    BY <1>3 DEF HealInv, AllMeant
  <2>2. InScope(a, AnchorsOf(keys) \cup Containers)
    BY <1>1, <2>1, AnchorsGrow, InScopeGrows
  <2> QED BY <1>1, <1>3, <2>2 DEF Meant
<1> QED BY <1>2, <1>3 DEF AllMeant

LEMMA GrowKeeps ==
  ASSUME HealInv, GrowScope \/ ScopeSettled
  PROVE  HealInv'
<1>1. /\ healStep = "grow" /\ SortedOut /\ only # {}
      /\ UNCHANGED <<missing, surviving, only>>
  BY DEF GrowScope, ScopeSettled, HealInv
<1>2. SortedOut'
  BY <1>1 DEF SortedOut, Asset, Actions
<1>3. KeysOf(MissingActions)' = KeysOf(MissingActions) /\ AllMeant' = AllMeant
  BY <1>1 DEF KeysOf, MissingActions, AllMeant, Meant, Containers, ContainersOf, AnchorsOf,
     Actions, InScope
<1>4. CASE GrowScope
  <2>1. healStep' = "grow" /\ chosen' = chosen \cup Grown
    BY <1>1, <1>4 DEF GrowScope
  <2> QED BY <1>1, <1>2, <1>3, <2>1, GrownIsMeant DEF HealInv, SelectionIsClosed
<1>5. CASE ScopeSettled
  <2>1. /\ Grown = {} /\ healStep' = "close" /\ frontier' = chosen /\ chosen' = chosen
    BY <1>5 DEF ScopeSettled
  <2>2. Meant(chosen)
    BY <1>1, <2>1 DEF HealInv, Meant, Grown
  <2>3. chosen = AllMeant
    BY <1>1, <2>2 DEF HealInv, AllMeant
  <2>4. WithinEvery(chosen)'
    BY <1>3, <2>1, <2>3 DEF WithinEvery
  <2> QED BY <1>1, <1>2, <1>3, <2>1, <2>3, <2>4 DEF HealInv, SelectionIsClosed
<1> QED BY <1>4, <1>5

\* The dependency closure.
LEMMA CloseKeeps ==
  ASSUME HealInv, (\E key \in frontier : FollowDependencies(key)) \/ Closed
  PROVE  HealInv'
<1>1. /\ healStep = "close" /\ SortedOut /\ only # {}
      /\ UNCHANGED <<missing, surviving, only>>
  BY DEF FollowDependencies, Closed, HealInv
<1>2. SortedOut'
  BY <1>1 DEF SortedOut, Asset, Actions
<1>3. KeysOf(MissingActions)' = KeysOf(MissingActions) /\ AllMeant' = AllMeant
  BY <1>1 DEF KeysOf, MissingActions, AllMeant, Meant, Containers, ContainersOf, AnchorsOf,
     Actions, InScope
<1>4. \A key : Needed(key)' = Needed(key)
  BY <1>1 DEF Needed, Candidates, AnchorsOf, Actions, KeysOf, Asset, Dependencies, Values
<1>5. \A keys : WithinEvery(keys)' <=> WithinEvery(keys)
  BY <1>3, <1>4 DEF WithinEvery, Whole, KeysOf
<1>6. ASSUME NEW key \in frontier, FollowDependencies(key)
      PROVE  HealInv'
  <2>1. /\ healStep' = "close" /\ chosen' = chosen \cup Needed(key)
        /\ frontier' = (frontier \ {key}) \cup (Needed(key) \ chosen)
    BY <1>1, <1>6 DEF FollowDependencies
  <2>2. key \in chosen
    BY <1>1 DEF HealInv
  <2>3. WithinEvery(chosen')
    BY <1>1, <2>1, <2>2 DEF HealInv, WithinEvery, Whole
  <2>4. chosen' \subseteq KeysOf(MissingActions)
    BY <1>1, <2>1, NeedsMissing DEF HealInv
  <2>5. \A k \in chosen' \ frontier' : Needed(k) \subseteq chosen'
    BY <1>1, <2>1 DEF HealInv
  <2> QED BY <1>1, <1>2, <1>3, <1>4, <1>5, <2>1, <2>3, <2>4, <2>5 DEF HealInv, SelectionIsClosed
<1>7. CASE Closed
  <2>1. healStep' = "chosen" /\ chosen' = chosen /\ frontier = {}
    BY <1>7 DEF Closed
  <2>2. Whole(chosen)
    BY <1>1, <2>1 DEF HealInv, Whole
  <2>3. chosen \cap surviving = {}
    BY <1>1, MissingKey DEF HealInv, SortedOut
  <2>4. \A key \in chosen : key \in missing /\ key \in KeysOf(Snapshot)
    BY <1>1, MissingKey DEF HealInv
  <2>5. ASSUME NEW keys \in SUBSET chosen, AllMeant \subseteq keys, Whole(keys)
        PROVE  keys = chosen
    BY <1>1, <2>4, <2>5 DEF HealInv, WithinEvery
  <2>6. Whole(chosen)'
    BY <1>4, <2>1, <2>2 DEF Whole
  <2>7. \A keys : Whole(keys)' <=> Whole(keys)
    BY <1>4 DEF Whole
  <2>8. SelectionIsClosed'
    <3>1. \A key \in chosen : Asset(key).binds # "none" =>
            \E a \in Actions : a.creates_network /\ a.own[2] = Asset(key).binds
                                 /\ a.key \notin surviving
      BY <1>1, <2>4 DEF SortedOut
    <3>2. AllMeant \subseteq chosen
      BY <1>1 DEF HealInv
    <3> QED BY <1>1, <1>3, <2>1, <2>3, <2>5, <2>6, <2>7, <3>1, <3>2
            DEF SelectionIsClosed, Asset, Actions
  <2> QED BY <1>1, <1>2, <1>3, <2>1, <2>8 DEF HealInv
<1> QED BY <1>6, <1>7

LEMMA HealStepKeeps ==
  ASSUME HealInv, HealStep
  PROVE  HealInv'
BY PlanHealSorts, SelectDirectMatches, GrowKeeps, CloseKeeps DEF HealStep

\* Once the selection is made it stays, whatever is recreated.
LEMMA ChosenStays ==
  ASSUME HealInv, UNCHANGED <<healStep, missing, unbound, surviving, only, chosen, frontier>>
  PROVE  HealInv'
<1>1. SortedOut' <=> SortedOut
  BY DEF SortedOut, Asset, Actions
<1>2. KeysOf(MissingActions)' = KeysOf(MissingActions) /\ AllMeant' = AllMeant
  BY DEF KeysOf, MissingActions, AllMeant, Meant, Containers, ContainersOf, AnchorsOf,
     Actions, InScope
<1>3. \A key : Needed(key)' = Needed(key)
  BY DEF Needed, Candidates, AnchorsOf, Actions, KeysOf, Asset, Dependencies, Values
<1>4. \A keys : Whole(keys)' <=> Whole(keys)
  BY <1>3 DEF Whole
<1>5. \A keys : WithinEvery(keys)' <=> WithinEvery(keys)
  BY <1>2, <1>4 DEF WithinEvery, KeysOf
<1>6. WithinEvery(chosen)' <=> WithinEvery(chosen)
  BY <1>5 DEF WithinEvery
<1>7. Whole(chosen)' <=> Whole(chosen)
  BY <1>4 DEF Whole
<1>8. SelectionIsClosed' <=> SelectionIsClosed
  BY <1>2, <1>4, <1>7 DEF SelectionIsClosed, Asset, Actions
<1> QED BY <1>1, <1>2, <1>3, <1>6, <1>8 DEF HealInv

LEMMA NoHealYet ==
  ASSUME healStep' \in {"idle", "plan"}
  PROVE  HealInv'
BY DEF HealInv, SelectionIsClosed

LEMMA HealingKeeps ==
  ASSUME HealInv, HealCommandStep
  PROVE  HealInv'
<1>1. CASE Heal \/ HealBreaks \/ Healed
  BY <1>1, ChosenStays, NoHealYet DEF Heal, HealBreaks, Healed, ForgetHeal, healVars
<1>2. CASE HealLoad
  BY <1>2, ChosenStays, NoHealYet DEF HealLoad, BeginHeal, healVars
<1>3. CASE HealPlans
  BY <1>3, HealStepKeeps DEF HealPlans
<1>4. CASE HealPlanned \/ HealJournalOpens
  BY <1>4, ChosenStays, NoHealYet DEF HealPlanned, HealJournalOpens, ForgetHeal, healVars
<1>5. ASSUME NEW key \in KeysOf(Snapshot), Recreate(key)
      PROVE  HealInv'
  BY <1>5, ChosenStays DEF Recreate
<1> QED BY <1>1, <1>2, <1>3, <1>4, <1>5 DEF HealCommandStep

\* In every session, whatever is lost and whatever --only names, a heal
\* selects what was meant and what that needs, no more, and nothing that
\* stands.
THEOREM SessionsSelectClosed == Spec => []SelectionIsClosed
<1>1. Init => HealInv
  BY DEF Init, HealInit, HealInv, SelectionIsClosed
<1>2. ASSUME HealInv, [Next]_vars
      PROVE  HealInv'
  <2>1. CASE UNCHANGED healVars
    BY <1>2, <2>1, ChosenStays DEF healVars
  <2>2. CASE Healing
    BY <1>2, <2>2, HealingKeeps DEF Healing
  <2>3. CASE Kill
    BY <2>3, NoHealYet DEF Kill, ForgetHeal
  <2>4. CASE Enter \/ Wiping \/ Restoring \/ Replaying
    BY <2>1, <2>4 DEF Enter, Wiping, Restoring, Replaying
  <2>5. CASE Rebuilding \/ Running \/ ChangeDevices \/ LoseObject
    BY <2>1, <2>5 DEF Rebuilding, Running, ChangeDevices, LoseObject
  <2>6. CASE UNCHANGED vars
    BY <2>1, <2>6 DEF vars
  <2> QED BY <1>2, <2>2, <2>3, <2>4, <2>5, <2>6 DEF Next
<1>3. HealInv => SelectionIsClosed
  BY DEF HealInv
<1> QED BY <1>1, <1>2, <1>3, PTL DEF Spec

-----------------------------------------------------------------------------
(* The restore journal.                                                    *)

\* What a restore writes.
JournalRecords == Facts \cup {Record("unmap", k) : k \in ObjectSet}

\* A file that is not spoiled reads as the facts of its lines, and a process
\* that has it open knows them.
FileInv ==
  /\ lines \in Seq(JournalRecords \cup {Garbage})
  /\ tail \in {"whole", "torn", "bare"}
  /\ tail = "bare" => lines # <<>> /\ lines[Len(lines)] # Garbage
  /\ loaded \in BOOLEAN
  /\ loaded => tail # "torn"
  /\ loaded /\ ~Spoiled => memory = FactsOf(lines)
  /\ ~loaded => memory = {}

LEMMA RecordFields ==
  ASSUME NEW kind, NEW about
  PROVE  Record(kind, about).kind = kind /\ Record(kind, about).about = about
BY DEF Record

LEMMA KindsOfRecords ==
  ASSUME NEW r \in JournalRecords
  PROVE  /\ r.kind \in {"bound", "attempt", "done", "map", "unmap"}
         /\ r = Record(r.kind, r.about) /\ r # Garbage
         /\ r.kind # "unmap" => r \in Facts
BY DEF JournalRecords, Facts, Record, Garbage

\* A file of records is readable, whole and without a fragment.
LEMMA RecordsAreReadable ==
  ASSUME lines \in Seq(JournalRecords)
  PROVE  ~Unreadable /\ Intact = lines /\ Durable = FactsOf(lines)
<1>1. \A i \in 1 .. Len(lines) : lines[i] # Garbage
  BY KindsOfRecords
<1>2. ~Unreadable
  BY <1>1 DEF Unreadable
<1>3. lines # <<>> => Last(lines) = lines[Len(lines)] /\ Len(lines) \in 1 .. Len(lines)
  BY DEF Last
<1>4. Intact = lines
  BY <1>1, <1>3 DEF Intact
<1> QED BY <1>2, <1>4 DEF Durable

Readable == lines \in Seq(JournalRecords)
Says == Durable = FactsOf(lines)

LEMMA ReadableSays == Readable => Says
BY RecordsAreReadable DEF Readable, Says

LEMMA Unmaps ==
  ASSUME NEW r \in JournalRecords, r.kind = "unmap"
  PROVE  \E k \in ObjectSet : r = Record("unmap", k)
BY DEF JournalRecords, Facts, Record

\* A line more is a fact more, or a mapping less.
LEMMA AppendReplays ==
  ASSUME NEW records \in Seq(JournalRecords), NEW r \in JournalRecords
  PROVE  FactsOf(Append(records, r)) = Replayed(FactsOf(records), r)
<1> DEFINE n == Len(records)
           longer == Append(records, r)
<1>1. /\ n \in Nat /\ DOMAIN records = 1 .. n /\ DOMAIN longer = 1 .. (n + 1)
      /\ longer[n + 1] = r /\ \A i \in 1 .. n : longer[i] = records[i] /\ records[i] \in JournalRecords
  OBVIOUS
<1> HIDE DEF n, longer
<1>2. ASSUME NEW i \in 1 .. n
      PROVE  Retired(longer, i) <=>
               \/ Retired(records, i)
               \/ records[i].kind = "map" /\ r = Record("unmap", records[i].about)
  BY <1>1 DEF Retired
<1>3. ~Retired(longer, n + 1)
  BY <1>1 DEF Retired
<1>4. CASE r.kind = "unmap"
  <2>1. ASSUME NEW f \in FactsOf(longer)
        PROVE  f \in FactsOf(records) /\ f # Record("map", r.about)
    <3>1. PICK i \in 1 .. (n + 1) : f = longer[i] /\ longer[i].kind # "unmap" /\ ~Retired(longer, i)
      BY <1>1 DEF FactsOf
    <3>2. i \in 1 .. n
      BY <1>1, <1>4, <3>1
    <3>3. ~Retired(records, i) /\ f = records[i]
      BY <1>1, <1>2, <3>1, <3>2
    <3>4. f # Record("map", r.about)
      <4>1. r = Record("unmap", r.about)
        BY <1>4, KindsOfRecords
      <4> QED BY <1>2, <3>1, <3>2, <3>3, <4>1, RecordFields
    <3> QED BY <1>1, <3>1, <3>2, <3>3, <3>4 DEF FactsOf
  <2>2. ASSUME NEW f \in FactsOf(records), f # Record("map", r.about)
        PROVE  f \in FactsOf(longer)
    <3>1. PICK i \in 1 .. n : f = records[i] /\ records[i].kind # "unmap" /\ ~Retired(records, i)
      BY <1>1 DEF FactsOf
    <3>2. ~Retired(longer, i)
      <4>1. SUFFICES ASSUME f.kind = "map", r = Record("unmap", f.about)
                     PROVE  FALSE
        BY <1>2, <3>1
      <4>2. f = Record("map", f.about)
        BY <1>1, <3>1, <4>1, KindsOfRecords
      <4> QED BY <2>2, <4>1, <4>2, RecordFields
    <3> QED BY <1>1, <3>1, <3>2 DEF FactsOf
  <2> QED BY <1>4, <2>1, <2>2 DEF Replayed, longer
<1>5. CASE r.kind # "unmap"
  <2>1. \A i \in 1 .. n : Retired(longer, i) <=> Retired(records, i)
    BY <1>2, <1>5, RecordFields
  <2>2. ASSUME NEW f \in FactsOf(longer)
        PROVE  f \in FactsOf(records) \cup {r}
    BY <1>1, <2>1 DEF FactsOf
  <2>3. ASSUME NEW f \in FactsOf(records) \cup {r}
        PROVE  f \in FactsOf(longer)
    <3>1. CASE f = r
      BY <1>1, <1>3, <1>5, <3>1 DEF FactsOf
    <3>2. CASE f \in FactsOf(records)
      BY <1>1, <2>1, <3>2 DEF FactsOf
    <3> QED BY <3>1, <3>2
  <2> QED BY <1>5, <2>2, <2>3 DEF Replayed, longer
<1> QED BY <1>4, <1>5

LEMMA CleanLines ==
  ASSUME FileInv, ~Spoiled
  PROVE  lines \in Seq(JournalRecords) /\ tail \in {"whole", "torn"} /\ Durable = FactsOf(lines)
<1>1. \A i \in DOMAIN lines : lines[i] \in JournalRecords
  BY DEF FileInv, Spoiled
<1>2. lines \in Seq(JournalRecords)
  BY <1>1 DEF FileInv
<1> QED BY <1>2, RecordsAreReadable DEF FileInv, Spoiled

\* Behind a line that is no record, a line more makes the file unreadable.
LEMMA BehindGarbage ==
  ASSUME FileInv, NEW i \in DOMAIN lines, lines[i] = Garbage, NEW r \in JournalRecords
  PROVE  /\ lines' = Append(lines, r) => Unreadable' /\ Spoiled' /\ Durable' = {}
         /\ tail' = "torn" /\ lines' = lines => Unreadable' /\ Spoiled' /\ Durable' = {}
<1>1. i \in 1 .. Len(lines) /\ Len(lines) \in Nat
  BY DEF FileInv
<1>2. ASSUME lines' = Append(lines, r)
      PROVE  Unreadable' /\ Spoiled' /\ Durable' = {}
  <2>1. lines'[i] = Garbage /\ i \in 1 .. Len(lines') /\ i < Len(lines') /\ i \in DOMAIN lines'
    BY <1>1, <1>2 DEF FileInv
  <2> QED BY <2>1 DEF Unreadable, Spoiled, Durable
<1>3. ASSUME tail' = "torn", lines' = lines
      PROVE  Unreadable' /\ Spoiled' /\ Durable' = {}
  BY <1>1, <1>3 DEF Unreadable, Spoiled, Durable
<1> QED BY <1>2, <1>3

\* The lines before the last.
LEMMA FrontOf ==
  ASSUME NEW S, NEW seq \in Seq(S), seq # <<>>
  PROVE  /\ Front(seq) \in Seq(S) /\ seq[Len(seq)] \in S
         /\ seq = Append(Front(seq), seq[Len(seq)])
         /\ Len(seq) \in Nat \ {0} /\ DOMAIN seq = 1 .. Len(seq)
         /\ Len(Front(seq)) = Len(seq) - 1 /\ DOMAIN Front(seq) = 1 .. (Len(seq) - 1)
         /\ \A i \in DOMAIN Front(seq) : Front(seq)[i] = seq[i]
<1>1. Len(seq) \in Nat \ {0} /\ DOMAIN seq = 1 .. Len(seq)
  OBVIOUS
<1>2. \A i \in 1 .. Len(seq) : seq[i] \in S
  OBVIOUS
<1>3. /\ Front(seq) \in Seq(S) /\ Len(Front(seq)) = Len(seq) - 1
      /\ \A i \in 1 .. (Len(seq) - 1) : Front(seq)[i] = seq[i]
  BY <1>1, <1>2 DEF Front
<1>4. DOMAIN Front(seq) = 1 .. (Len(seq) - 1)
  BY <1>3
<1>5. seq = Append(Front(seq), seq[Len(seq)])
  <2> DEFINE front == Front(seq)
             last == seq[Len(seq)]
             longer == Append(front, last)
  <2>1. front \in Seq(S) /\ last \in S /\ Len(front) + 1 = Len(seq) /\ Len(front) \in Nat
        /\ \A i \in 1 .. Len(front) : front[i] = seq[i]
    BY <1>1, <1>2, <1>3
  <2> HIDE DEF front
  <2>2. /\ longer \in Seq(S) /\ Len(longer) = Len(seq) /\ longer[Len(front) + 1] = last
        /\ \A i \in 1 .. Len(front) : longer[i] = front[i]
    BY <2>1
  <2> HIDE DEF longer
  <2>3. \A i \in 1 .. Len(longer) : longer[i] = seq[i]
    <3>1. SUFFICES ASSUME NEW i \in 1 .. Len(longer) PROVE longer[i] = seq[i]
      OBVIOUS
    <3>2. i \in 1 .. Len(front) \/ i = Len(front) + 1
      BY <2>1, <2>2
    <3> QED BY <2>1, <2>2, <3>2
  <2>4. longer = seq
    BY <2>2, <2>3, SeqEqual
  <2> QED BY <2>4 DEF longer, front
<1>6. seq[Len(seq)] \in S
  BY <1>1, <1>2
<1> QED BY <1>1, <1>3, <1>4, <1>5, <1>6

LEMMA FrontAppended ==
  ASSUME NEW S, NEW seq \in Seq(S), NEW e
  PROVE  Front(Append(seq, e)) = seq /\ Last(Append(seq, e)) = e
<1>1. /\ Len(Append(seq, e)) = Len(seq) + 1 /\ Len(seq) \in Nat
      /\ Append(seq, e)[Len(seq) + 1] = e
      /\ \A i \in 1 .. Len(seq) : Append(seq, e)[i] = seq[i]
  OBVIOUS
<1>2. Front(Append(seq, e)) = SubSeq(Append(seq, e), 1, Len(seq))
  BY <1>1 DEF Front
<1>3. SubSeq(Append(seq, e), 1, Len(seq)) = seq
  BY <1>1
<1> QED BY <1>1, <1>2, <1>3 DEF Last

\* A record behind a line without its end costs that line: the file says
\* what it said before it, or nothing.
LEMMA LastLineUndone ==
  ASSUME FileInv, tail = "bare",
         \/ lines' = Append(Front(lines), Garbage) /\ tail' = "whole"
         \/ lines' = Front(lines) /\ tail' = "torn"
  PROVE  /\ lines' \in Seq(JournalRecords \cup {Garbage})
         /\ Durable' = Durable \/ Promise!Undo
         /\ tail' = "whole" => Spoiled'
<1> DEFINE front == Front(lines)
           last == lines[Len(lines)]
<1>1. /\ lines # <<>> /\ front \in Seq(JournalRecords \cup {Garbage})
      /\ lines = Append(front, last) /\ last \in JournalRecords
      /\ Len(front) = Len(lines) - 1 /\ Len(lines) \in Nat \ {0}
      /\ DOMAIN lines = 1 .. Len(lines) /\ DOMAIN front = 1 .. (Len(lines) - 1)
      /\ \A i \in DOMAIN front : front[i] = lines[i]
  BY FrontOf DEF FileInv
<1> HIDE DEF front, last
<1>2. lines' \in Seq(JournalRecords \cup {Garbage})
  BY <1>1 DEF front
<1>3. ASSUME tail' = "whole" PROVE Spoiled'
  <2>1. lines' = Append(front, Garbage)
    BY <1>3 DEF front
  <2>2. Len(front) + 1 \in DOMAIN lines' /\ lines'[Len(front) + 1] = Garbage
    BY <1>1, <2>1
  <2> QED BY <2>2 DEF Spoiled
<1>4. ASSUME NEW i \in DOMAIN front, front[i] = Garbage
      PROVE  Durable' = Durable
  <2>1. i \in 1 .. Len(lines) /\ i < Len(lines) /\ lines[i] = Garbage
    BY <1>1, <1>4
  <2>2. Unreadable
    BY <2>1 DEF Unreadable
  <2>3. Unreadable'
    <3>1. CASE lines' = Append(front, Garbage)
      <4>1. i \in 1 .. Len(lines') /\ i < Len(lines') /\ lines'[i] = Garbage
        BY <1>1, <1>4, <3>1
      <4> QED BY <4>1 DEF Unreadable
    <3>2. CASE lines' = front /\ tail' = "torn"
      <4>1. i \in 1 .. Len(lines') /\ lines'[i] = Garbage
        BY <1>1, <1>4, <3>2
      <4> QED BY <3>2, <4>1 DEF Unreadable
    <3> QED BY <3>1, <3>2 DEF front
  <2> QED BY <2>2, <2>3 DEF Durable
<1>5. ASSUME \A i \in DOMAIN front : front[i] # Garbage
      PROVE  Durable' = Durable \/ Promise!Undo
  <2>1. front \in Seq(JournalRecords)
    <3>1. \A i \in DOMAIN front : front[i] \in JournalRecords
      BY <1>1, <1>5
    <3> QED BY <1>1, <3>1
  <2>2. lines \in Seq(JournalRecords)
    BY <1>1, <2>1
  <2>3. Durable = Replayed(FactsOf(front), last)
    BY <1>1, <2>1, <2>2, RecordsAreReadable, AppendReplays
  <2>4. Durable' = FactsOf(front)
    <3>1. CASE lines' = Append(front, Garbage) /\ tail' = "whole"
      <4>1. Len(lines') = Len(front) + 1 /\ lines' # <<>> /\ Len(front) \in Nat
            /\ lines'[Len(lines')] = Garbage
            /\ \A i \in 1 .. Len(lines') : lines'[i] = Garbage => i = Len(lines')
        BY <1>1, <1>5, <2>1, <3>1
      <4>2. ~Unreadable'
        BY <3>1, <4>1 DEF Unreadable
      <4>3. Last(lines') = Garbage /\ Front(lines') = front
        BY <2>1, <3>1, FrontAppended
      <4>4. Intact' = front
        BY <4>1, <4>3 DEF Intact
      <4> QED BY <4>2, <4>4 DEF Durable
    <3>2. CASE lines' = front
      <4>1. Readable'
        BY <2>1, <3>2 DEF Readable
      <4>2. Says'
        BY <4>1, ReadableSays, PTL
      <4> QED BY <3>2, <4>2 DEF Says
    <3> QED BY <3>1, <3>2 DEF front
  <2>5. CASE last.kind = "unmap"
    <3>1. Durable = Durable' \ {Record("map", last.about)}
      BY <2>3, <2>4, <2>5 DEF Replayed
    <3>2. Durable' = Durable \/ Durable' = Durable \cup {Record("map", last.about)}
      BY <3>1
    <3>3. Record("map", last.about) \in Facts /\ Record("map", last.about).kind = "map"
      <4>1. PICK k \in ObjectSet : last = Record("unmap", k)
        BY <1>1, <2>5, Unmaps
      <4> QED BY <4>1, RecordFields DEF Facts
    <3> QED BY <3>2, <3>3 DEF Promise!Undo
  <2>6. CASE last.kind # "unmap"
    <3>1. Durable = Durable' \cup {last}
      BY <2>3, <2>4, <2>6 DEF Replayed
    <3>2. Durable' = Durable \/ Durable' = Durable \ {last}
      BY <3>1
    <3>3. last \in Facts
      BY <1>1, <2>6, KindsOfRecords
    <3> QED BY <3>2, <3>3 DEF Promise!Undo
  <2> QED BY <2>5, <2>6
<1> QED BY <1>2, <1>3, <1>4, <1>5

\* What a step may do to what the file says.
Recorded == UNCHANGED <<Durable, Spoiled, loaded>> \/ Promise!RecordStep

\* What a process may write: the binding first, and once.
MaySay(r) ==
  /\ r \in JournalRecords
  /\ IF r.kind = "bound" THEN memory = {} ELSE \E f \in memory : f.kind = "bound"

LEMMA SameFile ==
  ASSUME UNCHANGED <<lines, tail, loaded>>
  PROVE  Recorded
BY DEF Recorded, Durable, Spoiled, Unreadable, Intact

\* A record that is read back is one fact more, or one mapping less.
LEMMA OneMore ==
  ASSUME NEW r, MaySay(r), Durable = memory, Durable' = Replayed(memory, r)
  PROVE  UNCHANGED Durable \/ Promise!Change
<1>1. r \in JournalRecords /\ (r.kind # "unmap" => r \in Facts)
  BY KindsOfRecords DEF MaySay
<1>2. CASE r.kind = "unmap"
  <2>1. Durable' = Durable \ {Record("map", r.about)}
    BY <1>2 DEF Replayed
  <2>2. Record("map", r.about) \in Facts
    <3>1. PICK k \in ObjectSet : r = Record("unmap", k)
      BY <1>1, <1>2, Unmaps
    <3> QED BY <3>1, RecordFields DEF Facts
  <2>3. CASE Record("map", r.about) \in Durable
    BY <2>1, <2>2, <2>3, RecordFields DEF Promise!Change, Promise!Retire
  <2> QED BY <2>1, <2>3
<1>3. CASE r.kind = "bound"
  <2>1. Durable = {} /\ Durable' = {r} /\ r \in Facts
    BY <1>1, <1>3 DEF Replayed, MaySay
  <2> QED BY <1>3, <2>1 DEF Promise!Change, Promise!Bind
<1>4. CASE r.kind \notin {"unmap", "bound"}
  <2>1. Durable' = Durable \cup {r} /\ r \in Facts /\ Promise!Bound # {}
    BY <1>1, <1>4 DEF Replayed, MaySay, Promise!Bound
  <2>2. CASE r \in Durable
    BY <2>1, <2>2
  <2>3. CASE r \notin Durable
    BY <1>4, <2>1, <2>3 DEF Promise!Change, Promise!Add
  <2> QED BY <2>2, <2>3
<1> QED BY <1>2, <1>3, <1>4

\* The file is opened.
LEMMA LoadRecords ==
  ASSUME FileInv, ~loaded, Load
  PROVE  FileInv' /\ Recorded
<1>1. ~Unreadable /\ memory' = FactsOf(Intact) /\ lines' = Intact /\ tail' = TailLoaded /\ loaded'
      /\ loaded' \in BOOLEAN
  BY DEF Load
<1>2. CASE ~Spoiled
  <2>1. lines \in Seq(JournalRecords) /\ tail \in {"whole", "torn"} /\ Durable = FactsOf(lines)
    BY <1>2, CleanLines
  <2>2. Intact = lines
    BY <2>1, RecordsAreReadable
  <2>3. lines' = lines /\ tail' = "whole" /\ memory' = FactsOf(lines')
    BY <1>1, <2>1, <2>2 DEF TailLoaded
  <2>4. ~Spoiled'
    BY <1>2, <2>3 DEF Spoiled
  <2>5. FileInv'
    BY <1>1, <2>3 DEF FileInv
  <2>6. Durable' = Durable
    <3>1. Readable'
      BY <2>1, <2>3 DEF Readable
    <3>2. Says'
      BY <3>1, ReadableSays, PTL
    <3> QED BY <2>1, <2>3, <3>2 DEF Says
  <2> QED BY <1>1, <1>2, <2>4, <2>5, <2>6 DEF Recorded, Promise!RecordStep, Promise!Open
<1>3. CASE lines # <<>> /\ lines[Len(lines)] = Garbage
  <2>1. Intact = Front(lines)
    BY <1>3 DEF Intact, Last
  <2>2. /\ Len(lines) \in Nat \ {0} /\ DOMAIN lines = 1 .. Len(lines)
        /\ lines' = Front(lines) /\ lines' \in Seq(JournalRecords \cup {Garbage})
        /\ Len(lines') = Len(lines) - 1 /\ DOMAIN lines' = 1 .. (Len(lines) - 1)
        /\ \A i \in DOMAIN lines' : lines'[i] = lines[i]
    BY <1>1, <1>3, <2>1, FrontOf DEF FileInv
  <2>3. tail = "whole"
    <3>1. Len(lines) \in 1 .. Len(lines)
      BY <2>2
    <3> QED BY <1>1, <1>3, <3>1 DEF Unreadable, FileInv
  <2>4. Intact # lines
    BY <1>1, <2>2
  <2>5. tail' = "whole"
    BY <1>1, <2>4 DEF TailLoaded
  <2>6. \A i \in DOMAIN lines' : lines'[i] # Garbage
    BY <1>1, <2>2 DEF Unreadable
  <2>7. ~Spoiled'
    BY <2>5, <2>6 DEF Spoiled
  <2>8. FileInv'
    BY <1>1, <2>2, <2>5 DEF FileInv
  <2>9. Durable' = Durable
    <3>1. \A i \in DOMAIN lines' : lines'[i] \in JournalRecords
      BY <2>2, <2>6
    <3>2. Readable'
      BY <2>2, <3>1 DEF Readable
    <3>3. Says'
      BY <3>2, ReadableSays, PTL
    <3> QED BY <1>1, <3>3 DEF Durable, Says
  <2> QED BY <1>1, <2>7, <2>8, <2>9 DEF Recorded, Promise!RecordStep, Promise!Open
<1>4. CASE Spoiled /\ ~(lines # <<>> /\ lines[Len(lines)] = Garbage)
  <2>1. \A i \in DOMAIN lines : lines[i] # Garbage
    <3>1. SUFFICES ASSUME NEW i \in DOMAIN lines, lines[i] = Garbage PROVE FALSE
      OBVIOUS
    <3>2. i \in 1 .. Len(lines) /\ Len(lines) \in Nat /\ lines # <<>>
      BY DEF FileInv
    <3>3. i < Len(lines)
      BY <1>4, <3>1, <3>2
    <3> QED BY <1>1, <3>1, <3>2, <3>3 DEF Unreadable
  <2>2. tail = "bare"
    BY <1>4, <2>1 DEF Spoiled
  <2>3. Intact = lines
    BY <1>4 DEF Intact, Last
  <2>4. UNCHANGED <<lines, tail>>
    BY <1>1, <2>2, <2>3 DEF TailLoaded
  <2>5. Spoiled' /\ Durable' = Durable
    BY <1>4, <2>4 DEF Spoiled, Durable, Unreadable, Intact
  <2>6. FileInv'
    BY <1>1, <2>2, <2>4, <2>5 DEF FileInv
  <2> QED BY <1>1, <1>4, <2>5, <2>6 DEF Recorded, Promise!RecordStep, Promise!Open
<1> QED BY <1>2, <1>3, <1>4

\* A record is written.
LEMMA RememberRecords ==
  ASSUME FileInv, NEW r, MaySay(r), Remember(r)
  PROVE  FileInv' /\ Recorded
<1>1. /\ loaded /\ loaded' /\ loaded' \in BOOLEAN /\ lines' = WithLine(r) /\ tail' = "whole"
      /\ memory' = Replayed(memory, r) /\ r \in JournalRecords /\ tail \in {"whole", "bare"}
  BY DEF Remember, AppendLine, MaySay, FileInv
<1>2. CASE ~Spoiled
  <2>1. lines \in Seq(JournalRecords) /\ tail = "whole" /\ Durable = FactsOf(lines)
        /\ memory = FactsOf(lines)
    BY <1>1, <1>2, CleanLines DEF FileInv
  <2>2. lines' = Append(lines, r) /\ lines' \in Seq(JournalRecords)
    BY <1>1, <2>1 DEF WithLine
  <2>3. memory' = FactsOf(lines')
    BY <1>1, <2>1, <2>2, AppendReplays
  <2>4. FileInv'
    BY <1>1, <2>2, <2>3 DEF FileInv
  <2>5. ~Spoiled'
    <3>1. \A i \in DOMAIN lines' : lines'[i] # Garbage
      BY <2>2, KindsOfRecords
    <3> QED BY <1>1, <3>1 DEF Spoiled
  <2>6. Durable' = memory'
    <3>1. Readable'
      BY <2>2 DEF Readable
    <3>2. Says'
      BY <3>1, ReadableSays, PTL
    <3> QED BY <2>3, <3>2 DEF Says
  <2>7. UNCHANGED Durable \/ Promise!Change
    BY <1>1, <2>1, <2>6, OneMore
  <2>8. Spoiled' = Spoiled /\ loaded' = loaded
    BY <1>1, <1>2, <2>5 DEF Spoiled, FileInv
  <2> QED BY <1>1, <1>2, <2>4, <2>5, <2>7, <2>8 DEF Recorded, Promise!RecordStep, Promise!Write
<1>3. CASE Spoiled /\ tail = "whole"
  <2>1. PICK i \in DOMAIN lines : lines[i] = Garbage
    BY <1>3 DEF Spoiled
  <2>2. lines' = Append(lines, r)
    BY <1>1, <1>3 DEF WithLine
  <2>3. Spoiled' /\ Durable' = {}
    BY <1>1, <2>1, <2>2, BehindGarbage
  <2>4. FileInv'
    BY <1>1, <2>2, <2>3 DEF FileInv
  <2> QED BY <1>1, <1>3, <2>3, <2>4
          DEF Recorded, Promise!RecordStep, Promise!Write, Promise!Undo
<1>4. CASE tail = "bare"
  <2>1. lines' = Append(Front(lines), Garbage)
    BY <1>1, <1>4 DEF WithLine
  <2>2. /\ lines' \in Seq(JournalRecords \cup {Garbage})
        /\ Durable' = Durable \/ Promise!Undo
        /\ Spoiled'
    BY <1>1, <1>4, <2>1, LastLineUndone
  <2>3. FileInv'
    BY <1>1, <2>2 DEF FileInv
  <2>4. Spoiled
    BY <1>4 DEF Spoiled
  <2> QED BY <1>1, <2>2, <2>3, <2>4 DEF Recorded, Promise!RecordStep, Promise!Write
<1> QED BY <1>1, <1>2, <1>3, <1>4

\* The process ends, in the middle of a record or not.
LEMMA DyingRecords ==
  ASSUME FileInv, DieIdle \/ \E r : MaySay(r) /\ DieWriting(r)
  PROVE  FileInv' /\ Recorded /\ ~loaded' /\ memory' = {}
<1>1. ~loaded' /\ loaded' \in BOOLEAN /\ memory' = {}
  BY DEF DieIdle, DieWriting, Close
<1>2. CASE DieIdle
  <2>1. UNCHANGED <<lines, tail>>
    BY <1>2 DEF DieIdle
  <2>2. UNCHANGED <<Durable, Spoiled>>
    BY <2>1 DEF Durable, Spoiled, Unreadable, Intact
  <2>3. FileInv'
    BY <1>1, <2>1 DEF FileInv
  <2>4. loaded \in BOOLEAN
    BY DEF FileInv
  <2> QED BY <1>1, <2>2, <2>3, <2>4 DEF Recorded, Promise!RecordStep, Promise!Die
<1>3. ASSUME NEW r, MaySay(r), DieWriting(r)
      PROVE  FileInv' /\ Recorded
  <2>1. PICK tear \in {"torn", "bare"} : TornLine(r, tear)
    BY <1>3, JournalAssumption DEF DieWriting
  <2>2. loaded /\ r \in JournalRecords /\ tail \in {"whole", "bare"}
    BY <1>3 DEF DieWriting, MaySay, FileInv
  <2>3. CASE ~Spoiled
    <3>1. lines \in Seq(JournalRecords) /\ tail = "whole" /\ Durable = FactsOf(lines)
          /\ memory = FactsOf(lines)
      BY <2>2, <2>3, CleanLines DEF FileInv
    <3>2. CASE tear = "torn"
      <4>1. lines' = lines /\ tail' = "torn"
        BY <2>1, <3>1, <3>2 DEF TornLine
      <4>2. ~Spoiled'
        BY <2>3, <4>1 DEF Spoiled
      <4>3. FileInv'
        BY <1>1, <3>1, <4>1 DEF FileInv
      <4>4. Durable' = Durable
        <5>1. Readable'
          BY <3>1, <4>1 DEF Readable
        <5>2. Says'
          BY <5>1, ReadableSays, PTL
        <5> QED BY <3>1, <4>1, <5>2 DEF Says
      <4>5. Spoiled' = Spoiled
        BY <2>3, <4>2 DEF Spoiled
      <4> QED BY <1>1, <2>2, <4>3, <4>4, <4>5 DEF Recorded, Promise!RecordStep, Promise!Die
    <3>3. CASE tear = "bare"
      <4>1. lines' = Append(lines, r) /\ tail' = "bare" /\ lines' \in Seq(JournalRecords)
        BY <2>1, <2>2, <3>1, <3>3 DEF TornLine
      <4>2. Spoiled'
        BY <4>1 DEF Spoiled
      <4>3. lines' # <<>> /\ lines'[Len(lines')] = r /\ r # Garbage
        BY <2>2, <3>1, <4>1, KindsOfRecords
      <4>4. FileInv'
        BY <1>1, <4>1, <4>2, <4>3 DEF FileInv
      <4>5. Durable' = FactsOf(lines')
        <5>1. Readable'
          BY <4>1 DEF Readable
        <5>2. Says'
          BY <5>1, ReadableSays, PTL
        <5> QED BY <5>2 DEF Says
      <4>6. Durable' = Replayed(memory, r)
        BY <2>2, <3>1, <4>1, <4>5, AppendReplays
      <4>7. UNCHANGED Durable \/ Promise!Change
        BY <1>3, <3>1, <4>6, OneMore
      <4> QED BY <1>1, <2>2, <2>3, <4>2, <4>4, <4>7 DEF Recorded, Promise!RecordStep, Promise!Die
    <3> QED BY <3>2, <3>3
  <2>4. CASE Spoiled /\ tail = "whole"
    <3>1. PICK i \in DOMAIN lines : lines[i] = Garbage
      BY <2>4 DEF Spoiled
    <3>2. \/ tear = "torn" /\ lines' = lines /\ tail' = "torn"
          \/ lines' = Append(lines, r) /\ tail' = "bare"
      BY <2>1, <2>4 DEF TornLine
    <3>3. Spoiled' /\ Durable' = {}
      BY <2>2, <3>1, <3>2, BehindGarbage
    <3>4. FileInv'
      <4>1. r # Garbage
        BY <2>2, KindsOfRecords
      <4>2. CASE lines' = lines
        BY <1>1, <3>2, <3>3, <4>2 DEF FileInv
      <4>3. CASE lines' = Append(lines, r)
        <5>1. lines' \in Seq(JournalRecords \cup {Garbage}) /\ lines' # <<>>
              /\ lines'[Len(lines')] = r
          BY <2>2, <4>3 DEF FileInv
        <5> QED BY <1>1, <3>2, <3>3, <4>1, <5>1 DEF FileInv
      <4> QED BY <3>2, <4>2, <4>3
    <3> QED BY <1>1, <2>2, <2>4, <3>3, <3>4
            DEF Recorded, Promise!RecordStep, Promise!Die, Promise!Undo
  <2>5. CASE tail = "bare"
    <3>1. lines' = Front(lines) /\ tail' = "torn"
      BY <2>1, <2>5 DEF TornLine
    <3>2. /\ lines' \in Seq(JournalRecords \cup {Garbage})
          /\ Durable' = Durable \/ Promise!Undo
      BY <2>5, <3>1, LastLineUndone
    <3>3. FileInv'
      BY <1>1, <3>1, <3>2 DEF FileInv
    <3>4. Spoiled /\ Spoiled' \in BOOLEAN
      BY <2>5 DEF Spoiled
    <3>5. Promise!Undo \/ Durable' = Durable
      BY <3>2
    <3> QED BY <1>1, <2>2, <3>3, <3>4, <3>5
            DEF Recorded, Promise!RecordStep, Promise!Die, Promise!Undo
  <2> QED BY <2>2, <2>3, <2>4, <2>5
<1> QED BY <1>1, <1>2, <1>3

\* What the file and its process have ever been told.
Told == memory \cup {lines[i] : i \in DOMAIN lines}

LEMMA OnlyTold ==
  ASSUME FileInv, NEW r,
         \/ UNCHANGED journalVars \/ Load \/ DieIdle
         \/ Remember(r) \/ DieWriting(r)
  PROVE  Told' \subseteq Told \cup {r, Garbage}
<1>1. ASSUME lines # <<>>
      PROVE  \A i \in DOMAIN Front(lines) : i \in DOMAIN lines /\ Front(lines)[i] = lines[i]
  <2>1. /\ Len(lines) \in Nat \ {0} /\ DOMAIN lines = 1 .. Len(lines)
        /\ DOMAIN Front(lines) = 1 .. (Len(lines) - 1)
        /\ \A i \in DOMAIN Front(lines) : Front(lines)[i] = lines[i]
    BY <1>1, FrontOf DEF FileInv
  <2> QED BY <2>1
<1>2. ASSUME NEW records, NEW S, records \in Seq(S), NEW e
      PROVE  \A i \in DOMAIN Append(records, e) :
               \/ Append(records, e)[i] = e
               \/ i \in DOMAIN records /\ Append(records, e)[i] = records[i]
  BY <1>2
<1>3. lines \in Seq(JournalRecords \cup {Garbage})
  BY DEF FileInv
<1>4. lines # <<>> => Front(lines) \in Seq(JournalRecords \cup {Garbage})
  BY <1>3, FrontOf
<1>5. CASE UNCHANGED journalVars \/ DieIdle
  BY <1>5 DEF journalVars, DieIdle, Close, Told
<1>6. CASE Load
  <2>1. lines' = Intact /\ memory' = FactsOf(Intact)
    BY <1>6 DEF Load
  <2>2. \A i \in DOMAIN Intact : i \in DOMAIN lines /\ Intact[i] = lines[i]
    BY <1>1 DEF Intact
  <2> QED BY <2>1, <2>2 DEF Told, FactsOf
<1>7. CASE Remember(r)
  <2>1. memory' \subseteq memory \cup {r} /\ lines' = WithLine(r)
    BY <1>7 DEF Remember, Replayed, AppendLine
  <2>2. tail \in {"whole", "torn", "bare"} /\ (tail = "bare" => lines # <<>>)
    BY DEF FileInv
  <2>3. \/ lines' = Append(lines, r) \/ lines' = Append(lines, Garbage)
        \/ lines # <<>> /\ lines' = Append(Front(lines), Garbage)
    BY <2>1, <2>2 DEF WithLine
  <2>4. CASE lines' = Append(lines, r)
    BY <1>2, <1>3, <2>1, <2>4 DEF Told
  <2>5. CASE lines' = Append(lines, Garbage)
    BY <1>2, <1>3, <2>1, <2>5 DEF Told
  <2>6. CASE lines # <<>> /\ lines' = Append(Front(lines), Garbage)
    <3>1. \A i \in DOMAIN lines' : lines'[i] = Garbage
             \/ \E j \in DOMAIN lines : lines'[i] = lines[j]
      BY <1>1, <1>2, <1>4, <2>6
    <3> QED BY <2>1, <3>1 DEF Told
  <2> QED BY <2>3, <2>4, <2>5, <2>6
<1>8. CASE DieWriting(r)
  <2>1. memory' = {} /\ \E tear \in Tears : TornLine(r, tear)
    BY <1>8 DEF DieWriting, Close
  <2>2. tail = "bare" => lines # <<>>
    BY DEF FileInv
  <2>3. \/ lines' = lines \/ lines' = Append(lines, r)
        \/ lines # <<>> /\ lines' = Front(lines)
    BY <2>1, <2>2 DEF TornLine
  <2>4. CASE lines' = Append(lines, r)
    BY <1>2, <1>3, <2>1, <2>4 DEF Told
  <2>5. CASE lines' = lines
    BY <2>1, <2>5 DEF Told
  <2>6. CASE lines # <<>> /\ lines' = Front(lines)
    BY <1>1, <2>1, <2>6 DEF Told
  <2> QED BY <2>3, <2>4, <2>5, <2>6
<1> QED BY <1>5, <1>6, <1>7, <1>8

\* Once it is past the refusals, a restore has one source, which is not its
\* target; once it is bound, its process knows it, and so does the file.
Opened == {"restore count", "restore bind"} \cup Executing
Accepted == {"restore journal"} \cup Opened

RestoreInv ==
  /\ session \in DOMAIN Sessions
  /\ pc # "shell" => line \in Session.lines
  /\ content \in [Organizations -> SUBSET ObjectSet]
  /\ FileInv
  /\ loaded => pc \in Opened
  /\ pc \in Accepted => ~RestoreRefusal
  /\ pc \in Executing => Record("bound", RestoreClaim) \in memory
  /\ pc = "restore bind" /\ Sanitized(line.snapshot) =>
       memory # {} \/ line.target \notin Populated
  /\ \A o : Record("bound", <<o, "pseudonym">>) \in Told => o \notin Populated

\* What a step may do to the organizations.
BoundWrite ==
  \A o \in Organizations :
    ~(content'[o] \subseteq content[o]) =>
      /\ o = line.target /\ o \notin RecordedOrgs(line.snapshot)
      /\ Spoiled \/ Record("bound", <<o, RecordedOrg>>) \in Durable
      /\ Sanitized(line.snapshot) => o \notin Populated

LEMMA OneSource ==
  ASSUME ~RestoreRefusal
  PROVE  /\ RecordedOrg \in {Source, "pseudonym"} /\ RecordedOrgs(line.snapshot) = {RecordedOrg}
         /\ RecordedOrg = "pseudonym" <=> Sanitized(line.snapshot)
<1>1. CASE line.snapshot = "sanitized"
  BY <1>1 DEF RecordedOrg, RecordedOrgs, Sanitized
<1>2. CASE line.snapshot = "several"
  <2>1. ~(Cardinality({Source, "other"}) > 1)
    BY <1>2 DEF RestoreRefusal, RecordedOrgs
  <2>2. Source = "other"
    <3>1. ASSUME Source # "other" PROVE Cardinality({Source, "other"}) = 2
      <4>1. Cardinality({Source}) = 1 /\ IsFiniteSet({Source})
        BY FS_Singleton
      <4>2. {Source, "other"} = {Source} \cup {"other"}
        OBVIOUS
      <4> QED BY <3>1, <4>1, <4>2, FS_AddElement
    <3> QED BY <2>1, <3>1
  <2> QED BY <1>2, <2>2, RestoreAssumption DEF RecordedOrg, RecordedOrgs, Sanitized
<1>3. CASE line.snapshot \notin {"sanitized", "several"}
  BY <1>3, RestoreAssumption DEF RecordedOrg, RecordedOrgs, Sanitized
<1> QED BY <1>1, <1>2, <1>3

LEMMA ObjectRecords ==
  ASSUME NEW k \in ObjectSet, NEW kind \in {"attempt", "done", "map", "unmap"}
  PROVE  Record(kind, k) \in JournalRecords
BY DEF JournalRecords, Facts

\* A step of the file, with what it adds known not to be the binding of a
\* sanitized snapshot to an organization in use.
LEMMA FileSteps ==
  ASSUME RestoreInv, FileInv', Recorded, session' = session, UNCHANGED content,
         NEW r, Told' \subseteq Told \cup {r, Garbage},
         \A o : r = Record("bound", <<o, "pseudonym">>) => o \notin Populated,
         pc' # "shell" => line' \in Session.lines,
         loaded' => pc' \in Opened,
         pc' \in Accepted => ~RestoreRefusal',
         pc' \in Executing => Record("bound", RestoreClaim)' \in memory',
         pc' = "restore bind" /\ Sanitized(line'.snapshot) =>
           memory' # {} \/ line'.target \notin Populated
  PROVE  RestoreInv' /\ Recorded /\ BoundWrite
<1>1. BoundWrite
  BY DEF BoundWrite
<1>2. \A o : Record("bound", <<o, "pseudonym">>) # Garbage
  BY DEF Record, Garbage
<1>3. \A o : Record("bound", <<o, "pseudonym">>) \in Told' => o \notin Populated
  BY <1>2 DEF RestoreInv
<1> QED BY <1>1, <1>3 DEF RestoreInv, Session

\* What changes neither the file nor an organization.
LEMMA NothingRecorded ==
  ASSUME RestoreInv, session' = session, UNCHANGED <<journalVars, content>>,
         pc' # "shell" => line' \in Session.lines,
         loaded => pc' \in Opened,
         pc' \in Accepted => ~RestoreRefusal',
         pc' \in Executing => Record("bound", RestoreClaim)' \in memory,
         pc' = "restore bind" /\ Sanitized(line'.snapshot) =>
           memory # {} \/ line'.target \notin Populated
  PROVE  RestoreInv' /\ Recorded /\ BoundWrite
<1>1. UNCHANGED <<lines, tail, memory, loaded>>
  BY DEF journalVars
<1>2. Recorded
  BY <1>1, SameFile
<1>3. FileInv'
  BY <1>1 DEF RestoreInv, FileInv, Spoiled
<1>4. Told' \subseteq Told \cup {Garbage}
  BY <1>1 DEF Told
<1>5. \A o : Record("bound", <<o, "pseudonym">>) # Garbage
  BY DEF Record, Garbage
<1> QED BY <1>1, <1>2, <1>3, <1>4, <1>5, FileSteps

\* The process ends.
LEMMA DyingKeeps ==
  ASSUME RestoreInv, session' = session, UNCHANGED content, pc' = "shell",
         \/ DieIdle
         \/ \E r : /\ MaySay(r) /\ DieWriting(r)
                  /\ \A o : r = Record("bound", <<o, "pseudonym">>) => o \notin Populated
  PROVE  RestoreInv' /\ Recorded /\ BoundWrite
<1>1. FileInv' /\ Recorded /\ ~loaded'
  BY DyingRecords DEF RestoreInv
<1>2. pc' \notin Accepted
  BY DEF Accepted, Opened, Executing
<1>3. \E r : /\ Told' \subseteq Told \cup {r, Garbage}
             /\ \A o : r = Record("bound", <<o, "pseudonym">>) => o \notin Populated
  <2>1. CASE DieIdle
    <3>1. Told' \subseteq Told \cup {Garbage, Garbage}
      BY <2>1, OnlyTold DEF RestoreInv
    <3>2. \A o : Record("bound", <<o, "pseudonym">>) # Garbage
      BY DEF Record, Garbage
    <3> QED BY <3>1, <3>2
  <2>2. ASSUME NEW r, DieWriting(r),
               \A o : r = Record("bound", <<o, "pseudonym">>) => o \notin Populated
        PROVE  \E r_2 : /\ Told' \subseteq Told \cup {r_2, Garbage}
                        /\ \A o : r_2 = Record("bound", <<o, "pseudonym">>) => o \notin Populated
    <3>1. Told' \subseteq Told \cup {r, Garbage}
      BY <2>2, OnlyTold DEF RestoreInv
    <3> QED BY <2>2, <3>1
  <2> QED BY <2>1, <2>2
<1> QED BY <1>1, <1>2, <1>3, FileSteps DEF Accepted, Opened, Executing

\* The refusals, the journal, the count.
LEMMA RestoreOpens ==
  ASSUME RestoreInv, Restore \/ RestoreLoad \/ RestoreJournalOpens \/ RestoreCount
  PROVE  RestoreInv' /\ Recorded /\ BoundWrite
<1> USE DEF Accepted, Opened, Executing
<1>1. /\ session' = session /\ pc # "shell" /\ line \in Session.lines
      /\ pc' = "shell" \/ line' = line
  <2>1. RestoreStep
    BY DEF RestoreStep
  <2> QED BY <2>1, RestoreGoes DEF Along, RestoreStations, RestoreInv
<1>2. CASE Restore
  <2>1. /\ pc' \in {"shell", "restore load"} /\ pc = "restore"
        /\ UNCHANGED <<journalVars, content>>
    BY <1>2 DEF Restore, BuildDispatcher, Goto, Fails, Leave, restoreVars
  <2>2. ~loaded
    BY <2>1 DEF RestoreInv
  <2> QED BY <1>1, <2>1, <2>2, NothingRecorded
<1>3. CASE RestoreLoad
  <2>1. /\ UNCHANGED <<journalVars, content>> /\ pc' \in {"shell", "restore journal"}
        /\ pc = "restore load"
    BY <1>3 DEF RestoreLoad, Fails, Leave, Proceeds, Goto, restoreVars
  <2>2. pc' # "shell" => ~RestoreRefusal /\ line' = line
    BY <1>1, <1>3 DEF RestoreLoad, Fails, Leave
  <2>3. pc' # "shell" => ~RestoreRefusal'
    BY <2>2 DEF RestoreRefusal
  <2>4. ~loaded
    BY <2>1 DEF RestoreInv
  <2> QED BY <1>1, <2>1, <2>3, <2>4, NothingRecorded
<1>4. CASE RestoreJournalOpens
  <2>1. /\ pc = "restore journal" /\ ~RestoreRefusal /\ UNCHANGED content /\ FileInv
        /\ ~loaded
    BY <1>4 DEF RestoreJournalOpens, restoreVars, RestoreInv
  <2>2. CASE Unreadable
    <3>1. pc' = "shell" /\ UNCHANGED journalVars
      BY <1>4, <2>2 DEF RestoreJournalOpens, Fails, Leave
    <3> QED BY <1>1, <2>1, <3>1, NothingRecorded
  <2>3. CASE ~Unreadable
    <3>1. /\ Load /\ line' = line
          /\ pc' = IF Sanitized(line.snapshot) /\ Fresh THEN "restore count" ELSE "restore bind"
      BY <1>4, <2>3 DEF RestoreJournalOpens, Goto
    <3>2. FileInv' /\ Recorded
      BY <2>1, <3>1, LoadRecords
    <3>3. ~RestoreRefusal'
      BY <2>1, <3>1 DEF RestoreRefusal
    <3>4. pc' = "restore bind" /\ Sanitized(line'.snapshot) => memory' # {}
      BY <3>1 DEF Fresh
    <3>5. pc' \in {"restore count", "restore bind"}
      BY <3>1
    <3>6. Told' \subseteq Told \cup {Garbage, Garbage}
      BY <2>1, <3>1, OnlyTold
    <3>7. \A o : Garbage # Record("bound", <<o, "pseudonym">>)
      BY DEF Record, Garbage
    <3> QED BY <1>1, <2>1, <3>1, <3>2, <3>3, <3>4, <3>5, <3>6, <3>7, FileSteps
  <2> QED BY <2>2, <2>3
<1>5. CASE RestoreCount
  <2>1. pc = "restore count" /\ ~RestoreRefusal /\ UNCHANGED content
    BY <1>5 DEF RestoreCount, RestoreInv
  <2>2. CASE pc' = "shell" /\ DieIdle
    BY <1>1, <2>1, <2>2, DyingKeeps
  <2>3. CASE Empty(line.target) /\ Proceeds("restore bind") /\ UNCHANGED journalVars
    <3>1. pc' = "restore bind" /\ line' = line /\ line.target \notin Populated
      BY <2>3 DEF Proceeds, Goto, Empty
    <3>2. ~RestoreRefusal'
      BY <2>1, <3>1 DEF RestoreRefusal
    <3> QED BY <1>1, <2>1, <2>3, <3>1, <3>2, NothingRecorded
  <2> QED BY <1>5, <2>2, <2>3 DEF RestoreCount, Fails, Leave
<1> QED BY <1>2, <1>3, <1>4, <1>5

\* The binding a restore is about to write is not of a sanitized snapshot to
\* an organization in use.
LEMMA ClaimIsSafe ==
  ASSUME RestoreInv, pc = "restore bind", memory = {}, NEW o,
         Record("bound", RestoreClaim) = Record("bound", <<o, "pseudonym">>)
  PROVE  o \notin Populated
<1>1. <<o, "pseudonym">> = <<line.target, RecordedOrg>>
  <2>1. Record("bound", RestoreClaim).about = RestoreClaim
    BY RecordFields
  <2>2. Record("bound", <<o, "pseudonym">>).about = <<o, "pseudonym">>
    BY RecordFields
  <2> QED BY <2>1, <2>2 DEF RestoreClaim
<1>2. ~RestoreRefusal
  BY DEF RestoreInv, Accepted, Opened
<1>3. o = line.target /\ Sanitized(line.snapshot)
  BY <1>1, <1>2, OneSource
<1> QED BY <1>3 DEF RestoreInv

LEMMA BindingIsFact ==
  ASSUME NEW o \in Organizations, NEW s \in {Source, "pseudonym"}
  PROVE  Record("bound", <<o, s>>) \in Facts
<1>1. <<o, s>> \in Organizations \X {Source, "pseudonym"}
  OBVIOUS
<1>2. \A claim \in Organizations \X {Source, "pseudonym"} : Record("bound", claim) \in Facts
  BY DEF Facts
<1> QED BY <1>1, <1>2

LEMMA ClaimMaySay ==
  ASSUME RestoreInv, pc = "restore bind", memory = {}
  PROVE  MaySay(Record("bound", RestoreClaim))
<1>1. line \in Session.lines /\ session \in DOMAIN Sessions /\ ~RestoreRefusal
  BY DEF RestoreInv, Accepted, Opened
<1>2. line.target \in Organizations /\ RecordedOrg \in {Source, "pseudonym"}
  BY <1>1, RestoreAssumption, OneSource DEF Session
<1>3. Record("bound", <<line.target, RecordedOrg>>) \in Facts
  BY <1>2, BindingIsFact
<1>4. Record("bound", RestoreClaim) \in JournalRecords
  BY <1>3 DEF JournalRecords, RestoreClaim
<1> QED BY <1>4, RecordFields DEF MaySay

\* The journal is bound to this restore, or was.
LEMMA RestoreBinds ==
  ASSUME RestoreInv, RestoreBind
  PROVE  RestoreInv' /\ Recorded /\ BoundWrite
<1> USE DEF Accepted, Opened, Executing
<1>1. /\ pc = "restore bind" /\ ~RestoreRefusal /\ UNCHANGED <<content, session>>
      /\ line \in Session.lines /\ FileInv
  BY DEF RestoreBind, RestoreInv, Fails, Leave
<1>2. CASE BoundElsewhere(RestoreClaim)
  <2>1. pc' = "shell" /\ DieIdle
    BY <1>2 DEF RestoreBind, Fails, Leave
  <2> QED BY <1>1, <2>1, DyingKeeps
<1>3. CASE ~BoundElsewhere(RestoreClaim)
  <2> DEFINE r == Record("bound", RestoreClaim)
  <2>1. /\ pc' = "restore execute" /\ line' = line
        /\ IF memory = {} THEN Remember(r) ELSE UNCHANGED journalVars
    BY <1>3 DEF RestoreBind
  <2>2. ~RestoreRefusal' /\ r' = r /\ line' \in Session.lines
    BY <1>1, <2>1 DEF RestoreRefusal, RestoreClaim, RecordedOrg
  <2>3. CASE memory # {}
    <3>1. r \in memory /\ UNCHANGED journalVars
      <4>1. {f \in memory : f.kind = "bound"} = {r}
        BY <1>3, <2>3 DEF BoundElsewhere
      <4> QED BY <2>1, <2>3, <4>1
    <3> QED BY <1>1, <2>1, <2>2, <3>1, NothingRecorded
  <2>4. CASE memory = {}
    <3>1. Remember(r) /\ MaySay(r)
      BY <1>1, <2>1, <2>4, ClaimMaySay
    <3>2. FileInv' /\ Recorded
      BY <1>1, <3>1, RememberRecords
    <3>3. r \in memory'
      <4>1. Replayed(memory, r) = memory \cup {r}
        BY RecordFields DEF Replayed
      <4> QED BY <3>1, <4>1 DEF Remember
    <3>4. Told' \subseteq Told \cup {r, Garbage}
      BY <1>1, <3>1, OnlyTold
    <3>5. \A o : r = Record("bound", <<o, "pseudonym">>) => o \notin Populated
      BY <1>1, <2>4, ClaimIsSafe
    <3> HIDE DEF r
    <3> QED BY <1>1, <2>1, <2>2, <3>2, <3>3, <3>4, <3>5, FileSteps DEF r
  <2> QED BY <2>3, <2>4
<1> QED BY <1>2, <1>3

LEMMA ObjectMaySay ==
  ASSUME RestoreInv, pc \in Executing, NEW k \in ObjectSet,
         NEW kind \in {"attempt", "done", "map", "unmap"}
  PROVE  MaySay(Record(kind, k))
BY ObjectRecords, RecordFields DEF MaySay, RestoreInv

\* The objects.
LEMMA ObjectsRecorded ==
  ASSUME RestoreInv, NEW k \in ObjectSet, ObjectStep(k)
  PROVE  RestoreInv' /\ Recorded /\ BoundWrite
<1>1. /\ pc \in Executing /\ pc' \in Executing /\ UNCHANGED <<session, line>>
  BY ObjectStepIs
<1>2. /\ ~RestoreRefusal /\ ~RestoreRefusal' /\ Record("bound", RestoreClaim) \in memory
      /\ Record("bound", RestoreClaim)' = Record("bound", RestoreClaim)
      /\ line \in Session.lines /\ FileInv /\ pc # "shell" /\ pc' # "restore bind"
      /\ pc' \in Opened
  BY <1>1 DEF RestoreInv, Accepted, Opened, Executing, RestoreRefusal, RestoreClaim, RecordedOrg
<1>3. CASE UNCHANGED <<journalVars, content>>
  BY <1>1, <1>2, <1>3, NothingRecorded
<1>4. ASSUME NEW kind \in {"attempt", "done", "map", "unmap"}, Remember(Record(kind, k)),
             UNCHANGED content
      PROVE  RestoreInv' /\ Recorded /\ BoundWrite
  <2> DEFINE r == Record(kind, k)
  <2>1. FileInv' /\ Recorded
    BY <1>1, <1>2, <1>4, ObjectMaySay, RememberRecords
  <2>2. Told' \subseteq Told \cup {r, Garbage}
    BY <1>2, <1>4, OnlyTold
  <2>3. \A o : r # Record("bound", <<o, "pseudonym">>)
    BY RecordFields
  <2>4. Record("bound", RestoreClaim) \in memory'
    <3>1. memory' = Replayed(memory, r)
      BY <1>4 DEF Remember
    <3>2. \A f : f.kind = "bound" /\ f \in memory => f \in Replayed(memory, r)
      BY RecordFields DEF Replayed
    <3> QED BY <1>2, <3>1, <3>2, RecordFields
  <2> HIDE DEF r
  <2> QED BY <1>1, <1>2, <1>4, <2>1, <2>2, <2>3, <2>4, FileSteps
<1>5. CASE UNCHANGED journalVars /\ Creates(k)
  <2>1. UNCHANGED <<lines, tail, memory, loaded>>
    BY <1>5 DEF journalVars
  <2>2. Recorded
    BY <2>1, SameFile
  <2>3. FileInv'
    BY <1>2, <2>1 DEF FileInv, Spoiled
  <2>4. content' \in [Organizations -> SUBSET ObjectSet]
    BY <1>5 DEF RestoreInv, Creates
  <2>5. RestoreInv'
    BY <1>1, <1>2, <2>1, <2>3, <2>4 DEF RestoreInv, Session, Told
  <2>6. ASSUME NEW o \in Organizations, ~(content'[o] \subseteq content[o])
        PROVE  /\ o = line.target /\ o \notin RecordedOrgs(line.snapshot)
               /\ Spoiled \/ Record("bound", <<o, RecordedOrg>>) \in Durable
               /\ Sanitized(line.snapshot) => o \notin Populated
    <3>1. o = line.target
      BY <1>5, <2>6 DEF RestoreInv, Creates
    <3>2. o \notin RecordedOrgs(line.snapshot)
      BY <1>2, <3>1 DEF RestoreRefusal
    <3>3. Record("bound", <<o, RecordedOrg>>) \in memory
      BY <1>2, <3>1 DEF RestoreClaim
    <3>4. Spoiled \/ Record("bound", <<o, RecordedOrg>>) \in Durable
      <4>1. loaded
        BY <1>2 DEF FileInv
      <4>2. ~Spoiled => Durable = memory
        BY <1>2, <4>1, CleanLines DEF FileInv
      <4> QED BY <3>3, <4>2
    <3>5. Sanitized(line.snapshot) => o \notin Populated
      <4>1. SUFFICES ASSUME Sanitized(line.snapshot)
                     PROVE  o \notin Populated
        OBVIOUS
      <4>2. RecordedOrg = "pseudonym"
        BY <1>2, <4>1, OneSource
      <4> QED BY <3>3, <4>2 DEF RestoreInv, Told
    <3> QED BY <3>1, <3>2, <3>4, <3>5
  <2> QED BY <2>2, <2>5, <2>6 DEF BoundWrite
<1> QED BY <1>3, <1>4, <1>5, ObjectStepIs

LEMMA RestoreRecords ==
  ASSUME RestoreInv, RestoreStep
  PROVE  RestoreInv' /\ Recorded /\ BoundWrite
<1>1. CASE Restore \/ RestoreLoad \/ RestoreJournalOpens \/ RestoreCount
  BY <1>1, RestoreOpens
<1>2. CASE RestoreBind
  BY <1>2, RestoreBinds
<1>3. ASSUME NEW k \in ObjectSet, ObjectStep(k)
      PROVE  RestoreInv' /\ Recorded /\ BoundWrite
  BY <1>3, ObjectsRecorded
<1>4. CASE RestoreBreaks \/ RestoreExecuted
  <2>1. pc' = "shell" /\ session' = session /\ DieIdle /\ UNCHANGED content
    BY <1>4 DEF RestoreBreaks, RestoreExecuted, Report, ReportFault, Leave
  <2> QED BY <2>1, DyingKeeps
<1> QED BY <1>1, <1>2, <1>3, <1>4 DEF RestoreStep

\* What a kill may interrupt.
LEMMA WritingMaySay ==
  ASSUME RestoreInv, NEW r \in Writing
  PROVE  MaySay(r) /\ \A o : r = Record("bound", <<o, "pseudonym">>) => o \notin Populated
<1>1. CASE pc = "restore bind" /\ memory = {}
  <2>1. r = Record("bound", RestoreClaim)
    BY <1>1 DEF Writing
  <2> QED BY <1>1, <2>1, ClaimMaySay, ClaimIsSafe
<1>2. CASE ~(pc = "restore bind" /\ memory = {})
  <2>1. PICK k \in ObjectSet : r \in ObjectWriting(k)
    BY <1>2 DEF Writing
  <2>2. PICK kind \in {"unmap", "attempt", "map", "done"} : r = Record(kind, k)
    BY <2>1 DEF ObjectWriting
  <2>3. /\ r.kind = kind
        /\ CASE r.kind = "unmap"   -> Resumed(k) /\ ~Present(k) /\ Journaled("map", k)
             [] r.kind = "attempt" -> Due(k) /\ ~Journaled("attempt", k)
             [] r.kind = "map"     -> pc = "restore record" /\ NextIs(k) /\ ~Journaled("map", k)
             [] r.kind = "done"    -> pc = "restore record" /\ NextIs(k) /\ Journaled("map", k)
    BY <2>1, <2>2, RecordFields DEF ObjectWriting
  <2>4. pc \in Executing
    <3>1. CASE kind = "unmap"
      BY <2>3, <3>1 DEF Resumed, Executing
    <3>2. CASE kind = "attempt"
      BY <2>3, <3>2 DEF Due, Executing
    <3>3. CASE kind \in {"map", "done"}
      BY <2>3, <3>3 DEF Executing
    <3> QED BY <2>2, <3>1, <3>2, <3>3
  <2> QED BY <2>2, <2>4, ObjectMaySay, RecordFields
<1> QED BY <1>1, <1>2

\* The modes a line may have.
LEMMA ModesOfLines ==
  ASSUME NEW c
  PROVE  Mode(c) \in DR_ACTION_FLAGS \cup ReadModes \cup Runs \cup {"usage"}
<1>1. PICK i \in 1 .. 16 : Mode(c) = IF Ladder(c)[i].refused THEN "usage" ELSE Ladder(c)[i].mode
  BY FirstRung
<1>2. Ladder(c)[i].mode \in DR_ACTION_FLAGS \cup ReadModes \cup Runs \cup {"usage"}
  BY DEF Ladder, Rung, DR_ACTION_FLAGS, ReadModes, Runs
<1> QED BY <1>1, <1>2

LEMMA EntersAMode ==
  ASSUME NEW l, Type(l)
  PROVE  pc' \in DR_ACTION_FLAGS \cup ReadModes \cup Runs \cup {"usage", "shell"}
BY ModesOfLines DEF Type

\* The other commands, and what other people do.
LEMMA RestoreApart ==
  ASSUME RestoreInv, session' = session, UNCHANGED journalVars, pc' \notin Accepted, ~loaded,
         pc' # "shell" => line' \in Session.lines, UNCHANGED content
  PROVE  RestoreInv' /\ Recorded /\ BoundWrite
BY NothingRecorded DEF Accepted, Opened

LEMMA SessionRecords ==
  ASSUME RestoreInv, [Next]_vars
  PROVE  RestoreInv' /\ Recorded /\ BoundWrite
<1>1. CASE UNCHANGED vars \/ ChangeDevices
  <2>1. UNCHANGED <<session, line, pc, journalVars, content>>
    BY <1>1 DEF vars, commandVars, restoreVars, ChangeDevices
  <2>2. (RestoreRefusal' <=> RestoreRefusal)
        /\ Record("bound", RestoreClaim)' = Record("bound", RestoreClaim)
    BY <2>1 DEF RestoreRefusal, RestoreClaim, RecordedOrg
  <2> QED BY <2>1, <2>2, NothingRecorded DEF RestoreInv, Session
<1>2. ASSUME NEW l \in Session.lines, Enter, Type(l)
      PROVE  RestoreInv' /\ Recorded /\ BoundWrite
  <2>1. pc' \notin Accepted
    BY <1>2, EntersAMode DEF Accepted, Opened, Executing, DR_ACTION_FLAGS, ReadModes, Runs
  <2>2. /\ session' = session /\ (pc' # "shell" => line' = l) /\ pc = "shell"
        /\ UNCHANGED restoreVars
    BY <1>2 DEF Type, Enter
  <2>3. ~loaded
    BY <2>2 DEF RestoreInv, Opened, Executing
  <2> QED BY <1>2, <2>1, <2>2, <2>3, RestoreApart DEF restoreVars
<1>3. CASE Restoring
  BY <1>3, RestoreRecords DEF Restoring
<1>4. CASE Wiping \/ Healing \/ Replaying \/ Rebuilding \/ Running
  <2>1. UNCHANGED restoreVars
    BY <1>4 DEF Wiping, Healing, Replaying, Rebuilding, Running
  <2>2. /\ session' = session /\ pc' \notin Accepted /\ pc # "shell" /\ pc \notin Opened
        /\ pc' = "shell" \/ line' = line
    BY <1>4, WipeGoes, HealGoes, ReplayGoes, RebuildGoes, RunGoes
       DEF Wiping, Healing, Replaying, Rebuilding, Running, Along, Accepted, Opened, Executing,
       WipeStations, HealStations, ReplayStations, RebuildStations, RunStations, Runs, ReadModes
  <2> QED BY <2>1, <2>2, RestoreApart DEF restoreVars, RestoreInv
<1>5. CASE Kill
  <2>1. /\ pc' = "shell" /\ session' = session /\ UNCHANGED content
        /\ DieIdle \/ \E r \in Writing : DieWriting(r)
    BY <1>5 DEF Kill, Die
  <2> QED BY <2>1, WritingMaySay, DyingKeeps
<1>6. CASE LoseObject
  <2>1. /\ pc = "shell" /\ UNCHANGED <<session, line, pc, journalVars>>
        /\ \E o \in Organizations : \E k \in content[o] :
             content' = [content EXCEPT ![o] = @ \ {k}]
    BY <1>6 DEF LoseObject, commandVars
  <2>2. content' \in [Organizations -> SUBSET ObjectSet] /\ BoundWrite
    BY <2>1 DEF RestoreInv, BoundWrite
  <2>3. UNCHANGED <<lines, tail, memory, loaded>>
    BY <2>1 DEF journalVars
  <2>4. Recorded /\ FileInv' /\ Told' = Told
    BY <2>3, SameFile DEF RestoreInv, FileInv, Spoiled, Told
  <2> QED BY <2>1, <2>2, <2>3, <2>4 DEF RestoreInv, Session, Accepted, Opened, Executing
<1> QED BY <1>1, <1>2, <1>3, <1>4, <1>5, <1>6 DEF Next, Enter

LEMMA RestoreInvariant == Spec => []RestoreInv
<1>1. ASSUME Init PROVE RestoreInv
  <2>1. lines = <<>> /\ tail = "whole" /\ memory = {} /\ loaded = FALSE /\ pc = "shell"
    BY <1>1 DEF Init, NewJournal, CommandInit
  <2>2. <<>> \in Seq(JournalRecords \cup {Garbage})
    BY EmptySeq
  <2>3. FileInv
    BY <2>1, <2>2 DEF FileInv
  <2>4. {lines[i] : i \in DOMAIN lines} = {}
    BY <2>1
  <2>5. Told = {}
    BY <2>1, <2>4 DEF Told
  <2> QED BY <1>1, <2>1, <2>3, <2>5
          DEF Init, CommandInit, RestoreInv, Accepted, Opened, Executing
<1>2. RestoreInv /\ [Next]_vars => RestoreInv'
  BY SessionRecords
<1> QED BY <1>1, <1>2, PTL DEF Spec

\* A restore, in any session, writes only where its line points, never into
\* a recorded source, only under a binding that is on disk unless a kill has
\* spoiled the file, never from a sanitized snapshot into an organization in
\* use.
THEOREM SessionsStayBound == Spec => RestoreStaysBound
<1>1. Spec => []RestoreInv
  BY RestoreInvariant
<1>2. RestoreInv /\ [Next]_vars => [BoundWrite]_content
  BY SessionRecords
<1> QED BY <1>1, <1>2, PTL DEF Spec, RestoreStaysBound, BoundWrite

\* The journal of every session keeps the promises of a set of facts,
\* whatever a kill in an append leaves of the record: RestoreJournal and the
\* commands that write it implement RestoreRecord, whose facts are what the
\* file says.
THEOREM SessionsKeepTheRecord == Spec => JournalImplementsRecord
<1>1. Init => Promise!RecordInit
  <2>1. ASSUME Init PROVE Durable = {} /\ Spoiled = FALSE /\ loaded = FALSE
    <3>1. lines = <<>> /\ tail = "whole" /\ loaded = FALSE
      BY <2>1 DEF Init, NewJournal
    <3> QED BY <3>1 DEF Durable, Unreadable, Intact, FactsOf, Spoiled
  <2> QED BY <2>1 DEF Promise!RecordInit
<1>2. RestoreInv /\ [Next]_vars => [Promise!RecordStep]_<<Durable, Spoiled, loaded>>
  BY SessionRecords DEF Recorded
<1>3. Spec => []RestoreInv
  BY RestoreInvariant
<1> QED BY <1>1, <1>2, <1>3, PTL DEF Spec, JournalImplementsRecord, Promise!RecordSpec

-----------------------------------------------------------------------------
(* What a replay writes, and on what.                                      *)

\* What a hit has to be (WritesReachTheirOwn).
Reaches(hit) ==
  LET a == AssetNamed(hit.asset) IN
  /\ hit.scope \in HomeOf(a, hit)
  /\ hit.kind = "object" /\ hit.named => hit.item = hit.asset
  /\ hit.sanitized =>
       \E n \in SourceNetworks, m \in world[hit.org].networks :
         m.name = Pseudonym(n.name)

\* The call that is about to be made has passed every test, and creates
\* nothing that is there, as far as anybody could see.
Admitted(i) ==
  /\ ~WriteRefused(Action(Assets[i]), TRUE)
  /\ Verb(Assets[i]) = "post" =>
       \/ <<target, Assets[i].name>> \in blind
       \/ copies[<<target, Assets[i].name>>] = 0

Verdicts == {"executed", "failed", "skipped"}
Results ==
  [executed : SUBSET AssetNames, failed : SUBSET AssetNames, skipped : SUBSET AssetNames]

ReplayInv ==
  /\ queue \subseteq PlanReplay(sanitized)
  /\ step \in {"idle", "map", "guard", "check", "call", "done", "refused", "raised"}
  /\ step \in {"guard", "check", "call", "done"} =>
       target \in ReplayTargets /\ networkIds = NetworkIdMap(target, sanitized)
  /\ step \in {"check", "call", "done"} =>
       /\ sanitized => Mapped # {}
       /\ serials \in {world[target].serials, Unverified, {}}
  /\ step = "call" => \A i \in queue : IsNext(i) => Admitted(i)
  /\ copies \in [ReplayTargets \X AssetNames -> 0 .. MaxCopies]
  /\ results \in Results
  /\ WritesReachTheirOwn /\ ReplayCreatesOnce

LEMMA ReachesAll == WritesReachTheirOwn <=> \A hit \in hits : Reaches(hit)
BY DEF WritesReachTheirOwn, Reaches

LEMMA AssetByName ==
  ASSUME NEW i \in DOMAIN Assets
  PROVE  AssetNamed(Assets[i].name) = Assets[i]
BY ReplayAssumption DEF AssetNamed

LEMMA OneIsNext ==
  ASSUME NEW i, NEW j, IsNext(i), IsNext(j), queue \subseteq DOMAIN Assets
  PROVE  i = j
<1>1. i \in Nat /\ j \in Nat
  BY ReplayAssumption DEF IsNext
<1>2. CASE Assets[i].kind = Assets[j].kind
  BY <1>1, <1>2 DEF IsNext, Before
<1>3. CASE Assets[i].kind # Assets[j].kind
  BY <1>3 DEF IsNext, Before
<1> QED BY <1>2, <1>3

\* _join_by_name finds the network itself, or its namesake.
LEMMA JoinedIsOurs ==
  ASSUME NEW org, NEW masked, NEW n \in SourceNetworks,
         Joined(n, masked, world[org].networks) # "none"
  PROVE  \E m \in world[org].networks :
           /\ m.id = Joined(n, masked, world[org].networks)
           /\ (m.id = n.id /\ ~masked) \/ m.name = NameIn(n, masked)
<1> DEFINE nets == world[org].networks
           same == {m \in nets : ~masked /\ m.id = n.id}
           namesakes == {m \in nets : m.name = NameIn(n, masked)}
<1>1. CASE same # {}
  <2>1. Joined(n, masked, nets) = n.id
    BY <1>1 DEF Joined
  <2> QED BY <1>1, <2>1
<1>2. CASE same = {}
  <2>1. Joined(n, masked, nets) =
          IF namesakes # {} THEN (CHOOSE m \in namesakes : TRUE).id ELSE "none"
    BY <1>2 DEF Joined
  <2>2. namesakes # {}
    BY <2>1
  <2>3. (CHOOSE m \in namesakes : TRUE) \in namesakes
    BY <2>2
  <2> QED BY <2>1, <2>2, <2>3
<1> QED BY <1>1, <1>2

LEMMA MappedIsOurs ==
  ASSUME NEW org, NEW masked, NEW id \in {n.id : n \in SourceNetworks},
         NetworkIdMap(org, masked)[id] # "none"
  PROVE  \E n \in SourceNetworks, m \in world[org].networks :
           /\ n.id = id /\ m.id = NetworkIdMap(org, masked)[id]
           /\ (m.id = id /\ ~masked) \/ m.name = NameIn(n, masked)
<1> DEFINE n == CHOOSE n \in SourceNetworks : n.id = id
<1>1. n \in SourceNetworks /\ n.id = id
  OBVIOUS
<1>2. NetworkIdMap(org, masked)[id] = Joined(n, masked, world[org].networks)
  BY DEF NetworkIdMap
<1> HIDE DEF n
<1> QED BY <1>1, <1>2, JoinedIsOurs

\* A call that was admitted reaches what the asset was taken from.
LEMMA AdmittedReaches ==
  ASSUME ReplayInv, step = "call", NEW i \in DOMAIN Assets, Admitted(i)
  PROVE  Reaches(Hit(Action(Assets[i])))
<1> DEFINE a == Assets[i]
           hit == Hit(Action(a))
<1>1. /\ hit.asset = a.name /\ hit.org = target /\ hit.sanitized = sanitized
      /\ hit.kind = (IF a.kind = "gap" THEN "object" ELSE "secrets")
      /\ hit.named = a.named
  BY DEF Hit, Action
<1>2. AssetNamed(hit.asset) = a
  BY <1>1, AssetByName
<1>3. ~ParametersRefused(a) /\ ~ItemRefused(Action(a), TRUE)
  BY DEF Admitted, WriteRefused, Action
<1>4. /\ networkIds = NetworkIdMap(target, sanitized)
      /\ sanitized => Mapped # {}
      /\ serials \in {world[target].serials, Unverified, {}}
  BY DEF ReplayInv
<1>5. hit.scope \in HomeOf(a, hit)
  <2>1. CASE a.scope = "network"
    <3>1. hit.scope = networkIds[a.at] /\ networkIds[a.at] # "none"
      BY <1>3, <2>1 DEF Hit, Action, ParametersRefused
    <3>2. a.at \in {n.id : n \in SourceNetworks}
      BY <2>1, ReplayAssumption
    <3>3. PICK n \in SourceNetworks, m \in world[target].networks :
             /\ n.id = a.at /\ m.id = networkIds[a.at]
             /\ (m.id = a.at /\ ~sanitized) \/ m.name = NameIn(n, sanitized)
      BY <1>4, <3>1, <3>2, MappedIsOurs
    <3>4. HomeOf(a, hit) =
            {m_1.id : m_1 \in {m_1 \in world[hit.org].networks :
               \/ m_1.id = a.at /\ ~hit.sanitized
               \/ \E n_1 \in SourceNetworks :
                    n_1.id = a.at /\ m_1.name = NameIn(n_1, hit.sanitized)}}
      BY <2>1 DEF HomeOf
    <3> HIDE DEF hit
    <3> QED BY <1>1, <3>1, <3>3, <3>4
  <2>2. CASE a.scope = "device"
    <3>1. hit.scope = a.at /\ a.at \in serials
      BY <1>3, <2>2 DEF Hit, Action, ParametersRefused
    <3>2. a.at \in world[target].serials
      BY <1>4, <3>1, ReplayAssumption DEF Unverified
    <3>3. HomeOf(a, hit) = world[hit.org].serials
      BY <2>2 DEF HomeOf
    <3> HIDE DEF hit
    <3> QED BY <1>1, <3>1, <3>2, <3>3
  <2>3. CASE a.scope # "network" /\ a.scope # "device"
    <3>1. hit.scope = target
      BY <2>3 DEF Hit, Action
    <3>2. HomeOf(a, hit) = {hit.org}
      BY <2>3 DEF HomeOf
    <3> HIDE DEF hit
    <3> QED BY <1>1, <3>1, <3>2
  <2> QED BY <2>1, <2>2, <2>3
<1>6. hit.kind = "object" /\ hit.named => hit.item = hit.asset
  <2>1. ASSUME a.kind = "gap", a.named, a.item # "none", Verb(a) = "put"
        PROVE  LiveItem(a) = a.name
    BY <1>3, <2>1 DEF ItemRefused, OtherItem, Action
  <2> QED BY <1>1, <2>1 DEF Hit, Action
<1>7. sanitized => \E n \in SourceNetworks, m \in world[target].networks :
                     m.name = Pseudonym(n.name)
  <2>1. ASSUME NEW id \in {n.id : n \in SourceNetworks}, networkIds[id] # "none"
        PROVE  \E n \in SourceNetworks, m \in world[target].networks :
                 (m.id = id /\ ~sanitized) \/ m.name = NameIn(n, sanitized)
    BY <1>4, <2>1, MappedIsOurs
  <2>2. Mapped # {} => \E id \in {n.id : n \in SourceNetworks} : networkIds[id] # "none"
    BY <1>4 DEF Mapped, NetworkIdMap
  <2> QED BY <1>4, <2>1, <2>2 DEF NameIn
<1>8. Reaches(hit)
  <2> HIDE DEF hit
  <2> QED BY <1>1, <1>2, <1>5, <1>6, <1>7 DEF Reaches
<1> QED BY <1>8

LEMMA PlannedAreAssets ==
  ASSUME ReplayInv
  PROVE  queue \subseteq DOMAIN Assets
BY DEF ReplayInv, PlanReplay

\* What does not touch the organizations.
LEMMA SameHits ==
  ASSUME ReplayInv, UNCHANGED <<world, copies, hits, blind>>
  PROVE  (WritesReachTheirOwn /\ ReplayCreatesOnce)'
<1>1. \A a, hit : HomeOf(a, hit)' = HomeOf(a, hit)
  BY DEF HomeOf
<1>2. \A hit : Reaches(hit)' <=> Reaches(hit)
  BY <1>1 DEF Reaches, AssetNamed
<1>3. WritesReachTheirOwn'
  BY <1>1 DEF ReplayInv, WritesReachTheirOwn, AssetNamed
<1>4. ReplayCreatesOnce'
  BY DEF ReplayInv, ReplayCreatesOnce
<1> QED BY <1>3, <1>4

LEMMA ReplayPrepares ==
  ASSUME ReplayInv, MapNetworks \/ Guard \/ Executed
  PROVE  ReplayInv'
<1>1. (WritesReachTheirOwn /\ ReplayCreatesOnce)'
  BY SameHits DEF MapNetworks, Guard, Executed
<1>2. CASE MapNetworks
  <2>1. networkIds' = NetworkIdMap(target, sanitized) =>
          networkIds' = NetworkIdMap(target, sanitized)'
    BY <1>2 DEF MapNetworks, NetworkIdMap
  <2> QED BY <1>1, <1>2, <2>1 DEF MapNetworks, ReplayInv
<1>3. CASE Guard
  <2>1. NetworkIdMap(target, sanitized)' = NetworkIdMap(target, sanitized) /\ Mapped' = Mapped
    BY <1>3 DEF Guard, NetworkIdMap, Mapped
  <2> QED BY <1>1, <1>3, <2>1 DEF Guard, ReplayInv
<1>4. CASE Executed
  <2>1. NetworkIdMap(target, sanitized)' = NetworkIdMap(target, sanitized) /\ Mapped' = Mapped
    BY <1>4 DEF Executed, NetworkIdMap, Mapped
  <2> QED BY <1>1, <1>4, <2>1 DEF Executed, ReplayInv
<1> QED BY <1>2, <1>3, <1>4

LEMMA Settles ==
  ASSUME ReplayInv, NEW i \in DOMAIN Assets, NEW verdict \in Verdicts,
         Settle(verdict, i)
  PROVE  /\ queue' = queue \ {i} /\ step' = "check"
         /\ results' \in Results
BY DEF ReplayInv, Settle, AssetNames, Results, Verdicts

LEMMA CheckAdmits ==
  ASSUME ReplayInv, NEW i \in queue, NEW readable \in BOOLEAN, Check(i, readable)
  PROVE  ReplayInv'
<1> DEFINE a == Assets[i]
           made == <<target, a.name>>
<1>0. i \in DOMAIN Assets /\ Replayable(a, sanitized)
  BY DEF ReplayInv, PlanReplay
<1>1. /\ step = "check" /\ IsNext(i)
      /\ UNCHANGED <<world, copies, hits, target, sanitized, networkIds, serials>>
  BY DEF Check
<1>2. NetworkIdMap(target, sanitized)' = NetworkIdMap(target, sanitized) /\ Mapped' = Mapped
  BY <1>1 DEF NetworkIdMap, Mapped
<1>3. ASSUME NEW verdict \in Verdicts, Settle(verdict, i), UNCHANGED blind
      PROVE  ReplayInv'
  <2>1. (WritesReachTheirOwn /\ ReplayCreatesOnce)'
    BY <1>1, <1>3, SameHits
  <2> QED BY <1>0, <1>1, <1>2, <1>3, <2>1, Settles DEF ReplayInv
<1>4. ASSUME ~WriteRefused(Action(a), readable), ~AlreadyPresent(Action(a), readable),
             step' = "call", UNCHANGED <<results, queue>>,
             blind' = IF Listed(Action(a), readable) THEN blind ELSE blind \cup {made}
      PROVE  ReplayInv'
  <2>1. \A j : IsNext(j)' <=> IsNext(j)
    BY <1>4 DEF IsNext
  <2>2. \A j \in queue : IsNext(j)' => j = i
    BY <1>1, <2>1, OneIsNext, PlannedAreAssets
  <2>3. ~WriteRefused(Action(a), TRUE)
    BY <1>4 DEF WriteRefused, ItemRefused, OtherItem
  <2>4. WriteRefused(Action(a), TRUE)' <=> WriteRefused(Action(a), TRUE)
    BY <1>1 DEF WriteRefused, ItemRefused, ParametersRefused, OtherItem, LiveItem
  <2>5. ASSUME Verb(a) = "post"
        PROVE  made \in blind' \/ copies[made] = 0
    <3>1. Action(a).kind = "object" /\ Action(a).verb = "post"
      BY <1>0, <2>5 DEF Action, Replayable, SecretsSkipped, Verb
    <3>2. Listed(Action(a), readable) => ~(copies[made] > 0)
      BY <1>4, <3>1 DEF AlreadyPresent, Action
    <3>3. copies[made] \in Nat
      BY <1>0, <1>1, ReplayAssumption DEF ReplayInv, AssetNames
    <3> QED BY <1>4, <3>2, <3>3
  <2>6. Admitted(i)'
    BY <1>1, <2>3, <2>4, <2>5 DEF Admitted
  <2>7. WritesReachTheirOwn'
    <3>1. \A b, hit : HomeOf(b, hit)' = HomeOf(b, hit)
      BY <1>1 DEF HomeOf
    <3> QED BY <1>1, <3>1 DEF ReplayInv, WritesReachTheirOwn, AssetNamed
  <2>8. ReplayCreatesOnce'
    BY <1>1, <1>4 DEF ReplayInv, ReplayCreatesOnce
  <2> QED BY <1>1, <1>2, <1>4, <2>2, <2>6, <2>7, <2>8 DEF ReplayInv
<1> QED BY <1>3, <1>4 DEF Check, Action, Verdicts

LEMMA CallReaches ==
  ASSUME ReplayInv, NEW i \in queue, Call(i)
  PROVE  ReplayInv'
<1> DEFINE a == Assets[i]
           made == <<target, a.name>>
<1>0. i \in DOMAIN Assets /\ a.name \in AssetNames
  BY DEF ReplayInv, PlanReplay, AssetNames
<1>1. /\ step = "call" /\ IsNext(i)
      /\ UNCHANGED <<world, blind, target, sanitized, networkIds, serials>>
      /\ \A m \in DOMAIN copies : copies'[m] <= MaxCopies
  BY DEF Call
<1>2. NetworkIdMap(target, sanitized)' = NetworkIdMap(target, sanitized) /\ Mapped' = Mapped
  BY <1>1 DEF NetworkIdMap, Mapped
<1>3. Admitted(i) /\ target \in ReplayTargets
  BY <1>1 DEF ReplayInv
<1>4. PICK verdict \in Verdicts : Settle(verdict, i)
  BY DEF Call, Verdicts
<1>5. /\ queue' \subseteq queue /\ step' = "check" /\ results' \in Results
  BY <1>0, <1>4, Settles
<1>6. CASE UNCHANGED <<copies, hits>>
  <2>1. (WritesReachTheirOwn /\ ReplayCreatesOnce)'
    BY <1>1, <1>6, SameHits
  <2> QED BY <1>1, <1>2, <1>5, <1>6, <2>1 DEF ReplayInv
<1>7. CASE Lands(Action(a))
  <2>1. /\ hits' = hits \cup {Hit(Action(a))}
        /\ copies' = IF Verb(a) = "put" THEN copies ELSE [copies EXCEPT ![made] = @ + 1]
    BY <1>7 DEF Lands, Action
  <2>2. \A b, hit : HomeOf(b, hit)' = HomeOf(b, hit)
    BY <1>1 DEF HomeOf
  <2>3. \A hit \in hits' : Reaches(hit)
    BY <1>0, <1>1, <1>3, <2>1, AdmittedReaches, ReachesAll DEF ReplayInv
  <2>4. WritesReachTheirOwn'
    BY <1>1, <2>2, <2>3 DEF Reaches, WritesReachTheirOwn, AssetNamed
  <2>5. Verb(a) = "put" \/ Verb(a) = "post"
    BY DEF Verb
  <2>6. made \in ReplayTargets \X AssetNames
    BY <1>0, <1>3
  <2>7. /\ copies \in [ReplayTargets \X AssetNames -> 0 .. MaxCopies]
        /\ \A m \in ReplayTargets \X AssetNames : copies[m] <= 1 \/ m \in blind
    BY DEF ReplayInv, ReplayCreatesOnce
  <2>8. CASE Verb(a) = "put"
    <3>1. copies' = copies
      BY <2>1, <2>8
    <3>2. ReplayCreatesOnce'
      BY <1>1, <3>1 DEF ReplayInv, ReplayCreatesOnce
    <3> QED BY <1>1, <1>2, <1>5, <2>4, <2>7, <3>1, <3>2 DEF ReplayInv
  <2>9. CASE Verb(a) = "post"
    <3> HIDE DEF made
    <3>1. copies' = [copies EXCEPT ![made] = @ + 1]
      BY <2>1, <2>9
    <3>2. \A m \in ReplayTargets \X AssetNames :
            copies'[m] = IF m = made THEN copies[m] + 1 ELSE copies[m]
      BY <2>6, <2>7, <3>1
    <3>3. copies' \in [ReplayTargets \X AssetNames -> 0 .. MaxCopies]
      BY <1>1, <2>6, <2>7, <3>1, ReplayAssumption
    <3>4. made \in blind \/ copies[made] = 0
      BY <1>3, <2>9 DEF Admitted, made
    <3>5. ReplayCreatesOnce'
      BY <1>1, <2>7, <3>2, <3>3, <3>4 DEF ReplayCreatesOnce
    <3> QED BY <1>1, <1>2, <1>5, <2>4, <3>3, <3>5 DEF ReplayInv
  <2> QED BY <2>5, <2>8, <2>9
<1> QED BY <1>1, <1>6, <1>7 DEF Call

LEMMA ReplayBegins ==
  ASSUME ReplayInv,
         ForgetReplay \/ \E org, masked : BeginReplay(org, masked)
  PROVE  ReplayInv'
<1>1. (WritesReachTheirOwn /\ ReplayCreatesOnce)'
  BY SameHits DEF ForgetReplay, BeginReplay
<1>2. NoResults \in Results
  BY DEF NoResults, Results
<1> QED BY <1>1, <1>2 DEF ReplayInv, ForgetReplay, BeginReplay

LEMMA ReplayStays ==
  ASSUME ReplayInv, UNCHANGED replayVars
  PROVE  ReplayInv'
<1>1. UNCHANGED <<world, copies, hits, blind, step, target, sanitized, queue, networkIds,
                  serials, results>>
  BY DEF replayVars, runVars
<1>2. (WritesReachTheirOwn /\ ReplayCreatesOnce)'
  BY <1>1, SameHits
<1>3. NetworkIdMap(target, sanitized)' = NetworkIdMap(target, sanitized) /\ Mapped' = Mapped
  BY <1>1 DEF NetworkIdMap, Mapped
<1>4. ASSUME NEW i
      PROVE  (IsNext(i)' <=> IsNext(i)) /\ (Admitted(i)' <=> Admitted(i))
  BY <1>1 DEF IsNext, Admitted, WriteRefused, ParametersRefused, ItemRefused, OtherItem, LiveItem
<1> QED BY <1>1, <1>2, <1>3, <1>4 DEF ReplayInv

LEMMA ReplayStepKeeps ==
  ASSUME ReplayInv, ReplayStep
  PROVE  ReplayInv'
BY ReplayPrepares, CheckAdmits, CallReaches DEF ReplayStep

LEMMA ReplayInvariant == Spec => []ReplayInv
<1>1. Init => ReplayInv
  <2>1. NoResults \in Results
    BY DEF NoResults, Results
  <2>2. 0 \in 0 .. MaxCopies
    BY ReplayAssumption
  <2> QED BY <2>1, <2>2 DEF Init, ReplayInit, ReplayInv, WritesReachTheirOwn, ReplayCreatesOnce
<1>2. ASSUME ReplayInv, [Next]_vars
      PROVE  ReplayInv'
  <2>1. CASE UNCHANGED replayVars
    BY <1>2, <2>1, ReplayStays
  <2>2. CASE Replaying
    <3>1. CASE ReplayGaps
      BY <2>1, <3>1 DEF ReplayGaps
    <3>2. CASE ReplayPlans
      BY <1>2, <2>1, <3>2, ReplayBegins DEF ReplayPlans
    <3>3. CASE ReplayExecutes
      BY <1>2, <3>3, ReplayStepKeeps DEF ReplayExecutes
    <3>4. CASE ReplayExecuted
      BY <1>2, <3>4, ReplayBegins DEF ReplayExecuted
    <3> QED BY <2>2, <3>1, <3>2, <3>3, <3>4 DEF Replaying, ReplayCommandStep
  <2>3. CASE Kill
    BY <1>2, <2>3, ReplayBegins DEF Kill
  <2>4. CASE Enter \/ Wiping \/ Restoring \/ Healing
    BY <2>1, <2>4 DEF Enter, Wiping, Restoring, Healing
  <2>5. CASE Rebuilding \/ Running \/ ChangeDevices \/ LoseObject
    BY <2>1, <2>5 DEF Rebuilding, Running, ChangeDevices, LoseObject
  <2>6. CASE UNCHANGED vars
    BY <2>1, <2>6 DEF vars
  <2> QED BY <1>2, <2>2, <2>3, <2>4, <2>5, <2>6 DEF Next
<1> QED BY <1>1, <1>2, PTL DEF Spec

\* In every session, a replay writes onto what the snapshot took the object
\* from, whatever the organization has renamed, re-issued or never had.
THEOREM SessionsReachTheirOwn == Spec => []WritesReachTheirOwn
<1>1. ReplayInv => WritesReachTheirOwn
  BY DEF ReplayInv
<1> QED BY <1>1, ReplayInvariant, PTL

\* In every session, however often a replay is run again and wherever it was
\* killed, an object whose collection could be read is created once.
THEOREM SessionsCreateOnce == Spec => []ReplayCreatesOnce
<1>1. ReplayInv => ReplayCreatesOnce
  BY DEF ReplayInv
<1> QED BY <1>1, ReplayInvariant, PTL

-----------------------------------------------------------------------------
(* What an exit code says.                                                 *)

\* Where a command has written, or is about to.
Writers ==
  {"wipe_org execute", "heal execute", "replay_gaps execute", "rebuild applied", "rebuild failed"}
    \cup Executing

InRun == {"run", "run export"}

CommonTruth ==
  /\ session \in DOMAIN Sessions
  /\ pc # "shell" => line \in Session.lines
  /\ failedEvents \in Nat
  /\ pc \notin {"shell"} \cup InRun => failedEvents = 0 /\ left = {}
  /\ pc \notin {"shell"} \cup Writers => wrote = {}
  /\ ExitTellsTheTruth

\* A wipe that says so has wiped; one that is refused has not begun.
Early == {"preview", "shown", "verify", "refused"}

WipeTruth ==
  /\ pc \in WipeStations => (wiped => ~exists)
  /\ pc = "wipe_org execute" => (stage \in Early => wrote = {})

\* What a restore has neither skipped nor failed at is there.
RestoreTruth ==
  /\ content \in [Organizations -> SUBSET ObjectSet]
  /\ pc \in Executing =>
       /\ pending \subseteq ObjectSet
       /\ ObjectSet \ (pending \cup failures \cup skips) \subseteq content[line.target]
  /\ pc = "restore record" => \A k \in pending : NextIs(k) => Present(k)

HealTruth ==
  pc = "heal execute" => chosen \ (pending \cup failures \cup skips) \subseteq LiveAssetKeys

\* What a replay has planned is waiting or has a verdict.
HasVerdict(i) ==
  Assets[i].name \in results.executed \cup results.failed \cup results.skipped

ReplayTruth ==
  pc = "replay_gaps execute" =>
    /\ step \in {"map", "guard", "raised", "refused"} => wrote = {}
    /\ step \in {"map", "guard", "check", "call", "done"} =>
         \A i \in PlanReplay(sanitized) \ queue : HasVerdict(i)
    /\ step = "done" => queue = {}

\* The codes of a run and what it leaves tell the same story.
RunTruth ==
  pc \in InRun =>
    /\ codes \subseteq 0 .. 4
    /\ left \subseteq {"fault", "work", "apply", "gaps"}
    /\ "fault" \in left => 1 \in codes /\ "PROCESSING_FAULT" \in announced
    /\ "work" \in left => 2 \in codes
    /\ "apply" \in left <=> 4 \in codes
    /\ 3 \in codes => "gaps" \in left
    /\ "gaps" \in left => 3 \in codes \/ 4 \in codes

TruthInv ==
  /\ CommonTruth /\ WipeTruth /\ RestoreTruth /\ HealTruth /\ ReplayTruth /\ RunTruth

LEMMA FailsTruly ==
  ASSUME CommonTruth, wrote = {}, failedEvents = 0, NEW code \in {0, 1, 2}, Fails(code)
  PROVE  CommonTruth'
BY DEF CommonTruth, Fails, Leave, ExitTellsTheTruth, alertVars, Killed

LEMMA RefusesTruly ==
  ASSUME CommonTruth, wrote = {}, Leave(2, {"work"}), UNCHANGED alertVars
  PROVE  CommonTruth'
<1>1. /\ pc' = "shell" /\ exit' = 2 /\ left' = {"work"} /\ UNCHANGED <<session, wrote>>
      /\ UNCHANGED <<failedEvents, announced>>
  BY DEF Leave, alertVars
<1>2. "fault" \notin left'
  BY <1>1
<1> QED BY <1>1, <1>2 DEF CommonTruth, ExitTellsTheTruth

LEMMA ReportsTruly ==
  ASSUME CommonTruth, pc \notin {"shell"} \cup InRun, NEW event, NEW severity,
         NEW code \in {0, 1}, NEW remains \in {{}, {"skipped"}, {"work"}, {"fault"}},
         code = 0 => remains \in {{}, {"skipped"}},
         "fault" \in remains => event = "PROCESSING_FAULT" /\ code = 1,
         Report(event, severity, code, remains)
  PROVE  CommonTruth'
<1>0. code = 0 => remains \subseteq {"skipped"}
  OBVIOUS
<1>1. failedEvents = 0
  BY DEF CommonTruth
<1>2. failedEvents' \in {0, 1} /\ announced' = announced \cup {event}
  BY <1>1 DEF Report, Dispatch
<1>3. Leave(IF code # 0 THEN code ELSE AlertOutageExit(failedEvents'), remains)
  BY DEF Report
<1>4. AlertOutageExit(failedEvents') = IF failedEvents' = 0 THEN 0 ELSE 5
  BY <1>2 DEF AlertOutageExit
<1> QED BY <1>0, <1>2, <1>3, <1>4 DEF CommonTruth, Leave, ExitTellsTheTruth, Killed

LEMMA EndsTruly ==
  ASSUME CommonTruth, pc \notin {"shell"} \cup InRun, NEW event, NEW severity,
         NEW clean \in BOOLEAN, NEW remains \in {{}, {"skipped"}, {"work"}},
         clean => remains # {"work"},
         Report(event, severity, IF clean THEN 0 ELSE 1, remains)
  PROVE  CommonTruth' /\ pc' = "shell"
<1> DEFINE code == IF clean THEN 0 ELSE 1
<1>1. Report(event, severity, code, remains)
  OBVIOUS
<1>2. /\ code \in {0, 1}
      /\ code = 0 => remains \in {{}, {"skipped"}}
      /\ "fault" \notin remains
  OBVIOUS
<1> HIDE DEF code
<1>3. CommonTruth'
  BY <1>1, <1>2, ReportsTruly
<1>4. pc' = "shell"
  BY <1>1 DEF Report, Leave
<1> QED BY <1>3, <1>4

LEMMA FaultsTruly ==
  ASSUME CommonTruth, pc \notin {"shell"} \cup InRun, ReportFault
  PROVE  CommonTruth' /\ pc' = "shell"
<1>1. CommonTruth'
  BY ReportsTruly DEF ReportFault
<1>2. pc' = "shell"
  BY DEF ReportFault, Report, Leave
<1> QED BY <1>1, <1>2

LEMMA GoesTruly ==
  ASSUME CommonTruth, UNCHANGED <<session, line, left>>, failedEvents' \in {0, failedEvents},
         pc \notin {"shell"} \cup InRun, pc' \notin {"shell"} \cup InRun,
         pc' \in Writers \/ wrote' = {}
  PROVE  CommonTruth'
BY DEF CommonTruth, ExitTellsTheTruth, Session

\* The end of a command is nobody's business.
LEMMA Apart ==
  ASSUME TruthInv, UNCHANGED content
  PROVE  /\ pc' \notin WipeStations => WipeTruth'
         /\ pc' \notin Executing => RestoreTruth'
         /\ pc' # "heal execute" => HealTruth'
         /\ pc' # "replay_gaps execute" => ReplayTruth'
         /\ pc' \notin InRun => RunTruth'
BY DEF TruthInv, WipeTruth, RestoreTruth, HealTruth, ReplayTruth, RunTruth, WipeStations, Executing

-----------------------------------------------------------------------------

LEMMA WiperTells ==
  ASSUME NEW named, WiperStep(named), wiped => ~exists
  PROVE  /\ wiped' => ~exists'
         /\ stage' \in Early => stage \in Early /\ UNCHANGED orgVars
<1> USE DEF Early
<1>1. CASE CallPreview(named) \/ Verify(named)
  BY <1>1 DEF CallPreview, Verify, Preview, Ends, orgVars
<1>2. CASE ListNetworks
  BY <1>2 DEF ListNetworks, orgVars
<1>3. CASE \E n \in Networks : DeleteNetwork(n)
  <2>1. stage \notin Early /\ UNCHANGED <<stage, wiped, exists>>
    BY <1>3 DEF DeleteNetwork, DeleteOne, orgVars
  <2> QED BY <2>1
<1>4. CASE \E t \in Templates : DeleteTemplate(t)
  <2>1. stage \notin Early /\ UNCHANGED <<stage, wiped, exists>>
    BY <1>4 DEF DeleteTemplate, DeleteOne, orgVars
  <2> QED BY <2>1
<1>5. CASE \E a \in Admins : DeleteAdmin(a)
  <2>1. stage \notin Early /\ UNCHANGED <<stage, wiped, exists>>
    BY <1>5 DEF DeleteAdmin, DeleteOne, orgVars
  <2> QED BY <2>1
<1>6. CASE NetworksDone \/ TemplatesDone \/ AdminsDone
  BY <1>6 DEF NetworksDone, TemplatesDone, AdminsDone, LoopDone, orgVars
<1>7. CASE Recheck(named)
  BY <1>7 DEF Recheck, Preview, orgVars
<1>8. CASE DeleteOrganization
  BY <1>8 DEF DeleteOrganization, orgVars
<1> QED BY <1>1, <1>2, <1>3, <1>4, <1>5, <1>6, <1>7, <1>8 DEF WiperStep

LEMMA WipingTells ==
  ASSUME TruthInv, Wiping
  PROVE  TruthInv'
<1> USE DEF WipeStations, InRun
<1>1. /\ WipeStep /\ UNCHANGED content
      /\ CommonTruth /\ WipeTruth
      /\ pc' \in {"shell"} \cup WipeStations
  BY WipeGoes DEF Wiping, Along, restoreVars, TruthInv
<1>2. RestoreTruth' /\ HealTruth' /\ ReplayTruth' /\ RunTruth'
  BY <1>1, Apart DEF Executing
<1>3. ASSUME pc' = "shell", CommonTruth'
      PROVE  TruthInv'
  BY <1>2, <1>3 DEF TruthInv, WipeTruth
<1>4. CASE WipeOrg
  <2>1. wrote = {} /\ failedEvents = 0
    BY <1>1, <1>4 DEF WipeOrg, CommonTruth, Writers, Executing
  <2>2. CASE Fails(1)
    BY <1>1, <1>3, <2>1, <2>2, FailsTruly DEF Fails, Leave
  <2>3. CASE NewDispatcher(Session.channels) /\ Goto("wipe_org preview") /\ BeginPreview
    <3>1. CommonTruth'
      BY <1>1, <1>4, <2>1, <2>3, GoesTruly DEF WipeOrg, Goto, NewDispatcher
    <3>2. WipeTruth'
      BY <2>3 DEF Goto, BeginPreview, WipeTruth
    <3> QED BY <1>2, <3>1, <3>2 DEF TruthInv
  <2> QED BY <1>4, <2>2, <2>3 DEF WipeOrg
<1>5. CASE WipePreview
  <2>1. wrote = {} /\ failedEvents = 0 /\ pc = "wipe_org preview" /\ (wiped => ~exists)
    BY <1>1, <1>5 DEF WipePreview, CommonTruth, WipeTruth, Writers, Executing
  <2>2. CASE Fails(0) \/ Fails(1) \/ Fails(2)
    BY <1>1, <1>3, <2>1, <2>2, FailsTruly DEF Fails, Leave
  <2>3. CASE CallPreview(line.named) /\ Proceeds(pc)
    <3>1. CommonTruth'
      BY <1>1, <2>1, <2>3, GoesTruly DEF Goto, Proceeds, alertVars
    <3>2. UNCHANGED <<pc, wiped, exists>>
      BY <2>3 DEF Goto, Proceeds, CallPreview, Preview, Ends, orgVars
    <3>3. WipeTruth'
      BY <2>1, <3>2 DEF WipeTruth
    <3> QED BY <1>2, <3>1, <3>3 DEF TruthInv
  <2>4. CASE BeginExecute /\ Proceeds("wipe_org execute")
    <3>1. CommonTruth'
      BY <1>1, <2>1, <2>4, GoesTruly DEF Goto, Proceeds, alertVars
    <3>2. WipeTruth'
      BY <2>1, <2>4 DEF Goto, Proceeds, BeginExecute, Ends, orgVars, WipeTruth
    <3> QED BY <1>2, <3>1, <3>2 DEF TruthInv
  <2> QED BY <1>5, <2>2, <2>3, <2>4 DEF WipePreview
<1>6. CASE WipeExecute
  <2>1. /\ WiperStep(line.named) /\ (wiped => ~exists) /\ pc = "wipe_org execute" /\ pc' = pc
        /\ wrote' = IF orgVars' = orgVars THEN wrote ELSE wrote \cup {"drill"}
        /\ UNCHANGED <<session, line, left, alertVars>>
    BY <1>1, <1>6 DEF WipeExecute, WipeTruth
  <2>2. CommonTruth'
    BY <1>1, <2>1, GoesTruly DEF alertVars, Writers
  <2>3. WipeTruth'
    BY <1>1, <2>1, WiperTells DEF WipeTruth
  <2> QED BY <1>2, <2>2, <2>3 DEF TruthInv
<1>7. CASE WipeExecuted
  <2>1. pc = "wipe_org execute" /\ failedEvents = 0 /\ (wiped => ~exists)
    BY <1>1, <1>7 DEF WipeExecuted, CommonTruth, WipeTruth
  <2>2. pc' = "shell"
    BY <1>7 DEF WipeExecuted, Leave, Report, ReportFault
  <2>3. CASE stage = "refused" /\ Leave(2, {"work"}) /\ UNCHANGED alertVars
    <3>1. wrote = {}
      BY <1>1, <2>1, <2>3 DEF WipeTruth, Early
    <3>2. CommonTruth'
      BY <1>1, <2>3, <3>1, RefusesTruly
    <3> QED BY <1>3, <2>2, <3>2
  <2>4. CASE ReportFault
    BY <1>1, <1>3, <2>1, <2>2, <2>4, FaultsTruly
  <2>5. CASE Report("ORG_WIPE_EXECUTED", Severity(~failed /\ wiped),
                    IF wiped THEN 0 ELSE 1, WorkLeft(exists))
    <3>1. WorkLeft(exists) \in {{}, {"work"}} /\ (wiped => WorkLeft(exists) = {})
      BY <2>1 DEF WorkLeft
    <3> DEFINE code == IF wiped THEN 0 ELSE 1
    <3>2. code \in {0, 1} /\ (code = 0 => wiped)
      OBVIOUS
    <3> HIDE DEF code
    <3>3. CommonTruth'
      BY <1>1, <2>1, <2>5, <3>1, <3>2, ReportsTruly DEF code
    <3> QED BY <1>3, <2>2, <3>3
  <2> QED BY <1>7, <2>3, <2>4, <2>5 DEF WipeExecuted
<1> QED BY <1>1, <1>4, <1>5, <1>6, <1>7 DEF WipeStep

-----------------------------------------------------------------------------
(* A restore.                                                              *)

LEMMA OneObjectIsNext ==
  ASSUME NEW k \in ObjectSet, NEW j \in ObjectSet, NextIs(k), NextIs(j)
  PROVE  k = j
<1>1. PICK i \in DOMAIN Objects : Objects[i] = k
  BY DEF ObjectSet
<1>2. PICK i_2 \in DOMAIN Objects : Objects[i_2] = j
  BY DEF ObjectSet
<1>3. i \in Nat /\ i_2 \in Nat
  BY <1>1, <1>2, RestoreAssumption
<1>4. CASE i < i_2
  BY <1>1, <1>2, <1>4 DEF NextIs
<1>5. CASE i_2 < i
  BY <1>1, <1>2, <1>5 DEF NextIs
<1> QED BY <1>1, <1>2, <1>3, <1>4, <1>5

\* Where a restore is before it writes, or when it ends.
LEMMA RestorePrepares ==
  ASSUME TruthInv,
         Restore \/ RestoreLoad \/ RestoreJournalOpens \/ RestoreCount \/ RestoreBind
  PROVE  CommonTruth' /\ RestoreTruth'
<1> USE DEF InRun, Executing
<1>0. CommonTruth /\ content \in [Organizations -> SUBSET ObjectSet]
  BY DEF TruthInv, RestoreTruth
<1>1. /\ pc \in {"restore", "restore load", "restore journal", "restore count", "restore bind"}
      /\ UNCHANGED content
  BY DEF Restore, RestoreLoad, RestoreJournalOpens, RestoreCount, RestoreBind, restoreVars
<1>2. wrote = {} /\ failedEvents = 0
  BY <1>0, <1>1 DEF CommonTruth, Writers
<1>3. ASSUME NEW code \in {0, 1, 2}, Fails(code)
      PROVE  CommonTruth' /\ RestoreTruth'
  <2>1. CommonTruth'
    BY <1>0, <1>2, <1>3, FailsTruly
  <2> QED BY <1>0, <1>1, <1>3, <2>1 DEF Fails, Leave, RestoreTruth
<1>4. ASSUME UNCHANGED <<session, line, left, wrote>>, failedEvents' \in {0, failedEvents},
             pc' \in {"restore load", "restore journal", "restore count", "restore bind"}
      PROVE  CommonTruth' /\ RestoreTruth'
  <2>1. CommonTruth'
    BY <1>0, <1>1, <1>2, <1>4, GoesTruly
  <2> QED BY <1>0, <1>1, <1>4, <2>1 DEF RestoreTruth
<1>5. CASE Restore
  BY <1>3, <1>4, <1>5 DEF Restore, BuildDispatcher, NewDispatcher, Goto
<1>6. CASE RestoreLoad
  BY <1>3, <1>4, <1>6 DEF RestoreLoad, Proceeds, Goto, alertVars
<1>7. CASE RestoreJournalOpens \/ RestoreCount
  BY <1>3, <1>4, <1>7 DEF RestoreJournalOpens, RestoreCount, Proceeds, Goto, alertVars
<1>8. CASE RestoreBind
  <2>1. CASE Fails(2)
    BY <1>3, <2>1
  <2>2. CASE /\ pc' = "restore execute" /\ pending' = ObjectSet
             /\ UNCHANGED <<session, commands, line, exit, wrote, left, failures, skips, alertVars>>
    <3>1. CommonTruth'
      BY <1>0, <1>1, <1>2, <2>2, GoesTruly DEF alertVars
    <3>2. RestoreTruth'
      BY <1>0, <1>1, <2>2 DEF RestoreTruth
    <3> QED BY <3>1, <3>2
  <2> QED BY <1>8, <2>1, <2>2 DEF RestoreBind
<1> QED BY <1>5, <1>6, <1>7, <1>8

LEMMA RestoreObjects ==
  ASSUME TruthInv, NEW k \in ObjectSet, ObjectStep(k)
  PROVE  CommonTruth' /\ RestoreTruth'
<1> USE DEF Executing
<1>0. CommonTruth /\ RestoreTruth
  BY DEF TruthInv
<1>1. /\ pc \in Executing /\ pc' \in Executing /\ NextIs(k)
      /\ UNCHANGED <<session, line, left, alertVars>>
  BY ObjectStepIs
<1>2. CommonTruth'
  BY <1>0, <1>1, GoesTruly DEF alertVars, Writers, InRun
<1>3. line.target \in Organizations
  BY <1>0, <1>1, RestoreAssumption DEF CommonTruth, Session
<1>4. /\ content \in [Organizations -> SUBSET ObjectSet]
      /\ pending \subseteq ObjectSet /\ k \in pending
      /\ ObjectSet \ (pending \cup failures \cup skips) \subseteq content[line.target]
      /\ pc = "restore record" => k \in content[line.target]
  BY <1>0, <1>1 DEF RestoreTruth, Present, NextIs
<1>5. \A j \in pending : NextIs(j) => j = k
  BY <1>1, <1>4, OneObjectIsNext
\* It is settled: with a verdict, or because it is there.
<1>6. ASSUME Done(k), UNCHANGED content \/ Creates(k),
             \/ failures' = failures \cup {k} /\ UNCHANGED skips
             \/ skips' = skips \cup {k} /\ UNCHANGED failures
             \/ k \in content[line.target] /\ UNCHANGED <<failures, skips>>
      PROVE  RestoreTruth'
  <2>1. content' \in [Organizations -> SUBSET ObjectSet]
        /\ content[line.target] \subseteq content'[line.target]
    BY <1>3, <1>4, <1>6 DEF Creates
  <2> QED BY <1>1, <1>4, <1>6, <2>1 DEF RestoreTruth, Done
\* It is on its way: recorded, once it is there.
<1>7. ASSUME UNCHANGED <<pending, failures, skips>>, UNCHANGED content \/ Creates(k),
             pc' = "restore record" => k \in content'[line.target]
      PROVE  RestoreTruth'
  <2>1. content' \in [Organizations -> SUBSET ObjectSet]
        /\ content[line.target] \subseteq content'[line.target]
    BY <1>3, <1>4, <1>7 DEF Creates
  <2>2. \A j \in pending' : NextIs(j)' => j = k
    BY <1>5, <1>7 DEF NextIs
  <2> QED BY <1>1, <1>4, <1>7, <2>1, <2>2 DEF RestoreTruth, Present
<1>8. CASE HoldBack(k) \/ AlreadyDone(k) \/ NotSent(k)
  BY <1>2, <1>6, <1>8 DEF HoldBack, AlreadyDone, NotSent, Skipped, Failed
<1>9. CASE Recover(k) \/ Reconcile(k) \/ RecordMapping(k)
  BY <1>2, <1>4, <1>7, <1>9 DEF Recover, Reconcile, RecordMapping, Present
<1>10. CASE ForgetStale(k) \/ Attempt(k)
  BY <1>2, <1>7, <1>10 DEF ForgetStale, Attempt
<1>11. CASE RecordDone(k)
  BY <1>2, <1>4, <1>6, <1>11 DEF RecordDone
<1>12. CASE Create(k)
  <2>1. Creates(k) => k \in content'[line.target]
    BY <1>3, <1>4 DEF Creates
  <2>2. CASE Creates(k) /\ pc' = "restore record" /\ UNCHANGED <<pending, failures, skips>>
    BY <1>2, <1>7, <2>1, <2>2
  <2>3. CASE Creates(k) /\ Failed(k)
    BY <1>2, <1>6, <2>3 DEF Failed
  <2>4. CASE (Skipped(k) \/ Failed(k)) /\ UNCHANGED content
    BY <1>2, <1>6, <2>4 DEF Skipped, Failed
  <2> QED BY <1>12, <2>2, <2>3, <2>4 DEF Create
<1> QED BY <1>8, <1>9, <1>10, <1>11, <1>12 DEF ObjectStep

LEMMA RestoringTells ==
  ASSUME TruthInv, Restoring
  PROVE  TruthInv'
<1>0. CommonTruth /\ RestoreTruth
  BY DEF TruthInv
<1>1. WipeTruth' /\ HealTruth' /\ ReplayTruth' /\ RunTruth'
  <2>1. pc' \in {"shell"} \cup RestoreStations
    BY RestoreGoes DEF Restoring, Along
  <2> QED BY <2>1 DEF WipeTruth, HealTruth, ReplayTruth, RunTruth, RestoreStations, Executing,
          WipeStations, InRun
<1>2. CASE RestoreBreaks \/ RestoreExecuted
  <2>1. UNCHANGED content /\ pc \in Executing
    BY <1>2 DEF RestoreBreaks, RestoreExecuted, Executing
  <2>2. pc \notin {"shell"} \cup InRun
    BY <2>1 DEF Executing, InRun
  <2>3. CASE RestoreBreaks
    BY <1>0, <1>1, <2>1, <2>2, <2>3, FaultsTruly
       DEF RestoreBreaks, TruthInv, RestoreTruth, Executing
  <2>4. CASE RestoreExecuted
    <3> DEFINE code == IF failures = {} THEN 0 ELSE 1
               remains == LeftOut(ObjectSet \ content[line.target], skips)
    <3>1. pending = {} /\ Report("RESTORE_EXECUTED", Severity(failures = {}), code, remains)
      BY <2>4 DEF RestoreExecuted
    <3>2. code = 0 => ObjectSet \ content[line.target] \subseteq skips
      BY <1>0, <2>1, <3>1 DEF RestoreTruth
    <3>3. /\ code \in {0, 1} /\ remains \in {{}, {"skipped"}, {"work"}}
          /\ code = 0 => remains \in {{}, {"skipped"}}
          /\ "fault" \notin remains
      BY <3>2 DEF LeftOut
    <3> HIDE DEF code, remains
    <3>4. CommonTruth'
      BY <1>0, <2>2, <3>1, <3>3, ReportsTruly
    <3>5. pc' = "shell"
      BY <3>1 DEF Report, Leave
    <3> QED BY <1>0, <1>1, <2>1, <3>4, <3>5 DEF TruthInv, RestoreTruth, Executing
  <2> QED BY <1>2, <2>3, <2>4
<1>3. CASE Restore \/ RestoreLoad \/ RestoreJournalOpens \/ RestoreCount \/ RestoreBind
  BY <1>1, <1>3, RestorePrepares DEF TruthInv
<1>4. ASSUME NEW k \in ObjectSet, ObjectStep(k)
      PROVE  TruthInv'
  BY <1>1, <1>4, RestoreObjects DEF TruthInv
<1> QED BY <1>2, <1>3, <1>4 DEF Restoring, RestoreStep

-----------------------------------------------------------------------------
(* A heal, a replay, a rebuild.                                            *)

LEMMA HealingTells ==
  ASSUME TruthInv, Healing
  PROVE  TruthInv'
<1> USE DEF InRun
<1>0. CommonTruth /\ HealTruth /\ UNCHANGED content
  BY DEF TruthInv, Healing, restoreVars
<1>1. /\ HealCommandStep /\ pc \in {"heal"} \cup HealStations
      /\ pc' \in {"shell"} \cup HealStations /\ pc \notin {"shell"} \cup InRun
  BY HealGoes DEF Healing, Along, HealStations
<1>2. WipeTruth' /\ RestoreTruth' /\ ReplayTruth' /\ RunTruth'
  BY <1>0, <1>1, Apart DEF HealStations, Executing, WipeStations
<1>3. ASSUME pc' # "heal execute", CommonTruth'
      PROVE  TruthInv'
  BY <1>2, <1>3 DEF TruthInv, HealTruth
<1>4. ASSUME pc # "heal execute"
      PROVE  wrote = {} /\ failedEvents = 0
  BY <1>0, <1>1, <1>4 DEF CommonTruth, Writers, Executing, HealStations
<1>5. ASSUME pc # "heal execute", NEW code \in {0, 1, 2}, Fails(code)
      PROVE  TruthInv'
  <2>1. CommonTruth'
    BY <1>0, <1>4, <1>5, FailsTruly
  <2>2. pc' = "shell"
    BY <1>5 DEF Fails, Leave
  <2> QED BY <1>3, <2>1, <2>2
<1>6. ASSUME pc # "heal execute", UNCHANGED <<session, line, left, wrote>>,
             failedEvents' \in {0, failedEvents}, pc' \in HealStations \ {"heal execute"}
      PROVE  TruthInv'
  <2>1. CommonTruth'
    BY <1>0, <1>1, <1>4, <1>6, GoesTruly DEF HealStations
  <2> QED BY <1>3, <1>6, <2>1
<1>7. CASE Heal
  BY <1>5, <1>6, <1>7 DEF Heal, BuildDispatcher, NewDispatcher, Goto, HealStations
<1>8. CASE HealLoad \/ HealPlans \/ HealPlanned
  BY <1>5, <1>6, <1>8 DEF HealLoad, HealPlans, HealPlanned, Proceeds, Goto, alertVars, HealStations
<1>9. CASE HealJournalOpens
  <2>1. CASE Fails(2)
    BY <1>5, <1>9, <2>1 DEF HealJournalOpens
  <2>2. CASE /\ pc' = "heal execute" /\ pending' = chosen
             /\ UNCHANGED <<session, commands, line, exit, wrote, left, failures, skips>>
             /\ UNCHANGED <<alertVars, healVars>>
    <3>1. CommonTruth'
      BY <1>0, <1>1, <2>2, GoesTruly DEF alertVars, Writers
    <3>2. HealTruth'
      BY <2>2 DEF HealTruth, healVars
    <3> QED BY <1>2, <3>1, <3>2 DEF TruthInv
  <2> QED BY <1>9, <2>1, <2>2 DEF HealJournalOpens
<1>10. ASSUME NEW key \in KeysOf(Snapshot), Recreate(key)
       PROVE  TruthInv'
  <2>1. /\ pc = "heal execute" /\ pc' = pc /\ UNCHANGED <<session, line, left, alertVars, chosen>>
        /\ pending' = pending \ {key}
        /\ \/ live' = live \cup {[key |-> key, class |-> "write"]}
              /\ failures' \in {failures, failures \cup {key}} /\ skips' = skips
           \/ live' = live /\ failures' = failures \cup {key} /\ skips' = skips
           \/ live' = live /\ skips' = skips \cup {key} /\ failures' = failures
    BY <1>10 DEF Recreate
  <2>2. CommonTruth'
    BY <1>0, <1>1, <2>1, GoesTruly DEF alertVars, Writers
  <2>3. LiveAssetKeys \subseteq LiveAssetKeys'
    BY <2>1 DEF LiveAssetKeys
  <2>4. key \in LiveAssetKeys' \/ key \in failures' \cup skips'
    <3>1. CASE live' = live \cup {[key |-> key, class |-> "write"]}
      <4>1. [key |-> key, class |-> "write"] \in live'
        BY <3>1
      <4> QED BY <4>1 DEF LiveAssetKeys
    <3>2. CASE key \in failures' \cup skips'
      BY <3>2
    <3> QED BY <2>1, <3>1, <3>2
  <2>5. HealTruth'
    BY <1>0, <2>1, <2>3, <2>4 DEF HealTruth
  <2> QED BY <1>2, <2>2, <2>5 DEF TruthInv
<1>11. CASE HealBreaks
  BY <1>0, <1>1, <1>3, <1>11, FaultsTruly DEF HealBreaks
<1>12. CASE Healed
  <2>1. /\ pc = "heal execute" /\ pending = {}
        /\ Report("HEAL_EXECUTED", Severity(failures = {}),
                  IF failures = {} THEN 0 ELSE 1, LeftOut(chosen \ LiveAssetKeys, skips))
    BY <1>12 DEF Healed
  <2>2. failures = {} => chosen \ LiveAssetKeys \subseteq skips
    <3>1. chosen \ (pending \cup failures \cup skips) \subseteq LiveAssetKeys
      BY <1>0, <2>1 DEF HealTruth
    <3> QED BY <2>1, <3>1
  <2> DEFINE clean == failures = {}
             remains == LeftOut(chosen \ LiveAssetKeys, skips)
  <2>3. /\ Report("HEAL_EXECUTED", Severity(clean), IF clean THEN 0 ELSE 1, remains)
        /\ clean \in BOOLEAN /\ remains \in {{}, {"skipped"}, {"work"}}
        /\ clean => remains # {"work"}
    BY <2>1, <2>2 DEF LeftOut
  <2> HIDE DEF clean, remains
  <2>4. CommonTruth' /\ pc' = "shell"
    BY <1>0, <1>1, <2>3, EndsTruly
  <2> QED BY <1>3, <2>4
<1> QED BY <1>1, <1>7, <1>8, <1>9, <1>10, <1>11, <1>12 DEF HealCommandStep

\* One step of execute(), as far as its verdicts go.
LEMMA ReplayTells ==
  ASSUME ReplayInv, ReplayTruth, pc = "replay_gaps execute", ReplayExecutes
  PROVE  ReplayTruth'
<1>0. /\ step \in {"map", "guard", "raised", "refused"} => wrote = {}
      /\ step \in {"map", "guard", "check", "call", "done"} =>
           \A i \in PlanReplay(sanitized) \ queue : HasVerdict(i)
      /\ results \in Results
  BY DEF ReplayTruth, ReplayInv
<1>1. pc' = pc /\ sanitized' = sanitized
      /\ wrote' = IF <<copies, hits>>' = <<copies, hits>> THEN wrote ELSE wrote \cup {target}
  BY DEF ReplayExecutes, ReplayStep, MapNetworks, Guard, Check, Call, Executed
<1>2. CASE MapNetworks \/ Guard \/ Executed
  <2>1. /\ UNCHANGED <<queue, results, copies, hits>>
        /\ step' = "done" => queue = {}
        /\ step' \in {"map", "guard", "raised", "refused"} => step \in {"map", "guard"}
        /\ step' \in {"map", "guard", "check", "call", "done"} => step \in {"map", "guard", "check"}
    BY <1>2 DEF MapNetworks, Guard, Executed
  <2> QED BY <1>0, <1>1, <2>1 DEF ReplayTruth, HasVerdict
<1>3. ASSUME NEW i \in queue, step \in {"check", "call"},
             \/ \E verdict \in Verdicts : Settle(verdict, i)
             \/ step' = "call" /\ UNCHANGED <<queue, results>>
      PROVE  ReplayTruth'
  <2>1. i \in DOMAIN Assets
    BY DEF ReplayInv, PlanReplay
  <2>2. ASSUME NEW verdict \in Verdicts, Settle(verdict, i)
        PROVE  ReplayTruth'
    <3>1. queue' = queue \ {i} /\ step' = "check"
      BY <2>2 DEF Settle
    <3>2. \A j : HasVerdict(j) => HasVerdict(j)'
      BY <1>0, <2>1, <2>2 DEF Settle, HasVerdict, Results, Verdicts, AssetNames
    <3>3. HasVerdict(i)'
      BY <1>0, <2>1, <2>2 DEF Settle, HasVerdict, Results, Verdicts, AssetNames
    <3> QED BY <1>0, <1>1, <1>3, <3>1, <3>2, <3>3 DEF ReplayTruth
  <2>3. CASE step' = "call" /\ UNCHANGED <<queue, results>>
    BY <1>0, <1>1, <1>3, <2>3 DEF ReplayTruth, HasVerdict
  <2> QED BY <1>3, <2>2, <2>3
<1>4. ASSUME NEW i \in queue, Call(i) \/ \E readable \in BOOLEAN : Check(i, readable)
      PROVE  ReplayTruth'
  <2>1. CASE Call(i)
    BY <1>3, <2>1 DEF Call, Verdicts
  <2>2. ASSUME NEW readable \in BOOLEAN, Check(i, readable)
        PROVE  ReplayTruth'
    BY <1>3, <2>2 DEF Check, Verdicts
  <2> QED BY <1>4, <2>1, <2>2
<1> QED BY <1>2, <1>4 DEF ReplayExecutes, ReplayStep

LEMMA ReplayingTells ==
  ASSUME TruthInv, ReplayInv, Replaying
  PROVE  TruthInv'
<1> USE DEF InRun
<1>0. CommonTruth /\ ReplayTruth /\ UNCHANGED content
  BY DEF TruthInv, Replaying, restoreVars
<1>1. /\ ReplayCommandStep /\ pc \in {"replay_gaps"} \cup ReplayStations
      /\ pc' \in {"shell"} \cup ReplayStations /\ pc \notin {"shell"} \cup InRun
  BY ReplayGoes DEF Replaying, Along, ReplayStations
<1>2. WipeTruth' /\ RestoreTruth' /\ HealTruth' /\ RunTruth'
  BY <1>0, <1>1, Apart DEF ReplayStations, Executing, WipeStations
<1>3. ASSUME pc' # "replay_gaps execute", CommonTruth'
      PROVE  TruthInv'
  BY <1>2, <1>3 DEF TruthInv, ReplayTruth
<1>4. ASSUME pc # "replay_gaps execute"
      PROVE  wrote = {} /\ failedEvents = 0
  BY <1>0, <1>1, <1>4 DEF CommonTruth, Writers, Executing, ReplayStations
<1>5. ASSUME wrote = {}, NEW code \in {0, 1, 2}, Fails(code)
      PROVE  TruthInv'
  <2>1. CommonTruth'
    BY <1>0, <1>1, <1>5, FailsTruly DEF CommonTruth
  <2>2. pc' = "shell"
    BY <1>5 DEF Fails, Leave
  <2> QED BY <1>3, <2>1, <2>2
<1>6. CASE ReplayGaps
  <2>1. wrote = {} /\ pc = "replay_gaps"
    BY <1>4, <1>6 DEF ReplayGaps
  <2>2. CASE NewDispatcher(Session.channels) /\ Goto("replay_gaps plan")
    <3>1. CommonTruth'
      BY <1>0, <1>1, <2>1, <2>2, GoesTruly DEF NewDispatcher, Goto
    <3> QED BY <1>3, <2>2, <3>1 DEF Goto
  <2> QED BY <1>5, <1>6, <2>1, <2>2 DEF ReplayGaps, BuildDispatcher
<1>7. CASE ReplayPlans
  <2>1. wrote = {} /\ pc = "replay_gaps plan"
    BY <1>4, <1>7 DEF ReplayPlans
  <2>2. ASSUME BeginReplay(ReplayTarget, Sanitized(line.snapshot)),
               Proceeds("replay_gaps execute")
        PROVE  TruthInv'
    <3>1. CommonTruth'
      BY <1>0, <1>1, <2>1, <2>2, GoesTruly DEF Proceeds, Goto, alertVars
    <3>2. step' = "map" /\ wrote' = {} /\ queue' = PlanReplay(sanitized')
      BY <2>1, <2>2 DEF BeginReplay, Proceeds, Goto
    <3>3. ReplayTruth'
      BY <3>2 DEF ReplayTruth
    <3> QED BY <1>2, <3>1, <3>3 DEF TruthInv
  <2> QED BY <1>5, <1>7, <2>1, <2>2 DEF ReplayPlans
<1>8. CASE ReplayExecutes
  <2>1. pc = "replay_gaps execute" /\ pc' = pc /\ UNCHANGED <<session, line, left, alertVars>>
    BY <1>8 DEF ReplayExecutes
  <2>2. CommonTruth'
    BY <1>0, <1>1, <2>1, GoesTruly DEF alertVars, Writers
  <2> QED BY <1>0, <1>2, <1>8, <2>1, <2>2, ReplayTells DEF TruthInv
<1>9. CASE ReplayExecuted
  <2>1. pc = "replay_gaps execute"
    BY <1>9 DEF ReplayExecuted
  <2>2. CASE \/ step = "raised" /\ Fails(1)
             \/ step = "refused" /\ Fails(2)
    <3>1. wrote = {}
      BY <1>0, <2>1, <2>2 DEF ReplayTruth
    <3> QED BY <1>5, <2>2, <3>1
  <2>3. CASE step = "done"
    <3> DEFINE clean == results.failed = {}
               remains == WorkLeft(Unreplayed)
    <3>1. Report("GAP_REPLAY_EXECUTED", Severity(clean), IF clean THEN 0 ELSE 1, remains)
      BY <1>9, <2>3 DEF ReplayExecuted
    <3>2. clean => ~Unreplayed
      <4>1. \A i \in PlanReplay(sanitized) : HasVerdict(i)
        BY <1>0, <2>1, <2>3 DEF ReplayTruth
      <4> QED BY <4>1 DEF HasVerdict, Unreplayed
    <3>3. clean \in BOOLEAN /\ remains \in {{}, {"work"}} /\ (clean => remains # {"work"})
      BY <3>2 DEF WorkLeft
    <3> HIDE DEF clean, remains
    <3>4. CommonTruth' /\ pc' = "shell"
      BY <1>0, <1>1, <3>1, <3>2, <3>3, EndsTruly
    <3> QED BY <1>3, <3>4
  <2> QED BY <1>9, <2>2, <2>3 DEF ReplayExecuted
<1> QED BY <1>1, <1>6, <1>7, <1>8, <1>9 DEF ReplayCommandStep

LEMMA RebuildingTells ==
  ASSUME TruthInv, Rebuilding
  PROVE  TruthInv'
<1> USE DEF InRun, Writers
<1>0. CommonTruth /\ UNCHANGED content
  BY DEF TruthInv, Rebuilding, restoreVars
<1>1. /\ RebuildStep /\ pc \in {"rebuild"} \cup RebuildStations
      /\ pc' \in {"shell"} \cup RebuildStations /\ pc \notin {"shell"} \cup InRun
  BY RebuildGoes DEF Rebuilding, Along, RebuildStations
<1>2. WipeTruth' /\ RestoreTruth' /\ HealTruth' /\ ReplayTruth' /\ RunTruth'
  BY <1>0, <1>1, Apart DEF RebuildStations, Executing, WipeStations
<1>3. ASSUME CommonTruth' PROVE TruthInv'
  BY <1>2, <1>3 DEF TruthInv
<1>4. ASSUME wrote = {}, NEW code \in {0, 1, 2}, Fails(code)
      PROVE  TruthInv'
  BY <1>0, <1>1, <1>3, <1>4, FailsTruly DEF CommonTruth
<1>5. ASSUME UNCHANGED <<session, line, left>>, failedEvents' \in {0, failedEvents},
             pc' \in RebuildStations, pc' \in Writers \/ wrote' = {}
      PROVE  TruthInv'
  BY <1>0, <1>1, <1>3, <1>5, GoesTruly DEF RebuildStations
<1>6. pc \in {"rebuild", "rebuild plan", "rebuild shown"} => wrote = {}
  BY <1>0 DEF CommonTruth, Executing
<1>7. CASE Rebuild
  BY <1>4, <1>5, <1>6, <1>7 DEF Rebuild, BuildDispatcher, NewDispatcher, Goto, RebuildStations
<1>8. CASE RebuildPlans
  BY <1>4, <1>5, <1>6, <1>8 DEF RebuildPlans, Proceeds, Goto, alertVars, RebuildStations
<1>9. CASE RebuildShown
  <2>0. failedEvents = 0
    BY <1>0, <1>1 DEF CommonTruth
  <2>1. AlertOutageExit(failedEvents) = 0
    BY <2>0 DEF AlertOutageExit
  <2> QED BY <1>4, <1>5, <1>6, <1>9, <2>1
          DEF RebuildShown, Proceeds, Goto, alertVars, RebuildStations
<1>10. CASE RebuildApplies
  BY <1>5, <1>10 DEF RebuildApplies, alertVars, RebuildStations
<1>11. CASE RebuildApplied
  <2>1. ASSUME Report("REBUILD_EXECUTED", "info", 0, {})
        PROVE  TruthInv'
    BY <1>0, <1>1, <1>3, <2>1, ReportsTruly
  <2>2. ASSUME Report("REBUILD_EXECUTED", "critical", 1, {"work"})
        PROVE  TruthInv'
    <3> DEFINE clean == FALSE
               remains == {"work"}
    <3>1. /\ Report("REBUILD_EXECUTED", "critical", IF clean THEN 0 ELSE 1, remains)
          /\ clean \in BOOLEAN /\ remains \in {{}, {"skipped"}, {"work"}}
          /\ clean => remains # {"work"}
      BY <2>2
    <3> HIDE DEF clean, remains
    <3> QED BY <1>0, <1>1, <1>3, <3>1, EndsTruly
  <2> QED BY <1>11, <2>1, <2>2 DEF RebuildApplied
<1> QED BY <1>1, <1>7, <1>8, <1>9, <1>10, <1>11 DEF RebuildStep

-----------------------------------------------------------------------------
(* A run.                                                                  *)

\* The most severe code: a fault, a refusal, a withheld apply, gaps.
LEMMA AggregateIs ==
  ASSUME NEW found, found \subseteq 0 .. 4
  PROVE  AggregateExit(found) = IF 1 \in found THEN 1
                                ELSE IF 2 \in found THEN 2
                                ELSE IF 4 \in found THEN 4
                                ELSE IF 3 \in found THEN 3 ELSE 0
<1> DEFINE ranks == {i \in DOMAIN ExitSeverity : ExitSeverity[i] \in found}
           first == CHOOSE i \in ranks : \A j \in ranks : i <= j
<1>1. /\ DOMAIN ExitSeverity = 1 .. 5
      /\ ExitSeverity[1] = 1 /\ ExitSeverity[2] = 2 /\ ExitSeverity[3] = 4
      /\ ExitSeverity[4] = 3 /\ ExitSeverity[5] = 5
  BY DEF ExitSeverity
<1>2. AggregateExit(found) = IF ranks = {} THEN 0 ELSE ExitSeverity[first]
  BY DEF AggregateExit
<1>3. /\ 1 \in ranks <=> 1 \in found
      /\ 2 \in ranks <=> 2 \in found
      /\ 3 \in ranks <=> 4 \in found
      /\ 4 \in ranks <=> 3 \in found
      /\ 5 \notin ranks /\ ranks \subseteq 1 .. 5
  BY <1>1
<1> HIDE DEF ranks
<1>4. ASSUME NEW k \in 1 .. 4, k \in ranks, \A j \in ranks : k <= j
      PROVE  AggregateExit(found) = ExitSeverity[k]
  <2>1. first \in ranks /\ \A j \in ranks : first <= j
    BY <1>4
  <2>2. first <= k /\ k <= first /\ first \in 1 .. 5
    BY <1>3, <1>4, <2>1
  <2> HIDE DEF first
  <2>3. first = k
    BY <2>2
  <2> QED BY <1>2, <1>4, <2>3 DEF first
<1>5. CASE 1 \in found
  <2>1. 1 \in ranks /\ \A j \in ranks : 1 <= j
    BY <1>3, <1>5
  <2> QED BY <1>1, <1>4, <1>5, <2>1
<1>6. CASE 1 \notin found /\ 2 \in found
  <2>1. 2 \in ranks /\ \A j \in ranks : 2 <= j
    BY <1>3, <1>6
  <2> QED BY <1>1, <1>4, <1>6, <2>1
<1>7. CASE 1 \notin found /\ 2 \notin found /\ 4 \in found
  <2>1. 3 \in ranks /\ \A j \in ranks : 3 <= j
    BY <1>3, <1>7
  <2> QED BY <1>1, <1>4, <1>7, <2>1
<1>8. CASE 1 \notin found /\ 2 \notin found /\ 4 \notin found /\ 3 \in found
  <2>1. 4 \in ranks /\ \A j \in ranks : 4 <= j
    BY <1>3, <1>8
  <2> QED BY <1>1, <1>4, <1>8, <2>1
<1>9. CASE 1 \notin found /\ 2 \notin found /\ 4 \notin found /\ 3 \notin found
  <2>1. ranks = {}
    BY <1>3, <1>9
  <2> QED BY <1>2, <1>9, <2>1
<1> QED BY <1>5, <1>6, <1>7, <1>8, <1>9

\* One organization of a run: its code and what it leaves.
LEMMA RunGoesOn ==
  ASSUME CommonTruth, RunTruth, NEW org \in pending,
         NEW code \in 0 .. 4, NEW remains \in SUBSET {"fault", "work", "apply", "gaps"},
         pc \in InRun, OrgDone(org, code, remains),
         failedEvents' \in Nat, announced \subseteq announced',
         code = 1 <=> "fault" \in remains,
         "fault" \in remains => "PROCESSING_FAULT" \in announced',
         "work" \in remains => code = 2,
         "apply" \in remains <=> code = 4,
         code = 3 => "gaps" \in remains,
         "gaps" \in remains => code \in {3, 4}
  PROVE  CommonTruth' /\ RunTruth'
<1>1. /\ UNCHANGED <<session, line, pc, wrote>> /\ codes' = codes \cup {code}
      /\ left' = left \cup remains
  BY DEF OrgDone
<1>2. CommonTruth'
  BY <1>1 DEF CommonTruth, ExitTellsTheTruth, InRun, Session
<1>3. RunTruth'
  BY <1>1 DEF RunTruth
<1> QED BY <1>2, <1>3

\* The end of a run: the code the scheduler sees.
LEMMA RunEndsTruly ==
  ASSUME CommonTruth, RunTruth, RunEnds
  PROVE  CommonTruth' /\ pc' = "shell"
<1> DEFINE code == AggregateExit(codes)
<1>1. /\ pc \in InRun /\ UNCHANGED <<session, wrote, left, failedEvents, announced>>
      /\ pc' = "shell" /\ exit' = IF code # 0 THEN code ELSE AlertOutageExit(failedEvents)
  BY DEF RunEnds, Leave, InRun, alertVars
<1>2. /\ wrote = {} /\ session \in DOMAIN Sessions /\ failedEvents \in Nat
  BY <1>1 DEF CommonTruth, InRun, Writers, Executing
<1>3. AlertOutageExit(failedEvents) = IF failedEvents > 0 THEN 5 ELSE 0
  BY DEF AlertOutageExit
<1>4. /\ codes \subseteq 0 .. 4
      /\ left \subseteq {"fault", "work", "apply", "gaps"}
      /\ "fault" \in left => 1 \in codes /\ "PROCESSING_FAULT" \in announced
      /\ "work" \in left => 2 \in codes
      /\ "apply" \in left <=> 4 \in codes
      /\ 3 \in codes => "gaps" \in left
      /\ "gaps" \in left => 3 \in codes \/ 4 \in codes
  BY <1>1 DEF RunTruth
<1>5. code = IF 1 \in codes THEN 1 ELSE IF 2 \in codes THEN 2
             ELSE IF 4 \in codes THEN 4 ELSE IF 3 \in codes THEN 3 ELSE 0
  BY <1>4, AggregateIs
<1> HIDE DEF code
<1>6. /\ code = 0 => left = {}
      /\ code = 3 => left = {"gaps"}
      /\ code = 4 => "apply" \in left /\ left \subseteq {"apply", "gaps"}
      /\ "fault" \in left => code = 1
      /\ code \in 0 .. 4
  <2>1. code = 0 => left = {}
    BY <1>4, <1>5
  <2>2. ASSUME code = 3 PROVE left = {"gaps"}
    <3>1. 1 \notin codes /\ 2 \notin codes /\ 4 \notin codes /\ 3 \in codes
      BY <1>5, <2>2
    <3>2. \A remains \in left : remains = "gaps"
      BY <1>4, <3>1
    <3> QED BY <1>4, <3>1, <3>2
  <2>3. code = 4 => "apply" \in left /\ left \subseteq {"apply", "gaps"}
    BY <1>4, <1>5
  <2> QED BY <1>4, <1>5, <2>1, <2>2, <2>3
<1>7. ExitTellsTheTruth'
  BY <1>1, <1>2, <1>3, <1>4, <1>6 DEF ExitTellsTheTruth
<1> QED BY <1>1, <1>2, <1>7 DEF CommonTruth

LEMMA RunningTells ==
  ASSUME TruthInv, Running
  PROVE  TruthInv'
<1>0. CommonTruth /\ RunTruth /\ UNCHANGED content
  BY DEF TruthInv, Running, restoreVars
<1>1. /\ RunStep /\ pc \in Runs \cup ReadModes \cup RunStations
      /\ pc' \in {"shell"} \cup RunStations
  BY RunGoes DEF Running, Along, RunStations
<1>2. WipeTruth' /\ RestoreTruth' /\ HealTruth' /\ ReplayTruth'
  BY <1>0, <1>1, Apart DEF RunStations, Executing, WipeStations
<1>3. ASSUME CommonTruth' /\ RunTruth' PROVE TruthInv'
  BY <1>2, <1>3 DEF TruthInv
<1>4. ASSUME CommonTruth' /\ pc' \notin InRun PROVE TruthInv'
  BY <1>3, <1>4 DEF RunTruth
<1>5. wrote = {}
  BY <1>0, <1>1 DEF CommonTruth, Writers, Executing, Runs, ReadModes, RunStations
<1>6. pc \in Runs \cup ReadModes \cup {"no key"} => pc \notin {"shell"} \cup InRun
  BY DEF Runs, ReadModes, InRun
<1>7. ASSUME pc \in Runs \cup ReadModes, NEW code \in {0, 1, 2}, Fails(code)
      PROVE  TruthInv'
  <2>1. CommonTruth'
    BY <1>0, <1>5, <1>6, <1>7, FailsTruly DEF CommonTruth
  <2> QED BY <1>4, <1>7, <2>1 DEF Fails, Leave, InRun
<1>8. CASE RunStarts
  <2>1. CASE Fails(1)
    BY <1>7, <1>8, <2>1 DEF RunStarts
  <2>2. CASE /\ NewDispatcher(Session.channels)
             /\ codes' = {}
             /\ pc' = (IF NoKey THEN "no key" ELSE IF pc = "export" THEN "run export" ELSE "run")
             /\ UNCHANGED <<session, commands, line, exit, wrote, left, failures, skips>>
    <3>1. left = {} /\ pc # "shell"
      BY <1>0, <1>6, <1>8 DEF RunStarts, CommonTruth
    <3>2. pc' \in {"no key"} \cup InRun /\ failedEvents' = 0
      BY <2>2 DEF NewDispatcher, InRun
    <3>3. CommonTruth'
      BY <1>0, <1>5, <2>2, <3>1, <3>2 DEF CommonTruth, ExitTellsTheTruth, InRun, Session
    <3>4. RunTruth'
      BY <2>2, <3>1 DEF RunTruth
    <3> QED BY <1>3, <3>3, <3>4
  <2> QED BY <1>8, <2>1, <2>2 DEF RunStarts
<1>9. CASE RunRefused
  <2>1. Report("PROCESSING_FAULT", "critical", 1, {"fault"})
    BY <1>9 DEF RunRefused
  <2>2. pc \notin {"shell"} \cup InRun
    BY <1>6, <1>9 DEF RunRefused
  <2>3. CommonTruth'
    BY <1>0, <2>1, <2>2, ReportsTruly
  <2> QED BY <1>4, <2>1, <2>3 DEF Report, Leave, InRun
<1>10. CASE RunEnds
  BY <1>0, <1>4, <1>10, RunEndsTruly DEF InRun
<1>11. ASSUME NEW mode \in ReadModes, NEW found \in SUBSET {0, 1, 2}, ReadOnly(mode, found)
       PROVE  TruthInv'
  BY <1>7, <1>11 DEF ReadOnly
<1>12. CASE ListOrgs \/ DiffNetworks \/ RunPreflight \/ RunEstimate
  BY <1>11, <1>12 DEF ListOrgs, DiffNetworks, RunPreflight, RunEstimate, ReadModes
<1>13. ASSUME NEW event, NEW severity, Alerts(event, severity)
       PROVE  /\ pc \in InRun => failedEvents' \in Nat
              /\ announced' = announced \cup {event}
  BY <1>0, <1>13 DEF Alerts, Dispatch, CommonTruth
<1>14. ASSUME NEW org \in pending, Fault(org)
       PROVE  TruthInv'
  <2>1. /\ pc \in InRun /\ OrgDone(org, 1, {"fault"})
        /\ Alerts("PROCESSING_FAULT", "critical")
    BY <1>14 DEF Fault, InRun
  <2>2. failedEvents' \in Nat /\ announced' = announced \cup {"PROCESSING_FAULT"}
    BY <1>13, <2>1
  <2> QED BY <1>0, <1>3, <2>1, <2>2, RunGoesOn
<1>15. ASSUME NEW org \in pending, Refused(org)
       PROVE  TruthInv'
  <2>1. pc \in InRun /\ OrgDone(org, 2, {"work"}) /\ UNCHANGED <<failedEvents, announced>>
    BY <1>15 DEF Refused, InRun, alertVars
  <2>2. failedEvents' \in Nat
    BY <1>0, <2>1 DEF CommonTruth
  <2> QED BY <1>0, <1>3, <2>1, <2>2, RunGoesOn
<1>16. ASSUME NEW org \in pending, NEW gaps \in BOOLEAN, Exported(org, gaps)
       PROVE  TruthInv'
  <2> DEFINE code == GapExit(gaps)
             remains == IF gaps /\ Given("fail_on_gaps") THEN {"gaps"} ELSE {}
  <2>1. pc \in InRun /\ OrgDone(org, code, remains) /\ Alerts("RUN_SUCCESS", "info")
    BY <1>16 DEF Exported, InRun
  <2>2. \/ code = 0 /\ remains = {}
        \/ code = 3 /\ remains = {"gaps"}
    BY DEF GapExit
  <2> HIDE DEF code, remains
  <2>3. failedEvents' \in Nat /\ announced \subseteq announced'
    BY <1>13, <2>1
  <2> QED BY <1>0, <1>3, <2>1, <2>2, <2>3, RunGoesOn
<1>17. ASSUME NEW org \in pending, NEW gaps \in BOOLEAN, NEW aborted \in BOOLEAN,
              Orchestrated(org, aborted, gaps)
       PROVE  TruthInv'
  <2> DEFINE code == IF aborted THEN 4 ELSE GapExit(gaps)
             remains == (IF aborted THEN {"apply"} ELSE {})
                          \cup (IF gaps /\ Given("fail_on_gaps") THEN {"gaps"} ELSE {})
  <2>1. /\ pc \in InRun /\ OrgDone(org, code, remains)
        /\ \E event, severity : Alerts(event, severity)
    BY <1>17 DEF Orchestrated, InRun
  <2>2. \/ code = 4 /\ (remains = {"apply"} \/ remains = {"apply", "gaps"})
        \/ code = 0 /\ remains = {}
        \/ code = 3 /\ remains = {"gaps"}
    BY DEF GapExit
  <2> HIDE DEF code, remains
  <2>3. failedEvents' \in Nat /\ announced \subseteq announced'
    BY <1>13, <2>1
  <2> QED BY <1>0, <1>3, <2>1, <2>2, <2>3, RunGoesOn
<1> QED BY <1>1, <1>8, <1>9, <1>10, <1>12, <1>14, <1>15, <1>16, <1>17 DEF RunStep

\* What changes no pc leaves what is said of it.
LEMMA TruthStays ==
  ASSUME TruthInv, UNCHANGED <<commandVars, alertVars, healVars, replayVars, codes>>,
         UNCHANGED <<stage, wiped, exists>>, content' = content \/ pc = "shell",
         content' \in [Organizations -> SUBSET ObjectSet]
  PROVE  TruthInv'
<1>1. /\ UNCHANGED <<session, line, pc, exit, wrote, left, pending, failures, skips>>
      /\ UNCHANGED <<failedEvents, announced, live, chosen, step, sanitized, queue, results, codes>>
  BY DEF commandVars, alertVars, healVars, replayVars, runVars
<1>2. CommonTruth' /\ WipeTruth' /\ RunTruth'
  <2>1. ExitTellsTheTruth'
    BY <1>1 DEF TruthInv, CommonTruth, ExitTellsTheTruth
  <2>2. CommonTruth'
    BY <1>1, <2>1 DEF TruthInv, CommonTruth, Session
  <2>3. WipeTruth'
    BY <1>1 DEF TruthInv, WipeTruth
  <2>4. RunTruth'
    BY <1>1 DEF TruthInv, RunTruth
  <2> QED BY <2>2, <2>3, <2>4
<1>3. HealTruth' /\ ReplayTruth'
  BY <1>1 DEF TruthInv, HealTruth, ReplayTruth, HasVerdict, LiveAssetKeys
<1>4. RestoreTruth'
  BY <1>1 DEF TruthInv, RestoreTruth, Executing, NextIs, Present
<1> QED BY <1>2, <1>3, <1>4 DEF TruthInv

LEMMA EnterTells ==
  ASSUME TruthInv, NEW l \in Session.lines, Type(l), UNCHANGED content
  PROVE  TruthInv'
<1> USE DEF InRun
<1>1. /\ UNCHANGED session /\ wrote' = {} /\ left' = {} /\ failedEvents' = 0
      /\ pc' = "shell" => exit' = 2 \/ pc' = Mode(ConfigOf(l, Session.key))
      /\ pc' # "shell" => line' = l
  BY DEF Type, NewDispatcher
<1>2. pc' \in DR_ACTION_FLAGS \cup ReadModes \cup Runs \cup {"usage", "shell"}
  BY EntersAMode
<1>3. pc' = "shell" => exit' = 2
  BY ModesOfLines DEF Type, DR_ACTION_FLAGS, ReadModes, Runs
<1>4. CommonTruth'
  <2>1. ExitTellsTheTruth'
    <3>1. "fault" \notin left'
      BY <1>1
    <3> QED BY <1>1, <1>3, <3>1 DEF ExitTellsTheTruth
  <2>2. session \in DOMAIN Sessions /\ 0 \in Nat
    BY DEF TruthInv, CommonTruth
  <2>3. pc' # "shell" => line' \in Session'.lines
    BY <1>1 DEF Session
  <2> QED BY <1>1, <2>1, <2>2, <2>3 DEF CommonTruth
<1> QED BY <1>2, <1>4, Apart
        DEF TruthInv, DR_ACTION_FLAGS, ReadModes, Runs, WipeStations, Executing

LEMMA TruthInvariant == Spec => [](TruthInv /\ ReplayInv)
<1>1. Init => TruthInv
  <2>1. ASSUME Init PROVE TruthInv
    <3>1. CommonTruth /\ pc = "shell"
      BY <2>1 DEF Init, CommandInit, AlertInit, CommonTruth, ExitTellsTheTruth, InRun
    <3>2. content \in [Organizations -> SUBSET ObjectSet]
      BY <2>1 DEF Init
    <3> QED BY <3>1, <3>2 DEF TruthInv, WipeTruth, RestoreTruth, HealTruth, ReplayTruth, RunTruth,
            WipeStations, Executing, InRun
  <2> QED BY <2>1
<1>2. ASSUME TruthInv, ReplayInv, [Next]_vars
      PROVE  TruthInv'
  <2>0. content \in [Organizations -> SUBSET ObjectSet]
    BY <1>2 DEF TruthInv, RestoreTruth
  <2>1. CASE Enter
    BY <1>2, <2>1, EnterTells DEF Enter, restoreVars
  <2>2. CASE Wiping \/ Restoring \/ Healing
    BY <1>2, <2>2, WipingTells, RestoringTells, HealingTells
  <2>3. CASE Replaying \/ Rebuilding \/ Running
    BY <1>2, <2>3, ReplayingTells, RebuildingTells, RunningTells
  <2>4. CASE Kill
    <3>1. /\ pc' = "shell" /\ exit' = Killed /\ UNCHANGED <<session, content, failedEvents>>
      BY <2>4 DEF Kill, Die, alertVars
    <3>2. CommonTruth'
      BY <1>2, <3>1 DEF TruthInv, CommonTruth, ExitTellsTheTruth
    <3> QED BY <1>2, <3>1, <3>2, Apart DEF TruthInv, WipeStations, Executing, InRun
  <2>5. CASE ChangeDevices
    <3>1. UNCHANGED <<stage, wiped, exists>>
      BY <2>5 DEF ChangeDevices, Claim, Unclaim, ChangeInventory, callVars
    <3> QED BY <1>2, <2>0, <2>5, <3>1, TruthStays DEF ChangeDevices, restoreVars
  <2>6. CASE LoseObject
    <3>1. content' \in [Organizations -> SUBSET ObjectSet] /\ pc = "shell"
      BY <2>0, <2>6 DEF LoseObject
    <3>2. UNCHANGED <<stage, wiped, exists>>
      BY <2>6 DEF LoseObject, wiperVars, orgVars, callVars
    <3> QED BY <1>2, <2>6, <3>1, <3>2, TruthStays DEF LoseObject
  <2>7. CASE UNCHANGED vars
    <3>1. UNCHANGED <<commandVars, alertVars, healVars, replayVars, codes>> /\ content' = content
          /\ UNCHANGED <<stage, wiped, exists>>
      BY <2>7 DEF vars, restoreVars, wiperVars, orgVars, callVars
    <3> QED BY <1>2, <2>0, <3>1, TruthStays
  <2> QED BY <1>2, <2>1, <2>2, <2>3, <2>4, <2>5, <2>6, <2>7 DEF Next
<1> QED BY <1>1, <1>2, ReplayInvariant, PTL DEF Spec

\* In every session, whatever happened on the way, which channels were out
\* and whoever was killed: the exit code of a command that ended is what it
\* left behind, and what it wrote it has announced.
THEOREM SessionsTellTheTruth == Spec => []ExitTellsTheTruth
<1>1. TruthInv => ExitTellsTheTruth
  BY DEF TruthInv, CommonTruth
<1> QED BY <1>1, TruthInvariant, PTL

-----------------------------------------------------------------------------
(* Types.                                                                  *)

\* A step of a command is on its way, or the end of it.
Remains == {"work", "skipped", "apply", "gaps", "fault"}

Steps ==
  /\ pc # "shell" /\ UNCHANGED <<session, commands>>
  /\ \/ pc' # "shell" /\ UNCHANGED <<line, exit>>
     \/ pc' = "shell" /\ line' = NoLine /\ exit' \in 0 .. 5
  /\ left' \subseteq Remains /\ failedEvents' \in Nat /\ channels' \subseteq Channels

CommandInv == CommandTypeOK /\ session \in DOMAIN Sessions

LEMMA StepsTyped ==
  ASSUME CommandInv, Steps
  PROVE  CommandInv'
<1>1. Session' = Session /\ session' \in DOMAIN Sessions
  BY DEF Steps, Session, CommandInv
<1>2. AlertTypeOK'
  BY DEF Steps, AlertTypeOK
<1>3. exit' \in {-1, 0, 1, 2, 3, 4, 5, Killed}
  BY DEF Steps, CommandInv, CommandTypeOK
<1>4. /\ commands' \in 0 .. Session'.commands
      /\ line' = NoLine \/ line' \in Session'.lines
      /\ pc' = "shell" <=> line' = NoLine
      /\ left' \subseteq Remains
  BY <1>1 DEF Steps, CommandInv, CommandTypeOK
<1> QED BY <1>1, <1>2, <1>3, <1>4 DEF CommandInv, CommandTypeOK, Remains

LEMMA FailsSteps ==
  ASSUME CommandInv, pc # "shell", NEW code \in {0, 1, 2}, Fails(code)
  PROVE  Steps
BY DEF CommandInv, CommandTypeOK, AlertTypeOK, Steps, Fails, Leave, alertVars

LEMMA ReportSteps ==
  ASSUME CommandInv, pc # "shell", NEW event, NEW severity,
         NEW code \in {0, 1}, NEW remains \in SUBSET Remains,
         Report(event, severity, code, remains)
  PROVE  Steps
<1>1. failedEvents \in Nat /\ channels \subseteq Channels
  BY DEF CommandInv, CommandTypeOK, AlertTypeOK
<1>2. failedEvents' \in Nat /\ channels' \subseteq Channels
  BY <1>1 DEF Report, Dispatch
<1>3. Leave(IF code # 0 THEN code ELSE AlertOutageExit(failedEvents'), remains)
  BY DEF Report
<1> QED BY <1>2, <1>3 DEF Steps, Leave, AlertOutageExit

LEMMA FaultSteps ==
  ASSUME CommandInv, pc # "shell", ReportFault
  PROVE  Steps
BY ReportSteps DEF ReportFault, Remains

LEMMA GoesSteps ==
  ASSUME CommandInv, pc # "shell", pc' # "shell",
         UNCHANGED <<session, commands, line, exit, left>>,
         UNCHANGED alertVars \/ NewDispatcher(Session.channels)
  PROVE  Steps
<1>1. Session.channels \subseteq Channels
  BY SessionsAssumption DEF CommandInv, Session
<1> QED BY <1>1 DEF CommandInv, CommandTypeOK, AlertTypeOK, alertVars, NewDispatcher, Steps, Remains

LEMMA WipeTyped ==
  ASSUME CommandInv, WipeStep
  PROVE  Steps
<1>1. pc # "shell"
  BY WipeGoes DEF Along, WipeStations
<1>a. ASSUME NEW code \in {0, 1, 2}, Fails(code)
      PROVE  Steps
  BY <1>1, <1>a, FailsSteps
<1>b. ASSUME pc' # "shell", UNCHANGED <<session, commands, line, exit, left>>,
             UNCHANGED alertVars \/ NewDispatcher(Session.channels)
      PROVE  Steps
  BY <1>1, <1>b, GoesSteps
<1>c. ASSUME ReportFault
      PROVE  Steps
  BY <1>1, <1>c, FaultSteps
<1>2. CASE WipeOrg
  BY <1>1, <1>a, <1>b, <1>c, <1>2 DEF WipeOrg, Goto
<1>3. CASE WipePreview
  BY <1>1, <1>a, <1>b, <1>c, <1>3 DEF WipePreview, Goto, Proceeds
<1>4. CASE WipeExecute
  BY <1>1, <1>a, <1>b, <1>c, <1>4 DEF WipeExecute
<1>5. CASE WipeExecuted
  <2>1. CASE Leave(2, {"work"}) /\ UNCHANGED alertVars
    BY <1>1, <2>1 DEF CommandInv, CommandTypeOK, AlertTypeOK, alertVars, Leave, Steps, Remains
  <2>2. CASE Report("ORG_WIPE_EXECUTED", Severity(~failed /\ wiped),
                    IF wiped THEN 0 ELSE 1, WorkLeft(exists))
    <3> DEFINE code == IF wiped THEN 0 ELSE 1
               remains == WorkLeft(exists)
    <3>1. code \in {0, 1} /\ remains \in SUBSET Remains
      BY DEF WorkLeft, Remains
    <3>2. Report("ORG_WIPE_EXECUTED", Severity(~failed /\ wiped), code, remains)
      BY <2>2
    <3> HIDE DEF code, remains
    <3> QED BY <1>1, <3>1, <3>2, ReportSteps
  <2> QED BY <1>c, <1>5, <2>1, <2>2 DEF WipeExecuted
<1> QED BY <1>2, <1>3, <1>4, <1>5 DEF WipeStep

LEMMA RestoreTyped ==
  ASSUME CommandInv, RestoreStep
  PROVE  Steps
<1>1. pc # "shell"
  BY RestoreGoes DEF Along, RestoreStations, Executing
<1>a. ASSUME NEW code \in {0, 1, 2}, Fails(code)
      PROVE  Steps
  BY <1>1, <1>a, FailsSteps
<1>b. ASSUME pc' # "shell", UNCHANGED <<session, commands, line, exit, left>>,
             UNCHANGED alertVars \/ NewDispatcher(Session.channels)
      PROVE  Steps
  BY <1>1, <1>b, GoesSteps
<1>c. ASSUME ReportFault
      PROVE  Steps
  BY <1>1, <1>c, FaultSteps
<1>2. CASE Restore \/ RestoreLoad
  BY <1>1, <1>a, <1>b, <1>c, <1>2 DEF Restore, RestoreLoad, BuildDispatcher, Goto, Proceeds
<1>3. CASE RestoreJournalOpens \/ RestoreCount
  BY <1>1, <1>a, <1>b, <1>c, <1>3 DEF RestoreJournalOpens, RestoreCount, Goto, Proceeds
<1>4. CASE RestoreBind
  BY <1>1, <1>a, <1>b, <1>c, <1>4 DEF RestoreBind
<1>5. ASSUME NEW k \in ObjectSet, ObjectStep(k)
      PROVE  Steps
  <2>1. /\ UNCHANGED <<session, commands, line, exit, left, alertVars>>
        /\ pc' # "shell"
    BY <1>5, ObjectStepIs DEF Executing
  <2> QED BY <1>b, <2>1
<1>6. CASE RestoreBreaks
  BY <1>1, <1>a, <1>b, <1>c, <1>6 DEF RestoreBreaks
<1>7. CASE RestoreExecuted
  <2> DEFINE code == IF failures = {} THEN 0 ELSE 1
             remains == LeftOut(ObjectSet \ content[line.target], skips)
  <2>1. code \in {0, 1} /\ remains \in SUBSET Remains
    BY DEF LeftOut, Remains
  <2>2. Report("RESTORE_EXECUTED", Severity(failures = {}), code, remains)
    BY <1>7 DEF RestoreExecuted
  <2> HIDE DEF code, remains
  <2> QED BY <1>1, <2>1, <2>2, ReportSteps
<1> QED BY <1>2, <1>3, <1>4, <1>5, <1>6, <1>7 DEF RestoreStep

LEMMA HealTyped ==
  ASSUME CommandInv, HealCommandStep
  PROVE  Steps
<1>1. pc # "shell"
  BY HealGoes DEF Along, HealStations
<1>a. ASSUME NEW code \in {0, 1, 2}, Fails(code)
      PROVE  Steps
  BY <1>1, <1>a, FailsSteps
<1>b. ASSUME pc' # "shell", UNCHANGED <<session, commands, line, exit, left>>,
             UNCHANGED alertVars \/ NewDispatcher(Session.channels)
      PROVE  Steps
  BY <1>1, <1>b, GoesSteps
<1>2. CASE Heal \/ HealLoad
  BY <1>1, <1>a, <1>b, <1>2 DEF Heal, HealLoad, BuildDispatcher, Goto, Proceeds
<1>3. CASE HealPlans \/ HealPlanned
  BY <1>1, <1>a, <1>b, <1>3 DEF HealPlans, HealPlanned, Goto, Proceeds
<1>4. CASE HealJournalOpens
  BY <1>1, <1>a, <1>b, <1>4 DEF HealJournalOpens
<1>5. ASSUME NEW key \in KeysOf(Snapshot), Recreate(key)
      PROVE  Steps
  BY <1>1, <1>b, <1>5 DEF Recreate
<1>6. CASE HealBreaks
  BY <1>1, <1>6, FaultSteps DEF HealBreaks
<1>7. CASE Healed
  <2> DEFINE code == IF failures = {} THEN 0 ELSE 1
             remains == LeftOut(chosen \ LiveAssetKeys, skips)
  <2>1. code \in {0, 1} /\ remains \in SUBSET Remains
    BY DEF LeftOut, Remains
  <2>2. Report("HEAL_EXECUTED", Severity(failures = {}), code, remains)
    BY <1>7 DEF Healed
  <2> HIDE DEF code, remains
  <2> QED BY <1>1, <2>1, <2>2, ReportSteps
<1> QED BY <1>2, <1>3, <1>4, <1>5, <1>6, <1>7 DEF HealCommandStep

LEMMA ReplayTyped ==
  ASSUME CommandInv, ReplayCommandStep
  PROVE  Steps
<1>1. pc # "shell"
  BY ReplayGoes DEF Along, ReplayStations
<1>a. ASSUME NEW code \in {0, 1, 2}, Fails(code)
      PROVE  Steps
  BY <1>1, <1>a, FailsSteps
<1>b. ASSUME pc' # "shell", UNCHANGED <<session, commands, line, exit, left>>,
             UNCHANGED alertVars \/ NewDispatcher(Session.channels)
      PROVE  Steps
  BY <1>1, <1>b, GoesSteps
<1>2. CASE ReplayGaps
  BY <1>1, <1>a, <1>b, <1>2 DEF ReplayGaps, BuildDispatcher, Goto
<1>3. CASE ReplayPlans
  BY <1>1, <1>a, <1>b, <1>3 DEF ReplayPlans, Goto, Proceeds
<1>4. CASE ReplayExecutes
  BY <1>1, <1>b, <1>4 DEF ReplayExecutes
<1>5. CASE ReplayExecuted
  <2>1. ASSUME Report("GAP_REPLAY_EXECUTED", Severity(results.failed = {}),
                      IF results.failed = {} THEN 0 ELSE 1, WorkLeft(Unreplayed))
        PROVE  Steps
    <3> DEFINE code == IF results.failed = {} THEN 0 ELSE 1
               remains == WorkLeft(Unreplayed)
    <3>1. code \in {0, 1} /\ remains \in SUBSET Remains
      BY DEF WorkLeft, Remains
    <3>2. Report("GAP_REPLAY_EXECUTED", Severity(results.failed = {}), code, remains)
      BY <2>1
    <3> HIDE DEF code, remains
    <3> QED BY <1>1, <3>1, <3>2, ReportSteps
  <2> QED BY <1>a, <1>5, <2>1 DEF ReplayExecuted
<1> QED BY <1>2, <1>3, <1>4, <1>5 DEF ReplayCommandStep

LEMMA RebuildTyped ==
  ASSUME CommandInv, RebuildStep
  PROVE  Steps
<1>1. pc # "shell"
  BY RebuildGoes DEF Along, RebuildStations
<1>a. ASSUME NEW code \in {0, 1, 2}, Fails(code)
      PROVE  Steps
  BY <1>1, <1>a, FailsSteps
<1>b. ASSUME pc' # "shell", UNCHANGED <<session, commands, line, exit, left>>,
             UNCHANGED alertVars \/ NewDispatcher(Session.channels)
      PROVE  Steps
  BY <1>1, <1>b, GoesSteps
<1>2. CASE Rebuild \/ RebuildPlans
  BY <1>1, <1>a, <1>b, <1>2 DEF Rebuild, RebuildPlans, BuildDispatcher, Goto, Proceeds
<1>3. CASE RebuildShown
  <2>1. ASSUME Fails(AlertOutageExit(failedEvents))
        PROVE  Steps
    BY <1>1, <2>1 DEF CommandInv, CommandTypeOK, AlertTypeOK, AlertOutageExit, Steps, Fails, Leave,
       alertVars
  <2> QED BY <1>1, <1>b, <1>3, <2>1 DEF RebuildShown, Goto, Proceeds
<1>4. CASE RebuildApplies
  BY <1>1, <1>b, <1>4 DEF RebuildApplies
<1>5. CASE RebuildApplied
  <2>1. {} \in SUBSET Remains /\ {"work"} \in SUBSET Remains
    BY DEF Remains
  <2>2. ASSUME Report("REBUILD_EXECUTED", "info", 0, {})
        PROVE  Steps
    BY <1>1, <2>1, <2>2, ReportSteps
  <2>3. ASSUME Report("REBUILD_EXECUTED", "critical", 1, {"work"})
        PROVE  Steps
    BY <1>1, <2>1, <2>3, ReportSteps
  <2> QED BY <1>5, <2>2, <2>3 DEF RebuildApplied
<1> QED BY <1>2, <1>3, <1>4, <1>5 DEF RebuildStep

LEMMA RunTyped ==
  ASSUME CommandInv, RunTruth, RunStep
  PROVE  Steps
<1>1. pc # "shell"
  BY RunGoes DEF Along, RunStations, Runs, ReadModes
<1>2. CASE RunStarts
  <2>1. CASE Fails(1)
    BY <1>1, <2>1, FailsSteps
  <2> QED BY <1>1, <1>2, <2>1, GoesSteps DEF RunStarts
<1>3. CASE RunRefused
  <2>1. Report("PROCESSING_FAULT", "critical", 1, {"fault"}) /\ {"fault"} \in SUBSET Remains
    BY <1>3 DEF RunRefused, Remains
  <2> QED BY <1>1, <2>1, ReportSteps
<1>4. CASE RunEnds
  <2>1. codes \subseteq 0 .. 4
    BY <1>4 DEF RunEnds, RunTruth, InRun
  <2>2. AggregateExit(codes) \in 0 .. 4 /\ AlertOutageExit(failedEvents) \in 0 .. 5
    <3> DEFINE code == AggregateExit(codes)
    <3>1. code = IF 1 \in codes THEN 1 ELSE IF 2 \in codes THEN 2
                 ELSE IF 4 \in codes THEN 4 ELSE IF 3 \in codes THEN 3 ELSE 0
      BY <2>1, AggregateIs
    <3> HIDE DEF code
    <3>2. code \in 0 .. 4
      BY <3>1
    <3>3. AlertOutageExit(failedEvents) \in 0 .. 5
      BY DEF AlertOutageExit
    <3> QED BY <3>2, <3>3 DEF code
  <2>3. /\ UNCHANGED <<session, commands, left, alertVars>>
        /\ pc' = "shell" /\ line' = NoLine
        /\ exit' = IF AggregateExit(codes) # 0 THEN AggregateExit(codes)
                   ELSE AlertOutageExit(failedEvents)
    BY <1>4 DEF RunEnds, Leave, alertVars
  <2>4. exit' \in 0 .. 5
    BY <2>2, <2>3
  <2> QED BY <1>1, <2>3, <2>4
          DEF CommandInv, CommandTypeOK, AlertTypeOK, alertVars, Steps, Remains
<1>5. CASE ListOrgs \/ DiffNetworks \/ RunPreflight \/ RunEstimate
  <2>1. PICK code \in {0, 1, 2} : Fails(code)
    BY <1>5 DEF ListOrgs, DiffNetworks, RunPreflight, RunEstimate, ReadOnly
  <2> QED BY <1>1, <2>1, FailsSteps
<1>6. ASSUME NEW org \in pending, NEW code, NEW remains \in SUBSET Remains,
             OrgDone(org, code, remains),
             \/ UNCHANGED alertVars
             \/ \E event, severity : Alerts(event, severity)
      PROVE  Steps
  <2>1. /\ UNCHANGED <<session, commands, line, pc, exit>> /\ left' = left \cup remains
    BY <1>6 DEF OrgDone
  <2>2. failedEvents' \in Nat /\ channels' \subseteq Channels
    BY <1>6 DEF CommandInv, CommandTypeOK, AlertTypeOK, alertVars, Alerts, Dispatch
  <2> QED BY <1>1, <1>6, <2>1, <2>2 DEF CommandInv, CommandTypeOK, Steps, Remains
<1>7. /\ {"fault"} \in SUBSET Remains /\ {"work"} \in SUBSET Remains
      /\ {"gaps"} \in SUBSET Remains /\ {"apply"} \in SUBSET Remains /\ {} \in SUBSET Remains
  BY DEF Remains
<1>8. ASSUME NEW org \in pending, Fault(org) \/ Refused(org)
      PROVE  Steps
  BY <1>6, <1>7, <1>8 DEF Fault, Refused
<1>9. ASSUME NEW org \in pending, NEW gaps \in BOOLEAN, Exported(org, gaps)
      PROVE  Steps
  <2> DEFINE remains == IF gaps /\ Given("fail_on_gaps") THEN {"gaps"} ELSE {}
  <2>1. OrgDone(org, GapExit(gaps), remains) /\ Alerts("RUN_SUCCESS", "info")
    BY <1>9 DEF Exported
  <2>2. remains \in SUBSET Remains
    BY <1>7
  <2> HIDE DEF remains
  <2> QED BY <1>6, <2>1, <2>2
<1>10. ASSUME NEW org \in pending, NEW gaps \in BOOLEAN, NEW aborted \in BOOLEAN,
              Orchestrated(org, aborted, gaps)
       PROVE  Steps
  <2> DEFINE code == IF aborted THEN 4 ELSE GapExit(gaps)
             remains == (IF aborted THEN {"apply"} ELSE {})
                          \cup (IF gaps /\ Given("fail_on_gaps") THEN {"gaps"} ELSE {})
  <2>1. OrgDone(org, code, remains) /\ \E event, severity : Alerts(event, severity)
    BY <1>10 DEF Orchestrated
  <2>2. remains \in SUBSET Remains
    BY <1>7
  <2> HIDE DEF code, remains
  <2> QED BY <1>6, <2>1, <2>2
<1> QED BY <1>2, <1>3, <1>4, <1>5, <1>8, <1>9, <1>10 DEF RunStep

LEMMA JournalTyped ==
  ASSUME JournalTypeOK,
         \/ UNCHANGED journalVars \/ Load \/ DieIdle
         \/ \E record : Remember(record) \/ DieWriting(record)
  PROVE  JournalTypeOK'
<1> USE JournalAssumption DEF JournalTypeOK
<1>1. CASE UNCHANGED journalVars
  BY <1>1 DEF journalVars
<1>2. CASE Load
  <2>1. tail' \in {"whole", "torn", "bare"} /\ loaded' = TRUE
    BY <1>2 DEF Load, TailLoaded
  <2> QED BY <2>1
<1>3. CASE DieIdle
  <2>1. tail' = tail /\ loaded' = FALSE /\ memory' = {}
    BY <1>3 DEF DieIdle, Close
  <2> QED BY <2>1
<1>4. ASSUME NEW record, Remember(record)
      PROVE  JournalTypeOK'
  <2>1. loaded /\ loaded' = loaded /\ tail' = "whole"
    BY <1>4 DEF Remember, AppendLine
  <2> QED BY <2>1
<1>5. ASSUME NEW record, DieWriting(record)
      PROVE  JournalTypeOK'
  <2>1. tail' \in {"torn", "bare"} /\ loaded' = FALSE /\ memory' = {}
    BY <1>5 DEF DieWriting, TornLine, Close
  <2> QED BY <2>1
<1> QED BY <1>1, <1>2, <1>3, <1>4, <1>5

LEMMA RestoreJournals ==
  ASSUME RestoreStep
  PROVE  \/ UNCHANGED journalVars \/ Load \/ DieIdle
         \/ \E record : Remember(record) \/ DieWriting(record)
<1>1. CASE Restore \/ RestoreLoad
  BY <1>1 DEF Restore, RestoreLoad, restoreVars
<1>2. CASE RestoreJournalOpens \/ RestoreCount \/ RestoreBind
  BY <1>2 DEF RestoreJournalOpens, RestoreCount, RestoreBind
<1>3. ASSUME NEW k \in ObjectSet, ObjectStep(k)
      PROVE  UNCHANGED journalVars \/ \E record : Remember(record)
  BY <1>3, ObjectStepIs
<1>4. CASE RestoreBreaks \/ RestoreExecuted
  BY <1>4 DEF RestoreBreaks, RestoreExecuted
<1> QED BY <1>1, <1>2, <1>3, <1>4 DEF RestoreStep

LEMMA HealKeepsTypes ==
  ASSUME HealTypeOK, HealStep
  PROVE  HealTypeOK'
<1> USE DEF HealTypeOK
<1>1. KeysOf(Actions) \subseteq KeysOf(Snapshot) /\ KeysOf(MissingActions) \subseteq KeysOf(Snapshot)
  BY DEF KeysOf, Actions, MissingActions
<1>2. CASE PlanHeal
  <2>1. missing' \subseteq KeysOf(Snapshot) /\ unbound' \subseteq KeysOf(Snapshot)
    BY <1>2 DEF PlanHeal, SplitSurvivorBindings
  <2>2. surviving' \subseteq KeysOf(Snapshot)
    BY <1>1, <1>2 DEF PlanHeal
  <2>3. /\ chosen' \subseteq KeysOf(Snapshot) /\ healStep' \in {"chosen", "select"}
        /\ UNCHANGED <<live, only, frontier>>
    BY <1>1, <1>2 DEF PlanHeal
  <2> QED BY <2>1, <2>2, <2>3
<1>3. CASE SelectDirect
  BY <1>1, <1>3 DEF SelectDirect
<1>4. CASE GrowScope
  <2>1. Grown \subseteq KeysOf(Snapshot)
    BY DEF Grown, MissingActions, Actions, KeysOf
  <2> QED BY <1>4, <2>1 DEF GrowScope
<1>5. CASE ScopeSettled \/ Closed
  BY <1>5 DEF ScopeSettled, Closed
<1>6. ASSUME NEW key \in frontier, FollowDependencies(key)
      PROVE  HealTypeOK'
  <2>1. Needed(key) \subseteq KeysOf(Snapshot)
    BY ZenonT(40) DEF Needed, Candidates, AnchorsOf, Actions, KeysOf
  <2> QED BY <1>6, <2>1 DEF FollowDependencies
<1> QED BY <1>2, <1>3, <1>4, <1>5, <1>6 DEF HealStep

LEMMA HealCommandTyped ==
  ASSUME HealTypeOK, HealCommandStep, line.only \subseteq Selectors
  PROVE  HealTypeOK'
<1>1. ASSUME UNCHANGED <<healStep, missing, unbound, surviving, only, chosen, frontier>>
      PROVE  HealTypeOK'
  BY <1>1 DEF HealTypeOK
<1>2. ASSUME ForgetHeal
      PROVE  HealTypeOK'
  BY <1>2 DEF ForgetHeal, HealTypeOK
<1>3. CASE Heal \/ HealJournalOpens \/ HealBreaks \/ Healed
  BY <1>1, <1>2, <1>3 DEF Heal, HealJournalOpens, HealBreaks, Healed, healVars
<1>4. CASE HealLoad
  <2>1. ASSUME BeginHeal(IF Given("only") THEN line.only ELSE {})
        PROVE  HealTypeOK'
    BY <2>1 DEF BeginHeal, HealTypeOK
  <2> QED BY <1>1, <1>4, <2>1 DEF HealLoad, healVars
<1>5. CASE HealPlans
  BY <1>5, HealKeepsTypes DEF HealPlans
<1>6. CASE HealPlanned
  BY <1>1, <1>2, <1>6 DEF HealPlanned, healVars
<1>7. ASSUME NEW key \in KeysOf(Snapshot), Recreate(key)
      PROVE  HealTypeOK'
  BY <1>1, <1>7 DEF Recreate
<1> QED BY <1>3, <1>4, <1>5, <1>6, <1>7 DEF HealCommandStep

\* What the theorems before do not say of a session's types.
SessionTypes ==
  /\ CommandInv /\ JournalTypeOK /\ HealTypeOK
  /\ rebuildPlan \in {"none", "changes", "no changes"}

LEMMA TypesStay ==
  ASSUME SessionTypes, UNCHANGED <<commandVars, alertVars, journalVars, healVars, rebuildPlan>>
  PROVE  SessionTypes'
<1>1. CommandInv'
  BY DEF SessionTypes, CommandInv, CommandTypeOK, AlertTypeOK, commandVars, alertVars, Session
<1>2. JournalTypeOK'
  BY JournalTyped DEF SessionTypes
<1>3. HealTypeOK'
  BY DEF SessionTypes, HealTypeOK, healVars
<1> QED BY <1>1, <1>2, <1>3 DEF SessionTypes

LEMMA RebuildPlanTyped ==
  ASSUME RebuildStep, rebuildPlan \in {"none", "changes", "no changes"}
  PROVE  rebuildPlan' \in {"none", "changes", "no changes"}
BY DEF RebuildStep, Rebuild, RebuildPlans, RebuildShown, RebuildApplies, RebuildApplied

LEMMA EnterTyped ==
  ASSUME CommandInv, NEW l \in Session.lines, Type(l)
  PROVE  CommandInv'
<1>1. /\ UNCHANGED session /\ commands' = commands + 1 /\ commands < Session.commands
      /\ channels' = {} /\ failedEvents' = 0 /\ left' = {}
      /\ \/ line' = NoLine /\ pc' = "shell" /\ exit' = 2
         \/ line' = l /\ pc' = Mode(ConfigOf(l, Session.key)) /\ exit' = -1
  BY DEF Type, NewDispatcher
<1>2. Mode(ConfigOf(l, Session.key)) # "shell"
  BY ModesOfLines DEF DR_ACTION_FLAGS, ReadModes, Runs
<1>3. l # NoLine /\ Session.commands \in Nat /\ session \in DOMAIN Sessions
  BY SessionsAssumption DEF CommandInv, Session
<1>4. commands' \in 0 .. Session'.commands /\ Session' = Session
  BY <1>1, <1>3 DEF CommandInv, CommandTypeOK, Session
<1>5. AlertTypeOK'
  BY <1>1 DEF AlertTypeOK
<1> QED BY <1>1, <1>2, <1>3, <1>4, <1>5 DEF CommandInv, CommandTypeOK

LEMMA KillTyped ==
  ASSUME SessionTypes, Kill
  PROVE  SessionTypes'
<1>1. CommandInv'
  <2>1. /\ UNCHANGED <<session, commands, left, channels, failedEvents>>
        /\ pc' = "shell" /\ exit' = Killed /\ line' = NoLine
    BY DEF Kill, Die, alertVars
  <2>2. Session' = Session /\ AlertTypeOK'
    BY <2>1 DEF SessionTypes, CommandInv, CommandTypeOK, AlertTypeOK, Session
  <2> QED BY <2>1, <2>2 DEF SessionTypes, CommandInv, CommandTypeOK
<1>2. JournalTypeOK'
  BY JournalTyped DEF SessionTypes, Kill
<1>3. HealTypeOK'
  BY DEF Kill, ForgetHeal, HealTypeOK
<1> QED BY <1>1, <1>2, <1>3 DEF SessionTypes, Kill

LEMMA CommandsTyped ==
  ASSUME SessionTypes, RunTruth,
         Wiping \/ Restoring \/ Healing \/ Replaying \/ Rebuilding \/ Running
  PROVE  SessionTypes'
<1>1. Steps
  BY WipeTyped, RestoreTyped, HealTyped, ReplayTyped, RebuildTyped, RunTyped
     DEF SessionTypes, Wiping, Restoring, Healing, Replaying, Rebuilding, Running
<1>2. CommandInv'
  BY <1>1, StepsTyped DEF SessionTypes
<1>3. line.only \subseteq Selectors
  <2>1. line \in Session.lines /\ session \in DOMAIN Sessions
    BY <1>1 DEF Steps, SessionTypes, CommandInv, CommandTypeOK
  <2> QED BY <2>1, RestoreAssumption DEF Session
<1>4. JournalTypeOK'
  <2>1. CASE Restoring
    BY <2>1, RestoreJournals, JournalTyped DEF SessionTypes, Restoring
  <2>2. CASE UNCHANGED journalVars
    BY <2>2, JournalTyped DEF SessionTypes
  <2> QED BY <2>1, <2>2 DEF Wiping, Healing, Replaying, Rebuilding, Running, restoreVars
<1>5. HealTypeOK'
  <2>1. CASE Healing
    BY <1>3, <2>1, HealCommandTyped DEF SessionTypes, Healing
  <2>2. CASE UNCHANGED healVars
    BY <2>2 DEF SessionTypes, HealTypeOK, healVars
  <2> QED BY <2>1, <2>2 DEF Wiping, Restoring, Replaying, Rebuilding, Running
<1>6. rebuildPlan' \in {"none", "changes", "no changes"}
  BY RebuildPlanTyped DEF SessionTypes, Wiping, Restoring, Healing, Replaying, Rebuilding, Running
<1> QED BY <1>2, <1>4, <1>5, <1>6 DEF SessionTypes

LEMMA SessionTypesKept == Spec => [](SessionTypes /\ TruthInv)
<1>1. Init => SessionTypes
  <2>1. ASSUME Init PROVE SessionTypes
    <3>1. CommandInv
      <4>1. Session.commands \in Nat /\ session \in DOMAIN Sessions
        BY <2>1, SessionsAssumption DEF Init, CommandInit, Session
      <4> QED BY <2>1, <4>1
              DEF Init, CommandInit, AlertInit, CommandInv, CommandTypeOK, AlertTypeOK
    <3>2. JournalTypeOK
      BY <2>1 DEF Init, NewJournal, JournalTypeOK
    <3>3. HealTypeOK
      BY <2>1 DEF Init, HealInit, HealTypeOK
    <3> QED BY <2>1, <3>1, <3>2, <3>3 DEF Init, SessionTypes
  <2> QED BY <2>1
<1>2. ASSUME SessionTypes, TruthInv, [Next]_vars
      PROVE  SessionTypes'
  <2>1. CASE Enter
    <3>1. CommandInv'
      BY <1>2, <2>1, EnterTyped DEF Enter, SessionTypes
    <3>2. JournalTypeOK'
      BY <1>2, <2>1, JournalTyped DEF Enter, SessionTypes, restoreVars
    <3>3. HealTypeOK'
      BY <1>2, <2>1 DEF Enter, SessionTypes, HealTypeOK, healVars
    <3> QED BY <1>2, <2>1, <3>1, <3>2, <3>3 DEF Enter, SessionTypes
  <2>2. CASE Wiping \/ Restoring \/ Healing \/ Replaying \/ Rebuilding \/ Running
    BY <1>2, <2>2, CommandsTyped DEF TruthInv
  <2>3. CASE Kill
    BY <1>2, <2>3, KillTyped
  <2>4. CASE ChangeDevices \/ LoseObject \/ UNCHANGED vars
    BY <1>2, <2>4, TypesStay DEF ChangeDevices, LoseObject, vars, restoreVars
  <2> QED BY <1>2, <2>1, <2>2, <2>3, <2>4 DEF Next
<1> QED BY <1>1, <1>2, TruthInvariant, PTL DEF Spec

\* In every session, every variable keeps its type.
THEOREM SessionsStayTyped == Spec => []TypeOK
<1>1. Spec => []WiperTypeOK
  <2>1. Init => WiperInit /\ WipeHere
    BY DEF Init, WiperInit, CommandInit, WipeHere
  <2>2. Spec => WiperSpec
    BY <2>1, SessionStepsWipe, PTL DEF Spec, WiperSpec
  <2> QED BY <2>2, WiperTypes
<1>2. ASSUME ReplayInv
      PROVE  ReplayTypeOK
  <2>1. \A made \in DOMAIN copies : copies[made] \in 0 .. MaxCopies
    BY <1>2 DEF ReplayInv
  <2>2. \A verdict \in DOMAIN results : results[verdict] \subseteq AssetNames
    BY <1>2 DEF ReplayInv, Results
  <2> QED BY <1>2, <2>1, <2>2 DEF ReplayInv, ReplayTypeOK, PlanReplay
<1>3. SessionTypes /\ TruthInv /\ ReplayInv /\ WiperTypeOK => TypeOK
  BY <1>2 DEF SessionTypes, CommandInv, TruthInv, RestoreTruth, TypeOK
<1> QED BY <1>1, <1>3, SessionTypesKept, ReplayInvariant, PTL

=============================================================================

--------------------------- MODULE OrgWiperProofs ---------------------------
(***************************************************************************)
(* What holds of a wipe for any organization, any number of retries and    *)
(* any number of claims by other people.                                   *)
(*                                                                         *)
(* HardwareStopsWipe speaks of the moment of a deletion, the interlock of  *)
(* an earlier one.  What lies between is the invariant: from the first     *)
(* check on, no device is an old one (NoOldHardware), since whoever claims *)
(* one now claims it during the teardown, and once the last check has      *)
(* passed no device of the teardown is left either (NoMidHardware).        *)
(***************************************************************************)
EXTENDS OrgWiper, TLAPS

Teardown == {"list", "networks", "templates", "admins", "recheck", "delete"}

NoOldHardware == stage \in Teardown => Old = {}
NoMidHardware == stage = "delete" => Mid = {}

WiperInv == WiperTypeOK /\ NoOldHardware /\ NoMidHardware

LEMMA WiperStarts == WiperInit => WiperInv
<1> SUFFICES ASSUME WiperInit PROVE WiperInv
  OBVIOUS
<1>1. NoOldHardware /\ NoMidHardware
  BY DEF WiperInit, NoOldHardware, NoMidHardware, Teardown
<1>2. exists \in BOOLEAN /\ failed \in BOOLEAN /\ wiped \in BOOLEAN
  BY Zenon DEF WiperInit
<1>3. attempt \in 1 .. OrgDeleteAttempts /\ claims \in 0 .. MaxClaims
  BY WiperAssumption DEF WiperInit
<1> QED BY <1>1, <1>2, <1>3 DEF WiperInit, WiperInv, WiperTypeOK, Stages

\* Types, one action at a time.
LEMMA TypesKept ==
  ASSUME WiperTypeOK, [WiperNext]_wiperVars
  PROVE  WiperTypeOK'
<1> USE WiperAssumption DEF WiperTypeOK, Stages
<1>1. CASE UNCHANGED wiperVars
  BY <1>1 DEF wiperVars, orgVars, callVars
<1>2. CASE BeginPreview
  <2>1. failed' \in BOOLEAN /\ wiped' \in BOOLEAN
    BY <1>2, Zenon DEF BeginPreview
  <2> QED BY <1>2, <2>1 DEF BeginPreview
<1>3. CASE BeginExecute
  BY <1>3 DEF BeginExecute, Ends, orgVars
<1>4. CASE Forget
  <2>1. failed' \in BOOLEAN /\ wiped' \in BOOLEAN
    BY <1>4, Zenon DEF Forget
  <2> QED BY <1>4, <2>1 DEF Forget, orgVars
<1>5. ASSUME NEW named \in BOOLEAN, WiperStep(named)
      PROVE  WiperTypeOK'
  <2>1. CASE CallPreview(named) \/ Verify(named)
    BY <2>1 DEF CallPreview, Verify, Preview, Ends, orgVars
  <2>2. CASE ListNetworks
    BY <2>2 DEF ListNetworks, orgVars
  <2>3. CASE \E n \in Networks : DeleteNetwork(n)
    BY <2>3 DEF DeleteNetwork, DeleteOne, orgVars
  <2>4. CASE \E t \in Templates : DeleteTemplate(t)
    BY <2>4 DEF DeleteTemplate, DeleteOne, orgVars
  <2>5. CASE \E a \in Admins : DeleteAdmin(a)
    BY <2>5 DEF DeleteAdmin, DeleteOne, orgVars
  <2>6. CASE NetworksDone \/ TemplatesDone \/ AdminsDone
    BY <2>6 DEF NetworksDone, TemplatesDone, AdminsDone, LoopDone, orgVars
  <2>7. CASE Recheck(named)
    BY <2>7 DEF Recheck, Preview, orgVars
  <2>8. CASE DeleteOrganization
    <3>1. exists' \in BOOLEAN /\ failed' \in BOOLEAN /\ wiped' \in BOOLEAN
      BY <2>8, Zenon DEF DeleteOrganization
    <3> QED BY <2>8, <3>1 DEF DeleteOrganization, RetriesLeft
  <2> QED BY <1>5, <2>1, <2>2, <2>3, <2>4, <2>5, <2>6, <2>7, <2>8 DEF WiperStep
<1>6. ASSUME NEW d \in Devices, Claim(d) \/ Unclaim(d)
      PROVE  WiperTypeOK'
  <2>1. Moment \in {"before", "during", "after"}
    BY DEF Moment
  <2> QED BY <1>6, <2>1 DEF Claim, Unclaim, ChangeInventory, callVars
<1> QED BY <1>1, <1>2, <1>3, <1>4, <1>5, <1>6 DEF WiperNext

\* A step inside the teardown that leaves the inventory alone keeps what is
\* known of it.
LEMMA SameInventory ==
  ASSUME UNCHANGED claimedAt
  PROVE  Old' = Old /\ Mid' = Mid /\ Claimed' = Claimed
  BY DEF Old, Mid, Claimed

\* When the interlocks hold, there is no device to be of any kind.
LEMMA InterlocksClear ==
  ASSUME NEW named \in BOOLEAN, Interlocks(named)
  PROVE  Old = {} /\ Mid = {}
  BY DEF Interlocks, Claimed, Old, Mid

\* Hardware, one action at a time.
LEMMA HardwareKept ==
  ASSUME WiperInv, [WiperNext]_wiperVars
  PROVE  NoOldHardware' /\ NoMidHardware'
<1> USE DEF NoOldHardware, NoMidHardware, Teardown
<1>0. WiperTypeOK /\ NoOldHardware /\ NoMidHardware
  BY DEF WiperInv
<1>1. CASE UNCHANGED wiperVars
  <2>1. UNCHANGED <<stage, claimedAt>>
    BY <1>1 DEF wiperVars, orgVars, callVars
  <2> QED BY <1>0, <2>1, SameInventory
<1>2. CASE BeginPreview \/ BeginExecute \/ Forget
  BY <1>2 DEF BeginPreview, BeginExecute, Ends, Forget
<1>3. ASSUME NEW named \in BOOLEAN, WiperStep(named)
      PROVE  NoOldHardware' /\ NoMidHardware'
  <2>1. UNCHANGED claimedAt
    BY <1>3 DEF WiperStep, CallPreview, Verify, Preview, Ends, ListNetworks, DeleteNetwork,
       DeleteTemplate, DeleteAdmin, DeleteOne, NetworksDone, TemplatesDone, AdminsDone,
       LoopDone, Recheck, DeleteOrganization, orgVars
  <2>2. Old' = Old /\ Mid' = Mid
    BY <2>1, SameInventory
  <2>3. CASE CallPreview(named)
    BY <2>3 DEF CallPreview, Preview, Ends
  <2>4. CASE Verify(named)
    BY <2>2, <2>4, InterlocksClear DEF Verify, Preview, Ends
  <2>5. CASE ListNetworks
    BY <1>0, <2>2, <2>5 DEF ListNetworks
  <2>6. CASE \/ \E n \in Networks : DeleteNetwork(n)
             \/ \E t \in Templates : DeleteTemplate(t)
             \/ \E a \in Admins : DeleteAdmin(a)
    BY <1>0, <2>2, <2>6 DEF DeleteNetwork, DeleteTemplate, DeleteAdmin, DeleteOne
  <2>7. CASE NetworksDone \/ TemplatesDone \/ AdminsDone
    BY <1>0, <2>2, <2>7 DEF NetworksDone, TemplatesDone, AdminsDone, LoopDone
  <2>8. CASE Recheck(named)
    BY <1>0, <2>2, <2>8, InterlocksClear DEF Recheck, Preview
  <2>9. CASE DeleteOrganization
    BY <1>0, <2>2, <2>9 DEF DeleteOrganization
  <2> QED BY <1>3, <2>3, <2>4, <2>5, <2>6, <2>7, <2>8, <2>9 DEF WiperStep
<1>4. ASSUME NEW d \in Devices, Claim(d)
      PROVE  NoOldHardware' /\ NoMidHardware'
  <2>1. UNCHANGED stage /\ claimedAt' = [claimedAt EXCEPT ![d] = Moment]
    BY <1>4 DEF Claim, ChangeInventory, callVars
  <2>2. claimedAt \in [Devices -> {"no", "before", "during", "after"}]
    BY <1>0 DEF WiperTypeOK
  <2>3. CASE stage = "delete"
    <3>1. Moment = "after"
      BY <2>3 DEF Moment
    <3> QED BY <1>0, <2>1, <2>2, <2>3, <3>1 DEF Old, Mid
  <2>4. CASE stage \in Teardown \ {"delete"}
    <3>1. Moment = "during"
      BY <2>4 DEF Moment
    <3> QED BY <1>0, <2>1, <2>2, <2>4, <3>1 DEF Old
  <2>5. CASE stage \notin Teardown
    BY <2>1, <2>5
  <2> QED BY <2>3, <2>4, <2>5
<1>5. ASSUME NEW d \in Devices, Unclaim(d)
      PROVE  NoOldHardware' /\ NoMidHardware'
  <2>1. UNCHANGED stage /\ claimedAt' = [claimedAt EXCEPT ![d] = "no"]
    BY <1>5 DEF Unclaim, ChangeInventory, callVars
  <2>2. claimedAt \in [Devices -> {"no", "before", "during", "after"}]
    BY <1>0 DEF WiperTypeOK
  <2>3. Old' \subseteq Old /\ Mid' \subseteq Mid
    BY <2>1, <2>2 DEF Old, Mid
  <2> QED BY <1>0, <2>1, <2>3
<1> QED BY <1>1, <1>2, <1>3, <1>4, <1>5 DEF WiperNext

LEMMA WiperInvariant == WiperSpec => []WiperInv
<1>1. WiperInv /\ [WiperNext]_wiperVars => WiperInv'
  BY TypesKept, HardwareKept DEF WiperInv
<1> QED BY <1>1, WiperStarts, PTL DEF WiperSpec

-----------------------------------------------------------------------------

\* Every variable of the wipe keeps its type: the retries of the deletion
\* stay within their budget (_ORG_DELETE_ATTEMPTS).
THEOREM WiperTypes == WiperSpec => []WiperTypeOK
<1>1. WiperInv => WiperTypeOK
  BY DEF WiperInv
<1> QED BY <1>1, WiperInvariant, PTL

\* No wipe deletes anything of an organization in which execute() found a
\* device, nor the organization itself with a device claimed during the
\* teardown, for any inventory, any order of deletions and any failures.
THEOREM WipeStopsAtHardware == WiperSpec => HardwareStopsWipe
<1> DEFINE Stops ==
      /\ (networks' # networks \/ templates' # templates \/ admins' # admins) => Old = {}
      /\ exists' # exists => Old \cup Mid = {}
<1>1. ASSUME WiperInv, [WiperNext]_wiperVars
      PROVE  [Stops]_wiperVars
  <2>0. NoOldHardware /\ NoMidHardware
    BY <1>1 DEF WiperInv
  <2>1. CASE \/ UNCHANGED wiperVars \/ BeginPreview \/ BeginExecute \/ Forget
             \/ \E d \in Devices : Claim(d) \/ Unclaim(d)
    BY <2>1 DEF wiperVars, orgVars, BeginPreview, BeginExecute, Ends, Forget, Claim, Unclaim,
       ChangeInventory
  <2>2. ASSUME NEW named \in BOOLEAN, WiperStep(named)
        PROVE  Stops
    <3>1. CASE CallPreview(named) \/ Verify(named) \/ ListNetworks
      BY <3>1 DEF CallPreview, Verify, Preview, Ends, ListNetworks, orgVars
    <3>2. CASE \/ \E n \in Networks : DeleteNetwork(n)
               \/ \E t \in Templates : DeleteTemplate(t)
               \/ \E a \in Admins : DeleteAdmin(a)
      BY <2>0, <3>2 DEF DeleteNetwork, DeleteTemplate, DeleteAdmin, DeleteOne, orgVars,
         NoOldHardware, Teardown
    <3>3. CASE NetworksDone \/ TemplatesDone \/ AdminsDone \/ Recheck(named)
      BY <3>3 DEF NetworksDone, TemplatesDone, AdminsDone, LoopDone, Recheck, Preview, orgVars
    <3>4. CASE DeleteOrganization
      BY <2>0, <3>4 DEF DeleteOrganization, NoOldHardware, NoMidHardware, Teardown
    <3> QED BY <2>2, <3>1, <3>2, <3>3, <3>4 DEF WiperStep
  <2> QED BY <1>1, <2>1, <2>2 DEF WiperNext
<1> QED BY <1>1, WiperInvariant, PTL DEF WiperSpec, HardwareStopsWipe

-----------------------------------------------------------------------------
(* Who may still come in.                                                  *)

\* The admin whose key the process uses is never on the list of a deletion
\* loop of admins (_other_admins), and so never removed.
CallerStays == Caller \in admins /\ (stage = "admins" => Caller \notin todo)

\* A wipe that stops half-way leaves its caller in the organization, who can
\* look at what is left and run it again.
THEOREM CallerKeepsAccess == WiperSpec => []CallerStays
<1>1. WiperInit => CallerStays
  BY WiperAssumption DEF WiperInit, CallerStays
<1>2. ASSUME CallerStays, [WiperNext]_wiperVars
      PROVE  CallerStays'
  <2> USE <1>2 DEF CallerStays
  <2>1. CASE \/ UNCHANGED wiperVars \/ BeginPreview \/ BeginExecute \/ Forget
             \/ \E d \in Devices : Claim(d) \/ Unclaim(d)
    BY <2>1 DEF wiperVars, orgVars, callVars, BeginPreview, BeginExecute, Ends, Forget, Claim,
       Unclaim, ChangeInventory
  <2>2. ASSUME NEW named \in BOOLEAN, WiperStep(named)
        PROVE  CallerStays'
    <3>1. CASE CallPreview(named) \/ Verify(named) \/ ListNetworks
      BY <3>1 DEF CallPreview, Verify, Preview, Ends, ListNetworks, orgVars
    <3>2. CASE \/ \E n \in Networks : DeleteNetwork(n)
               \/ \E t \in Templates : DeleteTemplate(t)
      BY <3>2 DEF DeleteNetwork, DeleteTemplate, DeleteOne, orgVars
    <3>3. CASE \E a \in Admins : DeleteAdmin(a)
      BY <3>3 DEF DeleteAdmin, DeleteOne, orgVars
    <3>4. CASE NetworksDone \/ AdminsDone
      BY <3>4 DEF NetworksDone, AdminsDone, LoopDone, orgVars
    <3>5. CASE TemplatesDone
      BY <3>5 DEF TemplatesDone, LoopDone, OtherAdmins, orgVars
    <3>6. CASE Recheck(named) \/ DeleteOrganization
      BY <3>6 DEF Recheck, Preview, DeleteOrganization, orgVars
    <3> QED BY <2>2, <3>1, <3>2, <3>3, <3>4, <3>5, <3>6 DEF WiperStep
  <2> QED BY <2>1, <2>2 DEF WiperNext
<1> QED BY <1>1, <1>2, PTL DEF WiperSpec

=============================================================================

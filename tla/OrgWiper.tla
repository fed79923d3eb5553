----------------------------- MODULE OrgWiper -----------------------------
(***************************************************************************)
(* OrgWiper (restorer.py): the teardown of a drill organization, and the   *)
(* organization it tears down while people go on working in it.            *)
(*                                                                         *)
(* "stage" is where a wipe is: "preview" (what the CLI shows), "shown",    *)
(* then the steps of execute(), and "refused", "raised" or "result" for    *)
(* how a call ends.  A device is remembered with the moment it was         *)
(* claimed: before execute() verified the organization, during the         *)
(* teardown, or after the last check.                                      *)
(***************************************************************************)
EXTENDS Naturals, FiniteSets

CONSTANTS
  Networks, Templates, Admins, Devices,
  Caller,            \* the admin whose key the process uses
  OrgDeleteAttempts, \* _ORG_DELETE_ATTEMPTS
  MaxClaims          \* bound: changes of the inventory by other people

ASSUME WiperAssumption ==
  /\ Caller \in Admins
  /\ OrgDeleteAttempts \in Nat \ {0} /\ MaxClaims \in Nat

VARIABLES
  exists, networks, templates, admins, \* the organization
  claimedAt,                           \* Devices -> moment of the claim, or "no"
  stage,
  todo,                                \* what the current loop has still to delete
  failed,                              \* some deletion failed
  attempt,                             \* of deleteOrganization
  wiped,                               \* result: organization_deleted
  claims                               \* bound of Claim and Unclaim

orgVars == <<exists, networks, templates, admins, claimedAt>>
callVars == <<stage, todo, failed, attempt, wiped>>
wiperVars == <<orgVars, callVars, claims>>

Stages == {"idle", "preview", "shown", "verify", "list", "networks", "templates",
           "admins", "recheck", "delete", "refused", "raised", "result"}

Claimed == {d \in Devices : claimedAt[d] # "no"}

-----------------------------------------------------------------------------
(* preview(): name, claimed devices and inventory, networks, admins,       *)
(* templates.  Nothing is written.                                         *)

\* The interlocks hold: the name was given right, and no device is claimed.
Interlocks(named) == exists /\ named /\ Claimed = {}

\* What preview() does when it is called in stage "at": it returns, it
\* refuses, or a read fails.
Preview(at, named, returns, refuses, raises) ==
  /\ stage = at
  /\ \/ Interlocks(named) /\ returns
     \/ exists /\ ~Interlocks(named) /\ refuses
     \/ raises

Ends(how) == stage' = how /\ UNCHANGED <<orgVars, todo, failed, attempt, wiped, claims>>

CallPreview(named) ==
  Preview("preview", named, Ends("shown"), Ends("refused"), Ends("raised"))

-----------------------------------------------------------------------------
(* execute(): verify again, delete networks, templates, other admins,      *)
(* check once more, delete the organization.                               *)

\* From here on a device that is claimed is claimed during the teardown.
Verify(named) ==
  Preview("verify", named, Ends("list"), Ends("refused"), Ends("raised"))

ListNetworks ==
  /\ stage = "list"
  /\ \/ stage' = "networks" /\ todo' = networks
     \/ stage' = "raised" /\ UNCHANGED todo
  /\ UNCHANGED <<orgVars, failed, attempt, wiped, claims>>

\* One deletion of a loop: it happens, it fails, or it happens and the
\* answer is lost; a failure is recorded and the loop goes on.
DeleteOne(at, x, gone) ==
  /\ stage = at /\ x \in todo
  /\ todo' = todo \ {x}
  /\ \/ gone /\ failed' \in {failed, TRUE}
     \/ failed' = TRUE /\ UNCHANGED orgVars
  /\ UNCHANGED <<stage, attempt, wiped, claims>>

DeleteNetwork(n) ==
  DeleteOne("networks", n,
    networks' = networks \ {n} /\ UNCHANGED <<exists, templates, admins, claimedAt>>)

DeleteTemplate(t) ==
  DeleteOne("templates", t,
    templates' = templates \ {t} /\ UNCHANGED <<exists, networks, admins, claimedAt>>)

DeleteAdmin(a) ==
  DeleteOne("admins", a,
    admins' = admins \ {a} /\ UNCHANGED <<exists, networks, templates, claimedAt>>)

\* The end of a loop: on to the next one, unless something failed.
LoopDone(at, next, found) ==
  /\ stage = at /\ todo = {}
  /\ IF failed THEN stage' = "result" /\ UNCHANGED todo
     ELSE stage' = next /\ todo' \in found
  /\ UNCHANGED <<orgVars, failed, attempt, wiped, claims>>

\* _config_templates: an enumeration that fails finds none.
NetworksDone == LoopDone("networks", "templates", {templates, {}})

\* _other_admins: nobody, when the caller cannot be identified.
OtherAdmins == {admins \ {Caller}, {}}
TemplatesDone == LoopDone("templates", "admins", OtherAdmins)

\* Mutant: straight to the organization.
AdminsDoneUnchecked == LoopDone("admins", "delete", {{}})

AdminsDone == LoopDone("admins", "recheck", {{}})

\* The claimed-device interlock once more; whatever preview() raises here
\* is recorded as a failure.
Recheck(named) ==
  /\ Preview("recheck", named,
       stage' = "delete" /\ UNCHANGED failed,
       stage' = "result" /\ failed' = TRUE,
       stage' = "result" /\ failed' = TRUE)
  /\ UNCHANGED <<orgVars, todo, attempt, wiped, claims>>

\* The dashboard deletes an organization without networks, hidden ones of
\* templates included, and without other users.
Deletable == exists /\ networks = {} /\ templates = {} /\ admins \subseteq {Caller}

\* Mutant: one call too many.
RetriesOver == attempt <= OrgDeleteAttempts

\* The dashboard is still digesting what was deleted: call again.
RetriesLeft == attempt < OrgDeleteAttempts

DeleteOrganization ==
  /\ stage = "delete"
  /\ \/ /\ Deletable
        /\ exists' = FALSE
        /\ \/ wiped' = TRUE /\ UNCHANGED failed
           \/ failed' = TRUE /\ UNCHANGED wiped
        /\ stage' = "result"
        /\ UNCHANGED attempt
     \/ /\ RetriesLeft
        /\ attempt' = attempt + 1
        /\ UNCHANGED <<exists, failed, wiped, stage>>
     \/ /\ failed' = TRUE /\ stage' = "result"
        /\ UNCHANGED <<exists, wiped, attempt>>
  /\ UNCHANGED <<networks, templates, admins, claimedAt, todo, claims>>

WiperStep(named) ==
  \/ CallPreview(named) \/ Verify(named) \/ ListNetworks
  \/ \E n \in Networks : DeleteNetwork(n)
  \/ \E t \in Templates : DeleteTemplate(t)
  \/ \E a \in Admins : DeleteAdmin(a)
  \/ NetworksDone \/ TemplatesDone \/ AdminsDone
  \/ Recheck(named) \/ DeleteOrganization

-----------------------------------------------------------------------------
(* Calls into the wiper, and what other people do.                         *)

BeginPreview ==
  /\ stage' = "preview" /\ todo' = {} /\ failed' = FALSE /\ attempt' = 1 /\ wiped' = FALSE
  /\ claimedAt' = [d \in Devices |-> IF claimedAt[d] = "no" THEN "no" ELSE "before"]
  /\ UNCHANGED <<exists, networks, templates, admins, claims>>

BeginExecute == stage = "shown" /\ Ends("verify")

\* The process ends, by itself or not; the organization stays as it is.
Forget == stage' = "idle" /\ todo' = {} /\ failed' = FALSE /\ attempt' = 1 /\ wiped' = FALSE
          /\ UNCHANGED <<orgVars, claims>>

Moment ==
  CASE stage \in {"delete", "result"} -> "after"
    [] stage \in {"list", "networks", "templates", "admins", "recheck"} -> "during"
    [] OTHER -> "before"

ChangeInventory(d, when) ==
  /\ exists /\ claims < MaxClaims
  /\ claims' = claims + 1
  /\ claimedAt' = [claimedAt EXCEPT ![d] = when]
  /\ UNCHANGED <<exists, networks, templates, admins, callVars>>

Claim(d) == claimedAt[d] = "no" /\ ChangeInventory(d, Moment)
Unclaim(d) == claimedAt[d] # "no" /\ ChangeInventory(d, "no")

WiperInit ==
  /\ exists = TRUE /\ networks = Networks /\ templates = Templates /\ admins = Admins
  /\ claimedAt = [d \in Devices |-> "no"]
  /\ stage = "idle" /\ todo = {} /\ failed = FALSE /\ attempt = 1 /\ wiped = FALSE
  /\ claims = 0

\* The wiper on its own, called with the right name or a wrong one.
WiperNext ==
  \/ stage \in {"idle", "refused", "raised", "result"} /\ BeginPreview
  \/ BeginExecute
  \/ \E named \in BOOLEAN : WiperStep(named)
  \/ \E d \in Devices : Claim(d) \/ Unclaim(d)
  \/ Forget

WiperSpec == WiperInit /\ [][WiperNext]_wiperVars

-----------------------------------------------------------------------------
WiperTypeOK ==
  /\ exists \in BOOLEAN
  /\ networks \subseteq Networks /\ templates \subseteq Templates
  /\ admins \subseteq Admins
  /\ claimedAt \in [Devices -> {"no", "before", "during", "after"}]
  /\ stage \in Stages
  /\ failed \in BOOLEAN /\ wiped \in BOOLEAN
  /\ attempt \in 1 .. OrgDeleteAttempts
  /\ claims \in 0 .. MaxClaims

Old == {d \in Devices : claimedAt[d] = "before"}
Mid == {d \in Devices : claimedAt[d] = "during"}

\* Hardware stops the teardown: nothing is deleted in an organization that
\* held a device when execute() verified it, and the organization is not
\* deleted with a device that was claimed while its contents were.
HardwareStopsWipe ==
  [][/\ (networks' # networks \/ templates' # templates \/ admins' # admins)
        => Old = {}
     /\ exists' # exists => Old \cup Mid = {}]_wiperVars

=============================================================================

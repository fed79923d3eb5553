---------------------------- MODULE GapReplayer ----------------------------
(***************************************************************************)
(* plan_replay and GapReplayer (replayer.py): what Terraform cannot        *)
(* rebuild is written from the snapshot, object by object, into an         *)
(* organization whose identifiers may all be new.  There is no journal: a  *)
(* second run meets what the first one wrote.                              *)
(*                                                                         *)
(* An asset is a record of                                                 *)
(*   name, kind ("gap": unsupported; "captured": built by Terraform),      *)
(*   scope ("organization", "network", "device") and at (which one),       *)
(*   item (the server-assigned ID its path ends in, or "none"), verbs (its *)
(*   write operations), lookup (the specification lists its collection),   *)
(*   named (the payload has a name), complete (as many values as its path  *)
(*   has parameters), log (the collection records actions), content        *)
(*   ("plain", "empty", "missing", "unreadable", "no items", "containers") *)
(*   and secrets ("none", "some", "all" of its attributes).                *)
(* An organization is a record of its networks ([id, name]), its serials   *)
(* and slots (what an item ID names there, or "absent").                   *)
(***************************************************************************)
EXTENDS Naturals, Sequences, FiniteSets

CONSTANTS
  Assets,         \* the snapshot's assets, in the planner's order
  SourceNetworks, \* the snapshot's networks and templates, [id, name]
  TemplateBound,  \* the IDs of those bound to a template
  Source,         \* the snapshot's organization
  ReplayTargets,  \* the organizations a replay may be pointed at
  MaxCopies       \* bound: creations of one object

\* An asset is known by its name and is of a network of the snapshot.
ASSUME ReplayAssumption ==
  /\ MaxCopies \in Nat
  /\ Assets \in Seq({Assets[i] : i \in DOMAIN Assets})
  /\ \A i, j \in DOMAIN Assets : Assets[i].name = Assets[j].name => i = j
  /\ \A i \in DOMAIN Assets : Assets[i].scope = "network" =>
       \E n \in SourceNetworks : n.id = Assets[i].at
  /\ \A i \in DOMAIN Assets : Assets[i].at # "unverified"

VARIABLES
  world,     \* ReplayTargets -> organization
  copies,    \* <<organization, asset name>> -> objects created of it
  step,      \* "idle", "map", "check", "call", "done", "refused" or "raised"
  target,    \* the organization of this run
  sanitized, \* the snapshot of this run
  queue,     \* actions still to do: indexes of Assets
  networkIds,\* snapshot ID -> live ID, or "none"
  serials,   \* claimed serials, or Unverified
  results,   \* [executed, failed, skipped]: asset names
  hits,      \* history: what was written, and on what
  blind      \* history: creates that no listing was read for

runVars == <<step, target, sanitized, queue, networkIds, serials, results>>
replayVars == <<world, copies, hits, blind, runVars>>

Unverified == {"unverified"}
AssetNames == {Assets[i].name : i \in DOMAIN Assets}

-----------------------------------------------------------------------------
(* plan_replay.                                                            *)

\* is_scope_gap_record, is_action_log, split_redacted, is_empty_default_payload.
ScopeGapRecord(a) == ~a.complete
ActionLog(a) == a.log /\ "put" \notin a.verbs
OnlyRedacted(a, masked) == masked /\ a.secrets = "all"
EmptyDefault(a) == a.content = "containers"

\* Why a gap is left to the runbook.  Updates go before creates.
GapSkipped(a, masked) ==
  \/ ScopeGapRecord(a) \/ a.verbs = {} \/ ActionLog(a)
  \/ a.content \in {"empty", "missing", "unreadable", "no items"}
  \/ OnlyRedacted(a, masked)
  \/ EmptyDefault(a) /\ "put" \in a.verbs

\* _secret_paths of what is left of a payload without its redacted values.
LivePaths(a, masked) == a.secrets # "none" /\ ~masked

\* A captured resource is replayed for its secrets, by an update.
SecretsSkipped(a, masked) ==
  \/ a.content \in {"empty", "missing"}
  \/ ~LivePaths(a, masked)
  \/ "put" \notin a.verbs

Verb(a) == IF "put" \in a.verbs THEN "put" ELSE "post"

\* Of a captured resource only the attributes with secrets are sent: its
\* name is not among them.
Action(a) ==
  [asset |-> a, kind |-> IF a.kind = "gap" THEN "object" ELSE "secrets",
   verb |-> Verb(a), named |-> a.named /\ a.kind = "gap"]

Replayable(a, masked) ==
  IF a.kind = "gap" THEN ~GapSkipped(a, masked) ELSE ~SecretsSkipped(a, masked)

PlanReplay(masked) == {i \in DOMAIN Assets : Replayable(Assets[i], masked)}

\* Objects first, then secrets, each in the order of the snapshot.
Before(i, j) ==
  IF Assets[i].kind = Assets[j].kind THEN i < j ELSE Assets[i].kind = "gap"

IsNext(i) == i \in queue /\ \A j \in queue \ {i} : Before(i, j)

-----------------------------------------------------------------------------
(* network_id_map and claimed_serials.                                     *)

\* A sanitized snapshot has pseudonyms for identifiers and names.
Pseudonym(name) == [pseudonym_of |-> name]
NameIn(n, masked) == IF masked THEN Pseudonym(n.name) ELSE [name |-> n.name]

\* _join_by_name: the network that still has the ID, else its namesake.
Joined(n, masked, live) ==
  LET same == {m \in live : ~masked /\ m.id = n.id}
      namesakes == {m \in live : m.name = NameIn(n, masked)}
  IN IF same # {} THEN n.id
     ELSE IF namesakes # {} THEN (CHOOSE m \in namesakes : TRUE).id ELSE "none"

NetworkIdMap(org, masked) ==
  [id \in {n.id : n \in SourceNetworks} |->
     Joined(CHOOSE n \in SourceNetworks : n.id = id, masked, world[org].networks)]

Mapped == {networkIds[id] : id \in DOMAIN networkIds} \ {"none"}

MapNetworks ==
  /\ step = "map"
  /\ \/ /\ target \in ReplayTargets
        /\ step' = "guard" /\ networkIds' = NetworkIdMap(target, sanitized)
     \/ step' = "raised" /\ UNCHANGED networkIds
  /\ UNCHANGED <<world, copies, hits, blind, target, sanitized, queue, serials, results>>

\* execute(): a sanitized snapshot needs a network of its own in the target;
\* serials are listed once, when some action addresses a device.
NeedsSerials == \E i \in queue : Assets[i].scope = "device"

Guard ==
  /\ step = "guard"
  /\ \/ /\ sanitized /\ Mapped = {}
        /\ step' = "refused" /\ UNCHANGED serials
     \/ /\ ~(sanitized /\ Mapped = {})
        /\ step' = "check"
        /\ serials' \in IF NeedsSerials THEN {world[target].serials, Unverified} ELSE {{}}
  /\ UNCHANGED <<world, copies, hits, blind, target, sanitized, queue, networkIds, results>>

-----------------------------------------------------------------------------
(* execute(): one action after another.                                    *)

\* _parameters: what it refuses.  An organization that is not the
\* snapshot's is not remapped, hence not the target's.  (A network that is
\* not remapped is looked for under its own ID: it is there if its own map
\* entry says so.)
ParametersRefused(a) ==
  \/ ~a.complete
  \/ a.scope = "network" /\ networkIds[a.at] = "none"
  \/ a.scope = "device" /\ (sanitized \/ a.at \notin serials)
  \/ a.scope = "organization" /\ a.at # Source /\ a.at # target

\* The item ID of a sanitized snapshot names nothing in any organization.
LiveItem(a) ==
  IF sanitized \/ a.item \notin DOMAIN world[target].slots THEN "absent"
  ELSE world[target].slots[a.item]

\* Mutant: an ID that exists will do.
AnyItem(action) == FALSE

\* _verify_item_scope: the ID is in the live collection, and where both
\* sides have a name it is the same.
OtherItem(action) == action.named /\ LiveItem(action.asset) # action.asset.name

ItemRefused(action, readable) ==
  /\ action.asset.item # "none" /\ action.verb = "put"
  /\ \/ ~action.asset.lookup \/ ~readable
     \/ LiveItem(action.asset) = "absent"
     \/ OtherItem(action)

\* _already_present: a create whose name the collection lists; without a
\* listing, or a name to look for, the create goes ahead.
Listed(action, readable) == action.asset.lookup /\ action.named /\ readable

\* Mutant: only what has no name is looked for.
PresentUnnamed(action, readable) ==
  /\ action.kind = "object" /\ action.verb = "post" /\ ~action.named
  /\ copies[<<target, action.asset.name>>] > 0

AlreadyPresent(action, readable) ==
  /\ action.kind = "object" /\ action.verb = "post"
  /\ Listed(action, readable)
  /\ copies[<<target, action.asset.name>>] > 0

Settle(verdict, i) ==
  /\ results' = [results EXCEPT ![verdict] = @ \cup {Assets[i].name}]
  /\ queue' = queue \ {i}
  /\ step' = "check"

WriteRefused(action, readable) ==
  ParametersRefused(action.asset) \/ ItemRefused(action, readable)

Check(i, readable) ==
  /\ step = "check" /\ IsNext(i)
  /\ LET action == Action(Assets[i]) IN
     \/ WriteRefused(action, readable) /\ Settle("failed", i) /\ UNCHANGED blind
     \/ /\ ~WriteRefused(action, readable) /\ AlreadyPresent(action, readable)
        /\ Settle("executed", i) /\ UNCHANGED blind
     \/ /\ ~WriteRefused(action, readable) /\ ~AlreadyPresent(action, readable)
        /\ step' = "call" /\ UNCHANGED <<results, queue>>
        /\ blind' = IF Listed(action, readable) THEN blind
                     ELSE blind \cup {<<target, action.asset.name>>}
  /\ UNCHANGED <<world, copies, hits, target, sanitized, networkIds, serials>>

\* What the write meets in the target.
Hit(action) ==
  [asset |-> action.asset.name, kind |-> action.kind, named |-> action.asset.named,
   org |-> target, sanitized |-> sanitized,
   scope |-> CASE action.asset.scope = "network" -> networkIds[action.asset.at]
               [] action.asset.scope = "device" -> action.asset.at
               [] OTHER -> target,
   item |-> IF action.asset.item # "none" /\ action.verb = "put"
            THEN LiveItem(action.asset) ELSE action.asset.name]

\* The write reaches the dashboard.
Lands(action) ==
  LET made == <<target, action.asset.name>> IN
  /\ copies' = IF action.verb = "put" THEN copies ELSE [copies EXCEPT ![made] = @ + 1]
  /\ hits' = hits \cup {Hit(action)}

\* A 400 on a template-bound network is a skip.
OnTemplateBound(action) ==
  action.asset.scope = "network" /\ action.asset.at \in TemplateBound

Call(i) ==
  /\ step = "call" /\ IsNext(i)
  /\ LET action == Action(Assets[i]) IN
     \/ Lands(action) /\ Settle("executed", i)
     \/ Lands(action) /\ Settle("failed", i)  \* the answer is lost
     \/ /\ Settle(IF OnTemplateBound(action) THEN "skipped" ELSE "failed", i)
        /\ UNCHANGED <<copies, hits>>
  /\ \A made \in DOMAIN copies : copies'[made] <= MaxCopies
  /\ UNCHANGED <<world, blind, target, sanitized, networkIds, serials>>

Executed ==
  /\ step = "check" /\ queue = {}
  /\ step' = "done"
  /\ UNCHANGED <<world, copies, hits, blind, target, sanitized, queue, networkIds, serials, results>>

ReplayStep ==
  \/ MapNetworks \/ Guard
  \/ \E i \in queue : Call(i) \/ \E readable \in BOOLEAN : Check(i, readable)
  \/ Executed

-----------------------------------------------------------------------------
NoResults == [executed |-> {}, failed |-> {}, skipped |-> {}]

\* A run: the plan of a snapshot, and the organization it is for.
BeginReplay(org, masked) ==
  /\ step' = "map" /\ target' = org /\ sanitized' = masked
  /\ queue' = PlanReplay(masked)
  /\ networkIds' = <<>> /\ serials' = {} /\ results' = NoResults
  /\ UNCHANGED <<world, copies, hits, blind>>

ForgetReplay ==
  /\ step' = "idle" /\ target' = Source /\ sanitized' = FALSE
  /\ queue' = {} /\ networkIds' = <<>> /\ serials' = {} /\ results' = NoResults
  /\ UNCHANGED <<world, copies, hits, blind>>

ReplayInit(worlds) ==
  /\ world \in worlds
  /\ copies = [made \in ReplayTargets \X AssetNames |-> 0]
  /\ step = "idle" /\ target = Source /\ sanitized = FALSE
  /\ queue = {} /\ networkIds = <<>> /\ serials = {} /\ results = NoResults
  /\ hits = {} /\ blind = {}

-----------------------------------------------------------------------------
ReplayTypeOK ==
  /\ step \in {"idle", "map", "guard", "check", "call", "done", "refused", "raised"}
  /\ step \in {"guard", "check", "call", "done"} => target \in ReplayTargets
  /\ queue \subseteq DOMAIN Assets
  /\ \A verdict \in DOMAIN results : results[verdict] \subseteq AssetNames
  /\ \A made \in DOMAIN copies : copies[made] \in 0 .. MaxCopies

\* The asset of a name, and the network a write with it is meant for.
AssetNamed(name) == CHOOSE a \in {Assets[i] : i \in DOMAIN Assets} : a.name = name

HomeOf(a, hit) ==
  CASE a.scope = "network" ->
         {m.id : m \in {m \in world[hit.org].networks :
            \/ m.id = a.at /\ ~hit.sanitized
            \/ \E n \in SourceNetworks : n.id = a.at /\ m.name = NameIn(n, hit.sanitized)}}
    [] a.scope = "device" -> world[hit.org].serials
    [] OTHER -> {hit.org}

\* A replayed object reaches what the snapshot took it from: that network by
\* whatever name, or the one of its name, a device of the target organization
\* or the target itself, and in it the object of that name whatever the tenant re-issued the ID to;
\* and a sanitized snapshot reaches only an organization that holds one of
\* its own networks (_parameters, _verify_item_scope, execute).
WritesReachTheirOwn ==
  \A hit \in hits :
    LET a == AssetNamed(hit.asset) IN
    /\ hit.scope \in HomeOf(a, hit)
    /\ hit.kind = "object" /\ hit.named => hit.item = hit.asset
    /\ hit.sanitized =>
         \E n \in SourceNetworks, m \in world[hit.org].networks :
           m.name = Pseudonym(n.name)

\* The same of the secrets of a resource that has a name
\* (_verify_item_scope: "refuses to overwrite the wrong sibling").
SecretsReachTheirOwn ==
  \A hit \in hits : hit.kind = "secrets" /\ hit.named => hit.item = hit.asset

\* A replay that is run again, after a failure, a lost answer or a kill,
\* creates nothing a second time, unless the object's collection could not be
\* read (_already_present).
ReplayCreatesOnce ==
  \A made \in DOMAIN copies : copies[made] <= 1 \/ made \in blind

=============================================================================

------------------------------- MODULE Healer -------------------------------
(***************************************************************************)
(* plan_heal and filter_heal_plan (healer.py): what of a snapshot is gone  *)
(* from the live organization, and the part of it that --only names.       *)
(*                                                                         *)
(* A snapshot asset is a record of                                         *)
(*   key, class ("write", "manual" or "default": an action of the restore  *)
(*   plan, unrestorable, at Meraki's defaults), anchor (children can live  *)
(*   under it), own (<<stem, id>>), scopes (the <<stem, id>> of its path), *)
(*   context (the IDs of its path but its own), refs (the <<stem, id>> its *)
(*   payload refers to; stem "" for a bare id), creates_network, and binds *)
(*   (the network it binds to a template, or "none").                      *)
(***************************************************************************)
EXTENDS Naturals, FiniteSets

CONSTANTS
  Snapshot,      \* the assets of the snapshot
  HealWorlds,    \* what may be left of them: sets of [key, class]
  Selectors      \* --only values: sets of the keys each one names

\* A path and its parameters name one object.
ASSUME SnapshotAssumption == \A a, b \in Snapshot : a.key = b.key => a = b

VARIABLES
  healStep,      \* "idle", "plan", "select", "grow", "close", "chosen", "refused"
  live,          \* the organization as discovered: a set of [key, class]
  missing,       \* keys: plan.missing, of any class, but for
  unbound,       \* the bindings of networks that stand, which are only reported
  surviving,     \* keys of surviving actions
  only,          \* the selectors of this run
  chosen,        \* keys of the actions to execute
  frontier       \* keys whose dependencies are still to be followed

healVars == <<healStep, live, missing, unbound, surviving, only, chosen, frontier>>

KeysOf(assets) == {a.key : a \in assets}
Asset(key) == CHOOSE a \in Snapshot : a.key = key
Actions == {a \in Snapshot : a.class = "write"}
MissingActions == {a \in Actions : a.key \in missing}

\* _path_pairs and path_values.
Values(a) == a.context \cup {a.own[2]}

-----------------------------------------------------------------------------
(* plan_heal.                                                              *)

\* live_asset_keys: whatever its class in the live plan.
LiveAssetKeys == {l.key : l \in live}

\* _split_survivor_bindings: a binding goes with its network's recreation only;
\* one that does not is reported like what cannot be restored.
Recreated(gone) == {a.own[2] : a \in {a \in Actions : a.key \in gone /\ a.creates_network}}

\* Mutant: every binding that is gone is bound again.
SplitNothing(gone) == gone

SplitSurvivorBindings(gone) ==
  {key \in gone : Asset(key).binds = "none" \/ Asset(key).binds \in Recreated(gone)}

PlanHeal ==
  /\ healStep = "plan"
  /\ LET gone == KeysOf(Snapshot) \ LiveAssetKeys IN
     /\ missing' = SplitSurvivorBindings(gone)
     /\ unbound' = gone \ missing'
  /\ surviving' = KeysOf(Actions) \cap LiveAssetKeys
  /\ IF only = {} THEN healStep' = "chosen" /\ chosen' = missing' \cap KeysOf(Actions)
     ELSE healStep' = "select" /\ UNCHANGED chosen
  /\ UNCHANGED <<live, only, frontier>>

-----------------------------------------------------------------------------
(* filter_heal_plan.                                                       *)

\* _in_scope: a path segment is the anchor, inside the anchor's own parents.
InScope(a, anchors) ==
  \E x \in anchors : x.own \in a.scopes \cup {a.own} /\ x.context \subseteq Values(a)

AnchorsOf(keys) == {a \in Actions : a.key \in keys /\ a.anchor}

\* The surviving containers a selector names anchor the scope too.
ContainersOf(selector) == AnchorsOf(surviving \cap selector)

HitsOf(selector) ==
  {key \in missing \cup unbound : key \in selector \/ InScope(Asset(key), ContainersOf(selector))}

\* Direct match; a selector that hits nothing refuses the heal.
SelectDirect ==
  /\ healStep = "select"
  /\ IF \E s \in only : HitsOf(s) = {}
     THEN healStep' = "refused" /\ UNCHANGED chosen
     ELSE /\ healStep' = "grow"
          /\ chosen' = (UNION {HitsOf(s) : s \in only}) \cap KeysOf(MissingActions)
  /\ UNCHANGED <<live, missing, unbound, surviving, only, frontier>>

Containers == UNION {ContainersOf(s) : s \in only}

Grown ==
  {a.key : a \in {a \in MissingActions :
     InScope(a, AnchorsOf(chosen) \cup Containers)}} \ chosen

\* Scope expansion to a fixed point.
GrowScope ==
  /\ healStep = "grow" /\ Grown # {}
  /\ chosen' = chosen \cup Grown
  /\ UNCHANGED <<healStep, live, missing, unbound, surviving, only, frontier>>

ScopeSettled ==
  /\ healStep = "grow" /\ Grown = {}
  /\ healStep' = "close" /\ frontier' = chosen
  /\ UNCHANGED <<live, missing, unbound, surviving, only, chosen>>

\* _dependencies: the parents of its path and what its payload refers to.
Dependencies(a) == (a.scopes \cup a.refs) \ {a.own}

\* The missing objects a dependency may mean: of its type and within its
\* scope, or, of a bare id, the only one with that id.
Candidates(a, dep) ==
  LET named == {x \in AnchorsOf(missing) : x.own[2] = dep[2]} IN
  IF dep[1] = "" THEN {x \in named : Cardinality(named) = 1}
  ELSE {x \in named : x.own = dep /\ x.context \subseteq Values(a)}

Needed(key) ==
  KeysOf(UNION {Candidates(Asset(key), dep) : dep \in Dependencies(Asset(key))})

\* Dependency closure: a queue of what was chosen.
FollowDependencies(key) ==
  /\ healStep = "close" /\ key \in frontier
  /\ chosen' = chosen \cup Needed(key)
  /\ frontier' = (frontier \ {key}) \cup (Needed(key) \ chosen)
  /\ UNCHANGED <<healStep, live, missing, unbound, surviving, only>>

Closed ==
  /\ healStep = "close" /\ frontier = {}
  /\ healStep' = "chosen"
  /\ UNCHANGED <<live, missing, unbound, surviving, only, chosen, frontier>>

HealStep ==
  \/ PlanHeal \/ SelectDirect \/ GrowScope \/ ScopeSettled
  \/ \E key \in frontier : FollowDependencies(key)
  \/ Closed

-----------------------------------------------------------------------------
BeginHeal(selectors) ==
  /\ healStep' = "plan" /\ live' \in HealWorlds /\ only' = selectors
  /\ missing' = {} /\ unbound' = {} /\ surviving' = {} /\ chosen' = {} /\ frontier' = {}

ForgetHeal ==
  /\ healStep' = "idle" /\ live' = {} /\ only' = {}
  /\ missing' = {} /\ unbound' = {} /\ surviving' = {} /\ chosen' = {} /\ frontier' = {}

HealInit ==
  /\ healStep = "idle" /\ live = {} /\ only = {}
  /\ missing = {} /\ unbound = {} /\ surviving = {} /\ chosen = {} /\ frontier = {}

-----------------------------------------------------------------------------
HealTypeOK ==
  /\ healStep \in {"idle", "plan", "select", "grow", "close", "chosen", "refused"}
  /\ only \subseteq Selectors
  /\ missing \cup unbound \cup surviving \cup chosen \cup frontier \subseteq KeysOf(Snapshot)

\* What the operator meant: the missing objects a selector names, and what
\* lives under one of those or under a survivor a selector names.
Meant(keys) ==
  /\ \A s \in only : s \cap KeysOf(MissingActions) \subseteq keys
  /\ \A a \in MissingActions : InScope(a, AnchorsOf(keys) \cup Containers) => a.key \in keys

\* Every object one of them needs comes along.
Whole(keys) == \A key \in keys : Needed(key) \subseteq keys

\* All of what was meant, and nothing else.
AllMeant ==
  {key \in KeysOf(Actions) :
     \A keys \in SUBSET KeysOf(MissingActions) : Meant(keys) => key \in keys}

\* The selection of --only is complete and no larger than it has to be:
\* nothing that stands is in it, a network that stands is not bound again,
\* everything meant is in it, nothing in it lacks an object it needs, and
\* every other object of it is needed by something meant (filter_heal_plan;
\* _split_survivor_bindings).
SelectionIsClosed ==
  healStep = "chosen" =>
    LET meant == AllMeant IN
    /\ chosen \cap surviving = {}
    /\ \A key \in chosen : Asset(key).binds # "none" =>
         \E a \in Actions : a.creates_network /\ a.own[2] = Asset(key).binds
                              /\ a.key \notin surviving
    /\ Whole(chosen)
    /\ only # {} =>
         /\ meant \subseteq chosen
         /\ \A keys \in SUBSET chosen : meant \subseteq keys /\ Whole(keys) => keys = chosen

=============================================================================

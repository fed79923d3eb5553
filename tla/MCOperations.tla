---------------------------- MODULE MCOperations ----------------------------
(***************************************************************************)
(* A small instance of Operations.  "prod" is the organization the         *)
(* snapshots come from, "lab" one rebuilt from them with new identifiers,  *)
(* "spare" a fresh one, "drill" the one that is wiped.                     *)
(***************************************************************************)
EXTENDS Operations

Line(flags) ==
  [typed |-> flags, orgs |-> {}, file |-> {}, fileOrg |-> "prod", named |-> TRUE,
   snapshot |-> "full", only |-> {}, target |-> "spare", expect |-> "prod", kit |-> "prod"]

-----------------------------------------------------------------------------
(* The replayed snapshot: what is left of it in the organizations.         *)

MCSourceNetworks == {[id |-> "N1", name |-> "hq"], [id |-> "N2", name |-> "branch"]}

Gap(name, scope, at) ==
  [name |-> name, kind |-> "gap", scope |-> scope, at |-> at, item |-> "none",
   verbs |-> {"put"}, lookup |-> TRUE, named |-> TRUE, complete |-> TRUE, log |-> FALSE,
   content |-> "plain", secrets |-> "none"]

MCAssets ==
  << [Gap("floor", "network", "N1") EXCEPT !.item = "7"],
     [Gap("policy", "organization", "prod") EXCEPT !.verbs = {"post"}],
     [Gap("note", "device", "Q1") EXCEPT !.verbs = {"post"}, !.named = FALSE],
     [Gap("reboots", "network", "N1") EXCEPT !.verbs = {"post"}, !.log = TRUE],
     [Gap("orphan", "network", "N1") EXCEPT !.complete = FALSE],
     [Gap("vpn", "network", "N2") EXCEPT !.content = "containers"],
     [Gap("radius", "network", "N1") EXCEPT !.kind = "captured", !.item = "4",
                                            !.secrets = "some"] >>

NetworksNamed(names, masked, id) ==
  {[id |-> id[n.name], name |-> NameIn(n, masked)] : n \in {n \in MCSourceNetworks : n.name \in names}}

OldIds == [hq |-> "N1", branch |-> "N2"]
NewIds == [hq |-> "N9", branch |-> "N8"]

Tenant(nets, devices, items) == [networks |-> nets, serials |-> devices, slots |-> items]

Prod == Tenant(NetworksNamed({"hq", "branch"}, FALSE, OldIds), {"Q1"},
               [i \in {"7", "4"} |-> IF i = "7" THEN "floor" ELSE "radius"])

Lab(names, masked, devices, items) == Tenant(NetworksNamed(names, masked, NewIds), devices, items)

\* Rebuilt with the same numbers, with the same numbers for other objects,
\* in part, or from the sanitized snapshot; or not rebuilt but renamed.
Labs ==
  {Tenant({[id |-> "N1", name |-> [name |-> "hall"]]}, {}, Prod.slots),
   Lab({"hq", "branch"}, FALSE, {"Q1"}, Prod.slots),
   Lab({"hq", "branch"}, FALSE, {}, [i \in {"7", "4"} |-> "attic"]),
   Lab({"branch"}, FALSE, {"Q1"}, [i \in {"3"} |-> "floor"]),
   Lab({"hq"}, TRUE, {"Q1"}, [i \in {"4"} |-> "attic"])}

Worlds(labs) == {[o \in {"prod", "lab"} |-> IF o = "prod" THEN Prod ELSE lab] : lab \in labs}
Still == Worlds({Prod})

-----------------------------------------------------------------------------
(* The healed snapshot: two networks, one bound to a template, with a      *)
(* group policy of the same number in each and an SSID that refers to it.  *)

Object(key, stem, id) ==
  [key |-> key, class |-> "write", anchor |-> TRUE, own |-> <<stem, id>>, scopes |-> {},
   context |-> {}, refs |-> {}, binds |-> "none", creates_network |-> FALSE]

Within(asset, n) == [asset EXCEPT !.scopes = {<<"networks", n>>}, !.context = {n}]

MCSnapshot ==
  { [Object("hq", "networks", "N1") EXCEPT !.creates_network = TRUE],
    [Object("branch", "networks", "N2") EXCEPT !.creates_network = TRUE],
    Object("template", "configTemplates", "T1"),
    [Within(Object("binding", "networks", "N1"), "N1") EXCEPT
       !.anchor = FALSE, !.binds = "N1", !.refs = {<<"configTemplates", "T1">>}, !.context = {}],
    Within(Object("hq policy", "groupPolicies", "100"), "N1"),
    Within(Object("branch policy", "groupPolicies", "100"), "N2"),
    [Within(Object("ssid", "ssids", "0"), "N1") EXCEPT
       !.anchor = FALSE, !.refs = {<<"groupPolicies", "100">>}],
    [Within(Object("camera", "cameras", "c"), "N2") EXCEPT
       !.anchor = FALSE, !.class = "manual", !.refs = {<<"", "T1">>}] }

Parent(key) == CASE key \in {"binding", "hq policy", "ssid"} -> "hq"
                 [] key \in {"branch policy", "camera"} -> "branch"
                 [] OTHER -> "none"

Survivors ==
  {keys \in SUBSET KeysOf(MCSnapshot) : \A k \in keys : Parent(k) \in keys \cup {"none"}}

MCHealWorlds == {{[key |-> k, class |-> "write"] : k \in keys} : keys \in Survivors}

MCSelectors == {{"hq"}, {"hq policy", "branch policy"}, {"ssid"}, {"camera", "branch"}}

-----------------------------------------------------------------------------
(* What operators type.                                                    *)

MainFlags ==
  DR_ACTION_FLAGS \cup DR_TARGETING_FLAGS
  \cup {"sync", "rebaseline", "fail_on_gaps", "dump_to", "sanitize", "dump_path",
        "expect_org", "only", "discovery_checkpoint", "list_orgs", "diff_networks",
        "check", "estimate", "workdir"}

FlagSets ==
  {{a, b, c} : a \in MainFlags, b \in MainFlags, c \in MainFlags}
  \cup {{"restore", "dump_path", "target_org", a, b} : a \in MainFlags, b \in MainFlags}
OtherSets == {{a, b} : a \in Flags, b \in Flags}

FlagLines ==
  {[Line(t) EXCEPT !.orgs = o] : t \in FlagSets, o \in {{}, {"prod"}, {"prod", "lab"}}}
  \cup {[Line(t) EXCEPT !.file = f] :
          t \in OtherSets, f \in {{"org_ids"}, {"dump_path"}, {"confirm"}, {"sync", "workdir"}}}

WipeLines ==
  {[Line({"wipe_org", "wipe_org_name"}) EXCEPT !.named = n] : n \in BOOLEAN}
  \cup {Line({"wipe_org", "wipe_org_name", "confirm"})}

RestoreLines ==
  LET full == {"restore", "dump_path", "target_org", "confirm"} IN
  {Line(full \ {"confirm"}), Line(full \cup {"serial_map"})}
  \cup {[Line(full) EXCEPT !.snapshot = s, !.target = o] :
          s \in {"full", "sanitized"}, o \in {"prod", "spare"}}
  \cup {Line(full \cup {"skip_claims"})}
  \cup {[Line(full) EXCEPT !.snapshot = s] : s \in {"partial", "several"}}

HealLines ==
  {[Line({"heal", "dump_path", "confirm"} \cup (IF o = {} THEN {} ELSE {"only"})) EXCEPT
      !.orgs = {"prod"}, !.only = o] :
     o \in {{}} \cup {{s} : s \in MCSelectors} \cup {{{"hq"}, {"ssid"}}}}
  \cup {[Line({"heal", "dump_path"}) EXCEPT !.orgs = {"prod"}, !.snapshot = "sanitized"]}

ReplayInto(orgs, snapshot) ==
  [Line({"replay_gaps", "dump_path", "confirm"}) EXCEPT !.orgs = orgs, !.snapshot = snapshot]

ReplayLines == {ReplayInto({"lab"}, "full"), ReplayInto({"lab"}, "sanitized")}

GapLines ==
  {ReplayInto({}, s) : s \in {"full", "sanitized", "partial", "several"}}
  \cup {Line({"replay_gaps", "dump_path"})}
  \cup {[Line({"replay_gaps", "dump_path", "confirm", "expect_org"}) EXCEPT !.orgs = o] :
          o \in {{}, {"lab"}}}

RebuildLines ==
  {[Line({"rebuild"} \cup more) EXCEPT !.kit = k] :
     more \in {{}, {"confirm"}, {"confirm", "expect_org"}}, k \in {"prod", "unknown", "no kit"}}

RunLines ==
  {[Line(t) EXCEPT !.orgs = o] :
     t \in {{}, {"sync"}, {"fail_on_gaps"}, {"sync", "fail_on_gaps"}},
     o \in {{"prod"}, {"prod", "lab", "spare"}}}
  \cup {[Line({"dump_to", "fail_on_gaps"}) EXCEPT !.orgs = {"prod"}]}
  \cup {[Line({"dump_path", "sync"}) EXCEPT !.snapshot = s] : s \in {"full", "partial"}}
  \cup {Line(t) : t \in {{"list_orgs"}, {"check"}, {"diff_networks", "dump_path"},
                         {"estimate", "dump_path"}}}

Of(typed, count) ==
  [lines |-> typed, key |-> TRUE, channels |-> {"mail", Paging}, commands |-> count,
   losses |-> 0, worlds |-> Still]

MCSessions ==
  [flags   |-> [Of(FlagLines, 1) EXCEPT !.key = FALSE, !.channels = {}],
   wipes   |-> Of(WipeLines, 2),
   restores|-> [Of(RestoreLines, 3) EXCEPT !.channels = {"mail"}, !.losses = 1],
   heals   |-> Of(HealLines, 1),
   replays |-> [Of(ReplayLines, 2) EXCEPT !.channels = {}, !.worlds = Worlds(Labs)],
   gaps    |-> Of(GapLines, 1),
   rebuilds|-> Of(RebuildLines, 2),
   runs    |-> Of(RunLines, 1)]

\* One replay of the full snapshot into an organization whose items have
\* other numbers.
NamesakeSessions ==
  [replays |-> [Of({ReplayInto({"lab"}, "full")}, 1) EXCEPT !.worlds = Worlds(Labs)]]

SkipSessions == [s \in {"restores", "heals"} |-> MCSessions[s]]

MCObjects == <<"network", "stack">>

=============================================================================

---------------------------- MODULE CommandLine ----------------------------
(***************************************************************************)
(* The command line (cli.py): which combinations of flags main() accepts,  *)
(* and which one mode it then runs.                                        *)
(*                                                                         *)
(* A line is what was typed and what a --config file adds: "typed" is a    *)
(* set of flags by their argparse destination, "orgs" the --org-id values, *)
(* "file" the keys of the config file.  What a flag's value says is in the *)
(* other fields, read by the command that runs.                            *)
(***************************************************************************)
EXTENDS Naturals, FiniteSets

DR_ACTION_FLAGS == {"rebuild", "heal", "replay_gaps", "restore", "wipe_org"}

DR_TARGETING_FLAGS ==
  {"confirm", "target_org", "serial_map", "skip_claims", "wipe_org_name"}

PIPELINE_FLAGS == {"sync", "confirm_deletions", "fail_on_gaps", "rebaseline"}

EXPORT_FLAGS == {"dump_to", "sanitize", "drift_baseline"}

Flags ==
  DR_ACTION_FLAGS \cup DR_TARGETING_FLAGS \cup PIPELINE_FLAGS \cup EXPORT_FLAGS
  \cup {"dump_path", "expect_org", "only", "discovery_checkpoint", "list_orgs",
        "diff_networks", "diff_out", "check", "estimate", "state_file",
        "remote_backend", "backend_config_file", "org_placeholder", "workdir",
        "terraform_bin"}

-----------------------------------------------------------------------------
(* --config.                                                               *)

\* Keys a file may never carry.
CONFIG_FILE_REFUSED_KEYS ==
  {"rebuild", "heal", "only", "replay_gaps", "restore", "wipe_org", "wipe_org_name",
   "confirm", "confirm_deletions", "rebaseline", "target_org", "serial_map",
   "skip_claims"}

\* The keys it may: the loader refuses every other one.
ConfigFileKeys ==
  {"org_ids", "dump_path", "dump_to", "drift_baseline", "discovery_checkpoint",
   "state_file", "remote_backend", "backend_config_file", "sanitize", "sync",
   "fail_on_gaps", "workdir", "terraform_bin"}

\* _DR_TARGET_DESTS.
DrTargetKeys == {"org_ids", "dump_path", "workdir", "terraform_bin"}

IsTyped(l, key) == IF key = "org_ids" THEN l.orgs # {} ELSE key \in l.typed

\* load_config_file: a key that is refused there, or unknown.
LoadRefused(l) == ~(l.file \subseteq ConfigFileKeys)

\* _apply_config_file: a target of a disaster-recovery action is typed.
FileRefused(l) ==
  \/ LoadRefused(l)
  \/ /\ l.typed \cap DR_ACTION_FLAGS # {}
     /\ \E key \in l.file \cap DrTargetKeys : ~IsTyped(l, key)

\* RuntimeConfig.from_args after _apply_config_file: a typed flag wins, the
\* file fills the rest.  "key" says whether the API key is in the environment.
ConfigOf(l, key) ==
  [flags |-> l.typed \cup (l.file \ {"org_ids"}),
   orgs  |-> IF l.orgs = {} /\ "org_ids" \in l.file THEN {l.fileOrg} ELSE l.orgs,
   key   |-> key]

\* RuntimeConfig.org_id: the one organization, if it is one.
OrgId(orgs) == IF Cardinality(orgs) = 1 THEN CHOOSE o \in orgs : TRUE ELSE "none"

-----------------------------------------------------------------------------
(* The refusals, in the order main() asks them.                            *)

FlagsSet(c, names) == c.flags \cap names # {}
Has(c, flag) == flag \in c.flags
Several(c) == Cardinality(c.orgs) > 1
Offline(c) == Has(c, "dump_path")
Modes == DR_ACTION_FLAGS \cup DR_TARGETING_FLAGS \cup PIPELINE_FLAGS \cup EXPORT_FLAGS

\* RuntimeConfig.from_args: settings of a remote backend with the local one.
BackendRefused(c) ==
  ~Has(c, "remote_backend") /\ FlagsSet(c, {"backend_config_file", "org_placeholder"})

ListOrgsRefused(c) ==
  \/ FlagsSet(c, Modes \cup {"dump_path", "expect_org", "check", "estimate",
                             "diff_networks", "diff_out", "discovery_checkpoint"})
  \/ c.orgs # {}
  \/ ~c.key

DiffNetworksRefused(c) ==
  \/ Has(c, "diff_out") /\ ~Has(c, "diff_networks")
  \/ /\ Has(c, "diff_networks")
     /\ \/ FlagsSet(c, Modes \cup {"expect_org", "only", "discovery_checkpoint"})
        \/ Several(c)
        \/ ~Offline(c) /\ (c.orgs = {} \/ ~c.key)

StateFileRefused(c) == Has(c, "remote_backend") /\ Has(c, "state_file")

CheckEstimateRefused(c) ==
  \/ {"check", "estimate"} \subseteq c.flags
  \/ /\ FlagsSet(c, {"check", "estimate"})
     /\ FlagsSet(c, DR_ACTION_FLAGS \cup DR_TARGETING_FLAGS \cup {"expect_org"})
  \/ /\ Has(c, "estimate")
     /\ \/ FlagsSet(c, PIPELINE_FLAGS \cup EXPORT_FLAGS \cup {"only"})
        \/ ~Offline(c) /\ (Cardinality(c.orgs) # 1 \/ ~c.key)

\* Mutant: the companions of --restore may accompany another action.
DrCompanionsAccepted(c) ==
  \/ Has(c, "confirm") /\ ~FlagsSet(c, DR_ACTION_FLAGS)
  \/ Has(c, "expect_org") /\ ~FlagsSet(c, {"rebuild", "replay_gaps"})

DrCompanionsRefused(c) ==
  \/ Has(c, "confirm") /\ ~FlagsSet(c, DR_ACTION_FLAGS)
  \/ Has(c, "expect_org") /\ ~FlagsSet(c, {"rebuild", "replay_gaps"})
  \/ FlagsSet(c, {"target_org", "serial_map", "skip_claims"}) /\ ~Has(c, "restore")

\* --only by itself scopes a pipeline run, with --dump-to an export, and is
\* an argument of --heal.
ScopedPipeline(c) == Has(c, "only") /\ ~FlagsSet(c, {"heal", "dump_to"})

OnlyRefused(c) ==
  \/ /\ ScopedPipeline(c)
     /\ \/ FlagsSet(c, {"rebuild", "replay_gaps", "restore", "wipe_org",
                        "confirm_deletions", "rebaseline"})
        \/ Several(c)
  \/ /\ Has(c, "only") /\ ~Has(c, "heal")
     /\ FlagsSet(c, {"dump_path", "drift_baseline"})

DiscoveryCheckpointRefused(c) ==
  /\ Has(c, "discovery_checkpoint")
  /\ FlagsSet(c, DR_ACTION_FLAGS \cup {"dump_path"}) \/ Several(c)

WipeOrgNameRefused(c) == Has(c, "wipe_org_name") /\ ~Has(c, "wipe_org")

WipeOrgRefused(c) ==
  \/ ~Has(c, "wipe_org_name")
  \/ FlagsSet(c, {"rebuild", "replay_gaps", "restore", "heal", "dump_path"}
                 \cup PIPELINE_FLAGS \cup EXPORT_FLAGS)
  \/ c.orgs # {}

HealRefused(c) ==
  \/ ~Offline(c)
  \/ Cardinality(c.orgs) # 1
  \/ FlagsSet(c, {"restore", "rebuild", "replay_gaps"}
                 \cup PIPELINE_FLAGS \cup EXPORT_FLAGS)

RestoreRefused(c) ==
  \/ ~Offline(c)
  \/ ~Has(c, "target_org")
  \/ c.orgs # {}
  \/ FlagsSet(c, {"rebuild", "replay_gaps"} \cup PIPELINE_FLAGS \cup EXPORT_FLAGS)

ReplayGapsRefused(c) ==
  \/ Has(c, "rebuild")
  \/ ~Offline(c)
  \/ FlagsSet(c, {"dump_to", "sanitize", "drift_baseline"} \cup PIPELINE_FLAGS)

RebuildRefused(c) ==
  \/ FlagsSet(c, {"dump_path", "dump_to", "sanitize", "drift_baseline"}
                 \cup PIPELINE_FLAGS)
  \/ c.orgs # {}

PipelineRunRefused(c) ==
  \/ Has(c, "dump_to") /\ FlagsSet(c, {"sync", "confirm_deletions", "rebaseline"})
  \/ ~Offline(c) /\ c.orgs = {}
  \/ Has(c, "sanitize") /\ (~Has(c, "dump_to") \/ Has(c, "drift_baseline"))
  \/ /\ Several(c)
     /\ \/ FlagsSet(c, {"dump_path", "dump_to", "drift_baseline", "state_file"})
        \/ /\ Has(c, "remote_backend")
           /\ Has(c, "backend_config_file") \/ ~Has(c, "org_placeholder")

-----------------------------------------------------------------------------
(* main(): the mode a line runs, or "usage" when it is refused.  The first *)
(* rung that applies decides.                                              *)

Rung(mode, applies, refused) == [mode |-> mode, applies |-> applies, refused |-> refused]

Ladder(c) ==
  << Rung("usage",         BackendRefused(c),          TRUE),
     Rung("list_orgs",     Has(c, "list_orgs"),        ListOrgsRefused(c)),
     Rung("diff_networks", FlagsSet(c, {"diff_networks", "diff_out"}),
                                                       DiffNetworksRefused(c)),
     Rung("usage",         StateFileRefused(c) \/ CheckEstimateRefused(c), TRUE),
     Rung("check",         Has(c, "check"),            FALSE),
     Rung("estimate",      Has(c, "estimate"),         FALSE),
     Rung("usage",         DrCompanionsRefused(c) \/ OnlyRefused(c), TRUE),
     Rung("usage",         DiscoveryCheckpointRefused(c) \/ WipeOrgNameRefused(c), TRUE),
     Rung("wipe_org",      Has(c, "wipe_org"),         WipeOrgRefused(c)),
     Rung("heal",          Has(c, "heal"),             HealRefused(c)),
     Rung("restore",       Has(c, "restore"),          RestoreRefused(c)),
     Rung("replay_gaps",   Has(c, "replay_gaps"),      ReplayGapsRefused(c)),
     Rung("rebuild",       Has(c, "rebuild"),          RebuildRefused(c)),
     Rung("usage",         PipelineRunRefused(c),      TRUE),
     Rung("export",        Has(c, "dump_to"),          FALSE),
     Rung("pipeline",      TRUE,                       FALSE) >>

Mode(c) ==
  LET rungs == Ladder(c)
      first == CHOOSE i \in DOMAIN rungs :
                 rungs[i].applies /\ \A j \in 1 .. i - 1 : ~rungs[j].applies
  IN IF rungs[first].refused THEN "usage" ELSE rungs[first].mode

\* The flags a disaster-recovery mode acts on.
Uses(mode) ==
  CASE mode = "wipe_org"    -> {"wipe_org", "wipe_org_name", "confirm"}
    [] mode = "heal"        -> {"heal", "dump_path", "org_ids", "only", "confirm"}
    [] mode = "restore"     -> {"restore", "dump_path", "target_org", "serial_map",
                                "skip_claims", "confirm"}
    [] mode = "replay_gaps" -> {"replay_gaps", "dump_path", "org_ids", "expect_org",
                                "confirm"}
    [] mode = "rebuild"     -> {"rebuild", "expect_org", "confirm"}

\* Where files live and which terraform runs, whatever the mode.
PlaceFlags == {"state_file", "remote_backend", "backend_config_file", "org_placeholder",
               "workdir", "terraform_bin"}

\* What a line says is what the mode does: it uses every flag and the
\* organizations, and the action and its targets were typed.
Honoured(l, mode) ==
  /\ l.typed \subseteq Uses(mode) \cup PlaceFlags
  /\ l.orgs # {} => "org_ids" \in Uses(mode)
  /\ mode \in l.typed
  /\ \A key \in l.file \cap Uses(mode) : IsTyped(l, key)

=============================================================================

-------------------------- MODULE CommandLineProofs --------------------------
(***************************************************************************)
(* What main() makes of every line that can be typed: no disaster-recovery *)
(* action starts with a flag that it ignores.  TLC tries the lines of a    *)
(* few flags; here every set of flags is covered.                          *)
(*                                                                         *)
(* The argument follows the ladder: when a rung decides, the refusals of   *)
(* the rungs before it did not apply (RungsPassed), and every flag outside *)
(* what the mode uses is refused by one of them.                           *)
(***************************************************************************)
EXTENDS CommandLine, WellFoundedInduction, TLAPS

\* Of the rungs that apply one is the first.
LEMMA FirstOne ==
  ASSUME NEW S \in SUBSET Nat, NEW n \in S
  PROVE  \E i \in S : \A j \in 1 .. i - 1 : j \notin S
<1> DEFINE R == {ss \in Nat \X Nat : ss[1] < ss[2]}
<1>1. IsWellFoundedOn(R, Nat)
  BY NatLessThanWellFounded DEF OpToRel
<1> HIDE DEF R
<1>2. PICK i \in S : \A j \in S : ~(<<j, i>> \in R)
  BY <1>1, WFMin
<1>3. ASSUME NEW j \in 1 .. i - 1, j \in S
      PROVE  FALSE
  <2>1. i \in Nat /\ j \in Nat /\ j < i
    BY <1>3
  <2>2. <<j, i>> \in R
    BY <2>1 DEF R
  <2> QED BY <1>2, <1>3, <2>2
<1> QED BY <1>3

\* main() runs the first rung that applies; the last one always does.
LEMMA FirstRung ==
  ASSUME NEW c
  PROVE  \E i \in 1 .. 16 :
           /\ Ladder(c)[i].applies
           /\ \A j \in 1 .. i - 1 : ~Ladder(c)[j].applies
           /\ Mode(c) = IF Ladder(c)[i].refused THEN "usage" ELSE Ladder(c)[i].mode
<1> DEFINE rungs == Ladder(c)
           S == {i \in 1 .. 16 : rungs[i].applies}
           first == CHOOSE i \in DOMAIN rungs :
                      rungs[i].applies /\ \A j \in 1 .. i - 1 : ~rungs[j].applies
<1>1. DOMAIN rungs = 1 .. 16
  BY DEF Ladder
<1>2. rungs[16].applies
  BY DEF Ladder, Rung
<1> HIDE DEF rungs
<1>3. \E i \in 1 .. 16 : rungs[i].applies /\ \A j \in 1 .. i - 1 : ~rungs[j].applies
  <2>1. S \in SUBSET Nat /\ 16 \in S
    BY <1>2
  <2>2. PICK i \in S : \A j \in 1 .. i - 1 : j \notin S
    BY <2>1, FirstOne
  <2>3. \A j \in 1 .. i - 1 : ~rungs[j].applies
    BY <2>2
  <2> QED BY <2>2, <2>3
<1>4. first \in 1 .. 16 /\ rungs[first].applies /\ \A j \in 1 .. first - 1 : ~rungs[j].applies
  BY <1>1, <1>3
<1>5. Mode(c) = IF rungs[first].refused THEN "usage" ELSE rungs[first].mode
  BY DEF Mode, rungs
<1> HIDE DEF first
<1> QED BY <1>4, <1>5 DEF rungs

\* What a line has come through before it reaches the disaster-recovery
\* actions.
Passed(c) ==
  /\ ~Has(c, "list_orgs") /\ ~FlagsSet(c, {"diff_networks", "diff_out"})
  /\ ~Has(c, "check") /\ ~Has(c, "estimate")
  /\ ~DrCompanionsRefused(c) /\ ~OnlyRefused(c)
  /\ ~DiscoveryCheckpointRefused(c) /\ ~WipeOrgNameRefused(c)

LEMMA RungsPassed ==
  ASSUME NEW c, Mode(c) \in DR_ACTION_FLAGS
  PROVE  /\ Passed(c) /\ Has(c, Mode(c))
         /\ Mode(c) = "wipe_org" => ~WipeOrgRefused(c)
         /\ Mode(c) = "heal" => ~HealRefused(c)
         /\ Mode(c) = "restore" => ~RestoreRefused(c)
         /\ Mode(c) = "replay_gaps" => ~ReplayGapsRefused(c)
         /\ Mode(c) = "rebuild" => ~RebuildRefused(c)
         /\ Mode(c) # "wipe_org" => ~Has(c, "wipe_org")
         /\ Mode(c) \notin {"wipe_org", "heal"} => ~Has(c, "heal")
         /\ Mode(c) \in {"replay_gaps", "rebuild"} => ~Has(c, "restore")
         /\ Mode(c) = "rebuild" => ~Has(c, "replay_gaps")
<1> DEFINE A(i) == Ladder(c)[i].applies
<1>1. PICK i \in 1 .. 16 :
        /\ A(i) /\ \A j \in 1 .. i - 1 : ~A(j)
        /\ Mode(c) = IF Ladder(c)[i].refused THEN "usage" ELSE Ladder(c)[i].mode
  BY FirstRung
<1>2. Mode(c) = Ladder(c)[i].mode /\ ~Ladder(c)[i].refused
  BY <1>1 DEF DR_ACTION_FLAGS
<1>3. i \in 9 .. 13
  BY <1>1, <1>2 DEF Ladder, Rung, DR_ACTION_FLAGS
<1>4. Passed(c)
  <2>1. \A j \in 1 .. 8 : ~A(j)
    BY <1>1, <1>3
  <2>2. ~A(2) /\ ~A(3) /\ ~A(5) /\ ~A(6) /\ ~A(7) /\ ~A(8)
    BY <2>1
  <2> QED BY <2>2 DEF Ladder, Rung, Passed
<1>5. CASE i = 9
  BY <1>1, <1>2, <1>4, <1>5 DEF Ladder, Rung
<1>6. CASE i = 10
  BY <1>1, <1>2, <1>4, <1>6 DEF Ladder, Rung
<1>7. CASE i = 11
  BY <1>1, <1>2, <1>4, <1>7 DEF Ladder, Rung
<1>8. CASE i = 12
  BY <1>1, <1>2, <1>4, <1>8 DEF Ladder, Rung
<1>9. CASE i = 13
  BY <1>1, <1>2, <1>4, <1>9 DEF Ladder, Rung
<1> QED BY <1>3, <1>5, <1>6, <1>7, <1>8, <1>9

-----------------------------------------------------------------------------
(* The flags beside an action, mode by mode.                               *)

\* The flags that no disaster-recovery mode reads: each is refused on the
\* way, or by the mode's own rung.
LEMMA NothingIgnored ==
  ASSUME NEW c, c.flags \subseteq Flags, NEW mode \in DR_ACTION_FLAGS, Mode(c) = mode
  PROVE  c.flags \subseteq Uses(mode) \cup PlaceFlags
<1> USE DEF Has, FlagsSet
<1>1. Passed(c) /\ mode \in c.flags
  BY RungsPassed
<1>2. "only" \in c.flags => "heal" \in c.flags \/ "dump_to" \in c.flags
  BY <1>1 DEF Passed, OnlyRefused, ScopedPipeline, DR_ACTION_FLAGS
<1>3. c.flags \cap {"list_orgs", "diff_networks", "diff_out", "check", "estimate"} = {}
  BY <1>1 DEF Passed
<1>4. "discovery_checkpoint" \notin c.flags
  BY <1>1 DEF Passed, DiscoveryCheckpointRefused
<1>5. /\ c.flags \cap {"target_org", "serial_map", "skip_claims"} # {} => "restore" \in c.flags
      /\ "expect_org" \in c.flags => "rebuild" \in c.flags \/ "replay_gaps" \in c.flags
      /\ "wipe_org_name" \in c.flags => "wipe_org" \in c.flags
  BY <1>1 DEF Passed, DrCompanionsRefused, WipeOrgNameRefused
<1> USE DEF Flags, DR_ACTION_FLAGS, DR_TARGETING_FLAGS, PIPELINE_FLAGS, EXPORT_FLAGS, Uses,
        PlaceFlags
<1>6. CASE mode = "wipe_org"
  <2>1. ~WipeOrgRefused(c)
    BY <1>6, RungsPassed
  <2> QED BY <1>2, <1>3, <1>4, <1>5, <1>6, <2>1 DEF WipeOrgRefused
<1>7. CASE mode = "heal"
  <2>1. ~HealRefused(c) /\ "wipe_org" \notin c.flags
    BY <1>7, RungsPassed
  <2> QED BY <1>2, <1>3, <1>4, <1>5, <1>7, <2>1 DEF HealRefused
<1>8. CASE mode = "restore"
  <2>1. ~RestoreRefused(c) /\ c.flags \cap {"wipe_org", "heal"} = {}
    BY <1>8, RungsPassed
  <2> QED BY <1>2, <1>3, <1>4, <1>5, <1>8, <2>1 DEF RestoreRefused
<1>9. CASE mode = "replay_gaps"
  <2>1. ~ReplayGapsRefused(c) /\ c.flags \cap {"wipe_org", "heal", "restore"} = {}
    BY <1>9, RungsPassed
  <2> QED BY <1>2, <1>3, <1>4, <1>5, <1>9, <2>1 DEF ReplayGapsRefused
<1>10. CASE mode = "rebuild"
  <2>1. ~RebuildRefused(c) /\ c.flags \cap {"wipe_org", "heal", "restore", "replay_gaps"} = {}
    BY <1>10, RungsPassed
  <2> QED BY <1>2, <1>3, <1>4, <1>5, <1>10, <2>1 DEF RebuildRefused
<1> QED BY <1>6, <1>7, <1>8, <1>9, <1>10

\* A line that a disaster-recovery mode accepts is honoured by it, whatever
\* is typed with it and whatever its config file says (main: "an
\* accepted-but-ignored flag is how an operator comes to believe a scope, a
\* second factor, or a baseline reset applied when it did not").
THEOREM AcceptedIsHonoured ==
  ASSUME NEW l, NEW key, l.typed \subseteq Flags, ~FileRefused(l),
         NEW mode \in DR_ACTION_FLAGS, Mode(ConfigOf(l, key)) = mode
  PROVE  Honoured(l, mode)
<1> DEFINE c == ConfigOf(l, key)
<1>1. c.flags = l.typed \cup (l.file \ {"org_ids"}) /\ (l.orgs # {} => c.orgs = l.orgs)
  BY DEF ConfigOf
<1>2. l.file \subseteq ConfigFileKeys
  BY DEF FileRefused, LoadRefused
<1>3. c.flags \subseteq Flags
  <2>1. ConfigFileKeys \ {"org_ids"} \subseteq Flags
    BY DEF ConfigFileKeys, Flags, PIPELINE_FLAGS, EXPORT_FLAGS
  <2> QED BY <1>1, <1>2, <2>1
<1> HIDE DEF c
<1>4. c.flags \subseteq Uses(mode) \cup PlaceFlags
  BY <1>3, NothingIgnored DEF c
<1>5. mode \in l.typed
  <2>1. mode \in c.flags
    BY RungsPassed DEF c, Has
  <2>2. mode \notin ConfigFileKeys
    BY DEF DR_ACTION_FLAGS, ConfigFileKeys
  <2> QED BY <1>1, <1>2, <2>1, <2>2
<1>6. l.orgs # {} => "org_ids" \in Uses(mode)
  <2>1. mode = "wipe_org" => c.orgs = {}
    BY RungsPassed DEF c, WipeOrgRefused
  <2>2. mode = "restore" => c.orgs = {}
    BY RungsPassed DEF c, RestoreRefused
  <2>3. mode = "rebuild" => c.orgs = {}
    BY RungsPassed DEF c, RebuildRefused
  <2>4. mode \in {"heal", "replay_gaps"} => "org_ids" \in Uses(mode)
    BY DEF Uses
  <2> QED BY <1>1, <2>1, <2>2, <2>3, <2>4 DEF DR_ACTION_FLAGS
<1>7. ASSUME NEW k \in l.file \cap Uses(mode)
      PROVE  IsTyped(l, k)
  <2>1. k \in DrTargetKeys
    BY <1>2, <1>7 DEF ConfigFileKeys, Uses, DR_ACTION_FLAGS, DrTargetKeys
  <2> QED BY <1>5, <1>7, <2>1 DEF FileRefused
<1> QED BY <1>1, <1>4, <1>5, <1>6, <1>7 DEF Honoured

=============================================================================

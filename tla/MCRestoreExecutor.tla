------------------------- MODULE MCRestoreExecutor -------------------------
(***************************************************************************)
(* Small plans for RestoreExecutor, one per question the runs ask.         *)
(***************************************************************************)
EXTENDS RestoreExecutor

\* An action with nothing special about it; the plans below override fields.
Plain ==
  [kind |-> "create", own |-> NoIdent, path |-> {}, refs |-> {}, lists |-> {},
   match |-> {"key"}, coll |-> "", readable |-> TRUE, born |-> FALSE,
   shared |-> FALSE, flag |-> FALSE, drill |-> "no", fault |-> "none"]
Create(own, path, coll) ==
  [Plain EXCEPT !.own = own, !.path = path, !.coll = coll]
Configure(path, coll) ==
  [Plain EXCEPT !.kind = "configure", !.path = path, !.coll = coll, !.match = {}]
Claim(serial, path) ==
  [Plain EXCEPT !.kind = "claim", !.own = serial, !.path = path,
                !.coll = "devices", !.match = {}]

\* A network, a group policy and a setting in it, a device and its feature.
SitePlan == <<"net", "claim", "policy", "ports", "setting">>
SiteActs == {"net", "claim", "policy", "ports", "setting"}
SiteIdents == {"N", "D", "G"}
SiteAttr ==
  [a \in SiteActs |->
     CASE a = "net" -> Create("N", {}, "networks")
       [] a = "claim" -> Claim("D", {"N"})
       [] a = "policy" -> Create("G", {"N"}, "policies")
       [] a = "ports" -> Configure({"D"}, "ports")
       [] a = "setting" -> [Configure({"N"}, "setting") EXCEPT !.refs = {"G"}]]

\* The dashboard provisions the setting, with factory values, together with
\* its network; in the second plan it provisions the group policy as well.
FactoryAttr == [SiteAttr EXCEPT !["setting"].born = TRUE]
FactoryPolicyAttr == [SiteAttr EXCEPT !["policy"].born = TRUE]

\* A network and one thing in it, a setting or a group policy: the smallest plan with a second incident.
NestPlan == <<"net", "setting">>
NestActs == {"net", "setting"}
NestIdents == {"N", "G"}
NestAttr ==
  [a \in NestActs |-> IF a = "net" THEN SiteAttr[a]
                      ELSE [Configure({"N"}, "setting") EXCEPT !.born = TRUE]]
PolicyNestAttr ==
  [a \in NestActs |-> IF a = "net" THEN SiteAttr[a] ELSE SiteAttr["policy"]]

\* Two networks whose group policies carry the same snapshot ID, and which
\* both record one organization-wide profile.
TwinPlan == <<"east", "west", "eastPolicy", "westPolicy", "eastProfile",
              "westProfile", "eastSsid", "westSsid">>
TwinActs == {TwinPlan[i] : i \in 1 .. Len(TwinPlan)}
TwinIdents == {"E", "W", "G", "T"}
TwinAttr ==
  [a \in TwinActs |->
     CASE a = "east" -> Create("E", {}, "networks")
       [] a = "west" -> Create("W", {}, "networks")
       [] a = "eastPolicy" -> Create("G", {"E"}, "eastPolicies")
       [] a = "westPolicy" -> Create("G", {"W"}, "westPolicies")
       [] a = "eastProfile" -> [Create("T", {"E"}, "eastProfiles") EXCEPT !.shared = TRUE]
       [] a = "westProfile" -> [Create("T", {"W"}, "westProfiles") EXCEPT !.shared = TRUE]
       [] a = "eastSsid" -> [Configure({"E"}, "eastSsids") EXCEPT !.refs = {"G"}]
       [] a = "westSsid" -> [Configure({"W"}, "westSsids") EXCEPT !.refs = {"G", "T"}]]

\* A drill without hardware.  The stack lists a production serial, so what
\* hangs under it is held back too; a client-assigned VLAN and a default
\* upgrade stage that the dashboard provisions, a route without a natural
\* key and a port that refers to it, and a pair that lists each other.
WavePlan == <<"net", "claim", "stack", "lacp", "rule", "ports", "skewed", "foreign",
              "route", "stage", "vlan", "port", "object", "group">>
WaveActs == {WavePlan[i] : i \in 1 .. Len(WavePlan)}
WaveIdents == {"N", "D", "S", "P", "K", "R", "U", "V", "A", "B"}
WaveAttr ==
  [a \in WaveActs |->
     CASE a = "net" -> Create("N", {}, "networks")
       [] a = "claim" -> [Claim("D", {"N"}) EXCEPT !.drill = "hardware"]
       [] a = "stack" -> [Create("S", {"N"}, "stacks") EXCEPT !.drill = "serial"]
       [] a = "lacp" -> Create("P", {"N", "S"}, "lacp")
       [] a = "rule" -> Configure({"N", "P"}, "rules")
       [] a = "ports" -> [Configure({"D"}, "ports") EXCEPT !.drill = "hardware"]
       [] a = "skewed" -> [Create("K", {"N"}, "skewed") EXCEPT !.fault = "skew"]
       [] a = "foreign" -> [Configure({"D"}, "foreign") EXCEPT !.fault = "foreign"]
       [] a = "route" -> [Create("R", {"N"}, "routes") EXCEPT !.match = {}]
       [] a = "stage" -> [Create("U", {"N"}, "stages")
                            EXCEPT !.born = TRUE, !.flag = TRUE]
       [] a = "vlan" -> [Create("V", {"N"}, "vlans")
                           EXCEPT !.match = {"client"}, !.born = TRUE]
       [] a = "port" -> [Configure({"N"}, "port") EXCEPT !.refs = {"R"}]
       [] a = "object" -> [Create("A", {}, "objects") EXCEPT !.lists = {"B"}]
       [] a = "group" -> [Create("B", {}, "groups") EXCEPT !.lists = {"A"}]]

=============================================================================

-------------------------- MODULE RestoreExecutor --------------------------
(***************************************************************************)
(* OrgRestorer.execute (restorer.py): the write engine behind --restore    *)
(* and --heal.  One thread works a wave-ordered plan against a remote      *)
(* organization, keeps a durable journal, and is re-run by an operator     *)
(* after a crash, after failures, or after a second incident.              *)
(*                                                                         *)
(* One TLA+ step is the local work up to and including one durable or      *)
(* remote effect: a crash or a change made by somebody else can fall       *)
(* between any two of them, exactly where the process can be killed.       *)
(***************************************************************************)
EXTENDS Integers, Sequences, FiniteSets

CONSTANTS
  Acts,          \* the planned actions (RestorePlan.actions)
  Plan,          \* the same actions in wave order, a sequence
  Attr,          \* what the plan says of each action, see AttrType
  Idents,        \* (type stem, old ID) pairs of the snapshot
  AdditiveOnly,  \* heal mode: survivors are never modified
  SkipClaims,    \* drill mode: hardware belongs to another organization
  Faults,        \* what the remote side may do in this instance
  EnvWhen,       \* when other people change the target: see EnvMoment
  MaxThrottle,   \* _MAX_THROTTLE_ATTEMPTS (40 in the code)
  Survivors,     \* planned objects the target already holds at first
  MaxRuns,       \* bound: executions of the command
  MaxCrashes,    \* bound: crashes over all executions
  MaxEnv         \* bound: changes made by somebody else

Kinds == {"create", "configure", "claim"}

\* SameId: the object keeps the ID the snapshot records (a client-assigned
\* VLAN number, a singleton, a device).  NoId: the response carried no ID.
SameId == 0
NoId == -1
Ids == Nat
NoIdent == "no ident"

FaultKinds == {"throttle", "refuse", "duplicate", "lost", "error", "skip",
               "noid", "read"}

AttrType ==
  [kind     : Kinds,
   own      : Idents \cup {NoIdent},  \* _own_identity of a create or claim
   path     : SUBSET Idents,          \* parents its address names
   refs     : SUBSET Idents,          \* scalar and grammar references
   lists    : SUBSET Idents,          \* members of its list-valued field
   match    : SUBSET {"key", "client"},  \* natural key, client-assigned ID
   coll     : STRING,                 \* the lookup's collection
   readable : BOOLEAN,                \* a verifiably read-only lookup exists
   born     : BOOLEAN,                \* the dashboard provisions it with its parent
   shared   : BOOLEAN,                \* one object serves every network
   flag     : BOOLEAN,                \* payload carries a true is...Default flag
   drill    : {"no", "hardware", "serial"},
   fault    : {"none", "skew", "foreign"}]

ASSUME PlanAssumption ==
  /\ Plan \in Seq(Acts) \ {<<>>}
  /\ \A a \in Acts : \E i \in 1 .. Len(Plan) : Plan[i] = a
  /\ \A i, j \in 1 .. Len(Plan) : Plan[i] = Plan[j] => i = j
  /\ IsFiniteSet(Acts)

ASSUME AttrAssumption ==
  /\ Attr \in [Acts -> AttrType]
  /\ \A a \in Acts : Attr[a].kind \in {"create", "claim"} => Attr[a].own \in Idents

ASSUME ConstAssumption ==
  /\ AdditiveOnly \in BOOLEAN
  /\ SkipClaims \in BOOLEAN
  /\ Faults \subseteq FaultKinds
  /\ EnvWhen \in {"never", "down", "between"}
  /\ Survivors \subseteq Acts
  /\ MaxThrottle \in Nat \ {0}
  /\ MaxRuns \in Nat /\ MaxCrashes \in Nat /\ MaxEnv \in Nat

VARIABLES
  \* the journal file, durable (RestoreJournal)
  attempted,     \* keys whose POST was about to fire
  completed,     \* keys journaled as done
  mappings,      \* old -> new rows; the resolver is rebuilt from them
  \* the target organization
  live,          \* its objects
  nextId,        \* the next ID its server assigns
  \* the process, lost by a crash
  pc,
  phase,         \* "main", or "salvage" for the end-of-run retry
  todo,          \* the rest of this round's pending actions
  pendingLen,    \* len(pending) at the start of the round
  deferred, throttled,
  unclaimed, failedParents, skippedParents, minted,
  dropRetry, tries, probeCache, salvageRound,
  outcome,       \* which of executed, failed, skipped holds the action
  newId, fresh,  \* new_id and freshly_dispatched of the current action
  \* bounds
  runs, crashes, envs

journal == <<attempted, completed, mappings>>
target == <<live, nextId>>
rounds == <<todo, pendingLen, deferred, throttled>>
ledger == <<unclaimed, failedParents, skippedParents, minted>>
retries == <<dropRetry, tries, salvageRound>>
local == <<newId, fresh>>
bounds == <<runs, crashes, envs>>
vars == <<journal, target, pc, phase, rounds, ledger, retries, probeCache,
          outcome, local, bounds>>

-----------------------------------------------------------------------------
(* Objects of the target.  "for" names the snapshot object it is the       *)
(* counterpart of, "in" the IDs of the parents it was written under.       *)

Objects == [for : Acts, id : Ids, in : SUBSET Ids,
            body : {"snapshot", "operator", "provisioned"},
            full : BOOLEAN]   \* its list-valued field was written
Rows == [ident : Idents, ctx : SUBSET Idents, new : Ids]
Cached == [coll : STRING, in : SUBSET Ids, gone : BOOLEAN, seen : SUBSET Objects]
Outcomes == {"none", "executed", "failed", "stalled", "already restored",
             "verified alive", "uncertain", "dead parent", "drill", "refused"}

Creates(a) == Attr[a].kind = "create"
Mints(a) == Attr[a].kind \in {"create", "claim"}
Serials == {Attr[a].own : a \in {b \in Acts : Attr[b].kind = "claim"}}

\* ReferenceResolver: rows of the referenced type and ID whose recorded
\* context is contained in the referring action's own path values.
Referrer(a) == Attr[a].path \cup {Attr[a].own}
\* Mutant: any recorded counterpart will do.
TargetsAnywhere(i, a) == {r.new : r \in {m \in mappings : m.ident = i}}

Targets(i, a) ==
  {r.new : r \in {m \in mappings : m.ident = i /\ m.ctx \subseteq Referrer(a)}}
Resolves(i, a) == \E n \in Targets(i, a) : Targets(i, a) = {n}

\* resolve_scope on every path parameter: a serial addresses hardware and
\* passes through, anything this plan creates must have one counterpart.
ScopeIdents(a) == Attr[a].path \ Serials
ScopeResolves(a) == \A i \in ScopeIdents(a) : Resolves(i, a)
Scope(a) == UNION {Targets(i, a) : i \in ScopeIdents(a)}

\* Mutant: the drop round drops every member, the resolved ones as well.
ListResolvesUngranted(a) ==
  a \notin dropRetry /\ \A i \in Attr[a].lists : Resolves(i, a)

\* rewrite_references: list-valued fields may be dropped, scalar ones never.
ListResolves(a) == \A i \in Attr[a].lists : Resolves(i, a)
BodyResolves(a) ==
  /\ \A i \in Attr[a].refs : Resolves(i, a)
  /\ ListResolves(a) \/ (phase = "main" /\ a \in dropRetry)

\* What the target holds at one scope, and who is a child of what.
Holds(a, scope) == {o \in live : o.for = a /\ o.in = scope}
Under(os) ==
  {x \in live : \E o \in os :
      /\ Attr[o.for].own \in Attr[x.for].path
      /\ Creates(o.for) => o.id \in x.in}
WithDescendants(o) == LET kids == Under({o}) IN {o} \cup kids \cup Under(kids)

\* The parents the address names still exist on the server.
ScopeIsLive(a) ==
  \A i \in ScopeIdents(a), n \in Scope(a) :
    n \in Targets(i, a) =>
      \E o \in live : Attr[o.for].own = i /\ o.id = n /\ o.in \subseteq Scope(a)

-----------------------------------------------------------------------------
(* The loop's bookkeeping.                                                 *)

cur == Head(todo)

\* What follows the current action: the next one, or the end of the pass.
Advance ==
  /\ todo' = Tail(todo)
  /\ pc' = IF Len(todo) > 1 THEN (IF phase = "main" THEN "take" ELSE "send")
           ELSE (IF phase = "main" THEN "round" ELSE "finished")
  /\ newId' = NoId
  /\ fresh' = FALSE

Settle(verdict) ==
  /\ Advance
  /\ outcome' = [outcome EXCEPT ![cur] = verdict]

\* Mutant: what no parent depends on is recorded as well.
PoisonAll == failedParents' = failedParents \cup {Attr[cur].own}

Poison == failedParents' =
  IF Mints(cur) THEN failedParents \cup {Attr[cur].own} ELSE failedParents

Fail == Settle("failed") /\ Poison

\* Mutant: the mapping forgets the context it was recorded in.
RowAnywhere(a, n) == [ident |-> Attr[a].own, ctx |-> {}, new |-> n]

Row(a, n) == [ident |-> Attr[a].own, ctx |-> Attr[a].path, new |-> n]
HasMapping(a) == \E r \in mappings : r.ident = Attr[a].own

\* resolver.record + journal.record_mapping when the probe found the
\* counterpart of a create the resolver knows nothing of.
RecoverMapping(found) ==
  mappings' = IF Creates(cur) /\ found # NoId /\ ~HasMapping(cur)
              THEN mappings \cup {Row(cur, found)} ELSE mappings

-----------------------------------------------------------------------------
(* _probe_liveness and _classify_probe: a targeted read, cached per pass.  *)

\* Mutant: nobody remembers what this run recreated.
MintedIgnored(a) == FALSE

MintedAbove(a) == (Attr[a].path \ {Attr[a].own}) \cap minted # {}

Listing(a, scope) ==
  [coll |-> Attr[a].coll, in |-> scope, gone |-> ~ScopeIsLive(a),
   seen |-> {o \in live : Attr[o.for].coll = Attr[a].coll /\ o.in = scope}]

Verdict(v, n) == [verdict |-> v, found |-> n]

Classify(a, seen) ==
  LET hits == {o \in seen : o.for = a} IN
  CASE ~Creates(a) -> Verdict(IF hits # {} THEN "alive" ELSE "absent", NoId)
    [] Creates(a) /\ AdditiveOnly /\ (\E o \in hits : o.id = SameId) ->
         Verdict("alive", SameId)
    [] Creates(a) /\ "key" \in Attr[a].match /\ Cardinality(hits) = 1 ->
         Verdict("alive", (CHOOSE o \in hits : TRUE).id)
    [] Creates(a) /\ "key" \in Attr[a].match /\ Cardinality(hits) > 1 ->
         Verdict("uncertain", NoId)
    [] Creates(a) /\ "key" \in Attr[a].match /\ hits = {} -> Verdict("absent", NoId)
    [] OTHER ->
         IF AdditiveOnly THEN Verdict("absent", NoId)
         ELSE IF \E o \in hits : o.id = SameId THEN Verdict("alive", SameId)
         ELSE Verdict("uncertain", NoId)

Answer(a, listing) ==
  IF listing.gone THEN Verdict("absent", NoId) ELSE Classify(a, listing.seen)

\* Every verdict the probe may return, with the cache it leaves behind.
Probes(a) ==
  LET scope == Scope(a)
      cached == {c \in probeCache : c.coll = Attr[a].coll /\ c.in = scope}
      keep(v) == [answer |-> v, cache |-> probeCache]
      read == Listing(a, scope)
  IN CASE MintedAbove(a) -> {keep(Verdict("absent", NoId))}
       [] ~MintedAbove(a) /\ ~Attr[a].readable -> {keep(Verdict("unverifiable", NoId))}
       [] ~MintedAbove(a) /\ Attr[a].readable /\ ~ScopeResolves(a) ->
            {keep(Verdict("proceed", NoId))}
       [] OTHER ->
            IF cached # {} THEN {keep(Answer(a, c)) : c \in cached}
            ELSE {[answer |-> Answer(a, read), cache |-> probeCache \cup {read}]}
                 \cup (IF "read" \in Faults THEN {keep(Verdict("uncertain", NoId))}
                       ELSE {})

-----------------------------------------------------------------------------
(* The guards of one iteration, in the order the code applies them.        *)

Taking == pc = "take" /\ Attr[cur].fault # "skew"
DrillSkipped == SkipClaims /\ Attr[cur].drill # "no"

SkewedAddress ==
  /\ pc = "take" /\ Attr[cur].fault = "skew"
  /\ Fail
  /\ UNCHANGED <<journal, target, phase, pendingLen, deferred, throttled, unclaimed,
                 skippedParents, minted, retries, probeCache, bounds>>

SkipDrill ==
  /\ Taking /\ DrillSkipped
  /\ Settle("drill")
  /\ skippedParents' = IF Attr[cur].drill = "serial" /\ Mints(cur)
                       THEN skippedParents \cup {Attr[cur].own} ELSE skippedParents
  /\ UNCHANGED <<journal, target, phase, pendingLen, deferred, throttled, unclaimed,
                 failedParents, minted, retries, probeCache, bounds>>

\* Mutant: the journal is believed without a probe.
SkipCompletedBlindly ==
  /\ Taking /\ ~DrillSkipped /\ cur \in completed
  /\ Settle("already restored")
  /\ UNCHANGED <<journal, target, phase, pendingLen, deferred, throttled, ledger,
                 retries, probeCache, bounds>>

\* A journaled action whose object the probe does not report absent.
SkipCompleted ==
  /\ Taking /\ ~DrillSkipped /\ cur \in completed
  /\ \E p \in Probes(cur) :
       /\ p.answer.verdict # "absent"
       /\ RecoverMapping(p.answer.found)
       /\ probeCache' = p.cache
  /\ Settle("already restored")
  /\ UNCHANGED <<attempted, completed, target, phase, pendingLen, deferred, throttled,
                 ledger, retries, bounds>>

\* Mutant: nothing is retired.
RetireNothing(a) == {}
\* Mutant: what the dead object hung under is retired with it.
RetireParents(a) == {r \in mappings : Mints(a) /\ r.ident \in Referrer(a)}

\* _forget_stale_identity retires every row of the object's type and ID.
StaleRows(a) == {r \in mappings : Mints(a) /\ r.ident = Attr[a].own}

Reexecute ==
  /\ Taking /\ ~DrillSkipped /\ cur \in completed
  /\ \E p \in Probes(cur) :
       /\ p.answer.verdict = "absent"
       /\ probeCache' = p.cache
  /\ mappings' = mappings \ StaleRows(cur)
  /\ unclaimed' = IF Attr[cur].kind = "claim" THEN unclaimed \cup {Attr[cur].own}
                  ELSE unclaimed
  /\ pc' = "address"
  /\ UNCHANGED <<attempted, completed, target, phase, rounds, failedParents,
                 skippedParents, minted, retries, outcome, local, bounds>>

\* Not journaled as done, or re-executing.
Addressing ==
  \/ pc = "address"
  \/ Taking /\ ~DrillSkipped /\ cur \notin completed

Foreign == Attr[cur].fault = "foreign"
Dead == Attr[cur].path \cap failedParents # {}
\* Mutant: what hangs under a drill-skipped parent is tried.
HeldNever == FALSE

Held == Attr[cur].path \cap skippedParents # {}
\* Mutant: device writes do not wait for the claim.
WaitingNever == FALSE

Waiting == Attr[cur].kind # "claim" /\ Attr[cur].path \cap unclaimed # {}

RefuseForeign ==
  /\ Addressing /\ Foreign
  /\ Settle("failed")
  /\ UNCHANGED <<journal, target, phase, pendingLen, deferred, throttled, ledger,
                 retries, probeCache, bounds>>

SkipDead ==
  /\ Addressing /\ ~Foreign /\ Dead
  /\ Settle("dead parent")
  /\ UNCHANGED <<journal, target, phase, pendingLen, deferred, throttled, ledger,
                 retries, probeCache, bounds>>

SkipHeld ==
  /\ Addressing /\ ~Foreign /\ ~Dead /\ Held
  /\ Settle("drill")
  /\ skippedParents' = IF Mints(cur) THEN skippedParents \cup {Attr[cur].own}
                       ELSE skippedParents
  /\ UNCHANGED <<journal, target, phase, pendingLen, deferred, throttled, unclaimed,
                 failedParents, minted, retries, probeCache, bounds>>

AwaitClaim ==
  /\ Addressing /\ ~Foreign /\ ~Dead /\ ~Held /\ Waiting
  /\ Advance
  /\ deferred' = Append(deferred, cur)
  /\ UNCHANGED <<journal, target, phase, pendingLen, throttled, ledger, retries,
                 probeCache, outcome, bounds>>

Cleared == Addressing /\ ~Foreign /\ ~Dead /\ ~Held /\ ~Waiting

\* Heal only: the pre-write verification that keeps it additive.
VerifyBlocks ==
  /\ Cleared /\ AdditiveOnly
  /\ \E p \in Probes(cur) :
       /\ probeCache' = p.cache
       /\ \/ /\ p.answer.verdict = "alive"
             /\ RecoverMapping(p.answer.found)
             /\ Settle("verified alive")
             /\ UNCHANGED failedParents
          \/ /\ p.answer.verdict = "uncertain"
             /\ Settle("uncertain")
             /\ UNCHANGED <<mappings, failedParents>>
          \/ /\ p.answer.verdict = "unverifiable"
             /\ Fail
             /\ UNCHANGED mappings
  /\ UNCHANGED <<attempted, completed, target, phase, pendingLen, deferred, throttled,
                 unclaimed, skippedParents, minted, retries, bounds>>

\* Mutant: a read that failed is taken for an absence.
VerifyUncertainPasses ==
  /\ Cleared
  /\ \E p \in Probes(cur) :
       /\ p.answer.verdict \in {"absent", "proceed", "uncertain"}
       /\ probeCache' = p.cache
  /\ pc' = "lookup"
  /\ UNCHANGED <<journal, target, phase, rounds, ledger, retries, outcome, local, bounds>>

VerifyPasses ==
  /\ Cleared
  /\ \/ ~AdditiveOnly /\ UNCHANGED probeCache
     \/ /\ AdditiveOnly
        /\ \E p \in Probes(cur) :
             /\ p.answer.verdict \in {"absent", "proceed"}
             /\ probeCache' = p.cache
  /\ pc' = "lookup"
  /\ UNCHANGED <<journal, target, phase, rounds, ledger, retries, outcome, local, bounds>>

-----------------------------------------------------------------------------
(* Adoption instead of a POST: _reconcile_existing after an interrupted    *)
(* attempt, _adopt_default for an object flagged as its collection's own   *)
(* default.  Reads may fail; the create then goes ahead.                   *)

Counterparts(a) == Holds(a, Scope(a))
Visible(a) == IF Attr[a].readable /\ ScopeResolves(a) THEN Counterparts(a) ELSE {}
Sole(os) == Cardinality(os) = 1
\* Mutant: an interrupted create is simply sent again.
ReconciledNever(a) == {}

Reconciled(a) ==
  IF "key" \in Attr[a].match /\ Sole(Visible(a)) THEN Visible(a) ELSE {}
ReadsFail == "read" \in Faults

\* _align_adopted: the captured payload is PUT onto the adopted object,
\* unless healing; a refused or unresolvable PUT leaves it as it was.
AlignFails == Faults \cap {"throttle", "refuse", "error"} # {}
Align(a, os) ==
  LET resolves == (\A i \in Attr[a].refs : Resolves(i, a)) /\ ListResolves(a)
      aligned == (live \ os) \cup
                 {[o EXCEPT !.body = "snapshot", !.full = TRUE] : o \in os}
  IN live' \in (IF AdditiveOnly \/ ~resolves \/ AlignFails THEN {live} ELSE {})
               \cup (IF ~AdditiveOnly /\ resolves THEN {aligned} ELSE {})

Recover ==
  /\ pc = "lookup" /\ Creates(cur) /\ cur \in attempted
  /\ newId' \in {o.id : o \in Reconciled(cur)}
  /\ pc' = "map"
  /\ UNCHANGED <<journal, target, phase, rounds, ledger, retries, probeCache,
                 outcome, fresh, bounds>>

AdoptDefault ==
  /\ pc = "lookup" /\ Creates(cur) /\ Attr[cur].flag
  /\ cur \in attempted => Reconciled(cur) = {} \/ ReadsFail
  /\ Sole(Visible(cur))
  /\ newId' \in {o.id : o \in Visible(cur)}
  /\ Align(cur, Visible(cur))
  /\ pc' = "map"
  /\ UNCHANGED <<journal, nextId, phase, rounds, ledger, retries, probeCache,
                 outcome, fresh, bounds>>

NothingToAdopt ==
  /\ pc = "lookup"
  /\ \/ ~Creates(cur) \/ ReadsFail
     \/ /\ cur \in attempted => Reconciled(cur) = {}
        /\ Attr[cur].flag => ~Sole(Visible(cur))
  /\ pc' = "send"
  /\ UNCHANGED <<journal, target, phase, rounds, ledger, retries, probeCache,
                 outcome, local, bounds>>

-----------------------------------------------------------------------------
(* _dispatch up to the API call: references are resolved, then a create    *)
(* journals its attempt.                                                   *)

Ready(a) == ScopeResolves(a) /\ (Attr[a].kind = "claim" \/ BodyResolves(a))

\* Mutant: the attempt is not journaled before the call.
DispatchUnjournaled ==
  /\ pc = "send" /\ Ready(cur)
  /\ pc' = "call"
  /\ UNCHANGED <<journal, target, phase, rounds, ledger, retries, probeCache,
                 outcome, local, bounds>>

\* Mutant: the completion is journaled before the call.
DispatchCompleted ==
  /\ pc = "send" /\ Ready(cur)
  /\ attempted' = IF Creates(cur) THEN attempted \cup {cur} ELSE attempted
  /\ completed' = completed \cup {cur}
  /\ pc' = "call"
  /\ UNCHANGED <<mappings, target, phase, rounds, ledger, retries, probeCache,
                 outcome, local, bounds>>

Dispatch ==
  /\ pc = "send" /\ Ready(cur)
  /\ attempted' = IF Creates(cur) THEN attempted \cup {cur} ELSE attempted
  /\ pc' = "call"
  /\ UNCHANGED <<completed, mappings, target, phase, rounds, ledger, retries,
                 probeCache, outcome, local, bounds>>

Defer ==
  /\ pc = "send" /\ phase = "main" /\ ~Ready(cur) /\ cur \notin dropRetry
  /\ Advance
  /\ deferred' = Append(deferred, cur)
  /\ UNCHANGED <<journal, target, phase, pendingLen, throttled, ledger, retries,
                 probeCache, outcome, bounds>>

Unresolvable ==
  /\ pc = "send" /\ phase = "main" /\ ~Ready(cur) /\ cur \in dropRetry
  /\ Fail
  /\ UNCHANGED <<journal, target, phase, pendingLen, deferred, throttled, unclaimed,
                 skippedParents, minted, retries, probeCache, bounds>>

-----------------------------------------------------------------------------
(* What the server does with the call.                                     *)

\* A counterpart it will not let the create duplicate.
Conflicts(a) ==
  /\ Creates(a)
  /\ \/ Attr[a].match # {} /\ Counterparts(a) # {}
     \/ Attr[a].shared /\ (\E o \in live : Attr[o.for].own = Attr[a].own)
Tolerated(a) ==
  "duplicate" \in Faults /\ "client" \notin Attr[a].match /\ ~Attr[a].shared

Accepts(a) ==
  /\ ScopeIsLive(a)
  /\ Conflicts(a) => Tolerated(a)
  /\ Attr[a].kind = "claim" => Counterparts(a) = {}

\* Objects the dashboard provisions by itself inside a new one.
Born(a) ==
  {b \in Acts : Attr[b].born /\ Attr[b].path = Attr[a].path \cup {Attr[a].own}}
AssignedId(a, n) == IF Creates(a) /\ "client" \notin Attr[a].match THEN n ELSE SameId

Landed(a) ==
  LET id == AssignedId(a, nextId)
      written == [for |-> a, id |-> id, in |-> Scope(a), body |-> "snapshot",
                  full |-> ListResolves(a)]
      defaults == {[for |-> b, id |-> AssignedId(b, nextId + 1),
                    in |-> Scope(a) \cup {id}, body |-> "provisioned",
                    full |-> FALSE] : b \in Born(a)}
      kept == IF Attr[a].kind = "configure" THEN live \ Counterparts(a) ELSE live
  IN /\ live' = kept \cup {written} \cup (IF Creates(a) THEN defaults ELSE {})
     /\ nextId' = IF Creates(a) THEN nextId + 2 ELSE nextId

Accepted ==
  /\ pc = "call" /\ Accepts(cur) /\ Landed(cur)
  /\ newId' \in IF Creates(cur)
                THEN {AssignedId(cur, nextId)} \cup
                     (IF "noid" \in Faults THEN {NoId} ELSE {})
                ELSE {NoId}
  /\ fresh' = TRUE
  /\ pc' = "map"
  /\ UNCHANGED <<journal, phase, rounds, ledger, retries, probeCache, outcome, bounds>>

\* The write took effect but its answer never arrived.
LostAnswer ==
  /\ pc = "call" /\ "lost" \in Faults /\ Accepts(cur) /\ Landed(cur)
  /\ IF phase = "main" THEN Fail ELSE Advance /\ UNCHANGED <<outcome, failedParents>>
  /\ UNCHANGED <<journal, phase, pendingLen, deferred, throttled, unclaimed,
                 skippedParents, minted, retries, probeCache, bounds>>

\* _adopt_existing: a client-assigned ID is its own answer, then the
\* collection is searched, then a sibling network's mapping is taken.
SiblingMapping(a) ==
  LET news == {r.new : r \in {m \in mappings : m.ident = Attr[a].own}}
  IN IF Sole(news) THEN news ELSE {}

\* Mutant: a conflicting create keeps its snapshot ID.
AdoptConflictingUnmapped ==
  /\ pc = "call" /\ phase = "main" /\ Conflicts(cur)
  /\ newId' = SameId
  /\ pc' = "map"
  /\ UNCHANGED <<journal, target, phase, rounds, ledger, retries, probeCache,
                 outcome, fresh, bounds>>

AdoptConflicting ==
  /\ pc = "call" /\ phase = "main" /\ Conflicts(cur)
  /\ \/ /\ "client" \in Attr[cur].match
        /\ newId' = SameId
        /\ Align(cur, Counterparts(cur))
     \/ /\ "client" \notin Attr[cur].match
        /\ newId' \in {o.id : o \in Reconciled(cur)}
        /\ Align(cur, Reconciled(cur))
     \/ /\ "client" \notin Attr[cur].match
        /\ Reconciled(cur) = {} \/ ReadsFail
        /\ newId' \in SiblingMapping(cur)
        /\ UNCHANGED live
  /\ pc' = "map"
  /\ UNCHANGED <<journal, nextId, phase, rounds, ledger, retries, probeCache,
                 outcome, fresh, bounds>>

NothingAdoptable ==
  /\ "client" \notin Attr[cur].match
  /\ Reconciled(cur) = {} \/ ReadsFail
  /\ SiblingMapping(cur) = {}

\* A plain 400: eligible for the end-of-run retry.
Refused ==
  /\ pc = "call" /\ phase = "main"
  /\ "refuse" \in Faults \/ (Conflicts(cur) /\ NothingAdoptable)
  /\ Fail
  /\ salvageRound' = IF Attr[cur].kind = "claim" THEN salvageRound
                     ELSE Append(salvageRound, cur)
  /\ UNCHANGED <<journal, target, phase, pendingLen, deferred, throttled, unclaimed,
                 skippedParents, minted, dropRetry, tries, probeCache, bounds>>

\* A 400 that is a verdict: capability, template-bound, nothing writable.
SkipRefused ==
  /\ pc = "call" /\ phase = "main" /\ "skip" \in Faults
  /\ Settle("refused")
  /\ UNCHANGED <<journal, target, phase, pendingLen, deferred, throttled, ledger,
                 retries, probeCache, bounds>>

\* Mutant: a throttled action is queued again without counting.
ThrottledUncounted ==
  /\ pc = "call" /\ phase = "main" /\ "throttle" \in Faults
  /\ Advance
  /\ throttled' = Append(throttled, cur)
  /\ UNCHANGED <<journal, target, phase, pendingLen, deferred, ledger, retries,
                 probeCache, outcome, bounds>>

Throttled ==
  /\ pc = "call" /\ phase = "main" /\ "throttle" \in Faults
  /\ tries' = [tries EXCEPT ![cur] = @ + 1]
  /\ \/ tries[cur] + 1 >= MaxThrottle /\ Fail /\ UNCHANGED throttled
     \/ /\ tries[cur] + 1 < MaxThrottle
        /\ Advance
        /\ throttled' = Append(throttled, cur)
        /\ UNCHANGED <<outcome, failedParents>>
  /\ UNCHANGED <<journal, target, phase, pendingLen, deferred, unclaimed,
                 skippedParents, minted, dropRetry, salvageRound, probeCache, bounds>>

\* Anything that is neither a 400 nor a 429.
Errors(a) ==
  \/ "error" \in Faults
  \/ ~ScopeIsLive(a)
  \/ Attr[a].kind = "claim" /\ Counterparts(a) # {}

CallFailed ==
  /\ pc = "call" /\ phase = "main" /\ Errors(cur)
  /\ Fail
  /\ UNCHANGED <<journal, target, phase, pendingLen, deferred, throttled, unclaimed,
                 skippedParents, minted, retries, probeCache, bounds>>

\* The end-of-run retry failed too: the first failure stands.
SalvageStands ==
  /\ phase = "salvage"
  /\ \/ pc = "send" /\ ~Ready(cur)
     \/ /\ pc = "call"
        /\ \/ Errors(cur) \/ Conflicts(cur)
           \/ {"refuse", "skip", "throttle"} \cap Faults # {}
  /\ Advance
  /\ UNCHANGED <<journal, target, phase, pendingLen, deferred, throttled, ledger,
                 retries, probeCache, outcome, bounds>>

-----------------------------------------------------------------------------
(* _bookkeep_success: the mapping, then the completion, two journal lines. *)

RecordMapping ==
  /\ pc = "map"
  /\ mappings' = IF newId # NoId THEN mappings \cup {Row(cur, newId)} ELSE mappings
  /\ pc' = "done"
  /\ UNCHANGED <<attempted, completed, target, phase, rounds, ledger, retries,
                 probeCache, outcome, local, bounds>>

RecordDone ==
  /\ pc = "done"
  /\ completed' = completed \cup {cur}
  /\ Settle("executed")
  /\ unclaimed' = IF Attr[cur].kind = "claim" THEN unclaimed \ {Attr[cur].own}
                  ELSE unclaimed
  /\ minted' = IF fresh /\ Mints(cur) THEN minted \cup {Attr[cur].own} ELSE minted
  /\ failedParents' = IF phase = "salvage" /\ Mints(cur)
                      THEN failedParents \ {Attr[cur].own} ELSE failedParents
  /\ UNCHANGED <<attempted, mappings, target, phase, pendingLen, deferred, throttled,
                 skippedParents, retries, probeCache, bounds>>

-----------------------------------------------------------------------------
(* The end of a round.                                                     *)

Members(seq) == {seq[i] : i \in 1 .. Len(seq)}
Idle == deferred = <<>> /\ throttled = <<>>
Stalled == ~Idle /\ throttled = <<>> /\ Len(deferred) = pendingLen
NotYetDropped == Members(deferred) \ dropRetry

\* Mutant: a round that deferred something forgets what was throttled.
NextRoundForgets ==
  /\ pc = "round" /\ ~Idle
  /\ Stalled => NotYetDropped # {}
  /\ dropRetry' = IF Stalled THEN dropRetry \cup NotYetDropped ELSE dropRetry
  /\ todo' = IF deferred = <<>> THEN throttled ELSE deferred
  /\ pendingLen' = Len(todo')
  /\ deferred' = <<>> /\ throttled' = <<>>
  /\ pc' = "take"
  /\ UNCHANGED <<journal, target, phase, ledger, tries, salvageRound, probeCache,
                 outcome, local, bounds>>

NextRound ==
  /\ pc = "round" /\ ~Idle
  /\ Stalled => NotYetDropped # {}
  /\ dropRetry' = IF Stalled THEN dropRetry \cup NotYetDropped ELSE dropRetry
  /\ todo' = deferred \o throttled
  /\ pendingLen' = Len(deferred) + Len(throttled)
  /\ deferred' = <<>> /\ throttled' = <<>>
  /\ pc' = "take"
  /\ UNCHANGED <<journal, target, phase, ledger, tries, salvageRound, probeCache,
                 outcome, local, bounds>>

\* Everything settled, or the defensive terminator of the stall breaker.
EndOfRounds ==
  /\ pc = "round"
  /\ Idle \/ (Stalled /\ NotYetDropped = {})
  /\ outcome' = [a \in Acts |-> IF a \in Members(deferred) THEN "stalled"
                                ELSE outcome[a]]
  /\ IF salvageRound = <<>> THEN pc' = "finished" /\ UNCHANGED <<phase, todo>>
     ELSE pc' = "send" /\ phase' = "salvage" /\ todo' = salvageRound
  /\ UNCHANGED <<journal, target, pendingLen, deferred, throttled, ledger, retries,
                 probeCache, local, bounds>>

-----------------------------------------------------------------------------
(* The process comes and goes; the operator and other people act.          *)

Claims == {a \in Acts : Attr[a].kind = "claim"}

\* The locals of execute() as a new run builds them from the journal.
FreshLocals(position) ==
  /\ pc' = position
  /\ phase' = "main"
  /\ todo' = Plan /\ pendingLen' = Len(Plan)
  /\ deferred' = <<>> /\ throttled' = <<>>
  /\ unclaimed' = {Attr[a].own : a \in Claims \ completed}
  /\ failedParents' = {} /\ skippedParents' = {} /\ minted' = {}
  /\ dropRetry' = {} /\ tries' = [a \in Acts |-> 0]
  /\ probeCache' = {} /\ salvageRound' = <<>>
  /\ outcome' = [a \in Acts |-> "none"]
  /\ newId' = NoId /\ fresh' = FALSE

Start ==
  /\ pc \in {"down", "finished"}
  /\ runs < MaxRuns
  /\ FreshLocals("take")
  /\ runs' = runs + 1
  /\ UNCHANGED <<journal, target, crashes, envs>>

Crash ==
  /\ pc \notin {"down", "finished"}
  /\ crashes < MaxCrashes
  /\ FreshLocals("down")
  /\ crashes' = crashes + 1
  /\ UNCHANGED <<journal, target, runs, envs>>

EnvMoment ==
  \/ EnvWhen # "never" /\ pc \in {"down", "finished"}
  \/ EnvWhen = "between" /\ pc \in {"take", "round"}

\* A second incident: an object and everything under it is gone.
Incident ==
  /\ EnvMoment /\ envs < MaxEnv
  /\ \E o \in live : live' = live \ WithDescendants(o)
  /\ envs' = envs + 1
  /\ UNCHANGED <<journal, nextId, pc, phase, rounds, ledger, retries, probeCache,
                 outcome, local, runs, crashes>>

\* The devices the action addresses are claimed into the target.
HardwareIsHere(a) ==
  \A s \in Attr[a].path \cap Serials :
    \E o \in live : Attr[o.for].own = s /\ Attr[o.for].kind = "claim"

\* Where a parent's children can be put: under one live object for each part
\* of the address.
Placements(a) ==
  LET parents == {f \in [ScopeIdents(a) -> live] :
                    \A i \in ScopeIdents(a) : Attr[f[i].for].own = i}
  IN {{f[i].id : i \in ScopeIdents(a)} : f \in parents}

\* Somebody recreates an object by hand.
ByHand ==
  /\ EnvMoment /\ envs < MaxEnv
  /\ \E a \in Acts : \E scope \in Placements(a) :
       /\ Holds(a, scope) = {} /\ HardwareIsHere(a)
       /\ live' = live \cup {[for |-> a, id |-> AssignedId(a, nextId), in |-> scope,
                              body |-> "operator", full |-> TRUE]}
  /\ nextId' = nextId + 1
  /\ envs' = envs + 1
  /\ UNCHANGED <<journal, pc, phase, rounds, ledger, retries, probeCache, outcome,
                 local, runs, crashes>>

-----------------------------------------------------------------------------
Init ==
  /\ attempted = {} /\ completed = {} /\ mappings = {}
  /\ live = {[for |-> a, id |-> SameId,
              in |-> IF ScopeIdents(a) = {} THEN {} ELSE {SameId},
              body |-> "operator", full |-> TRUE] : a \in Survivors}
  /\ nextId = 1
  /\ pc = "down" /\ phase = "main"
  /\ todo = Plan /\ pendingLen = Len(Plan)
  /\ deferred = <<>> /\ throttled = <<>>
  /\ unclaimed = {Attr[a].own : a \in Claims}
  /\ failedParents = {} /\ skippedParents = {} /\ minted = {}
  /\ dropRetry = {} /\ tries = [a \in Acts |-> 0]
  /\ probeCache = {} /\ salvageRound = <<>>
  /\ outcome = [a \in Acts |-> "none"]
  /\ newId = NoId /\ fresh = FALSE
  /\ runs = 0 /\ crashes = 0 /\ envs = 0

Guard == \/ SkewedAddress \/ SkipDrill \/ SkipCompleted \/ Reexecute
         \/ RefuseForeign \/ SkipDead \/ SkipHeld \/ AwaitClaim
         \/ VerifyBlocks \/ VerifyPasses
Send == \/ Recover \/ AdoptDefault \/ NothingToAdopt
        \/ Dispatch \/ Defer \/ Unresolvable
Respond == \/ Accepted \/ LostAnswer \/ AdoptConflicting \/ Refused \/ SkipRefused
           \/ Throttled \/ CallFailed \/ SalvageStands
Settling == RecordMapping \/ RecordDone \/ NextRound \/ EndOfRounds

\* One step of the running executor; the rest happens to it.
Step == Guard \/ Send \/ Respond \/ Settling
Next == Step \/ Start \/ Crash \/ Incident \/ ByHand

\* The executor is one thread that blocks on nothing but answers and paced
\* waits, all bounded: it always takes its next step.
Spec == Init /\ [][Next]_vars
FairSpec == Spec /\ WF_vars(Step)

-----------------------------------------------------------------------------
(* Properties.                                                             *)

JournalType ==
  attempted \subseteq Acts /\ completed \subseteq Acts /\ mappings \subseteq Rows
TargetType == live \subseteq Objects /\ nextId \in Nat
ControlType ==
  /\ pc \in {"down", "take", "address", "lookup", "send", "call", "map", "done",
             "round", "finished"}
  /\ phase \in {"main", "salvage"}
  /\ newId \in Ids \cup {NoId} /\ fresh \in BOOLEAN
QueueType ==
  /\ todo \in Seq(Acts) /\ deferred \in Seq(Acts)
  /\ throttled \in Seq(Acts) /\ salvageRound \in Seq(Acts)
  /\ pendingLen \in Nat
LedgerType ==
  /\ unclaimed \subseteq Idents /\ failedParents \subseteq Idents
  /\ skippedParents \subseteq Idents /\ minted \subseteq Idents
  /\ dropRetry \subseteq Acts
  /\ tries \in [Acts -> Nat]
  /\ outcome \in [Acts -> Outcomes]
CacheType == probeCache \subseteq Cached
BoundType == runs \in 0 .. MaxRuns /\ crashes \in 0 .. MaxCrashes /\ envs \in 0 .. MaxEnv

TypeOK ==
  /\ JournalType /\ TargetType /\ ControlType /\ QueueType /\ LedgerType
  /\ CacheType /\ BoundType

\* A create that reached the target is in the journal as attempted, at every
\* instant a crash can strike: the next run looks for it before it POSTs.
\* (An adopted collection default is aligned without ever being POSTed.)
WriteAhead ==
  \A o \in live :
    Creates(o.for) /\ ~Attr[o.for].flag /\ o.body = "snapshot" => o.for \in attempted

\* However often the run is killed or its answers are lost, and although the
\* server tolerates duplicates, an object that can be looked up is made once.
NoDuplicate ==
  \A o, p \in live :
    /\ o.for = p.for /\ o.in = p.in
    /\ "key" \in Attr[o.for].match /\ Attr[o.for].readable
    => o = p

\* While nobody else touches the target, a journaled completion is backed by
\* an object that is really there: resuming may skip it.
JournalTruthful ==
  \A a \in completed :
    \E o \in live : IF Creates(a) THEN Attr[o.for].own = Attr[a].own ELSE o.for = a

\* A mapping leads to the counterpart of an object of the row's own snapshot
\* context, never to a namesake in a sibling network; only an object that
\* is one for the whole organization serves them all.
MappingStaysInScope ==
  \A r \in mappings : \A o \in live :
    /\ Attr[o.for].own = r.ident /\ o.id = r.new /\ o.id # SameId
    /\ ~Attr[o.for].shared
    => Attr[o.for].path = r.ctx

\* What a write refers to lies in the scope it is written into, or above,
\* although networks reuse each other's IDs and restore at different times.
ReferenceStaysInScope ==
  pc = "call" =>
    \A i \in Attr[cur].refs : \A o \in live :
      /\ Attr[o.for].own = i /\ {o.id} = Targets(i, cur) /\ ~Attr[o.for].shared
      => o.in \subseteq Scope(cur)

\* All the networks that record an organization-wide object map it to the
\* one counterpart the target has.
SharedOnce ==
  \A r, q \in mappings :
    r.ident = q.ident /\ (\E a \in Acts : Attr[a].own = r.ident /\ Attr[a].shared)
    => r.new = q.new

\* The resolver is never left with two answers for one object: an ambiguous
\* reference is refused on this and on every later run.
MappingsAgree ==
  \A r, q \in mappings : r.ident = q.ident /\ r.ctx = q.ctx => r = q

\* A write to a device endpoint goes out only while the device is claimed
\* into the target: before that it would reach somebody else's hardware.
DeviceWritesAfterClaim ==
  pc = "call" => HardwareIsHere(cur)

\* No action is lost between the rounds: a finished run has a verdict on each.
NothingForgotten == pc = "finished" => \A a \in Acts : outcome[a] # "none"

\* A drill never dispatches at hardware, neither a claim nor a write to a
\* device nor anything whose payload names a production serial.
DrillSparesHardware == SkipClaims /\ pc = "call" => Attr[cur].drill = "no"

\* And what hangs under a parent it skipped is a drill verdict as well, all
\* the way down (unless a parent failed), and never a failure of its own.
DrillVerdictsPropagate ==
  /\ DrillSparesHardware
  /\ pc = "finished" =>
       \A a \in Acts : Attr[a].path \cap skippedParents # {} =>
         outcome[a] \in {"drill", "dead parent"}

Finishing == pc # "finished" /\ pc' = "finished"

\* When everything the run tried worked, what the plan holds is in the
\* target again, second incidents included.
Troubles == {"failed", "stalled", "uncertain", "dead parent", "drill", "refused"}
RunRestoresAll ==
  [][Finishing /\ (\A a \in Acts : outcome'[a] \notin Troubles)
     => \A a \in Acts : \E o \in live' : o.for = a]_vars

\* A recreated parent comes with factory settings; no run reports those as
\* the restored ones.
NoFactoryDefaults ==
  [][Finishing => \A o \in live' :
       o.body = "provisioned" =>
         outcome'[o.for] \notin {"executed", "already restored", "verified alive"}]_vars

\* Second-incident cleanup retires the mappings of objects that are gone,
\* and of no others.
OnlyDeadRowsRetired ==
  [][\A r \in mappings \ mappings' :
       ~\E o \in live : Attr[o.for].own = r.ident /\ o.id = r.new
                        /\ Attr[o.for].path = r.ctx]_vars

\* Heal is additive: no step of the executor changes or removes an object
\* that survived, or that an operator put back by hand.
HealIsAdditive ==
  [][AdditiveOnly /\ envs' = envs =>
       {o \in live : o.body = "operator"} \subseteq live']_vars

\* The list-valued link between two restored objects is written from one of
\* its sides at least (the stall breaker yields one side of a mutual pair),
\* provided the responses carried the IDs it takes.
LinkSurvives ==
  [][Finishing =>
       \A o, p \in live' :
         /\ o.body = "snapshot" /\ p.body = "snapshot"
         /\ HasMapping(o.for)' /\ HasMapping(p.for)'
         /\ Attr[p.for].own \in Attr[o.for].lists
         => o.full \/ (p.full /\ Attr[o.for].own \in Attr[p.for].lists)]_vars

\* A run ends, whatever is throttled, refused, deferred or stalled.
RunEnds == (pc \notin {"down", "finished"}) ~> (pc \in {"down", "finished"})

=============================================================================

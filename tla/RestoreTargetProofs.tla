------------------------- MODULE RestoreTargetProofs -------------------------
(***************************************************************************)
(* What the executor does to the target, and what it remembers of it, for  *)
(* every plan and every fault, in eleven parts.                            *)
(*   - While nobody else changes it, the target never loses the            *)
(*     counterpart of an object it has (TargetKeeps), so a completion is   *)
(*     backed from the moment an ID is in hand (InHand).                   *)
(*   - What is on its way to a call, or is kept for the end of the run,    *)
(*     addresses claimed devices only (Unlocked); and a drill lets no      *)
(*     action at hardware past its first guard (Drilled).                  *)
(*   - An action waits in one queue, once (Once), so that each create has  *)
(*     one row at most: a row's create is completed or about to be         *)
(*     (Recorded), and what is still to be sent has none (Unmapped).       *)
(*   - Nothing was taken before its parents, and nothing that was put back *)
(*     hangs under a parent the drill skipped (HeldBack).                  *)
(*   - What a lookup could find was sent before (Known), and is looked for *)
(*     before it is sent again (Looked), so it is made once (DupInv).      *)
(*   - IDs are handed out in order (FreshIds) and lead to one network's    *)
(*     object each (IdsLead), so a mapping does not leave its network.     *)
(*   - What all networks share is there once (OneEach), and every ID the   *)
(*     executor knows for it is that one's (SharedAreThere).               *)
(*   - In one run an object stands where its address says, and an ID that  *)
(*     resolves a reference is of an object that stands there (AllPlaced). *)
(*   - What a heal finds it finds where it is, under the survivors it hangs*)
(*     under, and what it makes and is told of is new (HealInv): it writes *)
(*     to nothing that was there before.                                   *)
(*   - What is still to be written has neither object nor row (NotYet), so *)
(*     of a pair that list each other the later one finds the earlier one's*)
(*     mapping, if there is one (LinkInv).                                 *)
(*   - As long as nothing fails, a parent that was settled is known to the *)
(*     resolver (ParentsSettled), so that what hangs under it is looked    *)
(*     for where it is, and is there once it is settled (RestoredInv).     *)
(***************************************************************************)
EXTENDS RestoreRoundsProofs

-----------------------------------------------------------------------------
(* The journal tells the truth.                                            *)

Backed(a) ==
  \E o \in live : IF Creates(a) THEN Attr[o.for].own = Attr[a].own ELSE o.for = a
InHand == pc \in {"map", "done"} => Backed(cur)
TruthInv == SafeInv /\ JournalTruthful /\ InHand

TargetKeeps == \A o \in live : \E p \in live' : p.for = o.for

LEMMA BackedKept ==
  ASSUME TargetKeeps, NEW a, Backed(a)
  PROVE  Backed(a)'
BY DEF TargetKeeps, Backed, Creates

LEMMA LandedKeeps ==
  ASSUME NEW a, Landed(a)
  PROVE  TargetKeeps /\ \E o \in live' : o.for = a
<1> DEFINE written == [for |-> a, id |-> AssignedId(a, nextId), in |-> Scope(a),
                       body |-> "snapshot", full |-> ListResolves(a)]
<1>1. written \in live' /\ live \ Counterparts(a) \subseteq live'
  BY DEF Landed
<1>2. written.for = a
  OBVIOUS
<1>3. \A o \in Counterparts(a) : o.for = a
  BY DEF Counterparts, Holds
<1> HIDE DEF written
<1> QED BY <1>1, <1>2, <1>3 DEF TargetKeeps

LEMMA AlignKeeps ==
  ASSUME TargetType, NEW a, NEW os \in SUBSET live, Align(a, os)
  PROVE  TargetKeeps
<1> DEFINE pushed(o) == [o EXCEPT !.body = "snapshot", !.full = TRUE]
<1>1. live' = live \/ live' = (live \ os) \cup {pushed(o) : o \in os}
  BY DEF Align
<1>2. \A o \in os : pushed(o).for = o.for
  BY DEF TargetType, Objects
<1> HIDE DEF pushed
<1> QED BY <1>1, <1>2 DEF TargetKeeps

LEMMA SeenIsThere ==
  ASSUME NEW a
  PROVE  /\ Counterparts(a) \subseteq live /\ \A o \in Counterparts(a) : o.for = a
         /\ Visible(a) \subseteq Counterparts(a) /\ Reconciled(a) \subseteq Counterparts(a)
BY DEF Reconciled, Visible, Counterparts, Holds

\* What reaches the bookkeeping has its object in the target.
LEMMA InHandReached ==
  ASSUME SafeInv, todo # <<>>, pc' = "map",
         Recover \/ AdoptDefault \/ Accepted \/ AdoptConflicting
  PROVE  TargetKeeps /\ todo' = todo /\ completed' = completed /\ Backed(cur)'
<1>0. TargetType /\ Attr[cur] \in AttrType
  BY CurrentAction DEF SafeInv, TypeOK
<1>1. todo' = todo /\ completed' = completed
  BY DEF Recover, AdoptDefault, Accepted, AdoptConflicting, rounds, journal
<1>2. (\E o \in live : o.for = cur) => Backed(cur)
  BY DEF Backed
<1>3. TargetKeeps /\ (Backed(cur) \/ \E o \in live' : o.for = cur)
  <2>1. CASE Recover
    BY <1>2, <2>1, SeenIsThere DEF Recover, TargetKeeps, target
  <2>2. CASE AdoptDefault
    BY <1>0, <1>2, <2>2, SeenIsThere, AlignKeeps DEF AdoptDefault
  <2>3. CASE Accepted
    BY <2>3, LandedKeeps DEF Accepted
  <2>4. CASE AdoptConflicting
    <3>1. Backed(cur)
      BY <2>4, SeenIsThere DEF AdoptConflicting, Conflicts, Backed
    <3>2. \/ \E os \in {Counterparts(cur), Reconciled(cur)} : Align(cur, os)
          \/ UNCHANGED live
      BY <2>4 DEF AdoptConflicting
    <3> QED BY <1>0, <3>1, <3>2, SeenIsThere, AlignKeeps DEF TargetKeeps
  <2> QED BY <2>1, <2>2, <2>3, <2>4
<1>4. Backed(cur)'
  <2>1. CASE Backed(cur)
    <3>1. Backed(cur) => \E o \in live : IF Creates(cur) THEN Attr[o.for].own = Attr[cur].own
                                         ELSE o.for = cur
      BY DEF Backed
    <3> QED BY <1>1, <1>3, <2>1, <3>1 DEF TargetKeeps, Backed, Creates, cur
  <2>2. CASE \E o \in live' : o.for = cur
    BY <1>1, <2>2 DEF Backed, cur
  <2> QED BY <1>3, <2>1, <2>2
<1> QED BY <1>1, <1>3, <1>4

LEMMA TruthKept ==
  ASSUME TruthInv, TargetKeeps, completed' = completed,
         pc' \in {"map", "done"} => UNCHANGED todo /\ pc \in {"map", "done"}
  PROVE  JournalTruthful' /\ InHand'
<1>1. JournalTruthful'
  <2>1. \A a \in completed : Backed(a)
    BY DEF TruthInv, JournalTruthful, Backed
  <2>2. \A a \in completed : Backed(a)'
    BY <2>1, BackedKept
  <2> QED BY <2>2 DEF JournalTruthful, Backed
<1>2. InHand'
  BY DEF TruthInv, InHand, TargetKeeps, Backed, Creates, cur
<1> QED BY <1>1, <1>2

LEMMA TruthStep ==
  ASSUME EnvWhen = "never", TruthInv, [Next]_vars
  PROVE  TruthInv'
<1>0. SafeInv /\ SafeInv' /\ JournalTruthful /\ InHand
  BY StepSafe DEF TruthInv
<1>a. UNCHANGED live => TargetKeeps
  BY DEF TargetKeeps
<1> SUFFICES JournalTruthful' /\ InHand'
  BY <1>0 DEF TruthInv
<1>1. CASE Guard \/ NothingToAdopt \/ Dispatch \/ Defer \/ Unresolvable \/ Refused
           \/ SkipRefused \/ Throttled \/ CallFailed \/ SalvageStands
           \/ NextRound \/ EndOfRounds \/ Start \/ Crash \/ UNCHANGED vars
  <2>1. UNCHANGED <<live, completed>>
    BY <1>1 DEF Guard, SkewedAddress, SkipDrill, SkipCompleted, Reexecute, RefuseForeign,
       SkipDead, SkipHeld, AwaitClaim, VerifyBlocks, VerifyPasses, NothingToAdopt, Dispatch,
       Defer, Unresolvable, Refused, SkipRefused, Throttled, CallFailed, SalvageStands,
       NextRound, EndOfRounds, Start, Crash, vars, journal, target
  <2>2. pc' \in {"map", "done"} => UNCHANGED <<todo, pc>>
    BY <1>1 DEF Guard, SkewedAddress, SkipDrill, SkipCompleted, Reexecute, RefuseForeign,
       SkipDead, SkipHeld, AwaitClaim, VerifyBlocks, VerifyPasses, NothingToAdopt, Dispatch,
       Defer, Unresolvable, Refused, SkipRefused, Throttled, CallFailed, SalvageStands,
       NextRound, EndOfRounds, Start, Crash, FreshLocals, vars, rounds, Fail, Settle, Advance
  <2> QED BY <1>a, <2>1, <2>2, TruthKept
<1>2. CASE Recover \/ AdoptDefault \/ Accepted \/ AdoptConflicting
  <2>1. pc' = "map" /\ todo # <<>>
    BY <1>0, <1>2 DEF Recover, AdoptDefault, Accepted, AdoptConflicting, SafeInv, Working
  <2>2. TargetKeeps /\ todo' = todo /\ completed' = completed /\ Backed(cur)'
    BY <1>0, <1>2, <2>1, InHandReached
  <2>3. \A a \in completed' : Backed(a)'
    BY <1>0, <2>2, BackedKept DEF JournalTruthful, Backed
  <2>4. JournalTruthful'
    BY <2>3 DEF JournalTruthful, Backed
  <2> QED BY <2>2, <2>4 DEF InHand
<1>3. CASE LostAnswer
  <2>1. TargetKeeps /\ completed' = completed /\ pc' \notin {"map", "done"}
    BY <1>3, LandedKeeps DEF LostAnswer, journal, Fail, Settle, Advance
  <2> QED BY <2>1, TruthKept
<1>4. CASE RecordMapping
  <2>1. UNCHANGED <<live, completed, todo>> /\ pc \in {"map", "done"}
    BY <1>4 DEF RecordMapping, target, rounds
  <2> QED BY <1>a, <2>1, TruthKept
<1>5. CASE RecordDone
  <2>1. UNCHANGED live /\ completed' = completed \cup {cur} /\ pc' \notin {"map", "done"}
    BY <1>5 DEF RecordDone, target, Settle, Advance
  <2>2. Backed(cur) /\ \A a \in completed : Backed(a)
    BY <1>0, <1>5 DEF RecordDone, InHand, JournalTruthful, Backed
  <2>3. \A a \in completed' : Backed(a)'
    BY <1>a, <2>1, <2>2, BackedKept
  <2>4. JournalTruthful'
    BY <2>3 DEF JournalTruthful, Backed
  <2> QED BY <2>1, <2>4 DEF InHand
<1>6. CASE Incident \/ ByHand
  BY <1>6 DEF Incident, ByHand, EnvMoment
<1> QED BY <1>1, <1>2, <1>3, <1>4, <1>5, <1>6
        DEF Next, Step, Send, Respond, Settling

-----------------------------------------------------------------------------
(* A drill spares hardware.                                                *)

Spared(a) == SkipClaims => Attr[a].drill = "no"
Drilled ==
  /\ pc \in {"address", "lookup", "send", "call"} => Spared(cur)
  /\ \A a \in Members(salvageRound) : Spared(a)
  /\ phase = "salvage" =>
       pc # "round" /\ (pc # "finished" => \A a \in Members(todo) : Spared(a))
DrillInv == SafeInv /\ Drilled

LEMMA NothingSalvaged == Members(<<>>) = {}
BY EmptySeq DEF Members

LEMMA DrillAdvances ==
  ASSUME SafeInv, Drilled, Busy, Advance, phase' = phase,
         \/ salvageRound' = salvageRound
         \/ pc = "call" /\ salvageRound' = Append(salvageRound, cur)
  PROVE  Drilled'
<1>1. /\ todo \in Seq(Acts) /\ todo # <<>> /\ salvageRound \in Seq(Acts) /\ cur \in Acts
      /\ phase \in {"main", "salvage"}
  BY CurrentAction DEF SafeInv, TypeOK, QueueType, ControlType, Working, Busy, InRound
<1>2. \A a \in Members(salvageRound)' : Spared(a)
  <2>1. CASE salvageRound' = salvageRound
    BY <2>1 DEF Drilled, Members
  <2>2. CASE pc = "call" /\ salvageRound' = Append(salvageRound, cur)
    <3>1. Members(salvageRound)' = Members(Append(salvageRound, cur))
      BY <2>2 DEF Members
    <3> QED BY <1>1, <2>2, <3>1, MembersOfAppended DEF Drilled
  <2> QED BY <2>1, <2>2
<1>3. CASE phase = "main"
  BY <1>2, <1>3 DEF Advance, Drilled, Spared
<1>4. CASE phase = "salvage"
  <2>1. \A a \in Members(todo) : Spared(a)
    BY <1>4 DEF Drilled, Busy, InRound
  <2>2. Members(todo)' = Members(Tail(todo)) /\ pc' \in {"send", "finished"}
    BY <1>4 DEF Advance, Members
  <2>3. \A a \in Members(todo)' : Spared(a)
    BY <1>1, <2>1, <2>2, MembersOfRest
  <2>4. pc' = "send" => Spared(cur)'
    <3>1. SUFFICES ASSUME pc' = "send"
                   PROVE  Spared(cur)'
      OBVIOUS
    <3>2. Tail(todo) \in Seq(Acts) /\ Tail(todo) # <<>>
      BY <1>1, <1>4, <3>1, HeadTail DEF Advance
    <3>3. Head(Tail(todo)) \in Members(Tail(todo))
      BY <3>2, MembersOfRest
    <3> QED BY <1>1, <2>1, <3>3, MembersOfRest DEF Advance, cur, Spared
  <2> QED BY <1>2, <1>4, <2>2, <2>3, <2>4 DEF Drilled, Spared
<1> QED BY <1>1, <1>3, <1>4

LEMMA DrillStep ==
  ASSUME SafeInv, Drilled, [Next]_vars
  PROVE  Drilled'
<1> USE DEF rounds, retries
<1>1. CASE UNCHANGED <<phase, todo, salvageRound>> /\ Spared(cur) /\ pc' # "round"
           /\ pc # "finished"
  BY <1>1 DEF Drilled, Spared, Members, cur
<1>2. CASE UNCHANGED <<phase, todo, salvageRound>> /\ (pc' = pc \/ pc' \in {"map", "done"})
           /\ (pc = "finished" => pc' = pc)
  BY <1>2 DEF Drilled, Spared, Members, cur
<1>3. CASE Reexecute \/ VerifyPasses \/ NothingToAdopt \/ Dispatch
  <2>1. UNCHANGED <<phase, todo, salvageRound>> /\ pc' # "round"
    BY <1>3 DEF Reexecute, VerifyPasses, NothingToAdopt, Dispatch
  <2>2. pc \in {"address", "lookup", "send"} \/ (pc = "take" /\ ~DrillSkipped)
    BY <1>3 DEF Reexecute, VerifyPasses, NothingToAdopt, Dispatch, Cleared, Addressing,
                Taking
  <2> QED BY <1>1, <2>1, <2>2 DEF Drilled, Spared, DrillSkipped
<1>4. CASE Recover \/ AdoptDefault \/ Accepted \/ AdoptConflicting \/ RecordMapping
  BY <1>2, <1>4 DEF Recover, AdoptDefault, Accepted, AdoptConflicting, RecordMapping
<1>5. CASE SkewedAddress \/ SkipDrill \/ SkipCompleted \/ RefuseForeign \/ SkipDead
           \/ SkipHeld \/ AwaitClaim \/ VerifyBlocks \/ Defer \/ Unresolvable
           \/ LostAnswer \/ Refused \/ SkipRefused \/ Throttled \/ CallFailed
           \/ SalvageStands \/ RecordDone
  <2>1. Busy /\ Advance /\ phase' = phase
    BY <1>5 DEF SkewedAddress, SkipDrill, SkipCompleted, RefuseForeign, SkipDead, SkipHeld,
       AwaitClaim, VerifyBlocks, Defer, Unresolvable, LostAnswer, Refused, SkipRefused,
       Throttled, CallFailed, SalvageStands, RecordDone, Taking, Addressing, Cleared,
       Fail, Settle, Busy, InRound
  <2>2. \/ salvageRound' = salvageRound
        \/ pc = "call" /\ salvageRound' = Append(salvageRound, cur)
    BY <1>5 DEF SkewedAddress, SkipDrill, SkipCompleted, RefuseForeign, SkipDead, SkipHeld,
       AwaitClaim, VerifyBlocks, Defer, Unresolvable, LostAnswer, Refused, SkipRefused,
       Throttled, CallFailed, SalvageStands, RecordDone
  <2> QED BY <2>1, <2>2, DrillAdvances
<1>6. CASE NextRound
  BY <1>6 DEF NextRound, Drilled, Spared, Members
<1>7. CASE EndOfRounds
  <2>1. salvageRound' = salvageRound /\ salvageRound \in Seq(Acts)
    BY <1>7 DEF EndOfRounds, SafeInv, TypeOK, QueueType
  <2>2. \A a \in Members(salvageRound) : Spared(a)
    BY DEF Drilled
  <2>3. CASE salvageRound = <<>>
    BY <1>7, <2>1, <2>2, <2>3 DEF EndOfRounds, Drilled, Spared, Members
  <2>4. CASE salvageRound # <<>>
    <3>1. pc' = "send" /\ todo' = salvageRound
      BY <1>7, <2>4 DEF EndOfRounds
    <3>2. Spared(Head(salvageRound))
      BY <2>1, <2>2, <2>4, MembersOfRest
    <3> QED BY <2>1, <2>2, <3>1, <3>2 DEF Drilled, Spared, Members, cur
  <2> QED BY <2>3, <2>4
<1>8. CASE Start \/ Crash
  <2>1. pc' \in {"take", "down"} /\ phase' = "main" /\ salvageRound' = <<>>
    BY <1>8, Zenon DEF Start, Crash, FreshLocals
  <2>2. Members(salvageRound)' = {}
    BY <2>1, NothingSalvaged DEF Members
  <2> QED BY <2>1, <2>2 DEF Drilled
<1>9. CASE Incident \/ ByHand \/ UNCHANGED vars
  BY <1>2, <1>9 DEF Incident, ByHand, vars
<1> QED BY <1>3, <1>4, <1>5, <1>6, <1>7, <1>8, <1>9
        DEF Next, Step, Guard, Send, Respond, Settling

-----------------------------------------------------------------------------
(* A device is written to only where it is claimed.                        *)

\* While nobody else changes the target, no step loses an object of it.
LEMMA NothingIsLost ==
  ASSUME EnvWhen = "never", SafeInv, [Next]_vars
  PROVE  TargetKeeps
<1>a. UNCHANGED live => TargetKeeps
  BY DEF TargetKeeps
<1>1. CASE Guard \/ NothingToAdopt \/ Dispatch \/ Defer \/ Unresolvable \/ Refused
           \/ SkipRefused \/ Throttled \/ CallFailed \/ SalvageStands
           \/ Settling \/ Start \/ Crash \/ UNCHANGED vars
  <2>1. UNCHANGED live
    BY <1>1 DEF Guard, SkewedAddress, SkipDrill, SkipCompleted, Reexecute, RefuseForeign,
       SkipDead, SkipHeld, AwaitClaim, VerifyBlocks, VerifyPasses, NothingToAdopt, Dispatch,
       Defer, Unresolvable, Refused, SkipRefused, Throttled, CallFailed, SalvageStands,
       Settling, RecordMapping, RecordDone, NextRound, EndOfRounds, Start, Crash, vars, target
  <2> QED BY <1>a, <2>1
<1>2. CASE Recover \/ AdoptDefault \/ Accepted \/ AdoptConflicting
  <2>1. pc' = "map" /\ todo # <<>>
    BY <1>2 DEF Recover, AdoptDefault, Accepted, AdoptConflicting, SafeInv, Working
  <2> QED BY <1>2, <2>1, InHandReached
<1>3. CASE LostAnswer
  BY <1>3, LandedKeeps DEF LostAnswer
<1>4. CASE Incident \/ ByHand
  BY <1>4 DEF Incident, ByHand, EnvMoment
<1> QED BY <1>1, <1>2, <1>3, <1>4 DEF Next, Step, Send, Respond

\* Where the executor is in the end-of-run retry, and what it takes up: an
\* action comes to a lookup or a call through the last guard, or from the
\* refused ones, which went to a call before.
Writing == {"lookup", "send", "call"}
Salvaging == phase = "salvage" => pc \in {"send", "call", "map", "done", "finished"}

TakesUp ==
  /\ Members(salvageRound') \subseteq Members(salvageRound)
                              \cup (IF pc = "call" THEN {cur} ELSE {})
  /\ phase' = "salvage" /\ pc' # "finished" =>
       Members(todo') \subseteq IF phase = "salvage" THEN Members(todo)
                                ELSE Members(salvageRound)
  /\ phase' = "salvage" /\ pc' # "finished" /\ phase = "salvage" => pc # "finished"
  /\ pc' \in Writing =>
       \/ cur' = cur /\ (pc \in Writing \/ Cleared)
       \/ phase' = "salvage" /\ cur' \in Members(todo')

LEMMA AdvancesTakeUp ==
  ASSUME SafeInv, Salvaging, Busy, Advance, phase' = phase,
         \/ salvageRound' = salvageRound
         \/ pc = "call" /\ salvageRound' = Append(salvageRound, cur)
  PROVE  Salvaging' /\ TakesUp
<1>1. /\ todo \in Seq(Acts) /\ todo # <<>> /\ salvageRound \in Seq(Acts) /\ cur \in Acts
      /\ phase \in {"main", "salvage"}
  BY CurrentAction DEF SafeInv, TypeOK, QueueType, ControlType, Working, Busy, InRound
<1>2. Members(salvageRound') \subseteq Members(salvageRound)
                              \cup (IF pc = "call" THEN {cur} ELSE {})
  BY <1>1, MembersOfAppended
<1>3. CASE phase = "main"
  BY <1>2, <1>3 DEF Advance, TakesUp, Salvaging, Writing
<1>4. CASE phase = "salvage"
  <2>1. Members(todo') \subseteq Members(todo) /\ pc' \in {"send", "finished"}
    BY <1>1, <1>4, MembersOfRest DEF Advance
  <2>2. pc' = "send" => cur' \in Members(todo')
    <3>1. SUFFICES ASSUME pc' = "send"
                   PROVE  cur' \in Members(todo')
      OBVIOUS
    <3>2. Tail(todo) \in Seq(Acts) /\ Tail(todo) # <<>>
      BY <1>1, <1>4, <3>1, HeadTail DEF Advance
    <3>3. Head(Tail(todo)) \in Members(Tail(todo))
      BY <3>2, MembersOfRest
    <3> QED BY <3>3 DEF Advance, cur
  <2> QED BY <1>2, <1>4, <2>1, <2>2 DEF TakesUp, Salvaging, Writing, Busy, InRound
<1> QED BY <1>1, <1>3, <1>4

LEMMA StepsTakeUp ==
  ASSUME SafeInv, Salvaging, [Next]_vars
  PROVE  Salvaging' /\ TakesUp
<1> USE DEF rounds, retries
<1>1. CASE Reexecute \/ VerifyPasses \/ Recover \/ AdoptDefault \/ NothingToAdopt \/ Dispatch
           \/ Accepted \/ AdoptConflicting \/ RecordMapping
  <2>1. UNCHANGED <<phase, todo, salvageRound>> /\ cur' = cur
    BY <1>1 DEF Reexecute, VerifyPasses, Recover, AdoptDefault, NothingToAdopt, Dispatch,
       Accepted, AdoptConflicting, RecordMapping, cur
  <2>2. \/ pc' \in {"address", "map", "done"}
        \/ pc' \in Writing /\ (pc \in Writing \/ Cleared)
    BY <1>1 DEF Reexecute, VerifyPasses, Recover, AdoptDefault, NothingToAdopt, Dispatch,
       Accepted, AdoptConflicting, RecordMapping, Writing
  <2>3. pc \in {"take", "address", "lookup", "send", "call", "map"}
    BY <1>1 DEF Reexecute, VerifyPasses, Recover, AdoptDefault, NothingToAdopt, Dispatch,
       Accepted, AdoptConflicting, RecordMapping, Taking, Cleared, Addressing
  <2>4. phase = "salvage" => pc' \in {"send", "call", "map", "done", "finished"}
    BY <1>1, <2>3 DEF Reexecute, VerifyPasses, Recover, AdoptDefault, NothingToAdopt, Dispatch,
       Accepted, AdoptConflicting, RecordMapping, Taking, Cleared, Addressing, Salvaging
  <2> QED BY <2>1, <2>2, <2>3, <2>4 DEF TakesUp, Salvaging, Writing
<1>2. CASE SkewedAddress \/ SkipDrill \/ SkipCompleted \/ RefuseForeign \/ SkipDead
           \/ SkipHeld \/ AwaitClaim \/ VerifyBlocks \/ Defer \/ Unresolvable
           \/ LostAnswer \/ Refused \/ SkipRefused \/ Throttled \/ CallFailed
           \/ SalvageStands \/ RecordDone
  <2>1. Busy /\ Advance /\ phase' = phase
    BY <1>2 DEF SkewedAddress, SkipDrill, SkipCompleted, RefuseForeign, SkipDead, SkipHeld,
       AwaitClaim, VerifyBlocks, Defer, Unresolvable, LostAnswer, Refused, SkipRefused,
       Throttled, CallFailed, SalvageStands, RecordDone, Taking, Addressing, Cleared,
       Fail, Settle, Busy, InRound
  <2>2. \/ salvageRound' = salvageRound
        \/ pc = "call" /\ salvageRound' = Append(salvageRound, cur)
    BY <1>2 DEF SkewedAddress, SkipDrill, SkipCompleted, RefuseForeign, SkipDead, SkipHeld,
       AwaitClaim, VerifyBlocks, Defer, Unresolvable, LostAnswer, Refused, SkipRefused,
       Throttled, CallFailed, SalvageStands, RecordDone
  <2> QED BY <2>1, <2>2, AdvancesTakeUp
<1>3. CASE NextRound
  BY <1>3 DEF NextRound, TakesUp, Salvaging, Writing
<1>4. CASE EndOfRounds
  <2>1. salvageRound' = salvageRound /\ salvageRound \in Seq(Acts) /\ pc = "round"
    BY <1>4 DEF EndOfRounds, SafeInv, TypeOK, QueueType
  <2>2. CASE salvageRound = <<>>
    BY <1>4, <2>1, <2>2 DEF EndOfRounds, TakesUp, Salvaging, Writing
  <2>3. CASE salvageRound # <<>>
    <3>1. pc' = "send" /\ todo' = salvageRound /\ phase' = "salvage"
      BY <1>4, <2>3 DEF EndOfRounds
    <3>2. Head(salvageRound) \in Members(salvageRound)
      BY <2>1, <2>3, MembersOfRest
    <3>3. phase # "salvage"
      BY <2>1 DEF Salvaging
    <3> QED BY <2>1, <3>1, <3>2, <3>3 DEF TakesUp, Salvaging, cur
  <2> QED BY <2>2, <2>3
<1>5. CASE Start \/ Crash
  <2>1. pc' \in {"take", "down"} /\ phase' = "main" /\ salvageRound' = <<>>
    BY <1>5, Zenon DEF Start, Crash, FreshLocals
  <2> QED BY <2>1, NothingSalvaged DEF TakesUp, Salvaging, Writing
<1>6. CASE Incident \/ ByHand \/ UNCHANGED vars
  <2>1. UNCHANGED <<pc, phase, todo, salvageRound>> /\ cur' = cur
    BY <1>6 DEF Incident, ByHand, vars, cur
  <2> QED BY <2>1 DEF TakesUp, Salvaging, Writing
<1> QED BY <1>1, <1>2, <1>3, <1>4, <1>5, <1>6
        DEF Next, Step, Guard, Send, Respond, Settling

ClaimedIn(s) == \E o \in live : Attr[o.for].own = s /\ Attr[o.for].kind = "claim"

\* What is not waited for is claimed; and what was let past the wait for its
\* devices has them, at the end of the run as well.
Unlocked ==
  /\ \A s \in Serials \ unclaimed : ClaimedIn(s)
  /\ pc \in Writing => HardwareIsHere(cur)
  /\ \A a \in Members(salvageRound) : HardwareIsHere(a)
  /\ phase = "salvage" /\ pc # "finished" => \A a \in Members(todo) : HardwareIsHere(a)
DeviceInv == TruthInv /\ Salvaging /\ Unlocked

ClaimsStandAlone == \A a \in Acts : Attr[a].kind = "claim" => Attr[a].path \cap Serials = {}

LEMMA StaysClaimed ==
  ASSUME TargetKeeps, NEW s, ClaimedIn(s)
  PROVE  ClaimedIn(s)'
BY DEF TargetKeeps, ClaimedIn

LEMMA StaysHere ==
  ASSUME TargetKeeps, NEW a, HardwareIsHere(a)
  PROVE  HardwareIsHere(a)'
<1>1. \A s \in Attr[a].path \cap Serials : ClaimedIn(s)
  BY DEF HardwareIsHere, ClaimedIn
<1>2. \A s \in Attr[a].path \cap Serials : ClaimedIn(s)'
  BY <1>1, StaysClaimed
<1> QED BY <1>2 DEF HardwareIsHere, ClaimedIn

\* A journaled claim is in the target (JournalTruthful), so a run waits for
\* every device whose claim is not.
LEMMA WaitedFor ==
  ASSUME EnvWhen = "never", TruthInv, [Next]_vars, TargetKeeps,
         \A s \in Serials \ unclaimed : ClaimedIn(s)
  PROVE  \A s \in Serials \ unclaimed' : ClaimedIn(s)'
<1> SUFFICES ASSUME NEW s \in Serials, s \notin unclaimed'
             PROVE  ClaimedIn(s)
  BY StaysClaimed
<1>1. CASE s \notin unclaimed
  BY <1>1
<1>2. CASE RecordDone /\ Attr[cur].kind = "claim" /\ s = Attr[cur].own
  <2>1. \E o \in live : o.for = cur
    BY <1>2 DEF RecordDone, TruthInv, InHand, Backed, Creates
  <2> QED BY <1>2, <2>1 DEF ClaimedIn
<1>3. CASE Start \/ Crash
  <2>1. unclaimed' = {Attr[a].own : a \in Claims \ completed}
    BY <1>3, Zenon DEF Start, Crash, FreshLocals
  <2>2. PICK a \in Acts : Attr[a].kind = "claim" /\ Attr[a].own = s
    BY DEF Serials
  <2>3. a \in completed
    BY <2>1, <2>2 DEF Claims
  <2>4. \E o \in live : o.for = a
    BY <2>2, <2>3 DEF TruthInv, JournalTruthful, Creates
  <2> QED BY <2>2, <2>4 DEF ClaimedIn
<1>4. CASE ~(Start \/ Crash) /\ s \in unclaimed
  <2>1. unclaimed' = unclaimed \/ (Reexecute /\ unclaimed \subseteq unclaimed') \/ RecordDone
    BY <1>4 DEF Next, Step, Guard, Send, Respond, Settling, SkewedAddress, SkipDrill,
       SkipCompleted, Reexecute, RefuseForeign, SkipDead, SkipHeld, AwaitClaim, VerifyBlocks,
       VerifyPasses, Recover, AdoptDefault, NothingToAdopt, Dispatch, Defer, Unresolvable,
       Accepted, LostAnswer, AdoptConflicting, Refused, SkipRefused, Throttled, CallFailed,
       SalvageStands, RecordMapping, NextRound, EndOfRounds, Incident, ByHand, vars, ledger
  <2>2. RecordDone
    BY <1>4, <2>1
  <2> QED BY <1>2, <1>4, <2>2 DEF RecordDone
<1> QED BY <1>1, <1>3, <1>4

LEMMA UnlockedStep ==
  ASSUME EnvWhen = "never", ClaimsStandAlone, DeviceInv, [Next]_vars
  PROVE  DeviceInv'
<1>0. /\ TruthInv' /\ TargetKeeps /\ Salvaging' /\ TakesUp /\ TruthInv /\ Unlocked
      /\ Salvaging
  BY TruthStep, NothingIsLost, StepsTakeUp DEF DeviceInv, TruthInv
<1>1. \A s \in Serials \ unclaimed' : ClaimedIn(s)'
  BY <1>0, WaitedFor DEF Unlocked
<1>2. \A a \in Members(salvageRound') : HardwareIsHere(a)
  BY <1>0 DEF TakesUp, Unlocked, Writing
<1>3. phase' = "salvage" /\ pc' # "finished" => \A a \in Members(todo') : HardwareIsHere(a)
  BY <1>0 DEF TakesUp, Unlocked
<1>4. pc' \in Writing => HardwareIsHere(cur')
  <2>1. CASE cur' = cur /\ pc \in Writing
    BY <1>0, <2>1 DEF Unlocked
  <2>2. CASE cur' = cur /\ Cleared
    <3>1. Attr[cur].kind = "claim" \/ Attr[cur].path \cap unclaimed = {}
      BY <2>2 DEF Cleared, Waiting
    <3>2. todo # <<>>
      BY <1>0, <2>2 DEF TruthInv, SafeInv, Working, Cleared, Addressing, Taking
    <3>3. cur \in Acts
      BY <1>0, <3>2, CurrentAction DEF TruthInv
    <3>4. HardwareIsHere(cur)
      BY <1>0, <3>1, <3>3 DEF ClaimsStandAlone, Unlocked, HardwareIsHere, ClaimedIn
    <3> QED BY <2>2, <3>4
  <2>3. CASE phase' = "salvage" /\ cur' \in Members(todo')
    BY <1>0, <1>3, <2>3 DEF Writing
  <2> QED BY <1>0, <2>1, <2>2, <2>3 DEF TakesUp
<1>5. Unlocked'
  <2>1. \A a \in Members(salvageRound') : HardwareIsHere(a)'
    BY <1>0, <1>2, StaysHere
  <2>2. phase' = "salvage" /\ pc' # "finished" =>
          \A a \in Members(todo') : HardwareIsHere(a)'
    BY <1>0, <1>3, StaysHere
  <2>3. pc' \in Writing => HardwareIsHere(cur)'
    <3>1. ASSUME pc' \in Writing, NEW a, a = cur'
          PROVE  HardwareIsHere(a)'
      BY <1>0, <1>4, <3>1, StaysHere
    <3> QED BY <3>1 DEF HardwareIsHere, cur
  <2> QED BY <1>1, <2>1, <2>2, <2>3 DEF Unlocked, Members
<1> QED BY <1>0, <1>5 DEF DeviceInv

-----------------------------------------------------------------------------
(* An action waits in one place, once.                                     *)

Distinct(s) == \A i, j \in 1 .. Len(s) : s[i] = s[j] => i = j
Apart(s, t) == Members(s) \cap Members(t) = {}
Once ==
  /\ Distinct(todo) /\ Distinct(deferred) /\ Distinct(throttled) /\ Distinct(salvageRound)
  /\ phase = "main" =>
       /\ Apart(todo, deferred) /\ Apart(todo, throttled) /\ Apart(todo, salvageRound)
       /\ Apart(deferred, throttled) /\ Apart(deferred, salvageRound)
       /\ Apart(throttled, salvageRound)
OnceInv == SafeInv /\ Salvaging /\ Once

LEMMA DistinctRest ==
  ASSUME NEW s \in Seq(Acts), s # <<>>, Distinct(s)
  PROVE  /\ Distinct(Tail(s)) /\ Head(s) \notin Members(Tail(s))
         /\ Members(Tail(s)) \subseteq Members(s) /\ Head(s) \in Members(s)
<1>1. /\ Len(s) \in Nat /\ Len(s) > 0 /\ Head(s) = s[1] /\ Len(Tail(s)) = Len(s) - 1
      /\ \A i \in 1 .. Len(s) - 1 : Tail(s)[i] = s[i + 1]
  BY HeadTailProperties, LenProperties
<1>2. \A i \in 1 .. Len(Tail(s)) : i + 1 \in 1 .. Len(s) /\ i + 1 # 1
  BY <1>1
<1>3. Distinct(Tail(s))
  BY <1>1, <1>2 DEF Distinct
<1>4. Head(s) \notin Members(Tail(s))
  BY <1>1, <1>2 DEF Distinct, Members
<1> QED BY <1>3, <1>4, MembersOfRest

LEMMA DistinctAppended ==
  ASSUME NEW s \in Seq(Acts), NEW a \in Acts, Distinct(s), a \notin Members(s)
  PROVE  Distinct(Append(s, a))
<1>1. /\ Len(s) \in Nat /\ Len(Append(s, a)) = Len(s) + 1
      /\ \A i \in 1 .. Len(s) : Append(s, a)[i] = s[i]
      /\ Append(s, a)[Len(s) + 1] = a
  BY AppendProperties, LenProperties
<1>2. ASSUME NEW i \in 1 .. Len(s) + 1, NEW j \in 1 .. Len(s) + 1,
             Append(s, a)[i] = Append(s, a)[j]
      PROVE  i = j
  <2>1. CASE i \in 1 .. Len(s) /\ j \in 1 .. Len(s)
    BY <1>1, <1>2, <2>1 DEF Distinct
  <2>2. CASE i = Len(s) + 1 \/ j = Len(s) + 1
    <3>1. \A k \in 1 .. Len(s) : s[k] # a
      BY DEF Members
    <3> QED BY <1>1, <1>2, <2>2, <3>1
  <2> QED BY <1>1, <2>1, <2>2
<1> QED BY <1>1, <1>2 DEF Distinct

LEMMA DistinctBoth ==
  ASSUME NEW s \in Seq(Acts), NEW t \in Seq(Acts), Distinct(s), Distinct(t), Apart(s, t)
  PROVE  Distinct(s \o t) /\ Members(s \o t) \subseteq Members(s) \cup Members(t)
<1>1. /\ Len(s) \in Nat /\ Len(t) \in Nat /\ Len(s \o t) = Len(s) + Len(t)
      /\ \A i \in 1 .. Len(s) + Len(t) :
           (s \o t)[i] = IF i <= Len(s) THEN s[i] ELSE t[i - Len(s)]
  BY ConcatProperties, LenProperties
<1>2. ASSUME NEW i \in 1 .. Len(s) + Len(t)
      PROVE  \/ i \in 1 .. Len(s) /\ (s \o t)[i] = s[i]
             \/ i - Len(s) \in 1 .. Len(t) /\ (s \o t)[i] = t[i - Len(s)]
  BY <1>1
<1>3. \A i \in 1 .. Len(s), j \in 1 .. Len(t) : s[i] # t[j]
  BY DEF Apart, Members
<1>4. ASSUME NEW i \in 1 .. Len(s) + Len(t), NEW j \in 1 .. Len(s) + Len(t),
             (s \o t)[i] = (s \o t)[j]
      PROVE  i = j
  <2>1. CASE i \in 1 .. Len(s) /\ (s \o t)[i] = s[i]
    <3>1. j \in 1 .. Len(s) /\ (s \o t)[j] = s[j]
      BY <1>2, <1>3, <1>4, <2>1
    <3> QED BY <1>4, <2>1, <3>1 DEF Distinct
  <2>2. CASE i - Len(s) \in 1 .. Len(t) /\ (s \o t)[i] = t[i - Len(s)]
    <3>1. j - Len(s) \in 1 .. Len(t) /\ (s \o t)[j] = t[j - Len(s)]
      BY <1>2, <1>3, <1>4, <2>2
    <3>2. i - Len(s) = j - Len(s)
      BY <1>4, <2>2, <3>1 DEF Distinct
    <3> QED BY <1>1, <3>2
  <2> QED BY <1>2, <2>1, <2>2
<1> QED BY <1>1, <1>2, <1>4 DEF Distinct, Members

LEMMA NothingWaits == Distinct(<<>>) /\ \A s : Apart(<<>>, s) /\ Apart(s, <<>>)
BY EmptySeq, NothingSalvaged DEF Distinct, Apart

LEMMA OnceNext ==
  ASSUME Distinct(todo'), Distinct(deferred'), Distinct(throttled'), Distinct(salvageRound'),
         phase' = "main" =>
           /\ Apart(todo', deferred') /\ Apart(todo', throttled') /\ Apart(todo', salvageRound')
           /\ Apart(deferred', throttled') /\ Apart(deferred', salvageRound')
           /\ Apart(throttled', salvageRound')
  PROVE  Once'
<1>1. Distinct(todo)' /\ Distinct(deferred)' /\ Distinct(throttled)' /\ Distinct(salvageRound)'
  BY DEF Distinct
<1>2. phase' = "main" =>
        /\ Apart(todo, deferred)' /\ Apart(todo, throttled)' /\ Apart(todo, salvageRound)'
        /\ Apart(deferred, throttled)' /\ Apart(deferred, salvageRound)'
        /\ Apart(throttled, salvageRound)'
  BY DEF Apart, Members
<1> QED BY <1>1, <1>2 DEF Once

\* One queue at most takes the action that leaves the round.
PutsOnce ==
  \/ UNCHANGED <<deferred, throttled, salvageRound>>
  \/ /\ phase = "main"
     /\ \/ deferred' = Append(deferred, cur) /\ UNCHANGED <<throttled, salvageRound>>
        \/ throttled' = Append(throttled, cur) /\ UNCHANGED <<deferred, salvageRound>>
        \/ salvageRound' = Append(salvageRound, cur) /\ UNCHANGED <<deferred, throttled>>

LEMMA OnceAdvances ==
  ASSUME OnceInv, todo # <<>>, Advance, phase' = phase, PutsOnce
  PROVE  Once'
<1>1. /\ todo \in Seq(Acts) /\ deferred \in Seq(Acts) /\ throttled \in Seq(Acts)
      /\ salvageRound \in Seq(Acts) /\ cur \in Acts
  BY CurrentAction DEF OnceInv, SafeInv, TypeOK, QueueType
<1>2. todo' = Tail(todo)
  BY DEF Advance
<1>3. /\ Distinct(todo') /\ cur \notin Members(todo') /\ Members(todo') \subseteq Members(todo)
      /\ cur \in Members(todo)
  BY <1>1, <1>2, DistinctRest DEF OnceInv, Once, cur
<1>4. CASE UNCHANGED <<deferred, throttled, salvageRound>>
  <2>1. phase = "main" => /\ Apart(todo', deferred) /\ Apart(todo', throttled)
                          /\ Apart(todo', salvageRound)
    BY <1>3 DEF OnceInv, Once, Apart
  <2> QED BY <1>3, <1>4, <2>1, OnceNext DEF OnceInv, Once
<1>5. ASSUME phase = "main"
      PROVE  /\ Distinct(Append(deferred, cur)) /\ Distinct(Append(throttled, cur))
             /\ Distinct(Append(salvageRound, cur))
             /\ Members(Append(deferred, cur)) = Members(deferred) \cup {cur}
             /\ Members(Append(throttled, cur)) = Members(throttled) \cup {cur}
             /\ Members(Append(salvageRound, cur)) = Members(salvageRound) \cup {cur}
  BY <1>1, <1>3, <1>5, MembersOfAppended, DistinctAppended DEF OnceInv, Once, Apart
<1>6. CASE phase = "main" /\ ~UNCHANGED <<deferred, throttled, salvageRound>>
  <2>1. \A q \in {deferred, throttled, salvageRound} :
          Distinct(q) /\ Apart(todo, q) /\ Apart(todo', q)
    BY <1>3, <1>6 DEF OnceInv, Once, Apart
  <2>2. Apart(deferred, throttled) /\ Apart(deferred, salvageRound)
        /\ Apart(throttled, salvageRound)
    BY <1>6 DEF OnceInv, Once
  <2>3. CASE deferred' = Append(deferred, cur) /\ UNCHANGED <<throttled, salvageRound>>
    <3>1. /\ Apart(todo', deferred') /\ Apart(todo', throttled') /\ Apart(todo', salvageRound')
          /\ Apart(deferred', throttled') /\ Apart(deferred', salvageRound')
          /\ Apart(throttled', salvageRound')
      BY <1>3, <1>5, <1>6, <2>1, <2>2, <2>3 DEF Apart
    <3> QED BY <1>3, <1>5, <1>6, <2>1, <2>3, <3>1, OnceNext
  <2>4. CASE throttled' = Append(throttled, cur) /\ UNCHANGED <<deferred, salvageRound>>
    <3>1. /\ Apart(todo', deferred') /\ Apart(todo', throttled') /\ Apart(todo', salvageRound')
          /\ Apart(deferred', throttled') /\ Apart(deferred', salvageRound')
          /\ Apart(throttled', salvageRound')
      BY <1>3, <1>5, <1>6, <2>1, <2>2, <2>4 DEF Apart
    <3> QED BY <1>3, <1>5, <1>6, <2>1, <2>4, <3>1, OnceNext
  <2>5. CASE salvageRound' = Append(salvageRound, cur) /\ UNCHANGED <<deferred, throttled>>
    <3>1. /\ Apart(todo', deferred') /\ Apart(todo', throttled') /\ Apart(todo', salvageRound')
          /\ Apart(deferred', throttled') /\ Apart(deferred', salvageRound')
          /\ Apart(throttled', salvageRound')
      BY <1>3, <1>5, <1>6, <2>1, <2>2, <2>5 DEF Apart
    <3> QED BY <1>3, <1>5, <1>6, <2>1, <2>5, <3>1, OnceNext
  <2> QED BY <1>6, <2>3, <2>4, <2>5 DEF PutsOnce
<1> QED BY <1>4, <1>6 DEF PutsOnce

LEMMA OnceStep ==
  ASSUME OnceInv, [Next]_vars
  PROVE  OnceInv'
<1>0. SafeInv /\ SafeInv' /\ Salvaging /\ Salvaging' /\ Once
  BY StepSafe, StepsTakeUp DEF OnceInv
<1> SUFFICES Once'
  BY <1>0 DEF OnceInv
<1> USE DEF rounds, retries
<1>1. CASE Reexecute \/ VerifyPasses \/ Recover \/ AdoptDefault \/ NothingToAdopt \/ Dispatch
           \/ Accepted \/ AdoptConflicting \/ RecordMapping \/ Incident \/ ByHand
           \/ UNCHANGED vars
  <2>1. UNCHANGED <<phase, todo, deferred, throttled, salvageRound>>
    BY <1>1 DEF Reexecute, VerifyPasses, Recover, AdoptDefault, NothingToAdopt, Dispatch,
       Accepted, AdoptConflicting, RecordMapping, Incident, ByHand, vars
  <2> QED BY <1>0, <2>1, OnceNext DEF Once
<1>2. CASE SkewedAddress \/ SkipDrill \/ SkipCompleted \/ RefuseForeign \/ SkipDead
           \/ SkipHeld \/ AwaitClaim \/ VerifyBlocks \/ Defer \/ Unresolvable
           \/ LostAnswer \/ Refused \/ SkipRefused \/ Throttled \/ CallFailed
           \/ SalvageStands \/ RecordDone
  <2>1. Advance /\ phase' = phase /\ pc \notin {"down", "round", "finished"}
    BY <1>2 DEF SkewedAddress, SkipDrill, SkipCompleted, RefuseForeign, SkipDead, SkipHeld,
       AwaitClaim, VerifyBlocks, Defer, Unresolvable, LostAnswer, Refused, SkipRefused,
       Throttled, CallFailed, SalvageStands, RecordDone, Taking, Addressing, Cleared,
       Fail, Settle
  <2>2. AwaitClaim => phase = "main"
    BY <1>0 DEF AwaitClaim, Addressing, Taking, Salvaging, SafeInv, TypeOK, ControlType
  <2>3. PutsOnce
    BY <1>2, <2>2 DEF SkewedAddress, SkipDrill, SkipCompleted, RefuseForeign, SkipDead,
       SkipHeld, AwaitClaim, VerifyBlocks, Defer, Unresolvable, LostAnswer, Refused,
       SkipRefused, Throttled, CallFailed, SalvageStands, RecordDone, PutsOnce
  <2> QED BY <1>0, <2>1, <2>3, OnceAdvances DEF SafeInv, Working
<1>3. CASE NextRound
  <2>1. /\ todo' = deferred \o throttled /\ deferred' = <<>> /\ throttled' = <<>>
        /\ UNCHANGED <<phase, salvageRound>> /\ phase = "main"
    BY <1>0, <1>3 DEF NextRound, Salvaging, SafeInv, TypeOK, ControlType
  <2>2. Distinct(todo') /\ Members(todo') \subseteq Members(deferred) \cup Members(throttled)
    BY <1>0, <2>1, DistinctBoth DEF Once, SafeInv, TypeOK, QueueType
  <2>3. Apart(todo', salvageRound') /\ Distinct(salvageRound')
    BY <1>0, <2>1, <2>2 DEF Once, Apart
  <2> QED BY <2>1, <2>2, <2>3, NothingWaits, OnceNext
<1>4. CASE EndOfRounds
  <2>1. UNCHANGED <<deferred, throttled, salvageRound>>
    BY <1>4 DEF EndOfRounds
  <2>2. UNCHANGED <<phase, todo>> \/ (phase' = "salvage" /\ todo' = salvageRound)
    BY <1>4 DEF EndOfRounds
  <2>3. Salvaging' /\ phase \in {"main", "salvage"}
    BY <1>0 DEF SafeInv, TypeOK, ControlType
  <2> QED BY <1>0, <2>1, <2>2, <2>3, OnceNext DEF Once
<1>5. CASE Start \/ Crash
  <2>1. /\ todo' = Plan /\ deferred' = <<>> /\ throttled' = <<>> /\ salvageRound' = <<>>
    BY <1>5, Zenon DEF Start, Crash, FreshLocals
  <2>2. Distinct(todo')
    BY <2>1, PlanAssumption DEF Distinct
  <2>3. salvageRound' = <<>> /\ deferred' = <<>> /\ throttled' = <<>>
    BY <2>1
  <2> QED BY <2>1, <2>2, <2>3, NothingWaits, OnceNext
<1> QED BY <1>1, <1>2, <1>3, <1>4, <1>5
        DEF Next, Step, Guard, Send, Respond, Settling

LEMMA OnceStarts == Init => OnceInv
<1> SUFFICES ASSUME Init PROVE OnceInv
  OBVIOUS
<1>1. /\ todo = Plan /\ deferred = <<>> /\ throttled = <<>> /\ salvageRound = <<>>
      /\ phase = "main"
  BY Zenon DEF Init
<1>2. Distinct(todo)
  BY <1>1, PlanAssumption DEF Distinct
<1> QED BY <1>1, <1>2, InitSafe, NothingWaits DEF OnceInv, Once, Salvaging

LEMMA MembersAreActs ==
  ASSUME NEW s \in Seq(Acts)
  PROVE  Members(s) \subseteq Acts
BY LenProperties DEF Members

-----------------------------------------------------------------------------
(* The resolver has one answer for one object.                             *)

\* What makes the rows of two creates different.
PathsTellApart ==
  \A a, b \in Acts :
    Creates(a) /\ Creates(b) /\ Attr[a].own = Attr[b].own /\ Attr[a].path = Attr[b].path
      => a = b

RowOf(r, a) == Creates(a) /\ r.ident = Attr[a].own /\ r.ctx = Attr[a].path
NoRow(a) == \A r \in mappings : ~RowOf(r, a)

\* A row belongs to a completed create, or to the one about to be; what is on
\* its way to a call, or waits for the end of the run, has none.
Recorded ==
  \A r \in mappings : \E a \in Acts :
    RowOf(r, a) /\ (a \in completed \/ (pc = "done" /\ a = cur))
Unmapped ==
  /\ pc \in {"address", "map"} \cup Writing => NoRow(cur)
  /\ phase = "main" => \A a \in Members(salvageRound) : NoRow(a)
  /\ phase = "salvage" /\ pc # "finished" => \A a \in Members(Tail(todo)) : NoRow(a)
AgreeInv == OnceInv /\ Recorded /\ MappingsAgree /\ Unmapped

LEMMA RowsStay ==
  ASSUME mappings' \subseteq mappings
  PROVE  (\A a : NoRow(a) => NoRow(a)') /\ (MappingsAgree => MappingsAgree')
BY DEF NoRow, RowOf, Creates, MappingsAgree

LEMMA AgreeNext ==
  ASSUME OnceInv', MappingsAgree',
         \A r \in mappings' : \E a \in Acts :
           RowOf(r, a) /\ (a \in completed' \/ (pc' = "done" /\ a = cur')),
         pc' \in {"address", "map"} \cup Writing =>
           \A r \in mappings' : ~RowOf(r, cur'),
         phase' = "main" => \A a \in Members(salvageRound') : NoRow(a)',
         phase' = "salvage" /\ pc' # "finished" =>
           \A a \in Members(Tail(todo')) : NoRow(a)'
  PROVE  AgreeInv'
<1>1. Recorded'
  BY DEF Recorded, RowOf, Creates
<1>2. Unmapped'
  BY DEF Unmapped, NoRow, RowOf, Creates, Members
<1> QED BY <1>1, <1>2 DEF AgreeInv

\* What goes past the journal has no row: it was never completed, or its rows
\* were retired just now.
LEMMA ClearedHasNoRow ==
  ASSUME PathsTellApart, AgreeInv, Addressing
  PROVE  NoRow(cur)
<1>1. CASE pc = "address"
  BY <1>1 DEF AgreeInv, Unmapped
<1>2. CASE Taking /\ cur \notin completed
  <2>1. cur \in Acts /\ pc # "done"
    BY <1>2, CurrentAction DEF AgreeInv, OnceInv, SafeInv, Working, Taking
  <2> QED BY <1>2, <2>1 DEF AgreeInv, Recorded, NoRow, RowOf, PathsTellApart, Creates
<1> QED BY <1>1, <1>2 DEF Addressing

LEMMA GoingOnAgrees ==
  ASSUME PathsTellApart, AgreeInv, OnceInv',
         UNCHANGED <<phase, todo, salvageRound, mappings, completed>>, pc # "done",
         \/ pc' = pc
         \/ pc' # "address" /\ (pc \in Writing \/ Addressing)
  PROVE  AgreeInv'
<1>1. cur' = cur
  BY DEF cur
<1>2. \A a : NoRow(a) => NoRow(a)'
  BY RowsStay
<1>3. pc' \in {"address", "map"} \cup Writing => NoRow(cur)
  BY ClearedHasNoRow DEF AgreeInv, Unmapped, Writing
<1>4. MappingsAgree'
  BY RowsStay DEF AgreeInv
<1>5. \A r \in mappings' : \E a \in Acts : RowOf(r, a) /\ a \in completed'
  BY DEF AgreeInv, Recorded
<1>6. phase' = "salvage" /\ pc' # "finished" => pc # "finished"
  BY DEF Writing, Addressing, Taking
<1>7. phase' = "salvage" /\ pc' # "finished" => \A a \in Members(Tail(todo')) : NoRow(a)'
  BY <1>2, <1>6 DEF AgreeInv, Unmapped
<1>8. phase' = "main" => \A a \in Members(salvageRound') : NoRow(a)'
  BY <1>2 DEF AgreeInv, Unmapped
<1> QED BY <1>1, <1>3, <1>4, <1>5, <1>7, <1>8, AgreeNext DEF NoRow

LEMMA AdvancingAgrees ==
  ASSUME AgreeInv, OnceInv', todo # <<>>, Advance, phase' = phase, pc # "finished",
         UNCHANGED mappings, completed \subseteq completed',
         pc = "done" => cur \in completed',
         \/ salvageRound' = salvageRound
         \/ pc = "call" /\ salvageRound' = Append(salvageRound, cur)
  PROVE  AgreeInv'
<1>1. /\ todo \in Seq(Acts) /\ salvageRound \in Seq(Acts) /\ cur \in Acts
      /\ phase \in {"main", "salvage"} /\ todo' = Tail(todo) /\ Tail(todo) \in Seq(Acts)
  BY CurrentAction, HeadTail DEF AgreeInv, OnceInv, SafeInv, TypeOK, QueueType, ControlType,
     Advance
<1>2. \A a : NoRow(a) => NoRow(a)'
  BY RowsStay
<1>3. MappingsAgree'
  BY RowsStay DEF AgreeInv
<1>4. \A r \in mappings' : \E a \in Acts : RowOf(r, a) /\ a \in completed'
  BY DEF AgreeInv, Recorded
<1>5. phase' = "main" => \A a \in Members(salvageRound') : NoRow(a)'
  <2>1. CASE salvageRound' = salvageRound
    BY <1>2, <2>1 DEF AgreeInv, Unmapped
  <2>2. CASE pc = "call" /\ salvageRound' = Append(salvageRound, cur)
    BY <1>1, <1>2, <2>2, MembersOfAppended DEF AgreeInv, Unmapped, Writing
  <2> QED BY <2>1, <2>2
<1>6. phase' = "salvage" /\ pc' # "finished" =>
        Tail(todo) # <<>> /\ \A a \in Members(Tail(todo)) : NoRow(a)
  BY <1>1, HeadTail DEF AgreeInv, Unmapped, Advance
<1>7. phase' = "salvage" /\ pc' # "finished" =>
        NoRow(cur') /\ \A a \in Members(Tail(todo')) : NoRow(a)
  BY <1>1, <1>6, MembersOfRest DEF cur
<1>8. phase' = "main" => pc' \notin {"address", "map"} \cup Writing
  BY DEF Advance, Writing
<1>9. phase' = "salvage" \/ phase' = "main"
  BY <1>1
<1>10. pc' \in {"address", "map"} \cup Writing => \A r \in mappings' : ~RowOf(r, cur')
  BY <1>7, <1>8, <1>9 DEF NoRow, Writing
<1>11. phase' = "salvage" /\ pc' # "finished" => \A a \in Members(Tail(todo')) : NoRow(a)'
  BY <1>2, <1>7
<1> QED BY <1>3, <1>4, <1>5, <1>10, <1>11, AgreeNext

LEMMA RowAddedAgrees ==
  ASSUME PathsTellApart, AgreeInv, OnceInv', todo # <<>>, Creates(cur),
         NEW n \in Ids, mappings' = mappings \cup {Row(cur, n)}, UNCHANGED completed,
         \/ pc = "map" /\ pc' = "done" /\ UNCHANGED <<phase, todo>>
         \/ /\ pc = "take" /\ Advance /\ phase = "main" /\ UNCHANGED phase
            /\ cur \in completed /\ ~HasMapping(cur),
         UNCHANGED salvageRound
  PROVE  AgreeInv'
<1>1. /\ todo \in Seq(Acts) /\ cur \in Acts /\ Distinct(todo)
      /\ phase = "main" => Apart(todo, salvageRound)
  BY CurrentAction DEF AgreeInv, OnceInv, SafeInv, TypeOK, QueueType, Once
<1>2. cur \in Members(todo) /\ cur \notin Members(Tail(todo))
  BY <1>1, DistinctRest DEF cur
<1>3. /\ RowOf(Row(cur, n), cur)
      /\ \A a \in Acts : RowOf(Row(cur, n), a) => a = cur
  BY <1>1 DEF RowOf, Row, PathsTellApart, Creates
<1>4. \A a \in Acts : NoRow(a) /\ a # cur => NoRow(a)'
  BY <1>3 DEF NoRow, RowOf, Creates
<1>5. \A r \in mappings : ~RowOf(r, cur)
  <2>1. CASE pc = "map"
    BY <2>1 DEF AgreeInv, Unmapped, NoRow
  <2>2. CASE ~HasMapping(cur)
    BY <2>2 DEF HasMapping, RowOf
  <2> QED BY <2>1, <2>2
<1>6. MappingsAgree'
  <2>1. \A r \in mappings : ~(r.ident = Row(cur, n).ident /\ r.ctx = Row(cur, n).ctx)
    BY <1>5 DEF RowOf, Row
  <2> QED BY <2>1 DEF AgreeInv, MappingsAgree
<1>7. \A r \in mappings' : \E a \in Acts :
        RowOf(r, a) /\ (a \in completed' \/ (pc' = "done" /\ a = cur'))
  <2>1. ASSUME NEW r \in mappings
        PROVE  \E a \in Acts : RowOf(r, a) /\ a \in completed
    BY DEF AgreeInv, Recorded
  <2>2. cur \in completed \/ (pc' = "done" /\ cur' = cur)
    BY DEF cur
  <2> QED BY <1>1, <1>3, <2>1, <2>2
<1>8. pc' \notin {"address", "map"} \cup Writing
  BY DEF Advance, Writing
<1>9. phase' = "main" => \A a \in Members(salvageRound') : NoRow(a)'
  <2>1. phase = "main" => cur \notin Members(salvageRound)
    BY <1>1, <1>2 DEF Apart
  <2>2. Members(salvageRound) \subseteq Acts
    BY MembersAreActs DEF AgreeInv, OnceInv, SafeInv, TypeOK, QueueType
  <2> QED BY <1>4, <2>1, <2>2 DEF AgreeInv, Unmapped
<1>10. phase' = "salvage" /\ pc' # "finished" => \A a \in Members(Tail(todo')) : NoRow(a)'
  <2>1. CASE phase = "main"
    BY <2>1
  <2>2. CASE pc = "map" /\ UNCHANGED <<phase, todo>>
    <3>1. Members(Tail(todo)) \subseteq Acts
      BY <1>1, HeadTail, MembersAreActs
    <3> QED BY <1>2, <1>4, <2>2, <3>1 DEF AgreeInv, Unmapped
  <2> QED BY <2>1, <2>2
<1> QED BY <1>6, <1>7, <1>8, <1>9, <1>10, AgreeNext

LEMMA AgreeStep ==
  ASSUME PathsTellApart, MaxCrashes = 0, ~AdditiveOnly, AgreeInv, [Next]_vars
  PROVE  AgreeInv'
<1>0. /\ OnceInv /\ OnceInv' /\ SafeInv /\ Salvaging
      /\ phase \in {"main", "salvage"}
  BY OnceStep DEF AgreeInv, OnceInv, SafeInv, TypeOK, ControlType
<1> USE DEF rounds, retries, journal
<1>1. CASE VerifyPasses \/ Recover \/ AdoptDefault \/ NothingToAdopt \/ Dispatch
           \/ Accepted \/ AdoptConflicting \/ Incident \/ ByHand \/ UNCHANGED vars
  <2>1. UNCHANGED <<phase, todo, salvageRound, mappings, completed>>
    BY <1>1 DEF VerifyPasses, Recover, AdoptDefault, NothingToAdopt, Dispatch,
       Accepted, AdoptConflicting, Incident, ByHand, vars
  <2>2. CASE VerifyPasses \/ Recover \/ AdoptDefault \/ NothingToAdopt \/ Dispatch
             \/ Accepted \/ AdoptConflicting
    <3>1. pc # "done" /\ pc' # "address" /\ (pc \in Writing \/ Addressing)
      BY <2>2 DEF VerifyPasses, Recover, AdoptDefault, NothingToAdopt, Dispatch,
         Accepted, AdoptConflicting, Cleared, Writing, Addressing, Taking
    <3> QED BY <1>0, <2>1, <3>1, GoingOnAgrees
  <2>3. CASE Incident \/ ByHand \/ UNCHANGED vars
    <3>1. pc' = pc
      BY <2>3 DEF Incident, ByHand, vars
    <3>2. CASE pc # "done"
      BY <1>0, <2>1, <3>1, <3>2, GoingOnAgrees
    <3>3. CASE pc = "done"
      BY <1>0, <2>1, <3>1, <3>3, RowsStay, AgreeNext
         DEF AgreeInv, Recorded, Unmapped, Writing, cur
    <3> QED BY <3>2, <3>3
  <2> QED BY <1>1, <2>2, <2>3
<1>2. CASE Reexecute
  <2>1. /\ mappings' = mappings \ StaleRows(cur) /\ pc' = "address" /\ pc = "take"
        /\ UNCHANGED <<phase, todo, salvageRound, completed>> /\ cur' = cur
    BY <1>2 DEF Reexecute, Taking, cur
  <2>2. phase = "main"
    BY <1>0, <2>1 DEF Salvaging
  <2>3. (\A a : NoRow(a) => NoRow(a)') /\ MappingsAgree'
    BY <2>1, RowsStay DEF AgreeInv
  <2>4. \A r \in mappings' : ~RowOf(r, cur)
    BY <2>1 DEF StaleRows, RowOf, Mints, Creates
  <2>5. \A r \in mappings' : \E a \in Acts : RowOf(r, a) /\ a \in completed'
    BY <2>1 DEF AgreeInv, Recorded
  <2>6. \A a \in Members(salvageRound') : NoRow(a)'
    BY <2>1, <2>2, <2>3 DEF AgreeInv, Unmapped
  <2> QED BY <1>0, <2>1, <2>2, <2>3, <2>4, <2>5, <2>6, AgreeNext
<1>3. CASE SkewedAddress \/ SkipDrill \/ RefuseForeign \/ SkipDead
           \/ SkipHeld \/ AwaitClaim \/ Defer \/ Unresolvable
           \/ LostAnswer \/ Refused \/ SkipRefused \/ Throttled \/ CallFailed
           \/ SalvageStands \/ RecordDone
  <2>1. Advance /\ phase' = phase /\ pc \notin {"down", "round", "finished"}
    BY <1>3 DEF SkewedAddress, SkipDrill, RefuseForeign, SkipDead, SkipHeld,
       AwaitClaim, Defer, Unresolvable, LostAnswer, Refused, SkipRefused,
       Throttled, CallFailed, SalvageStands, RecordDone, Taking, Addressing, Cleared,
       Fail, Settle
  <2>2. UNCHANGED mappings /\ completed \subseteq completed'
        /\ (pc = "done" => cur \in completed')
    BY <1>3 DEF SkewedAddress, SkipDrill, RefuseForeign, SkipDead, SkipHeld,
       AwaitClaim, Defer, Unresolvable, LostAnswer, Refused, SkipRefused,
       Throttled, CallFailed, SalvageStands, RecordDone, Taking, Addressing
  <2>3. \/ salvageRound' = salvageRound
        \/ pc = "call" /\ salvageRound' = Append(salvageRound, cur)
    BY <1>3 DEF SkewedAddress, SkipDrill, RefuseForeign, SkipDead, SkipHeld,
       AwaitClaim, Defer, Unresolvable, LostAnswer, Refused, SkipRefused,
       Throttled, CallFailed, SalvageStands, RecordDone
  <2>4. todo # <<>>
    BY <1>0, <2>1 DEF SafeInv, Working
  <2> QED BY <1>0, <2>1, <2>2, <2>3, <2>4, AdvancingAgrees
<1>4. CASE SkipCompleted
  <2>1. /\ Advance /\ UNCHANGED <<phase, completed, salvageRound>> /\ pc = "take"
        /\ cur \in completed
    BY <1>4 DEF SkipCompleted, Settle, Taking
  <2>2. todo # <<>> /\ phase = "main"
    BY <1>0, <2>1 DEF SafeInv, Working, Salvaging
  <2>3. PICK p \in Probes(cur) : RecoverMapping(p.answer.found)
    BY <1>4 DEF SkipCompleted
  <2>4. CASE UNCHANGED mappings
    BY <1>0, <2>1, <2>2, <2>4, AdvancingAgrees
  <2>5. CASE mappings' # mappings
    <3>1. /\ Creates(cur) /\ p.answer.found # NoId /\ ~HasMapping(cur)
          /\ mappings' = mappings \cup {Row(cur, p.answer.found)}
      BY <2>3, <2>5 DEF RecoverMapping
    <3>2. p.answer.found \in Ids
      <4>1. cur \in Acts /\ JournalType /\ TargetType /\ CacheType
        BY <1>0, <2>2, CurrentAction DEF SafeInv, TypeOK
      <4> QED BY <3>1, <4>1, ProbeType
    <3> QED BY <1>0, <2>1, <2>2, <3>1, <3>2, RowAddedAgrees
  <2> QED BY <2>4, <2>5
<1>5. CASE RecordMapping
  <2>1. /\ pc = "map" /\ pc' = "done" /\ UNCHANGED <<phase, todo, completed, salvageRound>>
    BY <1>5 DEF RecordMapping
  <2>2. todo # <<>> /\ newId \in Ids \cup {NoId}
    BY <1>0, <2>1 DEF SafeInv, Working, TypeOK, ControlType
  <2>3. CASE newId = NoId
    <3>1. UNCHANGED mappings
      BY <1>5, <2>3 DEF RecordMapping
    <3>2. \A r \in mappings' : \E a \in Acts : RowOf(r, a) /\ a \in completed'
      BY <2>1, <3>1 DEF AgreeInv, Recorded
    <3> QED BY <1>0, <2>1, <3>1, <3>2, RowsStay, AgreeNext DEF AgreeInv, Unmapped, Writing
  <2>4. CASE newId # NoId
    <3>1. Creates(cur) /\ mappings' = mappings \cup {Row(cur, newId)}
      BY <1>0, <1>5, <2>4 DEF RecordMapping, SafeInv, IdInHand
    <3> QED BY <1>0, <2>1, <2>2, <2>4, <3>1, RowAddedAgrees
  <2> QED BY <2>3, <2>4
<1>6. CASE NextRound \/ EndOfRounds
  <2>1. UNCHANGED <<mappings, completed, salvageRound>> /\ pc = "round" /\ phase = "main"
    BY <1>0, <1>6 DEF NextRound, EndOfRounds, Salvaging
  <2>2. \A a \in Members(salvageRound) : NoRow(a)
    BY <2>1 DEF AgreeInv, Unmapped
  <2>3. /\ (\A a : NoRow(a) => NoRow(a)') /\ MappingsAgree'
        /\ \A r \in mappings' : \E a \in Acts : RowOf(r, a) /\ a \in completed'
    BY <2>1, RowsStay DEF AgreeInv, Recorded
  <2>4. \/ pc' \in {"take", "finished"} /\ phase' = "main"
        \/ pc' = "send" /\ phase' = "salvage" /\ todo' = salvageRound
    BY <1>6, <2>1 DEF NextRound, EndOfRounds
  <2>5. CASE pc' \in {"take", "finished"} /\ phase' = "main"
    BY <1>0, <2>1, <2>2, <2>3, <2>5, AgreeNext DEF Writing
  <2>6. CASE pc' = "send" /\ phase' = "salvage" /\ todo' = salvageRound
    <3>1. salvageRound \in Seq(Acts) /\ salvageRound # <<>>
      BY <1>0, <2>1, <2>6 DEF OnceInv, SafeInv, TypeOK, QueueType, Working
    <3>2. NoRow(cur') /\ \A a \in Members(Tail(todo')) : NoRow(a)
      BY <2>2, <2>6, <3>1, MembersOfRest DEF cur
    <3>3. \A r \in mappings' : ~RowOf(r, cur')
      BY <2>1, <3>2 DEF NoRow
    <3> QED BY <1>0, <2>1, <2>3, <2>6, <3>2, <3>3, AgreeNext
  <2> QED BY <2>4, <2>5, <2>6
<1>7. CASE Start
  <2>1. /\ pc' = "take" /\ phase' = "main" /\ salvageRound' = <<>>
        /\ UNCHANGED <<mappings, completed>> /\ pc # "done"
    BY <1>7, Zenon DEF Start, FreshLocals
  <2>2. MappingsAgree' /\ \A r \in mappings' : \E a \in Acts : RowOf(r, a) /\ a \in completed'
    BY <2>1, RowsStay DEF AgreeInv, Recorded
  <2> QED BY <1>0, <2>1, <2>2, NothingSalvaged, AgreeNext DEF Writing
<1>8. CASE Crash
  BY <1>0, <1>8 DEF Crash, SafeInv, TypeOK, BoundType
<1>9. CASE VerifyBlocks
  BY <1>9 DEF VerifyBlocks
<1> QED BY <1>1, <1>2, <1>3, <1>4, <1>5, <1>6, <1>7, <1>8, <1>9
        DEF Next, Step, Guard, Send, Respond, Settling

-----------------------------------------------------------------------------
(* What a drill holds back, it holds back all the way down.                *)

\* The identities a drill may skip: of creates and claims that name a
\* production serial, and of what hangs under one of these.
HoldsAll(H) ==
  \A a \in Acts :
    Mints(a) /\ ((SkipClaims /\ Attr[a].drill = "serial") \/ Attr[a].path \cap H # {})
      => Attr[a].own \in H
Holdable == {i \in Idents : \A H \in SUBSET Idents : HoldsAll(H) => i \in H}

\* Nothing with a mangled address hangs there, which would be a failure of
\* its own; and parents come first (the waves of plan_restore).
FaultsAreOutside ==
  \A a \in Acts : Attr[a].fault # "none" => Attr[a].path \cap Holdable = {}
ParentsFirst ==
  \A i, j \in 1 .. Len(Plan) :
    Mints(Plan[i]) /\ Attr[Plan[i]].own \in Attr[Plan[j]].path => i < j

\* All that hangs under a member of the queue is behind it.
Ordered(s) ==
  \A i \in 1 .. Len(s), b \in Acts :
    Mints(s[i]) /\ Attr[s[i]].own \in Attr[b].path =>
      \E j \in 1 .. Len(s) : i < j /\ s[j] = b

Passes(a, skipped) ==
  Attr[a].path \cap skipped = {} /\ (SkipClaims => Attr[a].drill = "no")
DrillVerdict(a, skipped, verdict) ==
  Attr[a].path \cap skipped # {} => verdict[a] \in {"drill", "dead parent"}

\* In a run that found an empty journal: what has left the queues has its
\* verdict, what was put back has passed the guards, and in the first pass
\* nothing was taken before its parents.
HeldBack ==
  /\ skippedParents \subseteq Holdable
  /\ \A a \in Members(deferred) \cup Members(throttled) \cup Members(salvageRound) :
       Passes(a, skippedParents)
  /\ \A a \in Acts \ Members(todo) : DrillVerdict(a, skippedParents, outcome)
  /\ Ordered(todo) \/ \A a \in Members(todo) : Passes(a, skippedParents)
  /\ pc \in {"map", "done"} \cup Writing => Passes(cur, skippedParents)
  /\ phase = "salvage" => \A a \in Members(todo) : Passes(a, skippedParents)
  /\ pc # "address" /\ (pc \in {"round", "finished"} => Members(todo) = {})
Undone ==
  /\ completed \cap Members(todo) = {}
  /\ phase = "main" =>
       \A q \in {deferred, throttled, salvageRound} : completed \cap Members(q) = {}
HeldInv ==
  /\ OnceInv
  /\ runs = 0 => completed = {} /\ pc = "down"
  /\ pc # "down" => HeldBack /\ Undone

LEMMA HoldableHolds == HoldsAll(Holdable)
<1>1. ASSUME NEW a \in Acts, Mints(a),
             (SkipClaims /\ Attr[a].drill = "serial") \/ Attr[a].path \cap Holdable # {}
      PROVE  Attr[a].own \in Holdable
  <2>1. Attr[a].own \in Idents
    BY <1>1, AttrAssumption DEF Mints
  <2>2. ASSUME NEW H \in SUBSET Idents, HoldsAll(H)
        PROVE  Attr[a].own \in H
    <3>1. Holdable \subseteq H
      BY <2>2 DEF Holdable
    <3>2. (SkipClaims /\ Attr[a].drill = "serial") \/ Attr[a].path \cap H # {}
      BY <1>1, <3>1
    <3> QED BY <1>1, <2>2, <3>2 DEF HoldsAll
  <2> QED BY <2>1, <2>2 DEF Holdable
<1> QED BY <1>1 DEF HoldsAll

LEMMA OrderedRest ==
  ASSUME NEW s \in Seq(Acts), s # <<>>, Ordered(s)
  PROVE  /\ Ordered(Tail(s))
         /\ \A b \in Acts : Mints(Head(s)) /\ Attr[Head(s)].own \in Attr[b].path =>
              b \in Members(Tail(s))
<1>1. /\ Len(s) \in Nat /\ Len(s) > 0 /\ Head(s) = s[1] /\ Len(Tail(s)) = Len(s) - 1
      /\ \A i \in 1 .. Len(s) - 1 : Tail(s)[i] = s[i + 1]
  BY HeadTailProperties, LenProperties
<1>2. ASSUME NEW j \in 1 .. Len(s), 1 < j
      PROVE  j - 1 \in 1 .. Len(Tail(s)) /\ Tail(s)[j - 1] = s[j]
  BY <1>1, <1>2
<1>3. ASSUME NEW i \in 1 .. Len(Tail(s)), NEW b \in Acts,
             Mints(Tail(s)[i]), Attr[Tail(s)[i]].own \in Attr[b].path
      PROVE  \E j \in 1 .. Len(Tail(s)) : i < j /\ Tail(s)[j] = b
  <2>1. i + 1 \in 1 .. Len(s) /\ Tail(s)[i] = s[i + 1] /\ i \in Nat
    BY <1>1
  <2>2. PICK j \in 1 .. Len(s) : i + 1 < j /\ s[j] = b
    BY <1>3, <2>1 DEF Ordered
  <2>3. j - 1 \in 1 .. Len(Tail(s)) /\ Tail(s)[j - 1] = s[j] /\ i < j - 1
    BY <1>2, <2>1, <2>2
  <2> QED BY <2>2, <2>3
<1>4. ASSUME NEW b \in Acts, Mints(Head(s)), Attr[Head(s)].own \in Attr[b].path
      PROVE  b \in Members(Tail(s))
  <2>1. PICK j \in 1 .. Len(s) : 1 < j /\ s[j] = b
    BY <1>1, <1>4 DEF Ordered
  <2> QED BY <1>2, <2>1 DEF Members
<1> QED BY <1>3, <1>4 DEF Ordered

LEMMA PlanIsOrdered ==
  ASSUME ParentsFirst
  PROVE  Ordered(Plan)
BY PlanAssumption DEF ParentsFirst, Ordered

LEMMA HeldNext ==
  ASSUME OnceInv', (runs' = 0 => completed' = {} /\ pc' = "down"), pc' # "address",
         skippedParents' \subseteq Holdable,
         \A a \in Members(deferred') \cup Members(throttled') \cup Members(salvageRound') :
           Passes(a, skippedParents'),
         \A a \in Acts \ Members(todo') : DrillVerdict(a, skippedParents', outcome'),
         Ordered(todo') \/ \A a \in Members(todo') : Passes(a, skippedParents'),
         pc' \in {"map", "done"} \cup Writing => Passes(cur', skippedParents'),
         phase' = "salvage" => \A a \in Members(todo') : Passes(a, skippedParents'),
         pc' \in {"round", "finished"} => Members(todo') = {},
         completed' \cap Members(todo') = {},
         phase' = "main" =>
           \A q \in {deferred', throttled', salvageRound'} : completed' \cap Members(q) = {}
  PROVE  HeldInv'
<1>1. Undone'
  BY DEF Undone, Members
<1>2. HeldBack'
  <2>1. \A a \in (Members(deferred) \cup Members(throttled) \cup Members(salvageRound))' :
          Passes(a, skippedParents)'
    BY DEF Members, Passes
  <2>2. \A a \in (Acts \ Members(todo))' : DrillVerdict(a, skippedParents, outcome)'
    BY DEF Members, DrillVerdict
  <2>3. (Ordered(todo) \/ \A a \in Members(todo) : Passes(a, skippedParents))'
    <3>1. CASE Ordered(todo')
      BY <3>1 DEF Ordered
    <3>2. CASE \A a \in Members(todo') : Passes(a, skippedParents')
      BY <3>2 DEF Members, Passes
    <3> QED BY <3>1, <3>2
  <2>4. (pc \in {"map", "done"} \cup Writing => Passes(cur, skippedParents))'
    BY DEF Passes, Writing, cur
  <2>0. (phase = "salvage" => \A a \in Members(todo) : Passes(a, skippedParents))'
    BY DEF Members, Passes
  <2>5. (pc # "address" /\ (pc \in {"round", "finished"} => Members(todo) = {}))'
    BY DEF Members
  <2>6. (skippedParents \subseteq Holdable)'
    OBVIOUS
  <2> QED BY <2>0, <2>1, <2>2, <2>3, <2>4, <2>5, <2>6 DEF HeldBack
<1> QED BY <1>1, <1>2 DEF HeldInv

\* The current action leaves with a verdict, or goes to a queue.
LEMMA HeldAdvances ==
  ASSUME HeldInv, OnceInv', todo # <<>>, pc # "down", Advance,
         UNCHANGED <<phase, runs, skippedParents>>, PutsOnce,
         \A a \in Acts \ {cur} : outcome'[a] = outcome[a],
         DrillVerdict(cur, skippedParents, outcome'),
         UNCHANGED <<deferred, throttled, salvageRound>> \/ Passes(cur, skippedParents),
         \/ UNCHANGED completed
         \/ /\ completed' = completed \cup {cur}
            /\ UNCHANGED <<deferred, throttled, salvageRound>>
  PROVE  HeldInv'
<1>0. OnceInv /\ HeldBack /\ Undone
  BY DEF HeldInv
<1>1. /\ todo \in Seq(Acts) /\ deferred \in Seq(Acts) /\ throttled \in Seq(Acts)
      /\ salvageRound \in Seq(Acts) /\ cur \in Acts /\ Distinct(todo)
      /\ todo' = Tail(todo) /\ Tail(todo) \in Seq(Acts) /\ phase \in {"main", "salvage"}
  BY <1>0, CurrentAction, HeadTail
     DEF OnceInv, SafeInv, TypeOK, QueueType, ControlType, Once, Advance
<1>2. /\ Members(todo) = {cur} \cup Members(Tail(todo)) /\ cur \notin Members(Tail(todo))
  BY <1>1, MembersOfRest, DistinctRest DEF cur
<1>3. /\ Members(deferred') \subseteq Members(deferred) \cup {cur}
      /\ Members(throttled') \subseteq Members(throttled) \cup {cur}
      /\ Members(salvageRound') \subseteq Members(salvageRound) \cup {cur}
  <2>1. \A q \in {deferred, throttled, salvageRound} :
          Members(Append(q, cur)) = Members(q) \cup {cur}
    BY <1>1, MembersOfAppended
  <2>2. /\ \A q : Members(q) \subseteq Members(q) \cup {cur}
        /\ \A q \in {deferred, throttled, salvageRound} :
             Members(Append(q, cur)) \subseteq Members(q) \cup {cur}
    BY <2>1
  <2>3. /\ deferred' = deferred \/ deferred' = Append(deferred, cur)
        /\ throttled' = throttled \/ throttled' = Append(throttled, cur)
        /\ salvageRound' = salvageRound \/ salvageRound' = Append(salvageRound, cur)
    BY DEF PutsOnce
  <2> QED BY <2>2, <2>3
<1>4. \A a \in Members(deferred') \cup Members(throttled') \cup Members(salvageRound') :
        Passes(a, skippedParents')
  <2>1. CASE UNCHANGED <<deferred, throttled, salvageRound>>
    BY <1>0, <2>1 DEF HeldBack
  <2>2. CASE Passes(cur, skippedParents)
    BY <1>0, <1>3, <2>2 DEF HeldBack
  <2> QED BY <2>1, <2>2
<1>5. \A a \in Acts \ Members(todo') : DrillVerdict(a, skippedParents', outcome')
  BY <1>0, <1>1, <1>2 DEF HeldBack, DrillVerdict
<1>6. Ordered(todo') \/ \A a \in Members(todo') : Passes(a, skippedParents')
  BY <1>0, <1>1, <1>2, OrderedRest DEF HeldBack
<1>a. phase' = "salvage" => \A a \in Members(todo') : Passes(a, skippedParents')
  BY <1>0, <1>1, <1>2 DEF HeldBack
<1>7. pc' \in {"map", "done"} \cup Writing => Passes(cur', skippedParents')
  <2> SUFFICES ASSUME pc' \in {"map", "done"} \cup Writing
               PROVE  Passes(cur', skippedParents')
    OBVIOUS
  <2>1. phase = "salvage" /\ pc' = "send" /\ Len(todo) > 1
    BY <1>1 DEF Advance, Writing
  <2>2. Tail(todo) # <<>>
    BY <1>1, <2>1, HeadTail
  <2>3. cur' \in Members(Tail(todo))
    BY <1>1, <2>2, MembersOfRest DEF cur
  <2>4. phase' = "salvage" /\ pc' # "finished"
    BY <2>1
  <2>5. \A a \in Members(todo) : Passes(a, skippedParents)
    BY <1>0, <2>1 DEF HeldBack
  <2> QED BY <1>2, <2>3, <2>5
<1>8. pc' \in {"round", "finished"} => Members(todo') = {}
  <2>1. pc' \in {"round", "finished"} => ~(Len(todo) > 1)
    BY DEF Advance
  <2>2. ~(Len(todo) > 1) => Members(todo) \subseteq {cur}
    BY <1>1, MembersOfRest DEF cur
  <2> QED BY <1>1, <1>2, <2>1, <2>2
<1>9. completed' \cap Members(todo') = {}
  BY <1>0, <1>1, <1>2 DEF Undone
<1>10. ASSUME phase' = "main", NEW q \in {deferred', throttled', salvageRound'}
       PROVE  completed' \cap Members(q) = {}
  <2>1. /\ Apart(todo, deferred) /\ Apart(todo, throttled) /\ Apart(todo, salvageRound)
        /\ cur \in Members(todo)
    BY <1>0, <1>2, <1>10 DEF OnceInv, Once
  <2>2. CASE UNCHANGED completed
    BY <1>0, <1>2, <1>3, <1>10, <2>2 DEF Undone
  <2>3. CASE completed' = completed \cup {cur}
             /\ UNCHANGED <<deferred, throttled, salvageRound>>
    BY <1>0, <1>10, <2>1, <2>3 DEF Undone, Apart
  <2> QED BY <2>2, <2>3
<1>11. pc' # "address" /\ pc' # "down" /\ runs # 0
  BY DEF Advance, HeldInv
<1> QED BY <1>0, <1>1, <1>4, <1>5, <1>6, <1>7, <1>8, <1>9, <1>10, <1>11, <1>a, HeldNext
        DEF HeldBack

\* The drill skips it, and what hangs under it is still to come.
LEMMA HeldSkips ==
  ASSUME HeldInv, OnceInv', todo # <<>>, pc = "take", Advance, phase = "main",
         UNCHANGED <<phase, runs, completed, deferred, throttled, salvageRound>>,
         ~Passes(cur, skippedParents), Mints(cur),
         Attr[cur].path \cap skippedParents # {} \/ (SkipClaims /\ Attr[cur].drill = "serial"),
         skippedParents' = skippedParents \cup {Attr[cur].own},
         outcome' = [outcome EXCEPT ![cur] = "drill"]
  PROVE  HeldInv'
<1>0. OnceInv /\ HeldBack /\ Undone
  BY DEF HeldInv
<1>1. /\ todo \in Seq(Acts) /\ cur \in Acts /\ Distinct(todo) /\ outcome \in [Acts -> Outcomes]
      /\ todo' = Tail(todo) /\ Tail(todo) \in Seq(Acts)
  BY <1>0, CurrentAction, HeadTail
     DEF OnceInv, SafeInv, TypeOK, QueueType, LedgerType, Once, Advance
<1>2. Members(todo) = {cur} \cup Members(Tail(todo)) /\ cur \notin Members(Tail(todo))
  BY <1>1, MembersOfRest, DistinctRest DEF cur
<1>3. Ordered(todo)
  BY <1>0, <1>2 DEF HeldBack
<1>4. /\ Ordered(todo')
      /\ \A b \in Acts \ Members(todo') : Attr[cur].own \notin Attr[b].path
  BY <1>1, <1>3, OrderedRest DEF cur
<1>5. skippedParents' \subseteq Holdable
  <2>1. Attr[cur].path \cap Holdable # {} \/ (SkipClaims /\ Attr[cur].drill = "serial")
    BY <1>0 DEF HeldBack
  <2>2. Attr[cur].own \in Holdable
    BY <1>1, <2>1, HoldableHolds DEF HoldsAll
  <2> QED BY <1>0, <2>2 DEF HeldBack
<1>6. \A a \in Members(deferred) \cup Members(throttled) \cup Members(salvageRound) :
        Passes(a, skippedParents')
  <2>1. \A a \in Members(deferred) \cup Members(throttled) \cup Members(salvageRound) :
          a \in Acts /\ a \notin Members(todo')
    BY <1>0, <1>1, <1>2, MembersAreActs DEF OnceInv, Once, Apart, SafeInv, TypeOK, QueueType
  <2> QED BY <1>0, <1>4, <2>1 DEF HeldBack, Passes
<1>7. \A a \in Acts \ Members(todo') : DrillVerdict(a, skippedParents', outcome')
  <2>1. \A a \in Acts \ Members(todo) : DrillVerdict(a, skippedParents, outcome)
    BY <1>0 DEF HeldBack
  <2>2. outcome'[cur] = "drill" /\ \A a \in Acts \ {cur} : outcome'[a] = outcome[a]
    BY <1>1
  <2> QED BY <1>1, <1>2, <1>4, <2>1, <2>2 DEF DrillVerdict
<1>8. pc' \in {"take", "round"} /\ pc' # "down" /\ runs # 0
  BY DEF Advance, HeldInv
<1>9. pc' = "round" => Members(todo') = {}
  <2>1. pc' = "round" => ~(Len(todo) > 1)
    BY DEF Advance
  <2>2. ~(Len(todo) > 1) => Members(todo) \subseteq {cur}
    BY <1>1, MembersOfRest DEF cur
  <2> QED BY <1>1, <1>2, <2>1, <2>2
<1>10. completed' \cap Members(todo') = {}
  BY <1>0, <1>1, <1>2 DEF Undone
<1>11. \A q \in {deferred', throttled', salvageRound'} : completed' \cap Members(q) = {}
  BY <1>0 DEF Undone
<1> QED BY <1>0, <1>4, <1>5, <1>6, <1>7, <1>8, <1>9, <1>10, <1>11, HeldNext DEF Writing

\* It goes on with the current action.
LEMMA HeldGoesOn ==
  ASSUME HeldInv, OnceInv', pc # "down",
         UNCHANGED <<phase, todo, deferred, throttled, salvageRound, skippedParents,
                     outcome, completed, runs>>,
         pc' # "down" /\ pc' # "address",
         pc' \in {"map", "done"} \cup Writing => Passes(cur, skippedParents),
         pc' \in {"round", "finished"} => pc' = pc
  PROVE  HeldInv'
<1>1. OnceInv /\ HeldBack /\ Undone /\ runs # 0 /\ cur' = cur
  BY DEF HeldInv, cur
<1> QED BY <1>1, HeldNext DEF HeldBack, Undone

LEMMA HeldStep ==
  ASSUME FaultsAreOutside, ParentsFirst, MaxRuns = 1, HeldInv, [Next]_vars
  PROVE  HeldInv'
<1> USE DEF rounds, ledger, retries, bounds, journal
<1>0. OnceInv /\ OnceInv' /\ SafeInv /\ Salvaging /\ phase \in {"main", "salvage"}
  BY OnceStep DEF HeldInv, OnceInv, SafeInv, TypeOK, ControlType
<1>1. ASSUME pc \notin {"down", "round", "finished"}
      PROVE  /\ todo # <<>> /\ cur \in Acts /\ cur \in Members(todo) /\ cur \notin completed
             /\ HeldBack /\ Undone
  <2>1. todo # <<>> /\ todo \in Seq(Acts) /\ HeldBack /\ Undone
    BY <1>0, <1>1 DEF SafeInv, Working, HeldInv, TypeOK, QueueType
  <2> QED BY <1>0, <2>1, CurrentAction, MembersOfRest DEF cur, Undone, SafeInv
<1>2. /\ Cleared \/ AwaitClaim => Passes(cur, skippedParents) /\ pc = "take"
      /\ Addressing => pc = "take"
  BY <1>1 DEF Cleared, AwaitClaim, Addressing, Taking, DrillSkipped, Held, Passes, HeldBack
<1>3. CASE VerifyPasses \/ Recover \/ AdoptDefault \/ NothingToAdopt \/ Dispatch
           \/ Accepted \/ AdoptConflicting \/ RecordMapping
  <2>1. /\ UNCHANGED <<phase, todo, deferred, throttled, salvageRound, skippedParents,
                       outcome, completed, runs>>
        /\ pc \in {"map", "done"} \cup Writing \/ Cleared
        /\ pc \notin {"down", "round", "finished"}
        /\ pc' \in {"lookup", "map", "send", "call", "done"}
    BY <1>3, <1>2 DEF VerifyPasses, Recover, AdoptDefault, NothingToAdopt, Dispatch,
       Accepted, AdoptConflicting, RecordMapping, Writing
  <2>2. Passes(cur, skippedParents)
    BY <1>1, <1>2, <2>1 DEF HeldBack
  <2> QED BY <1>0, <2>1, <2>2, HeldGoesOn
<1>4. CASE SkipCompleted \/ Reexecute
  BY <1>1, <1>4 DEF SkipCompleted, Reexecute, Taking
<1>5. CASE \/ SkipHeld /\ Mints(cur)
           \/ SkipDrill /\ Attr[cur].drill = "serial" /\ Mints(cur)
  <2>1. /\ pc = "take" /\ Advance /\ ~Passes(cur, skippedParents)
        /\ UNCHANGED <<phase, runs, completed, deferred, throttled, salvageRound>>
        /\ skippedParents' = skippedParents \cup {Attr[cur].own}
        /\ outcome' = [outcome EXCEPT ![cur] = "drill"]
        /\ Attr[cur].path \cap skippedParents # {}
             \/ (SkipClaims /\ Attr[cur].drill = "serial")
    BY <1>2, <1>5 DEF SkipHeld, SkipDrill, Settle, Passes, Held, DrillSkipped, Taking
  <2>2. phase = "main" /\ todo # <<>> /\ Mints(cur)
    BY <1>0, <1>1, <1>5, <2>1 DEF Salvaging
  <2> QED BY <1>0, <2>1, <2>2, HeldSkips
<1>6. CASE \/ SkipHeld /\ ~Mints(cur)
           \/ SkipDrill /\ ~(Attr[cur].drill = "serial" /\ Mints(cur))
           \/ SkewedAddress \/ RefuseForeign \/ SkipDead \/ AwaitClaim \/ VerifyBlocks
           \/ Defer \/ Unresolvable \/ LostAnswer \/ Refused \/ SkipRefused \/ Throttled
           \/ CallFailed \/ SalvageStands \/ RecordDone
  <2>1. /\ Advance /\ UNCHANGED <<phase, runs, skippedParents>>
        /\ pc \notin {"down", "round", "finished"}
    BY <1>6, <1>2 DEF SkewedAddress, SkipDrill, RefuseForeign, SkipDead, SkipHeld,
       AwaitClaim, VerifyBlocks, Defer, Unresolvable, LostAnswer, Refused, SkipRefused,
       Throttled, CallFailed, SalvageStands, RecordDone, Taking, Addressing, Cleared,
       Fail, Settle
  <2>2. /\ todo # <<>> /\ cur \in Acts /\ HeldBack /\ outcome \in [Acts -> Outcomes]
        /\ AwaitClaim => phase = "main"
    BY <1>0, <1>1, <1>2, <2>1 DEF SafeInv, TypeOK, LedgerType, Salvaging
  <2>3. PutsOnce
    BY <1>6, <2>2 DEF SkewedAddress, SkipDrill, RefuseForeign, SkipDead, SkipHeld,
       AwaitClaim, VerifyBlocks, Defer, Unresolvable, LostAnswer, Refused, SkipRefused,
       Throttled, CallFailed, SalvageStands, RecordDone, PutsOnce
  <2>4. UNCHANGED outcome \/ \E v : outcome' = [outcome EXCEPT ![cur] = v]
    BY <1>6 DEF SkewedAddress, SkipDrill, RefuseForeign, SkipDead, SkipHeld,
       AwaitClaim, VerifyBlocks, Defer, Unresolvable, LostAnswer, Refused, SkipRefused,
       Throttled, CallFailed, SalvageStands, RecordDone, Fail, Settle
  <2>5. \A a \in Acts \ {cur} : outcome'[a] = outcome[a]
    BY <2>2, <2>4
  <2>6. CASE SkipHeld \/ SkipDrill \/ SkipDead
    <3>1. outcome'[cur] \in {"drill", "dead parent"}
      BY <2>2, <2>6 DEF SkipHeld, SkipDrill, SkipDead, Settle
    <3>2. UNCHANGED <<deferred, throttled, salvageRound, completed>>
      BY <2>6 DEF SkipHeld, SkipDrill, SkipDead
    <3> QED BY <1>0, <2>1, <2>2, <2>3, <2>5, <3>1, <3>2, HeldAdvances DEF DrillVerdict
  <2>7. CASE SkewedAddress \/ RefuseForeign
    <3>1. Attr[cur].fault # "none" /\ UNCHANGED <<deferred, throttled, salvageRound, completed>>
      BY <2>7 DEF SkewedAddress, RefuseForeign, Foreign
    <3>2. Attr[cur].path \cap skippedParents = {}
      BY <2>2, <3>1 DEF FaultsAreOutside, HeldBack
    <3> QED BY <1>0, <2>1, <2>2, <2>3, <2>5, <3>1, <3>2, HeldAdvances DEF DrillVerdict
  <2>8. CASE \/ AwaitClaim \/ VerifyBlocks \/ Defer \/ Unresolvable \/ LostAnswer
             \/ Refused \/ SkipRefused \/ Throttled \/ CallFailed \/ SalvageStands
             \/ RecordDone
    <3>1. pc \in {"map", "done"} \cup Writing \/ Cleared \/ AwaitClaim
      BY <2>8 DEF VerifyBlocks, Defer, Unresolvable, LostAnswer, Refused, SkipRefused,
         Throttled, CallFailed, SalvageStands, RecordDone, Writing
    <3>2. Passes(cur, skippedParents)
      BY <1>2, <2>2, <3>1 DEF HeldBack
    <3>3. \/ UNCHANGED completed
          \/ /\ completed' = completed \cup {cur}
             /\ UNCHANGED <<deferred, throttled, salvageRound>>
      BY <2>8 DEF AwaitClaim, VerifyBlocks, Defer, Unresolvable, LostAnswer, Refused,
         SkipRefused, Throttled, CallFailed, SalvageStands, RecordDone
    <3>4. DrillVerdict(cur, skippedParents, outcome')
      BY <3>2 DEF Passes, DrillVerdict
    <3> QED BY <1>0, <2>1, <2>2, <2>3, <2>5, <3>2, <3>3, <3>4, HeldAdvances
  <2> QED BY <1>6, <2>6, <2>7, <2>8
<1>7. CASE NextRound \/ EndOfRounds
  <2>1. /\ pc = "round" /\ phase = "main" /\ HeldBack /\ Undone /\ runs # 0
        /\ UNCHANGED <<completed, runs, skippedParents, salvageRound>>
        /\ deferred \in Seq(Acts) /\ throttled \in Seq(Acts) /\ salvageRound \in Seq(Acts)
    BY <1>0, <1>7 DEF NextRound, EndOfRounds, Salvaging, HeldInv, SafeInv, TypeOK, QueueType
  <2>2. Members(todo) = {} /\ \A a \in Acts : DrillVerdict(a, skippedParents, outcome)
    BY <2>1 DEF HeldBack
  <2>3. CASE NextRound
    <3>1. /\ todo' = deferred \o throttled /\ deferred' = <<>> /\ throttled' = <<>>
          /\ UNCHANGED <<phase, outcome>> /\ pc' = "take"
      BY <2>3 DEF NextRound
    <3>2. Members(todo') \subseteq Members(deferred) \cup Members(throttled)
      BY <1>0, <2>1, <3>1, DistinctBoth DEF OnceInv, Once
    <3>3. Members(deferred') = {} /\ Members(throttled') = {}
      BY <3>1, NothingSalvaged
    <3>4. \A a \in Members(todo') : Passes(a, skippedParents)
      BY <2>1, <3>2 DEF HeldBack
    <3>5. completed \cap Members(todo') = {}
      BY <2>1, <3>2 DEF Undone
    <3> QED BY <1>0, <2>1, <2>2, <3>1, <3>3, <3>4, <3>5, HeldNext
            DEF HeldBack, Undone, Writing
  <2>4. CASE EndOfRounds
    <3>1. /\ UNCHANGED <<deferred, throttled>>
          /\ \A a \in Acts : outcome'[a] = IF a \in Members(deferred) THEN "stalled"
                                           ELSE outcome[a]
      BY <2>4 DEF EndOfRounds
    <3>2. \A a \in Acts : DrillVerdict(a, skippedParents, outcome')
      BY <2>1, <2>2, <3>1 DEF HeldBack, Passes, DrillVerdict
    <3>3. CASE salvageRound = <<>>
      <4>1. pc' = "finished" /\ UNCHANGED <<phase, todo>>
        BY <2>4, <3>3 DEF EndOfRounds
      <4> QED BY <1>0, <2>1, <2>2, <3>1, <3>2, <4>1, HeldNext DEF HeldBack, Undone, Writing
    <3>4. CASE salvageRound # <<>>
      <4>1. pc' = "send" /\ phase' = "salvage" /\ todo' = salvageRound
        BY <2>4, <3>4 DEF EndOfRounds
      <4>2. cur' \in Members(todo')
        BY <2>1, <3>4, <4>1, MembersOfRest DEF cur
      <4>3. \A a \in Members(todo') : Passes(a, skippedParents)
        BY <2>1, <4>1 DEF HeldBack
      <4> QED BY <1>0, <2>1, <3>1, <3>2, <4>1, <4>2, <4>3, HeldNext DEF HeldBack, Undone
    <3> QED BY <3>3, <3>4
  <2> QED BY <1>7, <2>3, <2>4
<1>8. CASE Start
  <2>1. runs = 0 /\ completed = {} /\ runs' = 1 /\ UNCHANGED completed
    BY <1>0, <1>8 DEF Start, SafeInv, TypeOK, BoundType, HeldInv
  <2>2. /\ pc' = "take" /\ phase' = "main" /\ todo' = Plan /\ deferred' = <<>>
        /\ throttled' = <<>> /\ salvageRound' = <<>> /\ skippedParents' = {}
    BY <1>8, Zenon DEF Start, FreshLocals
  <2>3. \A a \in Acts : a \in Members(todo')
    BY <2>2, PlanAssumption DEF Members
  <2>4. /\ Ordered(todo')
        /\ Members(deferred') = {} /\ Members(throttled') = {} /\ Members(salvageRound') = {}
    BY <2>2, PlanIsOrdered, NothingSalvaged
  <2> QED BY <1>0, <2>1, <2>2, <2>3, <2>4, HeldNext DEF Writing
<1>9. CASE Crash
  <2>1. pc' = "down" /\ UNCHANGED <<runs, completed>> /\ runs # 0
    BY <1>9, Zenon DEF Crash, FreshLocals, HeldInv
  <2> QED BY <1>0, <2>1 DEF HeldInv
<1>10. CASE Incident \/ ByHand \/ UNCHANGED vars
  <2>1. UNCHANGED <<phase, todo, deferred, throttled, salvageRound, skippedParents,
                    outcome, completed, runs, pc>>
    BY <1>10 DEF Incident, ByHand, vars
  <2>2. CASE pc = "down"
    BY <1>0, <2>1, <2>2 DEF HeldInv
  <2>3. CASE pc # "down"
    BY <1>0, <2>1, <2>3, HeldGoesOn DEF HeldInv, HeldBack
  <2> QED BY <2>2, <2>3
<1> QED BY <1>3, <1>4, <1>5, <1>6, <1>7, <1>8, <1>9, <1>10
        DEF Next, Step, Guard, Send, Respond, Settling

-----------------------------------------------------------------------------
(* An object that can be looked up is made once.                           *)

\* The actions whose lookup tells the objects of a scope apart.
Looks(a) == Creates(a) /\ "key" \in Attr[a].match /\ Attr[a].readable

\* Every ID about is one the server assigned before, or an object's own.
Below(o) == o.id < nextId /\ \A n \in o.in : n < nextId
FreshIds ==
  /\ nextId \in Nat /\ nextId > 0
  /\ \A o \in live : Below(o)
  /\ \A r \in mappings : r.new < nextId
  /\ \A c \in probeCache : \A o \in c.seen : o.id < nextId
  /\ newId < nextId

\* What is looked for was sent by this executor, or the dashboard marks it as
\* its collection's default; when it is sent again, it is not there.
Known == \A o \in live : Looks(o.for) /\ ~Attr[o.for].flag => o.for \in attempted
Looked ==
  pc \in {"send", "call"} /\ phase = "main" /\ Looks(cur) /\ ScopeResolves(cur) =>
    Counterparts(cur) = {}
Scoped == pc = "call" => ScopeResolves(cur)
\* What is kept for the end of the run, which sends without looking.
Kept(a) == Looks(a) => Attr[a].shared
KeptForLater ==
  /\ \A a \in Members(salvageRound) : Kept(a)
  /\ phase = "salvage" /\ pc # "finished" => \A a \in Members(todo) : Kept(a)
DupInv ==
  SafeInv /\ Salvaging /\ FreshIds /\ Known /\ Looked /\ Scoped /\ KeptForLater /\ NoDuplicate

\* What the theorem is about: lookups are answered and a create is not
\* refused for no reason; what is there at first, or comes with its parent,
\* is found by other means; and only server-assigned parents come with it.
LookupsWork == Faults \cap {"read", "refuse"} = {}
NothingUnknown ==
  /\ \A a \in Survivors : Looks(a) => Attr[a].flag
  /\ \A a \in Acts : Attr[a].born /\ Looks(a) => Attr[a].flag
ParentsAreNumbered ==
  \A a \in Acts : Creates(a) /\ Born(a) # {} => "client" \notin Attr[a].match

\* What a probe finds is an object of the target, or was when it was cached.
About(o) == o \in live \/ \E c \in probeCache : o \in c.seen

LEMMA ProbeFinds ==
  ASSUME NEW a, NEW p \in Probes(a)
  PROVE  /\ p.answer.found # NoId =>
              \E o : About(o) /\ o.for = a /\ o.id = p.answer.found
         /\ \A c \in p.cache : \A o \in c.seen : About(o)
<1> DEFINE Finds(n) == n # NoId => \E o : About(o) /\ o.for = a /\ o.id = n
           Lists(l) == \A o \in l.seen : About(o)
           cached == {c \in probeCache : c.coll = Attr[a].coll /\ c.in = Scope(a)}
           keep(v) == [answer |-> v, cache |-> probeCache]
           read == Listing(a, Scope(a))
           miss == [answer |-> Answer(a, read), cache |-> probeCache \cup {read}]
<1>1. \A v, n : Verdict(v, n).found = n
  BY DEF Verdict
<1>2. ASSUME NEW l, Lists(l)
      PROVE  Finds(Answer(a, l).found)
  <2> DEFINE hits == {o \in l.seen : o.for = a}
  <2>1. Cardinality(hits) = 1 => hits # {}
    <3> HIDE DEF hits
    <3> QED BY FS_EmptySet
  <2>2. Cardinality(hits) = 1 => Finds((CHOOSE o \in hits : TRUE).id)
    BY <1>2, <2>1
  <2>3. (\E o \in hits : o.id = SameId) => Finds(SameId)
    BY <1>2
  <2>4. Finds(NoId)
    OBVIOUS
  <2> HIDE DEF hits, Finds
  <2>5. Finds(Classify(a, l.seen).found)
    BY <1>1, <2>2, <2>3, <2>4 DEF Classify, hits
  <2> QED BY <1>1, <2>4, <2>5 DEF Answer
<1>3. Lists(read)
  BY DEF Listing, About
<1>4. \A c \in probeCache : Lists(c)
  BY DEF About
<1>5. p \in {keep(Verdict("absent", NoId)), keep(Verdict("unverifiable", NoId)),
             keep(Verdict("proceed", NoId)), keep(Verdict("uncertain", NoId)), miss}
      \/ p \in {keep(Answer(a, c)) : c \in cached}
  BY DEF Probes
<1>6. Finds(NoId)
  OBVIOUS
<1> HIDE DEF read, Lists, Finds
<1>7. Finds(p.answer.found) /\ \A c \in p.cache : Lists(c)
  <2>1. CASE p \in {keep(Answer(a, c)) : c \in cached}
    BY <1>2, <1>4, <2>1
  <2>2. CASE p = miss
    BY <1>2, <1>3, <1>4, <2>2
  <2>3. CASE p \in {keep(Verdict("absent", NoId)), keep(Verdict("unverifiable", NoId)),
                    keep(Verdict("proceed", NoId)), keep(Verdict("uncertain", NoId))}
    BY <1>1, <1>4, <1>6, <2>3
  <2> QED BY <1>5, <2>1, <2>2, <2>3
<1> QED BY <1>7 DEF Finds, Lists

LEMMA ProbeBelow ==
  ASSUME FreshIds, NEW a, NEW p \in Probes(a)
  PROVE  p.answer.found < nextId /\ \A c \in p.cache : \A o \in c.seen : o.id < nextId
<1>1. \A o : About(o) => o.id < nextId
  BY DEF FreshIds, Below, About
<1>2. NoId < nextId
  BY DEF FreshIds, NoId
<1> QED BY <1>1, <1>2, ProbeFinds

LEMMA ScopeBelow ==
  ASSUME FreshIds, NEW a
  PROVE  \A n \in Scope(a) : n < nextId
BY DEF FreshIds, Scope, Targets

\* A step that adds no ID but those the server assigned by then.
LEMMA FreshNext ==
  ASSUME SafeInv, SafeInv', FreshIds, nextId' >= nextId,
         \A o \in live' : o \in live \/ (o.id < nextId' /\ \A n \in o.in : n < nextId'),
         \A r \in mappings' : r \in mappings \/ r.new < nextId',
         \A c \in probeCache' : \A o \in c.seen : o.id < nextId,
         newId' \in {newId, NoId} \/ newId' < nextId'
  PROVE  FreshIds'
<1>1. /\ nextId \in Nat /\ nextId' \in Nat /\ nextId > 0
      /\ newId \in Int /\ newId' \in Int /\ newId < nextId /\ NoId < nextId'
  BY DEF SafeInv, TypeOK, TargetType, ControlType, FreshIds, Ids, NoId
<1>2. \A m \in Int : m < nextId => m < nextId'
  BY <1>1
<1>3. \A o \in live : o.id \in Int /\ o.in \subseteq Int
  BY DEF SafeInv, TypeOK, TargetType, Objects, Ids
<1>4. \A o \in live' : Below(o)'
  BY <1>2, <1>3 DEF FreshIds, Below
<1>5. \A r \in mappings' : r.new < nextId'
  BY <1>2 DEF SafeInv, TypeOK, JournalType, Rows, Ids, FreshIds
<1>6. \A c \in probeCache' : \A o \in c.seen : o.id < nextId'
  BY <1>2 DEF SafeInv, TypeOK, CacheType, Cached, Objects, Ids
<1>7. newId' < nextId'
  BY <1>1, <1>2
<1> QED BY <1>1, <1>4, <1>5, <1>6, <1>7 DEF FreshIds

LEMMA LandedBelow ==
  ASSUME SafeInv, FreshIds, cur \in Acts, Landed(cur)
  PROVE  /\ nextId' >= nextId /\ AssignedId(cur, nextId) < nextId'
         /\ \A o \in live' : o \in live \/ (o.id < nextId' /\ \A n \in o.in : n < nextId')
<1> DEFINE id == AssignedId(cur, nextId)
           written == [for |-> cur, id |-> id, in |-> Scope(cur), body |-> "snapshot",
                       full |-> ListResolves(cur)]
           default(b) == [for |-> b, id |-> AssignedId(b, nextId + 1),
                          in |-> Scope(cur) \cup {id}, body |-> "provisioned",
                          full |-> FALSE]
<1>1. nextId \in Nat /\ nextId' \in Nat /\ nextId > 0 /\ nextId' >= nextId
  BY DEF FreshIds, Landed
<1>2. id < nextId'
  BY <1>1 DEF Landed, AssignedId, SameId
<1>3. Creates(cur) => \A b : AssignedId(b, nextId + 1) < nextId'
  BY <1>1 DEF Landed, AssignedId, SameId
<1>4. Scope(cur) \subseteq Nat /\ \A n \in Scope(cur) : n < nextId'
  <2>1. JournalType
    BY DEF SafeInv, TypeOK
  <2>2. Scope(cur) \subseteq Nat
    BY <2>1, ScopeType DEF Ids
  <2>3. \A n \in Scope(cur) : n < nextId
    BY ScopeBelow
  <2> QED BY <1>1, <2>2, <2>3
<1>5. \A o \in live' : \/ o \in live
                       \/ o = written
                       \/ Creates(cur) /\ \E b \in Acts : o = default(b)
  BY DEF Landed, Born
<1>6. written.id = id /\ written.in = Scope(cur)
  OBVIOUS
<1>7. \A b : default(b).id = AssignedId(b, nextId + 1)
             /\ default(b).in = Scope(cur) \cup {id}
  OBVIOUS
<1> HIDE DEF id, written, default
<1> QED BY <1>1, <1>2, <1>3, <1>4, <1>5, <1>6, <1>7 DEF id

\* Aligning changes what objects hold, not which they are.
Pushed(o) == [o EXCEPT !.body = "snapshot", !.full = TRUE]

LEMMA AlignIs ==
  ASSUME TargetType, NEW a, NEW os \in SUBSET live, Align(a, os)
  PROVE  /\ \A o \in live' : o \in live \/ \E x \in os : o = Pushed(x)
         /\ \A x \in os : Pushed(x).for = x.for /\ Pushed(x).id = x.id /\ Pushed(x).in = x.in
<1>1. live' = live \/ live' = (live \ os) \cup {Pushed(o) : o \in os}
  BY DEF Align, Pushed
<1>2. \A o \in os : Pushed(o).for = o.for /\ Pushed(o).id = o.id /\ Pushed(o).in = o.in
  BY DEF TargetType, Objects, Pushed
<1> QED BY <1>1, <1>2

LEMMA FreshStep ==
  ASSUME SafeInv, FreshIds, [Next]_vars
  PROVE  FreshIds'
<1> USE DEF journal, target, local
<1>0. SafeInv' /\ TargetType /\ nextId \in Nat
  BY StepSafe DEF SafeInv, TypeOK, TargetType
<1>a. nextId >= nextId
  BY <1>0
<1>b. \A c \in probeCache : \A o \in c.seen : o.id < nextId
  BY DEF FreshIds
<1>1. CASE SkewedAddress \/ SkipDrill \/ RefuseForeign \/ SkipDead \/ SkipHeld \/ AwaitClaim
           \/ Defer \/ Unresolvable \/ Refused \/ SkipRefused \/ Throttled \/ CallFailed
           \/ SalvageStands \/ NothingToAdopt \/ Dispatch \/ RecordDone \/ NextRound
           \/ EndOfRounds \/ UNCHANGED vars
  <2>1. UNCHANGED <<live, nextId, mappings, probeCache>> /\ newId' \in {newId, NoId}
    BY <1>1 DEF SkewedAddress, SkipDrill, RefuseForeign, SkipDead, SkipHeld, AwaitClaim,
       Defer, Unresolvable, Refused, SkipRefused, Throttled, CallFailed, SalvageStands,
       NothingToAdopt, Dispatch, RecordDone, NextRound, EndOfRounds, vars, Fail, Settle,
       Advance
  <2> QED BY <1>0, <1>a, <1>b, <2>1, FreshNext
<1>2. CASE SkipCompleted \/ VerifyBlocks \/ Reexecute \/ VerifyPasses
  <2>1. cur \in Acts
    <3>1. todo # <<>>
      BY <1>2 DEF SafeInv, Working, SkipCompleted, VerifyBlocks, Reexecute, VerifyPasses,
         Taking, Cleared, Addressing
    <3> QED BY <3>1, CurrentAction
  <2>2. UNCHANGED <<live, nextId>> /\ newId' \in {newId, NoId}
    BY <1>2 DEF SkipCompleted, VerifyBlocks, Reexecute, VerifyPasses, Fail, Settle, Advance
  <2>3. probeCache' = probeCache \/ \E p \in Probes(cur) : probeCache' = p.cache
    BY <1>2 DEF SkipCompleted, VerifyBlocks, Reexecute, VerifyPasses
  <2>4. \A c \in probeCache' : \A o \in c.seen : o.id < nextId
    BY <1>b, <2>1, <2>3, ProbeBelow
  <2>5. mappings' \subseteq mappings \/ \E p \in Probes(cur) : RecoverMapping(p.answer.found)
    BY <1>2 DEF SkipCompleted, VerifyBlocks, Reexecute, VerifyPasses
  <2>6. \A r \in mappings' : r \in mappings \/ r.new < nextId
    BY <2>1, <2>5, ProbeBelow DEF RecoverMapping, Row
  <2> QED BY <1>0, <1>a, <2>2, <2>4, <2>6, FreshNext
<1>3. CASE Recover \/ AdoptDefault \/ AdoptConflicting
  <2>1. UNCHANGED <<nextId, mappings, probeCache>>
    BY <1>3 DEF Recover, AdoptDefault, AdoptConflicting
  <2>2. \A o \in Visible(cur) \cup Reconciled(cur) : o \in live
    BY SeenIsThere
  <2>3. newId' < nextId
    BY <1>3, <2>2 DEF Recover, AdoptDefault, AdoptConflicting, FreshIds, Below, SameId,
       SiblingMapping
  <2>4. \/ UNCHANGED live
        \/ \E os \in SUBSET live : Align(cur, os)
    BY <1>3, SeenIsThere DEF Recover, AdoptDefault, AdoptConflicting
  <2>5. \A o \in live' : o \in live \/ (o.id < nextId /\ \A n \in o.in : n < nextId)
    <3>1. ASSUME NEW os \in SUBSET live, Align(cur, os)
          PROVE  \A o \in live' : o \in live \/ \E x \in live : o.id = x.id /\ o.in = x.in
      BY <1>0, <3>1, AlignIs
    <3> QED BY <2>4, <3>1 DEF FreshIds, Below
  <2> QED BY <1>0, <1>a, <1>b, <2>1, <2>3, <2>5, FreshNext
<1>4. CASE Accepted \/ LostAnswer
  <2>1. Landed(cur) /\ UNCHANGED <<mappings, probeCache>>
    BY <1>4 DEF Accepted, LostAnswer
  <2>2. cur \in Acts
    <3>1. todo # <<>>
      BY <1>4 DEF SafeInv, Working, Accepted, LostAnswer
    <3> QED BY <3>1, CurrentAction
  <2>3. newId' \in {AssignedId(cur, nextId), NoId}
    BY <1>4 DEF Accepted, LostAnswer, Fail, Settle, Advance
  <2> QED BY <1>0, <1>b, <2>1, <2>2, <2>3, LandedBelow, FreshNext
<1>5. CASE RecordMapping
  <2>1. UNCHANGED <<live, nextId, probeCache, newId>>
    BY <1>5 DEF RecordMapping
  <2>2. \A r \in mappings' : r \in mappings \/ r.new < nextId
    BY <1>5 DEF RecordMapping, Row, FreshIds
  <2> QED BY <1>0, <1>a, <1>b, <2>1, <2>2, FreshNext
<1>6. CASE Start \/ Crash
  <2>1. UNCHANGED <<live, nextId, mappings>> /\ probeCache' = {} /\ newId' = NoId
    BY <1>6, Zenon DEF Start, Crash, FreshLocals
  <2> QED BY <1>0, <1>a, <2>1, FreshNext
<1>7. CASE Incident
  <2>1. UNCHANGED <<nextId, mappings, probeCache, newId>> /\ live' \subseteq live
    BY <1>7 DEF Incident
  <2> QED BY <1>0, <1>a, <1>b, <2>1, FreshNext
<1>8. CASE ByHand
  <2>1. UNCHANGED <<mappings, probeCache, newId>> /\ nextId' = nextId + 1
    BY <1>8 DEF ByHand
  <2>a. PICK a \in Acts : \E scope \in Placements(a) :
          live' = live \cup {[for |-> a, id |-> AssignedId(a, nextId), in |-> scope,
                              body |-> "operator", full |-> TRUE]}
    BY <1>8 DEF ByHand
  <2>2. PICK scope \in Placements(a) :
          live' = live \cup {[for |-> a, id |-> AssignedId(a, nextId), in |-> scope,
                              body |-> "operator", full |-> TRUE]}
    BY <2>a
  <2>3. AssignedId(a, nextId) < nextId'
    BY <1>0, <2>1 DEF AssignedId, SameId, FreshIds
  <2>4. \A n \in scope : \E o \in live : n = o.id
    BY DEF Placements
  <2>5. \A n \in scope : n < nextId'
    <3>1. \A o \in live : o.id \in Nat /\ o.id < nextId
      BY <1>0 DEF FreshIds, Below, TargetType, Objects, Ids
    <3> QED BY <1>0, <2>1, <2>4, <3>1
  <2>6. \A o \in live' : o \in live \/ (o.id < nextId' /\ \A n \in o.in : n < nextId')
    BY <2>2, <2>3, <2>5
  <2> QED BY <1>0, <1>b, <2>1, <2>6, FreshNext
<1> QED BY <1>1, <1>2, <1>3, <1>4, <1>5, <1>6, <1>7, <1>8
        DEF Next, Step, Guard, Send, Respond, Settling

\* What a step does to the target.
LEMMA TargetChanges ==
  ASSUME [Next]_vars
  PROVE  /\ \/ UNCHANGED live
            \/ pc = "call" /\ Accepts(cur) /\ Landed(cur)
            \/ \E os \in SUBSET live : Align(cur, os)
            \/ Incident \/ ByHand
         /\ attempted \subseteq attempted'
         /\ EnvWhen = "never" => ~Incident /\ ~ByHand
<1> USE DEF journal, target
<1>1. CASE AdoptDefault \/ AdoptConflicting
  BY <1>1, SeenIsThere DEF AdoptDefault, AdoptConflicting, Incident, ByHand, EnvMoment
<1>2. CASE Accepted \/ LostAnswer
  BY <1>2 DEF Accepted, LostAnswer, Incident, ByHand, EnvMoment
<1>3. CASE Incident \/ ByHand
  BY <1>3 DEF Incident, ByHand, EnvMoment
<1>4. CASE ~(AdoptDefault \/ AdoptConflicting \/ Accepted \/ LostAnswer \/ Incident \/ ByHand)
  BY <1>4 DEF Next, Step, Guard, Send, Respond, Settling, SkewedAddress, SkipDrill,
     SkipCompleted, Reexecute, RefuseForeign, SkipDead, SkipHeld, AwaitClaim, VerifyBlocks,
     VerifyPasses, Recover, NothingToAdopt, Dispatch, Defer, Unresolvable, Refused,
     SkipRefused, Throttled, CallFailed, SalvageStands, RecordMapping, RecordDone, NextRound,
     EndOfRounds, Start, Crash, vars
<1> QED BY <1>1, <1>2, <1>3, <1>4

\* What lands, taken apart.
LEMMA LandedIs ==
  ASSUME NEW a, Landed(a)
  PROVE  \A o \in live' :
           \/ o \in live /\ (Attr[a].kind = "configure" => o \notin Counterparts(a))
           \/ o.for = a /\ o.in = Scope(a)
              /\ o = [for |-> a, id |-> AssignedId(a, nextId), in |-> Scope(a),
                      body |-> "snapshot", full |-> ListResolves(a)]
           \/ Creates(a) /\ \E b \in Born(a) :
                /\ o.for = b /\ o.in = Scope(a) \cup {AssignedId(a, nextId)}
                /\ o = [for |-> b, id |-> AssignedId(b, nextId + 1),
                        in |-> Scope(a) \cup {AssignedId(a, nextId)},
                        body |-> "provisioned", full |-> FALSE]
BY DEF Landed

LEMMA KnownStep ==
  ASSUME EnvWhen = "never", NothingUnknown, SafeInv, Known, [Next]_vars
  PROVE  Known'
<1>1. attempted \subseteq attempted'
  BY TargetChanges
<1>2. SUFFICES ASSUME NEW o \in live', Looks(o.for), ~Attr[o.for].flag
               PROVE  o.for \in attempted
  BY <1>1 DEF Known, Looks, Creates
<1>3. CASE UNCHANGED live
  BY <1>2, <1>3 DEF Known
<1>4. CASE pc = "call" /\ Landed(cur)
  <2>1. \/ o \in live
        \/ o.for = cur
        \/ \E b \in Born(cur) : o.for = b
    BY <1>4, LandedIs
  <2>2. Creates(cur) => cur \in attempted
    BY <1>4 DEF SafeInv, CallJournaled
  <2> QED BY <1>2, <2>1, <2>2 DEF Known, Looks, Born, NothingUnknown
<1>5. CASE \E os \in SUBSET live : Align(cur, os)
  <2>1. \E x \in live : o.for = x.for
    BY <1>5, AlignIs DEF SafeInv, TypeOK
  <2> QED BY <1>2, <2>1 DEF Known
<1> QED BY <1>3, <1>4, <1>5, TargetChanges

\* Two objects of one scope that a lookup finds are one.
LEMMA SoleCounterpart ==
  ASSUME NoDuplicate, NEW a, Looks(a), Counterparts(a) # {}
  PROVE  Sole(Counterparts(a))
<1>1. PICK o : o \in Counterparts(a)
  OBVIOUS
<1>2. \A p \in Counterparts(a) : p = o
  BY <1>1 DEF NoDuplicate, Counterparts, Holds, Looks
<1>3. Counterparts(a) = {o}
  BY <1>1, <1>2
<1> QED BY <1>3, FS_Singleton DEF Sole

LEMMA AddressKept ==
  ASSUME UNCHANGED <<live, mappings, todo>>
  PROVE  /\ ScopeResolves(cur)' <=> ScopeResolves(cur)
         /\ Counterparts(cur)' = Counterparts(cur)
         /\ Looks(cur)' <=> Looks(cur)
<1>1. cur' = cur /\ \A i, a : Targets(i, a)' = Targets(i, a)
  BY DEF Targets, cur
<1>2. ScopeResolves(cur)' <=> ScopeResolves(cur)
  BY <1>1 DEF ScopeResolves, Resolves
<1>3. Counterparts(cur)' = Counterparts(cur)
  BY <1>1 DEF Counterparts, Holds, Scope
<1>4. Looks(cur)' <=> Looks(cur)
  BY <1>1 DEF Looks, Creates
<1> QED BY <1>2, <1>3, <1>4

\* How an action comes to be sent or called.
LEMMA Sending ==
  ASSUME SafeInv, [Next]_vars, pc' \in {"send", "call"}
  PROVE  \/ NothingToAdopt \/ Dispatch \/ UNCHANGED vars
         \/ phase' = "salvage" /\ pc' = "send"
<1>1. CASE Start \/ Crash
  BY <1>1, Zenon DEF Start, Crash, FreshLocals
<1>2. CASE ~(Start \/ Crash)
  BY <1>2 DEF Next, Step, Guard, Send, Respond, Settling, SkewedAddress, SkipDrill,
     SkipCompleted, Reexecute, RefuseForeign, SkipDead, SkipHeld, AwaitClaim, VerifyBlocks,
     VerifyPasses, Recover, AdoptDefault, Defer, Unresolvable, Accepted, LostAnswer,
     AdoptConflicting, Refused, SkipRefused, Throttled, CallFailed, SalvageStands,
     RecordMapping, RecordDone, NextRound, EndOfRounds, Incident, ByHand, EnvMoment,
     Fail, Settle, Advance, SafeInv, TypeOK, ControlType
<1> QED BY <1>1, <1>2

LEMMA ScopedStep ==
  ASSUME SafeInv, Scoped, [Next]_vars
  PROVE  Scoped'
<1> SUFFICES ASSUME pc' = "call"
             PROVE  ScopeResolves(cur)'
  BY DEF Scoped
<1>1. Dispatch \/ UNCHANGED vars
  BY Sending DEF NothingToAdopt
<1>2. UNCHANGED <<live, mappings, todo>> /\ ScopeResolves(cur)
  BY <1>1 DEF Dispatch, Ready, Scoped, vars, journal, target, rounds
<1> QED BY <1>2, AddressKept

LEMMA LookedStep ==
  ASSUME EnvWhen = "never", LookupsWork, DupInv, [Next]_vars
  PROVE  Looked'
<1> SUFFICES ASSUME pc' \in {"send", "call"}, phase' = "main", Looks(cur)',
                    ScopeResolves(cur)'
             PROVE  Counterparts(cur)' = {}
  BY DEF Looked
<1>0. /\ SafeInv /\ Known /\ Looked /\ NoDuplicate
      /\ NothingToAdopt \/ Dispatch \/ UNCHANGED vars
  BY Sending DEF DupInv
<1>1. UNCHANGED <<live, mappings, todo, phase>>
  BY <1>0 DEF NothingToAdopt, Dispatch, vars, journal, target, rounds
<1>2. Looks(cur) /\ ScopeResolves(cur)
  BY <1>1, AddressKept
<1>3. Counterparts(cur) = {}
  <2>1. CASE NothingToAdopt
    <3>1. Visible(cur) = Counterparts(cur)
      BY <1>2 DEF Visible, Looks
    <3>2. /\ cur \in attempted => ~Sole(Counterparts(cur)) \/ Counterparts(cur) = {}
          /\ Attr[cur].flag => ~Sole(Counterparts(cur))
      BY <1>2, <2>1, <3>1 DEF NothingToAdopt, ReadsFail, LookupsWork, Reconciled, Looks
    <3>3. CASE cur \in attempted \/ Attr[cur].flag
      BY <1>0, <1>2, <3>2, <3>3, SoleCounterpart
    <3>4. CASE cur \notin attempted /\ ~Attr[cur].flag
      BY <1>0, <1>2, <3>4 DEF Known, Counterparts, Holds
    <3> QED BY <3>3, <3>4
  <2>2. CASE Dispatch \/ UNCHANGED vars
    <3>1. pc \in {"send", "call"} /\ phase = "main"
      BY <1>1, <2>2 DEF Dispatch, vars
    <3> QED BY <1>0, <1>2, <3>1 DEF Looked
  <2> QED BY <1>0, <2>1, <2>2
<1> QED BY <1>1, <1>3, AddressKept

LEMMA KeptStep ==
  ASSUME EnvWhen = "never", LookupsWork, DupInv, [Next]_vars
  PROVE  KeptForLater'
<1>0. SafeInv /\ Salvaging /\ KeptForLater /\ Looked /\ Scoped /\ TakesUp
  BY StepsTakeUp DEF DupInv
<1>1. \A a \in Members(salvageRound') : Kept(a)
  <2>1. CASE Refused
    <3>1. Conflicts(cur) /\ NothingAdoptable /\ pc = "call" /\ phase = "main"
      BY <2>1 DEF Refused, LookupsWork
    <3>2. Counterparts(cur) = {} \/ ~Looks(cur)
      BY <1>0, <3>1 DEF Looked, Scoped
    <3>3. Kept(cur)
      BY <3>1, <3>2 DEF Conflicts, Kept
    <3> QED BY <1>0, <3>3 DEF TakesUp, KeptForLater
  <2>2. CASE ~Refused
    <3>1. UNCHANGED salvageRound \/ salvageRound' = <<>>
      <4>1. CASE Start \/ Crash
        BY <4>1, Zenon DEF Start, Crash, FreshLocals
      <4>2. CASE ~(Start \/ Crash)
        BY <2>2, <4>2 DEF Next, Step, Guard, Send, Respond, Settling, SkewedAddress,
           SkipDrill, SkipCompleted, Reexecute, RefuseForeign, SkipDead, SkipHeld, AwaitClaim,
           VerifyBlocks, VerifyPasses, Recover, AdoptDefault, NothingToAdopt, Dispatch, Defer,
           Unresolvable, Accepted, LostAnswer, AdoptConflicting, SkipRefused, Throttled,
           CallFailed, SalvageStands, RecordMapping, RecordDone, NextRound, EndOfRounds,
           Incident, ByHand, vars, retries
      <4> QED BY <4>1, <4>2
    <3> QED BY <1>0, <3>1, NothingSalvaged DEF KeptForLater
  <2> QED BY <2>1, <2>2
<1>2. phase' = "salvage" /\ pc' # "finished" => \A a \in Members(todo') : Kept(a)
  BY <1>0 DEF TakesUp, KeptForLater
<1> QED BY <1>1, <1>2 DEF KeptForLater, Kept, Looks, Creates, Members

\* What is called was looked for, or is refused if it is there.
LEMMA CalledForOnce ==
  ASSUME DupInv, pc = "call", Accepts(cur)
  PROVE  /\ cur \in Acts
         /\ Attr[cur].kind # "configure" /\ "key" \in Attr[cur].match /\ Attr[cur].readable =>
              Counterparts(cur) = {}
<1>0. /\ todo # <<>> /\ cur \in Acts /\ todo \in Seq(Acts) /\ Attr[cur].kind \in Kinds
  BY CurrentAction DEF DupInv, SafeInv, Working, TypeOK, QueueType, AttrType
<1>1. CASE Attr[cur].kind = "claim"
  BY <1>0, <1>1 DEF Accepts
<1>2. CASE Looks(cur)
  <2>1. Counterparts(cur) = {} \/ ~Attr[cur].shared
    BY <1>2 DEF Accepts, Conflicts, Looks, Tolerated
  <2>2. phase = "main" => Counterparts(cur) = {}
    BY <1>2 DEF DupInv, Looked, Scoped
  <2>3. phase = "salvage" => Attr[cur].shared
    <3>1. cur \in Members(todo)
      BY <1>0, MembersOfRest DEF cur
    <3> QED BY <1>2, <3>1 DEF DupInv, KeptForLater, Kept
  <2> QED BY <1>0, <2>1, <2>2, <2>3 DEF DupInv, SafeInv, TypeOK, ControlType
<1> QED BY <1>0, <1>1, <1>2 DEF Kinds, Creates, Looks

\* A call that lands makes nothing a second time.
LEMMA LandsOnce ==
  ASSUME ParentsAreNumbered, SafeInv, FreshIds, NoDuplicate, cur \in Acts, Landed(cur),
         Attr[cur].kind # "configure" /\ "key" \in Attr[cur].match /\ Attr[cur].readable =>
           Counterparts(cur) = {}
  PROVE  NoDuplicate'
<1> DEFINE found(o) == "key" \in Attr[o.for].match /\ Attr[o.for].readable
<1>0. nextId \in Nat
  BY DEF SafeInv, TypeOK, TargetType
<1>2. \A n \in Scope(cur) : n < nextId /\ n # nextId
  BY <1>0, ScopeBelow
<1>3. Born(cur) # {} /\ Creates(cur) => AssignedId(cur, nextId) = nextId
  BY <1>0 DEF ParentsAreNumbered, AssignedId
<1>4. SUFFICES ASSUME NEW o \in live', NEW p \in live', o.for = p.for, o.in = p.in, found(o)
               PROVE  o = p
  BY DEF NoDuplicate
<1> DEFINE Old(x) == x \in live /\ (Attr[cur].kind = "configure" => x \notin Counterparts(cur))
           Written(x) == x.for = cur /\ x.in = Scope(cur)
              /\ x = [for |-> cur, id |-> AssignedId(cur, nextId), in |-> Scope(cur),
                      body |-> "snapshot", full |-> ListResolves(cur)]
           Default(x, b) ==
                /\ x.for = b /\ x.in = Scope(cur) \cup {nextId}
                /\ x = [for |-> b, id |-> AssignedId(b, nextId + 1),
                        in |-> Scope(cur) \cup {nextId},
                        body |-> "provisioned", full |-> FALSE]
<1>5. \A x \in live' : Old(x) \/ Written(x) \/ \E b \in Acts : Default(x, b)
  BY <1>3, LandedIs DEF Born
<1>6. \A x : Old(x) => nextId \notin x.in
  BY <1>0 DEF FreshIds, Below
<1>7. nextId \notin Scope(cur)
  BY <1>0, <1>2
<1>8. \A x, y : Old(x) /\ Written(y) /\ x.for = y.for /\ x.in = y.in => ~found(x)
  BY DEF Counterparts, Holds
<1>9. \A x, y : Old(x) /\ Old(y) /\ x.for = y.for /\ x.in = y.in /\ found(x) => x = y
  BY DEF NoDuplicate
<1>10. \A x, y : Written(x) /\ Written(y) => x = y
  BY Zenon
<1>11. \A x, y, b, c : Default(x, b) /\ Default(y, c) /\ x.for = y.for => x = y
  BY Zenon
<1>12. \A x, b : Default(x, b) => nextId \in x.in
  OBVIOUS
<1>13. \A x : Written(x) => nextId \notin x.in
  BY <1>7
<1>14. found(p)
  BY <1>4
<1> HIDE DEF Old, Written, Default, found
<1> QED BY <1>4, <1>5, <1>6, <1>8, <1>9, <1>10, <1>11, <1>12, <1>13, <1>14

LEMMA AlignsOnce ==
  ASSUME TargetType, NoDuplicate, NEW a, NEW os \in SUBSET live, Align(a, os)
  PROVE  NoDuplicate'
<1>1. live' = live \/ live' = (live \ os) \cup {Pushed(o) : o \in os}
  BY DEF Align, Pushed
<1>2. /\ \A x \in os : Pushed(x).for = x.for /\ Pushed(x).in = x.in
      /\ \A x, y \in live : x.for = y.for /\ x.in = y.in
           /\ "key" \in Attr[x.for].match /\ Attr[x.for].readable => x = y
  BY AlignIs DEF NoDuplicate
<1> QED BY <1>1, <1>2 DEF NoDuplicate

LEMMA DupStep ==
  ASSUME EnvWhen = "never", LookupsWork, NothingUnknown, ParentsAreNumbered, DupInv,
         [Next]_vars
  PROVE  DupInv'
<1>0. SafeInv /\ Salvaging /\ FreshIds /\ Known /\ Scoped /\ NoDuplicate /\ TargetType
  BY DEF DupInv, SafeInv, TypeOK
<1>1. SafeInv' /\ Salvaging' /\ FreshIds'
  BY <1>0, StepSafe, StepsTakeUp, FreshStep
<1>2. Known' /\ Looked' /\ Scoped' /\ KeptForLater'
  BY <1>0, KnownStep, LookedStep, ScopedStep, KeptStep
<1>3. NoDuplicate'
  <2>1. CASE UNCHANGED live
    BY <1>0, <2>1 DEF NoDuplicate
  <2>2. CASE pc = "call" /\ Accepts(cur) /\ Landed(cur)
    BY <1>0, <2>2, CalledForOnce, LandsOnce
  <2>3. CASE \E os \in SUBSET live : Align(cur, os)
    BY <1>0, <2>3, AlignsOnce
  <2> QED BY <2>1, <2>2, <2>3, TargetChanges
<1> QED BY <1>1, <1>2, <1>3 DEF DupInv

-----------------------------------------------------------------------------
(* Mappings stay in their network.                                         *)

\* No object of another scope has both this ID and this identity.
Leads(n, ident, ctx) ==
  n # SameId => \A o \in live : o.id = n /\ Attr[o.for].own = ident /\ ~Attr[o.for].shared
                                  => Attr[o.for].path = ctx
Itself(o) == Leads(o.id, Attr[o.for].own, Attr[o.for].path)
IdsLead ==
  /\ \A o \in live : Itself(o)
  /\ \A c \in probeCache : \A o \in c.seen : Itself(o)
  /\ newId # NoId => Leads(newId, Attr[cur].own, Attr[cur].path)
ScopeInv == SafeInv /\ FreshIds /\ Scoped /\ NoDuplicate /\ IdsLead /\ MappingStaysInScope

\* What the theorem is about: an object that is refused because it is there
\* already is found there; whether networks share it is a matter of its type.
NamesakesAreFound ==
  /\ Faults \cap {"read", "duplicate"} = {}
  /\ \A a \in Acts : Creates(a) /\ "key" \in Attr[a].match /\ ~Attr[a].shared =>
       Attr[a].readable
SharedAlike ==
  \A a, b \in Acts : Attr[a].own = Attr[b].own => Attr[a].shared = Attr[b].shared

\* The IDs about at any time lead where they led; a step brings no others
\* than those the server assigns in it.
LEMMA LeadsKept ==
  ASSUME NEW n, NEW ident, NEW ctx, Leads(n, ident, ctx),
         n = SameId \/ (n \in Int /\ n < nextId), nextId \in Nat,
         \A o \in live' : \/ \E x \in live : x.id = o.id /\ x.for = o.for
                          \/ o.id = SameId
                          \/ o.id \in Nat /\ o.id >= nextId
  PROVE  Leads(n, ident, ctx)'
BY DEF Leads, SameId

LEMMA LandedNumbers ==
  ASSUME SafeInv, FreshIds, NEW a \in Acts, Landed(a), NEW id, id = AssignedId(a, nextId)
  PROVE  /\ \A o \in live' :
              \/ \E x \in live : x.id = o.id /\ x.for = o.for
              \/ (o.id = SameId \/ (o.id \in Nat /\ o.id >= nextId)) /\ Itself(o)'
         /\ Leads(id, Attr[a].own, Attr[a].path)'
<1> DEFINE New(o) == \/ o.for = a /\ o.id = id
                     \/ o.for \in Born(a) /\ o.id = AssignedId(o.for, nextId + 1)
           Old(o) == \E x \in live : x.id = o.id /\ x.for = o.for
<1>0. nextId \in Nat /\ SameId = 0
  BY DEF SafeInv, TypeOK, TargetType, SameId
<1>1. \A o \in live' : Old(o) \/ New(o)
  <2> SUFFICES ASSUME NEW o \in live', o \notin live PROVE New(o)
    OBVIOUS
  <2>1. CASE o = [for |-> a, id |-> id, in |-> Scope(a), body |-> "snapshot",
                  full |-> ListResolves(a)]
    BY <2>1
  <2>2. CASE \E b \in Born(a) :
               o = [for |-> b, id |-> AssignedId(b, nextId + 1),
                    in |-> Scope(a) \cup {id}, body |-> "provisioned", full |-> FALSE]
    BY <2>2
  <2> HIDE DEF New
  <2> QED BY <2>1, <2>2, LandedIs
<1>2. \A b : AssignedId(b, nextId + 1) \in {SameId, nextId + 1}
  BY DEF AssignedId
<1>3. id \in {SameId, nextId}
  BY DEF AssignedId
<1>4. \A x \in live : x.id \in Int /\ x.id < nextId
  BY DEF FreshIds, Below, SafeInv, TypeOK, TargetType, Objects, Ids
<1>5. \A o \in live' : New(o) => o.id \in {SameId, nextId, nextId + 1}
  BY <1>2, <1>3
<1>6. ASSUME NEW o \in live', New(o), o.id # SameId, NEW x \in live', x.id = o.id
      PROVE  Attr[x.for].path = Attr[o.for].path
  <2>1. New(x)
    BY <1>0, <1>1, <1>4, <1>5, <1>6
  <2>2. CASE o.id = nextId
    BY <1>0, <1>2, <1>6, <2>1, <2>2
  <2>3. CASE o.id = nextId + 1
    <3>1. nextId + 1 # SameId /\ nextId + 1 # nextId
      BY <1>0
    <3>2. o.for \in Born(a) /\ x.for \in Born(a)
      BY <1>3, <1>6, <2>1, <2>3, <3>1
    <3> QED BY <3>2 DEF Born
  <2> QED BY <1>5, <1>6, <2>2, <2>3
<1>7. \A x \in live' : x.id = id /\ id # SameId => x.for = a
  <2> SUFFICES ASSUME NEW x \in live', x.id = id, id # SameId PROVE x.for = a
    OBVIOUS
  <2>1. New(x) /\ x.id = nextId
    BY <1>0, <1>1, <1>3, <1>4
  <2> QED BY <1>0, <1>2, <2>1
<1> HIDE DEF New, Old
<1>8. Leads(id, Attr[a].own, Attr[a].path)'
  BY <1>7 DEF Leads
<1> QED BY <1>0, <1>1, <1>5, <1>6, <1>8 DEF Itself, Leads, Old

\* The objects a step adds, and where their IDs lead.
LEMMA AddedLead ==
  ASSUME SafeInv, FreshIds, [Next]_vars
  PROVE  \A o \in live' :
           \/ \E x \in live : x.id = o.id /\ x.for = o.for
           \/ o.id = SameId /\ Itself(o)'
           \/ o.id \in Nat /\ o.id >= nextId /\ Itself(o)'
<1>0. nextId \in Nat /\ TargetType
  BY DEF SafeInv, TypeOK, TargetType
<1>1. CASE UNCHANGED live \/ Incident
  BY <1>1 DEF Incident
<1>2. CASE pc = "call" /\ Landed(cur)
  <2>1. cur \in Acts
    BY <1>2, CurrentAction DEF SafeInv, Working
  <2> QED BY <1>2, <2>1, LandedNumbers
<1>3. CASE \E os \in SUBSET live : Align(cur, os)
  BY <1>0, <1>3, AlignIs
<1>4. CASE ByHand
  <2>1. PICK a \in Acts : \E scope \in Placements(a) :
          live' = live \cup {[for |-> a, id |-> AssignedId(a, nextId), in |-> scope,
                              body |-> "operator", full |-> TRUE]}
    BY <1>4 DEF ByHand
  <2>2. PICK scope \in Placements(a) :
          live' = live \cup {[for |-> a, id |-> AssignedId(a, nextId), in |-> scope,
                              body |-> "operator", full |-> TRUE]}
    BY <2>1
  <2>3. \A o \in live' : o \in live \/ (o.for = a /\ o.id = AssignedId(a, nextId))
    BY <2>2
  <2>4. \A x \in live : x.id \in Int /\ x.id < nextId
    BY <1>0 DEF FreshIds, Below, TargetType, Objects, Ids
  <2>5. AssignedId(a, nextId) \in {SameId, nextId}
    BY DEF AssignedId
  <2> QED BY <1>0, <2>3, <2>4, <2>5 DEF Itself, Leads
<1> QED BY <1>1, <1>2, <1>3, <1>4, TargetChanges

LEMMA LeadsNext ==
  ASSUME SafeInv, FreshIds, IdsLead, MappingStaysInScope, [Next]_vars,
         \A r \in mappings' :
           r \in mappings
           \/ (r.new < nextId /\ r.new \in Int /\ Leads(r.new, r.ident, r.ctx)),
         \A c \in probeCache' : \A o \in c.seen : About(o),
         NEW n, newId' = n,
         n # NoId => cur' = cur,
         NEW i, i = Attr[cur].own, NEW ctx, ctx = Attr[cur].path,
         n # NoId => (n \in Int /\ n < nextId /\ Leads(n, i, ctx)) \/ Leads(n, i, ctx)'
  PROVE  IdsLead' /\ MappingStaysInScope'
<1> DEFINE Stay == \A o \in live' : \/ \E x \in live : x.id = o.id /\ x.for = o.for
                                    \/ o.id = SameId
                                    \/ o.id \in Nat /\ o.id >= nextId
<1>0. nextId \in Nat /\ Stay
  BY AddedLead DEF SafeInv, TypeOK, TargetType
<1>1. ASSUME NEW m, NEW j, NEW c, Leads(m, j, c), m \in Int, m < nextId
      PROVE  Leads(m, j, c)'
  BY <1>0, <1>1, LeadsKept
<1>2. ASSUME NEW o, About(o)
      PROVE  Itself(o)'
  <2>1. o.id \in Int /\ o.id < nextId /\ Leads(o.id, Attr[o.for].own, Attr[o.for].path)
    BY <1>2 DEF About, IdsLead, Itself, FreshIds, Below, SafeInv, TypeOK, TargetType, CacheType,
       Objects, Cached, Ids
  <2> QED BY <1>1, <2>1 DEF Itself
<1>3. \A o \in live' : Itself(o)'
  <2> SUFFICES ASSUME NEW o \in live', NEW x \in live, x.id = o.id, x.for = o.for
               PROVE  Itself(o)'
    BY AddedLead
  <2>1. Itself(x)'
    BY <1>2 DEF About
  <2> QED BY <2>1 DEF Itself, Leads
<1>4. \A c \in probeCache' : \A o \in c.seen : Itself(o)'
  BY <1>2
<1>5. newId' # NoId => Leads(n, i, ctx)'
  BY <1>1
<1>6. IdsLead'
  BY <1>3, <1>4, <1>5 DEF IdsLead, Leads
<1>7. \A r \in mappings' : Leads(r.new, r.ident, r.ctx)'
  <2>1. \A r \in mappings : Leads(r.new, r.ident, r.ctx) /\ r.new \in Int /\ r.new < nextId
    BY DEF MappingStaysInScope, Leads, FreshIds, SafeInv, TypeOK, JournalType, Rows, Ids
  <2> QED BY <1>1, <2>1
<1> QED BY <1>6, <1>7 DEF MappingStaysInScope, Leads

\* A mapping is taken from a sibling network for a shared object only: any
\* other that is refused because it is there is found.
LEMMA SiblingsShare ==
  ASSUME NamesakesAreFound, SafeInv, NoDuplicate, Scoped, pc = "call", Conflicts(cur),
         "client" \notin Attr[cur].match, Reconciled(cur) = {} \/ ReadsFail
  PROVE  Attr[cur].shared
<1> SUFFICES ASSUME ~Attr[cur].shared PROVE FALSE
  OBVIOUS
<1>1. cur \in Acts /\ Attr[cur].match \subseteq {"key", "client"}
  BY CurrentAction DEF SafeInv, Working, AttrType
<1>2. Looks(cur) /\ Counterparts(cur) # {}
  BY <1>1 DEF NamesakesAreFound, Conflicts, Looks
<1>3. Visible(cur) = Counterparts(cur)
  BY <1>2 DEF Scoped, Visible, Looks
<1>4. Sole(Visible(cur))
  BY <1>2, <1>3, SoleCounterpart
<1> QED BY <1>2, <1>3, <1>4 DEF Reconciled, Looks, ReadsFail, NamesakesAreFound

LEMMA NotTwice ==
  ASSUME NamesakesAreFound, ParentsAreNumbered, SafeInv, FreshIds, NoDuplicate, [Next]_vars
  PROVE  NoDuplicate'
<1>0. TargetType
  BY DEF SafeInv, TypeOK
<1>1. CASE UNCHANGED live \/ Incident
  BY <1>1 DEF NoDuplicate, Incident
<1>2. CASE pc = "call" /\ Accepts(cur) /\ Landed(cur)
  <2>1. cur \in Acts /\ Attr[cur].kind \in Kinds
    BY <1>2, CurrentAction DEF SafeInv, Working, AttrType
  <2>2. ~Tolerated(cur)
    BY DEF Tolerated, NamesakesAreFound
  <2>3. Attr[cur].kind # "configure" /\ "key" \in Attr[cur].match /\ Attr[cur].readable =>
          Counterparts(cur) = {}
    BY <1>2, <2>1, <2>2 DEF Accepts, Conflicts, Creates, Kinds
  <2> QED BY <1>2, <2>1, <2>3, LandsOnce
<1>3. CASE \E os \in SUBSET live : Align(cur, os)
  BY <1>0, <1>3, AlignsOnce
<1>4. CASE ByHand
  <2>1. PICK a \in Acts : \E scope \in Placements(a) :
          /\ Holds(a, scope) = {}
          /\ live' = live \cup {[for |-> a, id |-> AssignedId(a, nextId), in |-> scope,
                                 body |-> "operator", full |-> TRUE]}
    BY <1>4 DEF ByHand
  <2>2. PICK scope \in Placements(a) :
          /\ Holds(a, scope) = {}
          /\ live' = live \cup {[for |-> a, id |-> AssignedId(a, nextId), in |-> scope,
                                 body |-> "operator", full |-> TRUE]}
    BY <2>1
  <2> DEFINE made == [for |-> a, id |-> AssignedId(a, nextId), in |-> scope,
                      body |-> "operator", full |-> TRUE]
  <2>3. live' = live \cup {made} /\ made.for = a /\ made.in = scope
    BY <2>2
  <2>4. \A o \in live : ~(o.for = a /\ o.in = scope)
    BY <2>2 DEF Holds
  <2> HIDE DEF made
  <2> QED BY <2>3, <2>4 DEF NoDuplicate
<1> QED BY <1>1, <1>2, <1>3, <1>4, TargetChanges

LEMMA LeadsStep ==
  ASSUME NamesakesAreFound, SharedAlike, ScopeInv, SafeInv', FreshIds', [Next]_vars
  PROVE  IdsLead' /\ MappingStaysInScope'
<1> USE DEF journal, target, local
<1>0. /\ SafeInv /\ FreshIds /\ Scoped /\ NoDuplicate /\ IdsLead /\ MappingStaysInScope
      /\ nextId \in Nat /\ TargetType /\ newId \in Int
  BY DEF ScopeInv, SafeInv, TypeOK, TargetType, ControlType, Ids, NoId
<1>n. PICK n : newId' = n
  OBVIOUS
<1>i. PICK i : i = Attr[cur].own
  OBVIOUS
<1>c. PICK ctx : ctx = Attr[cur].path
  OBVIOUS
<1>a. \A c \in probeCache : \A o \in c.seen : About(o)
  BY DEF About
<1>b. pc \notin {"map", "done"} => newId = NoId
  BY <1>0 DEF SafeInv, IdInHand
<1>1. CASE SkewedAddress \/ SkipDrill \/ RefuseForeign \/ SkipDead \/ SkipHeld \/ AwaitClaim
           \/ Defer \/ Unresolvable \/ Refused \/ SkipRefused \/ Throttled \/ CallFailed
           \/ SalvageStands \/ NothingToAdopt \/ Dispatch \/ RecordDone \/ NextRound
           \/ EndOfRounds \/ LostAnswer \/ Incident \/ ByHand
  <2>1. UNCHANGED <<mappings, probeCache>> /\ newId' = NoId
    BY <1>b, <1>1 DEF SkewedAddress, SkipDrill, RefuseForeign, SkipDead, SkipHeld, AwaitClaim,
       Defer, Unresolvable, Refused, SkipRefused, Throttled, CallFailed, SalvageStands,
       NothingToAdopt, Dispatch, RecordDone, NextRound, EndOfRounds, LostAnswer, Incident,
       ByHand, EnvMoment, Fail, Settle, Advance
  <2> QED BY <1>0, <1>a, <1>n, <1>i, <1>c, <2>1, LeadsNext
<1>2. CASE Start \/ Crash
  <2>1. UNCHANGED mappings /\ probeCache' = {} /\ newId' = NoId
    BY <1>2, Zenon DEF Start, Crash, FreshLocals
  <2> QED BY <1>0, <1>n, <1>i, <1>c, <2>1, LeadsNext
<1>3. CASE UNCHANGED vars
  <2>1. UNCHANGED <<mappings, probeCache, newId>> /\ cur' = cur
    BY <1>3 DEF vars, rounds, cur
  <2>2. n # NoId => n \in Int /\ n < nextId /\ Leads(n, i, ctx)
    BY <1>0, <1>n, <1>i, <1>c, <2>1 DEF IdsLead, FreshIds
  <2> QED BY <1>0, <1>a, <1>n, <1>i, <1>c, <2>1, <2>2, LeadsNext
<1>4. CASE SkipCompleted \/ VerifyBlocks \/ Reexecute \/ VerifyPasses
  <2>1. newId' = NoId
    BY <1>b, <1>4 DEF SkipCompleted, VerifyBlocks, Reexecute, VerifyPasses, Fail, Settle,
       Advance, Taking, Cleared, Addressing
  <2>2. probeCache' = probeCache \/ \E p \in Probes(cur) : probeCache' = p.cache
    BY <1>4 DEF SkipCompleted, VerifyBlocks, Reexecute, VerifyPasses
  <2>3. \A c \in probeCache' : \A o \in c.seen : About(o)
    BY <1>a, <2>2, ProbeFinds
  <2>4. mappings' \subseteq mappings \/ \E p \in Probes(cur) : RecoverMapping(p.answer.found)
    BY <1>4 DEF SkipCompleted, VerifyBlocks, Reexecute, VerifyPasses
  <2>5. ASSUME NEW r \in mappings', r \notin mappings
        PROVE  r.new < nextId /\ r.new \in Int /\ Leads(r.new, r.ident, r.ctx)
    <3>1. PICK p \in Probes(cur) : p.answer.found # NoId /\ r = Row(cur, p.answer.found)
      BY <2>4, <2>5 DEF RecoverMapping
    <3>2. r.new = p.answer.found /\ r.ident = Attr[cur].own /\ r.ctx = Attr[cur].path
      BY <3>1 DEF Row
    <3>3. PICK o : About(o) /\ o.for = cur /\ o.id = r.new
      BY <3>1, <3>2, ProbeFinds
    <3>4. o.id \in Int /\ o.id < nextId /\ Leads(o.id, Attr[o.for].own, Attr[o.for].path)
      BY <1>0, <3>3 DEF About, IdsLead, Itself, FreshIds, Below, SafeInv, TypeOK, TargetType,
         CacheType, Objects, Cached, Ids
    <3> QED BY <3>2, <3>3, <3>4
  <2> QED BY <1>0, <1>n, <1>i, <1>c, <2>1, <2>3, <2>5, LeadsNext
<1>5. CASE Recover \/ AdoptDefault \/ AdoptConflicting
  <2>1. UNCHANGED <<nextId, mappings, probeCache, todo>> /\ cur' = cur
    BY <1>5 DEF Recover, AdoptDefault, AdoptConflicting, rounds, cur
  <2>2. n \in Int /\ n < nextId
    BY <1>n, <2>1 DEF SafeInv, TypeOK, ControlType, FreshIds, Ids, NoId
  <2>3. CASE n \in {o.id : o \in Visible(cur) \cup Reconciled(cur)}
    <3>1. PICK o \in live : o.for = cur /\ o.id = n
      BY <2>3, SeenIsThere
    <3>2. Leads(n, i, ctx)
      BY <1>0, <1>i, <1>c, <3>1 DEF IdsLead, Itself
    <3> QED BY <1>0, <1>a, <1>n, <1>i, <1>c, <2>1, <2>2, <3>2, LeadsNext
  <2>4. CASE n = SameId
    <3>1. Leads(n, i, ctx)
      BY <2>4 DEF Leads
    <3> QED BY <1>0, <1>a, <1>n, <1>i, <1>c, <2>1, <2>2, <3>1, LeadsNext
  <2>5. CASE Attr[cur].shared
    <3>1. cur \in Acts
      BY <1>0, <1>5, CurrentAction DEF Recover, AdoptDefault, AdoptConflicting, SafeInv, Working
    <3>2. \A o \in live : Attr[o.for].own = i => Attr[o.for].shared
      BY <1>0, <1>i, <2>5, <3>1 DEF SharedAlike, TargetType, Objects
    <3>3. Leads(n, i, ctx)
      BY <3>2 DEF Leads
    <3> QED BY <1>0, <1>a, <1>n, <1>i, <1>c, <2>1, <2>2, <3>3, LeadsNext
  <2> QED BY <1>0, <1>5, <1>n, <2>3, <2>4, <2>5, SiblingsShare
          DEF Recover, AdoptDefault, AdoptConflicting
<1>6. CASE Accepted
  <2>1. UNCHANGED <<mappings, probeCache>> /\ cur' = cur /\ Landed(cur)
        /\ n \in {AssignedId(cur, nextId), NoId} /\ cur \in Acts
    BY <1>0, <1>6, <1>n, CurrentAction DEF Accepted, rounds, cur, SafeInv, Working
  <2>2. PICK a \in Acts : a = cur
    BY <2>1
  <2>3. n # NoId => Leads(n, Attr[a].own, Attr[a].path)'
    BY <1>0, <2>1, <2>2, LandedNumbers
  <2>4. n # NoId => Leads(n, i, ctx)'
    BY <1>i, <1>c, <2>2, <2>3 DEF Leads
  <2> QED BY <1>0, <1>a, <1>n, <1>i, <1>c, <2>1, <2>4, LeadsNext
<1>7. CASE RecordMapping
  <2>1. UNCHANGED <<probeCache, newId>> /\ cur' = cur
    BY <1>7 DEF RecordMapping, rounds, cur
  <2>2. n # NoId => n \in Int /\ n < nextId /\ Leads(n, i, ctx)
    BY <1>0, <1>n, <1>i, <1>c, <2>1 DEF IdsLead, FreshIds
  <2>3. \A r \in mappings' :
          r \in mappings
          \/ (r.new < nextId /\ r.new \in Int /\ Leads(r.new, r.ident, r.ctx))
    BY <1>7, <1>n, <1>i, <1>c, <2>1, <2>2 DEF RecordMapping, Row
  <2> QED BY <1>0, <1>a, <1>n, <1>i, <1>c, <2>1, <2>2, <2>3, LeadsNext
<1> QED BY <1>1, <1>2, <1>3, <1>4, <1>5, <1>6, <1>7
        DEF Next, Step, Guard, Send, Respond, Settling

LEMMA ScopeStep ==
  ASSUME NamesakesAreFound, SharedAlike, ParentsAreNumbered, ScopeInv, [Next]_vars
  PROVE  ScopeInv'
<1>1. SafeInv' /\ FreshIds' /\ Scoped' /\ NoDuplicate'
  BY StepSafe, FreshStep, ScopedStep, NotTwice DEF ScopeInv
<1> QED BY <1>1, LeadsStep DEF ScopeInv

LEMMA SurvivorsAreThemselves ==
  ASSUME Init
  PROVE  /\ \A o \in live : o = [for |-> o.for, id |-> SameId,
                                 in |-> IF ScopeIdents(o.for) = {} THEN {} ELSE {SameId},
                                 body |-> "operator", full |-> TRUE]
         /\ \A o \in live : o.for \in Survivors
<1>1. live = {[for |-> a, id |-> SameId,
               in |-> IF ScopeIdents(a) = {} THEN {} ELSE {SameId},
               body |-> "operator", full |-> TRUE] : a \in Survivors}
  BY Zenon DEF Init
<1> QED BY <1>1

LEMMA ScopeStarts == Init => ScopeInv
<1> SUFFICES ASSUME Init PROVE ScopeInv
  OBVIOUS
<1>1. /\ pc = "down" /\ nextId = 1 /\ mappings = {} /\ probeCache = {} /\ newId = NoId
      /\ \A o \in live : o = [for |-> o.for, id |-> SameId,
                              in |-> IF ScopeIdents(o.for) = {} THEN {} ELSE {SameId},
                              body |-> "operator", full |-> TRUE]
  BY SurvivorsAreThemselves, Zenon DEF Init
<1>2. \A o \in live : o.id = SameId /\ o.in \subseteq {SameId}
  BY <1>1
<1>3. FreshIds
  BY <1>1, <1>2 DEF FreshIds, Below, SameId, NoId
<1>4. NoDuplicate
  BY <1>1, Zenon DEF NoDuplicate
<1> QED BY <1>1, <1>2, <1>3, <1>4, InitSafe
        DEF ScopeInv, Scoped, IdsLead, Itself, Leads, MappingStaysInScope

-----------------------------------------------------------------------------
(* One object for the whole organization.                                  *)

\* What every network that records it maps is the one the target has: every
\* ID the executor has in hand of it is that one's.
SharedIdent(i) == \E a \in Acts : Attr[a].own = i /\ Attr[a].shared
IsThere(n, i) == \E o \in live : Attr[o.for].own = i /\ o.id = n
OneEach ==
  \A o, p \in live :
    Attr[o.for].own = Attr[p.for].own /\ SharedIdent(Attr[o.for].own) => o = p
SharedAreThere ==
  /\ \A r \in mappings : SharedIdent(r.ident) => IsThere(r.new, r.ident)
  /\ \A c \in probeCache : \A o \in c.seen :
       SharedIdent(Attr[o.for].own) => IsThere(o.id, Attr[o.for].own)
  /\ newId # NoId /\ SharedIdent(Attr[cur].own) => IsThere(newId, Attr[cur].own)
SharedInv == SafeInv /\ OneEach /\ SharedAreThere

\* What the theorem is about: shared objects are server-assigned creates that
\* nothing provisions; at first the target holds each of them once at most.
SharedAreCreated ==
  /\ \A a \in Acts : SharedIdent(Attr[a].own) =>
       Creates(a) /\ Attr[a].shared /\ ~Attr[a].born /\ "client" \notin Attr[a].match
  /\ \A a, b \in Survivors :
       Attr[a].own = Attr[b].own /\ SharedIdent(Attr[a].own) => a = b

LEMMA OneEachStep ==
  ASSUME EnvWhen = "never", SharedAreCreated, SafeInv, OneEach, [Next]_vars
  PROVE  OneEach'
<1>0. TargetType
  BY DEF SafeInv, TypeOK
<1> SUFFICES ASSUME NEW o \in live', NEW p \in live', Attr[o.for].own = Attr[p.for].own,
                    SharedIdent(Attr[o.for].own)
             PROVE  o = p
  BY DEF OneEach, SharedIdent
<1>1. CASE UNCHANGED live
  BY <1>1 DEF OneEach
<1>2. CASE pc = "call" /\ Accepts(cur) /\ Landed(cur)
  <2>1. cur \in Acts
    BY <1>2, CurrentAction DEF SafeInv, Working
  <2> DEFINE written == [for |-> cur, id |-> AssignedId(cur, nextId), in |-> Scope(cur),
                         body |-> "snapshot", full |-> ListResolves(cur)]
  <2>2. \A x \in live' : x \in live \/ (x = written /\ x.for = cur) \/ x.for \in Born(cur)
    BY <1>2, LandedIs
  <2>3. \A x \in live' : Attr[x.for].own = Attr[o.for].own =>
          x \in live \/ (x = written /\ x.for = cur)
    BY <2>2 DEF SharedAreCreated, Born
  <2>4. Attr[cur].own = Attr[o.for].own => \A x \in live : Attr[x.for].own # Attr[o.for].own
    BY <1>2, <2>1 DEF SharedAreCreated, Accepts, Conflicts, Tolerated
  <2> HIDE DEF written
  <2> QED BY <2>3, <2>4 DEF OneEach
<1>3. CASE \E os \in SUBSET live : Align(cur, os)
  <2>1. PICK os \in SUBSET live : Align(cur, os)
    BY <1>3
  <2>2. live' = live \/ live' = (live \ os) \cup {Pushed(x) : x \in os}
    BY <2>1 DEF Align, Pushed
  <2>3. \A x \in os : Pushed(x).for = x.for
    BY <1>0, <2>1, AlignIs
  <2>4. \A x, y \in live :
          Attr[x.for].own = Attr[o.for].own /\ Attr[y.for].own = Attr[o.for].own => x = y
    BY DEF OneEach
  <2> QED BY <2>2, <2>3, <2>4
<1> QED BY <1>1, <1>2, <1>3, TargetChanges

\* What was there by some ID is still there by it.
LEMMA StaysThere ==
  ASSUME EnvWhen = "never", SharedAreCreated, SafeInv, [Next]_vars,
         NEW n, NEW i, SharedIdent(i), IsThere(n, i)
  PROVE  IsThere(n, i)'
<1>0. TargetType
  BY DEF SafeInv, TypeOK
<1>1. PICK o \in live : Attr[o.for].own = i /\ o.id = n
  BY DEF IsThere
<1>2. Creates(o.for)
  BY <1>0, <1>1 DEF SharedAreCreated, TargetType, Objects
<1>3. CASE UNCHANGED live
  BY <1>3 DEF IsThere
<1>4. CASE Landed(cur)
  <2>1. o \in live'
    BY <1>2, <1>4 DEF Landed, Counterparts, Holds, Creates
  <2> QED BY <1>1, <2>1 DEF IsThere
<1>5. CASE \E os \in SUBSET live : Align(cur, os)
  <2>1. PICK os \in SUBSET live : Align(cur, os)
    BY <1>5
  <2>2. live' = live \/ live' = (live \ os) \cup {Pushed(x) : x \in os}
    BY <2>1 DEF Align, Pushed
  <2>3. \A x \in os : Pushed(x).for = x.for /\ Pushed(x).id = x.id
    BY <1>0, <2>1, AlignIs
  <2>4. o \in live' \/ (Pushed(o) \in live' /\ o \in os)
    BY <2>2
  <2> QED BY <1>1, <2>3, <2>4 DEF IsThere
<1> QED BY <1>3, <1>4, <1>5, TargetChanges

LEMMA SharedNext ==
  ASSUME EnvWhen = "never", SharedAreCreated, SharedInv, [Next]_vars,
         \A r \in mappings' :
           r \in mappings \/ (SharedIdent(r.ident) => IsThere(r.new, r.ident)),
         \A c \in probeCache' : \A o \in c.seen : About(o),
         NEW n, newId' = n,
         n # NoId => cur' = cur,
         NEW i, i = Attr[cur].own,
         n # NoId /\ SharedIdent(i) => IsThere(n, i) \/ IsThere(n, i)'
  PROVE  SharedInv'
<1>0. SafeInv /\ SafeInv' /\ OneEach /\ SharedAreThere /\ OneEach'
  BY StepSafe, OneEachStep DEF SharedInv
<1>1. ASSUME NEW m, NEW j, SharedIdent(j), IsThere(m, j)
      PROVE  IsThere(m, j)'
  BY <1>0, <1>1, StaysThere
<1>2. \A r \in mappings' : SharedIdent(r.ident) => IsThere(r.new, r.ident)'
  BY <1>0, <1>1 DEF SharedAreThere
<1>3. ASSUME NEW o, About(o), SharedIdent(Attr[o.for].own)
      PROVE  IsThere(o.id, Attr[o.for].own)'
  <2>1. IsThere(o.id, Attr[o.for].own)
    BY <1>0, <1>3 DEF About, SharedAreThere, IsThere
  <2> QED BY <1>1, <1>3, <2>1
<1>4. \A c \in probeCache' : \A o \in c.seen :
        SharedIdent(Attr[o.for].own) => IsThere(o.id, Attr[o.for].own)'
  BY <1>3
<1>5. n # NoId /\ SharedIdent(i) => IsThere(n, i)'
  BY <1>1
<1>6. SharedAreThere'
  BY <1>2, <1>4, <1>5 DEF SharedAreThere, IsThere, SharedIdent
<1> QED BY <1>0, <1>6 DEF SharedInv

LEMMA SharedStep ==
  ASSUME EnvWhen = "never", SharedAreCreated, SharedInv, [Next]_vars
  PROVE  SharedInv'
<1> USE DEF journal, target, local
<1>0. SafeInv /\ SharedAreThere
  BY DEF SharedInv
<1>n. PICK n : newId' = n
  OBVIOUS
<1>i. PICK i : i = Attr[cur].own
  OBVIOUS
<1>a. \A c \in probeCache : \A o \in c.seen : About(o)
  BY DEF About
<1>b. pc \notin {"map", "done"} => newId = NoId
  BY <1>0 DEF SafeInv, IdInHand
<1>c. \A o : About(o) /\ SharedIdent(Attr[o.for].own) => IsThere(o.id, Attr[o.for].own)
  BY <1>0 DEF About, SharedAreThere, IsThere
<1>1. CASE SkewedAddress \/ SkipDrill \/ RefuseForeign \/ SkipDead \/ SkipHeld \/ AwaitClaim
           \/ Defer \/ Unresolvable \/ Refused \/ SkipRefused \/ Throttled \/ CallFailed
           \/ SalvageStands \/ NothingToAdopt \/ Dispatch \/ RecordDone \/ NextRound
           \/ EndOfRounds \/ LostAnswer \/ Incident \/ ByHand
  <2>1. UNCHANGED <<mappings, probeCache>> /\ newId' = NoId
    BY <1>b, <1>1 DEF SkewedAddress, SkipDrill, RefuseForeign, SkipDead, SkipHeld, AwaitClaim,
       Defer, Unresolvable, Refused, SkipRefused, Throttled, CallFailed, SalvageStands,
       NothingToAdopt, Dispatch, RecordDone, NextRound, EndOfRounds, LostAnswer, Incident,
       ByHand, EnvMoment, Fail, Settle, Advance
  <2> QED BY <1>a, <1>n, <1>i, <2>1, SharedNext
<1>2. CASE Start \/ Crash
  <2>1. UNCHANGED mappings /\ probeCache' = {} /\ newId' = NoId
    BY <1>2, Zenon DEF Start, Crash, FreshLocals
  <2> QED BY <1>n, <1>i, <2>1, SharedNext
<1>3. CASE UNCHANGED vars
  <2>1. UNCHANGED <<mappings, probeCache, newId>> /\ cur' = cur
    BY <1>3 DEF vars, rounds, cur
  <2>2. n # NoId /\ SharedIdent(i) => IsThere(n, i)
    BY <1>0, <1>n, <1>i, <2>1 DEF SharedAreThere
  <2> QED BY <1>a, <1>n, <1>i, <2>1, <2>2, SharedNext
<1>4. CASE SkipCompleted \/ VerifyBlocks \/ Reexecute \/ VerifyPasses
  <2>1. newId' = NoId
    BY <1>b, <1>4 DEF SkipCompleted, VerifyBlocks, Reexecute, VerifyPasses, Fail, Settle,
       Advance, Taking, Cleared, Addressing
  <2>2. probeCache' = probeCache \/ \E p \in Probes(cur) : probeCache' = p.cache
    BY <1>4 DEF SkipCompleted, VerifyBlocks, Reexecute, VerifyPasses
  <2>3. \A c \in probeCache' : \A o \in c.seen : About(o)
    BY <1>a, <2>2, ProbeFinds
  <2>4. mappings' \subseteq mappings \/ \E p \in Probes(cur) : RecoverMapping(p.answer.found)
    BY <1>4 DEF SkipCompleted, VerifyBlocks, Reexecute, VerifyPasses
  <2>5. ASSUME NEW r \in mappings', r \notin mappings, SharedIdent(r.ident)
        PROVE  IsThere(r.new, r.ident)
    <3>1. PICK p \in Probes(cur) : p.answer.found # NoId /\ r = Row(cur, p.answer.found)
      BY <2>4, <2>5 DEF RecoverMapping
    <3>2. r.new = p.answer.found /\ r.ident = Attr[cur].own
      BY <3>1 DEF Row
    <3>3. PICK o : About(o) /\ o.for = cur /\ o.id = r.new
      BY <3>1, <3>2, ProbeFinds
    <3> QED BY <1>c, <2>5, <3>2, <3>3
  <2> QED BY <1>n, <1>i, <2>1, <2>3, <2>5, SharedNext
<1>5. CASE Recover \/ AdoptDefault \/ AdoptConflicting
  <2>1. UNCHANGED <<mappings, probeCache>> /\ cur' = cur
    BY <1>5 DEF Recover, AdoptDefault, AdoptConflicting, rounds, cur
  <2>2. cur \in Acts
    BY <1>0, <1>5, CurrentAction DEF Recover, AdoptDefault, AdoptConflicting, SafeInv, Working
  <2>3. SharedIdent(i) => IsThere(n, i)
    <3>1. CASE n \in {o.id : o \in Visible(cur) \cup Reconciled(cur)}
      <4>1. PICK o \in live : o.for = cur /\ o.id = n
        BY <3>1, SeenIsThere
      <4> QED BY <1>i, <4>1 DEF IsThere
    <3>2. CASE n \in SiblingMapping(cur)
      <4>1. PICK r \in mappings : r.ident = i /\ r.new = n
        BY <1>i, <3>2 DEF SiblingMapping
      <4> QED BY <1>0, <4>1 DEF SharedAreThere
    <3>3. CASE "client" \in Attr[cur].match
      BY <1>i, <2>2, <3>3 DEF SharedAreCreated
    <3> QED BY <1>5, <1>n, <3>1, <3>2, <3>3 DEF Recover, AdoptDefault, AdoptConflicting
  <2> QED BY <1>a, <1>n, <1>i, <2>1, <2>3, SharedNext
<1>6. CASE Accepted
  <2>1. /\ UNCHANGED <<mappings, probeCache>> /\ cur' = cur /\ Landed(cur)
        /\ n \in {AssignedId(cur, nextId), NoId}
    BY <1>6, <1>n DEF Accepted, rounds, cur
  <2> DEFINE written == [for |-> cur, id |-> AssignedId(cur, nextId), in |-> Scope(cur),
                         body |-> "snapshot", full |-> ListResolves(cur)]
  <2>2. written \in live' /\ written.for = cur /\ written.id = AssignedId(cur, nextId)
    BY <2>1 DEF Landed
  <2>3. n # NoId => IsThere(n, i)'
    <3> HIDE DEF written
    <3> QED BY <1>i, <2>1, <2>2 DEF IsThere
  <2> QED BY <1>a, <1>n, <1>i, <2>1, <2>3, SharedNext
<1>7. CASE RecordMapping
  <2>1. UNCHANGED <<probeCache, newId>> /\ cur' = cur
    BY <1>7 DEF RecordMapping, rounds, cur
  <2>2. n # NoId /\ SharedIdent(i) => IsThere(n, i)
    BY <1>0, <1>n, <1>i, <2>1 DEF SharedAreThere
  <2>3. \A r \in mappings' :
          r \in mappings \/ (SharedIdent(r.ident) => IsThere(r.new, r.ident))
    BY <1>7, <1>n, <1>i, <2>1, <2>2 DEF RecordMapping, Row
  <2> QED BY <1>a, <1>n, <1>i, <2>1, <2>2, <2>3, SharedNext
<1> QED BY <1>1, <1>2, <1>3, <1>4, <1>5, <1>6, <1>7
        DEF Next, Step, Guard, Send, Respond, Settling

-----------------------------------------------------------------------------
(* What a write refers to lies in its own scope.                           *)

\* One run, from an empty journal: nothing in the queues is completed, so no
\* row is ever retired.
FirstRun ==
  /\ OnceInv
  /\ runs = 0 => completed = {} /\ pc = "down"
  /\ pc # "address" /\ (pc # "down" => Undone)

LEMMA UndoneAdvances ==
  ASSUME OnceInv, Undone, todo # <<>>, Advance, phase' = phase, PutsOnce, cur \notin completed,
         \/ UNCHANGED completed
         \/ completed' = completed \cup {cur} /\ UNCHANGED <<deferred, throttled, salvageRound>>
  PROVE  Undone'
<1>1. /\ todo \in Seq(Acts) /\ deferred \in Seq(Acts) /\ throttled \in Seq(Acts)
      /\ salvageRound \in Seq(Acts) /\ cur \in Acts /\ todo' = Tail(todo)
  BY CurrentAction DEF OnceInv, SafeInv, TypeOK, QueueType, Advance
<1>2. /\ cur \in Members(todo) /\ cur \notin Members(todo')
      /\ Members(todo') \subseteq Members(todo)
  BY <1>1, DistinctRest DEF OnceInv, Once, cur
<1>3. completed' \cap Members(todo') = {}
  BY <1>2 DEF Undone
<1>4. ASSUME phase = "main"
      PROVE  \A q \in {deferred', throttled', salvageRound'} : completed' \cap Members(q) = {}
  <2>1. \A q \in {deferred, throttled, salvageRound} :
          completed \cap Members(q) = {} /\ cur \notin Members(q)
    BY <1>2, <1>4 DEF Undone, OnceInv, Once, Apart
  <2>2. \A q \in {deferred, throttled, salvageRound} :
          Members(Append(q, cur)) = Members(q) \cup {cur}
    BY <1>1, MembersOfAppended
  <2> QED BY <2>1, <2>2 DEF PutsOnce
<1> QED BY <1>3, <1>4 DEF Undone, Members

LEMMA FirstRunStep ==
  ASSUME MaxRuns = 1, FirstRun, [Next]_vars
  PROVE  FirstRun' /\ mappings \subseteq mappings'
<1> USE DEF rounds, retries, bounds, journal
<1>0. OnceInv /\ OnceInv' /\ SafeInv /\ Salvaging /\ phase \in {"main", "salvage"}
  BY OnceStep DEF FirstRun, OnceInv, SafeInv, TypeOK, ControlType
<1>1. ASSUME pc \notin {"down", "round", "finished"}
      PROVE  todo # <<>> /\ cur \notin completed /\ Undone /\ runs # 0
  <2>1. todo # <<>> /\ todo \in Seq(Acts) /\ Undone /\ runs # 0
    BY <1>0, <1>1 DEF SafeInv, Working, FirstRun, TypeOK, QueueType
  <2> QED BY <2>1, MembersOfRest DEF cur, Undone
<1>2. CASE VerifyPasses \/ Recover \/ AdoptDefault \/ NothingToAdopt \/ Dispatch \/ Accepted
           \/ AdoptConflicting \/ RecordMapping \/ Incident \/ ByHand \/ UNCHANGED vars
  <2>1. /\ UNCHANGED <<phase, todo, deferred, throttled, salvageRound, completed, runs>>
        /\ mappings \subseteq mappings'
    BY <1>2 DEF VerifyPasses, Recover, AdoptDefault, NothingToAdopt, Dispatch, Accepted,
       AdoptConflicting, RecordMapping, Incident, ByHand, vars
  <2>2. pc' = pc \/ (pc' \notin {"address", "down"} /\ pc \notin {"down", "round", "finished"})
    BY <1>2 DEF VerifyPasses, Recover, AdoptDefault, NothingToAdopt, Dispatch, Accepted,
       AdoptConflicting, RecordMapping, Incident, ByHand, vars, Cleared, Addressing, Taking
  <2> QED BY <1>0, <1>1, <2>1, <2>2 DEF FirstRun, Undone, Members
<1>3. CASE SkipCompleted \/ Reexecute
  BY <1>1, <1>3 DEF SkipCompleted, Reexecute, Taking
<1>4. CASE SkewedAddress \/ SkipDrill \/ RefuseForeign \/ SkipDead
           \/ SkipHeld \/ AwaitClaim \/ VerifyBlocks \/ Defer \/ Unresolvable
           \/ LostAnswer \/ Refused \/ SkipRefused \/ Throttled \/ CallFailed
           \/ SalvageStands \/ RecordDone
  <2>1. /\ Advance /\ phase' = phase /\ pc \notin {"down", "round", "finished"}
        /\ UNCHANGED runs
    BY <1>4 DEF SkewedAddress, SkipDrill, RefuseForeign, SkipDead, SkipHeld,
       AwaitClaim, VerifyBlocks, Defer, Unresolvable, LostAnswer, Refused, SkipRefused,
       Throttled, CallFailed, SalvageStands, RecordDone, Taking, Addressing, Cleared,
       Fail, Settle
  <2>2. AwaitClaim => phase = "main"
    BY <1>0 DEF AwaitClaim, Addressing, Taking, Salvaging
  <2>3. PutsOnce
    BY <1>4, <2>2 DEF SkewedAddress, SkipDrill, RefuseForeign, SkipDead,
       SkipHeld, AwaitClaim, VerifyBlocks, Defer, Unresolvable, LostAnswer, Refused,
       SkipRefused, Throttled, CallFailed, SalvageStands, RecordDone, PutsOnce
  <2>4. \/ UNCHANGED completed
        \/ completed' = completed \cup {cur} /\ UNCHANGED <<deferred, throttled, salvageRound>>
    BY <1>4 DEF SkewedAddress, SkipDrill, RefuseForeign, SkipDead,
       SkipHeld, AwaitClaim, VerifyBlocks, Defer, Unresolvable, LostAnswer, Refused,
       SkipRefused, Throttled, CallFailed, SalvageStands, RecordDone
  <2>5. Undone'
    BY <1>0, <1>1, <2>1, <2>3, <2>4, UndoneAdvances
  <2>6. mappings \subseteq mappings'
    BY <1>4 DEF SkewedAddress, SkipDrill, RefuseForeign, SkipDead,
       SkipHeld, AwaitClaim, VerifyBlocks, Defer, Unresolvable, LostAnswer, Refused,
       SkipRefused, Throttled, CallFailed, SalvageStands, RecordDone, RecoverMapping
  <2>7. pc' \notin {"address", "down"}
    BY <2>1 DEF Advance
  <2> QED BY <1>0, <1>1, <2>1, <2>5, <2>6, <2>7 DEF FirstRun
<1>5. CASE NextRound \/ EndOfRounds
  <2>1. /\ pc = "round" /\ phase = "main" /\ Undone /\ runs # 0
        /\ UNCHANGED <<completed, runs, salvageRound, mappings>> /\ pc' # "address"
        /\ deferred \in Seq(Acts) /\ throttled \in Seq(Acts)
    BY <1>0, <1>5 DEF NextRound, EndOfRounds, Salvaging, FirstRun, SafeInv, TypeOK, QueueType
  <2>2. CASE NextRound
    <3>1. /\ todo' = deferred \o throttled /\ deferred' = <<>> /\ throttled' = <<>>
          /\ UNCHANGED phase
      BY <2>2 DEF NextRound
    <3>2. Members(todo') \subseteq Members(deferred) \cup Members(throttled)
      BY <1>0, <2>1, <3>1, DistinctBoth DEF OnceInv, Once
    <3>3. Members(deferred') = {} /\ Members(throttled') = {}
      BY <3>1, NothingSalvaged
    <3> QED BY <1>0, <2>1, <3>1, <3>2, <3>3 DEF FirstRun, Undone, Members
  <2>3. CASE EndOfRounds
    <3>1. /\ UNCHANGED <<deferred, throttled>>
          /\ UNCHANGED <<phase, todo>> \/ (phase' = "salvage" /\ todo' = salvageRound)
      BY <2>3 DEF EndOfRounds
    <3>2. completed \cap Members(todo') = {}
      BY <2>1, <3>1 DEF Undone
    <3> QED BY <1>0, <2>1, <3>1, <3>2 DEF FirstRun, Undone, Members
  <2> QED BY <1>5, <2>2, <2>3
<1>6. CASE Start
  <2>1. runs = 0 /\ completed = {} /\ runs' = 1 /\ UNCHANGED <<completed, mappings>>
    BY <1>0, <1>6 DEF Start, SafeInv, TypeOK, BoundType, FirstRun
  <2>2. pc' = "take"
    BY <1>6, Zenon DEF Start, FreshLocals
  <2> QED BY <1>0, <2>1, <2>2 DEF FirstRun, Undone, Members
<1>7. CASE Crash
  <2>1. pc' = "down" /\ UNCHANGED <<runs, completed, mappings>> /\ runs # 0
    BY <1>7, Zenon DEF Crash, FreshLocals, FirstRun
  <2> QED BY <1>0, <2>1 DEF FirstRun
<1> QED BY <1>2, <1>3, <1>4, <1>5, <1>6, <1>7
        DEF Next, Step, Guard, Send, Respond, Settling


\* What a probe answers from: a listing of its own scope, read before or now.
Read(a) == probeCache \cup {Listing(a, Scope(a))}
Lists(a) == {c \in Read(a) : c.coll = Attr[a].coll /\ c.in = Scope(a)}

LEMMA ProbeReads ==
  ASSUME NEW a, NEW p \in Probes(a)
  PROVE  /\ p.cache \subseteq Read(a) /\ probeCache \subseteq p.cache
         /\ p.answer.found # NoId =>
              \E c \in Lists(a) : \E o \in c.seen : o.for = a /\ o.id = p.answer.found
         /\ p.answer.verdict = "absent" /\ ~Creates(a) /\ ~MintedAbove(a) =>
              ScopeResolves(a) /\ \E c \in Lists(a) : c.gone \/ \A o \in c.seen : o.for # a
         /\ p.answer.verdict = "proceed" => ~ScopeResolves(a)
<1> DEFINE Finds(n) == n # NoId =>
             \E c \in Lists(a) : \E o \in c.seen : o.for = a /\ o.id = n
           Misses == \E c \in Lists(a) : c.gone \/ \A o \in c.seen : o.for # a
           Right(v) == /\ Finds(v.found)
                       /\ v.verdict = "absent" /\ ~Creates(a) => Misses
                       /\ v.verdict # "proceed"
           cached == {c \in probeCache : c.coll = Attr[a].coll /\ c.in = Scope(a)}
           keep(v) == [answer |-> v, cache |-> probeCache]
           read == Listing(a, Scope(a))
           miss == [answer |-> Answer(a, read), cache |-> probeCache \cup {read}]
<1>1. \A v, n : Verdict(v, n).found = n /\ Verdict(v, n).verdict = v
  BY DEF Verdict
<1>2. Finds(NoId)
  OBVIOUS
<1>3. ASSUME NEW c \in Lists(a)
      PROVE  Right(Answer(a, c))
  <2> DEFINE hits == {o \in c.seen : o.for = a}
  <2>1. Cardinality(hits) = 1 => hits # {}
    <3> HIDE DEF hits
    <3> QED BY FS_EmptySet
  <2>2. Cardinality(hits) = 1 => Finds((CHOOSE o \in hits : TRUE).id)
    BY <2>1
  <2>3. (\E o \in hits : o.id = SameId) => Finds(SameId)
    OBVIOUS
  <2>4. hits = {} \/ c.gone => Misses
    OBVIOUS
  <2> HIDE DEF hits, Finds, Misses
  <2>5. Finds(Classify(a, c.seen).found)
    BY <1>1, <1>2, <2>2, <2>3 DEF Classify, hits
  <2>6. Classify(a, c.seen).verdict = "absent" /\ ~Creates(a) => Misses
    BY <1>1, <2>4 DEF Classify, hits
  <2>7. Classify(a, c.seen).verdict # "proceed"
    BY <1>1 DEF Classify, hits
  <2> QED BY <1>1, <1>2, <2>4, <2>5, <2>6, <2>7 DEF Answer
<1>4. read \in Lists(a) /\ read \in Read(a)
  BY DEF Lists, Read, Listing
<1>5. cached \subseteq Lists(a) /\ probeCache \subseteq Read(a)
  BY DEF Lists, Read
<1>6. \/ MintedAbove(a) /\ p = keep(Verdict("absent", NoId))
      \/ p = keep(Verdict("unverifiable", NoId))
      \/ ~ScopeResolves(a) /\ p = keep(Verdict("proceed", NoId))
      \/ ScopeResolves(a) /\ p \in {keep(Answer(a, c)) : c \in cached}
      \/ ScopeResolves(a) /\ p = miss
      \/ p = keep(Verdict("uncertain", NoId))
  BY DEF Probes
<1> HIDE DEF read, Finds, Misses
<1>7. Right(p.answer) \/ (MintedAbove(a) /\ Finds(p.answer.found) /\ p.answer.verdict = "absent")
      \/ (~ScopeResolves(a) /\ Finds(p.answer.found) /\ p.answer.verdict = "proceed")
  BY <1>1, <1>2, <1>3, <1>4, <1>5, <1>6
<1>8. p.answer.verdict = "absent" => MintedAbove(a) \/ ScopeResolves(a)
  BY <1>1, <1>6
<1>9. p.cache \subseteq Read(a) /\ probeCache \subseteq p.cache
  <2>1. p.cache = probeCache \/ p.cache = probeCache \cup {read}
    BY <1>6
  <2> QED BY <1>4, <1>5, <2>1
<1> QED BY <1>7, <1>8, <1>9 DEF Finds, Misses

\* The creates that the server numbers, each network having its own, and
\* where one of them stands that was there from the start.
Numbered(b) == Creates(b) /\ "client" \notin Attr[b].match /\ ~Attr[b].shared
Home(b) == IF ScopeIdents(b) = {} THEN {} ELSE {SameId}

\* The object with this ID lies where the mappings place the action; one ID
\* stands for one place.
Placed(n, b) ==
  /\ \A o \in live : o.for = b /\ o.id = n => o.in \subseteq Scope(b)
  /\ n = SameId => Home(b) \subseteq Scope(b)
Stands(o) ==
  Numbered(o.for) =>
    /\ \A p \in live : p.for = o.for /\ p.id = o.id => p.in = o.in
    /\ o.id = SameId => o.in = Home(o.for)
AllPlaced ==
  /\ \A r \in mappings : \E b \in Acts : RowOf(r, b) /\ (Numbered(b) => Placed(r.new, b))
  /\ newId # NoId /\ Numbered(cur) => Placed(newId, cur)
  /\ \A o \in live : Stands(o)
  /\ \A c \in probeCache : \A o \in c.seen : o.in = c.in /\ Stands(o)
PlaceInv == FirstRun /\ ScopeInv /\ AllPlaced

\* What the theorem is about: references are to creates that the server
\* numbers; nothing refers to, or hangs under, what hangs under itself; and
\* whether an object has a parent is a matter of its type.
RefsAreNumbered ==
  \A a, b \in Acts : Attr[a].own \in Attr[b].refs =>
    Creates(a) /\ "client" \notin Attr[a].match
NothingInItself ==
  \A a, b \in Acts :
    /\ Attr[a].own \in Attr[b].refs => Attr[b].own \notin Attr[a].path
    /\ Attr[a].own \in Attr[b].path => Attr[b].own \notin Attr[a].path
NestedAlike ==
  \A a, b \in Acts : Attr[a].own = Attr[b].own => Home(a) = Home(b)

\* The objects a step adds, and where they stand.
LEMMA AddedStand ==
  ASSUME SafeInv, FreshIds, [Next]_vars
  PROVE  \A o \in live' :
           \/ \E x \in live : x.id = o.id /\ x.for = o.for /\ x.in = o.in
           \/ Numbered(o.for) => /\ o.id \in Nat /\ o.id >= nextId
                                 /\ \A p \in live' : p.for = o.for /\ p.id = o.id => p.in = o.in
<1> DEFINE Old(o) == \E x \in live : x.id = o.id /\ x.for = o.for /\ x.in = o.in
           New(o, a, scope, inner) == \/ o.for = a /\ o.id = AssignedId(a, nextId) /\ o.in = scope
                                      \/ o.id = AssignedId(o.for, nextId + 1) /\ o.in = inner
           Stand == \A o \in live' :
             \/ Old(o)
             \/ Numbered(o.for) => /\ o.id \in Nat /\ o.id >= nextId
                                   /\ \A p \in live' : p.for = o.for /\ p.id = o.id => p.in = o.in
<1>0. nextId \in Nat /\ TargetType /\ nextId > 0
  BY DEF SafeInv, TypeOK, TargetType, FreshIds
<1>1. CASE UNCHANGED live \/ Incident
  BY <1>1 DEF Incident
<1>2. CASE \E os \in SUBSET live : Align(cur, os)
  <2>1. PICK os \in SUBSET live : Align(cur, os)
    BY <1>2
  <2>2. \A o \in live' : o \in live \/ \E x \in os : o = Pushed(x)
    BY <1>0, <2>1, AlignIs
  <2>3. \A x \in os : Pushed(x).for = x.for /\ Pushed(x).id = x.id /\ Pushed(x).in = x.in
    BY <1>0, <2>1, AlignIs
  <2> QED BY <2>2, <2>3
<1>a. ASSUME NEW a, NEW scope, NEW inner,
             \A o \in live' : Old(o) \/ New(o, a, scope, inner)
      PROVE  Stand
  <2> SUFFICES ASSUME NEW o \in live', ~Old(o), Numbered(o.for)
               PROVE  /\ o.id \in Nat /\ o.id >= nextId
                      /\ \A p \in live' : p.for = o.for /\ p.id = o.id => p.in = o.in
    OBVIOUS
  <2>1. \/ o.for = a /\ o.id = nextId /\ o.in = scope
        \/ o.id = nextId + 1 /\ o.in = inner
    BY <1>a DEF Numbered, AssignedId
  <2>2. \A x \in live : x.id < nextId /\ x.id \in Nat
    BY <1>0 DEF FreshIds, Below, TargetType, Objects, Ids
  <2>3. ASSUME NEW p \in live', p.for = o.for, p.id = o.id
        PROVE  p.in = o.in
    <3>1. ~Old(p)
      BY <1>0, <2>1, <2>2, <2>3
    <3>2. \/ p.for = a /\ p.id = nextId /\ p.in = scope
          \/ p.id = nextId + 1 /\ p.in = inner
      BY <1>a, <2>3, <3>1 DEF Numbered, AssignedId
    <3> QED BY <1>0, <2>1, <2>3, <3>2
  <2> QED BY <1>0, <2>1, <2>3
<1>3. CASE pc = "call" /\ Landed(cur)
  <2>1. \A o \in live' :
          \/ Old(o)
          \/ o.for = cur /\ o.id = AssignedId(cur, nextId) /\ o.in = Scope(cur)
          \/ o.id = AssignedId(o.for, nextId + 1)
             /\ o.in = Scope(cur) \cup {AssignedId(cur, nextId)}
    <3> SUFFICES ASSUME NEW o \in live', o \notin live
                 PROVE  \/ o.for = cur /\ o.id = AssignedId(cur, nextId) /\ o.in = Scope(cur)
                        \/ o.id = AssignedId(o.for, nextId + 1)
                           /\ o.in = Scope(cur) \cup {AssignedId(cur, nextId)}
      OBVIOUS
    <3>1. CASE o = [for |-> cur, id |-> AssignedId(cur, nextId), in |-> Scope(cur),
                    body |-> "snapshot", full |-> ListResolves(cur)]
      BY <3>1
    <3>2. CASE \E b \in Born(cur) :
                 o = [for |-> b, id |-> AssignedId(b, nextId + 1),
                      in |-> Scope(cur) \cup {AssignedId(cur, nextId)},
                      body |-> "provisioned", full |-> FALSE]
      BY <3>2
    <3> QED BY <1>3, <3>1, <3>2, LandedIs
  <2>2. \A o \in live' :
          Old(o) \/ New(o, cur, Scope(cur), Scope(cur) \cup {AssignedId(cur, nextId)})
    BY <2>1
  <2> HIDE DEF Old, New, Stand
  <2>3. Stand
    BY <1>a, <2>2
  <2> QED BY <2>3 DEF Stand, Old
<1>4. CASE ByHand
  <2>1. PICK a \in Acts : \E scope \in Placements(a) :
          live' = live \cup {[for |-> a, id |-> AssignedId(a, nextId), in |-> scope,
                              body |-> "operator", full |-> TRUE]}
    BY <1>4 DEF ByHand
  <2>2. PICK scope \in Placements(a) :
          live' = live \cup {[for |-> a, id |-> AssignedId(a, nextId), in |-> scope,
                              body |-> "operator", full |-> TRUE]}
    BY <2>1
  <2>3. \A o \in live' :
          Old(o) \/ New(o, a, scope, scope)
    BY <2>2
  <2> HIDE DEF Old, New, Stand
  <2>4. Stand
    BY <1>a, <2>3
  <2> QED BY <2>4 DEF Stand, Old
<1> QED BY <1>1, <1>2, <1>3, <1>4, TargetChanges


LEMMA PlacedKept ==
  ASSUME SafeInv, FreshIds, [Next]_vars, mappings \subseteq mappings',
         NEW b \in Acts, Numbered(b), NEW n, Placed(n, b), n \in Int, n < nextId
  PROVE  Placed(n, b)'
<1>1. \A i : Targets(i, b) \subseteq Targets(i, b)'
  BY DEF Targets, Referrer
<1>2. Scope(b) \subseteq Scope(b)' /\ Home(b)' = Home(b)
  BY <1>1 DEF Scope, ScopeIdents, Serials, Home
<1>3. nextId \in Nat
  BY DEF FreshIds
<1>4. ASSUME NEW o \in live', o.for = b, o.id = n
      PROVE  \E x \in live : x.id = n /\ x.for = b /\ x.in = o.in
  BY <1>3, <1>4, AddedStand
<1> QED BY <1>2, <1>4 DEF Placed

LEMMA StandsKept ==
  ASSUME SafeInv, FreshIds, [Next]_vars, NEW o, Stands(o), o.id \in Int, o.id < nextId
  PROVE  Stands(o)'
<1> SUFFICES ASSUME Numbered(o.for)
             PROVE  \A p \in live' : p.for = o.for /\ p.id = o.id => p.in = o.in
  BY DEF Stands, Home, ScopeIdents, Serials
<1>1. nextId \in Nat
  BY DEF FreshIds
<1> QED BY <1>1, AddedStand DEF Stands

LEMMA PlacedNext ==
  ASSUME SafeInv, FreshIds, AllPlaced, [Next]_vars, mappings \subseteq mappings',
         \A r \in mappings' : r \in mappings \/ \E b \in Acts :
           /\ RowOf(r, b)
           /\ Numbered(b) => Placed(r.new, b) /\ r.new \in Int /\ r.new < nextId,
         \A c \in probeCache' : \A o \in c.seen : o.in = c.in /\ About(o),
         NEW n, newId' = n, NEW a \in Acts, n # NoId => cur' = a,
         n # NoId /\ Numbered(a) => (n \in Int /\ n < nextId /\ Placed(n, a)) \/ Placed(n, a)'
  PROVE  AllPlaced'
<1>1. \A r \in mappings' : \E b \in Acts : RowOf(r, b)' /\ (Numbered(b)' => Placed(r.new, b)')
  <2> SUFFICES ASSUME NEW r \in mappings'
               PROVE  \E b \in Acts : RowOf(r, b)' /\ (Numbered(b)' => Placed(r.new, b)')
    OBVIOUS
  <2>1. r \in mappings => r.new \in Int /\ r.new < nextId
    BY DEF FreshIds, SafeInv, TypeOK, JournalType, Rows, Ids
  <2>2. PICK b \in Acts :
          /\ RowOf(r, b)
          /\ Numbered(b) => Placed(r.new, b) /\ r.new \in Int /\ r.new < nextId
    BY <2>1 DEF AllPlaced
  <2>3. Numbered(b) => Placed(r.new, b)'
    BY <2>2, PlacedKept
  <2> QED BY <2>2, <2>3 DEF RowOf, Numbered, Creates
<1>2. newId' # NoId /\ Numbered(cur)' => Placed(newId, cur)'
  <2> SUFFICES ASSUME n # NoId, Numbered(a)
               PROVE  Placed(n, a)'
    BY DEF Numbered, Creates, Placed, Scope, Targets, Referrer, ScopeIdents, Serials, Home
  <2> QED BY PlacedKept
<1>3. ASSUME NEW o, About(o)
      PROVE  Stands(o)'
  <2>1. o.id \in Int /\ o.id < nextId /\ Stands(o)
    BY <1>3 DEF About, AllPlaced, FreshIds, Below, SafeInv, TypeOK, TargetType, CacheType,
       Objects, Cached, Ids
  <2> QED BY <2>1, StandsKept
<1>4. \A o \in live' : Stands(o)'
  <2> SUFFICES ASSUME NEW o \in live'
               PROVE  Stands(o)'
    OBVIOUS
  <2>1. CASE \E x \in live : x.id = o.id /\ x.for = o.for /\ x.in = o.in
    <3>1. PICK x \in live : x.id = o.id /\ x.for = o.for /\ x.in = o.in
      BY <2>1
    <3>2. Stands(x)'
      BY <1>3 DEF About
    <3> QED BY <3>1, <3>2 DEF Stands
  <2>2. CASE Numbered(o.for) =>
               /\ o.id \in Nat /\ o.id >= nextId
               /\ \A p \in live' : p.for = o.for /\ p.id = o.id => p.in = o.in
    <3>1. nextId \in Nat /\ nextId > 0
      BY DEF FreshIds
    <3>2. Numbered(o.for) => o.id # SameId
      BY <2>2, <3>1 DEF SameId
    <3> QED BY <2>2, <3>2 DEF Stands, Numbered, Creates
  <2> QED BY <2>1, <2>2, AddedStand
<1>5. \A c \in probeCache' : \A o \in c.seen : o.in = c.in /\ Stands(o)'
  BY <1>3
<1> QED BY <1>1, <1>2, <1>4, <1>5 DEF AllPlaced

\* What stands in the current action's own scope is placed by its ID.
LEMMA FoundPlaced ==
  ASSUME FreshIds, SafeInv, AllPlaced, Numbered(cur),
         NEW o, About(o), o.for = cur, o.in = Scope(cur)
  PROVE  Placed(o.id, cur) /\ o.id \in Int /\ o.id < nextId
<1>1. o.id \in Int /\ o.id < nextId /\ Stands(o)
  BY DEF About, AllPlaced, FreshIds, Below, SafeInv, TypeOK, TargetType, CacheType,
     Objects, Cached, Ids
<1> QED BY <1>1 DEF Stands, Placed

LEMMA PlacedStep ==
  ASSUME MaxRuns = 1, NamesakesAreFound, SharedAlike, PlaceInv, [Next]_vars
  PROVE  AllPlaced'
<1> USE DEF journal, target, local
<1>0. /\ SafeInv /\ FreshIds /\ Scoped /\ NoDuplicate /\ AllPlaced
      /\ nextId \in Nat /\ TargetType /\ newId \in Int /\ mappings \subseteq mappings'
  BY FirstRunStep DEF PlaceInv, ScopeInv, SafeInv, TypeOK, TargetType, ControlType, Ids, NoId
<1>n. PICK n : newId' = n
  OBVIOUS
<1>a. \A c \in probeCache : \A o \in c.seen : o.in = c.in /\ About(o)
  BY <1>0 DEF About, AllPlaced
<1>b. pc \notin {"map", "done"} => newId = NoId
  BY <1>0 DEF SafeInv, IdInHand
<1>c. pc \notin {"down", "round", "finished"} => cur \in Acts
  BY <1>0, CurrentAction DEF SafeInv, Working
<1>d. Acts # {}
  BY PlanAssumption, EmptySeq
<1>1. CASE SkewedAddress \/ SkipDrill \/ RefuseForeign \/ SkipDead \/ SkipHeld \/ AwaitClaim
           \/ Defer \/ Unresolvable \/ Refused \/ SkipRefused \/ Throttled \/ CallFailed
           \/ SalvageStands \/ NothingToAdopt \/ Dispatch \/ RecordDone \/ NextRound
           \/ EndOfRounds \/ LostAnswer \/ Incident \/ ByHand
  <2>1. UNCHANGED <<mappings, probeCache>> /\ newId' = NoId
    BY <1>b, <1>1 DEF SkewedAddress, SkipDrill, RefuseForeign, SkipDead, SkipHeld, AwaitClaim,
       Defer, Unresolvable, Refused, SkipRefused, Throttled, CallFailed, SalvageStands,
       NothingToAdopt, Dispatch, RecordDone, NextRound, EndOfRounds, LostAnswer, Incident,
       ByHand, EnvMoment, Fail, Settle, Advance
  <2> QED BY <1>0, <1>a, <1>d, <2>1, PlacedNext
<1>2. CASE Start \/ Crash
  <2>1. UNCHANGED mappings /\ probeCache' = {} /\ newId' = NoId
    BY <1>2, Zenon DEF Start, Crash, FreshLocals
  <2> QED BY <1>0, <1>d, <2>1, PlacedNext
<1>3. CASE UNCHANGED vars
  <2>1. UNCHANGED <<mappings, probeCache, newId, pc>> /\ cur' = cur
    BY <1>3 DEF vars, rounds, cur
  <2>2. CASE newId = NoId
    BY <1>0, <1>a, <1>d, <2>1, <2>2, PlacedNext
  <2>3. CASE newId # NoId
    <3>1. cur \in Acts /\ newId < nextId /\ (Numbered(cur) => Placed(newId, cur))
      BY <1>0, <1>b, <1>c, <2>3 DEF AllPlaced, FreshIds
    <3>2. PICK a \in Acts : a = cur
      BY <3>1
    <3>3. n # NoId /\ Numbered(a) => n \in Int /\ n < nextId /\ Placed(n, a)
      BY <1>0, <1>n, <2>1, <3>1, <3>2
    <3> QED BY <1>0, <1>a, <1>n, <2>1, <3>2, <3>3, PlacedNext
  <2> QED BY <2>2, <2>3
<1>4. CASE SkipCompleted \/ VerifyBlocks \/ Reexecute \/ VerifyPasses
  <2>1. newId' = NoId /\ cur \in Acts
    BY <1>b, <1>c, <1>4 DEF SkipCompleted, VerifyBlocks, Reexecute, VerifyPasses, Fail, Settle,
       Advance, Taking, Cleared, Addressing
  <2>2. probeCache' = probeCache \/ \E p \in Probes(cur) : probeCache' = p.cache
    BY <1>4 DEF SkipCompleted, VerifyBlocks, Reexecute, VerifyPasses
  <2>3. \A c \in Read(cur) : \A o \in c.seen : o.in = c.in /\ About(o)
    BY <1>a DEF Read, Listing, About
  <2>4. \A c \in probeCache' : \A o \in c.seen : o.in = c.in /\ About(o)
    BY <1>a, <2>2, <2>3, ProbeReads
  <2>5. mappings' \subseteq mappings \/ \E p \in Probes(cur) : RecoverMapping(p.answer.found)
    BY <1>4 DEF SkipCompleted, VerifyBlocks, Reexecute, VerifyPasses
  <2>6. ASSUME NEW r \in mappings', r \notin mappings
        PROVE  \E b \in Acts :
                 /\ RowOf(r, b)
                 /\ Numbered(b) => Placed(r.new, b) /\ r.new \in Int /\ r.new < nextId
    <3>1. PICK p \in Probes(cur) :
            p.answer.found # NoId /\ r = Row(cur, p.answer.found) /\ Creates(cur)
      BY <2>5, <2>6 DEF RecoverMapping
    <3>2. r.new = p.answer.found /\ RowOf(r, cur)
      BY <3>1 DEF Row, RowOf
    <3>3. PICK c \in Lists(cur) : \E o \in c.seen : o.for = cur /\ o.id = r.new
      BY <3>1, <3>2, ProbeReads
    <3>4. PICK o \in c.seen : o.for = cur /\ o.id = r.new
      BY <3>3
    <3>5. About(o) /\ o.in = Scope(cur)
      BY <2>3, <3>3, <3>4 DEF Lists
    <3> QED BY <1>0, <2>1, <3>2, <3>4, <3>5, FoundPlaced
  <2> QED BY <1>0, <1>d, <2>1, <2>4, <2>6, PlacedNext
<1>5. CASE Recover \/ AdoptDefault \/ AdoptConflicting
  <2>1. UNCHANGED <<nextId, mappings, probeCache, todo>> /\ cur' = cur
    BY <1>5 DEF Recover, AdoptDefault, AdoptConflicting, rounds, cur
  <2>2. PICK a \in Acts : a = cur
    BY <1>5, <1>c DEF Recover, AdoptDefault, AdoptConflicting
  <2>3. CASE n \in {o.id : o \in Visible(cur) \cup Reconciled(cur)}
    <3>1. PICK o \in Counterparts(cur) : o.id = n
      BY <2>3, SeenIsThere
    <3>2. About(o) /\ o.for = cur /\ o.in = Scope(cur)
      BY DEF Counterparts, Holds, About
    <3>3. Numbered(a) => n \in Int /\ n < nextId /\ Placed(n, a)
      BY <1>0, <2>2, <3>1, <3>2, FoundPlaced
    <3> QED BY <1>0, <1>a, <1>n, <2>1, <2>2, <3>3, PlacedNext
  <2>4. CASE ~Numbered(cur)
    BY <1>0, <1>a, <1>n, <2>1, <2>2, <2>4, PlacedNext
  <2> QED BY <1>0, <1>5, <1>n, <2>3, <2>4, SiblingsShare
          DEF Recover, AdoptDefault, AdoptConflicting, Numbered
<1>6. CASE Accepted
  <2>1. UNCHANGED <<mappings, probeCache>> /\ cur' = cur /\ Landed(cur)
        /\ n \in {AssignedId(cur, nextId), NoId} /\ cur \in Acts
    BY <1>6, <1>c, <1>n DEF Accepted, rounds, cur
  <2>2. PICK a \in Acts : a = cur
    BY <2>1
  <2>3. ASSUME n # NoId, Numbered(a)
        PROVE  Placed(n, a)'
    <3>1. n = nextId /\ nextId \in Nat /\ nextId > 0
      BY <1>0, <2>1, <2>2, <2>3 DEF AssignedId, Numbered, FreshIds
    <3>2. ASSUME NEW o \in live', o.for = a, o.id = n
          PROVE  o.in = Scope(a)
      <4>1. o \notin live
        BY <1>0, <3>1, <3>2 DEF FreshIds, Below
      <4>2. \A b : AssignedId(b, nextId + 1) \in {SameId, nextId + 1}
        BY DEF AssignedId
      <4>3. CASE \E b \in Born(cur) :
                   o = [for |-> b, id |-> AssignedId(b, nextId + 1),
                        in |-> Scope(cur) \cup {AssignedId(cur, nextId)},
                        body |-> "provisioned", full |-> FALSE]
        <5>1. o.id \in {SameId, nextId + 1}
          BY <4>2, <4>3
        <5> QED BY <3>1, <3>2, <5>1 DEF SameId
      <4> QED BY <2>1, <2>2, <4>1, <4>3, LandedIs
    <3>3. UNCHANGED mappings
      BY <2>1
    <3>4. Scope(a)' = Scope(a)
      BY <3>3 DEF Scope, Targets, Referrer, ScopeIdents, Serials
    <3> QED BY <3>1, <3>2, <3>4 DEF Placed, SameId
  <2> QED BY <1>0, <1>a, <1>n, <2>1, <2>2, <2>3, PlacedNext
<1>7. CASE RecordMapping
  <2>1. UNCHANGED <<probeCache, newId>> /\ cur' = cur /\ cur \in Acts
    BY <1>7, <1>c DEF RecordMapping, rounds, cur
  <2>2. PICK a \in Acts : a = cur
    BY <2>1
  <2>3. n # NoId => n \in Int /\ n < nextId /\ (Numbered(a) => Placed(n, a))
    BY <1>0, <1>n, <2>1, <2>2 DEF AllPlaced, FreshIds
  <2>4. n # NoId => RowOf(Row(cur, n), a)
    BY <1>0, <1>n, <2>1, <2>2 DEF RowOf, Row, SafeInv, IdInHand
  <2>5. \A r \in mappings' : r \in mappings \/ \E b \in Acts :
           /\ RowOf(r, b)
           /\ Numbered(b) => Placed(r.new, b) /\ r.new \in Int /\ r.new < nextId
    <3>1. n # NoId => Row(cur, n).new = n
      BY DEF Row
    <3> QED BY <1>7, <1>n, <2>1, <2>3, <2>4, <3>1 DEF RecordMapping
  <2> QED BY <1>0, <1>a, <1>n, <2>1, <2>2, <2>3, <2>5, PlacedNext
<1> QED BY <1>1, <1>2, <1>3, <1>4, <1>5, <1>6, <1>7
        DEF Next, Step, Guard, Send, Respond, Settling

\* Who can be referred to lies where the referring action lies, or above.
LEMMA ScopesNest ==
  ASSUME NothingInItself, AllPlaced, NEW a \in Acts, NEW b \in Acts,
         Attr[b].own \in Attr[a].refs, Attr[b].path \subseteq Referrer(a)
  PROVE  Scope(b) \subseteq Scope(a)
<1>1. Attr[b].path \subseteq Attr[a].path
  BY DEF NothingInItself, Referrer
<1>2. ASSUME NEW j \in Attr[b].path
      PROVE  Targets(j, b) \subseteq Targets(j, a)
  <2>1. ASSUME NEW r \in mappings, r.ident = j, r.ctx \subseteq Referrer(b)
        PROVE  r.ctx \subseteq Referrer(a)
    <3>1. PICK d \in Acts : RowOf(r, d)
      BY DEF AllPlaced
    <3>2. Attr[b].own \notin r.ctx
      BY <1>2, <2>1, <3>1 DEF RowOf, NothingInItself
    <3> QED BY <1>1, <2>1, <3>2 DEF Referrer
  <2> QED BY <2>1 DEF Targets
<1> QED BY <1>1, <1>2 DEF Scope, ScopeIdents


-----------------------------------------------------------------------------
(* A heal is additive.                                                     *)

\* What survived, or was put back by hand; what an address can name; and the
\* survivors that an action's address leads through.
Old == {o \in live : o.body = "operator"}
Parents == UNION {Attr[a].path : a \in Acts}
Above(a) == {x \in Old : Attr[x.for].own \in ScopeIdents(a)}

\* A survivor hangs under survivors, and each parent is there once.
Rooted(o) ==
  /\ \A i \in Attr[o.for].path : \E x \in Old : Attr[x.for].own = i
  /\ o.in = {x.id : x \in Above(o.for)}
OldWorld ==
  /\ \A o \in Old : Rooted(o)
  /\ \A o, p \in Old : Attr[o.for].own = Attr[p.for].own /\ Attr[o.for].own \in Parents
                         => o = p

\* A lookup tells whether the object of such an action survived.  Of the
\* others, creates that nothing hangs under, another one may be made.
Guarded(a) == ~Creates(a) \/ Attr[a].own \in Parents
Lost(a) == \A o \in Old : o.for # a

\* What is remembered of the survivors is true of them: the listings hold
\* them, the mappings lead to them, and no parent among them was made here.
Honest ==
  \A c \in probeCache : \A o \in Old :
    Attr[o.for].coll = c.coll /\ o.in = c.in => o \in c.seen /\ ~c.gone
OwnIds ==
  \A o : About(o) /\ Creates(o.for) =>
    IF "client" \in Attr[o.for].match THEN o.id = SameId ELSE o.id = SameId => o \in Old
RowsLead ==
  \A r \in mappings, x \in Old :
    r.ident = Attr[x.for].own /\ r.ident \in Parents => r.new = x.id
MintedNew == \A i \in minted \cap Parents : \A x \in Old : Attr[x.for].own # i

\* What is on its way to a write did not survive, nor did what was written.
WritesLost ==
  /\ pc \in Writing /\ Guarded(cur) /\ ScopeResolves(cur) => Lost(cur)
  /\ pc \in {"map", "done"} /\ Guarded(cur) /\ (fresh \/ newId # NoId) => Lost(cur)
  /\ \A a \in Members(salvageRound) : Guarded(a) => Lost(a)
  /\ phase = "salvage" => \A a \in Members(todo) : Guarded(a) => Lost(a)

Counted == IsFiniteSet(live) /\ \A c \in probeCache : IsFiniteSet(c.seen)
Running == pc \notin {"down", "finished"}
Untouched == OldWorld /\ live = Old /\ OwnIds /\ mappings = {} /\ probeCache = {}
Healing == OldWorld /\ Honest /\ OwnIds /\ RowsLead /\ MintedNew /\ WritesLost
HealInv ==
  /\ FirstRun /\ FreshIds /\ Scoped /\ Counted
  /\ runs = 0 => Untouched
  /\ Running => Healing

\* What the theorem is about: an object that others hang under is one of its
\* own, which a listing can find; a collection is one place; an address names
\* the parents of the parents it names, and a claimed device's network has
\* none; and what survived survived with all that it hangs under.
ParentsTellApart ==
  \A a, b \in Acts : Attr[a].own = Attr[b].own /\ Attr[a].own \in Parents => a = b
ParentsAreFound ==
  \A a \in Acts : Creates(a) /\ Attr[a].own \in Parents => Attr[a].match # {}
OneCollectionOnePlace ==
  \A a, b \in Acts : Attr[a].coll = Attr[b].coll => ScopeIdents(a) = ScopeIdents(b)
PathsNest ==
  \A a, b \in Acts : Attr[b].own \in ScopeIdents(a) => Attr[b].path \subseteq Attr[a].path
AddressesAreWhole ==
  /\ PathsNest
  /\ \A a, b \in Acts :
       Attr[a].kind = "claim" /\ Attr[b].own \in Attr[a].path => Attr[b].path = {}
SurvivorsStand ==
  \A a \in Survivors : \A i \in Attr[a].path : \E b \in Survivors : Attr[b].own = i

\* A heal answers from a listing of the place itself, where it is known.
LEMMA ProbeHeals ==
  ASSUME AdditiveOnly, Counted, NEW a, NEW p \in Probes(a)
  PROVE  /\ p.cache = probeCache \/ ScopeResolves(a)
         /\ p.answer.found # NoId =>
              /\ ScopeResolves(a) /\ Creates(a)
              /\ \E c \in Lists(a) : \E o \in c.seen :
                   /\ o.for = a /\ o.id = p.answer.found
                   /\ o.id = SameId \/ \A x \in c.seen : x.for = a => x = o
         /\ p.answer.verdict = "absent" /\ ~MintedAbove(a) =>
              /\ ScopeResolves(a)
              /\ \E c \in Lists(a) :
                   c.gone \/ \A o \in c.seen : o.for = a =>
                               Creates(a) /\ "key" \notin Attr[a].match /\ o.id # SameId
<1> DEFINE Finds(n) == n # NoId =>
             /\ Creates(a)
             /\ \E c \in Lists(a) : \E o \in c.seen :
                  /\ o.for = a /\ o.id = n
                  /\ o.id = SameId \/ \A x \in c.seen : x.for = a => x = o
           Misses == \E c \in Lists(a) :
             c.gone \/ \A o \in c.seen : o.for = a =>
                         Creates(a) /\ "key" \notin Attr[a].match /\ o.id # SameId
           Right(v) == Finds(v.found) /\ (v.verdict = "absent" => Misses)
           cached == {c \in probeCache : c.coll = Attr[a].coll /\ c.in = Scope(a)}
           keep(v) == [answer |-> v, cache |-> probeCache]
           read == Listing(a, Scope(a))
           miss == [answer |-> Answer(a, read), cache |-> probeCache \cup {read}]
<1>1. \A v, n : Verdict(v, n).found = n /\ Verdict(v, n).verdict = v
  BY DEF Verdict
<1>2. Finds(NoId)
  OBVIOUS
<1>3. ASSUME NEW c \in Lists(a)
      PROVE  Right(Answer(a, c))
  <2> DEFINE hits == {o \in c.seen : o.for = a}
             sole == CHOOSE o \in hits : TRUE
  <2>0. IsFiniteSet(c.seen)
    <3>1. read.seen \in SUBSET live
      BY DEF Listing
    <3>2. IsFiniteSet(read.seen)
      BY <3>1, FS_Subset DEF Counted
    <3> QED BY <3>2 DEF Lists, Read, Counted
  <2>1. IsFiniteSet(hits)
    <3>1. hits \in SUBSET c.seen
      OBVIOUS
    <3> HIDE DEF hits
    <3> QED BY <2>0, <3>1, FS_Subset
  <2>2. Cardinality(hits) = 1 => sole \in hits /\ \A x \in hits : x = sole
    <3> HIDE DEF hits
    <3>1. Cardinality(hits) = 1 => \E x : hits = {x}
      BY <2>1, FS_Singleton
    <3> QED BY <3>1
  <2>3. Creates(a) /\ Cardinality(hits) = 1 => Finds(sole.id)
    <3> HIDE DEF sole
    <3> QED BY <2>2
  <2>4. Creates(a) /\ (\E o \in hits : o.id = SameId) => Finds(SameId)
    OBVIOUS
  <2>5. /\ hits = {} \/ c.gone => Misses
        /\ Creates(a) /\ "key" \notin Attr[a].match /\ ~(\E o \in hits : o.id = SameId) => Misses
    OBVIOUS
  <2>a. hits = {} \/ Cardinality(hits) = 1 \/ Cardinality(hits) > 1
    <3> HIDE DEF hits
    <3>1. Cardinality(hits) \in Nat /\ (Cardinality(hits) = 0 <=> hits = {})
      BY <2>1, FS_CardinalityType, FS_EmptySet
    <3> QED BY <3>1
  <2> HIDE DEF hits, sole, Finds, Misses
  <2>6. Finds(Classify(a, c.seen).found)
    BY <1>1, <1>2, <2>3, <2>4 DEF Classify, hits, sole
  <2>7. Classify(a, c.seen).verdict = "absent" => Misses
    BY <1>1, <2>5, <2>a DEF Classify, hits
  <2> QED BY <1>1, <1>2, <2>5, <2>6, <2>7 DEF Answer
<1>4. read \in Lists(a) /\ cached \subseteq Lists(a)
  BY DEF Lists, Read, Listing
<1>5. \/ MintedAbove(a) /\ p = keep(Verdict("absent", NoId))
      \/ p = keep(Verdict("unverifiable", NoId))
      \/ p = keep(Verdict("proceed", NoId))
      \/ ScopeResolves(a) /\ p \in {keep(Answer(a, c)) : c \in cached}
      \/ ScopeResolves(a) /\ p = miss
      \/ p = keep(Verdict("uncertain", NoId))
  BY DEF Probes
<1> HIDE DEF read, Finds, Misses
<1>6. \/ Right(p.answer) /\ ScopeResolves(a)
      \/ /\ p.answer.found = NoId /\ p.cache = probeCache
         /\ p.answer.verdict = "absent" => MintedAbove(a)
  BY <1>1, <1>3, <1>4, <1>5
<1> QED BY <1>6 DEF Finds, Misses

\* Where the mappings place an action, survivors of its place lie.
LEMMA OldScope ==
  ASSUME AddressesAreWhole, TargetType, OldWorld, RowsLead, NEW a \in Acts, ScopeResolves(a),
         NEW o \in Old, ScopeIdents(o.for) = ScopeIdents(a)
  PROVE  o.in = Scope(a) /\ ScopeIsLive(a)
<1>0. \A x \in Old : x \in live /\ x.for \in Acts /\ Rooted(x)
  BY DEF Old, OldWorld, TargetType, Objects
<1>1. ASSUME NEW i \in ScopeIdents(a)
      PROVE  /\ \E x \in Old : Attr[x.for].own = i
             /\ \A x \in Old : Attr[x.for].own = i => Targets(i, a) = {x.id}
  <2>1. i \in Parents /\ i \in Attr[o.for].path
    BY DEF ScopeIdents, Parents
  <2>2. PICK n : Targets(i, a) = {n}
    BY DEF ScopeResolves, Resolves
  <2>3. PICK r \in mappings : r.ident = i /\ r.new = n
    BY <2>2 DEF Targets
  <2>4. \A x \in Old : Attr[x.for].own = i => x.id = n
    BY <2>1, <2>3 DEF RowsLead
  <2>5. \E x \in Old : Attr[x.for].own = i
    BY <1>0, <2>1 DEF Rooted
  <2> QED BY <2>2, <2>4, <2>5
<1>2. Scope(a) = {x.id : x \in Above(a)}
  BY <1>1 DEF Scope, Above
<1>3. o.in = Scope(a)
  BY <1>0, <1>2 DEF Rooted, Above
<1>4. ScopeIsLive(a)
  <2> SUFFICES ASSUME NEW i \in ScopeIdents(a), NEW n \in Targets(i, a)
               PROVE  \E x \in live : Attr[x.for].own = i /\ x.id = n /\ x.in \subseteq Scope(a)
    BY DEF ScopeIsLive
  <2>1. PICK x \in Old : Attr[x.for].own = i /\ x.id = n
    BY <1>1
  <2>2. Above(x.for) \subseteq Above(a)
    BY <1>0, <2>1 DEF AddressesAreWhole, PathsNest, Above, ScopeIdents
  <2> QED BY <1>0, <1>2, <2>1, <2>2 DEF Rooted
<1> QED BY <1>3, <1>4

\* A listing that is read now is true of the survivors, like those kept.
LEMMA ListsAreHonest ==
  ASSUME AddressesAreWhole, OneCollectionOnePlace, SafeInv, OldWorld, RowsLead, Honest,
         NEW a \in Acts, ScopeResolves(a), NEW c \in Read(a), NEW o \in Old,
         Attr[o.for].coll = c.coll, o.in = c.in
  PROVE  o \in c.seen /\ ~c.gone
<1>1. CASE c \in probeCache
  BY <1>1 DEF Honest
<1>2. CASE c = Listing(a, Scope(a))
  <2>1. o \in live /\ o.for \in Acts /\ TargetType
    BY DEF Old, SafeInv, TypeOK, TargetType, Objects
  <2>2. ScopeIdents(o.for) = ScopeIdents(a)
    BY <1>2, <2>1 DEF OneCollectionOnePlace, Listing
  <2>3. ScopeIsLive(a)
    BY <2>1, <2>2, OldScope
  <2> QED BY <1>2, <2>1, <2>3 DEF Listing
<1> QED BY <1>1, <1>2 DEF Read

\* What the probe reports absent, or finds.
LEMMA AbsentIsLost ==
  ASSUME AdditiveOnly, AddressesAreWhole, OneCollectionOnePlace, ParentsAreFound,
         SafeInv, Counted, Healing, NEW a \in Acts, Guarded(a), NEW p \in Probes(a),
         p.answer.verdict = "absent"
  PROVE  Lost(a)
<1> SUFFICES ASSUME NEW o \in Old, o.for = a PROVE FALSE
  BY DEF Lost
<1>0. /\ OldWorld /\ Honest /\ OwnIds /\ RowsLead /\ MintedNew /\ TargetType /\ Rooted(o)
      /\ Attr[a].match \subseteq {"key", "client"} /\ Attr[a].path \subseteq Parents
  BY AttrAssumption DEF Healing, SafeInv, TypeOK, OldWorld, AttrType, Parents
<1>1. CASE MintedAbove(a)
  BY <1>0, <1>1 DEF MintedAbove, Rooted, MintedNew
<1>2. CASE ~MintedAbove(a)
  <2>1. ScopeResolves(a)
    BY <1>2, ProbeHeals
  <2>2. PICK c \in Lists(a) : c.gone \/ \A x \in c.seen : x.for = a =>
                                Creates(a) /\ "key" \notin Attr[a].match /\ x.id # SameId
    BY <1>2, ProbeHeals
  <2>3. o.in = Scope(a)
    BY <1>0, <2>1, OldScope
  <2>4. c \in Read(a) /\ c.coll = Attr[o.for].coll /\ c.in = o.in
    BY <2>3 DEF Lists
  <2>5. o \in c.seen /\ ~c.gone
    BY <1>0, <2>1, <2>4, ListsAreHonest
  <2>6. Creates(a) /\ "key" \notin Attr[a].match /\ o.id # SameId
    BY <2>2, <2>5
  <2>7. "client" \in Attr[a].match
    BY <1>0, <2>6 DEF Guarded, ParentsAreFound
  <2> QED BY <1>0, <2>6, <2>7 DEF OwnIds, About, Old
<1> QED BY <1>1, <1>2

LEMMA FoundIsOld ==
  ASSUME AdditiveOnly, AddressesAreWhole, OneCollectionOnePlace, ParentsTellApart,
         SafeInv, Counted, Healing, NEW a \in Acts, NEW p \in Probes(a),
         p.answer.found # NoId, NEW x \in Old, Attr[x.for].own = Attr[a].own,
         Attr[a].own \in Parents
  PROVE  p.answer.found = x.id
<1>0. /\ OldWorld /\ Honest /\ OwnIds /\ RowsLead /\ TargetType /\ x \in live /\ x.for \in Acts
  BY DEF Healing, SafeInv, TypeOK, TargetType, Objects, Old
<1>1. x.for = a
  BY <1>0 DEF ParentsTellApart
<1>2. ScopeResolves(a) /\ Creates(a)
  BY ProbeHeals
<1>3. PICK c \in Lists(a) : \E o \in c.seen :
        /\ o.for = a /\ o.id = p.answer.found
        /\ o.id = SameId \/ \A y \in c.seen : y.for = a => y = o
  BY ProbeHeals
<1>4. PICK o \in c.seen :
        /\ o.for = a /\ o.id = p.answer.found
        /\ o.id = SameId \/ \A y \in c.seen : y.for = a => y = o
  BY <1>3
<1>5. x.in = Scope(a)
  BY <1>0, <1>1, <1>2, OldScope
<1>6. c \in Read(a) /\ c.coll = Attr[x.for].coll /\ c.in = x.in
  BY <1>1, <1>5 DEF Lists
<1>7. x \in c.seen
  BY <1>0, <1>2, <1>6, ListsAreHonest
<1>8. CASE o.id = SameId
  <2>1. About(o) /\ About(x)
    BY <1>0, <1>6 DEF About, Read, Listing
  <2>2. CASE "client" \in Attr[a].match
    BY <1>0, <1>1, <1>2, <1>4, <1>8, <2>1, <2>2 DEF OwnIds
  <2>3. CASE "client" \notin Attr[a].match
    <3>1. o \in Old
      BY <1>0, <1>2, <1>4, <1>8, <2>1, <2>3 DEF OwnIds
    <3> QED BY <1>0, <1>1, <1>4, <3>1 DEF OldWorld
  <2> QED BY <2>2, <2>3
<1>9. CASE \A y \in c.seen : y.for = a => y = o
  BY <1>1, <1>4, <1>7, <1>9
<1> QED BY <1>4, <1>8, <1>9

\* While the executor runs a heal, nothing happens to the survivors.
LEMMA OldStays ==
  ASSUME AdditiveOnly, EnvWhen # "between", SafeInv, Scoped, Running, WritesLost, [Next]_vars
  PROVE  /\ Old' = Old /\ Old \subseteq live'
         /\ UNCHANGED live \/ (pc = "call" /\ Landed(cur))
<1>1. ~Incident /\ ~ByHand
  BY ConstAssumption DEF Incident, ByHand, EnvMoment, Running
<1>2. CASE UNCHANGED live
  BY <1>2 DEF Old
<1>3. CASE \E os \in SUBSET live : Align(cur, os)
  BY <1>2, <1>3 DEF Align
<1>4. CASE pc = "call" /\ Landed(cur)
  <2>1. ASSUME NEW o \in live', o \notin live
        PROVE  o.body # "operator"
    <3>1. CASE o = [for |-> cur, id |-> AssignedId(cur, nextId), in |-> Scope(cur),
                    body |-> "snapshot", full |-> ListResolves(cur)]
      BY <3>1
    <3>2. CASE \E b \in Born(cur) :
                 o = [for |-> b, id |-> AssignedId(b, nextId + 1),
                      in |-> Scope(cur) \cup {AssignedId(cur, nextId)},
                      body |-> "provisioned", full |-> FALSE]
      BY <3>2
    <3> QED BY <1>4, <2>1, <3>1, <3>2, LandedIs
  <2>2. ASSUME NEW o \in Old
        PROVE  o \in live'
    <3>1. Attr[cur].kind = "configure" => o \notin Counterparts(cur)
      BY <1>4, <2>2 DEF WritesLost, Writing, Guarded, Creates, Scoped, Lost, Counterparts, Holds
    <3> QED BY <1>4, <2>2, <3>1 DEF Landed, Old
  <2> QED BY <1>4, <2>1, <2>2 DEF Old
<1> QED BY <1>1, <1>2, <1>3, <1>4, TargetChanges

LEMMA ImageCounted ==
  ASSUME NEW S, IsFiniteSet(S), NEW f, DOMAIN f = S
  PROVE  IsFiniteSet({f[x] : x \in S})
<1> DEFINE T == {f[x] : x \in S}
           g == [x \in S |-> f[x]]
<1>1. g \in Surjection(S, T)
  BY DEF Surjection
<1> HIDE DEF g, T
<1>2. IsFiniteSet(T)
  BY <1>1, FS_Surjection
<1> QED BY <1>2 DEF T

LEMMA CountedStep ==
  ASSUME SafeInv, Counted, [Next]_vars
  PROVE  Counted'
<1> USE DEF target
<1>0. IsFiniteSet(live) /\ IsFiniteSet(Acts) /\ TargetType
  BY PlanAssumption DEF Counted, SafeInv, TypeOK
<1>a. \A o : IsFiniteSet({o})
  BY FS_Singleton
<1>1. IsFiniteSet(live')
  <2>1. CASE UNCHANGED live \/ Incident
    <3>1. live' \in SUBSET live
      BY <2>1 DEF Incident
    <3> QED BY <1>0, <3>1, FS_Subset
  <2>2. CASE ByHand
    <3>1. \E o : live' = live \cup {o}
      BY <2>2 DEF ByHand
    <3> QED BY <1>0, <1>a, <3>1, FS_Union
  <2>3. CASE \E os \in SUBSET live : Align(cur, os)
    <3>1. PICK os \in SUBSET live : Align(cur, os)
      BY <2>3
    <3> DEFINE f == [o \in os |-> Pushed(o)]
    <3>2. live' = live \/ live' = (live \ os) \cup {f[o] : o \in os}
      BY <3>1 DEF Align, Pushed
    <3>3. DOMAIN f = os
      OBVIOUS
    <3> HIDE DEF f
    <3>4. IsFiniteSet(os) /\ IsFiniteSet(live \ os)
      BY <1>0, FS_Subset
    <3>5. IsFiniteSet({f[o] : o \in os})
      BY <3>3, <3>4, ImageCounted
    <3> QED BY <1>0, <3>2, <3>4, <3>5, FS_Union
  <2>4. CASE Landed(cur)
    <3> DEFINE id == AssignedId(cur, nextId)
               default(b) == [for |-> b, id |-> AssignedId(b, nextId + 1),
                              in |-> Scope(cur) \cup {id},
                              body |-> "provisioned", full |-> FALSE]
               written == [for |-> cur, id |-> id, in |-> Scope(cur), body |-> "snapshot",
                           full |-> ListResolves(cur)]
               kept == IF Attr[cur].kind = "configure" THEN live \ Counterparts(cur) ELSE live
               f == [b \in Born(cur) |-> default(b)]
    <3>1. live' = kept \cup {written} \cup (IF Creates(cur) THEN {default(b) : b \in Born(cur)}
                                            ELSE {})
      BY <2>4 DEF Landed
    <3>2. kept \in SUBSET live
      OBVIOUS
    <3> HIDE DEF default, written, kept
    <3>3. {default(b) : b \in Born(cur)} = {f[b] : b \in Born(cur)}
      OBVIOUS
    <3>4. DOMAIN f = Born(cur) /\ Born(cur) \in SUBSET Acts
      BY DEF Born
    <3> HIDE DEF f
    <3>5. IsFiniteSet(Born(cur)) /\ IsFiniteSet(kept)
      BY <1>0, <3>2, <3>4, FS_Subset
    <3>6. IsFiniteSet({f[b] : b \in Born(cur)}) /\ IsFiniteSet({})
      BY <3>4, <3>5, ImageCounted, FS_EmptySet
    <3>7. IsFiniteSet(kept \cup {written})
      BY <1>a, <3>5, FS_Union
    <3>8. PICK d : live' = (kept \cup {written}) \cup d /\ IsFiniteSet(d)
      BY <3>1, <3>3, <3>6
    <3>9. IsFiniteSet((kept \cup {written}) \cup d)
      BY <3>7, <3>8, FS_Union
    <3> QED BY <3>8, <3>9
  <2> QED BY <2>1, <2>2, <2>3, <2>4, TargetChanges
<1>2. \A c \in probeCache' : IsFiniteSet(c.seen)
  <2>1. \/ probeCache' \subseteq probeCache
        \/ \E p \in Probes(cur) : probeCache' = p.cache
    <3>1. CASE Start \/ Crash
      BY <3>1, Zenon DEF Start, Crash, FreshLocals
    <3>2. CASE ~(Start \/ Crash)
      BY <3>2 DEF Next, Step, Guard, Send, Respond, Settling, SkewedAddress, SkipDrill,
         SkipCompleted, Reexecute, RefuseForeign, SkipDead, SkipHeld, AwaitClaim, VerifyBlocks,
         VerifyPasses, Recover, AdoptDefault, NothingToAdopt, Dispatch, Defer, Unresolvable,
         Accepted, LostAnswer, AdoptConflicting, Refused, SkipRefused, Throttled, CallFailed,
         SalvageStands, RecordMapping, RecordDone, NextRound, EndOfRounds, Incident, ByHand,
         vars
    <3> QED BY <3>1, <3>2
  <2>2. Listing(cur, Scope(cur)).seen \in SUBSET live
    BY DEF Listing
  <2>3. IsFiniteSet(Listing(cur, Scope(cur)).seen)
    BY <1>0, <2>2, FS_Subset
  <2> QED BY <2>1, <2>3, ProbeReads DEF Counted, Read
<1> QED BY <1>1, <1>2 DEF Counted

\* An incident takes with an object whatever hangs under it.
LEMMA IncidentTakesAll ==
  ASSUME ParentsTellApart, AddressesAreWhole, TargetType, OldWorld, live = Old,
         NEW o \in live, NEW x \in WithDescendants(o), NEW p \in live,
         Attr[x.for].own \in Attr[p.for].path
  PROVE  p \in WithDescendants(o)
<1>0. /\ \A y \in live : y.for \in Acts /\ Rooted(y)
      /\ \A a \in Acts : Attr[a].path \subseteq Parents
  BY DEF TargetType, Objects, OldWorld, Parents
<1>1. ASSUME NEW y \in live, NEW q \in live, Attr[y.for].own \in Attr[q.for].path
      PROVE  q \in Under({y})
  <2>1. ASSUME Creates(y.for)
        PROVE  y.id \in q.in
    <3>1. Attr[y.for].own \notin Serials
      BY <1>0, <1>1, <2>1 DEF Serials, ParentsTellApart, Creates
    <3>2. y \in Above(q.for)
      BY <1>1, <3>1 DEF Above, ScopeIdents
    <3> QED BY <1>0, <3>2 DEF Rooted
  <2> QED BY <1>1, <2>1 DEF Under
<1> DEFINE kids == Under({o})
<1>2. kids \subseteq live /\ \A os : Under(os) \subseteq live
  BY DEF Under
<1>3. ASSUME NEW y \in live, NEW q \in live, NEW os, y \in os, q \in Under({y})
      PROVE  q \in Under(os)
  BY <1>3 DEF Under
<1>4. WithDescendants(o) = {o} \cup kids \cup Under(kids)
  BY DEF WithDescendants
<1> HIDE DEF kids
<1>5. CASE x = o
  BY <1>1, <1>4, <1>5 DEF kids
<1>6. CASE x \in kids
  <2>1. p \in Under({x})
    BY <1>1, <1>2, <1>6
  <2>2. p \in Under(kids)
    BY <1>2, <1>3, <1>6, <2>1
  <2> QED BY <1>4, <2>2
<1>7. CASE x \in Under(kids)
  <2>1. PICK k \in kids : Attr[k.for].own \in Attr[x.for].path
    BY <1>7 DEF Under
  <2>2. Attr[o.for].own \in Attr[k.for].path /\ k \in live /\ x \in live
    BY <1>2, <1>7 DEF Under, kids
  <2>3. Attr[k.for].own \in Attr[p.for].path
    <3>1. CASE Attr[x.for].own \in ScopeIdents(p.for)
      BY <1>0, <2>1, <2>2, <3>1 DEF AddressesAreWhole, PathsNest
    <3>2. CASE Attr[x.for].own \notin ScopeIdents(p.for)
      <4>1. PICK b \in Acts : Attr[b].kind = "claim" /\ Attr[b].own = Attr[x.for].own
        BY <3>2 DEF ScopeIdents, Serials
      <4>2. Attr[x.for].kind = "claim"
        BY <1>0, <2>2, <4>1 DEF ParentsTellApart
      <4> QED BY <1>0, <2>1, <2>2, <4>2 DEF AddressesAreWhole, PathsNest
    <3> QED BY <3>1, <3>2
  <2>4. p \in Under({k})
    BY <1>1, <2>2, <2>3
  <2>5. p \in Under(kids)
    BY <1>3, <2>2, <2>1, <2>4
  <2> QED BY <1>4, <2>5
<1> QED BY <1>4, <1>5, <1>6, <1>7

LEMMA UntouchedIncident ==
  ASSUME ParentsTellApart, AddressesAreWhole, SafeInv, Untouched, Incident
  PROVE  Untouched'
<1>0. OldWorld /\ live = Old /\ OwnIds /\ mappings = {} /\ probeCache = {} /\ TargetType
  BY DEF Untouched, SafeInv, TypeOK
<1>1. PICK o \in live : live' = live \ WithDescendants(o)
  BY DEF Incident
<1>2. UNCHANGED <<mappings, probeCache>>
  BY DEF Incident, journal
<1>3. Old' = live' /\ live' \subseteq live
  BY <1>0, <1>1 DEF Old
<1>4. ASSUME NEW p \in live', NEW x \in live, Attr[x.for].own \in Attr[p.for].path
      PROVE  x \in live'
  BY <1>0, <1>1, <1>4, IncidentTakesAll
<1>5. ASSUME NEW p \in live'
      PROVE  Rooted(p)'
  <2>1. Rooted(p)
    BY <1>0, <1>3 DEF OldWorld
  <2>2. \A i \in Attr[p.for].path : \E x \in Old' : Attr[x.for].own = i
    BY <1>0, <1>3, <1>4, <2>1 DEF Rooted
  <2>3. {x \in Old' : Attr[x.for].own \in ScopeIdents(p.for)} = Above(p.for)
    BY <1>0, <1>3, <1>4 DEF Above, ScopeIdents
  <2> QED BY <2>1, <2>2, <2>3 DEF Rooted, Above, ScopeIdents, Serials
<1>6. OldWorld'
  BY <1>0, <1>3, <1>5 DEF OldWorld
<1>7. OwnIds'
  BY <1>0, <1>2, <1>3 DEF OwnIds, About, Creates
<1> QED BY <1>0, <1>2, <1>3, <1>6, <1>7 DEF Untouched

\* Whoever puts an object back puts it under its own parents.
LEMMA UntouchedByHand ==
  ASSUME ParentsTellApart, SafeInv, FreshIds, Untouched, ByHand
  PROVE  Untouched'
<1>0. /\ OldWorld /\ live = Old /\ OwnIds /\ mappings = {} /\ probeCache = {}
      /\ \A o \in live : o.for \in Acts /\ Rooted(o)
      /\ nextId \in Nat /\ nextId > 0
  BY DEF Untouched, OldWorld, SafeInv, TypeOK, TargetType, Objects, FreshIds
<1>1. PICK a \in Acts : \E scope \in Placements(a) :
        /\ Holds(a, scope) = {} /\ HardwareIsHere(a)
        /\ live' = live \cup {[for |-> a, id |-> AssignedId(a, nextId), in |-> scope,
                               body |-> "operator", full |-> TRUE]}
  BY DEF ByHand
<1>2. PICK scope \in Placements(a) :
        /\ Holds(a, scope) = {} /\ HardwareIsHere(a)
        /\ live' = live \cup {[for |-> a, id |-> AssignedId(a, nextId), in |-> scope,
                               body |-> "operator", full |-> TRUE]}
  BY <1>1
<1>3. PICK f \in [ScopeIdents(a) -> live] :
        /\ \A i \in ScopeIdents(a) : Attr[f[i].for].own = i
        /\ scope = {f[i].id : i \in ScopeIdents(a)}
  BY DEF Placements
<1> DEFINE made == [for |-> a, id |-> AssignedId(a, nextId), in |-> scope,
                    body |-> "operator", full |-> TRUE]
<1>4. /\ made.for = a /\ made.in = scope /\ made.id = AssignedId(a, nextId)
      /\ made.body = "operator" /\ live' = live \cup {made}
  BY <1>2
<1> HIDE DEF made
<1>5. Old' = live' /\ UNCHANGED <<mappings, probeCache>>
  BY <1>0, <1>4 DEF Old, ByHand, journal
<1>6. {x.id : x \in Above(a)} = scope
  <2>1. \A i \in ScopeIdents(a) : f[i] \in Above(a)
    BY <1>0, <1>3 DEF Above
  <2>2. ASSUME NEW x \in Above(a)
        PROVE  x = f[Attr[x.for].own]
    <3>1. Attr[x.for].own \in ScopeIdents(a) /\ Attr[x.for].own \in Parents /\ x \in Old
      BY DEF Above, ScopeIdents, Parents
    <3> QED BY <1>0, <1>3, <3>1 DEF OldWorld
  <2>3. \A x \in Above(a) : Attr[x.for].own \in ScopeIdents(a)
    BY DEF Above
  <2> QED BY <1>3, <2>1, <2>2, <2>3
<1>7. ASSUME NEW x \in live, Attr[x.for].own = Attr[a].own, Attr[a].own \in Parents
      PROVE  FALSE
  <2>1. x.for = a
    BY <1>0, <1>7 DEF ParentsTellApart
  <2>2. x.in = scope
    BY <1>0, <1>6, <2>1 DEF Rooted
  <2> QED BY <1>2, <2>1, <2>2 DEF Holds
<1>8. ASSUME NEW b \in Acts, \A i \in Attr[b].path : \E x \in Old : Attr[x.for].own = i
      PROVE  {x \in Old' : Attr[x.for].own \in ScopeIdents(b)} = Above(b)
  <2>1. Attr[a].own \notin ScopeIdents(b)
    BY <1>0, <1>7, <1>8 DEF ScopeIdents, Parents
  <2> QED BY <1>0, <1>4, <1>5, <2>1 DEF Above
<1>9. \A i \in Attr[a].path : \E x \in Old : Attr[x.for].own = i
  <2> SUFFICES ASSUME NEW i \in Attr[a].path PROVE \E x \in Old : Attr[x.for].own = i
    OBVIOUS
  <2>1. CASE i \in Serials
    BY <1>0, <1>2, <2>1 DEF HardwareIsHere
  <2>2. CASE i \notin Serials
    BY <1>0, <1>3, <2>2 DEF ScopeIdents
  <2> QED BY <2>1, <2>2
<1>10. ASSUME NEW o \in live'
       PROVE  Rooted(o)'
  <2>1. o.for \in Acts /\ \A i \in Attr[o.for].path : \E x \in Old : Attr[x.for].own = i
    BY <1>0, <1>4, <1>9 DEF Rooted
  <2>2. o.in = {x.id : x \in Above(o.for)}
    BY <1>0, <1>4, <1>6 DEF Rooted
  <2>3. Above(o.for) = {x \in Old' : Attr[x.for].own \in ScopeIdents(o.for)}
    BY <1>8, <2>1
  <2> QED BY <1>0, <1>4, <1>5, <2>1, <2>2, <2>3 DEF Rooted, Above, ScopeIdents, Serials
<1>11. OldWorld'
  BY <1>0, <1>4, <1>5, <1>7, <1>10 DEF OldWorld, Parents
<1>12. OwnIds'
  BY <1>0, <1>4, <1>5 DEF OwnIds, About, Creates, AssignedId, SameId
<1> QED BY <1>0, <1>5, <1>11, <1>12 DEF Untouched

\* What the executor remembers changes where it probes or records.
LEMMA MemoryChanges ==
  ASSUME SafeInv, Running, [Next]_vars
  PROVE  /\ \/ probeCache' \subseteq probeCache
            \/ todo # <<>> /\ \E p \in Probes(cur) : probeCache' = p.cache
         /\ \/ mappings' \subseteq mappings
            \/ todo # <<>> /\ \E p \in Probes(cur) : RecoverMapping(p.answer.found)
            \/ RecordMapping
         /\ minted' \subseteq minted \/ RecordDone
<1> USE DEF journal, ledger
<1>1. CASE Crash
  BY <1>1, Zenon DEF Crash, FreshLocals
<1>2. CASE SkipCompleted \/ Reexecute \/ VerifyBlocks \/ VerifyPasses
  <2>1. todo # <<>>
    BY <1>2 DEF SkipCompleted, Reexecute, VerifyBlocks, VerifyPasses, Cleared, Addressing,
       Taking, SafeInv, Working
  <2> QED BY <1>2, <2>1 DEF SkipCompleted, Reexecute, VerifyBlocks, VerifyPasses
<1>3. CASE ~(Crash \/ SkipCompleted \/ Reexecute \/ VerifyBlocks \/ VerifyPasses)
  BY <1>3 DEF Next, Step, Guard, Send, Respond, Settling, SkewedAddress, SkipDrill,
     RefuseForeign, SkipDead, SkipHeld, AwaitClaim, Recover, AdoptDefault, NothingToAdopt,
     Dispatch, Defer, Unresolvable, Accepted, LostAnswer, AdoptConflicting, Refused,
     SkipRefused, Throttled, CallFailed, SalvageStands, RecordMapping, RecordDone, NextRound,
     EndOfRounds, Start, Incident, ByHand, Running, vars
<1> QED BY <1>1, <1>2, <1>3

\* How an action comes to be written, and how it was.
LEMMA WritingComes ==
  ASSUME EnvWhen # "between", SafeInv, Salvaging, Scoped, Running, [Next]_vars
  PROVE  /\ pc' \in Writing =>
              \/ VerifyPasses
              \/ pc \in Writing /\ cur' = cur /\ UNCHANGED mappings
              \/ phase' = "salvage" /\ cur' \in Members(todo')
         /\ pc' \in {"map", "done"} =>
              \/ pc \in Writing /\ cur' = cur /\ ScopeResolves(cur)
              \/ pc \in {"map", "done"} /\ cur' = cur /\ UNCHANGED <<fresh, newId>>
<1> USE DEF Writing, rounds
<1>1. CASE VerifyPasses
  BY <1>1 DEF VerifyPasses
<1>2. CASE NothingToAdopt \/ Dispatch \/ UNCHANGED vars
  BY <1>2 DEF NothingToAdopt, Dispatch, vars, journal, local, cur
<1>3. CASE Recover \/ AdoptDefault \/ Accepted \/ AdoptConflicting
  <2>1. /\ pc \in Writing /\ pc' = "map" /\ cur' = cur
    BY <1>3 DEF Recover, AdoptDefault, Accepted, AdoptConflicting, cur
  <2>2. ScopeResolves(cur)
    <3>1. Recover \/ AdoptDefault => Visible(cur) # {}
      BY DEF Recover, AdoptDefault, Reconciled
    <3>2. Visible(cur) # {} => ScopeResolves(cur)
      BY DEF Visible
    <3> QED BY <1>3, <3>1, <3>2 DEF Accepted, AdoptConflicting, Scoped
  <2> QED BY <2>1, <2>2
<1>4. CASE RecordMapping
  BY <1>4 DEF RecordMapping, local, cur
<1>5. CASE Reexecute \/ NextRound
  BY <1>5 DEF Reexecute, NextRound
<1>6. CASE Start \/ Crash
  BY <1>6, Zenon DEF Start, Crash, FreshLocals
<1>7. CASE SkewedAddress \/ SkipDrill \/ SkipCompleted \/ RefuseForeign \/ SkipDead
           \/ SkipHeld \/ AwaitClaim \/ VerifyBlocks \/ Defer \/ Unresolvable
           \/ LostAnswer \/ Refused \/ SkipRefused \/ Throttled \/ CallFailed
           \/ SalvageStands \/ RecordDone
  <2>1. /\ Advance /\ phase' = phase /\ pc \notin {"down", "round", "finished"}
    BY <1>7 DEF SkewedAddress, SkipDrill, SkipCompleted, RefuseForeign, SkipDead, SkipHeld,
       AwaitClaim, VerifyBlocks, Defer, Unresolvable, LostAnswer, Refused, SkipRefused,
       Throttled, CallFailed, SalvageStands, RecordDone, Taking, Addressing, Cleared,
       Fail, Settle
  <2>2. todo \in Seq(Acts) /\ todo # <<>> /\ phase \in {"main", "salvage"}
    BY <2>1 DEF SafeInv, TypeOK, QueueType, ControlType, Working
  <2>3. pc' \in {"take", "send", "round", "finished"}
    BY <2>1 DEF Advance
  <2>4. pc' = "send" => phase' = "salvage" /\ cur' \in Members(todo')
    <3>1. SUFFICES ASSUME pc' = "send"
                   PROVE  phase' = "salvage" /\ cur' \in Members(todo')
      OBVIOUS
    <3>2. Tail(todo) \in Seq(Acts) /\ Tail(todo) # <<>> /\ phase = "salvage"
      BY <2>1, <2>2, <3>1, HeadTail DEF Advance
    <3>3. Head(Tail(todo)) \in Members(Tail(todo))
      BY <3>2, MembersOfRest
    <3> QED BY <2>1, <3>2, <3>3 DEF Advance, cur
  <2> QED BY <2>3, <2>4
<1>8. CASE EndOfRounds
  <2>1. salvageRound \in Seq(Acts)
    BY DEF SafeInv, TypeOK, QueueType
  <2>2. salvageRound # <<>> => Head(salvageRound) \in Members(salvageRound)
    BY <2>1, MembersOfRest
  <2> QED BY <1>8, <2>2 DEF EndOfRounds, cur
<1>9. CASE Incident \/ ByHand
  BY <1>9, ConstAssumption DEF Incident, ByHand, EnvMoment, Running
<1> QED BY <1>1, <1>2, <1>3, <1>4, <1>5, <1>6, <1>7, <1>8, <1>9
        DEF Next, Step, Guard, Send, Respond, Settling

LEMMA ResolvesKept ==
  ASSUME UNCHANGED mappings, cur' = cur
  PROVE  ScopeResolves(cur)' <=> ScopeResolves(cur)
<1>1. \A i, a : Targets(i, a)' = Targets(i, a)
  BY DEF Targets
<1> QED BY <1>1 DEF ScopeResolves, Resolves

LEMMA WritesLostStep ==
  ASSUME EnvWhen # "between", AdditiveOnly, AddressesAreWhole, OneCollectionOnePlace,
         ParentsAreFound, SafeInv, Salvaging, Scoped, Counted, Healing, Running, Running',
         Old' = Old, [Next]_vars
  PROVE  WritesLost'
<1>0. /\ WritesLost /\ Salvaging' /\ TakesUp
      /\ \A a : (Lost(a)' <=> Lost(a)) /\ (Guarded(a)' <=> Guarded(a))
  BY StepsTakeUp DEF Healing, Lost, Guarded, Creates
<1>1. \A a \in Members(salvageRound') : Guarded(a) => Lost(a)
  BY <1>0 DEF TakesUp, WritesLost, Writing, Scoped
<1>2. phase' = "salvage" => \A a \in Members(todo') : Guarded(a) => Lost(a)
  BY <1>0 DEF TakesUp, WritesLost, Running
<1>3. pc' \in Writing /\ Guarded(cur') /\ ScopeResolves(cur)' => Lost(cur')
  <2> SUFFICES ASSUME pc' \in Writing, Guarded(cur'), ScopeResolves(cur)'
               PROVE  Lost(cur')
    OBVIOUS
  <2>1. CASE VerifyPasses
    <3>1. todo # <<>> /\ cur' = cur /\ UNCHANGED mappings
      BY <2>1 DEF VerifyPasses, Cleared, Addressing, Taking, SafeInv, Working, rounds, cur,
         journal
    <3>2. cur \in Acts
      BY <3>1, CurrentAction
    <3>3. ScopeResolves(cur)
      BY <3>1, ResolvesKept
    <3>4. PICK p \in Probes(cur) : p.answer.verdict \in {"absent", "proceed"}
      BY <2>1 DEF VerifyPasses
    <3>5. p.answer.verdict = "absent"
      BY <3>3, <3>4, ProbeReads
    <3> QED BY <3>1, <3>2, <3>5, AbsentIsLost
  <2>2. CASE pc \in Writing /\ cur' = cur /\ UNCHANGED mappings
    <3>1. ScopeResolves(cur)
      BY <2>2, ResolvesKept
    <3> QED BY <1>0, <2>2, <3>1 DEF WritesLost
  <2> QED BY <1>2, <2>1, <2>2, WritingComes
<1>4. pc' \in {"map", "done"} /\ Guarded(cur') /\ (fresh \/ newId # NoId)' => Lost(cur')
  BY <1>0, WritingComes DEF WritesLost
<1> QED BY <1>0, <1>1, <1>2, <1>3, <1>4 DEF WritesLost, Lost, Guarded, Creates

LEMMA OwnIdsStep ==
  ASSUME SafeInv, Running, FreshIds, OwnIds, Old' = Old,
         UNCHANGED live \/ (pc = "call" /\ Landed(cur)), [Next]_vars
  PROVE  OwnIds'
<1>0. nextId \in Nat /\ nextId > 0
  BY DEF FreshIds
<1>1. ASSUME NEW o, About(o)', o \notin live'
      PROVE  About(o)
  BY <1>1, MemoryChanges, ProbeFinds DEF About
<1>2. ASSUME NEW o \in live', o \notin live, Creates(o.for)
      PROVE  o.id = AssignedId(o.for, nextId) \/ o.id = AssignedId(o.for, nextId + 1)
  <2>1. CASE o = [for |-> cur, id |-> AssignedId(cur, nextId), in |-> Scope(cur),
                  body |-> "snapshot", full |-> ListResolves(cur)]
    BY <2>1
  <2>2. CASE \E b \in Born(cur) :
               o = [for |-> b, id |-> AssignedId(b, nextId + 1),
                    in |-> Scope(cur) \cup {AssignedId(cur, nextId)},
                    body |-> "provisioned", full |-> FALSE]
    BY <2>2
  <2> QED BY <1>2, <2>1, <2>2, LandedIs
<1>3. ASSUME NEW o \in live', o \notin live, Creates(o.for)
      PROVE  IF "client" \in Attr[o.for].match THEN o.id = SameId ELSE o.id # SameId
  BY <1>0, <1>2, <1>3 DEF AssignedId, SameId
<1> QED BY <1>1, <1>3 DEF OwnIds, About, Creates

LEMMA HealingStep ==
  ASSUME EnvWhen # "between", AdditiveOnly, AddressesAreWhole, OneCollectionOnePlace,
         ParentsAreFound, ParentsTellApart, SafeInv, Salvaging, Scoped, FreshIds, Counted,
         Healing, Running, Running', [Next]_vars
  PROVE  Healing'
<1>0. /\ OldWorld /\ Honest /\ OwnIds /\ RowsLead /\ MintedNew /\ WritesLost
      /\ \A x \in Old : x.for \in Acts
  BY DEF Healing, Old, SafeInv, TypeOK, TargetType, Objects
<1>1. Old' = Old /\ (UNCHANGED live \/ (pc = "call" /\ Landed(cur)))
  BY <1>0, OldStays
<1>2. todo # <<>> => cur \in Acts
  BY CurrentAction
<1>3. OldWorld'
  BY <1>0, <1>1 DEF OldWorld, Rooted, Above
<1>4. Honest'
  <2> SUFFICES ASSUME NEW c \in probeCache', NEW o \in Old,
                      Attr[o.for].coll = c.coll, o.in = c.in
               PROVE  o \in c.seen /\ ~c.gone
    BY <1>1 DEF Honest
  <2>1. CASE c \in probeCache
    BY <1>0, <2>1 DEF Honest
  <2>2. CASE c \notin probeCache
    <3>1. PICK p \in Probes(cur) : probeCache' = p.cache
      BY <2>2, MemoryChanges
    <3>2. todo # <<>>
      BY <2>2, MemoryChanges
    <3>3. ScopeResolves(cur) /\ c \in Read(cur)
      BY <2>2, <3>1, ProbeHeals, ProbeReads
    <3> QED BY <1>0, <1>2, <3>2, <3>3, ListsAreHonest
  <2> QED BY <2>1, <2>2
<1>5. OwnIds'
  BY <1>0, <1>1, OwnIdsStep
<1>6. RowsLead'
  <2> SUFFICES ASSUME NEW r \in mappings', NEW x \in Old, r.ident = Attr[x.for].own,
                      r.ident \in Parents
               PROVE  r.new = x.id
    BY <1>1 DEF RowsLead, Parents
  <2>1. CASE r \in mappings
    BY <1>0, <2>1 DEF RowsLead
  <2>2. CASE r \notin mappings /\ RecordMapping
    <3>1. newId # NoId /\ pc = "map" /\ r.ident = Attr[cur].own /\ r = Row(cur, newId)
      BY <2>2 DEF RecordMapping, Row
    <3>2. todo # <<>>
      BY <3>1 DEF SafeInv, Working
    <3>3. x.for = cur
      BY <1>0, <1>2, <3>1, <3>2 DEF ParentsTellApart
    <3> QED BY <1>0, <3>1, <3>3 DEF WritesLost, Guarded, Lost
  <2>3. CASE r \notin mappings /\ ~RecordMapping
    <3>1. PICK p \in Probes(cur) : RecoverMapping(p.answer.found)
      BY <2>3, MemoryChanges
    <3>2. todo # <<>>
      BY <2>3, MemoryChanges
    <3>3. r = Row(cur, p.answer.found) /\ p.answer.found # NoId
      BY <2>3, <3>1 DEF RecoverMapping
    <3>4. r.ident = Attr[cur].own /\ r.new = p.answer.found
      BY <3>3 DEF Row
    <3> QED BY <1>2, <3>2, <3>3, <3>4, FoundIsOld
  <2> QED BY <2>1, <2>2, <2>3
<1>7. MintedNew'
  <2>1. CASE minted' \subseteq minted
    BY <1>0, <1>1, <2>1 DEF MintedNew, Parents
  <2>2. CASE RecordDone /\ ~(minted' \subseteq minted)
    <3>1. pc = "done" /\ fresh /\ minted' = minted \cup {Attr[cur].own}
      BY <2>2 DEF RecordDone
    <3>2. todo # <<>>
      BY <3>1 DEF SafeInv, Working
    <3>3. ASSUME NEW x \in Old, Attr[x.for].own = Attr[cur].own, Attr[cur].own \in Parents
          PROVE  FALSE
      <4>1. x.for = cur
        BY <1>0, <1>2, <3>2, <3>3 DEF ParentsTellApart
      <4> QED BY <1>0, <3>1, <3>3, <4>1 DEF WritesLost, Guarded, Lost
    <3> QED BY <1>0, <1>1, <3>1, <3>3 DEF MintedNew, Parents
  <2> QED BY <2>1, <2>2, MemoryChanges
<1>8. WritesLost'
  BY <1>1, WritesLostStep
<1> QED BY <1>3, <1>4, <1>5, <1>6, <1>7, <1>8 DEF Healing

LEMMA HealStep ==
  ASSUME EnvWhen # "between", MaxRuns = 1, AdditiveOnly, AddressesAreWhole,
         OneCollectionOnePlace, ParentsAreFound, ParentsTellApart, HealInv, [Next]_vars
  PROVE  HealInv'
<1>0. /\ FirstRun /\ FreshIds /\ Scoped /\ Counted /\ SafeInv /\ Salvaging /\ runs \in Nat
      /\ FirstRun' /\ FreshIds' /\ Scoped' /\ Counted'
  BY FirstRunStep, FreshStep, ScopedStep, CountedStep
     DEF HealInv, FirstRun, OnceInv, SafeInv, TypeOK, BoundType
<1>1. CASE Running
  <2>1. Running' => Healing'
    BY <1>0, <1>1, HealingStep DEF HealInv
  <2>2. runs' # 0
    <3>1. runs # 0
      BY <1>0, <1>1 DEF FirstRun, Running
    <3>2. runs' = runs
      BY <1>1 DEF Running, Next, Step, Guard, Send, Respond, Settling, SkewedAddress, SkipDrill,
         SkipCompleted, Reexecute, RefuseForeign, SkipDead, SkipHeld, AwaitClaim, VerifyBlocks,
         VerifyPasses, Recover, AdoptDefault, NothingToAdopt, Dispatch, Defer, Unresolvable,
         Accepted, LostAnswer, AdoptConflicting, Refused, SkipRefused, Throttled, CallFailed,
         SalvageStands, RecordMapping, RecordDone, NextRound, EndOfRounds, Start, Crash,
         Incident, ByHand, vars, bounds
    <3> QED BY <3>1, <3>2
  <2> QED BY <1>0, <2>1, <2>2 DEF HealInv
<1>2. CASE ~Running
  <2>1. Start \/ Incident \/ ByHand \/ UNCHANGED vars
    BY <1>2 DEF Running, Next, Step, Guard, Send, Respond, Settling, SkewedAddress, SkipDrill,
       SkipCompleted, Reexecute, RefuseForeign, SkipDead, SkipHeld, AwaitClaim, VerifyBlocks,
       VerifyPasses, Recover, AdoptDefault, NothingToAdopt, Dispatch, Defer, Unresolvable,
       Accepted, LostAnswer, AdoptConflicting, Refused, SkipRefused, Throttled, CallFailed,
       SalvageStands, RecordMapping, RecordDone, NextRound, EndOfRounds, Crash,
       Cleared, Addressing, Taking
  <2>2. CASE Start
    <3>1. runs = 0 /\ Untouched /\ runs' = 1
      BY <1>0, <2>2 DEF Start, HealInv
    <3>2. UNCHANGED <<live, mappings>>
      BY <2>2 DEF Start, journal, target
    <3>3. /\ pc' = "take" /\ phase' = "main" /\ probeCache' = {} /\ salvageRound' = <<>>
          /\ minted' = {}
      BY <2>2, Zenon DEF Start, FreshLocals
    <3>4. Old' = Old
      BY <3>2 DEF Old
    <3>5. OldWorld' /\ OwnIds'
      BY <3>1, <3>2, <3>3, <3>4 DEF Untouched, OldWorld, Rooted, Above, OwnIds, About, Creates
    <3>6. Honest' /\ RowsLead' /\ MintedNew'
      BY <3>1, <3>2, <3>3 DEF Untouched, Honest, RowsLead, MintedNew
    <3>7. WritesLost'
      BY <3>3, NothingSalvaged DEF WritesLost, Writing
    <3> QED BY <1>0, <3>1, <3>5, <3>6, <3>7 DEF HealInv, Healing
  <2>3. CASE Incident \/ ByHand
    <3>1. UNCHANGED <<runs, pc>>
      BY <2>3 DEF Incident, ByHand
    <3>2. runs = 0 => Untouched'
      BY <1>0, <2>3, UntouchedIncident, UntouchedByHand DEF HealInv
    <3> QED BY <1>0, <1>2, <3>1, <3>2 DEF HealInv, Running
  <2>4. CASE UNCHANGED vars
    <3>1. UNCHANGED <<live, mappings, probeCache, pc, runs>>
      BY <2>4 DEF vars, journal, target, bounds
    <3>2. Untouched => Untouched'
      BY <3>1 DEF Untouched, OldWorld, Rooted, Above, Old, OwnIds, About, Creates
    <3> QED BY <1>0, <1>2, <3>1, <3>2 DEF HealInv, Running
  <2> QED BY <2>1, <2>2, <2>3, <2>4
<1> QED BY <1>1, <1>2

LEMMA HealStarts ==
  ASSUME SurvivorsStand, ParentsTellApart, Init
  PROVE  HealInv
<1>1. /\ mappings = {} /\ probeCache = {} /\ pc = "down" /\ runs = 0 /\ completed = {}
      /\ live = {[for |-> a, id |-> SameId,
                  in |-> IF ScopeIdents(a) = {} THEN {} ELSE {SameId},
                  body |-> "operator", full |-> TRUE] : a \in Survivors}
  BY Zenon DEF Init
<1>2. FirstRun /\ FreshIds /\ Scoped
  BY <1>1, OnceStarts, ScopeStarts DEF FirstRun, ScopeInv
<1>3. /\ \A o \in live : o = [for |-> o.for, id |-> SameId,
                              in |-> IF ScopeIdents(o.for) = {} THEN {} ELSE {SameId},
                              body |-> "operator", full |-> TRUE]
      /\ \A o \in live : o.for \in Survivors
  BY SurvivorsAreThemselves
<1>4. \A a \in Survivors : \E o \in live : o.for = a
  <2> DEFINE made(a) == [for |-> a, id |-> SameId,
                         in |-> IF ScopeIdents(a) = {} THEN {} ELSE {SameId},
                         body |-> "operator", full |-> TRUE]
  <2>1. live = {made(a) : a \in Survivors} /\ \A a : made(a).for = a
    BY <1>1
  <2> HIDE DEF made
  <2> QED BY <2>1
<1>5. \A o \in live : /\ o.id = SameId /\ o.body = "operator"
                      /\ o.in = IF ScopeIdents(o.for) = {} THEN {} ELSE {SameId}
  <2> SUFFICES ASSUME NEW o \in live
               PROVE  /\ o.id = SameId /\ o.body = "operator"
                      /\ o.in = IF ScopeIdents(o.for) = {} THEN {} ELSE {SameId}
    OBVIOUS
  <2> DEFINE home == IF ScopeIdents(o.for) = {} THEN {} ELSE {SameId}
  <2>1. o = [for |-> o.for, id |-> SameId, in |-> home, body |-> "operator", full |-> TRUE]
    BY <1>3, Zenon
  <2> HIDE DEF home
  <2>2. o.id = SameId /\ o.body = "operator" /\ o.in = home
    BY <2>1
  <2> QED BY <2>2 DEF home
<1>6. live = Old /\ Survivors \subseteq Acts
  BY <1>5, ConstAssumption DEF Old
<1>7. ASSUME NEW o \in Old
      PROVE  Rooted(o)
  <2>1. \A i \in Attr[o.for].path : \E x \in Old : Attr[x.for].own = i
    BY <1>3, <1>4, <1>6 DEF SurvivorsStand
  <2>2. ScopeIdents(o.for) = {} => Above(o.for) = {}
    BY DEF Above
  <2>3. ScopeIdents(o.for) # {} => \E x \in Above(o.for) : TRUE
    BY <2>1 DEF Above, ScopeIdents
  <2>4. \A x \in Above(o.for) : x.id = SameId
    BY <1>5, <1>6 DEF Above
  <2>5. o.in = {x.id : x \in Above(o.for)}
    BY <1>5, <1>6, <2>2, <2>3, <2>4
  <2> QED BY <2>1, <2>5 DEF Rooted
<1>8. ASSUME NEW o \in Old, NEW p \in Old, Attr[o.for].own = Attr[p.for].own,
             Attr[o.for].own \in Parents
      PROVE  o = p
  <2>1. o.for = p.for
    BY <1>3, <1>6, <1>8 DEF ParentsTellApart
  <2> QED BY <1>3, <1>6, <2>1, Zenon
<1>9. OwnIds
  BY <1>1, <1>5, <1>6 DEF OwnIds, About
<1>10. Counted
  <2>1. IsFiniteSet(Survivors)
    BY PlanAssumption, ConstAssumption, FS_Subset
  <2> DEFINE f == [a \in Survivors |->
                     [for |-> a, id |-> SameId,
                      in |-> IF ScopeIdents(a) = {} THEN {} ELSE {SameId},
                      body |-> "operator", full |-> TRUE]]
  <2>2. live = {f[a] : a \in Survivors} /\ DOMAIN f = Survivors
    BY <1>1
  <2> HIDE DEF f
  <2> QED BY <1>1, <2>1, <2>2, ImageCounted DEF Counted
<1> QED BY <1>1, <1>2, <1>6, <1>7, <1>8, <1>9, <1>10
        DEF HealInv, Untouched, OldWorld, Running

-----------------------------------------------------------------------------
(* One side of a pair is written with its link.                            *)

\* Objects that list each other: two creates of the plan, each alone in the
\* other's list, unmistakable, and each in reach of the other's references.
LinksAreMutual ==
  \A a, b \in Acts : Attr[b].own \in Attr[a].lists =>
    /\ a # b /\ Creates(a) /\ Creates(b)
    /\ Attr[a].lists = {Attr[b].own} /\ Attr[b].lists = {Attr[a].own}
    /\ Attr[b].path \subseteq Referrer(a)
    /\ \A c \in Acts : Attr[c].own = Attr[b].own => c = b

Unwritten(a) == \A o \in live : o.for = a => o.body # "snapshot"
Full(a) == \A o \in live : o.for = a /\ o.body = "snapshot" => o.full
Listed(i) == \E a \in Acts : i \in Attr[a].lists

\* What the run has still to write, or to give up.
ToDo ==
  (IF pc \in {"map", "done"} THEN Members(Tail(todo)) ELSE Members(todo))
  \cup (IF phase = "main"
        THEN Members(deferred) \cup Members(throttled) \cup Members(salvageRound) ELSE {})

\* What is still to be written has neither object nor row; what is written
\* after its partner was mapped is written with the link.
NotYet == \A a \in ToDo : Unwritten(a) /\ (Listed(Attr[a].own) => ~HasMapping(a))
RowsAreOwned ==
  \A r \in mappings : Listed(r.ident) =>
    /\ \E a \in Acts : RowOf(r, a)
    /\ \A q \in mappings : q.ident = r.ident => q = r
WrittenLast ==
  pc = "map" /\ Listed(Attr[cur].own) =>
    /\ ~HasMapping(cur)
    /\ \A b \in Acts : Attr[b].own \in Attr[cur].lists /\ HasMapping(b) => Full(cur)
OneSided ==
  \A a, b \in Acts :
    Attr[b].own \in Attr[a].lists /\ HasMapping(a) /\ HasMapping(b) => Full(a) \/ Full(b)
LinkInv ==
  /\ FirstRun
  /\ runs = 0 => mappings = {} /\ \A o \in live : o.body # "snapshot"
  /\ pc # "down" => NotYet
  /\ RowsAreOwned /\ WrittenLast /\ OneSided

\* The queues and the current action, taken up once.
LEMMA ComesUpOnce ==
  ASSUME MaxRuns = 1, FirstRun, [Next]_vars, pc # "down", pc' # "down"
  PROVE  /\ ToDo' \subseteq ToDo /\ ToDo \subseteq Acts
         /\ pc \notin {"map", "done", "round", "finished"} => cur \in ToDo
         /\ pc \notin {"round", "finished"} =>
              UNCHANGED <<live, mappings>> \/ Incident \/ ByHand \/ cur \notin ToDo'
<1> USE DEF rounds, retries, journal, target, local
<1>0. /\ OnceInv /\ OnceInv' /\ SafeInv /\ Salvaging /\ phase \in {"main", "salvage"}
      /\ todo \in Seq(Acts) /\ deferred \in Seq(Acts) /\ throttled \in Seq(Acts)
      /\ salvageRound \in Seq(Acts)
  BY OnceStep DEF FirstRun, OnceInv, SafeInv, TypeOK, ControlType, QueueType
<1>1. ASSUME pc \notin {"down", "round", "finished"}
      PROVE  /\ todo # <<>> /\ cur \in Acts /\ Tail(todo) \in Seq(Acts)
             /\ Members(todo) = {cur} \cup Members(Tail(todo)) /\ cur \notin Members(Tail(todo))
             /\ phase = "main" =>
                  cur \notin Members(deferred) \cup Members(throttled) \cup Members(salvageRound)
  <2>1. todo # <<>>
    BY <1>0, <1>1 DEF SafeInv, Working
  <2> QED BY <1>0, <2>1, CurrentAction, HeadTail, MembersOfRest, DistinctRest
          DEF OnceInv, Once, Apart, cur
<1>2. ToDo \subseteq Acts
  <2>1. pc \in {"map", "done"} => Tail(todo) \in Seq(Acts)
    BY <1>1
  <2> QED BY <1>0, <2>1, MembersAreActs DEF ToDo
<1>3. pc \notin {"map", "done", "round", "finished"} => cur \in ToDo
  BY <1>1 DEF ToDo
<1>4. CASE VerifyPasses \/ Recover \/ AdoptDefault \/ NothingToAdopt \/ Dispatch \/ Accepted
           \/ AdoptConflicting \/ RecordMapping \/ Incident \/ ByHand \/ UNCHANGED vars
  <2>1. /\ UNCHANGED <<phase, todo, deferred, throttled, salvageRound>> /\ cur' = cur
    BY <1>4 DEF VerifyPasses, Recover, AdoptDefault, NothingToAdopt, Dispatch, Accepted,
       AdoptConflicting, RecordMapping, Incident, ByHand, vars, cur
  <2>2. pc' = pc \/ (pc \notin {"down", "round", "finished"} /\
                     (pc \in {"map", "done"} => pc' \in {"map", "done"}))
    BY <1>4 DEF VerifyPasses, Recover, AdoptDefault, NothingToAdopt, Dispatch, Accepted,
       AdoptConflicting, RecordMapping, Incident, ByHand, vars, Cleared, Addressing, Taking
  <2>3. ToDo' = (IF pc' \in {"map", "done"} THEN Members(Tail(todo)) ELSE Members(todo))
                \cup (IF phase = "main" THEN Members(deferred) \cup Members(throttled)
                                             \cup Members(salvageRound) ELSE {})
    BY <2>1 DEF ToDo, Members
  <2>4. ToDo' \subseteq ToDo
    BY <1>1, <2>2, <2>3 DEF ToDo
  <2>5. pc \notin {"down", "round", "finished"} /\ pc' \in {"map", "done"} => cur \notin ToDo'
    BY <1>1, <2>3
  <2>6. \/ UNCHANGED <<live, mappings>> \/ Incident \/ ByHand
        \/ pc \notin {"down", "round", "finished"} /\ pc' \in {"map", "done"}
    BY <1>4 DEF VerifyPasses, Recover, AdoptDefault, NothingToAdopt, Dispatch, Accepted,
       AdoptConflicting, RecordMapping, vars
  <2> QED BY <1>2, <1>3, <2>4, <2>5, <2>6
<1>5. CASE SkipCompleted \/ Reexecute \/ Start \/ Crash
  <2>1. ~Start
    BY <1>0, <1>5 DEF Start, FirstRun, SafeInv, TypeOK, BoundType
  <2>2. ~Crash
    BY Zenon DEF Crash, FreshLocals
  <2>3. Taking => cur \notin completed
    BY <1>0, <1>1 DEF Taking, FirstRun, Undone
  <2> QED BY <1>5, <2>1, <2>2, <2>3 DEF SkipCompleted, Reexecute
<1>6. CASE SkewedAddress \/ SkipDrill \/ RefuseForeign \/ SkipDead
           \/ SkipHeld \/ AwaitClaim \/ VerifyBlocks \/ Defer \/ Unresolvable
           \/ LostAnswer \/ Refused \/ SkipRefused \/ Throttled \/ CallFailed
           \/ SalvageStands \/ RecordDone
  <2>1. Advance /\ phase' = phase /\ pc \notin {"down", "round", "finished"}
    BY <1>6 DEF SkewedAddress, SkipDrill, RefuseForeign, SkipDead, SkipHeld,
       AwaitClaim, VerifyBlocks, Defer, Unresolvable, LostAnswer, Refused, SkipRefused,
       Throttled, CallFailed, SalvageStands, RecordDone, Taking, Addressing, Cleared,
       Fail, Settle
  <2>2. todo' = Tail(todo) /\ pc' \notin {"map", "done"}
    BY <2>1 DEF Advance
  <2>3. ToDo' = Members(Tail(todo)) \cup
                (IF phase = "main" THEN Members(deferred') \cup Members(throttled')
                                        \cup Members(salvageRound') ELSE {})
    BY <2>1, <2>2 DEF ToDo, Members
  <2>4. CASE UNCHANGED <<deferred, throttled, salvageRound>>
    <3>1. ToDo' \subseteq ToDo /\ cur \notin ToDo'
      BY <1>1, <2>1, <2>3, <2>4 DEF ToDo
    <3> QED BY <1>2, <1>3, <3>1
  <2>5. CASE AwaitClaim \/ Defer \/ Refused \/ Throttled
    <3>1. \/ deferred' = Append(deferred, cur) /\ UNCHANGED <<throttled, salvageRound>>
          \/ throttled' = Append(throttled, cur) /\ UNCHANGED <<deferred, salvageRound>>
          \/ salvageRound' = Append(salvageRound, cur) /\ UNCHANGED <<deferred, throttled>>
          \/ UNCHANGED <<deferred, throttled, salvageRound>>
      BY <2>5 DEF AwaitClaim, Defer, Refused, Throttled
    <3>2. /\ Members(Append(deferred, cur)) = Members(deferred) \cup {cur}
          /\ Members(Append(throttled, cur)) = Members(throttled) \cup {cur}
          /\ Members(Append(salvageRound, cur)) = Members(salvageRound) \cup {cur}
      BY <1>0, <1>1, <2>1, MembersOfAppended
    <3>3. pc \notin {"map", "done"}
      BY <2>5 DEF AwaitClaim, Defer, Refused, Throttled, Addressing, Taking
    <3>4. ToDo' \subseteq ToDo
      BY <1>1, <2>1, <2>3, <3>1, <3>2, <3>3 DEF ToDo
    <3>5. UNCHANGED <<live, mappings>>
      BY <2>5 DEF AwaitClaim, Defer, Refused, Throttled
    <3> QED BY <1>2, <1>3, <3>4, <3>5
  <2>6. CASE ~(AwaitClaim \/ Defer \/ Refused \/ Throttled)
    <3>1. UNCHANGED <<deferred, throttled, salvageRound>>
      BY <1>6, <2>6 DEF SkewedAddress, SkipDrill, RefuseForeign, SkipDead, SkipHeld,
         VerifyBlocks, Unresolvable, LostAnswer, SkipRefused, CallFailed, SalvageStands,
         RecordDone
    <3> QED BY <2>4, <3>1
  <2> QED BY <2>5, <2>6
<1>7. CASE NextRound \/ EndOfRounds
  <2>1. pc = "round" /\ phase = "main" /\ pc' \notin {"map", "done"}
    BY <1>0, <1>7 DEF NextRound, EndOfRounds, Salvaging
  <2>2. CASE NextRound
    <3>1. /\ todo' = deferred \o throttled /\ deferred' = <<>> /\ throttled' = <<>>
          /\ UNCHANGED <<phase, salvageRound>>
      BY <2>2 DEF NextRound
    <3>2. Members(todo') \subseteq Members(deferred) \cup Members(throttled)
      BY <1>0, <2>1, <3>1, DistinctBoth DEF OnceInv, Once
    <3>3. Members(deferred') = {} /\ Members(throttled') = {}
      BY <3>1, NothingSalvaged
    <3>4. ToDo' = Members(todo') \cup Members(salvageRound)
      BY <2>1, <3>1, <3>3 DEF ToDo, Members
    <3> QED BY <1>2, <2>1, <3>2, <3>4 DEF ToDo
  <2>3. CASE EndOfRounds
    <3>1. /\ UNCHANGED <<deferred, throttled, salvageRound>>
          /\ UNCHANGED <<phase, todo>> \/ (phase' = "salvage" /\ todo' = salvageRound)
      BY <2>3 DEF EndOfRounds
    <3>2. ToDo' \subseteq ToDo
      BY <2>1, <3>1 DEF ToDo, Members
    <3> QED BY <1>2, <2>1, <3>2
  <2> QED BY <1>7, <2>2, <2>3
<1> QED BY <1>4, <1>5, <1>6, <1>7
        DEF Next, Step, Guard, Send, Respond, Settling

\* Of what the target and the mappings hold, a step adds to the current
\* action's at most: a write, which nothing was mapped for yet, or a row.
Quiet == UNCHANGED mappings /\ \A o \in live' : o.body = "snapshot" => o \in live
Writes ==
  /\ pc \in {"lookup", "call"} /\ pc' # "down" /\ UNCHANGED mappings
  /\ \A o \in live' : o.body = "snapshot" =>
       o \in live \/ (o.for = cur /\ (o.full \/ o.full = ListResolves(cur)))
Maps ==
  /\ pc \notin {"down", "round", "finished", "done"} /\ pc' \notin {"map", "down"}
  /\ pc = "map" \/ ~HasMapping(cur)
  /\ UNCHANGED live /\ Creates(cur)
  /\ \E n : mappings' = mappings \cup {Row(cur, n)}

LEMMA WritesOrMaps ==
  ASSUME MaxRuns = 1, FirstRun, [Next]_vars
  PROVE  /\ Quiet \/ ((Writes \/ Maps) /\ ~Incident /\ ~ByHand)
         /\ pc' = "map" => pc \in {"lookup", "call", "map"} /\ cur' = cur
<1> USE DEF journal, target, rounds, local
<1>0. SafeInv /\ (pc \notin {"down", "round", "finished"} => todo # <<>> /\ cur \notin completed)
  <2>1. SafeInv /\ todo \in Seq(Acts)
    BY DEF FirstRun, OnceInv, SafeInv, TypeOK, QueueType
  <2>2. ASSUME pc \notin {"down", "round", "finished"} PROVE todo # <<>> /\ Undone
    BY <2>1, <2>2 DEF SafeInv, Working, FirstRun
  <2> QED BY <2>1, <2>2, MembersOfRest DEF Undone, cur
<1>1. CASE Accepted \/ LostAnswer
  <2>1. /\ pc = "call" /\ Landed(cur) /\ UNCHANGED mappings /\ ~Incident /\ ~ByHand
    BY <1>1 DEF Accepted, LostAnswer, Incident, ByHand, EnvMoment
  <2>2. pc' # "down" /\ (pc' = "map" => cur' = cur)
    BY <1>1 DEF Accepted, LostAnswer, Fail, Settle, Advance, cur
  <2>3. \A o \in live' : o.body = "snapshot" =>
          o \in live \/ (o.for = cur /\ o.full = ListResolves(cur))
    BY <2>1, LandedIs
  <2> QED BY <2>1, <2>2, <2>3 DEF Writes
<1>2. CASE AdoptDefault \/ AdoptConflicting
  <2>1. /\ pc \in {"lookup", "call"} /\ pc' = "map" /\ UNCHANGED mappings /\ cur' = cur
        /\ ~Incident /\ ~ByHand
    BY <1>2 DEF AdoptDefault, AdoptConflicting, Incident, ByHand, EnvMoment, cur
  <2>2. \/ UNCHANGED live
        \/ \E os \in SUBSET Counterparts(cur) : Align(cur, os)
    BY <1>2, SeenIsThere DEF AdoptDefault, AdoptConflicting
  <2>3. ASSUME NEW os \in SUBSET Counterparts(cur), Align(cur, os)
        PROVE  \A o \in live' : o \in live \/ (o.for = cur /\ o.full)
    <3>1. os \in SUBSET live /\ \A o \in os : o.for = cur
      BY SeenIsThere
    <3>2. \A x \in os : Pushed(x).for = x.for /\ Pushed(x).full
      BY <1>0, <3>1 DEF SafeInv, TypeOK, TargetType, Objects, Pushed
    <3> QED BY <1>0, <2>3, <3>1, <3>2, AlignIs DEF SafeInv, TypeOK
  <2>4. \A o \in live' : o \in live \/ (o.for = cur /\ o.full)
    BY <2>2, <2>3
  <2> QED BY <2>1, <2>4 DEF Writes
<1>3. CASE Incident \/ ByHand
  <2>1. UNCHANGED mappings /\ pc' = pc /\ cur' = cur
    BY <1>3 DEF Incident, ByHand, cur
  <2>2. \A o \in live' : o.body = "snapshot" => o \in live
    BY <1>3 DEF Incident, ByHand
  <2> QED BY <2>1, <2>2 DEF Quiet
<1>4. CASE VerifyBlocks
  <2>1. /\ pc' \notin {"map", "down"} /\ pc \notin {"down", "round", "finished", "done"}
        /\ UNCHANGED live
    BY <1>4 DEF VerifyBlocks, Fail, Settle, Advance, Cleared, Addressing, Taking
  <2>2. CASE UNCHANGED mappings
    BY <2>1, <2>2 DEF Quiet
  <2>3. CASE mappings' # mappings
    <3>1. \E p \in Probes(cur) : RecoverMapping(p.answer.found)
      BY <1>4, <2>3 DEF VerifyBlocks
    <3>2. /\ Creates(cur) /\ ~HasMapping(cur)
          /\ \E n : mappings' = mappings \cup {Row(cur, n)}
      BY <2>3, <3>1 DEF RecoverMapping
    <3>3. ~Incident /\ ~ByHand
      BY <2>3 DEF Incident, ByHand
    <3> QED BY <2>1, <3>2, <3>3 DEF Maps
  <2> QED BY <2>1, <2>2, <2>3
<1>5. CASE RecordMapping
  <2>1. pc = "map" /\ pc' = "done" /\ UNCHANGED live /\ ~Incident /\ ~ByHand
    BY <1>5 DEF RecordMapping, Incident, ByHand, EnvMoment
  <2>2. CASE newId = NoId
    BY <1>5, <2>1, <2>2 DEF RecordMapping, Quiet
  <2>3. CASE newId # NoId
    <3>1. Creates(cur) /\ mappings' = mappings \cup {Row(cur, newId)}
      BY <1>0, <1>5, <2>3 DEF RecordMapping, SafeInv, IdInHand
    <3> QED BY <2>1, <3>1 DEF Maps
  <2> QED BY <2>2, <2>3
<1>6. CASE SkipCompleted \/ Reexecute
  BY <1>0, <1>6 DEF SkipCompleted, Reexecute, Taking
<1>7. CASE Start \/ Crash
  <2>1. pc' # "map" /\ UNCHANGED <<live, mappings>>
    BY <1>7, Zenon DEF Start, Crash, FreshLocals
  <2> QED BY <2>1 DEF Quiet
<1>8. CASE Recover \/ UNCHANGED vars
  BY <1>8 DEF Recover, vars, cur, Quiet
<1>9. CASE SkewedAddress \/ SkipDrill \/ RefuseForeign \/ SkipDead \/ SkipHeld \/ AwaitClaim
           \/ VerifyPasses \/ NothingToAdopt \/ Dispatch \/ Defer \/ Unresolvable \/ Refused
           \/ SkipRefused \/ Throttled \/ CallFailed \/ SalvageStands \/ RecordDone
           \/ NextRound \/ EndOfRounds
  <2>1. UNCHANGED <<live, mappings>>
    BY <1>9 DEF SkewedAddress, SkipDrill, RefuseForeign, SkipDead, SkipHeld, AwaitClaim,
       VerifyPasses, NothingToAdopt, Dispatch, Defer, Unresolvable, Refused, SkipRefused,
       Throttled, CallFailed, SalvageStands, RecordDone, NextRound, EndOfRounds
  <2>2. pc' # "map"
    BY <1>9 DEF SkewedAddress, SkipDrill, RefuseForeign, SkipDead, SkipHeld, AwaitClaim,
       VerifyPasses, NothingToAdopt, Dispatch, Defer, Unresolvable, Refused, SkipRefused,
       Throttled, CallFailed, SalvageStands, RecordDone, NextRound, EndOfRounds, Fail,
       Settle, Advance
  <2> QED BY <2>1, <2>2 DEF Quiet
<1> QED BY <1>1, <1>2, <1>3, <1>4, <1>5, <1>6, <1>7, <1>8, <1>9
        DEF Next, Step, Guard, Send, Respond, Settling

LEMMA PairResolves ==
  ASSUME LinksAreMutual, RowsAreOwned, NEW a \in Acts, NEW b \in Acts,
         Attr[b].own \in Attr[a].lists, HasMapping(b)
  PROVE  ListResolves(a)
<1>1. PICK r \in mappings : r.ident = Attr[b].own
  BY DEF HasMapping
<1>2. /\ \E c \in Acts : RowOf(r, c)
      /\ \A q \in mappings : q.ident = r.ident => q = r
  BY <1>1 DEF RowsAreOwned, Listed
<1>3. r.ctx \subseteq Referrer(a) /\ Attr[a].lists = {Attr[b].own}
  BY <1>1, <1>2 DEF LinksAreMutual, RowOf
<1>4. Targets(Attr[b].own, a) = {r.new}
  BY <1>1, <1>2, <1>3 DEF Targets
<1> QED BY <1>3, <1>4 DEF ListResolves, Resolves

LEMMA LinkStep ==
  ASSUME MaxRuns = 1, LinksAreMutual, LinkInv, [Next]_vars
  PROVE  LinkInv'
<1>0. /\ FirstRun /\ FirstRun' /\ SafeInv
      /\ Quiet \/ ((Writes \/ Maps) /\ ~Incident /\ ~ByHand)
      /\ pc' = "map" => pc \in {"lookup", "call", "map"} /\ cur' = cur
  BY FirstRunStep, WritesOrMaps DEF LinkInv, FirstRun, OnceInv
<1>1. Writes \/ Maps => pc \notin {"down", "round", "finished"} /\ cur \in Acts /\ runs # 0
  <2>1. Writes \/ Maps => pc \notin {"down", "round", "finished"}
    BY DEF Writes, Maps
  <2>2. pc \notin {"down", "round", "finished"} => todo # <<>>
    BY <1>0 DEF SafeInv, Working
  <2> QED BY <1>0, <2>1, <2>2, CurrentAction DEF FirstRun
<1>2. ASSUME pc # "down", pc' # "down"
      PROVE  /\ ToDo' \subseteq ToDo /\ ToDo \subseteq Acts
             /\ pc \in {"take", "address", "lookup", "send", "call"} => cur \in ToDo
             /\ Writes \/ Maps => UNCHANGED <<live, mappings>> \/ Quiet \/ cur \notin ToDo'
             /\ NotYet
  BY <1>0, <1>1, <1>2, ComesUpOnce DEF LinkInv
<1>3. \A a \in Acts : Listed(Attr[a].own) =>
        /\ \A c \in Acts : Attr[c].own = Attr[a].own => c = a
  BY DEF Listed, LinksAreMutual
<1>4. runs' = 0 => mappings' = {} /\ \A o \in live' : o.body # "snapshot"
  <2>1. runs' = 0 => runs = 0
    <3>1. UNCHANGED bounds \/ runs' = runs \/ runs' = runs + 1
      BY DEF Next, Step, Guard, Send, Respond, Settling, SkewedAddress, SkipDrill,
       SkipCompleted, Reexecute, RefuseForeign, SkipDead, SkipHeld, AwaitClaim, VerifyBlocks,
       VerifyPasses, Recover, AdoptDefault, NothingToAdopt, Dispatch, Defer, Unresolvable,
       Accepted, LostAnswer, AdoptConflicting, Refused, SkipRefused, Throttled, CallFailed,
       SalvageStands, RecordMapping, RecordDone, NextRound, EndOfRounds, Start, Crash,
       Incident, ByHand, vars
    <3> QED BY <1>0, <3>1 DEF bounds, SafeInv, TypeOK, BoundType
  <2>2. runs = 0 => mappings = {} /\ \A o \in live : o.body # "snapshot"
    BY DEF LinkInv
  <2> QED BY <1>0, <1>1, <2>1, <2>2 DEF Quiet
\* What the step leaves alone: all but the current action.
<1>5. ASSUME NEW a \in Acts, a # cur \/ Quiet
      PROVE  /\ Unwritten(a) => Unwritten(a)'
             /\ Full(a) => Full(a)'
             /\ Listed(Attr[a].own) /\ HasMapping(a)' => HasMapping(a)
  <2>1. Unwritten(a) => Unwritten(a)'
    BY <1>0, <1>5 DEF Unwritten, Quiet, Writes, Maps
  <2>2. Full(a) => Full(a)'
    BY <1>0, <1>5 DEF Full, Quiet, Writes, Maps
  <2>3. Listed(Attr[a].own) /\ HasMapping(a)' => HasMapping(a)
    <3>1. CASE Quiet \/ Writes
      BY <3>1 DEF HasMapping, Quiet, Writes
    <3>2. CASE Maps /\ a # cur
      <4>1. PICK n : mappings' = mappings \cup {Row(cur, n)}
        BY <3>2 DEF Maps
      <4>2. Listed(Attr[a].own) => Row(cur, n).ident # Attr[a].own
        BY <1>1, <1>3, <3>2 DEF Row
      <4> QED BY <4>1, <4>2 DEF HasMapping
    <3> QED BY <1>0, <1>5, <3>1, <3>2
  <2> QED BY <2>1, <2>2, <2>3
<1>6. pc' # "down" => NotYet'
  <2>1. SUFFICES ASSUME pc' # "down", NEW a \in ToDo'
                 PROVE  Unwritten(a)' /\ (Listed(Attr[a].own) => ~HasMapping(a)')
    <3>1. (\A a \in ToDo' : Unwritten(a)' /\ (Listed(Attr[a].own) => ~HasMapping(a)'))
            => NotYet'
      BY DEF NotYet, Unwritten, HasMapping, Listed
    <3> QED BY <3>1
  <2>2. CASE pc = "down"
    <3>1. runs = 0
      <4>1. Start
        BY <2>1, <2>2 DEF Next, Step, Guard, Send, Respond, Settling, SkewedAddress,
           SkipDrill, SkipCompleted, Reexecute, RefuseForeign, SkipDead, SkipHeld,
           AwaitClaim, VerifyBlocks, VerifyPasses, Recover, AdoptDefault, NothingToAdopt,
           Dispatch, Defer, Unresolvable, Accepted, LostAnswer, AdoptConflicting, Refused,
           SkipRefused, Throttled, CallFailed, SalvageStands, RecordMapping, RecordDone,
           NextRound, EndOfRounds, Crash, Incident, ByHand, vars, Taking, Addressing, Cleared
      <4> QED BY <1>0, <4>1 DEF Start, SafeInv, TypeOK, BoundType
    <3>2. Quiet /\ mappings = {} /\ \A o \in live : o.body # "snapshot"
      BY <1>0, <1>1, <2>2, <3>1 DEF LinkInv
    <3> QED BY <3>2 DEF Quiet, Unwritten, HasMapping
  <2>3. CASE pc # "down"
    <3>1. a \in Acts /\ Unwritten(a) /\ (Listed(Attr[a].own) => ~HasMapping(a))
      BY <1>2, <2>1, <2>3 DEF NotYet
    <3>2. CASE a # cur \/ Quiet
      BY <1>5, <3>1, <3>2
    <3>3. CASE a = cur /\ ~Quiet
      BY <1>0, <1>2, <2>1, <2>3, <3>1, <3>3 DEF Unwritten, HasMapping
    <3> QED BY <3>2, <3>3
  <2> QED BY <2>2, <2>3
<1>7. Maps /\ Listed(Attr[cur].own) => ~HasMapping(cur)
  BY DEF Maps, LinkInv, WrittenLast
<1>8. RowsAreOwned'
  <2>1. CASE UNCHANGED mappings
    BY <2>1 DEF LinkInv, RowsAreOwned, RowOf, Creates, Listed
  <2>2. CASE Maps
    <3>1. PICK n : mappings' = mappings \cup {Row(cur, n)}
      BY <2>2 DEF Maps
    <3>2. RowOf(Row(cur, n), cur) /\ cur \in Acts /\ Row(cur, n).ident = Attr[cur].own
      BY <1>1, <2>2 DEF Maps, RowOf, Row
    <3>3. Listed(Attr[cur].own) => \A q \in mappings : q.ident # Attr[cur].own
      BY <1>7, <2>2 DEF HasMapping
    <3>4. ASSUME NEW r \in mappings', Listed(r.ident)
          PROVE  /\ \E a \in Acts : RowOf(r, a)
                 /\ \A q \in mappings' : q.ident = r.ident => q = r
      BY <3>1, <3>2, <3>3, <3>4 DEF LinkInv, RowsAreOwned
    <3> QED BY <3>4 DEF RowsAreOwned, RowOf, Creates, Listed
  <2> QED BY <1>0, <2>1, <2>2 DEF Quiet, Writes
<1>9. WrittenLast'
  <2>1. SUFFICES ASSUME pc' = "map", NEW c \in Acts, c = cur, Listed(Attr[c].own)
                 PROVE  /\ ~HasMapping(c)'
                        /\ \A b \in Acts : Attr[b].own \in Attr[c].lists /\ HasMapping(b)' =>
                             Full(c)'
    <3>1. pc' = "map" => cur' = cur /\ cur \in Acts
      BY <1>0, CurrentAction DEF SafeInv, Working
    <3> QED BY <3>1 DEF WrittenLast, HasMapping, Full, Listed
  <2>2. \A b \in Acts : Attr[b].own \in Attr[c].lists =>
          b # c /\ Listed(Attr[b].own)
    BY DEF LinksAreMutual, Listed
  <2>3. CASE pc = "map"
    <3>1. Quiet
      BY <1>0, <2>1, <2>3 DEF Writes, Maps
    <3>2. ~HasMapping(c) /\
          \A b \in Acts : Attr[b].own \in Attr[c].lists /\ HasMapping(b) => Full(c)
      BY <2>1, <2>3 DEF LinkInv, WrittenLast
    <3> QED BY <1>5, <2>1, <2>2, <3>1, <3>2
  <2>4. CASE pc \in {"lookup", "call"}
    <3>1. Unwritten(c) /\ ~HasMapping(c)
      BY <1>2, <2>1, <2>4 DEF NotYet
    <3>2. Quiet \/ Writes
      BY <1>0, <2>1 DEF Maps
    <3>3. ~HasMapping(c)'
      BY <3>1, <3>2 DEF HasMapping, Quiet, Writes
    <3>4. ASSUME NEW b \in Acts, Attr[b].own \in Attr[c].lists, HasMapping(b)'
          PROVE  Full(c)'
      <4>1. HasMapping(b)
        BY <1>5, <2>1, <2>2, <3>4
      <4>2. ListResolves(cur)
        BY <2>1, <3>4, <4>1, PairResolves DEF LinkInv
      <4> QED BY <3>1, <3>2, <4>2 DEF Full, Unwritten, Quiet, Writes
    <3> QED BY <3>3, <3>4
  <2> QED BY <1>0, <2>1, <2>3, <2>4
<1>10. OneSided'
  \* The one that may have changed: not mapped yet, or mapped just now.
  <2>1. ASSUME NEW a \in Acts, NEW b \in Acts, Attr[b].own \in Attr[a].lists,
               HasMapping(a)', HasMapping(b)', a = cur, ~Quiet
        PROVE  Full(a)'
    <3>1. b # a /\ Listed(Attr[a].own) /\ Listed(Attr[b].own)
      BY <2>1 DEF LinksAreMutual, Listed
    <3>2. HasMapping(b)
      BY <1>5, <2>1, <3>1
    <3>3. Writes \/ Maps
      BY <1>0, <2>1
    <3>4. pc # "map" => Unwritten(a) /\ ~HasMapping(a)
      <4>1. pc # "down" /\ pc' # "down"
        BY <3>3 DEF Writes, Maps
      <4>2. pc # "map" => pc \in {"take", "address", "lookup", "send", "call"}
        BY <1>0, <3>3 DEF Writes, Maps, SafeInv, TypeOK, ControlType
      <4> QED BY <1>2, <2>1, <3>1, <4>1, <4>2 DEF NotYet
    <3>5. Maps
      <4>1. Writes => ~HasMapping(a)'
        BY <3>4 DEF HasMapping, Writes
      <4> QED BY <2>1, <3>3, <4>1
    <3>6. Full(a)
      BY <2>1, <3>1, <3>2, <3>4 DEF LinkInv, WrittenLast, Full, Unwritten
    <3> QED BY <3>5, <3>6 DEF Full, Maps
  <2>2. ASSUME NEW a \in Acts, NEW b \in Acts, Attr[b].own \in Attr[a].lists,
               HasMapping(a)', HasMapping(b)', Quiet \/ cur \notin {a, b}
        PROVE  Full(a)' \/ Full(b)'
    <3>1. Listed(Attr[a].own) /\ Listed(Attr[b].own)
      BY <2>2 DEF LinksAreMutual, Listed
    <3>2. HasMapping(a) /\ HasMapping(b)
      BY <1>5, <2>2, <3>1
    <3>3. Full(a) \/ Full(b)
      BY <2>2, <3>2 DEF LinkInv, OneSided
    <3> QED BY <1>5, <2>2, <3>3
  <2>3. ASSUME NEW a \in Acts, NEW b \in Acts, Attr[b].own \in Attr[a].lists,
               HasMapping(a)', HasMapping(b)'
        PROVE  Full(a)' \/ Full(b)'
    <3>1. Attr[a].own \in Attr[b].lists
      BY <2>3 DEF LinksAreMutual
    <3>2. CASE a = cur /\ ~Quiet
      BY <2>1, <2>3, <3>2
    <3>3. CASE b = cur /\ ~Quiet
      BY <2>1, <2>3, <3>1, <3>3
    <3> QED BY <2>2, <2>3, <3>2, <3>3
  <2> QED BY <2>3 DEF OneSided, HasMapping, Full
<1> QED BY <1>0, <1>4, <1>6, <1>8, <1>9, <1>10 DEF LinkInv

-----------------------------------------------------------------------------
(* A run whose writes all worked has restored everything.                  *)

\* The actions others hang under, and what a run without a failure keeps.
Bears(a) == Mints(a) /\ Attr[a].own \in Parents
Alive(a) == \E o \in live : o.for = a
Untroubled == \A a \in Acts : outcome[a] \notin Troubles

\* Nothing is throttled, or refused and kept for the end: only what was
\* deferred comes again, and it has no verdict yet.
Undisturbed ==
  /\ phase = "main" /\ salvageRound = <<>> /\ throttled = <<>>
  /\ \A a \in Members(todo) \cup Members(deferred) : outcome[a] = "none"
  /\ pc = "round" => todo = <<>>

\* What a listing shows is there, and a create is shown once.
Truthful(c) ==
  \A o \in c.seen :
    /\ Alive(o.for) /\ o.id # NoId
    /\ \A p \in c.seen : p.for = o.for /\ Creates(o.for) => p = o
Remembers == \A c \in probeCache : Truthful(c)
AtHand ==
  /\ pc \in {"map", "done"} => Alive(cur)
  /\ pc = "map" /\ Creates(cur) => newId # NoId
  /\ pc = "done" /\ Creates(cur) => HasMapping(cur)

\* A parent that was settled is known to the resolver, so that its children
\* are looked for where they are; it is settled when it first comes up.
ParentsSettled ==
  /\ \A a \in Acts \ Members(todo) : Bears(a) /\ Creates(a) => HasMapping(a)
  /\ \A a \in Members(deferred) : ~Bears(a)
  /\ Ordered(todo) \/ \A a \in Members(todo) : ~Bears(a)
  /\ \A s \in unclaimed \cap Parents : \E a \in Members(todo) :
       /\ Attr[a].kind = "claim" /\ Attr[a].own = s
       /\ a \notin completed \/ (a = cur /\ pc # "take")
SettledLive == \A a \in Acts : outcome[a] \notin {"none"} \cup Troubles => Alive(a)
RestoredInv ==
  /\ AgreeInv /\ ScopeInv
  /\ Running => /\ Undisturbed /\ Remembers /\ AtHand
                /\ Untroubled => ParentsSettled /\ SettledLive

\* What the theorem is about: a call is answered, with the new ID, or is a
\* failure; everything can be looked up, and is one network's; and an action
\* that others hang under refers to nothing beside its own parents.
AnswersAreFinal == Faults \subseteq {"lost", "error", "skip"}
AllAreFound ==
  \A a \in Acts :
    Attr[a].readable /\ ~Attr[a].shared /\ (Creates(a) => "key" \in Attr[a].match)
ParentsArePlanned == \A i \in Parents : \E b \in Acts : Mints(b) /\ Attr[b].own = i
ParentsReferToParents ==
  \A a \in Acts : Bears(a) => Attr[a].refs = {} /\ Attr[a].lists = {}

LEMMA RunningKeeps ==
  ASSUME EnvWhen # "between", SafeInv, Running, [Next]_vars
  PROVE  TargetKeeps
<1>1. ~Incident /\ ~ByHand
  BY DEF Incident, ByHand, EnvMoment, Running
<1>2. TargetType
  BY DEF SafeInv, TypeOK
<1>3. UNCHANGED live => TargetKeeps
  BY DEF TargetKeeps
<1> QED BY <1>1, <1>2, <1>3, TargetChanges, LandedKeeps, AlignKeeps

\* An object that is refused because it is there is found there.
LEMMA NeverRefused ==
  ASSUME AnswersAreFinal, AllAreFound, ScopeInv
  PROVE  ~Refused
<1> SUFFICES ASSUME Refused PROVE FALSE
  OBVIOUS
<1>1. pc = "call" /\ Conflicts(cur) /\ NothingAdoptable /\ "read" \notin Faults
  BY DEF Refused, AnswersAreFinal
<1>2. cur \in Acts
  BY <1>1, CurrentAction DEF ScopeInv, SafeInv, Working
<1>3. Looks(cur) /\ Counterparts(cur) # {} /\ ScopeResolves(cur) /\ NoDuplicate
  BY <1>1, <1>2 DEF AllAreFound, Looks, Conflicts, ScopeInv, Scoped
<1>4. Sole(Visible(cur)) /\ Visible(cur) # {}
  BY <1>3, SoleCounterpart DEF Visible, Looks
<1> QED BY <1>1, <1>3, <1>4 DEF NothingAdoptable, Reconciled, ReadsFail, Looks

\* What a step of such a run does with its action.
Troubled ==
  /\ Advance /\ UNCHANGED <<phase, deferred, throttled, salvageRound>>
  /\ \E v \in Troubles : outcome' = [outcome EXCEPT ![cur] = v]
GoesThrough ==
  /\ UNCHANGED <<phase, todo, deferred, throttled, salvageRound, outcome>>
  /\ pc' \notin {"take", "round"}
  /\ \/ Reexecute \/ VerifyPasses \/ Recover \/ AdoptDefault \/ NothingToAdopt
     \/ Dispatch \/ Accepted \/ AdoptConflicting \/ RecordMapping

LEMMA RestoreMoves ==
  ASSUME AnswersAreFinal, AllAreFound, ~AdditiveOnly, EnvWhen # "between",
         ScopeInv, Running, Undisturbed, [Next]_vars, pc' # "down"
  PROVE  \/ UNCHANGED vars \/ NextRound \/ EndOfRounds
         \/ /\ pc # "round" /\ todo # <<>>
            /\ Troubled \/ GoesThrough \/ AwaitClaim \/ Defer \/ SkipCompleted \/ RecordDone
<1> USE DEF rounds, retries, local
<1>1. ~Refused /\ ~Throttled /\ ~SalvageStands /\ ~VerifyBlocks
  BY NeverRefused DEF Throttled, SalvageStands, VerifyBlocks, AnswersAreFinal, Undisturbed
<1>2. ~Incident /\ ~ByHand /\ ~Start
  BY DEF Incident, ByHand, EnvMoment, Running, Start
<1>3. ~Crash
  BY Zenon DEF Crash, FreshLocals
<1>4. CASE SkewedAddress \/ SkipDrill \/ RefuseForeign \/ SkipDead \/ SkipHeld
           \/ Unresolvable \/ LostAnswer \/ SkipRefused \/ CallFailed
  <2>1. pc # "round" /\ UNCHANGED <<phase, deferred, throttled, salvageRound>>
    BY <1>4 DEF SkewedAddress, SkipDrill, RefuseForeign, SkipDead, SkipHeld, Unresolvable,
       LostAnswer, SkipRefused, CallFailed, Taking, Addressing
  <2>2. \E v \in Troubles : Settle(v)
    BY <1>4 DEF SkewedAddress, SkipDrill, RefuseForeign, SkipDead, SkipHeld, Unresolvable,
       LostAnswer, SkipRefused, CallFailed, Fail, Troubles, Undisturbed
  <2>3. todo # <<>>
    BY <2>1 DEF ScopeInv, SafeInv, Working, Running
  <2> QED BY <2>1, <2>2, <2>3 DEF Troubled, Settle
<1>5. CASE Reexecute \/ VerifyPasses \/ Recover \/ AdoptDefault \/ NothingToAdopt
           \/ Dispatch \/ Accepted \/ AdoptConflicting \/ RecordMapping
  <2>1. /\ UNCHANGED <<phase, todo, deferred, throttled, salvageRound, outcome>>
        /\ pc' \notin {"take", "round"} /\ pc # "round"
    BY <1>5 DEF Reexecute, VerifyPasses, Recover, AdoptDefault, NothingToAdopt, Dispatch,
       Accepted, AdoptConflicting, RecordMapping, Cleared, Taking, Addressing
  <2> QED BY <1>5, <2>1 DEF GoesThrough, ScopeInv, SafeInv, Working, Running
<1>6. CASE AwaitClaim \/ Defer \/ SkipCompleted \/ RecordDone
  <2>1. pc # "round"
    BY <1>6 DEF AwaitClaim, Defer, SkipCompleted, RecordDone, Taking, Addressing
  <2> QED BY <1>6, <2>1 DEF ScopeInv, SafeInv, Working, Running
<1> QED BY <1>1, <1>2, <1>3, <1>4, <1>5, <1>6
        DEF Next, Step, Guard, Send, Respond, Settling

LEMMA StartsUp ==
  ASSUME ~Running, [Next]_vars, Running'
  PROVE  Start
BY DEF Running, Next, Step, Guard, Send, Respond, Settling, SkewedAddress, SkipDrill,
   SkipCompleted, Reexecute, RefuseForeign, SkipDead, SkipHeld, AwaitClaim, VerifyBlocks,
   VerifyPasses, Cleared, Addressing, Taking, Recover, AdoptDefault, NothingToAdopt, Dispatch,
   Defer, Unresolvable, Accepted, LostAnswer, AdoptConflicting, Refused, SkipRefused,
   Throttled, CallFailed, SalvageStands, RecordMapping, RecordDone, NextRound, EndOfRounds,
   Crash, Incident, ByHand, vars


LEMMA UndisturbedStep ==
  ASSUME AnswersAreFinal, AllAreFound, ~AdditiveOnly, EnvWhen # "between", OnceInv,
         ScopeInv, Running, Undisturbed, [Next]_vars, Running'
  PROVE  Undisturbed' /\ (Untroubled' => Untroubled)
<1> USE DEF rounds, retries
<1>0. /\ todo \in Seq(Acts) /\ deferred \in Seq(Acts) /\ outcome \in [Acts -> Outcomes]
      /\ phase = "main" /\ salvageRound = <<>> /\ throttled = <<>>
  BY DEF OnceInv, SafeInv, TypeOK, QueueType, LedgerType, Undisturbed
<1>1. ASSUME todo # <<>>
      PROVE  /\ cur \in Acts /\ outcome[cur] = "none"
             /\ Members(Tail(todo)) \subseteq Members(todo) /\ cur \notin Members(Tail(todo))
             /\ cur \notin Members(deferred)
             /\ Members(Append(deferred, cur)) = Members(deferred) \cup {cur}
  <2>1. /\ cur \in Acts /\ cur \in Members(todo) /\ cur \notin Members(Tail(todo))
        /\ Members(Tail(todo)) \subseteq Members(todo)
    BY <1>0, <1>1, CurrentAction, DistinctRest DEF OnceInv, Once, cur
  <2> QED BY <1>0, <2>1, MembersOfAppended DEF OnceInv, Once, Apart, Undisturbed
<1>2. ASSUME todo # <<>>, Advance
      PROVE  todo' = Tail(todo) /\ (pc' = "round" => todo' = <<>>)
    BY <1>0, <1>2, HeadTail DEF Advance
<1>3. CASE UNCHANGED vars
  BY <1>3 DEF Undisturbed, Untroubled, Members, vars
<1>4. CASE NextRound
  <2>1. /\ todo' = deferred \o throttled /\ deferred' = <<>> /\ throttled' = <<>>
        /\ pc' = "take" /\ UNCHANGED <<phase, salvageRound, outcome>>
    BY <1>4 DEF NextRound
  <2>2. Members(deferred \o throttled) \subseteq Members(deferred)
    BY <1>0, NothingWaits, NothingSalvaged, DistinctBoth DEF OnceInv, Once
  <2> QED BY <1>0, <2>1, <2>2, NothingSalvaged DEF Undisturbed, Untroubled, Members
<1>5. CASE EndOfRounds
  BY <1>0, <1>5 DEF EndOfRounds, Running
<1>6. CASE todo # <<>> /\ (Troubled \/ SkipCompleted \/ RecordDone)
  <2>1. /\ Advance /\ UNCHANGED <<phase, deferred, throttled, salvageRound>>
        /\ \E v : outcome' = [outcome EXCEPT ![cur] = v]
    BY <1>6 DEF Troubled, SkipCompleted, RecordDone, Settle
  <2>2. \A a \in Acts : a # cur => outcome'[a] = outcome[a]
    BY <1>0, <2>1
  <2>3. Members(todo') \cup Members(deferred') \subseteq Acts \ {cur}
    BY <1>0, <1>1, <1>2, <1>6, <2>1, MembersAreActs
  <2>4. Untroubled' => Untroubled
    BY <1>1, <1>6, <2>2 DEF Untroubled, Troubles
  <2>5. \A a \in Members(todo') \cup Members(deferred') : outcome'[a] = "none"
    BY <1>1, <1>2, <1>6, <2>1, <2>2, <2>3 DEF Undisturbed
  <2> QED BY <1>0, <1>2, <1>6, <2>1, <2>4, <2>5 DEF Undisturbed, Members
<1>7. CASE todo # <<>> /\ GoesThrough
  BY <1>0, <1>7 DEF GoesThrough, Undisturbed, Untroubled, Members
<1>8. CASE todo # <<>> /\ (AwaitClaim \/ Defer)
  <2>1. /\ Advance /\ UNCHANGED <<phase, throttled, salvageRound, outcome>>
        /\ deferred' = Append(deferred, cur)
    BY <1>8 DEF AwaitClaim, Defer
  <2>2. \A a \in Members(todo') \cup Members(deferred') : outcome'[a] = "none"
    BY <1>1, <1>2, <1>8, <2>1 DEF Undisturbed
  <2> QED BY <1>0, <1>2, <1>8, <2>1, <2>2 DEF Undisturbed, Untroubled, Members
<1>9. pc' # "down"
  BY DEF Running
<1> QED BY <1>3, <1>4, <1>5, <1>6, <1>7, <1>8, <1>9, RestoreMoves

\* What a listing showed stays true, and one that is read now is true.
LEMMA ListingsAreTrue ==
  ASSUME AllAreFound, SafeInv, NoDuplicate, Remembers, NEW a \in Acts
  PROVE  \A c \in Read(a) : Truthful(c)
<1> SUFFICES ASSUME NEW o \in Listing(a, Scope(a)).seen
             PROVE  /\ Alive(o.for) /\ o.id # NoId
                    /\ \A p \in Listing(a, Scope(a)).seen :
                         p.for = o.for /\ Creates(o.for) => p = o
  BY DEF Read, Remembers, Truthful
<1>1. \A x \in Listing(a, Scope(a)).seen : x \in live /\ x.in = Scope(a)
  BY DEF Listing
<1>2. o \in live /\ o.for \in Acts /\ o.id # NoId
  BY <1>1 DEF SafeInv, TypeOK, TargetType, Objects, Ids, NoId
<1> QED BY <1>1, <1>2 DEF NoDuplicate, AllAreFound, Alive

LEMMA RemembersStep ==
  ASSUME AllAreFound, EnvWhen # "between", ScopeInv, Remembers, Running, [Next]_vars
  PROVE  Remembers'
<1>1. SafeInv /\ NoDuplicate /\ TargetKeeps
  BY RunningKeeps DEF ScopeInv
<1>2. \A c : Truthful(c) => Truthful(c)'
  BY <1>1 DEF Truthful, Alive, TargetKeeps, Creates
<1>3. CASE probeCache' \subseteq probeCache
  BY <1>2, <1>3 DEF Remembers
<1>4. CASE todo # <<>> /\ \E p \in Probes(cur) : probeCache' = p.cache
  <2>1. cur \in Acts
    BY <1>1, <1>4, CurrentAction
  <2>2. probeCache' \subseteq Read(cur)
    BY <1>4, ProbeReads
  <2> QED BY <1>1, <1>2, <2>1, <2>2, ListingsAreTrue DEF Remembers
<1> QED BY <1>1, <1>3, <1>4, MemoryChanges

LEMMA AtHandStep ==
  ASSUME AnswersAreFinal, AllAreFound, ~AdditiveOnly, EnvWhen # "between", SafeInv', ScopeInv,
         Running, Undisturbed, AtHand, [Next]_vars, Running'
  PROVE  AtHand'
<1> USE DEF rounds, journal, target, local
<1>0. SafeInv /\ TargetKeeps /\ pc' # "down"
  BY RunningKeeps DEF ScopeInv, Running
<1>1. CASE UNCHANGED vars
  BY <1>1 DEF AtHand, Alive, Creates, HasMapping, cur, vars
<1>2. CASE NextRound \/ EndOfRounds \/ AwaitClaim \/ Defer \/ SkipCompleted \/ RecordDone
           \/ Troubled \/ Reexecute \/ VerifyPasses \/ NothingToAdopt \/ Dispatch
  <2>1. pc' \notin {"map", "done"}
    BY <1>2 DEF NextRound, EndOfRounds, AwaitClaim, Defer, SkipCompleted, RecordDone,
       Troubled, Reexecute, VerifyPasses, NothingToAdopt, Dispatch, Settle, Advance
  <2> QED BY <2>1 DEF AtHand
<1>3. CASE todo # <<>> /\ (Recover \/ AdoptDefault \/ Accepted \/ AdoptConflicting)
  <2>1. /\ pc' = "map" /\ cur' = cur /\ cur \in Acts
        /\ live \subseteq Objects /\ mappings \subseteq Rows
    BY <1>0, <1>3, CurrentAction DEF Recover, AdoptDefault, Accepted, AdoptConflicting, cur,
       SafeInv, TypeOK, TargetType, JournalType
  <2>2. \A o \in live : o.id # NoId
    BY <2>1 DEF Objects, Ids, NoId
  <2>3. Alive(cur) => Alive(cur)'
    BY <1>0, <2>1 DEF Alive, TargetKeeps
  <2>4. CASE Recover \/ AdoptDefault
    <3>1. \E o \in Counterparts(cur) : newId' = o.id
      BY <2>4, SeenIsThere DEF Recover, AdoptDefault
    <3>2. Alive(cur) /\ newId' # NoId
      BY <2>2, <3>1, SeenIsThere DEF Alive
    <3> QED BY <2>1, <2>3, <3>2 DEF AtHand
  <2>5. CASE Accepted
    <3>1. Alive(cur)'
      BY <2>1, <2>5, LandedKeeps DEF Accepted, Alive
    <3>2. nextId \in Nat
      BY <1>0 DEF SafeInv, TypeOK, TargetType
    <3>3. Creates(cur) => newId' # NoId
      BY <2>5, <3>2 DEF Accepted, AnswersAreFinal, AssignedId, SameId, NoId
    <3> QED BY <2>1, <3>1, <3>3 DEF AtHand, Creates
  <2>6. CASE AdoptConflicting
    <3>1. Counterparts(cur) # {}
      BY <2>1, <2>6 DEF AdoptConflicting, Conflicts, AllAreFound
    <3>2. Alive(cur)
      BY <3>1, SeenIsThere DEF Alive
    <3>3. \A n \in SiblingMapping(cur) : n # NoId
      BY <2>1 DEF SiblingMapping, Rows, Ids, NoId
    <3>4. newId' # NoId
      BY <2>2, <2>6, <3>3, SeenIsThere DEF AdoptConflicting, SameId, NoId
    <3> QED BY <2>1, <2>3, <3>2, <3>4 DEF AtHand
  <2> QED BY <1>3, <2>4, <2>5, <2>6
<1>4. CASE todo # <<>> /\ RecordMapping
  <2>1. pc = "map" /\ pc' = "done" /\ cur' = cur /\ UNCHANGED live
    BY <1>4 DEF RecordMapping, cur
  <2>2. Creates(cur) => mappings' = mappings \cup {Row(cur, newId)}
    BY <1>4, <2>1 DEF RecordMapping, AtHand
  <2>3. Alive(cur)'
    BY <2>1 DEF AtHand, Alive
  <2>4. Creates(cur) => \E r \in mappings' : r.ident = Attr[cur].own
    <3>1. Row(cur, newId).ident = Attr[cur].own
      BY DEF Row
    <3> QED BY <2>2, <3>1
  <2> QED BY <2>1, <2>3, <2>4 DEF AtHand, HasMapping, Creates
<1> QED BY <1>0, <1>1, <1>2, <1>3, <1>4, RestoreMoves DEF GoesThrough


\* What comes up has its parents behind it, known to the resolver.
LEMMA ParentsAreKnown ==
  ASSUME PathsNest, ParentsTellApart, ParentsArePlanned, AgreeInv, ParentsSettled, todo # <<>>
  PROVE  ScopeResolves(cur) /\ Attr[cur].path \cap unclaimed = {}
<1>0. /\ todo \in Seq(Acts) /\ cur \in Acts /\ Distinct(todo)
      /\ Len(todo) \in Nat /\ Len(todo) > 0 /\ cur = todo[1]
  BY CurrentAction, HeadTailProperties, LenProperties
     DEF AgreeInv, OnceInv, Once, SafeInv, TypeOK, QueueType, cur
<1>1. ASSUME NEW b \in Members(todo), Mints(b), Attr[b].own \in Attr[cur].path
      PROVE  FALSE
  <2>1. Bears(b)
    BY <1>0, <1>1 DEF Bears, Parents
  <2>2. PICK k \in 1 .. Len(todo) : todo[k] = b
    BY DEF Members
  <2>3. PICK j \in 1 .. Len(todo) : k < j /\ todo[j] = cur
    BY <1>0, <1>1, <2>1, <2>2 DEF ParentsSettled, Ordered
  <2>4. j = 1
    BY <1>0, <2>3 DEF Distinct
  <2> QED BY <2>3, <2>4
<1>2. ASSUME NEW i \in ScopeIdents(cur)
      PROVE  Resolves(i, cur)
  <2>1. PICK b \in Acts : Mints(b) /\ Attr[b].own = i
    BY <1>0, <1>2 DEF ScopeIdents, Parents, ParentsArePlanned
  <2>2. Creates(b)
    BY <1>2, <2>1 DEF ScopeIdents, Serials, Mints, Creates
  <2>3. i \in Attr[cur].path /\ i \in Parents /\ Bears(b)
    BY <1>0, <1>2, <2>1 DEF ScopeIdents, Bears, Parents
  <2>4. HasMapping(b)
    BY <1>1, <2>1, <2>2, <2>3 DEF ParentsSettled
  <2>5. PICK r \in mappings : r.ident = i
    BY <2>1, <2>4 DEF HasMapping
  <2>6. \A q \in mappings : q.ident = i => RowOf(q, b)
    BY <2>1, <2>3 DEF AgreeInv, Recorded, RowOf, ParentsTellApart
  <2>7. \A q \in mappings : q.ident = i => q = r /\ q.ctx = Attr[b].path
    BY <2>5, <2>6 DEF AgreeInv, MappingsAgree, RowOf
  <2>8. r.ctx \subseteq Referrer(cur)
    BY <1>0, <1>2, <2>1, <2>5, <2>7 DEF PathsNest, Referrer
  <2>9. Targets(i, cur) = {r.new}
    BY <2>5, <2>7, <2>8 DEF Targets
  <2> QED BY <2>9 DEF Resolves
<1>3. ASSUME NEW s \in Attr[cur].path \cap unclaimed
      PROVE  FALSE
  <2>1. s \in Parents
    BY <1>0 DEF Parents
  <2>2. PICK a \in Members(todo) : Attr[a].kind = "claim" /\ Attr[a].own = s
    BY <2>1 DEF ParentsSettled
  <2> QED BY <1>1, <2>2 DEF Mints
<1> QED BY <1>2, <1>3 DEF ScopeResolves

\* What is passed over as restored was seen, and a create is mapped.
LEMMA SkippedIsAlive ==
  ASSUME AnswersAreFinal, AllAreFound, ~AdditiveOnly, SafeInv, NoDuplicate, Remembers,
         NEW a \in Acts, ScopeResolves(a), NEW p \in Probes(a), p.answer.verdict # "absent"
  PROVE  Alive(a) /\ (Creates(a) => p.answer.found # NoId)
<1> DEFINE cached == {c \in probeCache : c.coll = Attr[a].coll /\ c.in = Scope(a)}
           keep(v) == [answer |-> v, cache |-> probeCache]
           read == Listing(a, Scope(a))
           miss == [answer |-> Answer(a, read), cache |-> probeCache \cup {read}]
<1>1. /\ Attr[a].readable /\ ~Attr[a].shared /\ (Creates(a) => "key" \in Attr[a].match)
      /\ "read" \notin Faults
  BY DEF AllAreFound, AnswersAreFinal
<1>2. \A v, n : Verdict(v, n).verdict = v /\ Verdict(v, n).found = n
  BY DEF Verdict
<1>3. p \in {keep(Answer(a, c)) : c \in cached} \/ p = miss
      \/ p = keep(Verdict("absent", NoId))
  BY <1>1 DEF Probes
<1>4. read \in Read(a) /\ cached \subseteq Read(a)
  BY DEF Read
<1>5. PICK c \in Read(a) : p.answer = Answer(a, c)
  <2> HIDE DEF read
  <2> QED BY <1>2, <1>3, <1>4
<1>6. Truthful(c)
  BY ListingsAreTrue
<1> DEFINE hits == {o \in c.seen : o.for = a}
<1>7. p.answer = Classify(a, c.seen)
  BY <1>2, <1>5 DEF Answer
<1>8. hits = {} \/ Alive(a)
  BY <1>6 DEF Truthful
<1>9. Creates(a) /\ hits # {} =>
        Cardinality(hits) = 1 /\ (CHOOSE o \in hits : TRUE).id # NoId
  <2> SUFFICES ASSUME Creates(a), NEW x \in hits
               PROVE  Cardinality(hits) = 1 /\ (CHOOSE o \in hits : TRUE).id # NoId
    OBVIOUS
  <2>1. hits = {x} /\ \A o \in hits : o.id # NoId
    BY <1>6 DEF Truthful
  <2>2. (CHOOSE o \in hits : TRUE) \in hits
    OBVIOUS
  <2> HIDE DEF hits
  <2> QED BY <2>1, <2>2, FS_Singleton
<1>a. hits = {} => Cardinality(hits) = 0
  <2> HIDE DEF hits
  <2> QED BY FS_EmptySet
<1>b. hits # {} /\ (Creates(a) => p.answer.found # NoId)
  <2> HIDE DEF hits
  <2>1. CASE ~Creates(a)
    BY <1>2, <1>7, <2>1 DEF Classify, hits
  <2>2. CASE Creates(a)
    BY <1>1, <1>2, <1>7, <1>9, <1>a, <2>2 DEF Classify, hits
  <2> QED BY <2>1, <2>2
<1> QED BY <1>8, <1>b


LEMMA SettledStep ==
  ASSUME AnswersAreFinal, AllAreFound, ~AdditiveOnly, EnvWhen # "between",
         PathsNest, ParentsTellApart, ParentsArePlanned, AgreeInv, ScopeInv, Running,
         Undisturbed, Remembers, AtHand, ParentsSettled, SettledLive, [Next]_vars,
         Running', Untroubled'
  PROVE  SettledLive'
<1>0. /\ SafeInv /\ NoDuplicate /\ TargetKeeps /\ pc' # "down"
      /\ outcome \in [Acts -> Outcomes]
  BY RunningKeeps DEF ScopeInv, Running, SafeInv, TypeOK, LedgerType
<1>1. \A a : Alive(a) => Alive(a)'
  BY <1>0 DEF Alive, TargetKeeps
<1>2. CASE UNCHANGED outcome
  BY <1>1, <1>2 DEF SettledLive
<1>3. CASE EndOfRounds
  BY <1>3 DEF EndOfRounds, Running, Undisturbed
<1>4. CASE todo # <<>> /\ Troubled
  BY <1>0, <1>4, CurrentAction DEF Troubled, Untroubled
<1>5. CASE todo # <<>> /\ (SkipCompleted \/ RecordDone)
  <2>1. cur \in Acts /\ \E v : outcome' = [outcome EXCEPT ![cur] = v]
    BY <1>0, <1>5, CurrentAction DEF SkipCompleted, RecordDone, Settle
  <2>2. Alive(cur)
    <3>1. CASE RecordDone
      BY <3>1 DEF RecordDone, AtHand
    <3>2. CASE SkipCompleted
      BY <1>0, <1>5, <2>1, <3>2, ParentsAreKnown, SkippedIsAlive DEF SkipCompleted
    <3> QED BY <1>5, <3>1, <3>2
  <2>3. \A a \in Acts : a # cur => outcome'[a] = outcome[a]
    BY <1>0, <2>1
  <2> QED BY <1>1, <2>1, <2>2, <2>3 DEF SettledLive
<1> QED BY <1>0, <1>2, <1>3, <1>4, <1>5, RestoreMoves
        DEF GoesThrough, NextRound, AwaitClaim, Defer, vars

\* Of the mappings, only stale ones of the action that is made again go.
LEMMA MappingsStay ==
  ASSUME ParentsTellApart, todo # <<>>, cur \in Acts,
         mappings \ StaleRows(cur) \subseteq mappings', NEW a \in Acts, a # cur, Bears(a), HasMapping(a)
  PROVE  HasMapping(a)'
<1>1. PICK r \in mappings : r.ident = Attr[a].own
  BY DEF HasMapping
<1>2. r \notin StaleRows(cur)
  BY <1>1 DEF StaleRows, ParentsTellApart, Bears
<1> QED BY <1>1, <1>2 DEF HasMapping

LEMMA ParentsNext ==
  ASSUME \A a \in Acts \ Members(todo') :
           Bears(a) /\ Creates(a) => \E r \in mappings' : r.ident = Attr[a].own,
         \A a \in Members(deferred') : ~Bears(a),
         Ordered(todo') \/ \A a \in Members(todo') : ~Bears(a),
         \A s \in unclaimed' \cap Parents : \E a \in Members(todo') :
           /\ Attr[a].kind = "claim" /\ Attr[a].own = s
           /\ a \notin completed' \/ (a = cur' /\ pc' # "take")
  PROVE  ParentsSettled'
<1>1. \A a : (Bears(a) <=> Bears(a)') /\ (Creates(a) <=> Creates(a)')
  BY DEF Bears, Mints, Creates, Parents
<1>2. Ordered(todo') => Ordered(todo)'
  BY DEF Ordered, Mints
<1>3. Members(todo)' = Members(todo') /\ Members(deferred)' = Members(deferred')
  BY DEF Members
<1> QED BY <1>1, <1>2, <1>3 DEF ParentsSettled, HasMapping

LEMMA ParentsStep ==
  ASSUME AnswersAreFinal, AllAreFound, ~AdditiveOnly, EnvWhen # "between",
         PathsNest, ParentsTellApart, ParentsArePlanned, ParentsReferToParents, AgreeInv,
         ScopeInv, Running, Undisturbed, Remembers, AtHand, ParentsSettled, [Next]_vars,
         Running', Untroubled'
  PROVE  ParentsSettled'
<1> USE DEF rounds, retries, journal, ledger, local
<1>0. /\ SafeInv /\ NoDuplicate /\ pc' # "down" /\ todo \in Seq(Acts)
      /\ deferred \in Seq(Acts) /\ throttled = <<>> /\ Once /\ phase = "main"
  BY DEF AgreeInv, OnceInv, ScopeInv, Running, SafeInv, TypeOK, QueueType, Undisturbed
<1>1. ASSUME todo # <<>>
      PROVE  /\ cur \in Acts /\ cur \in Members(todo) /\ cur \notin Members(Tail(todo))
             /\ Members(todo) = {cur} \cup Members(Tail(todo))
             /\ Members(Append(deferred, cur)) = Members(deferred) \cup {cur}
             /\ Tail(todo) \in Seq(Acts)
             /\ Ordered(Tail(todo)) \/ \A a \in Members(Tail(todo)) : ~Bears(a)
  <2>1. /\ cur \in Acts /\ Tail(todo) \in Seq(Acts) /\ cur \notin Members(Tail(todo))
        /\ Members(todo) = {cur} \cup Members(Tail(todo))
        /\ Members(Append(deferred, cur)) = Members(deferred) \cup {cur}
    BY <1>0, <1>1, CurrentAction, HeadTail, MembersOfRest, DistinctRest, MembersOfAppended
       DEF Once, cur
  <2> QED BY <1>0, <1>1, <2>1, OrderedRest DEF ParentsSettled
<1>2. CASE UNCHANGED vars
  BY <1>2 DEF ParentsSettled, Bears, Mints, Creates, HasMapping, Ordered, Members, cur, vars
<1>3. CASE NextRound
  <2>1. /\ todo = <<>> /\ todo' = deferred \o throttled /\ deferred' = <<>>
        /\ UNCHANGED <<mappings, completed, unclaimed>>
    BY <1>3 DEF NextRound, Undisturbed
  <2>2. Members(deferred \o throttled) \subseteq Members(deferred) /\ Members(todo) = {}
    BY <1>0, <2>1, NothingWaits, NothingSalvaged, DistinctBoth DEF Once
  <2>3. unclaimed \cap Parents = {}
    BY <2>2 DEF ParentsSettled
  <2>4. \A a \in Acts : Bears(a) /\ Creates(a) => \E r \in mappings' : r.ident = Attr[a].own
    BY <2>1, <2>2 DEF ParentsSettled, HasMapping
  <2>5. \A a \in Members(todo') \cup Members(deferred') : ~Bears(a)
    BY <2>1, <2>2, NothingSalvaged DEF ParentsSettled
  <2> QED BY <2>1, <2>3, <2>4, <2>5, ParentsNext
<1>4. CASE EndOfRounds
  BY <1>4 DEF EndOfRounds, Running, Undisturbed
<1>5. CASE todo # <<>> /\ Troubled
  <2>1. outcome \in [Acts -> Outcomes]
    BY <1>0 DEF SafeInv, TypeOK, LedgerType
  <2> QED BY <1>1, <1>5, <2>1 DEF Troubled, Untroubled
<1>6. CASE todo # <<>> /\ GoesThrough
  <2>1. /\ UNCHANGED <<todo, deferred, completed>> /\ cur' = cur /\ pc' # "take"
        /\ mappings \ StaleRows(cur) \subseteq mappings'
        /\ unclaimed' \subseteq unclaimed \cup
             (IF Attr[cur].kind = "claim" THEN {Attr[cur].own} ELSE {})
    BY <1>6 DEF GoesThrough, Reexecute, VerifyPasses, Recover, AdoptDefault, NothingToAdopt,
       Dispatch, Accepted, AdoptConflicting, RecordMapping, cur
  <2>2. \A a \in Acts \ Members(todo) : Bears(a) /\ Creates(a) => HasMapping(a)'
    BY <1>1, <1>6, <2>1, MappingsStay DEF ParentsSettled
  <2>3. \A s \in unclaimed' \cap Parents : \E a \in Members(todo) :
          /\ Attr[a].kind = "claim" /\ Attr[a].own = s
          /\ a \notin completed \/ a = cur
    BY <1>1, <1>6, <2>1 DEF ParentsSettled
  <2> QED BY <2>1, <2>2, <2>3 DEF ParentsSettled, Bears, Mints, Creates, Ordered, Members
<1>7. CASE todo # <<>> /\ (AwaitClaim \/ Defer \/ SkipCompleted \/ RecordDone)
  <2>1. /\ todo' = Tail(todo) /\ mappings \subseteq mappings'
        /\ unclaimed' \subseteq unclaimed
    BY <1>7 DEF AwaitClaim, Defer, SkipCompleted, RecordDone, Settle, Advance, RecoverMapping
  <2>2. ~AwaitClaim
    BY <1>7, ParentsAreKnown DEF AwaitClaim, Waiting
  <2>3. Defer => ~Bears(cur)
    <3> SUFFICES ASSUME Defer, Bears(cur) PROVE FALSE
      OBVIOUS
    <3>1. Attr[cur].refs = {} /\ Attr[cur].lists = {} /\ ScopeResolves(cur)
      BY <1>1, <1>7, ParentsAreKnown DEF ParentsReferToParents
    <3> QED BY <3>1 DEF Defer, Ready, BodyResolves, ListResolves
  <2>4. Bears(cur) /\ Creates(cur) => \E r \in mappings' : r.ident = Attr[cur].own
    <3>1. CASE Defer
      BY <2>3, <3>1
    <3>2. CASE RecordDone
      BY <3>2 DEF RecordDone, AtHand, HasMapping, Creates
    <3>3. CASE SkipCompleted
      <4>1. PICK p \in Probes(cur) : p.answer.verdict # "absent" /\ RecoverMapping(p.answer.found)
        BY <3>3 DEF SkipCompleted
      <4>2. Creates(cur) => p.answer.found # NoId
        BY <1>0, <1>1, <1>7, <4>1, ParentsAreKnown, SkippedIsAlive
      <4>3. Row(cur, p.answer.found).ident = Attr[cur].own
        BY DEF Row
      <4> QED BY <4>1, <4>2, <4>3 DEF RecoverMapping, HasMapping
    <3> QED BY <1>7, <2>2, <3>1, <3>2, <3>3
  <2>5. \A a \in Acts \ Members(todo') :
          Bears(a) /\ Creates(a) => \E r \in mappings' : r.ident = Attr[a].own
    BY <1>1, <1>7, <2>1, <2>4 DEF ParentsSettled, HasMapping
  <2>6. \A a \in Members(deferred') : ~Bears(a)
    BY <1>1, <1>7, <2>2, <2>3 DEF ParentsSettled, Defer, SkipCompleted, RecordDone
  <2>7. ASSUME NEW s \in unclaimed' \cap Parents
        PROVE  \E a \in Members(todo') :
                 Attr[a].kind = "claim" /\ Attr[a].own = s /\ a \notin completed'
    <3>1. PICK a \in Members(todo) : /\ Attr[a].kind = "claim" /\ Attr[a].own = s
                                     /\ a \notin completed \/ (a = cur /\ pc # "take")
      BY <2>1, <2>7 DEF ParentsSettled
    <3>2. a = cur => Bears(cur)
      BY <2>7, <3>1 DEF Bears, Mints
    <3>3. a # cur
      BY <1>7, <2>2, <2>3, <2>7, <3>1, <3>2 DEF SkipCompleted, RecordDone, Taking
    <3>4. completed' \subseteq completed \cup {cur}
      BY <1>7 DEF AwaitClaim, Defer, SkipCompleted, RecordDone
    <3> QED BY <1>1, <1>7, <2>1, <3>1, <3>3, <3>4
  <2> QED BY <1>1, <1>7, <2>1, <2>5, <2>6, <2>7, ParentsNext
<1> QED BY <1>0, <1>2, <1>3, <1>4, <1>5, <1>6, <1>7, RestoreMoves


LEMMA RestoredStarts ==
  ASSUME ParentsFirst, Start
  PROVE  Undisturbed' /\ Remembers' /\ AtHand' /\ ParentsSettled' /\ SettledLive'
<1>1. /\ pc' = "take" /\ phase' = "main" /\ todo' = Plan /\ deferred' = <<>>
      /\ throttled' = <<>> /\ salvageRound' = <<>> /\ probeCache' = {}
      /\ outcome' = [a \in Acts |-> "none"] /\ UNCHANGED completed
      /\ unclaimed' = {Attr[a].own : a \in Claims \ completed}
  BY Zenon DEF Start, FreshLocals, journal
<1>2. Acts = Members(Plan)
  BY PlanAssumption, MembersAreActs DEF Members
<1>3. Undisturbed'
  <2>1. Members(todo)' = Members(Plan) /\ Members(deferred)' = {}
    BY <1>1, NothingSalvaged DEF Members
  <2> QED BY <1>1, <1>2, <2>1 DEF Undisturbed
<1>4. ParentsSettled'
  <2>1. \A s \in unclaimed' : \E a \in Acts :
          Attr[a].kind = "claim" /\ Attr[a].own = s /\ a \notin completed'
    BY <1>1 DEF Claims
  <2> QED BY <1>1, <1>2, <2>1, PlanIsOrdered, NothingSalvaged, ParentsNext
<1> QED BY <1>1, <1>3, <1>4 DEF Remembers, AtHand, SettledLive

LEMMA RestoredStep ==
  ASSUME EnvWhen # "between", MaxCrashes = 0, ~AdditiveOnly, AnswersAreFinal, AllAreFound,
         ParentsAreNumbered, ParentsArePlanned, ParentsFirst, ParentsReferToParents,
         ParentsTellApart, PathsNest, PathsTellApart, RestoredInv, [Next]_vars
  PROVE  RestoredInv'
<1>1. NamesakesAreFound /\ SharedAlike
  <2>1. \A a \in Acts : Attr[a].shared = FALSE
    BY AttrAssumption DEF AttrType, AllAreFound
  <2> QED BY <2>1 DEF AnswersAreFinal, AllAreFound, NamesakesAreFound, SharedAlike
<1>2. AgreeInv /\ ScopeInv /\ AgreeInv' /\ ScopeInv'
  BY <1>1, AgreeStep, ScopeStep DEF RestoredInv
<1>3. OnceInv /\ SafeInv'
  BY <1>2 DEF AgreeInv, ScopeInv
<1>4. ASSUME Running, Running'
      PROVE  /\ Undisturbed' /\ Remembers' /\ AtHand'
             /\ Untroubled' => ParentsSettled' /\ SettledLive'
  <2>1. Undisturbed /\ Remembers /\ AtHand /\ (Untroubled => ParentsSettled /\ SettledLive)
    BY <1>4 DEF RestoredInv
  <2>2. Undisturbed' /\ (Untroubled' => Untroubled)
    BY <1>2, <1>3, <1>4, <2>1, UndisturbedStep
  <2>3. Remembers' /\ AtHand'
    BY <1>2, <1>3, <1>4, <2>1, RemembersStep, AtHandStep
  <2>4. Untroubled' => ParentsSettled' /\ SettledLive'
    BY <1>2, <1>4, <2>1, <2>2, ParentsStep, SettledStep
  <2> QED BY <2>2, <2>3, <2>4
<1>5. ASSUME ~Running, Running'
      PROVE  Undisturbed' /\ Remembers' /\ AtHand' /\ ParentsSettled' /\ SettledLive'
  BY <1>5, StartsUp, RestoredStarts
<1> QED BY <1>2, <1>4, <1>5 DEF RestoredInv


-----------------------------------------------------------------------------
(* The theorems.                                                           *)

\* While nobody else touches the target, a journaled completion is backed by
\* an object that is really there, whatever the server refused, throttled,
\* lost or duplicated, and however often the run was killed (RestoreJournal).
THEOREM CompletionsAreBacked ==
  ASSUME EnvWhen = "never"
  PROVE  Spec => []JournalTruthful
<1>1. Init => TruthInv
  BY InitSafe DEF TruthInv, Init, JournalTruthful, InHand
<1>2. TruthInv /\ [Next]_vars => TruthInv'
  BY TruthStep
<1>3. TruthInv => JournalTruthful
  BY DEF TruthInv
<1> QED BY <1>1, <1>2, <1>3, PTL DEF Spec

\* A drill never dispatches at hardware: not in the first round, not after
\* any number of deferrals, and not when a refused action is retried at the
\* end of the run (OrgRestorer.execute: the drill guard, salvage_round).
THEOREM DrillsSpareHardware == Spec => []DrillSparesHardware
<1>1. Init => DrillInv
  <2> SUFFICES ASSUME Init PROVE Drilled
    BY InitSafe DEF DrillInv
  <2>1. pc = "down" /\ phase = "main" /\ salvageRound = <<>>
    BY Zenon DEF Init
  <2> QED BY <2>1, NothingSalvaged DEF Drilled
<1>2. DrillInv /\ [Next]_vars => DrillInv'
  BY StepSafe, DrillStep DEF DrillInv
<1>3. DrillInv => DrillSparesHardware
  BY DEF DrillInv, Drilled, Spared, DrillSparesHardware
<1> QED BY <1>1, <1>2, <1>3, PTL DEF Spec

\* While nobody else touches the target, a write to a device goes out only
\* when the device is claimed into it: after a throttled or failed claim,
\* after a resume, and in the retries at the end of the run (_claim_pending,
\* the unclaimed serials of execute).
THEOREM DevicesAreClaimedFirst ==
  ASSUME EnvWhen = "never", ClaimsStandAlone
  PROVE  Spec => []DeviceWritesAfterClaim
<1>1. Init => DeviceInv
  <2> SUFFICES ASSUME Init PROVE DeviceInv
    OBVIOUS
  <2>1. pc = "down" /\ phase = "main" /\ salvageRound = <<>> /\ completed = {}
        /\ unclaimed = {Attr[a].own : a \in Claims}
    BY Zenon DEF Init
  <2>2. TruthInv
    BY <2>1, InitSafe DEF TruthInv, JournalTruthful, InHand
  <2> QED BY <2>1, <2>2, NothingSalvaged
          DEF DeviceInv, Salvaging, Unlocked, Serials, Claims, Writing
<1>2. DeviceInv /\ [Next]_vars => DeviceInv'
  BY UnlockedStep
<1>3. DeviceInv => DeviceWritesAfterClaim
  BY DEF DeviceInv, Unlocked, DeviceWritesAfterClaim, Writing
<1> QED BY <1>1, <1>2, <1>3, PTL DEF Spec

\* As long as no run is killed, whatever the server refuses, throttles or
\* duplicates and whatever other people delete or put back, a restore never
\* leaves the resolver with two answers for one object: before an object is
\* made again its stale rows are retired (_forget_stale_identity), and the
\* retries at the end of the run are of actions that have none.
THEOREM OneAnswerEach ==
  ASSUME PathsTellApart, MaxCrashes = 0, ~AdditiveOnly
  PROVE  Spec => []MappingsAgree
<1>1. Init => AgreeInv
  <2> SUFFICES ASSUME Init PROVE AgreeInv
    OBVIOUS
  <2>1. /\ mappings = {} /\ pc = "down" /\ phase = "main" /\ salvageRound = <<>>
    BY Zenon DEF Init
  <2> QED BY <2>1, OnceStarts, NothingSalvaged
          DEF AgreeInv, Recorded, MappingsAgree, Unmapped, Writing
<1>2. AgreeInv /\ [Next]_vars => AgreeInv'
  BY AgreeStep
<1>3. AgreeInv => MappingsAgree
  BY DEF AgreeInv
<1> QED BY <1>1, <1>2, <1>3, PTL DEF Spec

\* What hangs under hardware a drill left out is a drill verdict as well, all
\* the way down and however the rounds defer, throttle and retry it, or that
\* of a parent that failed; never a failure of its own (skipped_parents in
\* OrgRestorer.execute).  A run with an empty journal, a plan in wave order.
THEOREM DrillsHoldAllTheWay ==
  ASSUME FaultsAreOutside, ParentsFirst, MaxRuns = 1
  PROVE  Spec => []DrillVerdictsPropagate
<1>1. Init => HeldInv
  <2>1. Init => runs = 0 /\ completed = {} /\ pc = "down"
    BY Zenon DEF Init
  <2> QED BY <2>1, OnceStarts DEF HeldInv
<1>2. HeldInv /\ [Next]_vars => HeldInv'
  BY HeldStep
<1>3. HeldInv /\ DrillSparesHardware => DrillVerdictsPropagate
  <2> SUFFICES ASSUME HeldInv, pc = "finished", NEW a \in Acts,
                      Attr[a].path \cap skippedParents # {}
               PROVE  outcome[a] \in {"drill", "dead parent"}
    BY DEF DrillVerdictsPropagate
  <2>1. HeldBack /\ Members(todo) = {}
    BY DEF HeldInv, HeldBack
  <2>2. DrillVerdict(a, skippedParents, outcome)
    BY <2>1 DEF HeldBack
  <2> QED BY <2>2 DEF DrillVerdict
<1>4. Spec => []DrillSparesHardware
  BY DrillsSpareHardware
<1> QED BY <1>1, <1>2, <1>3, <1>4, PTL DEF Spec

\* However often the run is killed and its answers are lost, and although the
\* server tolerates duplicates, an object that a lookup can find is made
\* once: a create that may have been sent is looked for before it is sent
\* again (_reconcile_existing), also when it is one the dashboard brings
\* along.  Lookups are answered; one that fails lets the create go ahead.
THEOREM MadeOnce ==
  ASSUME EnvWhen = "never", LookupsWork, NothingUnknown, ParentsAreNumbered
  PROVE  Spec => []NoDuplicate
<1>1. Init => DupInv
  <2> SUFFICES ASSUME Init PROVE DupInv
    OBVIOUS
  <2>1. /\ live = {[for |-> a, id |-> SameId,
                    in |-> IF ScopeIdents(a) = {} THEN {} ELSE {SameId},
                    body |-> "operator", full |-> TRUE] : a \in Survivors}
        /\ pc = "down" /\ phase = "main" /\ salvageRound = <<>> /\ nextId = 1
        /\ mappings = {} /\ probeCache = {} /\ newId = NoId
    BY Zenon DEF Init
  <2>2. SafeInv /\ Salvaging
    BY <2>1, InitSafe DEF Salvaging
  <2>3. FreshIds /\ Known
    BY <2>1 DEF FreshIds, Below, SameId, NoId, Known, NothingUnknown
  <2>4. NoDuplicate
    <3>1. \A o \in live : o = [for |-> o.for, id |-> SameId,
                             in |-> IF ScopeIdents(o.for) = {} THEN {} ELSE {SameId},
                             body |-> "operator", full |-> TRUE]
      BY <2>1
    <3> QED BY <3>1, Zenon DEF NoDuplicate
  <2> QED BY <2>1, <2>2, <2>3, <2>4, NothingSalvaged
          DEF DupInv, Looked, Scoped, KeptForLater
<1>2. DupInv /\ [Next]_vars => DupInv'
  BY DupStep
<1>3. DupInv => NoDuplicate
  BY DEF DupInv
<1> QED BY <1>1, <1>2, <1>3, PTL DEF Spec

\* However the networks' restores interleave, whatever is throttled, refused
\* or lost, whoever deletes or puts back objects and wherever the run is
\* killed: a mapping never leads to a namesake in a sibling network.  The
\* hypothesis is what sibling_mapping relies on: that a conflict is answered
\* from another network's mapping only when the networks share the object.
THEOREM MappingsStayHome ==
  ASSUME NamesakesAreFound, SharedAlike, ParentsAreNumbered
  PROVE  Spec => []MappingStaysInScope
<1>1. Init => ScopeInv
  BY ScopeStarts
<1>2. ScopeInv /\ [Next]_vars => ScopeInv'
  BY ScopeStep
<1>3. ScopeInv => MappingStaysInScope
  BY DEF ScopeInv
<1> QED BY <1>1, <1>2, <1>3, PTL DEF Spec

\* However often the run is killed, answers are lost and reads fail, and
\* whichever network's copy is created, adopted or refused first: all that
\* record one object of the organization map it to the one there is.
THEOREM OneForAllNetworks ==
  ASSUME EnvWhen = "never", SharedAreCreated
  PROVE  Spec => []SharedOnce
<1>1. Init => SharedInv
  <2> SUFFICES ASSUME Init PROVE SharedInv
    OBVIOUS
  <2>1. mappings = {} /\ probeCache = {} /\ newId = NoId
    BY Zenon DEF Init
  <2>2. /\ \A o \in live : o = [for |-> o.for, id |-> SameId,
                                in |-> IF ScopeIdents(o.for) = {} THEN {} ELSE {SameId},
                                body |-> "operator", full |-> TRUE]
        /\ \A o \in live : o.for \in Survivors
    BY SurvivorsAreThemselves
  <2>3. OneEach
    <3> SUFFICES ASSUME NEW o \in live, NEW p \in live, Attr[o.for].own = Attr[p.for].own,
                        SharedIdent(Attr[o.for].own)
                 PROVE  o = p
      BY DEF OneEach
    <3>1. o.for = p.for
      BY <2>2 DEF SharedAreCreated
    <3> QED BY <2>2, <3>1, Zenon
  <2> QED BY <2>1, <2>3, InitSafe DEF SharedInv, SharedAreThere
<1>2. SharedInv /\ [Next]_vars => SharedInv'
  BY SharedStep
<1>3. SharedInv => SharedOnce
  <2> SUFFICES ASSUME SharedInv, NEW r \in mappings, NEW q \in mappings, r.ident = q.ident,
                      SharedIdent(r.ident)
               PROVE  r.new = q.new
    BY DEF SharedOnce, SharedIdent
  <2>1. IsThere(r.new, r.ident) /\ IsThere(q.new, r.ident)
    BY DEF SharedInv, SharedAreThere
  <2> QED BY <2>1 DEF SharedInv, OneEach, IsThere
<1> QED BY <1>1, <1>2, <1>3, PTL DEF Spec

\* However the networks' restores interleave, whatever is throttled, refused
\* or lost, and whoever deletes or puts back objects meanwhile: what a write
\* refers to lies in the scope it is written into, or above, although the
\* networks reuse each other's IDs (rewrite_references, resolve_scope).  In
\* one run, from an empty journal: mappings are added then, and none retired.
THEOREM ReferencesStayHome ==
  ASSUME MaxRuns = 1, NamesakesAreFound, SharedAlike, ParentsAreNumbered, PathsTellApart,
         RefsAreNumbered, NothingInItself, NestedAlike
  PROVE  Spec => []ReferenceStaysInScope
<1>1. Init => PlaceInv
  <2> SUFFICES ASSUME Init PROVE PlaceInv
    OBVIOUS
  <2>1. /\ mappings = {} /\ probeCache = {} /\ newId = NoId
        /\ completed = {} /\ pc = "down"
    BY Zenon DEF Init
  <2>2. ScopeInv /\ FirstRun
    BY <2>1, ScopeStarts, OnceStarts DEF FirstRun
  <2>3. /\ \A o \in live : o = [for |-> o.for, id |-> SameId, in |-> Home(o.for),
                                body |-> "operator", full |-> TRUE]
    BY SurvivorsAreThemselves, Zenon DEF Home
  <2>4. \A o \in live : o.in = Home(o.for)
    BY <2>3
  <2> QED BY <2>1, <2>2, <2>4 DEF PlaceInv, AllPlaced, Stands
<1>2. PlaceInv /\ [Next]_vars => PlaceInv'
  BY FirstRunStep, ScopeStep, PlacedStep DEF PlaceInv
<1>3. PlaceInv => ReferenceStaysInScope
  <2> SUFFICES ASSUME PlaceInv, pc = "call", NEW i \in Attr[cur].refs, NEW o \in live,
                      Attr[o.for].own = i, {o.id} = Targets(i, cur), ~Attr[o.for].shared
               PROVE  o.in \subseteq Scope(cur)
    BY DEF ReferenceStaysInScope
  <2>1. AllPlaced /\ MappingStaysInScope /\ SafeInv
    BY DEF PlaceInv, ScopeInv
  <2>2. cur \in Acts /\ o.for \in Acts
    BY <2>1, CurrentAction DEF SafeInv, Working, TypeOK, TargetType, Objects
  <2>3. PICK r \in mappings : r.ident = i /\ r.ctx \subseteq Referrer(cur) /\ r.new = o.id
    BY DEF Targets
  <2>4. PICK b \in Acts : RowOf(r, b) /\ (Numbered(b) => Placed(r.new, b))
    BY <2>1 DEF AllPlaced
  <2>5. Attr[b].own = i /\ Attr[b].path \subseteq Referrer(cur)
    BY <2>3, <2>4 DEF RowOf
  <2>6. Numbered(b) /\ Numbered(o.for)
    BY <2>2, <2>5 DEF Numbered, RefsAreNumbered, SharedAlike
  <2>7. Scope(b) \subseteq Scope(cur)
    BY <2>1, <2>2, <2>5, ScopesNest
  <2>8. CASE o.id = SameId
    BY <2>1, <2>2, <2>3, <2>4, <2>5, <2>6, <2>7, <2>8
       DEF AllPlaced, Stands, Placed, NestedAlike
  <2>9. CASE o.id # SameId
    <3>1. Attr[o.for].path = Attr[b].path
      BY <2>1, <2>3, <2>4, <2>9 DEF MappingStaysInScope, RowOf
    <3>2. o.for = b
      BY <2>2, <2>5, <2>6, <3>1 DEF PathsTellApart, Numbered
    <3> QED BY <2>3, <2>4, <2>6, <2>7, <3>2 DEF Placed
  <2> QED BY <2>8, <2>9
<1> QED BY <1>1, <1>2, <1>3, PTL DEF Spec

\* Whatever is throttled, refused, lost or answered twice, whichever reads
\* fail, and wherever a heal is killed: it changes or removes no object that
\* survived the incident or that an operator put back by hand before it ran
\* (the pre-write verification of OrgRestorer.execute, additive_only).  The
\* probe answers from listings it read earlier in the run, so nobody else
\* changes the target meanwhile; in one run, from an empty journal.
THEOREM HealsAreAdditive ==
  ASSUME EnvWhen # "between", MaxRuns = 1, AddressesAreWhole, OneCollectionOnePlace,
         ParentsAreFound, ParentsTellApart, SurvivorsStand
  PROVE  Spec => HealIsAdditive
<1>1. Init /\ AdditiveOnly => HealInv
  BY HealStarts
<1>2. AdditiveOnly /\ HealInv /\ [Next]_vars => HealInv'
  BY HealStep
<1>3. AdditiveOnly /\ HealInv /\ [Next]_vars =>
        [AdditiveOnly /\ envs' = envs =>
           {o \in live : o.body = "operator"} \subseteq live']_vars
  <2> SUFFICES ASSUME AdditiveOnly, HealInv, [Next]_vars, envs' = envs
               PROVE  Old \subseteq live'
    BY DEF Old
  <2>1. SafeInv /\ Scoped /\ envs \in Nat
    BY DEF HealInv, FirstRun, OnceInv, SafeInv, TypeOK, BoundType
  <2>2. CASE Running
    BY <2>1, <2>2, OldStays DEF HealInv, Healing
  <2>3. CASE ~Running
    <3>1. ~Incident /\ ~ByHand
      BY <2>1 DEF Incident, ByHand
    <3>2. UNCHANGED live \/ \E os \in SUBSET live : Align(cur, os)
      BY <2>3, <3>1, TargetChanges DEF Running
    <3> QED BY <3>2 DEF Align, Old
  <2> QED BY <2>2, <2>3
<1>4. ~AdditiveOnly /\ [Next]_vars =>
        [AdditiveOnly /\ envs' = envs =>
           {o \in live : o.body = "operator"} \subseteq live']_vars
  OBVIOUS
<1>5. CASE AdditiveOnly
  BY <1>1, <1>2, <1>3, <1>5, PTL DEF Spec, HealIsAdditive
<1>6. CASE ~AdditiveOnly
  BY <1>4, <1>6, PTL DEF Spec, HealIsAdditive
<1> QED BY <1>5, <1>6

\* However throttling, refusals, lost answers and responses without an ID
\* reorder the writes, in the end-of-run retry too: of two objects that list
\* each other and are both known to the resolver, one at least was written
\* with the link, although the stall breaker lets go of both sides at once
\* (rewrite_references with drop_unresolved).  In one run, from an empty
\* journal.
THEOREM LinksSurvive ==
  ASSUME MaxRuns = 1, LinksAreMutual
  PROVE  Spec => LinkSurvives
<1>1. Init => LinkInv
  <2> SUFFICES ASSUME Init PROVE LinkInv
    OBVIOUS
  <2>1. mappings = {} /\ completed = {} /\ pc = "down"
    BY Zenon DEF Init
  <2>2. \A o \in live : o.body = "operator"
    BY SurvivorsAreThemselves
  <2> QED BY <2>1, <2>2, OnceStarts
          DEF LinkInv, FirstRun, RowsAreOwned, WrittenLast, OneSided, HasMapping
<1>2. LinkInv /\ [Next]_vars => LinkInv'
  BY LinkStep
<1>3. LinkInv' =>
        [Finishing =>
           \A o, p \in live' :
             /\ o.body = "snapshot" /\ p.body = "snapshot"
             /\ HasMapping(o.for)' /\ HasMapping(p.for)'
             /\ Attr[p.for].own \in Attr[o.for].lists
             => o.full \/ (p.full /\ Attr[o.for].own \in Attr[p.for].lists)]_vars
  <2> SUFFICES ASSUME LinkInv', NEW o \in live', NEW p \in live',
                      o.body = "snapshot", p.body = "snapshot",
                      HasMapping(o.for)', HasMapping(p.for)',
                      Attr[p.for].own \in Attr[o.for].lists
               PROVE  o.full \/ (p.full /\ Attr[o.for].own \in Attr[p.for].lists)
    OBVIOUS
  <2>1. o.for \in Acts /\ p.for \in Acts
    BY DEF LinkInv, FirstRun, OnceInv, SafeInv, TypeOK, TargetType, Objects
  <2>2. Full(o.for)' \/ Full(p.for)'
    BY <2>1 DEF LinkInv, OneSided, HasMapping, Full
  <2>3. Attr[o.for].own \in Attr[p.for].lists
    BY <2>1 DEF LinksAreMutual
  <2> QED BY <2>2, <2>3 DEF Full
<1> QED BY <1>1, <1>2, <1>3, PTL DEF Spec, LinkSurvives

\* When no action of a run failed, was refused or was given up, what the plan
\* holds is in the target again, whatever incidents took, and whatever other
\* people put back, between this run and those before: what the journal says
\* is done is looked for again (_probe_liveness), where its parents are now.
\* While the target is throttled this is not so (AnswersAreFinal): a parent
\* that waits leaves its children unprobed.
THEOREM RunsRestoreAll ==
  ASSUME EnvWhen # "between", MaxCrashes = 0, ~AdditiveOnly, AnswersAreFinal, AllAreFound,
         ParentsAreNumbered, ParentsArePlanned, ParentsFirst, ParentsReferToParents,
         ParentsTellApart, PathsNest, PathsTellApart
  PROVE  Spec => RunRestoresAll
<1>1. Init => RestoredInv
  <2> SUFFICES ASSUME Init PROVE RestoredInv
    OBVIOUS
  <2>1. /\ mappings = {} /\ pc = "down" /\ phase = "main" /\ salvageRound = <<>>
    BY Zenon DEF Init
  <2>2. AgreeInv
    BY <2>1, OnceStarts, NothingSalvaged
       DEF AgreeInv, Recorded, MappingsAgree, Unmapped, Writing
  <2> QED BY <2>1, <2>2, ScopeStarts DEF RestoredInv, Running
<1>2. RestoredInv /\ [Next]_vars => RestoredInv'
  BY RestoredStep
<1>3. Spec => []NothingForgotten
  BY RoundsForgetNothing
<1>4. RestoredInv /\ NothingForgotten' /\ [Next]_vars =>
        [Finishing /\ (\A a \in Acts : outcome'[a] \notin Troubles)
           => \A a \in Acts : \E o \in live' : o.for = a]_vars
  <2> SUFFICES ASSUME RestoredInv, NothingForgotten', [Next]_vars, Finishing, Untroubled',
                      NEW a \in Acts
               PROVE  \E o \in live' : o.for = a
    BY DEF Untroubled
  <2>1. Running /\ pc' # "down" /\ outcome'[a] # "none"
    <3>1. pc # "finished" /\ pc' = "finished" /\ outcome'[a] # "none"
      BY DEF Finishing, NothingForgotten
    <3>2. pc # "down"
      BY <3>1 DEF Next, Step, Guard, Send, Respond, Settling, SkewedAddress, SkipDrill,
         SkipCompleted, Reexecute, RefuseForeign, SkipDead, SkipHeld, AwaitClaim,
         VerifyBlocks, VerifyPasses, Cleared, Addressing, Taking, Recover, AdoptDefault,
         NothingToAdopt, Dispatch, Defer, Unresolvable, Accepted, LostAnswer,
         AdoptConflicting, Refused, SkipRefused, Throttled, CallFailed, SalvageStands,
         RecordMapping, RecordDone, NextRound, EndOfRounds, Start, FreshLocals, Crash,
         Incident, ByHand, vars
    <3> QED BY <3>1, <3>2 DEF Running
  <2>2. ScopeInv /\ Undisturbed /\ (Untroubled => SettledLive)
    BY <2>1 DEF RestoredInv
  <2>3. EndOfRounds
    <3>1. todo \in Seq(Acts)
      BY <2>2 DEF ScopeInv, SafeInv, TypeOK, QueueType
    <3> QED BY <2>1, <2>2, RestoreMoves
            DEF Finishing, Undisturbed, Troubled, GoesThrough, AwaitClaim, Defer,
                SkipCompleted, RecordDone, NextRound, Settle, Advance, Reexecute, VerifyPasses,
                Recover, AdoptDefault, NothingToAdopt, Dispatch, Accepted, AdoptConflicting,
                RecordMapping, vars
  <2>4. /\ UNCHANGED live
        /\ outcome' = [b \in Acts |-> IF b \in Members(deferred) THEN "stalled"
                                      ELSE outcome[b]]
    BY <2>3 DEF EndOfRounds, target
  <2>5. \A b \in Acts : outcome'[b] = outcome[b]
    BY <2>4 DEF Untroubled, Troubles
  <2>6. Untroubled /\ outcome[a] # "none"
    BY <2>1, <2>5 DEF Untroubled
  <2> QED BY <2>2, <2>4, <2>6 DEF SettledLive, Untroubled, Alive
<1> QED BY <1>1, <1>2, <1>3, <1>4, PTL DEF Spec, RunRestoresAll


=============================================================================

------------------------- MODULE RestoreRoundsProofs -------------------------
(***************************************************************************)
(* For every plan, every fault and any number of runs, crashes and changes *)
(* by other people: the rounds of the executor lose no action.  An action  *)
(* without a verdict is still queued somewhere (Queued): in the rest of    *)
(* the round, among the deferred or among the throttled; and none is left  *)
(* once the rounds are over.                                               *)
(***************************************************************************)
EXTENDS RestoreExecutorProofs

-----------------------------------------------------------------------------
(* The members of a queue.                                                 *)

LEMMA MembersOfRest ==
  ASSUME NEW s \in Seq(Acts), s # <<>>
  PROVE  /\ Members(s) = {Head(s)} \cup Members(Tail(s))
         /\ ~(Len(s) > 1) => Members(s) \subseteq {Head(s)}
<1>1. Len(s) \in Nat /\ Len(s) > 0 /\ Head(s) = s[1]
  BY EmptySeq, LenProperties, HeadTailProperties
<1>2. /\ Tail(s) \in Seq(Acts) /\ Len(Tail(s)) = Len(s) - 1
      /\ \A i \in 1 .. Len(Tail(s)) : Tail(s)[i] = s[i + 1]
  BY HeadTailProperties
<1>3. ASSUME NEW i \in 1 .. Len(s), i # 1
      PROVE  s[i] \in Members(Tail(s))
  <2>1. i - 1 \in 1 .. Len(Tail(s)) /\ (i - 1) + 1 = i
    BY <1>1, <1>2, <1>3
  <2>2. Tail(s)[i - 1] = s[i]
    BY <1>2, <2>1
  <2> QED BY <2>1, <2>2 DEF Members
<1>4. ASSUME NEW i \in 1 .. Len(Tail(s))
      PROVE  Tail(s)[i] \in Members(s)
  BY <1>1, <1>2 DEF Members
<1>6. Head(s) \in Members(s)
  BY <1>1 DEF Members
<1>5. ~(Len(s) > 1) => Members(s) \subseteq {Head(s)}
  BY <1>1 DEF Members
<1>7. Members(s) \subseteq {Head(s)} \cup Members(Tail(s))
  BY <1>1, <1>3 DEF Members
<1>8. Members(Tail(s)) \subseteq Members(s)
  BY <1>4 DEF Members
<1> QED BY <1>5, <1>6, <1>7, <1>8

LEMMA MembersOfAppended ==
  ASSUME NEW s \in Seq(Acts), NEW a \in Acts
  PROVE  Members(Append(s, a)) = Members(s) \cup {a}
<1>1. /\ Len(s) \in Nat /\ Len(Append(s, a)) = Len(s) + 1
      /\ \A i \in 1 .. Len(s) : Append(s, a)[i] = s[i]
      /\ Append(s, a)[Len(s) + 1] = a
  BY AppendProperties, LenProperties
<1> QED BY <1>1 DEF Members

LEMMA MembersOfBoth ==
  ASSUME NEW s \in Seq(Acts), NEW t \in Seq(Acts)
  PROVE  Members(s) \cup Members(t) \subseteq Members(s \o t)
<1>1. /\ Len(s) \in Nat /\ Len(t) \in Nat /\ Len(s \o t) = Len(s) + Len(t)
      /\ \A i \in 1 .. Len(s) + Len(t) :
           (s \o t)[i] = IF i <= Len(s) THEN s[i] ELSE t[i - Len(s)]
  BY ConcatProperties, LenProperties
<1>2. ASSUME NEW i \in 1 .. Len(t)
      PROVE  t[i] \in Members(s \o t)
  <2>1. /\ Len(s) + i \in 1 .. Len(s) + Len(t)
        /\ ~(Len(s) + i <= Len(s)) /\ (Len(s) + i) - Len(s) = i
    BY <1>1
  <2>2. (s \o t)[Len(s) + i] = t[i]
    BY <1>1, <2>1
  <2> QED BY <1>1, <2>1, <2>2 DEF Members
<1>3. ASSUME NEW i \in 1 .. Len(s)
      PROVE  s[i] \in Members(s \o t)
  BY <1>1 DEF Members
<1> QED BY <1>2, <1>3 DEF Members

-----------------------------------------------------------------------------
(* The invariant.                                                          *)

InRound == pc \notin {"round", "finished"}
Busy == InRound /\ pc # "down"
Ahead == IF InRound THEN Members(todo) ELSE {}
Queued ==
  \A a \in Acts :
    outcome[a] = "none" =>
      /\ phase = "main" /\ pc # "finished"
      /\ a \in Ahead \cup Members(deferred) \cup Members(throttled)
RoundsInv == SafeInv /\ Queued

(* What one iteration does with its action: it goes on with it, gives it a *)
(* verdict, puts it back, or is the end-of-run retry of one that has one.  *)

GoesOn == UNCHANGED <<phase, todo, deferred, throttled, outcome>> /\ InRound'
Judges ==
  /\ Advance /\ UNCHANGED <<phase, deferred, throttled>>
  /\ \E v \in Outcomes \ {"none"} : outcome' = [outcome EXCEPT ![cur] = v]
PutsBack ==
  /\ Advance /\ UNCHANGED <<phase, outcome>>
  /\ \/ deferred' = Append(deferred, cur) /\ UNCHANGED throttled
     \/ throttled' = Append(throttled, cur) /\ UNCHANGED deferred
Retried ==
  /\ phase = "salvage" /\ Advance /\ UNCHANGED <<phase, outcome, deferred, throttled>>
Iteration == GoesOn \/ Judges \/ PutsBack \/ Retried

LEMMA GuardIterates ==
  ASSUME Guard
  PROVE  Busy /\ Iteration
<1> USE DEF Iteration, InRound, Busy, rounds, Settle, Fail, Outcomes
<1>1. CASE SkewedAddress \/ SkipDrill \/ SkipCompleted \/ RefuseForeign \/ SkipDead \/ SkipHeld
  BY <1>1 DEF SkewedAddress, SkipDrill, SkipCompleted, RefuseForeign, SkipDead, SkipHeld,
              Taking, Addressing, Judges
<1>2. CASE VerifyBlocks
  <2>1. Busy /\ UNCHANGED <<phase, deferred, throttled>>
    BY <1>2 DEF VerifyBlocks, Cleared, Addressing, Taking
  <2>2. Settle("verified alive") \/ Settle("uncertain") \/ Settle("failed")
    BY <1>2 DEF VerifyBlocks
  <2> QED BY <2>1, <2>2 DEF Judges
<1>3. CASE AwaitClaim
  BY <1>3 DEF AwaitClaim, Addressing, Taking, PutsBack
<1>4. CASE Reexecute \/ VerifyPasses
  BY <1>4 DEF Reexecute, VerifyPasses, Cleared, Addressing, Taking, GoesOn
<1> QED BY <1>1, <1>2, <1>3, <1>4 DEF Guard

LEMMA SendIterates ==
  ASSUME Send
  PROVE  Busy /\ Iteration
<1> USE DEF Iteration, InRound, Busy, rounds, Settle, Fail, Outcomes
<1>1. CASE Recover \/ AdoptDefault \/ NothingToAdopt \/ Dispatch
  BY <1>1 DEF Recover, AdoptDefault, NothingToAdopt, Dispatch, GoesOn
<1>2. CASE Defer
  BY <1>2 DEF Defer, PutsBack
<1>3. CASE Unresolvable
  BY <1>3 DEF Unresolvable, Judges
<1> QED BY <1>1, <1>2, <1>3 DEF Send

LEMMA RespondIterates ==
  ASSUME Respond, ControlType
  PROVE  Busy /\ Iteration
<1> USE DEF Iteration, InRound, Busy, rounds, Settle, Fail, Outcomes
<1>1. CASE Accepted \/ AdoptConflicting
  BY <1>1 DEF Accepted, AdoptConflicting, GoesOn
<1>2. CASE LostAnswer
  BY <1>2 DEF LostAnswer, Judges, Retried, ControlType
<1>3. CASE Refused \/ SkipRefused \/ CallFailed
  BY <1>3 DEF Refused, SkipRefused, CallFailed, Judges
<1>4. CASE Throttled
  BY <1>4 DEF Throttled, Judges, PutsBack
<1>5. CASE SalvageStands
  BY <1>5 DEF SalvageStands, Retried
<1> QED BY <1>1, <1>2, <1>3, <1>4, <1>5 DEF Respond

LEMMA RecordIterates ==
  ASSUME RecordMapping \/ RecordDone
  PROVE  Busy /\ Iteration
BY DEF RecordMapping, RecordDone, Settle, Outcomes, Iteration, GoesOn, Judges, InRound,
       Busy, rounds

-----------------------------------------------------------------------------
(* Queued is kept.                                                         *)

LEMMA IterationKeepsQueued ==
  ASSUME SafeInv, Queued, Busy, Iteration
  PROVE  Queued'
<1>0. InRound /\ todo # <<>>
  BY DEF Busy, InRound, SafeInv, Working
<1>1. /\ todo \in Seq(Acts) /\ deferred \in Seq(Acts) /\ throttled \in Seq(Acts)
      /\ cur \in Acts /\ outcome \in [Acts -> Outcomes]
  BY <1>0, CurrentAction DEF SafeInv, TypeOK, QueueType, LedgerType
<1>2. ASSUME Advance, UNCHANGED phase, NEW a \in Acts, phase = "main",
             a \in Members(todo), a # cur
      PROVE  pc' # "finished" /\ a \in Ahead'
  <2>1. Len(todo) > 1
    BY <1>0, <1>1, <1>2, MembersOfRest DEF cur
  <2>2. pc' = "take" /\ Members(todo)' = Members(Tail(todo))
    BY <1>2, <2>1 DEF Advance, Members
  <2>3. a \in Members(Tail(todo))
    BY <1>0, <1>1, <1>2, MembersOfRest DEF cur
  <2> QED BY <2>2, <2>3 DEF Ahead, InRound
<1>3. CASE GoesOn
  BY <1>0, <1>3 DEF GoesOn, Queued, Ahead, InRound, Members
<1>4. CASE Judges
  <2>1. SUFFICES ASSUME NEW a \in Acts, outcome'[a] = "none"
                 PROVE  /\ phase' = "main" /\ pc' # "finished"
                        /\ a \in Ahead' \cup Members(deferred)' \cup Members(throttled)'
    BY DEF Queued
  <2>2. outcome[a] = "none" /\ a # cur
    BY <1>1, <1>4, <2>1 DEF Judges
  <2> QED BY <1>0, <1>2, <1>4, <2>2 DEF Judges, Queued, Ahead, Members, Advance
<1>5. CASE PutsBack
  <2>1. SUFFICES ASSUME NEW a \in Acts, outcome[a] = "none"
                 PROVE  /\ phase' = "main" /\ pc' # "finished"
                        /\ a \in Ahead' \cup Members(deferred)' \cup Members(throttled)'
    BY <1>5 DEF Queued, PutsBack
  <2>2. phase = "main" /\ phase' = "main" /\ pc' # "finished"
    BY <1>5, <2>1 DEF PutsBack, Queued, Advance
  <2>3. /\ Members(deferred) \subseteq Members(deferred)'
        /\ Members(throttled) \subseteq Members(throttled)'
        /\ cur \in Members(deferred)' \cup Members(throttled)'
    <3>1. CASE deferred' = Append(deferred, cur) /\ UNCHANGED throttled
      <4>1. Members(deferred)' = Members(Append(deferred, cur))
        BY <3>1 DEF Members
      <4>2. Members(throttled)' = Members(throttled)
        BY <3>1 DEF Members
      <4> QED BY <1>1, <4>1, <4>2, MembersOfAppended
    <3>2. CASE throttled' = Append(throttled, cur) /\ UNCHANGED deferred
      <4>1. Members(throttled)' = Members(Append(throttled, cur))
        BY <3>2 DEF Members
      <4>2. Members(deferred)' = Members(deferred)
        BY <3>2 DEF Members
      <4> QED BY <1>1, <4>1, <4>2, MembersOfAppended
    <3> QED BY <1>5, <3>1, <3>2 DEF PutsBack
  <2> QED BY <1>0, <1>2, <1>5, <2>1, <2>2, <2>3 DEF PutsBack, Queued, Ahead
<1>6. CASE Retried
  BY <1>6 DEF Retried, Queued
<1> QED BY <1>3, <1>4, <1>5, <1>6 DEF Iteration

LEMMA RoundKeepsQueued ==
  ASSUME SafeInv, Queued, NextRound \/ EndOfRounds
  PROVE  Queued'
<1>1. deferred \in Seq(Acts) /\ throttled \in Seq(Acts) /\ outcome \in [Acts -> Outcomes]
  BY DEF SafeInv, TypeOK, QueueType, LedgerType
<1>2. ASSUME NEW a \in Acts, outcome[a] = "none"
      PROVE  phase = "main" /\ a \in Members(deferred) \cup Members(throttled)
  BY <1>2 DEF NextRound, EndOfRounds, Queued, Ahead, InRound
<1>3. CASE NextRound
  <2>1. Members(todo)' = Members(deferred \o throttled)
    BY <1>3 DEF NextRound, Members
  <2> QED BY <1>1, <1>2, <1>3, <2>1, MembersOfBoth DEF NextRound, Queued, Ahead, InRound
<1>4. CASE EndOfRounds
  <2>1. throttled = <<>>
    BY <1>4 DEF EndOfRounds, Idle, Stalled
  <2>2. Members(throttled) = {}
    BY <2>1, EmptySeq DEF Members
  <2>3. \A a \in Acts : outcome'[a] # "none"
    BY <1>1, <1>2, <1>4, <2>2 DEF EndOfRounds
  <2> QED BY <2>3 DEF Queued
<1> QED BY <1>3, <1>4

\* A process that starts, and one that died, has the whole plan ahead.
LEMMA FreshIsQueued ==
  ASSUME NEW position \in {"take", "down"}, FreshLocals(position)
  PROVE  Queued'
<1>1. Acts \subseteq Members(Plan)
  BY PlanAssumption DEF Members
<1>2. Members(todo)' = Members(Plan)
  BY DEF FreshLocals, Members
<1>3. pc' = position /\ phase' = "main"
  BY Zenon DEF FreshLocals
<1> QED BY <1>1, <1>2, <1>3 DEF Queued, Ahead, InRound

LEMMA RoundsStart == Init => RoundsInv
<1> SUFFICES ASSUME Init PROVE Queued
  BY InitSafe DEF RoundsInv
<1>1. Acts \subseteq Members(todo)
  BY PlanAssumption DEF Init, Members
<1>2. pc = "down" /\ phase = "main"
  BY Zenon DEF Init
<1> QED BY <1>1, <1>2 DEF Queued, Ahead, InRound

LEMMA RoundsStep == RoundsInv /\ [Next]_vars => RoundsInv'
<1> SUFFICES ASSUME SafeInv, Queued, [Next]_vars PROVE Queued'
  BY StepSafe DEF RoundsInv
<1>1. CASE Guard \/ Send \/ Respond \/ RecordMapping \/ RecordDone
  BY <1>1, IterationKeepsQueued, GuardIterates, SendIterates, RespondIterates,
     RecordIterates
     DEF SafeInv, TypeOK
<1>2. CASE NextRound \/ EndOfRounds
  BY <1>2, RoundKeepsQueued
<1>3. CASE Start \/ Crash
  BY <1>3, FreshIsQueued DEF Start, Crash
<1>4. CASE UNCHANGED <<pc, phase, todo, deferred, throttled, outcome>>
  BY <1>4 DEF Queued, Ahead, InRound, Members
<1> QED BY <1>1, <1>2, <1>3, <1>4
        DEF Next, Step, Settling, Incident, ByHand, vars, rounds

-----------------------------------------------------------------------------
(* The theorem.                                                            *)

\* Whatever was deferred, throttled, refused, retried or stalled, in however
\* many rounds: a run that finishes has a verdict on every planned action
\* (OrgRestorer.execute: the loop over pending and its terminators).
THEOREM RoundsForgetNothing == Spec => []NothingForgotten
<1>1. RoundsInv => NothingForgotten
  BY DEF RoundsInv, Queued, NothingForgotten
<1> QED BY <1>1, RoundsStart, RoundsStep, PTL DEF Spec

=============================================================================

----------------------- MODULE RestoreExecutorProofs -----------------------
(***************************************************************************)
(* For every plan, every fault the server may show, every number of runs,  *)
(* crashes and changes by other people: the executor's state is well typed *)
(* and its journal is written ahead of the target.                         *)
(***************************************************************************)
EXTENDS RestoreExecutor, FiniteSetTheorems, SequenceTheorems, TLAPS

\* What makes the types and the write-ahead order inductive: a busy executor
\* has a current action, an ID in hand belongs to a create, and the attempt
\* is journaled by the time the call is made.
Working == pc \notin {"down", "round", "finished"} => todo # <<>>
IdInHand == newId # NoId => pc \in {"map", "done"} /\ todo # <<>> /\ Creates(cur)
CallJournaled == pc = "call" /\ Creates(cur) => cur \in attempted
SafeInv == TypeOK /\ Working /\ IdInHand /\ CallJournaled /\ WriteAhead

LEMMA HeadTail ==
  ASSUME NEW S, NEW s \in Seq(S), s # <<>>
  PROVE  /\ Head(s) \in S
         /\ Tail(s) \in Seq(S)
         /\ Len(s) \in Nat
         /\ Len(s) > 1 => Tail(s) # <<>>
<1> DEFINE t == Tail(s)
           n == Len(s)
<1>1. Head(s) \in S /\ t \in Seq(S) /\ Len(t) = n - 1
  BY HeadTailProperties
<1>2. n \in Nat
  BY LenProperties
<1>3. Len(<<>>) = 0
  BY EmptySeq
<1> HIDE DEF t, n
<1>4. n > 1 => Len(t) # 0
  BY <1>1, <1>2
<1>5. n > 1 => t # <<>>
  BY <1>3, <1>4, Zenon
<1> QED
  BY <1>1, <1>2, <1>5, Zenon DEF t, n

\* The current action's attributes are of their type.
LEMMA CurrentAction ==
  ASSUME SafeInv, todo # <<>>
  PROVE  /\ cur \in Acts
         /\ Attr[cur] \in AttrType
         /\ Mints(cur) => Attr[cur].own \in Idents
         /\ Creates(cur) => Mints(cur)
  BY HeadTail, AttrAssumption DEF SafeInv, TypeOK, QueueType, cur, Mints, Creates

LEMMA ScopeType ==
  ASSUME JournalType, NEW a \in Acts
  PROVE  Scope(a) \subseteq Ids
  BY DEF JournalType, Rows, Scope, Targets

LEMMA ListingType ==
  ASSUME JournalType, TargetType, NEW a \in Acts
  PROVE  Listing(a, Scope(a)) \in Cached
<1>1. Attr[a].coll \in STRING
  BY AttrAssumption DEF AttrType
<1>2. Scope(a) \in SUBSET Ids
  BY ScopeType
<1>3. {o \in live : Attr[o.for].coll = Attr[a].coll /\ o.in = Scope(a)} \in SUBSET Objects
  BY DEF TargetType
<1> DEFINE gone == ~ScopeIsLive(a)
<1>4. gone \in BOOLEAN
  OBVIOUS
<1> HIDE DEF gone
<1> QED
  BY <1>1, <1>2, <1>3, <1>4 DEF Listing, Cached, gone

LEMMA ClassifyType ==
  ASSUME NEW a \in Acts, NEW seen \in SUBSET Objects
  PROVE  Classify(a, seen).found \in Ids \cup {NoId}
<1> DEFINE hits == {o \in seen : o.for = a}
<1>1. \A o \in hits : o.id \in Ids
  BY DEF Objects
<1>2. Cardinality(hits) = 1 => hits # {}
  BY FS_EmptySet
<1>3. Cardinality(hits) = 1 => (CHOOSE o \in hits : TRUE).id \in Ids
  BY <1>1, <1>2
<1>4. SameId \in Ids
  BY DEF SameId, Ids
<1> HIDE DEF hits
<1>5. \A v, n : Verdict(v, n).found = n
  BY DEF Verdict
<1> QED
  BY <1>3, <1>4, <1>5 DEF Classify, hits

\* A probe leaves a well-typed cache and finds, if anything, an ID.
LEMMA ProbeType ==
  ASSUME JournalType, TargetType, CacheType, NEW a \in Acts, NEW p \in Probes(a)
  PROVE  p.cache \subseteq Cached /\ p.answer.found \in Ids \cup {NoId}
<1> DEFINE cached == {c \in probeCache : c.coll = Attr[a].coll /\ c.in = Scope(a)}
           keep(v) == [answer |-> v, cache |-> probeCache]
           read == Listing(a, Scope(a))
           miss == [answer |-> Answer(a, read), cache |-> probeCache \cup {read}]
<1>1. \A l \in Cached : Answer(a, l).found \in Ids \cup {NoId}
  BY ClassifyType DEF Answer, Verdict, Cached
<1>2. read \in Cached
  BY ListingType
<1>3. probeCache \subseteq Cached
  BY DEF CacheType
<1>4. p \in {keep(Verdict("absent", NoId)), keep(Verdict("unverifiable", NoId)),
             keep(Verdict("proceed", NoId)), keep(Verdict("uncertain", NoId)), miss}
      \/ p \in {keep(Answer(a, c)) : c \in cached}
  BY DEF Probes
<1>5. \A v, n : Verdict(v, n).found = n
  BY DEF Verdict
<1> HIDE DEF read
<1>6. CASE p \in {keep(Answer(a, c)) : c \in cached}
  BY <1>1, <1>3, <1>6
<1>7. CASE p = miss
  BY <1>1, <1>2, <1>3, <1>7
<1>8. CASE p \in {keep(Verdict("absent", NoId)), keep(Verdict("unverifiable", NoId)),
                  keep(Verdict("proceed", NoId)), keep(Verdict("uncertain", NoId))}
  BY <1>3, <1>5, <1>8
<1> QED
  BY <1>4, <1>6, <1>7, <1>8

-----------------------------------------------------------------------------
(* The two shapes of a step: it settles the current action, or it moves on *)
(* with it.                                                                *)

LEMMA SettlingStep ==
  ASSUME SafeInv, todo # <<>>, Advance, phase' = phase,
         JournalType', TargetType', LedgerType', CacheType', WriteAhead',
         deferred' \in Seq(Acts), throttled' \in Seq(Acts), salvageRound' \in Seq(Acts),
         UNCHANGED <<pendingLen, bounds>>
  PROVE  SafeInv'
<1>1. /\ todo' \in Seq(Acts)
      /\ pc' \in {"take", "send", "round", "finished"}
      /\ pc' \in {"take", "send"} => todo' # <<>>
      /\ newId' = NoId /\ fresh' = FALSE
  BY HeadTail DEF SafeInv, TypeOK, QueueType, Advance
<1>2. ControlType' /\ QueueType' /\ BoundType'
  BY <1>1 DEF SafeInv, TypeOK, ControlType, QueueType, BoundType, bounds
<1> QED
  BY <1>1, <1>2 DEF SafeInv, TypeOK, Working, IdInHand, CallJournaled

LEMMA MovingStep ==
  ASSUME SafeInv, todo # <<>>,
         UNCHANGED <<phase, rounds, salvageRound, bounds>>,
         pc' \in {"address", "lookup", "send", "call", "map", "done"},
         newId' \in Ids \cup {NoId}, fresh' \in BOOLEAN,
         newId' # NoId => pc' \in {"map", "done"} /\ Creates(cur),
         pc' = "call" /\ Creates(cur) => cur \in attempted',
         JournalType', TargetType', LedgerType', CacheType', WriteAhead'
  PROVE  SafeInv'
<1>1. ControlType' /\ QueueType' /\ BoundType'
  BY DEF SafeInv, TypeOK, ControlType, QueueType, BoundType, bounds, rounds
<1>2. cur' = cur /\ todo' = todo
  BY DEF cur, rounds
<1> QED
  BY <1>1, <1>2 DEF SafeInv, TypeOK, Working, IdInHand, CallJournaled, Creates

LEMMA WriteAheadKept ==
  ASSUME WriteAhead, live' \subseteq live, attempted \subseteq attempted'
  PROVE  WriteAhead'
  BY DEF WriteAhead, Creates

LEMMA SettleType ==
  ASSUME LedgerType, cur \in Acts, NEW v \in Outcomes,
         outcome' = [outcome EXCEPT ![cur] = v]
  PROVE  outcome' \in [Acts -> Outcomes]
  BY DEF LedgerType

-----------------------------------------------------------------------------
(* The two ways the executor changes the target.                           *)

\* A call that lands writes an object whose attempt is journaled, next to
\* defaults that carry the dashboard's own content.
LEMMA LandedSafe ==
  ASSUME SafeInv, todo # <<>>, pc = "call", Landed(cur), attempted' = attempted
  PROVE  TargetType' /\ WriteAhead'
<1> DEFINE id == AssignedId(cur, nextId)
           written == [for |-> cur, id |-> id, in |-> Scope(cur), body |-> "snapshot",
                       full |-> ListResolves(cur)]
           default(b) == [for |-> b, id |-> AssignedId(b, nextId + 1),
                          in |-> Scope(cur) \cup {id}, body |-> "provisioned",
                          full |-> FALSE]
<1>1. cur \in Acts /\ nextId \in Nat /\ live \subseteq Objects /\ Scope(cur) \subseteq Ids
  BY CurrentAction, ScopeType DEF SafeInv, TypeOK, TargetType
<1>2. \A a \in Acts, n \in Nat : AssignedId(a, n) \in Ids
  BY DEF AssignedId, Ids, SameId
<1>3. ListResolves(cur) \in BOOLEAN
  BY DEF ListResolves
<1>4. written \in Objects /\ written.for = cur
  BY <1>1, <1>2, <1>3 DEF Objects
<1>5. \A b \in Acts : default(b) \in Objects /\ default(b).body = "provisioned"
  BY <1>1, <1>2 DEF Objects
<1>6. \A o \in live' : o \in live \/ o = written \/ \E b \in Acts : o = default(b)
  BY DEF Landed, Born
<1>7. nextId' \in Nat
  BY <1>1 DEF Landed
<1> HIDE DEF written, default
<1>8. TargetType'
  BY <1>1, <1>4, <1>5, <1>6, <1>7 DEF TargetType
<1>9. WriteAhead'
  <2> SUFFICES ASSUME NEW o \in live', Creates(o.for), ~Attr[o.for].flag,
                      o.body = "snapshot"
               PROVE  o.for \in attempted
    BY DEF WriteAhead, Creates
  <2>1. CASE o \in live
    BY <2>1 DEF SafeInv, WriteAhead
  <2>2. CASE o = written
    BY <1>4, <2>2 DEF SafeInv, CallJournaled
  <2>3. CASE \E b \in Acts : o = default(b)
    BY <1>5, <2>3
  <2> QED
    BY <1>6, <2>1, <2>2, <2>3
<1> QED
  BY <1>8, <1>9

\* Aligning an adopted object touches counterparts of the current action only.
LEMMA AlignSafe ==
  ASSUME SafeInv, todo # <<>>, NEW os \in SUBSET Counterparts(cur), Align(cur, os),
         attempted' = attempted, nextId' = nextId,
         Attr[cur].flag \/ cur \in attempted
  PROVE  TargetType' /\ WriteAhead'
<1> DEFINE pushed(o) == [o EXCEPT !.body = "snapshot", !.full = TRUE]
<1>1. cur \in Acts /\ nextId \in Nat /\ live \subseteq Objects
  BY CurrentAction DEF SafeInv, TypeOK, TargetType
<1>2. \A o \in os : o \in Objects /\ o.for = cur
  BY <1>1 DEF Counterparts, Holds
<1>3. \A o \in os : pushed(o) \in Objects /\ pushed(o).for = cur
  BY <1>2 DEF Objects
<1>4. \A o \in live' : o \in live \/ \E x \in os : o = pushed(x)
  BY DEF Align
<1> HIDE DEF pushed
<1>5. TargetType'
  BY <1>1, <1>3, <1>4 DEF TargetType
<1>6. WriteAhead'
  <2> SUFFICES ASSUME NEW o \in live', Creates(o.for), ~Attr[o.for].flag,
                      o.body = "snapshot"
               PROVE  o.for \in attempted
    BY DEF WriteAhead, Creates
  <2>1. CASE o \in live
    BY <2>1 DEF SafeInv, WriteAhead
  <2>2. CASE \E x \in os : o = pushed(x)
    BY <1>3, <2>2
  <2> QED
    BY <1>4, <2>1, <2>2
<1> QED
  BY <1>5, <1>6

-----------------------------------------------------------------------------
(* One lemma per group of actions.                                         *)

LEMMA PoisonType ==
  ASSUME SafeInv, todo # <<>>, Poison
  PROVE  failedParents' \subseteq Idents
  BY CurrentAction DEF SafeInv, TypeOK, LedgerType, Poison

\* A mapping recovered by a probe is a well-typed row.
LEMMA RecoverType ==
  ASSUME SafeInv, todo # <<>>, NEW p \in Probes(cur), RecoverMapping(p.answer.found)
  PROVE  mappings' \subseteq Rows
<1>1. p.answer.found \in Ids \cup {NoId}
  BY CurrentAction, ProbeType DEF SafeInv, TypeOK
<1>2. Attr[cur].path \subseteq Idents
  BY CurrentAction DEF AttrType
<1>3. Creates(cur) => Attr[cur].own \in Idents
  BY CurrentAction
<1> QED
  BY <1>1, <1>2, <1>3 DEF SafeInv, TypeOK, JournalType, RecoverMapping, Row, Rows

LEMMA GuardSafe ==
  ASSUME SafeInv, Guard
  PROVE  SafeInv'
<1> USE DEF SafeInv, TypeOK
<1>0. todo # <<>>
  BY DEF Working, Guard, SkewedAddress, SkipDrill, SkipCompleted, Reexecute, RefuseForeign,
         SkipDead, SkipHeld, AwaitClaim, VerifyBlocks, VerifyPasses, Taking, Addressing,
         Cleared
<1>a. /\ cur \in Acts
      /\ Mints(cur) => Attr[cur].own \in Idents
      /\ Attr[cur] \in AttrType
  BY <1>0, CurrentAction
<1>b. deferred \in Seq(Acts) /\ throttled \in Seq(Acts) /\ salvageRound \in Seq(Acts)
  BY DEF QueueType
<1>c. Attr[cur].kind = "claim" => Attr[cur].own \in Idents
  BY <1>a, AttrAssumption
<1> USE DEF journal, target, ledger, retries, bounds
<1>1. CASE SkewedAddress
  <2>1. failedParents' \subseteq Idents
    BY <1>0, <1>1, PoisonType DEF SkewedAddress, Fail
  <2> QED
    BY <1>0, <1>a, <1>b, <1>1, <2>1, SettlingStep, WriteAheadKept, SettleType
       DEF SkewedAddress, Fail, Settle, JournalType, TargetType, LedgerType, CacheType,
           Outcomes
<1>2. CASE SkipDrill
  <2>1. skippedParents' \subseteq Idents
    BY <1>a, <1>2 DEF SkipDrill, LedgerType
  <2> QED
    BY <1>0, <1>a, <1>b, <1>2, <2>1, SettlingStep, WriteAheadKept, SettleType
       DEF SkipDrill, Settle, JournalType, TargetType, LedgerType, CacheType, Outcomes
<1>3. CASE SkipCompleted
  <2>1. probeCache' \subseteq Cached
    BY <1>a, <1>3, ProbeType DEF SkipCompleted
  <2>2. mappings' \subseteq Rows
    BY <1>0, <1>3, RecoverType DEF SkipCompleted
  <2> QED
    BY <1>0, <1>a, <1>b, <1>3, <2>1, <2>2, SettlingStep, WriteAheadKept, SettleType
       DEF SkipCompleted, Settle, JournalType, TargetType, LedgerType, CacheType, Outcomes
<1>4. CASE Reexecute
  <2>1. probeCache' \subseteq Cached
    BY <1>a, <1>4, ProbeType DEF Reexecute
  <2>2. mappings' \subseteq Rows
    BY <1>4 DEF Reexecute, JournalType
  <2>3. unclaimed' \subseteq Idents
    BY <1>c, <1>4 DEF Reexecute, LedgerType
  <2>4. newId' = NoId /\ fresh' \in BOOLEAN
    BY <1>4 DEF Reexecute, local, IdInHand, ControlType, Taking
  <2> QED
    BY <1>0, <1>4, <2>1, <2>2, <2>3, <2>4, MovingStep, WriteAheadKept
       DEF Reexecute, JournalType, TargetType, LedgerType, CacheType
<1>5. CASE RefuseForeign
  BY <1>0, <1>a, <1>b, <1>5, SettlingStep, WriteAheadKept, SettleType
     DEF RefuseForeign, Settle, JournalType, TargetType, LedgerType, CacheType, Outcomes
<1>6. CASE SkipDead
  BY <1>0, <1>a, <1>b, <1>6, SettlingStep, WriteAheadKept, SettleType
     DEF SkipDead, Settle, JournalType, TargetType, LedgerType, CacheType, Outcomes
<1>7. CASE SkipHeld
  <2>1. skippedParents' \subseteq Idents
    BY <1>a, <1>7 DEF SkipHeld, LedgerType
  <2> QED
    BY <1>0, <1>a, <1>b, <1>7, <2>1, SettlingStep, WriteAheadKept, SettleType
       DEF SkipHeld, Settle, JournalType, TargetType, LedgerType, CacheType, Outcomes
<1>8. CASE AwaitClaim
  <2>1. deferred' \in Seq(Acts)
    BY <1>a, <1>b, <1>8 DEF AwaitClaim
  <2> QED
    BY <1>0, <1>b, <1>8, <2>1, SettlingStep, WriteAheadKept
       DEF AwaitClaim, JournalType, TargetType, LedgerType, CacheType
<1>9. CASE VerifyBlocks
  <2>1. probeCache' \subseteq Cached
    BY <1>a, <1>9, ProbeType DEF VerifyBlocks
  <2>2. mappings' \subseteq Rows
    BY <1>0, <1>9, RecoverType DEF VerifyBlocks, JournalType
  <2>3. failedParents' \subseteq Idents
    BY <1>0, <1>9, PoisonType DEF VerifyBlocks, Fail, LedgerType
  <2>4. Advance /\ \E v \in Outcomes : outcome' = [outcome EXCEPT ![cur] = v]
    BY <1>9 DEF VerifyBlocks, Fail, Settle, Outcomes
  <2> QED
    BY <1>0, <1>a, <1>b, <1>9, <2>1, <2>2, <2>3, <2>4, SettlingStep, WriteAheadKept,
       SettleType
       DEF VerifyBlocks, JournalType, TargetType, LedgerType, CacheType
<1>10. CASE VerifyPasses
  <2>1. probeCache' \subseteq Cached
    BY <1>a, <1>10, ProbeType DEF VerifyPasses, CacheType
  <2>2. newId' = NoId /\ fresh' \in BOOLEAN
    BY <1>10 DEF VerifyPasses, local, IdInHand, ControlType, Cleared, Addressing, Taking
  <2> QED
    BY <1>0, <1>10, <2>1, <2>2, MovingStep, WriteAheadKept
       DEF VerifyPasses, JournalType, TargetType, LedgerType, CacheType
<1> QED
  BY <1>1, <1>2, <1>3, <1>4, <1>5, <1>6, <1>7, <1>8, <1>9, <1>10 DEF Guard

LEMMA SendSafe ==
  ASSUME SafeInv, Send
  PROVE  SafeInv'
<1> USE DEF SafeInv, TypeOK
<1>0. todo # <<>>
  BY DEF Working, Send, Recover, AdoptDefault, NothingToAdopt, Dispatch, Defer, Unresolvable
<1>a. cur \in Acts
  BY <1>0, CurrentAction
<1>b. deferred \in Seq(Acts) /\ throttled \in Seq(Acts) /\ salvageRound \in Seq(Acts)
  BY DEF QueueType
<1>c. \A o \in Counterparts(cur) : o \in live /\ o.id \in Ids
  BY DEF Counterparts, Holds, TargetType, Objects
<1> USE DEF journal, target, ledger, retries, bounds
<1>1. CASE Recover
  <2>1. newId' \in Ids /\ fresh' \in BOOLEAN
    BY <1>c, <1>1 DEF Recover, Reconciled, Visible, ControlType
  <2> QED
    BY <1>0, <1>1, <2>1, MovingStep, WriteAheadKept
       DEF Recover, JournalType, TargetType, LedgerType, CacheType
<1>2. CASE AdoptDefault
  <2>1. newId' \in Ids /\ fresh' \in BOOLEAN
    BY <1>c, <1>2 DEF AdoptDefault, Visible, ControlType
  <2>2. Visible(cur) \in SUBSET Counterparts(cur)
    BY DEF Visible
  <2>3. TargetType' /\ WriteAhead'
    BY <1>0, <1>2, <2>2, AlignSafe DEF AdoptDefault
  <2> QED
    BY <1>0, <1>2, <2>1, <2>3, MovingStep
       DEF AdoptDefault, JournalType, LedgerType, CacheType
<1>3. CASE NothingToAdopt
  <2>1. newId' = NoId /\ fresh' \in BOOLEAN
    BY <1>3 DEF NothingToAdopt, local, IdInHand, ControlType
  <2> QED
    BY <1>0, <1>3, <2>1, MovingStep, WriteAheadKept
       DEF NothingToAdopt, JournalType, TargetType, LedgerType, CacheType
<1>4. CASE Dispatch
  <2>1. newId' = NoId /\ fresh' \in BOOLEAN
    BY <1>4 DEF Dispatch, local, IdInHand, ControlType
  <2>2. JournalType' /\ attempted \subseteq attempted' /\ (Creates(cur) => cur \in attempted')
    BY <1>a, <1>4 DEF Dispatch, JournalType
  <2> QED
    BY <1>0, <1>4, <2>1, <2>2, MovingStep, WriteAheadKept
       DEF Dispatch, TargetType, LedgerType, CacheType
<1>5. CASE Defer
  <2>1. deferred' \in Seq(Acts)
    BY <1>a, <1>b, <1>5 DEF Defer
  <2> QED
    BY <1>0, <1>b, <1>5, <2>1, SettlingStep, WriteAheadKept
       DEF Defer, JournalType, TargetType, LedgerType, CacheType
<1>6. CASE Unresolvable
  <2>1. failedParents' \subseteq Idents
    BY <1>0, <1>6, PoisonType DEF Unresolvable, Fail
  <2> QED
    BY <1>0, <1>a, <1>b, <1>6, <2>1, SettlingStep, WriteAheadKept, SettleType
       DEF Unresolvable, Fail, Settle, JournalType, TargetType, LedgerType, CacheType,
           Outcomes
<1> QED
  BY <1>1, <1>2, <1>3, <1>4, <1>5, <1>6 DEF Send

LEMMA RespondSafe ==
  ASSUME SafeInv, Respond
  PROVE  SafeInv'
<1> USE DEF SafeInv, TypeOK
<1>0. todo # <<>>
  BY DEF Working, Respond, Accepted, LostAnswer, AdoptConflicting, Refused, SkipRefused,
         Throttled, CallFailed, SalvageStands
<1>a. cur \in Acts
  BY <1>0, CurrentAction
<1>b. deferred \in Seq(Acts) /\ throttled \in Seq(Acts) /\ salvageRound \in Seq(Acts)
  BY DEF QueueType
<1>c. /\ \A o \in Counterparts(cur) : o \in live /\ o.id \in Ids
      /\ SameId \in Ids /\ nextId \in Ids
      /\ \A m \in mappings : m.new \in Ids
  BY DEF Counterparts, Holds, TargetType, Objects, JournalType, Rows, Ids, SameId
<1> USE DEF journal, target, ledger, retries, bounds
<1>1. CASE Accepted
  <2>1. /\ newId' \in Ids \cup {NoId} /\ fresh' \in BOOLEAN
        /\ newId' # NoId => Creates(cur)
    BY <1>c, <1>1 DEF Accepted, AssignedId
  <2>2. TargetType' /\ WriteAhead'
    BY <1>0, <1>1, LandedSafe DEF Accepted
  <2> QED
    BY <1>0, <1>1, <2>1, <2>2, MovingStep DEF Accepted, JournalType, LedgerType, CacheType
<1>2. CASE LostAnswer
  <2>1. TargetType' /\ WriteAhead'
    BY <1>0, <1>2, LandedSafe DEF LostAnswer
  <2>2. /\ Advance
        /\ failedParents' \subseteq Idents
        /\ outcome' \in [Acts -> Outcomes]
    BY <1>0, <1>a, <1>2, PoisonType, SettleType
       DEF LostAnswer, Fail, Settle, Outcomes, LedgerType
  <2> QED
    BY <1>0, <1>b, <1>2, <2>1, <2>2, SettlingStep
       DEF LostAnswer, JournalType, LedgerType, CacheType
<1>3. CASE AdoptConflicting
  <2>1. newId' \in Ids /\ fresh' \in BOOLEAN
    BY <1>c, <1>3 DEF AdoptConflicting, Reconciled, Visible, SiblingMapping, ControlType
  <2>2. Creates(cur) /\ cur \in attempted
    BY <1>3 DEF AdoptConflicting, Conflicts, CallJournaled
  <2>3. Reconciled(cur) \in SUBSET Counterparts(cur)
    BY DEF Reconciled, Visible
  <2>4. TargetType' /\ WriteAhead'
    BY <1>0, <1>3, <2>2, <2>3, AlignSafe, WriteAheadKept DEF AdoptConflicting, TargetType
  <2> QED
    BY <1>0, <1>3, <2>1, <2>2, <2>4, MovingStep
       DEF AdoptConflicting, JournalType, LedgerType, CacheType
<1>4. CASE Refused
  <2>1. failedParents' \subseteq Idents /\ salvageRound' \in Seq(Acts)
    BY <1>0, <1>a, <1>b, <1>4, PoisonType DEF Refused, Fail
  <2> QED
    BY <1>0, <1>a, <1>b, <1>4, <2>1, SettlingStep, WriteAheadKept, SettleType
       DEF Refused, Fail, Settle, JournalType, TargetType, LedgerType, CacheType, Outcomes
<1>5. CASE SkipRefused
  BY <1>0, <1>a, <1>b, <1>5, SettlingStep, WriteAheadKept, SettleType
     DEF SkipRefused, Settle, JournalType, TargetType, LedgerType, CacheType, Outcomes
<1>6. CASE Throttled
  <2>1. throttled' \in Seq(Acts)
    <3>1. throttled' = throttled \/ throttled' = Append(throttled, cur)
      BY <1>6, Zenon DEF Throttled
    <3> QED
      BY <1>a, <1>b, <3>1
  <2>2. tries' \in [Acts -> Nat]
    BY <1>a, <1>6 DEF Throttled, LedgerType
  <2>3. /\ Advance
        /\ failedParents' \subseteq Idents
        /\ outcome' \in [Acts -> Outcomes]
    BY <1>0, <1>a, <1>6, PoisonType, SettleType
       DEF Throttled, Fail, Settle, Outcomes, LedgerType
  <2> QED
    BY <1>0, <1>b, <1>6, <2>1, <2>2, <2>3, SettlingStep, WriteAheadKept
       DEF Throttled, JournalType, TargetType, LedgerType, CacheType
<1>7. CASE CallFailed
  <2>1. failedParents' \subseteq Idents
    BY <1>0, <1>7, PoisonType DEF CallFailed, Fail
  <2> QED
    BY <1>0, <1>a, <1>b, <1>7, <2>1, SettlingStep, WriteAheadKept, SettleType
       DEF CallFailed, Fail, Settle, JournalType, TargetType, LedgerType, CacheType,
           Outcomes
<1>8. CASE SalvageStands
  BY <1>0, <1>b, <1>8, SettlingStep, WriteAheadKept
     DEF SalvageStands, JournalType, TargetType, LedgerType, CacheType
<1> QED
  BY <1>1, <1>2, <1>3, <1>4, <1>5, <1>6, <1>7, <1>8 DEF Respond

LEMMA RecordSafe ==
  ASSUME SafeInv, RecordMapping \/ RecordDone
  PROVE  SafeInv'
<1> USE DEF SafeInv, TypeOK
<1>0. todo # <<>>
  BY DEF Working, RecordMapping, RecordDone
<1>a. /\ cur \in Acts
      /\ Attr[cur].path \subseteq Idents
      /\ Mints(cur) => Attr[cur].own \in Idents
      /\ Creates(cur) => Attr[cur].own \in Idents
  BY <1>0, CurrentAction DEF AttrType
<1>b. deferred \in Seq(Acts) /\ throttled \in Seq(Acts) /\ salvageRound \in Seq(Acts)
  BY DEF QueueType
<1> USE DEF journal, target, ledger, retries, bounds
<1>1. CASE RecordMapping
  <2>1. newId \in Ids \cup {NoId} /\ newId' = newId /\ fresh' \in BOOLEAN
    BY <1>1 DEF RecordMapping, local, ControlType
  <2>2. newId # NoId => Creates(cur) /\ Row(cur, newId) \in Rows
    BY <1>a, <2>1 DEF IdInHand, Row, Rows
  <2>3. JournalType'
    BY <1>1, <2>2 DEF RecordMapping, JournalType
  <2> QED
    BY <1>0, <1>1, <2>1, <2>2, <2>3, MovingStep, WriteAheadKept
       DEF RecordMapping, TargetType, LedgerType, CacheType
<1>2. CASE RecordDone
  <2>1. /\ unclaimed' \subseteq Idents
        /\ minted' \subseteq Idents
        /\ failedParents' \subseteq Idents
    BY <1>a, <1>2 DEF RecordDone, LedgerType
  <2>2. completed' \subseteq Acts
    BY <1>a, <1>2 DEF RecordDone, JournalType
  <2> QED
    BY <1>0, <1>a, <1>b, <1>2, <2>1, <2>2, SettlingStep, WriteAheadKept, SettleType
       DEF RecordDone, Settle, JournalType, TargetType, LedgerType, CacheType, Outcomes
<1> QED
  BY <1>1, <1>2

\* Between the rounds: deferred and throttled actions queue up again, or the
\* refused ones do.
LEMMA RoundSafe ==
  ASSUME SafeInv, NextRound \/ EndOfRounds
  PROVE  SafeInv'
<1> USE DEF SafeInv, TypeOK
<1>b. /\ deferred \in Seq(Acts) /\ throttled \in Seq(Acts) /\ salvageRound \in Seq(Acts)
      /\ Len(deferred) \in Nat /\ Len(throttled) \in Nat
      /\ <<>> \in Seq(Acts)
  BY LenProperties, EmptySeq DEF QueueType
<1>c. Members(deferred) \subseteq Acts
  BY <1>b, ElementOfSeq DEF Members
<1>d. newId' = NoId /\ pc' # "call"
  BY DEF NextRound, EndOfRounds, local, IdInHand
<1> USE DEF journal, target, ledger, retries, bounds, local
<1>1. CASE NextRound
  <2>1. todo' \in Seq(Acts) /\ todo' # <<>>
    BY <1>b, <1>1, ConcatProperties, ConcatEqualIffEmpty DEF NextRound, Idle
  <2>2. QueueType' /\ Working'
    BY <1>b, <1>1, <2>1 DEF NextRound, QueueType, Working
  <2>3. dropRetry' \subseteq Acts
    BY <1>c, <1>1 DEF NextRound, NotYetDropped, LedgerType
  <2>4. LedgerType'
    BY <1>1, <2>3 DEF NextRound, LedgerType
  <2>5. JournalType' /\ TargetType' /\ ControlType' /\ CacheType' /\ BoundType'
    BY <1>1 DEF NextRound, JournalType, TargetType, ControlType, CacheType, BoundType
  <2> QED
    BY <1>d, <1>1, <2>2, <2>4, <2>5, WriteAheadKept DEF NextRound, IdInHand, CallJournaled
<1>2. CASE EndOfRounds
  <2>1. QueueType' /\ Working'
    BY <1>b, <1>2 DEF EndOfRounds, QueueType, Working
  <2>2. outcome' \in [Acts -> Outcomes]
    BY <1>2 DEF EndOfRounds, LedgerType, Outcomes
  <2>3. LedgerType'
    BY <1>2, <2>2 DEF EndOfRounds, LedgerType
  <2>4. JournalType' /\ TargetType' /\ ControlType' /\ CacheType' /\ BoundType'
    BY <1>2 DEF EndOfRounds, JournalType, TargetType, ControlType, CacheType, BoundType
  <2> QED
    BY <1>d, <1>2, <2>1, <2>3, <2>4, WriteAheadKept
       DEF EndOfRounds, IdInHand, CallJournaled
<1> QED
  BY <1>1, <1>2

\* A process that starts or dies keeps the files and loses the rest.
LEMMA ProcessSafe ==
  ASSUME SafeInv, Start \/ Crash
  PROVE  SafeInv'
<1> USE DEF SafeInv, TypeOK
<1>1. \A a \in Claims : Attr[a].own \in Idents
  BY AttrAssumption DEF Claims
<1>2. /\ FreshLocals("take") \/ FreshLocals("down")
      /\ UNCHANGED <<journal, target, envs>>
  BY DEF Start, Crash
<1>3. Plan \in Seq(Acts) /\ Plan # <<>> /\ <<>> \in Seq(Acts) /\ Len(Plan) \in Nat
  BY PlanAssumption, LenProperties, EmptySeq
<1>4. QueueType'
  BY <1>2, <1>3 DEF FreshLocals, QueueType
<1>5. unclaimed' \subseteq Idents
  BY <1>1, <1>2 DEF FreshLocals
<1>6. LedgerType'
  <2>1. /\ failedParents' = {} /\ skippedParents' = {} /\ minted' = {} /\ dropRetry' = {}
        /\ tries' = [a \in Acts |-> 0]
        /\ outcome' = [a \in Acts |-> "none"]
    BY <1>2, Zenon DEF FreshLocals
  <2> QED
    BY <1>5, <2>1 DEF LedgerType, Outcomes
<1>7. ControlType' /\ CacheType'
  <2>1. /\ pc' \in {"take", "down"} /\ phase' = "main"
        /\ newId' = NoId /\ ~fresh' /\ probeCache' = {}
    BY <1>2, Zenon DEF FreshLocals
  <2>2. fresh' \in BOOLEAN
    BY <1>2, Zenon DEF FreshLocals
  <2> QED
    BY <2>1, <2>2 DEF ControlType, CacheType
<1>8. JournalType' /\ TargetType'
  BY <1>2 DEF journal, target, JournalType, TargetType
<1>9. BoundType'
  <2>1. /\ runs' \in {runs, runs + 1} /\ (runs' = runs \/ runs < MaxRuns)
        /\ crashes' \in {crashes, crashes + 1} /\ (crashes' = crashes \/ crashes < MaxCrashes)
        /\ envs' = envs
    BY DEF Start, Crash
  <2> QED
    BY <2>1, ConstAssumption DEF BoundType
<1>10. Working' /\ IdInHand' /\ CallJournaled'
  BY <1>2, <1>3 DEF FreshLocals, Working, IdInHand, CallJournaled
<1> QED
  BY <1>2, <1>4, <1>6, <1>7, <1>8, <1>9, <1>10, WriteAheadKept DEF journal, target

\* What other people delete or recreate was not written by the executor.
LEMMA OthersSafe ==
  ASSUME SafeInv, Incident \/ ByHand
  PROVE  SafeInv'
<1> USE DEF SafeInv, TypeOK, rounds, journal, ledger, retries, local
<1>1. QueueType' /\ LedgerType' /\ ControlType' /\ CacheType' /\ JournalType'
  BY DEF Incident, ByHand, QueueType, LedgerType, ControlType, CacheType, JournalType
<1>2. BoundType'
  BY ConstAssumption DEF Incident, ByHand, BoundType
<1>3. Working' /\ IdInHand' /\ CallJournaled'
  BY DEF Incident, ByHand, Working, IdInHand, CallJournaled, cur, Creates
<1>4. CASE Incident
  <2>1. live' \subseteq live /\ nextId' = nextId
    BY <1>4 DEF Incident
  <2> QED
    BY <1>1, <1>2, <1>3, <1>4, <2>1, WriteAheadKept DEF Incident, TargetType
<1>5. CASE ByHand
  <2> DEFINE made(a, scope) == [for |-> a, id |-> AssignedId(a, nextId), in |-> scope,
                                body |-> "operator", full |-> TRUE]
  <2>0. PICK a \in Acts : \E scope \in Placements(a) : live' = live \cup {made(a, scope)}
    BY <1>5 DEF ByHand
  <2>1. PICK scope \in Placements(a) : live' = live \cup {made(a, scope)}
    BY <2>0
  <2>2. scope \subseteq Ids
    BY DEF Placements, TargetType, Objects
  <2>3. made(a, scope) \in Objects /\ made(a, scope).body = "operator"
    BY <2>2 DEF Objects, AssignedId, TargetType, Ids, SameId
  <2> HIDE DEF made
  <2>4. TargetType'
    BY <1>5, <2>1, <2>3 DEF ByHand, TargetType
  <2>5. WriteAhead'
    BY <1>5, <2>1, <2>3 DEF ByHand, WriteAhead, Creates
  <2> QED
    BY <1>1, <1>2, <1>3, <2>4, <2>5
<1> QED
  BY <1>4, <1>5

-----------------------------------------------------------------------------
(* The theorems.                                                           *)

LEMMA InitSafe == Init => SafeInv
<1> SUFFICES ASSUME Init PROVE SafeInv
  OBVIOUS
<1>1. Plan \in Seq(Acts) /\ Plan # <<>> /\ <<>> \in Seq(Acts) /\ Len(Plan) \in Nat
  BY PlanAssumption, LenProperties, EmptySeq
<1>2. QueueType
  BY <1>1 DEF Init, QueueType
<1>3. \A a \in Claims : Attr[a].own \in Idents
  BY AttrAssumption DEF Claims
<1>4. LedgerType
  BY <1>3 DEF Init, LedgerType, Outcomes
<1>5. TargetType /\ WriteAhead
  <2> DEFINE survivor(a) == [for |-> a, id |-> SameId,
                             in |-> IF ScopeIdents(a) = {} THEN {} ELSE {SameId},
                             body |-> "operator", full |-> TRUE]
  <2>1. live = {survivor(a) : a \in Survivors} /\ nextId = 1
    BY DEF Init
  <2>2. \A a \in Survivors : survivor(a) \in Objects /\ survivor(a).body = "operator"
    BY ConstAssumption DEF Objects, Ids, SameId
  <2> HIDE DEF survivor
  <2> QED
    BY <2>1, <2>2 DEF TargetType, WriteAhead
<1>6. JournalType /\ CacheType /\ BoundType
  BY ConstAssumption DEF Init, JournalType, CacheType, BoundType
<1>8. ControlType
  <2>1. pc = "down" /\ phase = "main" /\ newId = NoId
    BY Zenon DEF Init
  <2>2. fresh \in BOOLEAN
    BY Zenon DEF Init
  <2> QED
    BY <2>1, <2>2 DEF ControlType
<1>7. Working /\ IdInHand /\ CallJournaled
  BY <1>1 DEF Init, Working, IdInHand, CallJournaled
<1> QED
  BY <1>2, <1>4, <1>5, <1>6, <1>7, <1>8 DEF SafeInv, TypeOK

LEMMA StepSafe == SafeInv /\ [Next]_vars => SafeInv'
<1> SUFFICES ASSUME SafeInv, [Next]_vars PROVE SafeInv'
  OBVIOUS
<1>1. CASE Guard \/ Send \/ Respond
  BY <1>1, GuardSafe, SendSafe, RespondSafe
<1>2. CASE Settling
  BY <1>2, RecordSafe, RoundSafe DEF Settling
<1>3. CASE Start \/ Crash \/ Incident \/ ByHand
  BY <1>3, ProcessSafe, OthersSafe
<1>4. CASE UNCHANGED vars
  BY <1>4
     DEF vars, journal, target, rounds, ledger, retries, local, bounds, SafeInv, TypeOK,
         JournalType, TargetType, ControlType, QueueType, LedgerType, CacheType, BoundType,
         Working, IdInHand, CallJournaled, WriteAhead, Creates, cur
<1> QED
  BY <1>1, <1>2, <1>3, <1>4 DEF Next, Step

\* The inductive invariant of the executor.
THEOREM SafeInvHolds == Spec => []SafeInv
  BY InitSafe, StepSafe, PTL DEF Spec

\* The state keeps its type: whatever the plan and the faults, an ID in a
\* mapping is an ID, a queue holds planned actions, a verdict is a verdict.
THEOREM TypeCorrect == Spec => []TypeOK
<1>1. SafeInv => TypeOK
  BY DEF SafeInv
<1> QED
  BY <1>1, SafeInvHolds, PTL

\* The journal's attempt record is ahead of the target at every instant: an
\* object the executor created is never unknown to the next run.
THEOREM JournalIsWriteAhead == Spec => []WriteAhead
<1>1. SafeInv => WriteAhead
  BY DEF SafeInv
<1> QED
  BY <1>1, SafeInvHolds, PTL

=============================================================================

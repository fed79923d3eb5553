--------------------------- MODULE DiscoveryProofs ---------------------------
(***************************************************************************)
(* What a discovery sweep keeps for any calls, any number of workers, any  *)
(* rates, and any number of runs, stops and kills, in either format of the *)
(* checkpoint: its records are answers, a finished graph is whole, and     *)
(* resuming changes neither it nor the tally.                              *)
(*                                                                         *)
(* The file is first (Sound: every record in it is an answer): writing,    *)
(* tearing and closing keep it so, and what is read back from it is its    *)
(* records.  Then the sweep: what a job holds is an answer unless the      *)
(* sweep is aborting (Jobs), an aborting sweep never gathers again         *)
(* (Courses), and what is gathered, level by level, is what the jobs hold  *)
(* (Gatherings).                                                           *)
(***************************************************************************)
EXTENDS Discovery, SequenceTheorems, WellFoundedInduction, TLAPS

-----------------------------------------------------------------------------
(* The file.                                                               *)

Ends == {"whole", "fragment", "unended"}

\* A line that is no record, or the record of an answer.
Fit(l, answers) == l \in Lines /\ (l.what = "record" => <<l.call, l.kind>> \in answers)

Sound(f, answers) ==
  /\ f \in [lines : Seq(Lines), end : Ends]
  /\ \A i \in 1 .. Len(f.lines) : Fit(f.lines[i], answers)

LEMMA MarksFit ==
  ASSUME NEW answers
  PROVE  Fit(Torn, answers) /\ Fit(Junction, answers) /\ Fit(Header, answers)
BY DEF Fit, Lines, Torn, Junction, Header, Mark

LEMMA RecordsFit ==
  ASSUME NEW answers, NEW c \in Calls, NEW k \in Outcomes, <<c, k>> \in answers
  PROVE  Fit(Record(c, k), answers)
BY DEF Fit, Lines, Record

LEMMA AppendedSound ==
  ASSUME NEW answers, NEW f, Sound(f, answers), NEW line, Fit(line, answers)
  PROVE  Sound(Appended(f, line), answers)
<1>1. /\ f = [lines |-> f.lines, end |-> f.end]
      /\ f.lines \in Seq(Lines) /\ f.end \in Ends
      /\ line \in Lines /\ Torn \in Lines /\ Junction \in Lines
  BY MarksFit DEF Sound, Fit
<1>2. CASE f.end = "whole"
  <2>1. Appended(f, line) = [lines |-> Append(f.lines, line), end |-> f.end]
    BY <1>1, <1>2 DEF Appended, Sound
  <2>2. \A i \in 1 .. Len(Append(f.lines, line)) :
          Fit(Append(f.lines, line)[i], answers)
    BY <1>1 DEF Sound
  <2> QED BY <1>1, <2>1, <2>2 DEF Sound
<1>3. CASE f.end # "whole" /\ Gzip
  <2>1. Appended(f, line) = [lines |-> Append(f.lines, Junction), end |-> "whole"]
    BY <1>3 DEF Appended
  <2>2. \A i \in 1 .. Len(Append(f.lines, Junction)) :
          Fit(Append(f.lines, Junction)[i], answers)
    BY <1>1, MarksFit DEF Sound
  <2> QED BY <1>1, <2>1, <2>2 DEF Sound, Ends
<1>4. CASE f.end # "whole" /\ ~Gzip
  <2> DEFINE cut == [f.lines EXCEPT ![Len(f.lines)] = Torn]
  <2>1. Appended(f, line) = [lines |-> cut, end |-> "whole"]
    BY <1>4 DEF Appended
  <2>2. CASE f.lines = <<>>
    <3>1. DOMAIN f.lines = {}
      BY <2>2
    <3>2. DOMAIN cut = {} /\ cut = [i \in DOMAIN cut |-> cut[i]]
      BY <3>1
    <3>3. cut = <<>>
      BY <3>2
    <3>4. Appended(f, line) = [lines |-> <<>>, end |-> "whole"]
      BY <2>1, <3>3
    <3> QED BY <3>4 DEF Sound, Ends
  <2>3. CASE f.lines # <<>>
    <3>1. /\ cut \in Seq(Lines) /\ Len(cut) = Len(f.lines)
          /\ \A i \in 1 .. Len(cut) : cut[i] = IF i = Len(f.lines) THEN Torn ELSE f.lines[i]
      BY <1>1, <2>3, ExceptSeq
    <3>2. \A i \in 1 .. Len(cut) : Fit(cut[i], answers)
      BY <1>1, <3>1, MarksFit DEF Sound
    <3> QED BY <2>1, <3>1, <3>2 DEF Sound, Ends
  <2> QED BY <2>2, <2>3
<1> QED BY <1>2, <1>3, <1>4

LEMMA KilledSound ==
  ASSUME NEW answers, Sound(file, answers)
  PROVE  Sound(Killed(file), answers)
BY DEF Killed, Sound, Ends

LEMMA ClosedSound ==
  ASSUME NEW answers, Sound(file, answers)
  PROVE  Sound(Closed(file), answers)
BY AppendedSound, MarksFit DEF Closed

\* A kill in the middle of a line leaves a sound file too.
LEMMA CutShortSound ==
  ASSUME NEW answers, Sound(file, answers), NEW line, Fit(line, answers),
         NEW f \in CutShort(file, line)
  PROVE  Sound(f, answers)
<1>1. Sound(Appended(file, line), answers) /\ Sound(Appended(file, Torn), answers)
  BY AppendedSound, MarksFit
<1> HIDE DEF Torn
<1> QED BY <1>1, KilledSound DEF CutShort, Sound, Ends

LEMMA MoreAnswers ==
  ASSUME NEW answers, NEW more, answers \subseteq more, NEW f, Sound(f, answers)
  PROVE  Sound(f, more)
BY DEF Sound, Fit

-----------------------------------------------------------------------------
(* Reading it back.                                                        *)

\* A set of numbers has a least one, and one under a bound a largest one.
LEMMA Least ==
  ASSUME NEW S \in SUBSET Nat, S # {}
  PROVE  Min(S) \in S /\ \A j \in S : Min(S) <= j
<1> DEFINE R == {ss \in Nat \X Nat : ss[1] < ss[2]}
<1>1. IsWellFoundedOn(R, Nat)
  BY NatLessThanWellFounded DEF OpToRel
<1> HIDE DEF R
<1>2. PICK i \in S : \A j \in S : ~(<<j, i>> \in R)
  BY <1>1, WFMin
<1>3. ASSUME NEW j \in S
      PROVE  i <= j
  <2>1. i \in Nat /\ j \in Nat /\ ~(<<j, i>> \in R)
    BY <1>2, <1>3
  <2> QED BY <2>1 DEF R
<1> QED BY <1>3 DEF Min

LEMMA Largest ==
  ASSUME NEW n \in Nat, NEW S \in SUBSET (1 .. n), S # {}
  PROVE  Max(S) \in S
<1> DEFINE T == {n - i : i \in S}
<1>1. T \in SUBSET Nat /\ T # {}
  <2>1. \A i \in S : n - i \in Nat
    OBVIOUS
  <2>2. PICK i \in S : TRUE
    OBVIOUS
  <2>3. n - i \in T
    OBVIOUS
  <2> QED BY <2>1, <2>3
<1>2. PICK i \in S : n - i = Min(T)
  BY <1>1, Least
<1>3. \A j \in S : n - i <= n - j
  BY <1>1, <1>2, Least
<1>4. \A j \in S : i >= j
  BY <1>3
<1> QED BY <1>4 DEF Max

\* What is read is the beginning of the file.
LEMMA ReadingsSound ==
  ASSUME NEW answers, Sound(file, answers), NEW lines \in Readings(file)
  PROVE  /\ lines \in Seq(Lines)
         /\ \A i \in 1 .. Len(lines) : Fit(lines[i], answers)
<1> DEFINE all == file.lines
           bad == {i \in 1 .. Len(all) : all[i] \in {Torn, Junction}}
           cut == IF bad # {} THEN Min(bad) ELSE 0
           intact == IF cut = 0 THEN all ELSE SubSeq(all, 1, cut - 1)
<1>1. all \in Seq(Lines) /\ \A i \in 1 .. Len(all) : Fit(all[i], answers)
  BY DEF Sound
<1>2. Intact(file) = intact
  BY DEF Intact, SelectInSeq
<1>3. cut \in 0 .. Len(all)
  <2>1. bad \in SUBSET Nat /\ bad \subseteq 0 .. Len(all) /\ Len(all) \in Nat
    BY <1>1
  <2> HIDE DEF bad
  <2>2. CASE bad # {}
    BY <2>1, <2>2, Least
  <2> QED BY <2>1, <2>2
<1> HIDE DEF cut, bad
<1>4. /\ intact \in Seq(Lines)
      /\ \A i \in 1 .. Len(intact) : Fit(intact[i], answers)
  BY <1>1, <1>3
<1> HIDE DEF intact
<1>5. CASE lines = intact
  BY <1>4, <1>5
<1>6. ASSUME NEW n \in 0 .. Len(intact), lines = SubSeq(intact, 1, n)
      PROVE  /\ lines \in Seq(Lines)
             /\ \A i \in 1 .. Len(lines) : Fit(lines[i], answers)
  BY <1>4, <1>6
<1>7. lines = intact \/ \E n \in 0 .. Len(intact) : lines = SubSeq(intact, 1, n)
  BY <1>2 DEF Readings
<1> QED BY <1>5, <1>6, <1>7

\* What is resumed is in the file.
LEMMA CompletedSound ==
  ASSUME NEW answers, NEW lines \in Seq(Lines), NEW c \in Calls,
         \A i \in 1 .. Len(lines) : Fit(lines[i], answers)
  PROVE  \/ Completed(lines)[c] = "none"
         \/ Completed(lines)[c] \in Outcomes /\ <<c, Completed(lines)[c]>> \in answers
<1> DEFINE own == {i \in 1 .. Len(lines) : lines[i].call = c}
<1>1. Completed(lines)[c] = IF own = {} \/ Max(own) = 0 THEN "none" ELSE lines[Max(own)].kind
  BY DEF Completed, SelectLastInSeq
<1>2. CASE own = {}
  BY <1>1, <1>2
<1>3. CASE own # {}
  <2>1. PICK i \in own : i = Max(own)
    <3>1. own \in SUBSET (1 .. Len(lines)) /\ Len(lines) \in Nat
      OBVIOUS
    <3> HIDE DEF own
    <3> QED BY <1>3, <3>1, Largest
  <2>2. lines[i] \in Lines /\ lines[i].call = c /\ Fit(lines[i], answers)
    BY <2>1
  <2>3. PICK k \in Outcomes : lines[i] = Record(c, k)
    BY <2>2, CheckpointAssumption DEF Lines, Torn, Junction, Header, Mark, Record
  <2>4. lines[i].kind = k /\ <<c, k>> \in answers
    BY <2>2, <2>3 DEF Fit, Record
  <2>5. i # 0
    BY <2>1
  <2> HIDE DEF own
  <2> QED BY <1>1, <1>3, <2>1, <2>4, <2>5
<1> QED BY <1>2, <1>3

-----------------------------------------------------------------------------
(* The rate limiter.                                                       *)

\* A faster rate has shorter slots.
LEMMA SlotsShrink ==
  ASSUME NEW r \in MinRate .. MaxRate
  PROVE  Span \div r \in 0 .. Span \div MinRate
<1> DEFINE q == Span \div r
           p == Span \div MinRate
<1>1. /\ r \in Nat \ {0} /\ MinRate \in Nat \ {0} /\ MinRate <= r /\ Span \in Nat
  BY BucketAssumption
<1>2. q \in Nat /\ r * q <= Span
  BY <1>1, Z3
<1>3. p \in Nat /\ Span < MinRate * (p + 1)
  BY <1>1, Z3
<1> HIDE DEF q, p
<1>4. ASSUME p + 1 <= q
      PROVE  FALSE
  <2>1. MinRate * (p + 1) <= MinRate * q
    BY <1>1, <1>2, <1>3, <1>4, Z3
  <2>2. MinRate * q <= r * q
    BY <1>1, <1>2, Z3
  <2> QED BY <1>1, <1>2, <1>3, <2>1, <2>2
<1>5. q <= p
  BY <1>2, <1>3, <1>4
<1> QED BY <1>2, <1>3, <1>5 DEF q, p

LEMMA BucketKept ==
  ASSUME BucketType, Acquire \/ OnSuccess \/ OnThrottle \/ Tick \/ RenewBucket
                       \/ UNCHANGED bucket
  PROVE  BucketType'
<1> USE BucketAssumption DEF BucketType, Larger, Smaller
<1>1. CASE Acquire
  BY <1>1, SlotsShrink DEF Acquire
<1>2. CASE OnSuccess
  BY <1>2 DEF OnSuccess, Raised
<1>3. CASE OnThrottle
  BY <1>3 DEF OnThrottle, Halved
<1>4. CASE Tick
  BY <1>4 DEF Tick
<1>5. CASE RenewBucket
  BY <1>5, SlotsShrink DEF RenewBucket
<1>6. CASE UNCHANGED bucket
  BY <1>6 DEF bucket
<1> QED BY <1>1, <1>2, <1>3, <1>4, <1>5, <1>6

-----------------------------------------------------------------------------
(* The sweep.                                                              *)

Tallied(kind) == IF kind = "unreadable" THEN "none" ELSE kind

\* The file and what was read from it are answers.
Kept ==
  /\ Sound(file, answered)
  /\ \A c \in Calls : loaded[c] # "none" => <<c, loaded[c]>> \in answered

\* A job holds an answer and has tallied it, unless the sweep is aborting.
Jobs ==
  \A c \in Calls :
    /\ jobs[c] \in {"idle", "queued", "pacing", "calling"} => tally[c] = "none"
    /\ jobs[c] \in {"answered", "ok"} =>
         \/ answer[c] = "skipped" /\ abort
         \/ <<c, answer[c]>> \in answered /\ tally[c] = Tallied(answer[c])

\* A job that has not given up may be throttled once more.
Budgets == \A c \in Calls : jobs[c] # "failed" => attempts[c] < MaxThrottle

\* An aborting sweep submits and gathers no more, and a level is submitted
\* once.
Courses ==
  /\ pc \in {"header", "list", "level", "gather"} => ~abort
  /\ pc \in {"header", "list"} => level = 1
  /\ pc \in {"header", "list", "level"} =>
       \A c \in Calls : jobs[c] # "idle" => Level[c] < level
  /\ pc = "gather" =>
       /\ level <= Depth
       /\ \A c \in Calls : jobs[c] # "idle" => Level[c] <= level

\* What is gathered is what the jobs hold, and of a level that was swept
\* nothing is left out.
Gatherings ==
  /\ \A c \in Calls :
       graph[c] # "none" => jobs[c] = "ok" /\ graph[c] = answer[c] /\ graph[c] # "skipped"
  /\ pc \in {"level", "gather", "finished"} =>
       \A c \in Calls : Due(c) /\ Level[c] < level => graph[c] # "none"
  /\ pc = "gather" =>
       /\ waiting \subseteq Items(level)
       /\ \A c \in Items(level) \ waiting : graph[c] # "none"
  /\ pc = "finished" => level > Depth

SweepInv == TypeOK /\ Kept /\ Jobs /\ Budgets /\ Courses /\ Gatherings

LEMMA SweepStarts == Init => SweepInv
<1> SUFFICES ASSUME Init PROVE SweepInv
  OBVIOUS
<1> USE BucketAssumption, DiscoveryAssumption DEF Init
<1>1. file \in [lines : Seq(Lines), end : Ends] /\ Len(file.lines) = 0
  BY DEF NoFile, Ends
<1>2. TypeOK
  <2>1. BucketType
    BY DEF FreshBucket, BucketType
  <2>2. CheckpointType
    BY <1>1 DEF CheckpointType, Ends, NothingLoaded
  <2>3. /\ jobs \in [Calls -> JobStates] /\ attempts \in [Calls -> 0 .. MaxThrottle]
    BY DEF JobStates
  <2>4. /\ answer \in [Calls -> Outcomes \cup {"none", "skipped"}]
        /\ graph \in [Calls -> Outcomes \cup {"none", "skipped"}]
        /\ tally \in [Calls -> {"none", "payload", "refused"}]
    BY DEF None
  <2>5. /\ pc \in Main /\ level \in 1 .. Depth + 1 /\ waiting \subseteq Calls
        /\ answered \subseteq Calls \X Outcomes /\ recorded \subseteq Calls \X Outcomes
    BY DEF Main
  <2>6. abort \in BOOLEAN
    BY Zenon
  <2> HIDE DEF Init
  <2> QED BY <2>1, <2>2, <2>3, <2>4, <2>5, <2>6 DEF TypeOK
<1>3. Kept
  BY <1>1 DEF Kept, Sound, NothingLoaded
<1>4. Jobs /\ Budgets
  BY DEF Jobs, Budgets, None
<1>5. Courses /\ Gatherings
  BY DEF Courses, Gatherings, None
<1> QED BY <1>2, <1>3, <1>4, <1>5 DEF SweepInv

\* A pass begins with nothing.
LEMMA FreshKeeps ==
  ASSUME SweepInv, FreshPass
  PROVE  /\ BucketType' /\ Jobs' /\ Budgets'
         /\ jobs' = [c \in Calls |-> "idle"] /\ answer' = None /\ graph' = None
         /\ tally' = None /\ attempts' \in [Calls -> 0 .. MaxThrottle]
         /\ level' = 1 /\ waiting' = {} /\ abort' = FALSE
<1>1. BucketType'
  BY BucketKept DEF SweepInv, TypeOK, FreshPass
<1>2. Jobs' /\ Budgets'
  BY DiscoveryAssumption DEF FreshPass, Jobs, Budgets, None
<1> QED BY <1>1, <1>2, DiscoveryAssumption DEF FreshPass

-----------------------------------------------------------------------------
(* TypeOK.                                                                 *)

LEMMA TypesKept ==
  ASSUME SweepInv, Kept', [Next]_vars
  PROVE  TypeOK'
<1> USE DEF TypeOK, Main, JobStates, Outcomes
<1>0. /\ TypeOK /\ Kept /\ Jobs /\ Budgets /\ Courses /\ Gatherings
      /\ file'.lines \in Seq(Lines) /\ file'.end \in Ends
  BY DEF SweepInv, Kept, Sound
<1> USE <1>0 DEF CheckpointType, Ends
<1>b. UNCHANGED bucket => BucketType'
  BY BucketKept
<1>d. Depth \in Nat
  BY DiscoveryAssumption
<1>1. CASE UNCHANGED vars
  BY <1>1, <1>b DEF vars, checkpoint, pool, gathered, observed
<1>2. CASE Start
  <2>1. \/ UNCHANGED checkpoint
        \/ \E lines \in Readings(file) : Resume(lines) \/ Begin
    BY <1>2 DEF Start
  <2>2. loaded' \in [Calls -> Outcomes \cup {"none"}] /\ written' \in BOOLEAN
    <3>1. CASE UNCHANGED checkpoint
      BY <3>1 DEF checkpoint
    <3>2. ASSUME NEW lines \in Readings(file), Resume(lines)
          PROVE  loaded' \in [Calls -> Outcomes \cup {"none"}] /\ written' \in BOOLEAN
      <4>1. \A c \in Calls : Completed(lines)[c] \in Outcomes \cup {"none"}
        BY ReadingsSound, CompletedSound DEF Kept
      <4> QED BY <3>2, <4>1 DEF Resume, Completed
    <3>3. CASE Begin
      BY <3>3 DEF Begin, NothingLoaded
    <3> QED BY <2>1, <3>1, <3>2, <3>3
  <2>3. FreshPass /\ pc' \in Main /\ UNCHANGED observed
    BY <1>2 DEF Start
  <2> QED BY <2>2, <2>3, <1>d, FreshKeeps DEF observed, None
<1>3. CASE OpenNew
  BY <1>3, <1>b DEF OpenNew, WriteHeader, pool, gathered, observed
<1>4. CASE List
  BY <1>4, <1>b DEF List, checkpoint, pool, gathered, observed
<1>5. CASE Submit
  BY <1>5, <1>b, <1>d DEF Submit, Items, checkpoint, observed
<1>6. CASE Gather
  <2>1. PICK c \in Calls :
          \/ jobs[c] = "ok" /\ Gathered(c, answer[c])
          \/ abort' = TRUE /\ pc' = "cancel" /\ UNCHANGED gathered
    BY <1>6 DEF Gather
  <2>2. level' \in 1 .. Depth + 1 /\ pc' \in Main /\ waiting' \subseteq Calls
    BY <1>6, <1>d, <2>1 DEF Gather, Gathered, Courses, gathered
  <2>3. graph' \in [Calls -> Outcomes \cup {"none", "skipped"}] /\ abort' \in BOOLEAN
    BY <2>1 DEF Gathered, gathered
  <2> QED BY <1>6, <1>b, <2>2, <2>3 DEF Gather, checkpoint, observed
<1>7. CASE CancelAll
  BY <1>7, <1>b DEF CancelAll, checkpoint, gathered, observed
<1>8. CASE Drained
  BY <1>8, <1>b DEF Drained, checkpoint, pool, gathered, observed
<1>9. CASE CloseKept
  BY <1>9, <1>b DEF CloseKept, Close, Forgotten, NothingLoaded, pool, gathered, observed
<1>10. CASE Finish
  BY <1>10, <1>b DEF Finish, Complete, Forgotten, NothingLoaded, pool, gathered
<1>11. ASSUME NEW c \in Calls, Work(c)
       PROVE  TypeOK'
  <2> USE DEF checkpoint, pool, gathered, observed
  <2>1. CASE Replay(c)
    BY <2>1, <1>b DEF Replay
  <2>2. CASE Take(c)
    BY <2>2, <1>b DEF Take, Loop
  <2>3. CASE Dispatch(c)
    <3>1. BucketType'
      BY <2>3, BucketKept DEF Dispatch
    <3> QED BY <2>3, <3>1 DEF Dispatch
  <2>4. CASE Settle(c)
    <3>1. jobs[c] = "answered"
      BY <2>4 DEF Settle
    <3>2. answer[c] \in Outcomes \/ (answer[c] = "skipped" /\ abort)
      BY <3>1 DEF Jobs
    <3>3. CASE UNCHANGED <<checkpoint, recorded>>
      BY <2>4, <1>b, <3>3 DEF Settle
    <3>4. CASE Note(c, answer[c]) /\ recorded' = recorded \cup {<<c, answer[c]>>}
                 /\ answer[c] \in Outcomes
      BY <2>4, <1>b, <3>4 DEF Settle, Note
    <3> QED BY <2>4, <3>2, <3>3, <3>4 DEF Settle
  <2>5. CASE Payload(c)
    <3>1. BucketType'
      BY <2>5, BucketKept DEF Payload
    <3> QED BY <2>5, <3>1 DEF Payload, Answered
  <2>6. CASE Refusal(c)
    BY <2>6, <1>b DEF Refusal, Answered
  <2>7. CASE Unreadable(c)
    <3>1. BucketType'
      BY <2>7, BucketKept DEF Unreadable
    <3> QED BY <2>7, <3>1 DEF Unreadable, Answered
  <2>8. CASE Throttled(c)
    <3>1. BucketType'
      BY <2>8, BucketKept DEF Throttled
    <3>2. attempts[c] + 1 \in 0 .. MaxThrottle
      <4>1. attempts[c] < MaxThrottle /\ attempts[c] \in Nat /\ MaxThrottle \in Nat
        <5>1. jobs[c] = "calling"
          BY <2>8 DEF Throttled
        <5>2. attempts[c] \in 0 .. MaxThrottle /\ MaxThrottle \in Nat
          BY DiscoveryAssumption
        <5> QED BY <5>1, <5>2 DEF Budgets
      <4> QED BY <4>1
    <3>3. attempts' \in [Calls -> 0 .. MaxThrottle]
      BY <2>8, <3>2 DEF Throttled
    <3> QED BY <2>8, <3>1, <3>3, ZenonT(40) DEF Throttled, Loop
  <2> QED BY <1>11, <2>1, <2>2, <2>3, <2>4, <2>5, <2>6, <2>7, <2>8 DEF Work
<1>12. CASE TimePasses
  <2>1. BucketType'
    BY <1>12, BucketKept DEF TimePasses
  <2> QED BY <1>12, <2>1 DEF TimePasses, checkpoint, pool, gathered, observed
<1>13. CASE Crash
  <2>1. FreshPass /\ Forgotten /\ pc' = "down" /\ UNCHANGED observed
    BY <1>13 DEF Crash, Lost
  <2>2. loaded' \in [Calls -> Outcomes \cup {"none"}] /\ written' \in BOOLEAN
    BY <2>1 DEF Forgotten, NothingLoaded
  <2> QED BY <2>1, <2>2, <1>d, FreshKeeps DEF None, observed
<1>14. CASE Interrupt
  BY <1>14, <1>b DEF Interrupt, checkpoint, gathered, observed
<1> QED BY <1>1, <1>2, <1>3, <1>4, <1>5, <1>6, <1>7, <1>8, <1>9, <1>10, <1>11, <1>12,
           <1>13, <1>14 DEF Next, MainThread

-----------------------------------------------------------------------------
(* Kept.                                                                   *)

LEMMA KeptKept ==
  ASSUME SweepInv, [Next]_vars
  PROVE  Kept'
<1>0. TypeOK /\ Kept /\ Jobs
  BY DEF SweepInv
<1> USE <1>0 DEF Kept, checkpoint, observed
<1>1. CASE UNCHANGED <<file, loaded, answered>>
  BY <1>1
<1>2. CASE Start
  <2>1. UNCHANGED <<file, answered>>
    BY <1>2 DEF Start, Resume, Begin
  <2>2. \/ loaded' = loaded \/ loaded' = NothingLoaded
        \/ \E lines \in Readings(file) : loaded' = Completed(lines)
    BY <1>2 DEF Start, Resume, Begin
  <2>3. \A lines \in Readings(file), c \in Calls :
          Completed(lines)[c] # "none" => <<c, Completed(lines)[c]>> \in answered
    BY ReadingsSound, CompletedSound
  <2> QED BY <2>1, <2>2, <2>3 DEF NothingLoaded
<1>3. CASE OpenNew
  BY <1>3, AppendedSound, MarksFit DEF OpenNew, WriteHeader
<1>4. CASE CloseKept
  BY <1>4, ClosedSound DEF CloseKept, Close, Forgotten, NothingLoaded
<1>5. CASE Finish
  <2>1. Sound(NoFile, answered)
    BY DEF NoFile, Sound, Ends
  <2> QED BY <1>5, <2>1 DEF Finish, Complete, Forgotten, NothingLoaded
<1>6. ASSUME NEW c \in Calls, Settle(c)
      PROVE  Kept'
  <2>1. CASE UNCHANGED checkpoint
    BY <1>6, <2>1 DEF Settle
  <2>2. CASE Note(c, answer[c]) /\ ~(answer[c] = "skipped" /\ abort)
    <3>1. <<c, answer[c]>> \in answered /\ answer[c] \in Outcomes
      BY <1>6, <2>2 DEF Settle, Jobs, TypeOK
    <3>2. Sound(Appended(file, Record(c, answer[c])), answered)
      BY <3>1, RecordsFit, AppendedSound
    <3>3. answered' = answered
      BY <1>6 DEF Settle
    <3> QED BY <2>2, <3>1, <3>2, <3>3 DEF Note, TypeOK, CheckpointType
  <2> QED BY <1>6, <2>1, <2>2 DEF Settle
<1>7. ASSUME NEW c \in Calls, NEW kind \in Outcomes, Answered(c, kind)
      PROVE  Kept'
  BY <1>7, MoreAnswers DEF Answered
<1>8. CASE Crash
  <2>1. Sound(file', answered)
    <3>1. CASE file' = Killed(file)
      BY <3>1, KilledSound
    <3>2. CASE file' \in CutShort(file, Header)
      BY <3>2, CutShortSound, MarksFit
    <3>3. ASSUME NEW c \in Calls, jobs[c] = "answered", answer[c] \in Outcomes,
                 file' \in CutShort(file, Record(c, answer[c]))
          PROVE  Sound(file', answered)
      <4>1. <<c, answer[c]>> \in answered
        BY <3>3 DEF Jobs, Outcomes
      <4> QED BY <3>3, <4>1, CutShortSound, RecordsFit
    <3> QED BY <1>8, <3>1, <3>2, <3>3 DEF Crash
  <2> QED BY <1>8, <2>1 DEF Crash, Lost, Forgotten, NothingLoaded
<1>9. CASE List \/ Submit \/ Gather \/ CancelAll \/ Drained \/ TimePasses \/ Interrupt
  BY <1>9, <1>1 DEF List, Submit, Gather, CancelAll, Drained, TimePasses, Interrupt
<1>10. ASSUME NEW c \in Calls, Work(c)
       PROVE  Kept'
  <2>1. CASE Replay(c) \/ Take(c) \/ Dispatch(c) \/ Throttled(c)
    BY <2>1, <1>1 DEF Replay, Take, Dispatch, Throttled
  <2>2. CASE Payload(c) \/ Refusal(c) \/ Unreadable(c)
    BY <2>2, <1>7 DEF Payload, Refusal, Unreadable, Outcomes
  <2> QED BY <1>6, <1>10, <2>1, <2>2 DEF Work
<1> QED BY <1>1, <1>2, <1>3, <1>4, <1>5, <1>8, <1>9, <1>10 DEF Next, MainThread, vars

-----------------------------------------------------------------------------
(* Jobs and Budgets.                                                       *)

\* A level that is about to be submitted has no jobs yet.
LEMMA SubmittedOnce ==
  ASSUME SweepInv, Submit, NEW c \in Calls, c \in Items(level)
  PROVE  jobs[c] = "idle" /\ Level[c] = level
<1>1. jobs[c] # "idle" => Level[c] < level
  BY DEF SweepInv, Courses, Submit, Items
<1>2. Level[c] = level /\ Level[c] \in Int
  BY DiscoveryAssumption DEF Items
<1> QED BY <1>1, <1>2 DEF SweepInv, TypeOK

LEMMA JobsKept ==
  ASSUME SweepInv, [Next]_vars
  PROVE  Jobs' /\ Budgets'
<1>0. TypeOK /\ Kept /\ Jobs /\ Budgets
  BY DEF SweepInv
<1> USE <1>0 DEF TypeOK, JobStates, Outcomes
<1>1. CASE UNCHANGED <<pool, tally, answered>>
  BY <1>1 DEF Jobs, Budgets, pool
<1>2. CASE Start \/ Crash
  BY <1>2, FreshKeeps DEF Start, Crash, Lost
<1>3. CASE Submit
  <2>1. UNCHANGED <<answer, attempts, abort, tally, answered>>
    BY <1>3 DEF Submit, observed
  <2>2. \A c \in Calls : jobs'[c] = jobs[c] \/ (jobs'[c] = "queued" /\ jobs[c] = "idle")
    BY <1>3, SubmittedOnce DEF Submit
  <2> QED BY <2>1, <2>2 DEF Jobs, Budgets
<1>4. CASE Gather \/ Interrupt
  <2>1. UNCHANGED <<jobs, answer, attempts, tally, answered>> /\ (abort => abort')
    BY <1>4 DEF Gather, Gathered, Interrupt, observed
  <2> QED BY <2>1 DEF Jobs, Budgets
<1>5. CASE CancelAll
  <2>1. UNCHANGED <<answer, attempts, abort, tally, answered>>
    BY <1>5 DEF CancelAll, observed
  <2>2. \A c \in Calls : jobs'[c] = jobs[c] \/ (jobs'[c] = "cancelled" /\ jobs[c] = "queued")
    BY <1>5 DEF CancelAll
  <2> QED BY <2>1, <2>2 DEF Jobs, Budgets
<1>6. CASE OpenNew \/ List \/ Drained \/ CloseKept \/ Finish \/ TimePasses
  BY <1>6, <1>1 DEF OpenNew, List, Drained, CloseKept, Finish, TimePasses, observed
<1>7. ASSUME NEW c \in Calls, Work(c)
      PROVE  Jobs' /\ Budgets'
  <2>1. /\ \A d \in Calls \ {c} : /\ jobs'[d] = jobs[d] /\ answer'[d] = answer[d]
                                  /\ tally'[d] = tally[d] /\ attempts'[d] = attempts[d]
        /\ answered \subseteq answered' /\ abort' = abort
    BY <1>7 DEF Work, Replay, Take, Dispatch, Settle, Payload, Refusal, Unreadable,
                Throttled, Answered, Loop, observed
  <2>2. \A d \in Calls \ {c} : jobs'[d] # "failed" => attempts'[d] < MaxThrottle
    BY <2>1 DEF Budgets
  <2>3. ASSUME NEW d \in Calls \ {c}
        PROVE  /\ jobs'[d] \in {"idle", "queued", "pacing", "calling"} => tally'[d] = "none"
               /\ jobs'[d] \in {"answered", "ok"} =>
                    \/ answer'[d] = "skipped" /\ abort'
                    \/ <<d, answer'[d]>> \in answered' /\ tally'[d] = Tallied(answer'[d])
    BY <2>1 DEF Jobs
  <2> DEFINE Own ==
        /\ jobs'[c] \in {"idle", "queued", "pacing", "calling"} => tally'[c] = "none"
        /\ jobs'[c] \in {"answered", "ok"} =>
             \/ answer'[c] = "skipped" /\ abort'
             \/ <<c, answer'[c]>> \in answered' /\ tally'[c] = Tallied(answer'[c])
  <2>4. CASE Replay(c)
    <3>1. jobs[c] = "queued" /\ <<c, loaded[c]>> \in answered
      BY <2>4 DEF Replay, IsNext, IsFirst, Kept
    <3>2. Own
      BY <2>4, <3>1 DEF Replay, Tallied, observed
    <3>3. jobs'[c] # "failed" => attempts'[c] < MaxThrottle
      BY <2>4, <3>1 DEF Replay, Budgets
    <3> QED BY <2>2, <2>3, <3>2, <3>3 DEF Jobs, Budgets
  <2>5. CASE Take(c)
    <3>1. jobs[c] = "queued" /\ tally[c] = "none"
      BY <2>5 DEF Take, IsNext, IsFirst, Jobs
    <3>2. Own
      BY <2>5, <3>1 DEF Take, Loop
    <3>3. jobs'[c] # "failed" => attempts'[c] < MaxThrottle
      BY <2>5, <3>1 DEF Take, Budgets
    <3> QED BY <2>2, <2>3, <3>2, <3>3 DEF Jobs, Budgets
  <2>6. CASE Dispatch(c)
    <3>1. Own
      BY <2>6 DEF Dispatch, Jobs
    <3>2. jobs'[c] # "failed" => attempts'[c] < MaxThrottle
      BY <2>6 DEF Dispatch, Budgets
    <3> QED BY <2>2, <2>3, <3>1, <3>2 DEF Jobs, Budgets
  <2>7. CASE Settle(c)
    <3>1. Own
      BY <2>7 DEF Settle, Jobs
    <3>2. jobs'[c] # "failed" => attempts'[c] < MaxThrottle
      BY <2>7 DEF Settle, Budgets
    <3> QED BY <2>2, <2>3, <3>1, <3>2 DEF Jobs, Budgets
  <2>8. CASE Payload(c) \/ Refusal(c) \/ Unreadable(c)
    <3>1. jobs[c] = "calling" /\ tally[c] = "none"
      BY <2>8 DEF Payload, Refusal, Unreadable, Answered, Jobs
    <3>2. Own
      BY <2>8, <3>1 DEF Payload, Refusal, Unreadable, Answered, Tallied
    <3>3. jobs'[c] # "failed" => attempts'[c] < MaxThrottle
      BY <2>8, <3>1 DEF Payload, Refusal, Unreadable, Answered, Budgets
    <3> QED BY <2>2, <2>3, <3>2, <3>3 DEF Jobs, Budgets
  <2>9. CASE Throttled(c)
    <3>1. jobs[c] = "calling" /\ tally[c] = "none"
      BY <2>9 DEF Throttled, Jobs
    <3>2. Own
      BY <2>9, <3>1 DEF Throttled, Loop
    <3>3. jobs'[c] # "failed" => attempts'[c] < MaxThrottle
      BY <2>9, <3>1 DEF Throttled, Budgets
    <3> QED BY <2>2, <2>3, <3>2, <3>3 DEF Jobs, Budgets
  <2> QED BY <1>7, <2>4, <2>5, <2>6, <2>7, <2>8, <2>9 DEF Work
<1> QED BY <1>1, <1>2, <1>3, <1>4, <1>5, <1>6, <1>7 DEF Next, MainThread, vars, observed

-----------------------------------------------------------------------------
(* Courses.                                                                *)

LEMMA CoursesKept ==
  ASSUME SweepInv, [Next]_vars
  PROVE  Courses'
<1>0. TypeOK /\ Courses
  BY DEF SweepInv
<1> USE <1>0, DiscoveryAssumption DEF TypeOK
<1>1. CASE UNCHANGED <<pc, jobs, level, abort>>
  BY <1>1 DEF Courses
<1>2. CASE Start \/ Crash
  BY <1>2, FreshKeeps DEF Start, Crash, Lost, Courses
<1>3. CASE OpenNew \/ List
  BY <1>3 DEF OpenNew, List, pool, gathered, Courses
<1>4. CASE Submit
  <2>1. CASE Items(level) = {}
    BY <1>4, <2>1 DEF Submit, Courses
  <2>2. CASE Items(level) # {}
    <3>1. \A c \in Calls : jobs'[c] = jobs[c] \/ Level[c] = level
      BY <1>4, <2>2, SubmittedOnce DEF Submit
    <3> QED BY <1>4, <2>2, <3>1 DEF Submit, Courses
  <2> QED BY <2>1, <2>2
<1>5. CASE Gather
  <2>1. PICK c \in Calls :
          \/ jobs[c] = "ok" /\ Gathered(c, answer[c])
          \/ abort' = TRUE /\ pc' = "cancel" /\ UNCHANGED gathered
    BY <1>5 DEF Gather
  <2> QED BY <1>5, <2>1 DEF Gather, Gathered, Courses, gathered
<1>6. CASE CancelAll \/ Drained \/ CloseKept \/ Finish
  BY <1>6 DEF CancelAll, Drained, CloseKept, Finish, Courses
<1>7. CASE Interrupt
  BY <1>7 DEF Interrupt, Courses
<1>8. CASE TimePasses
  BY <1>8, <1>1 DEF TimePasses, pool, gathered
<1>9. ASSUME NEW c \in Calls, Work(c)
      PROVE  Courses'
  <2>1. jobs[c] # "idle" /\ \A d \in Calls \ {c} : jobs'[d] = jobs[d]
    BY <1>9 DEF Work, Replay, Take, Dispatch, Settle, Payload, Refusal, Unreadable,
                Throttled, Answered, Loop, IsNext, IsFirst
  <2>2. UNCHANGED <<pc, level, abort>>
    BY <1>9 DEF Work, Replay, Take, Dispatch, Settle, Payload, Refusal, Unreadable,
                Throttled, Answered, gathered
  <2> QED BY <2>1, <2>2 DEF Courses
<1> QED BY <1>1, <1>2, <1>3, <1>4, <1>5, <1>6, <1>7, <1>8, <1>9
        DEF Next, MainThread, vars, pool, gathered

-----------------------------------------------------------------------------
(* Gatherings.                                                             *)

LEMMA GatheringsKept ==
  ASSUME SweepInv, [Next]_vars
  PROVE  Gatherings'
<1>0. TypeOK /\ Jobs /\ Courses /\ Gatherings
  BY DEF SweepInv
<1> USE <1>0, DiscoveryAssumption DEF TypeOK
<1>1. CASE UNCHANGED <<pc, jobs, answer, gathered>>
  BY <1>1 DEF Gatherings, gathered, Items, Due
<1>2. CASE Start \/ Crash
  <2>1. graph' = None /\ pc' \notin {"level", "gather", "finished"}
    BY <1>2, FreshKeeps DEF Start, Crash, Lost
  <2> QED BY <2>1 DEF Gatherings, None
<1>3. CASE OpenNew \/ List
  BY <1>3 DEF OpenNew, List, pool, gathered, Gatherings, Courses, Due
<1>4. CASE Submit
  <2>1. UNCHANGED <<answer, graph>>
    BY <1>4 DEF Submit
  <2>2. \A c \in Calls : graph[c] # "none" => jobs'[c] = "ok"
    BY <1>4, SubmittedOnce DEF Submit, Gatherings
  <2>3. CASE Items(level) = {}
    BY <1>4, <2>1, <2>2, <2>3 DEF Submit, Gatherings, Items, Due
  <2>4. CASE Items(level) # {}
    BY <1>4, <2>1, <2>2, <2>4 DEF Submit, Gatherings, Items, Due
  <2> QED BY <2>3, <2>4
<1>5. CASE Gather
  <2>1. PICK c \in waiting :
          \/ jobs[c] = "ok" /\ Gathered(c, answer[c])
          \/ abort' = TRUE /\ pc' = "cancel" /\ UNCHANGED gathered
    BY <1>5 DEF Gather, IsFirst
  <2>2. /\ pc = "gather" /\ ~abort /\ level \in 1 .. Depth /\ UNCHANGED <<jobs, answer>>
        /\ waiting \subseteq Items(level) /\ c \in Items(level)
    BY <1>5, <2>1 DEF Gather, Courses, Gatherings
  <2>3. CASE pc' = "cancel" /\ UNCHANGED gathered
    BY <2>2, <2>3 DEF gathered, Gatherings
  <2>4. CASE jobs[c] = "ok" /\ Gathered(c, answer[c])
    <3>1. answer[c] \in Outcomes
      BY <2>2, <2>4 DEF Jobs, Outcomes
    <3>2. /\ graph'[c] = answer[c] /\ graph'[c] # "none" /\ graph'[c] # "skipped"
          /\ \A d \in Calls \ {c} : graph'[d] = graph[d]
      BY <2>4, <3>1 DEF Gathered, Outcomes
    <3>3. Level[c] = level
      BY <2>2 DEF Items
    <3>4. \A d \in Calls : Level[d] <= level => (Due(d)' <=> Due(d))
      <4>1. ASSUME NEW d \in Calls, Level[d] <= level, Parent[d] # NoCall
            PROVE  graph'[Parent[d]] = graph[Parent[d]]
        <5>1. Parent[d] \in Calls /\ Level[Parent[d]] < Level[d]
          BY <4>1
        <5>2. Level[Parent[d]] # level
          BY <4>1, <5>1
        <5> QED BY <3>2, <3>3, <5>1, <5>2
      <4> QED BY <4>1 DEF Due
    <3>5. level' = level => Items(level)' = Items(level)
      BY <3>4 DEF Items
    <3>7. \A d \in Calls : Due(d)' /\ Level[d] < level => graph'[d] # "none"
      <4>1. ASSUME NEW d \in Calls, Due(d)', Level[d] < level
            PROVE  graph'[d] # "none"
        <5>1. Due(d) /\ d # c
          BY <3>3, <3>4, <4>1
        <5>2. graph[d] # "none"
          BY <2>2, <4>1, <5>1 DEF Gatherings
        <5> QED BY <3>2, <5>1, <5>2
      <4> QED BY <4>1
    <3>8. \A d \in Items(level) \ waiting' : graph'[d] # "none"
      BY <2>2, <2>4, <3>2 DEF Gathered, Gatherings, Items
    <3>9. CASE waiting' # {}
      BY <2>2, <2>4, <3>2, <3>5, <3>7, <3>8, <3>9 DEF Gathered, Gatherings
    <3>10. CASE waiting' = {}
      <4>1. \A d \in Calls : Due(d)' /\ Level[d] = level => d \in Items(level)
        BY <2>2, <3>4 DEF Items
      <4>2. \A d \in Calls : Due(d)' /\ Level[d] < level + 1 => graph'[d] # "none"
        BY <2>2, <3>7, <3>8, <3>10, <4>1
      <4>3. pc' = "level" /\ level' = level + 1
        BY <2>4, <3>10 DEF Gathered
      <4> QED BY <2>2, <2>4, <3>2, <4>2, <4>3 DEF Gatherings
    <3> QED BY <3>9, <3>10
  <2> QED BY <2>1, <2>3, <2>4
<1>6. CASE CancelAll
  BY <1>6 DEF CancelAll, gathered, Gatherings
<1>7. CASE Drained \/ CloseKept
  BY <1>7 DEF Drained, CloseKept, pool, gathered, Gatherings
<1>8. CASE Finish
  BY <1>8 DEF Finish, pool, gathered, Gatherings, Due
<1>9. CASE Interrupt
  BY <1>9 DEF Interrupt, gathered, Gatherings
<1>10. CASE TimePasses
  BY <1>10, <1>1 DEF TimePasses, pool
<1>11. ASSUME NEW c \in Calls, Work(c)
       PROVE  Gatherings'
  <2>1. /\ jobs[c] # "ok" /\ UNCHANGED <<pc, gathered>>
        /\ \A d \in Calls \ {c} : jobs'[d] = jobs[d] /\ answer'[d] = answer[d]
    BY <1>11 DEF Work, Replay, Take, Dispatch, Settle, Payload, Refusal, Unreadable,
                 Throttled, Answered, Loop, IsNext, IsFirst
  <2> QED BY <2>1 DEF gathered, Gatherings, Items, Due
<1> QED BY <1>1, <1>2, <1>3, <1>4, <1>5, <1>6, <1>7, <1>8, <1>9, <1>10, <1>11
        DEF Next, MainThread, vars, pool

-----------------------------------------------------------------------------
(* The theorems.                                                           *)

LEMMA SweepInvariant == Spec => []SweepInv
<1>1. SweepInv /\ [Next]_vars => SweepInv'
  BY KeptKept, TypesKept, JobsKept, CoursesKept, GatheringsKept DEF SweepInv
<1> QED BY <1>1, SweepStarts, PTL DEF Spec

\* Every variable of a sweep keeps its type, the bucket's rate and waits
\* within their bounds included (AdaptiveTokenBucket: the shared rate never
\* leaves its floor and its ceiling).
THEOREM SweepTypes == Spec => []TypeOK
<1>1. SweepInv => TypeOK
  BY DEF SweepInv
<1> QED BY <1>1, SweepInvariant, PTL

\* The checkpoint never holds what the API did not answer, however it was
\* torn, appended to and resumed (_fetch; DiscoveryCheckpoint.record).
THEOREM CheckpointHoldsAnswers == Spec => []RecordsAreAnswers
<1>1. SweepInv => RecordsAreAnswers
  BY DEF SweepInv, Kept, Sound, Fit, RecordsAreAnswers
<1> QED BY <1>1, SweepInvariant, PTL

\* A sweep that finishes has an answer of the API to every call it was to
\* make (_run_level: "a snapshot is complete or it is nothing").
THEOREM FinishedIsWhole == Spec => []GraphIsComplete
<1>1. ASSUME SweepInv
      PROVE  GraphIsComplete
  <2>1. SUFFICES ASSUME pc = "finished", NEW c \in Calls, Due(c)
                 PROVE  <<c, graph[c]>> \in answered
    BY DEF GraphIsComplete
  <2>2. graph[c] # "none"
    BY <1>1, <2>1, DiscoveryAssumption DEF SweepInv, Gatherings, TypeOK
  <2> QED BY <1>1, <2>2 DEF SweepInv, Gatherings, Jobs
<1> QED BY <1>1, SweepInvariant, PTL

\* Nor does the tally of suspect endpoints depend on how often the sweep was
\* resumed (_replay: "refusals replay their suspect-endpoint tally").
THEOREM TallyIsOfOneRun == Spec => []SuspectsSurviveResume
<1>1. ASSUME SweepInv
      PROVE  SuspectsSurviveResume
  <2>1. SUFFICES ASSUME pc = "finished", NEW c \in Calls, Due(c)
                 PROVE  tally[c] = Tallied(graph[c])
    BY DEF SuspectsSurviveResume, Tallied
  <2>2. graph[c] # "none"
    BY <1>1, <2>1, DiscoveryAssumption DEF SweepInv, Gatherings, TypeOK
  <2> QED BY <1>1, <2>2 DEF SweepInv, Gatherings, Jobs
<1> QED BY <1>1, SweepInvariant, PTL

=============================================================================

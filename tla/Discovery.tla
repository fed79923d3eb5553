----------------------------- MODULE Discovery -----------------------------
(***************************************************************************)
(* LiveApiDataProvider.fetch_network_graph (providers/live.py): a sweep of *)
(* the organization by a pool of workers that share one token bucket and   *)
(* one checkpoint file, level by level: what a call returned decides which *)
(* calls the next level makes.  A sweep is complete or it is aborted; an   *)
(* aborted or killed one is resumed from the checkpoint by the next run.   *)
(***************************************************************************)
EXTENDS AdaptiveTokenBucket, DiscoveryCheckpoint, FiniteSets

CONSTANTS
  Order,          \* the calls in submission order
  Depth,          \* how many levels there are
  Level,          \* the level of each call
  Parent,         \* the call whose elements a later one is scoped by
  Workers,        \* _workers
  MaxThrottle,    \* _MAX_THROTTLE_ATTEMPTS (40 in the code)
  MaxRuns,        \* bound: sweeps started
  MaxStops        \* bound: kills, Ctrl-C and failures of the two list calls

ASSUME DiscoveryAssumption ==
  /\ Order \in Seq(Calls) /\ \A c \in Calls : Contains(Order, c)
  /\ Parent \in [Calls -> Calls \cup {NoCall}]
  /\ Depth \in Nat /\ Level \in [Calls -> 1 .. Depth]
  /\ \A c \in Calls : Parent[c] # NoCall => Level[Parent[c]] < Level[c]
  /\ Workers \in Nat \ {0} /\ MaxThrottle \in Nat \ {0}
  /\ MaxRuns \in Nat /\ MaxStops \in Nat

VARIABLES
  pc,         \* the main thread
  level,      \* the level being swept
  waiting,    \* the calls of it whose futures are not gathered yet
  jobs,       \* where each call's job is
  answer,     \* what its call returned
  attempts,   \* its throttled_attempts
  abort,      \* the abort event
  graph,      \* what has been gathered
  tally,      \* _EndpointStats
  \* observed
  answered,   \* every answer the API gave to a call that was then settled
  recorded,   \* what record() has returned for since the file was created
  runs, stops

pool == <<jobs, answer, attempts, abort>>
gathered == <<level, waiting, graph>>
observed == <<answered, recorded>>
limits == <<runs, stops>>
vars == <<bucket, checkpoint, pc, pool, gathered, tally, observed, limits>>

Main == {"down", "header", "list", "level", "gather", "cancel", "drain", "close",
         "refused", "finished"}
JobStates == {"idle", "queued", "pacing", "calling", "answered", "ok",
              "failed", "cancelled"}
Sweeping == pc \notin {"down", "refused", "finished"}
Busy == {c \in Calls : jobs[c] \in {"pacing", "calling", "answered"}}

\* The calls of a level: those without a parent, and those scoped by an
\* element that a call of an earlier level returned.
Due(c) == Parent[c] = NoCall \/ graph[Parent[c]] = "payload"
Items(n) == {c \in Calls : Level[c] = n /\ Due(c)}

\* Where a call stands in the order of submission, and the first of some.
Place == [c \in Calls |-> SelectInSeq(Order, LAMBDA x : x = c)]
IsFirst(c, calls) == c \in calls /\ \A d \in calls : Place[c] <= Place[d]

None == [c \in Calls |-> "none"]
FreshPass ==
  /\ jobs' = [c \in Calls |-> "idle"] /\ answer' = None
  /\ attempts' = [c \in Calls |-> 0] /\ abort' = FALSE
  /\ level' = 1 /\ waiting' = {} /\ graph' = None /\ tally' = None
  /\ RenewBucket

-----------------------------------------------------------------------------
(* The main thread.                                                        *)

Start ==
  /\ pc = "down" /\ runs < MaxRuns
  /\ runs' = runs + 1
  /\ \/ /\ HeaderTorn(file)
        /\ pc' = "refused"
        /\ UNCHANGED checkpoint
     \/ /\ ~HeaderTorn(file)
        /\ \E lines \in Readings(file) :
             \/ lines = <<>> /\ Begin /\ pc' = "header"
             \/ Resume(lines) /\ pc' = "list"
  /\ FreshPass
  /\ UNCHANGED <<observed, stops>>

OpenNew ==
  /\ pc = "header"
  /\ WriteHeader
  /\ pc' = "list"
  /\ UNCHANGED <<bucket, pool, gathered, tally, observed, limits>>

\* The two uncheckpointed list calls.
List ==
  /\ pc = "list"
  /\ pc' = "level"
  /\ UNCHANGED <<bucket, checkpoint, pool, gathered, tally, observed, limits>>

Submit ==
  /\ pc = "level" /\ level <= Depth
  /\ IF Items(level) = {} THEN level' = level + 1 /\ UNCHANGED <<jobs, waiting, pc>>
     ELSE /\ jobs' = [c \in Calls |-> IF c \in Items(level) THEN "queued" ELSE jobs[c]]
          /\ waiting' = Items(level)
          /\ pc' = "gather"
          /\ UNCHANGED level
  /\ UNCHANGED <<bucket, checkpoint, answer, attempts, abort, graph, tally, observed,
                 limits>>

\* The future of call c is done: the level is too with the last one.
Gathered(c, outcome) ==
  /\ graph' = [graph EXCEPT ![c] = outcome]
  /\ waiting' = waiting \ {c}
  /\ IF waiting' = {} THEN pc' = "level" /\ level' = level + 1
     ELSE UNCHANGED <<pc, level>>
  /\ UNCHANGED abort

\* Mutant: a failed call counts as an absence.
GatherTolerant ==
  /\ pc = "gather"
  /\ \E c \in Calls :
       /\ IsFirst(c, waiting) /\ jobs[c] \in {"ok", "failed"}
       /\ Gathered(c, IF jobs[c] = "ok" THEN answer[c] ELSE "refused")
  /\ UNCHANGED <<bucket, checkpoint, jobs, answer, attempts, tally, observed, limits>>

\* future.result() in submission order.
Gather ==
  /\ pc = "gather"
  /\ \E c \in Calls :
       /\ IsFirst(c, waiting)
       /\ \/ jobs[c] = "ok" /\ Gathered(c, answer[c])
          \/ /\ jobs[c] = "failed"
             /\ abort' = TRUE /\ pc' = "cancel"
             /\ UNCHANGED gathered
  /\ UNCHANGED <<bucket, checkpoint, jobs, answer, attempts, tally, observed, limits>>

CancelAll ==
  /\ pc = "cancel"
  /\ jobs' = [c \in Calls |-> IF jobs[c] = "queued" THEN "cancelled" ELSE jobs[c]]
  /\ pc' = "drain"
  /\ UNCHANGED <<bucket, checkpoint, answer, attempts, abort, gathered, tally, observed,
                 limits>>

\* Leaving the with block waits for every job that was not cancelled.
Drained ==
  /\ pc = "drain" /\ Busy = {} /\ \A c \in Calls : jobs[c] # "queued"
  /\ pc' = "close"
  /\ UNCHANGED <<bucket, checkpoint, pool, gathered, tally, observed, limits>>

CloseKept ==
  /\ pc = "close"
  /\ Close
  /\ pc' = "down"
  /\ UNCHANGED <<bucket, pool, gathered, tally, observed, limits>>

Finish ==
  /\ pc = "level" /\ level > Depth
  /\ Complete
  /\ recorded' = {}
  /\ pc' = "finished"
  /\ UNCHANGED <<bucket, pool, gathered, tally, answered, limits>>

-----------------------------------------------------------------------------
(* A worker, on the job of call c.                                         *)

\* Where the loop of _try_call goes on: into acquire(), or, when the sweep is
\* aborting, out with None for a call that is never made.
Loop(c) ==
  /\ jobs' = [jobs EXCEPT ![c] = IF abort THEN "answered" ELSE "pacing"]
  /\ answer' = [answer EXCEPT ![c] = IF abort THEN "skipped" ELSE "none"]

\* The pool is a first-in first-out queue.
IsNext(c) ==
  /\ Cardinality(Busy) < Workers
  /\ IsFirst(c, {d \in Calls : jobs[d] = "queued"})

\* Mutant: a replayed outcome is not tallied.
ReplayUntallied(c) ==
  /\ IsNext(c) /\ loaded[c] # "none"
  /\ jobs' = [jobs EXCEPT ![c] = "ok"]
  /\ answer' = [answer EXCEPT ![c] = loaded[c]]
  /\ UNCHANGED <<bucket, checkpoint, pc, attempts, abort, gathered, tally, observed,
                 limits>>

\* A job whose outcome the checkpoint holds.
Replay(c) ==
  /\ IsNext(c) /\ loaded[c] # "none"
  /\ jobs' = [jobs EXCEPT ![c] = "ok"]
  /\ answer' = [answer EXCEPT ![c] = loaded[c]]
  /\ tally' = [tally EXCEPT ![c] = IF loaded[c] = "unreadable" THEN "none"
                                   ELSE loaded[c]]
  /\ UNCHANGED <<bucket, checkpoint, pc, attempts, abort, gathered, observed, limits>>

Take(c) ==
  /\ IsNext(c) /\ loaded[c] = "none"
  /\ Loop(c)
  /\ UNCHANGED <<bucket, checkpoint, pc, attempts, abort, gathered, tally, observed,
                 limits>>

Dispatch(c) ==
  /\ jobs[c] = "pacing"
  /\ Acquire
  /\ jobs' = [jobs EXCEPT ![c] = "calling"]
  /\ UNCHANGED <<checkpoint, pc, answer, attempts, abort, gathered, tally, observed,
                 limits>>

Answered(c, kind) ==
  /\ jobs[c] = "calling"
  /\ jobs' = [jobs EXCEPT ![c] = "answered"]
  /\ answer' = [answer EXCEPT ![c] = kind]
  /\ answered' = answered \cup {<<c, kind>>}
  /\ UNCHANGED <<checkpoint, pc, attempts, abort, gathered, recorded, limits>>

Payload(c) ==
  /\ Answered(c, "payload")
  /\ OnSuccess
  /\ tally' = [tally EXCEPT ![c] = "payload"]

\* 400 and 404: a genuine scope refusal.
Refusal(c) ==
  /\ Answered(c, "refused")
  /\ tally' = [tally EXCEPT ![c] = "refused"]
  /\ UNCHANGED bucket

\* A server error, or a 200 without an object: a coverage gap.
Unreadable(c) ==
  /\ Answered(c, "unreadable")
  /\ OnSuccess \/ UNCHANGED bucket
  /\ UNCHANGED tally

\* Mutant: throttled attempts are not counted.
ThrottledForever(c) ==
  /\ jobs[c] = "calling"
  /\ OnThrottle
  /\ Loop(c)
  /\ UNCHANGED <<checkpoint, pc, attempts, abort, gathered, tally, observed, limits>>

Throttled(c) ==
  /\ jobs[c] = "calling"
  /\ OnThrottle
  /\ attempts' = [attempts EXCEPT ![c] = @ + 1]
  /\ IF attempts[c] + 1 < MaxThrottle THEN Loop(c)
     ELSE jobs' = [jobs EXCEPT ![c] = "failed"] /\ UNCHANGED answer
  /\ UNCHANGED <<checkpoint, pc, abort, gathered, tally, observed, limits>>

\* Mutant: what an aborting sweep skipped is recorded as a refusal.
SettleSkipped(c) ==
  LET kind == IF answer[c] = "skipped" THEN "refused" ELSE answer[c] IN
  /\ jobs[c] = "answered"
  /\ jobs' = [jobs EXCEPT ![c] = "ok"]
  /\ Note(c, kind)
  /\ recorded' = recorded \cup {<<c, kind>>}
  /\ UNCHANGED <<bucket, pc, answer, attempts, abort, gathered, tally, answered, limits>>

\* The outcome is recorded, unless it may only be the abort.
Settle(c) ==
  /\ jobs[c] = "answered"
  /\ jobs' = [jobs EXCEPT ![c] = "ok"]
  /\ IF answer[c] \in {"refused", "skipped"} /\ abort
     THEN UNCHANGED <<checkpoint, recorded>>
     ELSE Note(c, answer[c]) /\ recorded' = recorded \cup {<<c, answer[c]>>}
  /\ UNCHANGED <<bucket, pc, answer, attempts, abort, gathered, tally, answered, limits>>

-----------------------------------------------------------------------------
(* What happens to the process.                                            *)

Lost == FreshPass /\ Forgotten

\* Killed, possibly while a line is being appended.
Crash ==
  /\ Sweeping /\ stops < MaxStops
  /\ \/ file' = Killed(file)
     \/ pc = "header" /\ file' \in CutShort(file, Header)
     \/ \E c \in Calls : /\ jobs[c] = "answered" /\ answer[c] \in Outcomes
                         /\ file' \in CutShort(file, Record(c, answer[c]))
  /\ Lost
  /\ pc' = "down"
  /\ stops' = stops + 1
  /\ UNCHANGED <<observed, runs>>

\* Ctrl-C while the level is gathered cancels it; while it is still being
\* submitted, the whole level is worked off first.
Interrupt ==
  /\ stops < MaxStops
  /\ \/ pc = "list" /\ pc' = "close" /\ UNCHANGED abort
     \/ pc = "gather" /\ pc' = "cancel" /\ abort' = TRUE
     \/ pc = "gather" /\ waiting = Items(level) /\ pc' = "drain" /\ UNCHANGED abort
  /\ stops' = stops + 1
  /\ UNCHANGED <<bucket, checkpoint, jobs, answer, attempts, gathered, tally, observed,
                 runs>>

TimePasses ==
  /\ Tick
  /\ UNCHANGED <<checkpoint, pc, pool, gathered, tally, observed, limits>>

-----------------------------------------------------------------------------
Init ==
  /\ file = NoFile /\ loaded = NothingLoaded /\ written = FALSE
  /\ FreshBucket
  /\ pc = "down" /\ level = 1 /\ waiting = {}
  /\ jobs = [c \in Calls |-> "idle"] /\ answer = None
  /\ attempts = [c \in Calls |-> 0] /\ abort = FALSE
  /\ graph = None /\ tally = None
  /\ answered = {} /\ recorded = {}
  /\ runs = 0 /\ stops = 0

MainThread ==
  OpenNew \/ List \/ Submit \/ Gather \/ CancelAll \/ Drained \/ CloseKept \/ Finish
Work(c) ==
  \/ Replay(c) \/ Take(c) \/ Dispatch(c) \/ Settle(c)
  \/ Payload(c) \/ Refusal(c) \/ Unreadable(c) \/ Throttled(c)
Next ==
  MainThread \/ (\E c \in Calls : Work(c)) \/ TimePasses \/ Start \/ Crash \/ Interrupt

Spec == Init /\ [][Next]_vars

\* Threads are scheduled and requests answered; nobody has to start a sweep.
FairSpec ==
  /\ Spec
  /\ WF_vars(MainThread) /\ WF_vars(TimePasses)
  /\ \A c \in Calls : WF_vars(Work(c))

-----------------------------------------------------------------------------
(* Properties.                                                             *)

TypeOK ==
  /\ BucketType /\ CheckpointType
  /\ pc \in Main /\ level \in 1 .. Depth + 1 /\ waiting \subseteq Calls
  /\ jobs \in [Calls -> JobStates]
  /\ answer \in [Calls -> Outcomes \cup {"none", "skipped"}]
  /\ attempts \in [Calls -> 0 .. MaxThrottle]
  /\ abort \in BOOLEAN
  /\ graph \in [Calls -> Outcomes \cup {"none", "skipped"}]
  /\ tally \in [Calls -> {"none", "payload", "refused"}]
  /\ answered \subseteq Calls \X Outcomes /\ recorded \subseteq Calls \X Outcomes

\* The checkpoint holds answers of the API and nothing else: a call that an
\* aborting sweep never made is not resumed as a refusal, which would drop
\* its object from the snapshot without a trace.
RecordsAreAnswers ==
  \A i \in 1 .. Len(file.lines) :
    LET l == file.lines[i] IN l.what = "record" => <<l.call, l.kind>> \in answered

\* A sweep that finishes, resumed or not, has an answer of the API for every
\* call it had to make: a snapshot is complete or it is nothing.
GraphIsComplete ==
  pc = "finished" => \A c \in Calls : Due(c) => <<c, graph[c]>> \in answered

\* The tally behind the suspect endpoints is the one of an uninterrupted run.
SuspectsSurviveResume ==
  pc = "finished" =>
    \A c \in Calls : Due(c) =>
      tally[c] = IF graph[c] = "unreadable" THEN "none" ELSE graph[c]

\* What a sweep has recorded, the next one resumes with.
Starting == pc = "down" /\ pc' # "down"
RecordsResume ==
  [][Starting => \A r \in recorded : loaded'[r[1]] = r[2]]_vars

\* A sweep ends whatever the API throttles, by finishing or by aborting.
SweepEnds == Sweeping ~> ~Sweeping

=============================================================================

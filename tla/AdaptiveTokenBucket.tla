------------------------ MODULE AdaptiveTokenBucket ------------------------
(***************************************************************************)
(* AdaptiveTokenBucket (providers/ratelimit.py): the pacer that all the    *)
(* discovery workers share.  Additive increase, multiplicative decrease,   *)
(* and a pause of everybody after a throttle.  Instants are kept as what   *)
(* is left until them, so that the clock itself needs no variable.         *)
(***************************************************************************)
EXTENDS Naturals

CONSTANTS
  MinRate, MaxRate,  \* _MIN_RATE, _MAX_RATE in units of _INCREASE
  Span,              \* ticks between two dispatches at rate 1
  Pause              \* _THROTTLE_PAUSE_SECONDS, in ticks

ASSUME BucketAssumption ==
  /\ MinRate \in Nat \ {0} /\ MaxRate \in Nat /\ MinRate <= MaxRate
  /\ Span \in Nat \ {0} /\ Pause \in Nat

VARIABLES
  rate,
  slotIn,    \* _next_slot - now
  pauseIn    \* _paused_until - now

bucket == <<rate, slotIn, pauseIn>>

Larger(m, n) == IF m > n THEN m ELSE n
Smaller(m, n) == IF m < n THEN m ELSE n

\* Mutant: no floor under repeated throttling.
HalvedFreely(r) == r \div 2

\* _DECREASE and _INCREASE, between the floor and the ceiling.
Halved(r) == Larger(r \div 2, MinRate)
Raised(r) == Smaller(r + 1, MaxRate)

\* A new bucket is made for every discovery pass.
FreshBucket == rate = MaxRate /\ slotIn = 0 /\ pauseIn = 0
RenewBucket == rate' = MaxRate /\ slotIn' = 0 /\ pauseIn' = 0

\* acquire() returns: the slot is taken under the lock.
Acquire ==
  /\ slotIn = 0 /\ pauseIn = 0
  /\ slotIn' = Span \div rate
  /\ UNCHANGED <<rate, pauseIn>>

OnSuccess == rate' = Raised(rate) /\ UNCHANGED <<slotIn, pauseIn>>

OnThrottle ==
  /\ rate' = Halved(rate)
  /\ pauseIn' = Larger(pauseIn, Pause)
  /\ UNCHANGED slotIn

\* Time passes; sleeping workers look again when the wait is over.
Tick ==
  /\ slotIn > 0 \/ pauseIn > 0
  /\ slotIn' = Larger(slotIn, 1) - 1
  /\ pauseIn' = Larger(pauseIn, 1) - 1
  /\ UNCHANGED rate

\* The rate stays between its floor and its ceiling, and nobody waits longer
\* than a slot at the slowest rate or a throttle pause.
BucketType ==
  /\ rate \in MinRate .. MaxRate
  /\ slotIn \in 0 .. Span \div MinRate
  /\ pauseIn \in 0 .. Pause

=============================================================================

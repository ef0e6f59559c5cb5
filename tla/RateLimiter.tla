---------------------------- MODULE RateLimiter ----------------------------
(***************************************************************************)
(* createRateLimiter of work/index.ts.  The waits of the items are chained  *)
(* promises: one takes its slot when the one before it has settled, and     *)
(* starts its item when the slot's time has come, or later, when the event  *)
(* loop is late.  A wait may be aborted before it has a slot or while it    *)
(* sleeps; its slot stays taken.                                            *)
(***************************************************************************)
EXTENDS Integers, Sequences

CONSTANTS
  Interval,     \* intervalMs
  Horizon,      \* bound: the last moment of the clock
  MaxWaits      \* bound: how many waits there are

ASSUME RateAssumption == Interval \in Nat /\ Horizon \in Nat /\ MaxWaits \in Nat

VARIABLES
  rateNow,       \* Date.now()
  rateNext,      \* nextStart
  rateChain,     \* waits that have not begun
  rateSlot,      \* the slot of the wait that sleeps, or NoSlot
  rateStarts,    \* when the items started
  rateCalls      \* calls of wait() so far

rateVars == <<rateNow, rateNext, rateChain, rateSlot, rateStarts, rateCalls>>

NoSlot == -1
Later(a, b) == IF a >= b THEN a ELSE b

RateInit ==
  /\ rateNow = 0 /\ rateNext = 0 /\ rateChain = 0 /\ rateSlot = NoSlot
  /\ rateStarts = <<>> /\ rateCalls = 0

Wait ==
  /\ rateCalls < MaxWaits /\ rateCalls' = rateCalls + 1 /\ rateChain' = rateChain + 1
  /\ UNCHANGED <<rateNow, rateNext, rateSlot, rateStarts>>

\* The first wait of the chain begins: an aborted one is rejected without a slot.
SlotIgnoringClock == rateNext
SlotTime == Later(rateNow, rateNext)
TakeSlot ==
  /\ rateChain > 0 /\ rateSlot = NoSlot /\ rateChain' = rateChain - 1
  /\ \/ rateSlot' = SlotTime /\ rateNext' = SlotTime + Interval
     \/ UNCHANGED <<rateSlot, rateNext>>
  /\ UNCHANGED <<rateNow, rateStarts, rateCalls>>

\* sleepUntil ends: the item starts.
StartItem ==
  /\ rateSlot # NoSlot /\ rateNow >= rateSlot
  /\ rateSlot' = NoSlot /\ rateStarts' = Append(rateStarts, rateNow)
  /\ UNCHANGED <<rateNow, rateNext, rateChain, rateCalls>>

AbortSleep ==
  /\ rateSlot # NoSlot /\ rateSlot' = NoSlot
  /\ UNCHANGED <<rateNow, rateNext, rateChain, rateStarts, rateCalls>>

RateTick ==
  /\ rateNow < Horizon /\ rateNow' = rateNow + 1
  /\ UNCHANGED <<rateNext, rateChain, rateSlot, rateStarts, rateCalls>>

RateNext == Wait \/ TakeSlot \/ StartItem \/ AbortSleep \/ RateTick
RateSpec == RateInit /\ [][RateNext]_rateVars
----------------------------------------------------------------------------
\* However late the event loop is and whatever waits are aborted, of three
\* consecutive starts the last comes at least an interval after the first.  Two
\* may come closer: one that is late does not push back the next.
StartsSpaced ==
  \A i \in 1..Len(rateStarts) :
    i + 2 \in 1..Len(rateStarts) => rateStarts[i + 2] >= rateStarts[i] + Interval
=============================================================================

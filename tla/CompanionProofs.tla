-------------------------- MODULE CompanionProofs --------------------------
(***************************************************************************)
(* The companions of the engine, for every value of their constants: the    *)
(* circuit breaker trusts no stale recovery (CircuitBreaker), the limiter of*)
(* perSecond() spaces its starts (RateLimiter), the wrappers of attempts    *)
(* settle as their attempts did (Wrappers), firstAcceptable returns what its*)
(* attempts and their decisions say (Candidates), and a deadline that has   *)
(* passed has cancelled (Deadlines).  What is reported of runs is what they *)
(* came to: in the fault lab (FaultLab), in the preview of a scenario and in*)
(* its run (FailureLab), in what is imported (PublicData) and on the page   *)
(* that shows it (Site).                                                    *)
(***************************************************************************)
EXTENDS
  CircuitBreaker, Companions, FiniteSetTheorems, SequenceTheorems, WellFoundedInduction, TLAPS

(***************************************************************************)
(* CircuitBreaker.  Two facts carry its theorems: no call probes an epoch that*)
(* has not begun, so a new epoch begins without probes; and the breaker never*)
(* opens in the middle of an epoch that it goes on with, so a call that was *)
(* overtaken probes no current epoch.                                       *)
(***************************************************************************)
Probes == {c \in running : halfOpenEpoch[c] = epoch}

\* Calls probe epochs that have begun.
NoFutureProbes == \A c \in running : halfOpenEpoch[c] <= epoch

\* Each probe of the current epoch was counted.
Counted == state = "half_open" => Cardinality(Probes) <= admitted

\* What the breaker overtook probes an older epoch, once it probes again.
OvertakenIsOld == state = "half_open" => \A c \in overtaken : halfOpenEpoch[c] < epoch

Inductive ==
  /\ TypeOK /\ NoFutureProbes /\ Counted /\ OvertakenIsOld
  /\ state = "closed" => failures < FailureThreshold
----------------------------------------------------------------------------
\* A new breaker is closed and nobody has called it.
LEMMA InitInductive == Init => Inductive
BY BreakerAssumption DEF Init, Inductive, TypeOK, NoFutureProbes, Counted, OvertakenIsOld

\* Any set of running calls is finite.
LEMMA ProbesFinite ==
  ASSUME TypeOK, NEW S \in SUBSET running
  PROVE  IsFiniteSet(S) /\ Cardinality(S) \in Nat
BY BreakerAssumption, FS_Subset, FS_CardinalityType DEF TypeOK

\* Admitting a call: at most one more probe runs, and it is counted.
LEMMA CallStep == ASSUME Inductive, NEW c \in Calls, Call(c) PROVE Inductive'
<1> USE BreakerAssumption
<1>1. CASE CallClosed(c)
  BY <1>1 DEF CallClosed, Run, Inductive, TypeOK, NoFutureProbes, Counted, OvertakenIsOld
<1>2. CASE CallProbesFirst(c)
  <2>1. TypeOK'
    BY <1>2 DEF CallProbesFirst, Run, Inductive, TypeOK
  <2>2. NoFutureProbes' /\ OvertakenIsOld' /\ state' # "closed"
    BY <1>2 DEF CallProbesFirst, Run, Inductive, TypeOK, NoFutureProbes, OvertakenIsOld
  <2>3. Probes' = {c} /\ admitted' = 1
    BY <1>2 DEF CallProbesFirst, Run, Inductive, TypeOK, NoFutureProbes, Probes
  <2> QED BY <2>1, <2>2, <2>3, FS_Singleton DEF Inductive, Counted
<1>3. CASE CallProbes(c)
  <2>1. TypeOK'
    BY <1>3 DEF CallProbes, ProbeCounted, Run, Inductive, TypeOK
  <2>2. NoFutureProbes' /\ OvertakenIsOld' /\ state' # "closed"
    BY <1>3 DEF CallProbes, Run, Inductive, TypeOK, NoFutureProbes, OvertakenIsOld
  <2>3. Probes' = Probes \cup {c} /\ c \notin Probes
    BY <1>3 DEF CallProbes, Run, Inductive, TypeOK, Probes
  <2>4. IsFiniteSet(Probes) /\ Cardinality(Probes) \in Nat
    BY ProbesFinite DEF Inductive, Probes
  <2>5. Cardinality(Probes') = Cardinality(Probes) + 1
    BY <2>3, <2>4, FS_AddElement
  <2>6. state = "half_open" /\ admitted' = admitted + 1 /\ admitted \in Nat
    BY <1>3 DEF CallProbes, ProbeCounted, Inductive, TypeOK
  <2> QED BY <2>1, <2>2, <2>4, <2>5, <2>6 DEF Inductive, Counted
<1> QED BY <1>1, <1>2, <1>3 DEF Call

\* A call that ends leaves no more probes than there were.
LEMMA FewerProbes ==
  ASSUME TypeOK, NEW c \in Calls, Return(c)
  PROVE  /\ Probes' \subseteq Probes /\ Cardinality(Probes') <= Cardinality(Probes)
         /\ Cardinality(Probes) \in Nat /\ Cardinality(Probes') \in Nat
<1>1. Probes' \subseteq Probes BY DEF Return, Probes
<1>2. IsFiniteSet(Probes) /\ Cardinality(Probes) \in Nat BY ProbesFinite DEF Probes
<1> QED BY <1>1, <1>2, FS_Subset, FS_CardinalityType

\* The end of a call.
LEMMA EndStep == ASSUME Inductive, NEW c \in Calls, End(c) PROVE Inductive'
<1> USE BreakerAssumption
<1>1. Return(c) BY DEF End, Succeed, Fail, Cancelled
<1>2. /\ state' \in {"open", "closed", state}
      /\ state' = "half_open" => overtaken' = overtaken \cap running'
  BY DEF End, Succeed, Fail, Cancelled, KeepBreaker, CloseBreaker, OpenBreaker
<1>3. NoFutureProbes' BY <1>1 DEF Inductive, NoFutureProbes, Return
<1>4. Counted'
  BY <1>1, <1>2, FewerProbes DEF Inductive, Counted, Return, TypeOK
<1>5. OvertakenIsOld'
  BY <1>1, <1>2 DEF Inductive, OvertakenIsOld, Return
<1>6. TypeOK' /\ (state' = "closed" => failures' < FailureThreshold)
  <2>1. CASE Succeed(c)
    BY <2>1 DEF Succeed, Return, KeepBreaker, CloseBreaker, Inductive, TypeOK
  <2>2. CASE Fail(c)
    BY <2>2 DEF Fail, ReachesThreshold, Return, KeepBreaker, OpenBreaker, Inductive, TypeOK
  <2>3. CASE Cancelled(c)
    BY <2>3 DEF Cancelled, Return, KeepBreaker, Inductive, TypeOK
  <2> QED BY <2>1, <2>2, <2>3 DEF End
<1> QED BY <1>3, <1>4, <1>5, <1>6 DEF Inductive

\* Every step preserves the invariant.
LEMMA NextInductive == Inductive /\ [Next]_vars => Inductive'
<1> SUFFICES ASSUME Inductive, [Next]_vars PROVE Inductive' OBVIOUS
<1>1. ASSUME NEW c \in Calls, Call(c) \/ End(c) PROVE Inductive'
  BY <1>1, CallStep, EndStep
<1>2. CASE Tick
  BY <1>2, BreakerAssumption
  DEF Tick, breaker, Inductive, TypeOK, NoFutureProbes, Counted, OvertakenIsOld, Probes
<1>3. CASE UNCHANGED vars
  BY <1>3
  DEF vars, breaker, Inductive, TypeOK, NoFutureProbes, Counted, OvertakenIsOld, Probes
<1> QED BY <1>1, <1>2, <1>3 DEF Next

\* The invariant holds of every breaker.
THEOREM InductiveHolds == Spec => []Inductive
BY InitInductive, NextInductive, PTL DEF Spec
----------------------------------------------------------------------------
\* The variables of circuitBreaker() keep their types; the failures it has
\* counted never exceed the threshold.
THEOREM TypeCorrect == Spec => []TypeOK
<1>1. Inductive => TypeOK BY DEF Inductive
<1> QED BY <1>1, InductiveHolds, PTL

\* No more probes than halfOpenMaxCalls run at a time, however calls overlap,
\* are cancelled or outlive their epoch.
THEOREM BoundsProbes == Spec => []ProbesBounded
<1>1. Inductive => ProbesBounded
  <2> SUFFICES ASSUME Inductive PROVE ProbesBounded OBVIOUS
  <2>1. Cardinality(Probes) \in Nat BY ProbesFinite DEF Inductive, Probes
  <2> QED
    BY <2>1, BreakerAssumption DEF Inductive, Counted, TypeOK, ProbesBounded, Probes
<1> QED BY <1>1, InductiveHolds, PTL

\* Only a probe of the current recovery closes the breaker, never a call during
\* which it opened, and it stays open for resetAfter.
THEOREM RecoveryIsFresh == Spec => NoStaleRecovery
<1> DEFINE Fresh ==
      /\ state # "closed" /\ state' = "closed" => \A c \in running \ running' : c \notin overtaken
      /\ state = "open" /\ state' # "open" => now >= openedUntil
<1>1. Inductive /\ [Next]_vars => [Fresh]_vars
  <2> SUFFICES ASSUME Inductive, Next PROVE Fresh BY DEF Fresh
  <2>1. ASSUME NEW c \in Calls, Call(c) PROVE Fresh
    BY <2>1 DEF Call, CallClosed, CallProbesFirst, CallProbes
  <2>2. ASSUME NEW c \in Calls, Succeed(c) PROVE Fresh
    <3>1. state' # state =>
            state = "half_open" /\ epoch = halfOpenEpoch[c]
      BY <2>2 DEF Succeed, ProbesNow, KeepBreaker, CloseBreaker
    <3>2. state = "half_open" => c \notin overtaken \/ halfOpenEpoch[c] # epoch
      BY BreakerAssumption DEF Inductive, OvertakenIsOld, TypeOK
    <3>3. running \ running' = {c} BY <2>2 DEF Succeed, Return
    <3> QED BY <3>1, <3>2, <3>3
  <2>3. ASSUME NEW c \in Calls, Fail(c) \/ Cancelled(c) PROVE Fresh
    BY <2>3 DEF Fail, Cancelled, KeepBreaker, OpenBreaker
  <2>4. CASE Tick BY <2>4 DEF Tick, breaker
  <2> QED BY <2>1, <2>2, <2>3, <2>4 DEF Next, End
<1> QED BY <1>1, InductiveHolds, PTL DEF Spec, NoStaleRecovery

(***************************************************************************)
(* RateLimiter.  The next slot is an interval after the last one taken, so  *)
(* that all starts but the last precede it by an interval; this survives    *)
(* whatever is late or aborted, since a slot is never given back.           *)
(***************************************************************************)
\* The state of the limiter: the clock, the slots and the starts are moments.
RateTyped ==
  /\ rateNow \in Nat /\ rateNext \in Nat /\ rateChain \in Nat /\ rateCalls \in Nat
  /\ rateSlot \in Nat \cup {NoSlot} /\ rateStarts \in Seq(Nat)

\* What makes StartsSpaced inductive: the next slot is an interval after the
\* start before the last, and so is a slot that is taken, which no start follows.
Before(moment) ==
  /\ \A i \in 1..Len(rateStarts) : i < Len(rateStarts) => rateStarts[i] + Interval <= moment
Paced ==
  /\ RateTyped
  /\ \A i \in 1..Len(rateStarts) : rateStarts[i] <= rateNow
  /\ Before(rateNext)
  /\ rateSlot # NoSlot =>
       /\ Before(rateSlot) /\ rateNext = rateSlot + Interval
       /\ \A i \in 1..Len(rateStarts) : rateStarts[i] <= rateSlot
  /\ StartsSpaced

\* No slot is taken at first.
LEMMA RateInitPaced == RateInit => Paced
  BY DEF RateInit, Paced, RateTyped, Before, StartsSpaced, NoSlot

\* A new slot is an interval after the last one.
LEMMA TakeSlotPaced == Paced /\ TakeSlot => Paced'
<1> SUFFICES ASSUME Paced, TakeSlot PROVE Paced'
  OBVIOUS
<1>1. /\ Interval \in Nat /\ rateStarts' = rateStarts /\ rateNow' = rateNow
      /\ rateChain' \in Nat /\ rateCalls' = rateCalls
      /\ rateStarts \in Seq(Nat) /\ rateNow \in Nat /\ rateNext \in Nat
  BY RateAssumption DEF TakeSlot, Paced, RateTyped
<1>2. CASE UNCHANGED <<rateSlot, rateNext>>
  BY <1>1, <1>2 DEF Paced, RateTyped, Before, StartsSpaced
<1>3. CASE rateSlot' = SlotTime /\ rateNext' = SlotTime + Interval
  <2>1. SlotTime \in Nat /\ SlotTime >= rateNow /\ SlotTime >= rateNext
    BY <1>1 DEF SlotTime, Later
  <2>2. \A i \in 1..Len(rateStarts) : rateStarts[i] \in Nat /\ rateStarts[i] <= SlotTime
    BY <1>1, <2>1 DEF Paced
  <2>3. \A i \in 1..Len(rateStarts) : i < Len(rateStarts) => rateStarts[i] + Interval <= SlotTime
    BY <1>1, <2>1, <2>2 DEF Paced, Before
  <2> QED
    BY <1>1, <1>3, <2>1, <2>2, <2>3 DEF Paced, RateTyped, Before, StartsSpaced
<1> QED
  BY <1>2, <1>3 DEF TakeSlot

\* An item starts at its slot or later, after the items before it.
LEMMA StartItemPaced == Paced /\ StartItem => Paced'
<1> SUFFICES ASSUME Paced, StartItem PROVE Paced'
  OBVIOUS
<1> DEFINE n == Len(rateStarts)
<1>1. /\ Interval \in Nat /\ rateStarts \in Seq(Nat) /\ rateNow \in Nat /\ n \in Nat
      /\ rateSlot \in Nat /\ rateNow >= rateSlot /\ rateNext = rateSlot + Interval
      /\ rateNext' = rateNext /\ rateNow' = rateNow /\ rateSlot' = NoSlot
      /\ rateStarts' = Append(rateStarts, rateNow)
  BY RateAssumption DEF StartItem, Paced, RateTyped
<1>2. /\ Len(rateStarts') = n + 1 /\ rateStarts' \in Seq(Nat) /\ rateStarts'[n + 1] = rateNow
      /\ \A i \in 1..n : rateStarts'[i] = rateStarts[i] /\ rateStarts[i] \in Nat
  BY <1>1
<1>3. RateTyped'
  BY <1>1, <1>2 DEF RateTyped, StartItem, Paced
<1>4. \A i \in 1..(n + 1) : rateStarts'[i] <= rateNow
  BY <1>1, <1>2 DEF Paced
<1>5. \A i \in 1..(n + 1) : i < n + 1 => rateStarts'[i] + Interval <= rateNext
  <2> SUFFICES ASSUME NEW i \in 1..n PROVE rateStarts[i] + Interval <= rateNext
    BY <1>1, <1>2
  <2> QED
    BY <1>1, <1>2 DEF Paced, NoSlot
<1>6. \A i \in 1..(n + 1) : i + 2 \in 1..(n + 1) => rateStarts'[i + 2] >= rateStarts'[i] + Interval
  <2> SUFFICES ASSUME NEW i \in 1..(n + 1), i + 2 \in 1..(n + 1)
               PROVE rateStarts'[i + 2] >= rateStarts'[i] + Interval
    OBVIOUS
  <2>1. CASE i + 2 = n + 1
    <3>1. i \in 1..n /\ i < n
      BY <1>1, <2>1
    <3>2. rateStarts[i] + Interval <= rateSlot
      BY <1>1, <3>1 DEF Paced, Before, NoSlot
    <3> QED
      BY <1>1, <1>2, <2>1, <3>1, <3>2
  <2>2. CASE i + 2 \in 1..n
    BY <1>1, <1>2, <2>2 DEF Paced, StartsSpaced
  <2> QED
    BY <1>1, <2>1, <2>2
<1> QED
  BY <1>1, <1>2, <1>3, <1>4, <1>5, <1>6 DEF Paced, Before, StartsSpaced

\* Every step of the limiter keeps the invariant.
LEMMA RateStepPaced == Paced /\ [RateNext]_rateVars => Paced'
<1> SUFFICES ASSUME Paced, [RateNext]_rateVars PROVE Paced'
  OBVIOUS
<1>1. CASE Wait
  BY <1>1, RateAssumption DEF Wait, Paced, RateTyped, Before, StartsSpaced
<1>2. CASE AbortSleep
  BY <1>2 DEF AbortSleep, Paced, RateTyped, Before, StartsSpaced
<1>3. CASE RateTick
  <2>1. \A i \in 1..Len(rateStarts) : rateStarts[i] \in Nat
    BY DEF Paced, RateTyped
  <2> QED
    BY <1>3, <2>1 DEF RateTick, Paced, RateTyped, Before, StartsSpaced
<1>4. CASE UNCHANGED rateVars
  BY <1>4 DEF rateVars, Paced, RateTyped, Before, StartsSpaced
<1> QED
  BY <1>1, <1>2, <1>3, <1>4, TakeSlotPaced, StartItemPaced DEF RateNext

\* Of three consecutive starts the last comes an interval after the first: the
\* rate limiter of work/index.ts keeps its rate whatever is late or aborted.
THEOREM KeepsRate == RateSpec => []StartsSpaced
<1>1. Paced => StartsSpaced
  BY DEF Paced
<1> QED
  BY <1>1, RateInitPaced, RateStepPaced, PTL DEF RateSpec

(***************************************************************************)
(* Wrappers.  What is armed, running and told decides what may happen next: *)
(* a wrapper of one attempt has one timer, a sequential one has either one  *)
(* attempt that runs or one that is due, and what a settlement leaves       *)
(* running has been told.                                                   *)
(***************************************************************************)
\* Timers are armed only while the promise is pending: one for the limit of a wrapper
\* that has one attempt, or for attempts.
Armed ==
  /\ promise # "pending" => timers = {}
  /\ kind \in Bounded => timers \subseteq {0} /\ \A i \in Attempts : i > 1 => run[i] = "unstarted"
  /\ 0 \in timers => kind \in Bounded

\* One attempt after the other: those before the one that runs, or is to start, have
\* failed, and those after it have not started.
InTurn ==
  kind \in Sequential =>
    /\ \A i \in Attempts : run[i] = "running" =>
         /\ timers = {} /\ promise = "pending"
         /\ \A j \in Attempts : /\ j < i => run[j] = "failed"
                                /\ j > i => run[j] = "unstarted"
    /\ \A i \in timers : /\ timers = {i}
                         /\ \A j \in Attempts : run[j] = IF j < i THEN "failed" ELSE "unstarted"

\* What a retry has charged, and what a hedge still waits for.
Charges ==
  kind = "retry" => \A i \in Attempts : run[i] # "unstarted" \/ i \in timers => i <= charged + 1
Hedges == kind = "hedge" /\ promise = "pending" => \A i \in Attempts : run[i] # "succeeded"

\* WrapperTruth without its count.
Settlements ==
  /\ promise = "value" => \E i \in Attempts : run[i] = "succeeded"
  /\ promise = "error" =>
       IF kind = "hedge" THEN \A i \in Attempts : run[i] \in {"failed", "cancelled"}
       ELSE \E i \in Attempts : /\ run[i] = "failed"
                                /\ \A j \in Attempts : j > i => run[j] = "unstarted"
  /\ promise = "cancelled" => parent # "live" \/ \E i \in Attempts : run[i] = "cancelled"
  /\ promise # "pending" => (kind = "uncancellable" /\ parent # "live") \/ Running \subseteq told

Wrapped == WrappersTypeOK /\ Armed /\ InTurn /\ Charges /\ Hedges /\ Settlements

\* Attempts up to a bound that did not grow.
LEMMA NoLater ==
  \A i, c \in Nat : i + 1 <= c + 1 => \A j \in 1..MaxAttempts : j <= i => j <= c + 1
  BY WrapperAssumption

\* There are at least two attempts to number.
LEMMA FirstAttempt == 1 \in Attempts /\ 2 \in Attempts /\ MaxAttempts \in Nat
  BY WrapperAssumption DEF Attempts

\* Before a wrapper is called nothing is armed, told or charged.
LEMMA WrappersInitWrapped ==
  ASSUME NEW kinds \in SUBSET Kinds, NEW parents \in SUBSET {"live", "cancelled", "timeout"},
         WrappersInit(kinds, parents)
  PROVE  Wrapped
<1> USE FirstAttempt, WrapperAssumption DEF WrappersInit, Ended, Bounded, Sequential
<1>1. WrappersTypeOK
  <2>1. run \in [Attempts -> {"unstarted", "running", "exited"} \cup Ended] OBVIOUS
  <2>2. timers \subseteq 0..MaxAttempts OBVIOUS
  <2>3. charged \in 0..Budget OBVIOUS
  <2>4. promise \in {"pending", "value", "error", "cancelled", "timeout"} OBVIOUS
  <2>5. told \subseteq Attempts OBVIOUS
  <2> QED BY <2>1, <2>2, <2>3, <2>4, <2>5 DEF WrappersTypeOK
<1>2. Armed
  <2>1. \A i \in Attempts : i > 1 => run[i] = "unstarted" OBVIOUS
  <2>2. 0 \in timers => kind \in Bounded OBVIOUS
  <2>3. kind \in Bounded => timers \subseteq {0} OBVIOUS
  <2>4. promise # "pending" => timers = {}
    <3>1. CASE Refused BY <3>1
    <3>2. CASE ~Refused BY <3>2
    <3> QED BY <3>1, <3>2
  <2> QED BY <2>1, <2>2, <2>3, <2>4 DEF Armed
<1>3. InTurn
  <2>1. kind \in Sequential => timers = {} /\ promise = "pending" BY DEF Refused
  <2>2. \A i \in Attempts : run[i] = "running" => i = 1 OBVIOUS
  <2>3. \A j \in Attempts : ~(j < 1) /\ (j > 1 => run[j] = "unstarted") BY DEF Attempts
  <2> QED BY <2>1, <2>2, <2>3 DEF InTurn
<1>4. Charges
  <2>1. kind = "retry" => timers = {} BY DEF Refused
  <2>2. \A i \in Attempts : run[i] # "unstarted" => i = 1 OBVIOUS
  <2> QED BY <2>1, <2>2 DEF Charges
<1>5. Hedges BY DEF Hedges
<1>6. Settlements
  <2>1. promise = "cancelled" \/ promise = "pending" OBVIOUS
  <2>2. promise = "cancelled" => parent # "live" /\ Running = {} BY DEF Refused, Running
  <2> QED BY <2>1, <2>2 DEF Settlements
<1> QED BY <1>1, <1>2, <1>3, <1>4, <1>5, <1>6 DEF Wrapped
----------------------------------------------------------------------------
\* A timer of an attempt is not that of the limit.
LEMMA StartWrapped ==
  ASSUME Wrapped, NEW i \in Attempts, Start(i)
  PROVE  Wrapped'
<1> USE FirstAttempt DEF Ended, Bounded, Sequential
<1>1. /\ i \in timers /\ i # 0 /\ timers' = timers \ {i}
      /\ UNCHANGED <<kind, told, parent, charged, windowOver, promise>>
  BY DEF Start
<1>2. /\ \A j \in Attempts : run'[j] = IF j = i THEN "running" ELSE run[j]
      /\ run' \in [Attempts -> {"unstarted", "running", "exited"} \cup Ended]
  BY DEF Start, Wrapped, WrappersTypeOK
<1>3. promise = "pending" /\ kind \notin Bounded BY <1>1 DEF Wrapped, Armed
<1>4. WrappersTypeOK' BY <1>1, <1>2 DEF Wrapped, WrappersTypeOK
<1>5. Armed' BY <1>1, <1>3 DEF Wrapped, Armed
<1>6. InTurn'
  <2>1. CASE kind \in Sequential
    <3>1. /\ timers = {i}
          /\ \A j \in Attempts : run[j] = IF j < i THEN "failed" ELSE "unstarted"
      BY <1>1, <2>1 DEF Wrapped, InTurn
    <3>2. timers' = {} BY <1>1, <3>1
    <3>3. \A j \in Attempts : run'[j] = "running" => j = i BY <1>2, <3>1
    <3>4. \A j \in Attempts : /\ j < i => run'[j] = "failed"
                              /\ j > i => run'[j] = "unstarted"
      BY <1>2, <3>1 DEF Attempts
    <3> QED BY <1>1, <1>3, <3>2, <3>3, <3>4 DEF InTurn
  <2>2. CASE kind \notin Sequential BY <1>1, <2>2 DEF InTurn
  <2> QED BY <2>1, <2>2
<1>7. Charges' BY <1>1, <1>2 DEF Wrapped, Charges
<1>8. Hedges' BY <1>1, <1>2 DEF Wrapped, Hedges
<1>9. Settlements' BY <1>1, <1>3 DEF Settlements
<1> QED BY <1>4, <1>5, <1>6, <1>7, <1>8, <1>9 DEF Wrapped

\* The limit of a wrapper of one attempt.
LEMMA TimeLimitWrapped ==
  ASSUME Wrapped, TimeLimit
  PROVE  Wrapped'
<1> USE FirstAttempt DEF Ended, Bounded, Sequential
<1>1. /\ 0 \in timers /\ promise' = "timeout" /\ timers' = {}
      /\ UNCHANGED <<kind, parent, charged, windowOver>>
      /\ told' = IF ShieldDeaf \/ kind = "offload" THEN told ELSE told \cup Running
  BY DEF TimeLimit, Settle
<1>2. kind \in Bounded /\ promise = "pending" BY <1>1 DEF Wrapped, Armed
<1>3. /\ run' \in [Attempts -> {"unstarted", "running", "exited"} \cup Ended]
      /\ \A i \in Attempts : run'[i] = "running" => run[i] = "running"
      /\ \A i \in Attempts : i > 1 => run'[i] = "unstarted"
      /\ kind = "offload" => run'[1] # "running"
  BY <1>2 DEF TimeLimit, Terminate, Wrapped, WrappersTypeOK, Armed
<1>4. WrappersTypeOK'
  <2>1. told' \subseteq Attempts BY <1>1 DEF Running, Wrapped, WrappersTypeOK
  <2> QED BY <1>1, <1>3, <2>1 DEF Wrapped, WrappersTypeOK
<1>5. Armed' BY <1>1, <1>2, <1>3 DEF Wrapped, Armed
<1>6. InTurn' /\ Charges' /\ Hedges' BY <1>1, <1>2 DEF InTurn, Charges, Hedges
<1>7. Settlements'
  <2>1. CASE kind = "offload"
    <3>1. Running' = {}
      <4>1. \A i \in Attempts : run'[i] # "running" BY <1>3, <2>1 DEF Attempts
      <4> QED BY <4>1 DEF Running
    <3> QED BY <1>1, <3>1 DEF Settlements
  <2>2. CASE kind # "offload"
    <3>1. Running' \subseteq Running BY <1>3 DEF Running
    <3>2. ShieldDeaf => kind = "uncancellable" /\ parent # "live" BY DEF ShieldDeaf
    <3> QED BY <1>1, <2>2, <3>1, <3>2 DEF Settlements
  <2> QED BY <2>1, <2>2
<1> QED BY <1>4, <1>5, <1>6, <1>7 DEF Wrapped

\* A worker that exits without an answer settles nothing, and nothing is left running.
LEMMA ExitWrapped ==
  ASSUME Wrapped, ExitsSilently
  PROVE  Wrapped'
<1> USE FirstAttempt DEF Ended, Bounded, Sequential
<1>1. /\ kind = "offload" /\ run[1] = "running"
      /\ UNCHANGED <<kind, told, parent, timers, charged, windowOver, promise>>
  BY DEF ExitsSilently
<1>2. /\ run' \in [Attempts -> {"unstarted", "running", "exited"} \cup Ended]
      /\ \A i \in Attempts : run'[i] = IF i = 1 THEN "exited" ELSE run[i]
  BY DEF ExitsSilently, Wrapped, WrappersTypeOK
<1>3. WrappersTypeOK' BY <1>1, <1>2 DEF Wrapped, WrappersTypeOK
<1>4. Armed' BY <1>1, <1>2 DEF Wrapped, Armed
<1>5. InTurn' /\ Charges' /\ Hedges' BY <1>1 DEF InTurn, Charges, Hedges
<1>6. Settlements'
  <2>1. Running' \subseteq Running BY <1>2 DEF Running
  <2>2. promise # "error"
    BY <1>1 DEF Wrapped, Armed, Settlements, Attempts
  <2> QED BY <1>1, <1>2, <2>1, <2>2 DEF Wrapped, Settlements
<1> QED BY <1>3, <1>4, <1>5, <1>6 DEF Wrapped

\* The signal of the caller is aborted.
LEMMA ParentAbortsWrapped ==
  ASSUME Wrapped, NEW how \in {"cancelled", "timeout"}, ParentAborts(how)
  PROVE  Wrapped'
<1> USE FirstAttempt DEF Ended, Bounded, Sequential
<1>1. /\ parent = "live" /\ parent' = how /\ UNCHANGED <<kind, charged, windowOver>>
      /\ told' = IF Through(how) /\ kind # "offload" THEN told \cup Running ELSE told
      /\ IF SettlesAtOnce THEN promise' = "cancelled" /\ timers' = {}
         ELSE UNCHANGED <<promise, timers>>
      /\ IF SettlesAtOnce /\ kind = "offload" /\ run[1] = "running" THEN Terminate
         ELSE UNCHANGED run
  BY DEF ParentAborts, Settle
<1>2. /\ run' \in [Attempts -> {"unstarted", "running", "exited"} \cup Ended]
      /\ \A i \in Attempts : run'[i] # run[i] => run'[i] = "cancelled" /\ kind = "offload" /\ i = 1
                                                 /\ run[i] = "running"
      /\ kind = "offload" /\ promise = "pending" => run'[1] # "running"
  BY <1>1 DEF Terminate, SettlesAtOnce, Wrapped, WrappersTypeOK
<1>3. WrappersTypeOK'
  <2>1. told' \subseteq Attempts BY <1>1 DEF Running, Wrapped, WrappersTypeOK
  <2>2. promise' \in {"pending", "value", "error", "cancelled", "timeout"}
    BY <1>1 DEF Wrapped, WrappersTypeOK
  <2>3. timers' \subseteq 0..MaxAttempts BY <1>1 DEF Wrapped, WrappersTypeOK
  <2> QED BY <1>1, <1>2, <2>1, <2>2, <2>3 DEF Wrapped, WrappersTypeOK
<1>4. Armed'
  <2>1. \A i \in Attempts : i > 1 => run'[i] = run[i] BY <1>2 DEF Attempts
  <2>2. timers' = {} \/ (timers' = timers /\ promise' = promise) BY <1>1
  <2> QED BY <1>1, <2>1, <2>2 DEF Wrapped, Armed
<1>5. InTurn'
  <2>1. CASE kind \in Sequential
    <3>1. run' = run BY <1>1, <2>1
    <3>2. CASE SettlesAtOnce
      <4>1. timers # {} BY <2>1, <3>2 DEF SettlesAtOnce
      <4>2. \A i \in Attempts : run[i] # "running" BY <2>1, <4>1 DEF Wrapped, InTurn
      <4>3. timers' = {} BY <1>1, <3>2
      <4> QED BY <3>1, <4>2, <4>3 DEF InTurn
    <3>3. CASE ~SettlesAtOnce BY <1>1, <3>1, <3>3 DEF Wrapped, InTurn
    <3> QED BY <3>2, <3>3
  <2>2. CASE kind \notin Sequential BY <1>1, <2>2 DEF InTurn
  <2> QED BY <2>1, <2>2
<1>6. Charges'
  <2>1. CASE kind = "retry"
    <3>1. run' = run /\ timers' \subseteq timers BY <1>1, <2>1
    <3> QED BY <1>1, <3>1 DEF Wrapped, Charges
  <2>2. CASE kind # "retry" BY <1>1, <2>2 DEF Charges
  <2> QED BY <2>1, <2>2
<1>7. Hedges'
  <2>1. CASE kind = "hedge" BY <1>1, <1>2, <2>1 DEF SettlesAtOnce, Wrapped, Hedges
  <2>2. CASE kind # "hedge" BY <1>1, <2>2 DEF Hedges
  <2> QED BY <2>1, <2>2
<1>8. Settlements'
  <2>1. Running' \subseteq Running /\ parent' # "live" BY <1>1, <1>2 DEF Running
  <2>2. promise' = "cancelled" \/ (promise' = promise /\ run' = run) BY <1>1
  <2>3. promise' # "pending" => (kind = "uncancellable") \/ Running' \subseteq told'
    <3>1. CASE kind = "offload"
      <4>1. CASE promise = "pending"
        <5>1. \A i \in Attempts : run'[i] # "running"
          BY <1>2, <3>1, <4>1 DEF Attempts, Wrapped, Armed
        <5> QED BY <5>1 DEF Running
      <4>2. CASE promise # "pending"
        BY <1>1, <2>1, <3>1, <4>2 DEF Wrapped, Settlements
      <4> QED BY <4>1, <4>2
    <3>2. CASE kind # "offload" BY <1>1, <2>1, <3>2 DEF Through
    <3> QED BY <3>1, <3>2
  <2> QED BY <1>1, <2>1, <2>2, <2>3 DEF Wrapped, Settlements
<1> QED BY <1>3, <1>4, <1>5, <1>6, <1>7, <1>8 DEF Wrapped

\* The window of supervise() may pass without changing anything else.
LEMMA WrapperRests ==
  ASSUME Wrapped, UNCHANGED <<kind, run, told, parent, timers, charged, promise>>,
         windowOver' \in BOOLEAN
  PROVE  Wrapped'
<1>1. WrappersTypeOK' BY DEF Wrapped, WrappersTypeOK
<1>2. Armed' /\ InTurn' /\ Charges' /\ Hedges' BY DEF Wrapped, Armed, InTurn, Charges, Hedges
<1>3. Settlements' BY DEF Wrapped, Settlements, Running
<1> QED BY <1>1, <1>2, <1>3 DEF Wrapped
----------------------------------------------------------------------------
\* An attempt has ended.
Left(i, res) ==
  /\ run[i] = "running" /\ res \in Ended
  /\ run' \in [Attempts -> {"unstarted", "running", "exited"} \cup Ended]
  /\ \A j \in Attempts : run'[j] = IF j = i THEN res ELSE run[j]
  /\ kind' = kind /\ windowOver' = windowOver

\* In turn, an attempt that runs is the only one, the last one started.
LEMMA LastStarted ==
  ASSUME Wrapped, NEW i \in Attempts, NEW res, Left(i, res), kind # "hedge"
  PROVE  /\ Running' = {} \/ promise # "pending"
         /\ \A j \in Attempts : j > i => run'[j] = "unstarted"
         /\ kind \in Sequential => timers = {} /\ promise = "pending" /\ Running' = {}
<1> USE FirstAttempt DEF Ended, Bounded, Sequential, Left
<1>1. CASE kind \in Sequential
  <2>1. /\ timers = {} /\ promise = "pending"
        /\ \A j \in Attempts : /\ j < i => run[j] = "failed"
                               /\ j > i => run[j] = "unstarted"
    BY <1>1 DEF Wrapped, InTurn
  <2>2. \A j \in Attempts : run'[j] # "running" BY <2>1 DEF Attempts
  <2> QED BY <2>1, <2>2 DEF Running, Attempts
<1>2. CASE kind \in Bounded
  <2>1. \A j \in Attempts : j > 1 => run[j] = "unstarted" BY <1>2 DEF Wrapped, Armed
  <2>2. i = 1 BY <2>1 DEF Attempts
  <2>3. \A j \in Attempts : run'[j] # "running" BY <2>1, <2>2 DEF Attempts
  <2> QED BY <1>2, <2>1, <2>2, <2>3 DEF Running, Attempts
<1>3. kind \in Sequential \cup Bounded BY WrapperAssumption DEF Wrapped, WrappersTypeOK
<1> QED BY <1>1, <1>2, <1>3

\* What a settled wrapper promises survives the end of an attempt nobody awaits.
LEMMA UnawaitedEnd ==
  ASSUME Wrapped, NEW i \in Attempts, NEW res, Left(i, res), promise # "pending",
         UNCHANGED <<promise, timers, told, parent, charged>>
  PROVE  Wrapped'
<1> USE FirstAttempt DEF Ended, Bounded, Sequential, Left
<1>1. kind \notin Sequential BY LastStarted DEF Wrapped, InTurn
<1>2. WrappersTypeOK' BY DEF Wrapped, WrappersTypeOK
<1>3. Armed' BY DEF Wrapped, Armed
<1>4. InTurn' /\ Charges' /\ Hedges' BY <1>1 DEF InTurn, Charges, Hedges
<1>5. Settlements'
  <2>1. Running' \subseteq Running BY DEF Running
  <2>2. promise # "error"
    <3>1. kind \in Bounded => i = 1 /\ \A j \in Attempts : j > 1 => run[j] = "unstarted"
      BY DEF Wrapped, Armed, Attempts
    <3>2. kind \in Bounded \cup {"hedge"} BY <1>1, WrapperAssumption DEF Wrapped, WrappersTypeOK
    <3> QED BY <3>1, <3>2 DEF Wrapped, Settlements, Attempts
  <2>3. /\ promise = "value" => \E j \in Attempts : run'[j] = "succeeded"
        /\ promise = "cancelled" => parent # "live" \/ \E j \in Attempts : run'[j] = "cancelled"
    BY DEF Wrapped, Settlements
  <2> QED BY <2>1, <2>2, <2>3 DEF Wrapped, Settlements
<1> QED BY <1>2, <1>3, <1>4, <1>5 DEF Wrapped

\* The promise settles with the end of an attempt, beside which none is left untold.
LEMMA SettlesWrapped ==
  ASSUME Wrapped, NEW i \in Attempts, NEW res, Left(i, res), promise = "pending",
         NEW end \in {"value", "error", "cancelled"}, Settle(end),
         parent' \in {"live", "cancelled", "timeout"}, told' \in SUBSET Attempts,
         charged' = charged, Running' \subseteq told',
         end = "value" => res = "succeeded",
         end = "error" => IF kind = "hedge" THEN \A j \in Attempts : run'[j] \in {"failed", "cancelled"}
                          ELSE res = "failed",
         end = "cancelled" => parent' # "live" \/ res = "cancelled"
  PROVE  Wrapped'
<1> USE FirstAttempt DEF Ended, Bounded, Sequential, Left, Settle
<1>1. WrappersTypeOK' BY DEF Wrapped, WrappersTypeOK
<1>2. Armed' BY DEF Wrapped, Armed
<1>3. InTurn'
  <2>1. kind \in Sequential => Running' = {} BY LastStarted
  <2>2. timers' = {} OBVIOUS
  <2> QED BY <2>1, <2>2 DEF InTurn, Running
<1>4. Charges' BY DEF Wrapped, Charges
<1>5. Hedges' BY DEF Hedges
<1>6. Settlements'
  <2>1. kind # "hedge" => \A j \in Attempts : j > i => run'[j] = "unstarted" BY LastStarted
  <2>2. run'[i] = res /\ promise' = end OBVIOUS
  <2> QED BY <2>1, <2>2 DEF Settlements
<1> QED BY <1>1, <1>2, <1>3, <1>4, <1>5, <1>6 DEF Wrapped

\* Attempts of which one follows the failure of another.
LEMMA InTurnWrapped ==
  ASSUME Wrapped, NEW i \in Attempts, NEW res, Left(i, res), promise = "pending",
         kind \in {"retry", "supervise"}, EndsInTurn(i, res)
  PROVE  Wrapped'
<1> USE FirstAttempt DEF Ended, Bounded, Sequential
<1>1. timers = {} /\ Running' = {} BY LastStarted
<1>2. /\ \A j \in Attempts : /\ j < i => run[j] = "failed"
                             /\ j > i => run[j] = "unstarted"
      /\ parent \in {"live", "cancelled", "timeout"} /\ told \in SUBSET Attempts
      /\ charged \in 0..Budget
  BY DEF Wrapped, InTurn, Left, WrappersTypeOK
<1>3. CASE res # "failed"
  <2>1. Settle(EndOf(res)) /\ UNCHANGED <<told, parent, charged>> BY <1>3 DEF EndsInTurn
  <2>2. /\ EndOf(res) \in {"value", "error", "cancelled"}
        /\ EndOf(res) = "value" => res = "succeeded"
        /\ EndOf(res) # "error" /\ (EndOf(res) = "cancelled" => res = "cancelled")
    BY <1>3 DEF EndOf, Left
  <2> QED BY <1>1, <1>2, <2>1, <2>2, SettlesWrapped
<1>4. CASE res = "failed"
  <2>1. RetryOrStop(i) BY <1>4 DEF EndsInTurn
  <2>2. CASE Settle("error") /\ UNCHANGED <<parent, told, charged>>
    BY <1>1, <1>2, <1>4, <2>2, SettlesWrapped
  <2>3. ASSUME Settle("cancelled"), UNCHANGED <<told, charged>>,
               parent' = IF parent = "live" THEN "cancelled" ELSE parent
        PROVE  Wrapped'
    <3>1. parent' \in {"live", "cancelled", "timeout"} /\ parent' # "live" BY <1>2, <2>3
    <3> QED BY <1>1, <1>2, <2>3, <3>1, SettlesWrapped
  <2>4. CASE /\ MayRestart(i) /\ (kind = "retry" => charged < Budget)
             /\ charged' = IF kind = "retry" THEN charged + 1 ELSE charged
             /\ IF parent = "live" THEN timers' = {i + 1} /\ UNCHANGED promise
                ELSE Settle("cancelled")
             /\ UNCHANGED <<parent, told>>
    <3>1. /\ i + 1 \in Attempts /\ i \in Nat /\ i # 0
          /\ \/ timers' = {} /\ promise' = "cancelled" /\ parent # "live"
             \/ timers' = {i + 1} /\ promise' = "pending"
      BY <2>4 DEF MayRestart, Attempts, Settle
    <3>2. /\ charged' \in 0..Budget /\ charged \in Nat /\ charged' \in Nat
          /\ kind = "retry" => charged' = charged + 1
      BY <1>2, <2>4, WrapperAssumption
    <3>3. WrappersTypeOK'
      <4>1. i + 1 \in 0..MaxAttempts BY <3>1 DEF Attempts
      <4>2. timers' \subseteq 0..MaxAttempts BY <3>1, <4>1
      <4> QED BY <2>4, <3>1, <3>2, <4>2 DEF Left, Wrapped, WrappersTypeOK
    <3>4. Armed'
      <4>1. 0 \notin timers' BY <3>1
      <4> QED BY <3>1, <4>1 DEF Left, Armed
    <3>5. InTurn'
      <4>1. \A j \in Attempts : run'[j] # "running" BY <1>1 DEF Running
      <4>2. \A j \in Attempts : run'[j] = IF j < i + 1 THEN "failed" ELSE "unstarted"
        <5> SUFFICES ASSUME NEW j \in Attempts
                     PROVE  run'[j] = IF j < i + 1 THEN "failed" ELSE "unstarted"
          OBVIOUS
        <5>1. CASE j = i BY <1>4, <3>1, <5>1 DEF Left, Attempts
        <5>2. CASE j < i BY <1>2, <3>1, <5>2 DEF Left, Attempts
        <5>3. CASE j > i BY <1>2, <3>1, <5>3 DEF Left, Attempts
        <5> QED BY <3>1, <5>1, <5>2, <5>3 DEF Attempts
      <4> QED BY <3>1, <4>1, <4>2 DEF InTurn
    <3>6. Charges'
      <4>1. CASE kind = "retry"
        <5>1. i <= charged + 1 BY <4>1 DEF Wrapped, Charges, Left
        <5>2. i + 1 <= charged' + 1 BY <3>1, <3>2, <4>1, <5>1
        <5>3. \A j \in Attempts : run'[j] # "unstarted" => j <= i
          BY <1>2, <3>1 DEF Left, Attempts
        <5>4. \A j \in Attempts : j <= i => j <= charged' + 1
          <6>1. charged' \in Nat BY <3>2
          <6> QED BY <3>1, <5>2, <6>1, NoLater DEF Attempts
        <5> QED BY <3>1, <5>2, <5>3, <5>4 DEF Charges
      <4>2. CASE kind # "retry" BY <4>2 DEF Charges, Left
      <4> QED BY <4>1, <4>2
    <3>7. Hedges' BY DEF Hedges, Left
    <3>8. Settlements'
      <4>1. promise' \in {"pending", "cancelled"} /\ (promise' = "cancelled" => parent' # "live")
        BY <2>4, <3>1
      <4> QED BY <1>1, <4>1 DEF Settlements
    <3> QED BY <3>3, <3>4, <3>5, <3>6, <3>7, <3>8 DEF Wrapped
  <2> QED BY <2>1, <2>2, <2>3, <2>4 DEF RetryOrStop
<1> QED BY <1>3, <1>4

\* Attempts beside each other: the first success tells the others.
LEMMA HedgedWrapped ==
  ASSUME Wrapped, NEW i \in Attempts, NEW res, Left(i, res), promise = "pending",
         kind = "hedge", EndsHedged(i, res)
  PROVE  Wrapped'
<1> USE FirstAttempt DEF Ended, Bounded, Sequential
<1>1. UNCHANGED <<parent, charged>> BY DEF EndsHedged
<1>2. /\ parent \in {"live", "cancelled", "timeout"} /\ told \in SUBSET Attempts
      /\ \A j \in Attempts : run[j] # "succeeded"
  BY DEF Wrapped, WrappersTypeOK, Hedges
<1>3. CASE res = "succeeded"
  <2>1. Settle("value") /\ told' = told \cup (Running \ {i}) BY <1>3 DEF EndsHedged, LosersTold
  <2>2. Running' \subseteq told' BY <1>3, <2>1 DEF Running, Left
  <2>3. told' \in SUBSET Attempts BY <1>2, <2>1 DEF Running
  <2> QED BY <1>1, <1>2, <1>3, <2>1, <2>2, <2>3, SettlesWrapped
<1>4. CASE res # "succeeded" /\ AllEnded(i)
  <2>1. Settle("error") /\ told' = told BY <1>4 DEF EndsHedged
  <2>2. \A j \in Attempts : run'[j] \in {"failed", "cancelled"}
    <3> DEFINE E == {j \in Attempts : run[j] \in Ended}
    <3>1. /\ IsFiniteSet(Attempts) /\ Cardinality(Attempts) = MaxAttempts
      <4>1. 1 \in Int /\ MaxAttempts \in Int /\ ~(1 > MaxAttempts)
        BY WrapperAssumption
      <4>2. MaxAttempts - 1 + 1 = MaxAttempts BY <4>1
      <4> QED BY <4>1, <4>2, FS_Interval DEF Attempts
    <3>2. IsFiniteSet(E) /\ i \notin E BY <3>1, FS_Subset DEF Left
    <3>3. Cardinality(E \cup {i}) = Cardinality(E) + 1 BY <3>2, FS_AddElement
    <3>4. Cardinality(E \cup {i}) = Cardinality(Attempts) BY <1>4, <3>1, <3>3 DEF AllEnded
    <3>5. E \cup {i} = Attempts
      <4>1. E \cup {i} \in SUBSET Attempts OBVIOUS
      <4> QED BY <3>1, <3>4, <4>1, FS_Subset
    <3>6. \A j \in Attempts : j = i \/ run[j] \in Ended BY <3>5
    <3> QED BY <1>2, <1>4, <3>6 DEF Left
  <2>3. Running' = {} BY <2>2 DEF Running
  <2> QED BY <1>1, <1>2, <2>1, <2>2, <2>3, SettlesWrapped
<1>5. CASE res # "succeeded" /\ ~AllEnded(i)
  <2>1. UNCHANGED <<promise, timers, told>> BY <1>5 DEF EndsHedged
  <2>2. WrappersTypeOK' BY <1>1, <2>1 DEF Left, Wrapped, WrappersTypeOK
  <2>3. Armed' BY <2>1 DEF Left, Wrapped, Armed
  <2>4. InTurn' /\ Charges' BY DEF Left, InTurn, Charges
  <2>5. Hedges' BY <1>2, <1>5 DEF Left, Hedges
  <2>6. Settlements' BY <2>1 DEF Settlements
  <2> QED BY <2>2, <2>3, <2>4, <2>5, <2>6 DEF Wrapped
<1> QED BY <1>3, <1>4, <1>5

\* The fallback follows the failure of the primary at once.
LEMMA FallsBackWrapped ==
  ASSUME Wrapped, kind = "fallback", run[1] = "running", promise = "pending",
         run' = [run EXCEPT ![1] = "failed", ![2] = "running"],
         told' = IF parent = "live" THEN told ELSE told \cup {2},
         UNCHANGED <<promise, timers, parent, charged, kind, windowOver>>
  PROVE  Wrapped'
<1> USE FirstAttempt DEF Ended, Bounded, Sequential
<1>1. /\ timers = {} /\ \A j \in Attempts : j > 1 => run[j] = "unstarted"
  BY DEF Wrapped, InTurn
<1>2. /\ run' \in [Attempts -> {"unstarted", "running", "exited"} \cup Ended]
      /\ \A j \in Attempts : run'[j] = IF j = 1 THEN "failed" ELSE IF j = 2 THEN "running"
                                       ELSE "unstarted"
  BY <1>1 DEF Wrapped, WrappersTypeOK, Attempts
<1>3. WrappersTypeOK' BY <1>2 DEF Wrapped, WrappersTypeOK
<1>4. Armed' BY DEF Wrapped, Armed
<1>5. InTurn'
  <2>1. \A j \in Attempts : run'[j] = "running" => j = 2 BY <1>2
  <2>2. \A j \in Attempts : /\ j < 2 => run'[j] = "failed"
                            /\ j > 2 => run'[j] = "unstarted"
    BY <1>2 DEF Attempts
  <2> QED BY <1>1, <2>1, <2>2 DEF InTurn
<1>6. Charges' /\ Hedges' /\ Settlements' BY DEF Charges, Hedges, Settlements
<1> QED BY <1>3, <1>4, <1>5, <1>6 DEF Wrapped

\* The end of an attempt settles the wrapper, arms the next wait, or is heard by nobody.
LEMMA AttemptEndsWrapped ==
  ASSUME Wrapped, NEW i \in Attempts, NEW res \in Ended, AttemptEnds(i, res)
  PROVE  Wrapped'
<1> DEFINE Falls == kind = "fallback" /\ i = 1 /\ res = "failed" /\ promise = "pending"
<1>1. run[i] = "running" /\ UNCHANGED <<kind, windowOver>> BY DEF AttemptEnds
<1>2. CASE Falls BY <1>1, <1>2, FallsBackWrapped DEF AttemptEnds
<1>3. CASE ~Falls
  <2>1. Left(i, res)
    BY <1>1, <1>3 DEF AttemptEnds, Left, Wrapped, WrappersTypeOK
  <2>2. CASE promise # "pending"
    BY <1>3, <2>1, <2>2, UnawaitedEnd DEF AttemptEnds
  <2>3. CASE promise = "pending" /\ kind \in {"retry", "supervise"}
    <3>1. EndsInTurn(i, res) BY <1>3, <2>3 DEF AttemptEnds, Bounded
    <3> QED BY <2>1, <2>3, <3>1, InTurnWrapped
  <2>4. CASE promise = "pending" /\ kind = "hedge"
    <3>1. EndsHedged(i, res) BY <1>3, <2>4 DEF AttemptEnds, Bounded
    <3> QED BY <2>1, <2>4, <3>1, HedgedWrapped
  <2>5. CASE promise = "pending" /\ kind \in Bounded \cup {"fallback"}
    <3>1. /\ UNCHANGED <<told, parent, charged>>
          /\ \/ Settle(EndOf(res))
             \/ Settle("cancelled") /\ parent = "cancelled"
      BY <1>3, <2>5 DEF AttemptEnds, Bounded, EndsBounded
    <3>2. /\ EndOf(res) \in {"value", "error", "cancelled"}
          /\ EndOf(res) = "value" => res = "succeeded"
          /\ EndOf(res) = "error" => res = "failed"
          /\ EndOf(res) = "cancelled" => res = "cancelled"
      BY DEF EndOf, Ended
    <3>3. Running' = {} /\ kind # "hedge" BY <2>1, <2>5, LastStarted DEF Bounded
    <3>4. parent \in {"live", "cancelled", "timeout"} /\ told \in SUBSET Attempts
      BY DEF Wrapped, WrappersTypeOK
    <3> QED BY <2>1, <2>5, <3>1, <3>2, <3>3, <3>4, SettlesWrapped
  <2>6. kind \in Bounded \cup {"retry", "supervise", "hedge", "fallback"}
    BY WrapperAssumption DEF Wrapped, WrappersTypeOK, Bounded
  <2> QED BY <2>2, <2>3, <2>4, <2>5, <2>6
<1> QED BY <1>2, <1>3

\* Every step of a wrapper keeps the invariant.
LEMMA WrappersNextWrapped == Wrapped /\ [WrappersNext]_wrapVars => Wrapped'
<1> SUFFICES ASSUME Wrapped, [WrappersNext]_wrapVars PROVE Wrapped' OBVIOUS
<1>1. CASE \E i \in Attempts : SomeAttemptEnds(i)
  BY <1>1, AttemptEndsWrapped DEF SomeAttemptEnds
<1>2. CASE \E i \in Attempts : Start(i) BY <1>2, StartWrapped
<1>3. CASE \E how \in {"cancelled", "timeout"} : ParentAborts(how)
  BY <1>3, ParentAbortsWrapped
<1>4. CASE TimeLimit BY <1>4, TimeLimitWrapped
<1>5. CASE ExitsSilently BY <1>5, ExitWrapped
<1>6. CASE WindowPasses BY <1>6, WrapperRests DEF WindowPasses
<1>7. CASE UNCHANGED wrapVars
  BY <1>7, WrapperRests DEF wrapVars, Wrapped, WrappersTypeOK
<1> QED BY <1>1, <1>2, <1>3, <1>4, <1>5, <1>6, <1>7 DEF WrappersNext

\* What is armed, told, charged and running goes together, in every wrapper.
THEOREM WrappersInductive == WrappersSpec => []Wrapped
<1>1. ASSUME WrappersInit(Kinds, {"live", "cancelled", "timeout"}) PROVE Wrapped
  BY <1>1, WrappersInitWrapped
<1> QED BY <1>1, WrappersNextWrapped, PTL DEF WrappersSpec

\* Every attempt of a retry but the first was charged.
LEMMA AttemptsCharged ==
  ASSUME Wrapped, kind = "retry"
  PROVE  Cardinality({i \in Attempts : run[i] # "unstarted"}) <= charged + 1
<1> DEFINE Started == {i \in Attempts : run[i] # "unstarted"}
<1>1. charged \in Nat BY DEF Wrapped, WrappersTypeOK
<1>2. IsFiniteSet(1..charged + 1) /\ Cardinality(1..charged + 1) = charged + 1
  <2>1. 1 \in Int /\ charged + 1 \in Int /\ ~(1 > charged + 1) BY <1>1
  <2>2. charged + 1 - 1 + 1 = charged + 1 BY <1>1
  <2> QED BY <2>1, <2>2, FS_Interval
<1>3. Started \in SUBSET (1..charged + 1) BY <1>1 DEF Wrapped, Charges, Attempts
<1> HIDE DEF Started
<1>4. Cardinality(Started) <= Cardinality(1..charged + 1) BY <1>2, <1>3, FS_Subset
<1>5. Cardinality(Started) <= charged + 1 BY <1>2, <1>4, Zenon
<1> QED BY <1>5 DEF Started

\* A settled wrapper says what happened to its attempts and leaves none running that was
\* not told to stop, for every number of attempts (run/index.ts:172-506, worker/index.ts).
THEOREM WrappersAreTrue == WrappersSpec => []WrapperTruth
<1>1. Wrapped => WrapperTruth
  BY AttemptsCharged DEF Wrapped, Settlements, Armed, WrapperTruth
<1> QED BY <1>1, WrappersInductive, PTL

\* No attempt starts after the wrapper settled, or beside another unless it hedges.
THEOREM AttemptsStartInTurn == WrappersSpec => AttemptsInTurn
<1> DEFINE Starts ==
      \A i \in Attempts :
        run[i] = "unstarted" /\ run'[i] = "running" =>
          /\ promise = "pending"
          /\ kind \in Sequential => \A j \in 1..i - 1 : run'[j] = "failed"
<1>1. Wrapped /\ [WrappersNext]_wrapVars => [Starts]_wrapVars
  <2> SUFFICES ASSUME Wrapped, WrappersNext, NEW i \in Attempts,
                      run[i] = "unstarted", run'[i] = "running"
               PROVE  /\ promise = "pending"
                      /\ kind \in Sequential => \A j \in 1..i - 1 : run'[j] = "failed"
    OBVIOUS
  <2> USE FirstAttempt
  <2>0. run \in [Attempts -> {"unstarted", "running", "exited"} \cup Ended]
    BY DEF Wrapped, WrappersTypeOK
  <2>1. ASSUME NEW k \in Attempts, NEW res \in Ended, AttemptEnds(k, res)
        PROVE  /\ promise = "pending" /\ i = 2 /\ run'[1] = "failed"
    BY <2>0, <2>1 DEF AttemptEnds, Ended
  <2>2. ASSUME NEW k \in Attempts, Start(k)
        PROVE  /\ promise = "pending"
               /\ kind \in Sequential => \A j \in 1..i - 1 : run'[j] = "failed"
    <3>1. /\ k \in timers /\ run' = [run EXCEPT ![k] = "running"] BY <2>2 DEF Start
    <3>2. k = i BY <2>0, <3>1
    <3>3. promise = "pending" BY <3>1 DEF Wrapped, Armed
    <3>4. ASSUME kind \in Sequential, NEW j \in 1..i - 1 PROVE run'[j] = "failed"
      <4>1. j \in Attempts /\ j < i BY <3>4 DEF Attempts
      <4>2. run[j] = "failed" BY <3>1, <3>2, <3>4, <4>1 DEF Wrapped, InTurn
      <4> QED BY <2>0, <3>1, <3>2, <4>1, <4>2
    <3> QED BY <3>3, <3>4
  <2>3. ASSUME NEW how, ParentAborts(how) PROVE FALSE
    BY <2>0, <2>3 DEF ParentAborts, Terminate
  <2>4. ~TimeLimit BY <2>0 DEF TimeLimit, Terminate
  <2>5. ~ExitsSilently /\ ~WindowPasses BY <2>0 DEF ExitsSilently, WindowPasses
  <2>6. CASE \E k \in Attempts : SomeAttemptEnds(k)
    <3>1. promise = "pending" /\ i = 2 /\ run'[1] = "failed"
      BY <2>1, <2>6 DEF SomeAttemptEnds
    <3>2. \A j \in 1..i - 1 : j = 1 BY <3>1
    <3> QED BY <3>1, <3>2
  <2> QED BY <2>2, <2>3, <2>4, <2>5, <2>6 DEF WrappersNext
<1>2. WrappersSpec => [][Starts]_wrapVars
  BY <1>1, WrappersInductive, PTL DEF WrappersSpec
<1> QED BY <1>2 DEF AttemptsInTurn

(***************************************************************************)
(* Candidates.  While firstAcceptable goes on, there is a decision for each *)
(* attempt and the attempts form a trail: a candidate is retried or left for*)
(* the next for the reason that the decision between them names.            *)
(***************************************************************************)
\* What the recorder and the buffer hold, and where the loops stand.
AttemptsNoted == [candidate : 1..CandCount, outcome : {"succeeded", "failed", "cancelled"},
                  reason : Dispositions \cup {NoReason}]
DecisionsNoted == [candidate : 1..CandCount, decision : Dispositions \cup Acceptances]
CandTyped ==
  /\ candLimit \in Nat \ {0} /\ candLate \in BOOLEAN /\ candDropped \in Nat
  /\ candAt \in [candidate : 1..CandCount, attempt : 1..CandTimes]
  /\ candStage \in {"trying", "sleeping", "done"}
  /\ candStage = "sleeping" => candAt.attempt < CandTimes
  /\ candAttempts \in Seq(AttemptsNoted) /\ candDecisions \in Seq(DecisionsNoted)
  /\ candResult = "pending" <=> candStage # "done"

Reason(i) == candDecisions[i].decision
\* The CandTimes attempts up to number i were all of one candidate.
UsedUp(i) ==
  CandTimes <= i /\ \A j \in (i + 1 - CandTimes)..i :
                      candAttempts[j].candidate = candAttempts[i].candidate
\* The attempt of number i left its candidate for the next.
LeftFor(i, c) ==
  /\ c = candAttempts[i].candidate + 1
  /\ Reason(i) \in {"quality_rejected", "try_next_candidate", "retry_same_candidate"}
  /\ Reason(i) = "retry_same_candidate" => UsedUp(i)
\* And here it did, or kept it.
GoneOn(i) ==
  \/ candAttempts[i + 1].candidate = candAttempts[i].candidate /\ Reason(i) = "retry_same_candidate"
  \/ LeftFor(i, candAttempts[i + 1].candidate)

\* While the loops run there is a decision for every attempt, its own.
Paired ==
  /\ Len(candDecisions) = Len(candAttempts) /\ Len(candAttempts) <= candLimit
  /\ candDropped > 0 => Len(candAttempts) = candLimit
  /\ \A i \in 1..Len(candAttempts) : Explains(candDecisions[i], candAttempts[i])
Trail == \A i \in 1..(Len(candAttempts) - 1) : GoneOn(i)

\* The attempts that the candidate of candAt has made end those that are recorded.
Made == IF candStage = "sleeping" THEN candAt.attempt ELSE candAt.attempt - 1
HereAttempts ==
  LET n == Len(candAttempts)
  IN /\ Made <= n /\ \A j \in (n + 1 - Made)..n : candAttempts[j].candidate = candAt.candidate
     /\ Made > 0 => Reason(n) = "retry_same_candidate"
     /\ Made = 0 => n = 0 \/ LeftFor(n, candAt.candidate)

Selecting ==
  /\ CandTyped /\ SelectionTruth
  /\ candStage # "done" => Paired /\ Trail /\ (candDropped = 0 => HereAttempts)

\* An attempt that is recorded follows those before it as it must.
LEMMA AttemptFollows ==
  ASSUME Selecting, candStage = "trying", Len(candAttempts) < candLimit,
         NEW a \in AttemptsNoted, a.candidate = candAt.candidate,
         candAttempts' = Append(candAttempts, a),
         Len(candDecisions') > Len(candAttempts),
         \A i \in 1..Len(candAttempts) : candDecisions'[i] = candDecisions[i]
  PROVE  /\ candAttempts' \in Seq(AttemptsNoted) /\ Len(candAttempts) \in Nat
         /\ Len(candAttempts') = Len(candAttempts) + 1
         /\ candDropped = 0
         /\ candAttempts'[Len(candAttempts) + 1] = a
         /\ \A i \in 1..Len(candAttempts) : candAttempts'[i] = candAttempts[i]
         /\ \A i \in 1..Len(candAttempts) : Explains(candDecisions'[i], candAttempts'[i])
         /\ Trail'
<1> DEFINE n == Len(candAttempts)
           c == candAt.candidate
<1>1. /\ candAttempts \in Seq(AttemptsNoted) /\ n \in Nat /\ candLimit \in Nat /\ candDropped \in Nat
      /\ Paired /\ Trail
  BY DEF Selecting, CandTyped
<1>2. candDropped = 0 /\ HereAttempts
  <2>1. ~(candDropped > 0) BY <1>1 DEF Paired
  <2>2. candDropped = 0 BY <1>1, <2>1
  <2> QED BY <2>2 DEF Selecting
<1>3. /\ candAttempts' \in Seq(AttemptsNoted) /\ Len(candAttempts') = n + 1
      /\ candAttempts'[n + 1] = a /\ \A i \in 1..n : candAttempts'[i] = candAttempts[i]
  BY <1>1
<1>4. \A i \in 1..n : Explains(candDecisions'[i], candAttempts'[i])
  BY <1>1, <1>3 DEF Paired
<1>5. ASSUME NEW i \in 1..n, UsedUp(i) PROVE UsedUp(i)'
  <2>1. CandTimes \in Nat /\ CandTimes <= i BY <1>5, CandidatesAssumption DEF UsedUp
  <2>2. \A j \in (i + 1 - CandTimes)..i : j \in 1..n BY <1>1, <2>1
  <2>3. \A j \in (i + 1 - CandTimes)..i : candAttempts'[j] = candAttempts[j] BY <1>3, <2>2
  <2> QED BY <1>3, <1>5, <2>1, <2>3 DEF UsedUp
<1>6. ASSUME NEW i \in 1..n, NEW d, LeftFor(i, d) PROVE LeftFor(i, d)'
  <2>1. Reason(i)' = Reason(i) BY DEF Reason
  <2> QED BY <1>3, <1>5, <1>6, <2>1 DEF LeftFor
<1>7. ASSUME NEW i \in 1..n PROVE GoneOn(i)'
  <2>1. Reason(i)' = Reason(i) /\ candAttempts'[i] = candAttempts[i] BY <1>3 DEF Reason
  <2>2. CASE i < n
    <3>1. i \in 1..(n - 1) /\ i + 1 \in 1..n BY <1>1, <2>2
    <3>2. GoneOn(i) BY <1>1, <3>1 DEF Trail
    <3>3. candAttempts'[i + 1] = candAttempts[i + 1] BY <1>3, <3>1
    <3>4. CASE LeftFor(i, candAttempts[i + 1].candidate)
      <4>1. LeftFor(i, candAttempts[i + 1].candidate)' BY <1>6, <3>3, <3>4
      <4> QED BY <4>1 DEF GoneOn
    <3> QED BY <2>1, <3>2, <3>3, <3>4 DEF GoneOn
  <2>3. CASE i = n
    <3>1. n # 0 /\ candAttempts'[i + 1].candidate = c BY <1>1, <1>3, <2>3
    <3>2. Made \in Nat /\ Made <= n
      <4>1. candAt.attempt \in 1..CandTimes BY DEF Selecting, CandTyped
      <4> QED BY <1>2, <4>1, CandidatesAssumption DEF HereAttempts, Made
    <3>3. CASE Made > 0
      <4>1. n \in (n + 1 - Made)..n BY <1>1, <3>2, <3>3
      <4>2. candAttempts[n].candidate = c /\ Reason(n) = "retry_same_candidate"
        BY <1>2, <3>3, <4>1 DEF HereAttempts
      <4> QED BY <2>1, <2>3, <3>1, <4>2 DEF GoneOn
    <3>4. CASE Made = 0
      <4>1. LeftFor(i, c) BY <1>2, <2>3, <3>1, <3>4 DEF HereAttempts
      <4>2. LeftFor(i, candAttempts'[i + 1].candidate)
        BY <3>1, <4>1
      <4>3. \A d : d = candAttempts'[i + 1].candidate => LeftFor(i, d)' BY <1>6, <4>2
      <4> QED BY <4>3 DEF GoneOn
    <3> QED BY <3>2, <3>3, <3>4
  <2> QED BY <1>1, <2>2, <2>3
<1>8. Trail'
  <2>1. \A i \in 1..(Len(candAttempts') - 1) : i \in 1..n BY <1>1, <1>3
  <2> QED BY <1>7, <2>1 DEF Trail
<1> QED BY <1>1, <1>2, <1>3, <1>4, <1>8

\* A result whose attempts follow each other, each with its decision, and whose last
\* attempt leads to it, is selected as SelectionTruth says.
LEMMA SelectedAsItMust ==
  ASSUME NEW n \in Nat, Len(candAttempts') = n, Len(candDecisions') >= n, Trail',
         candAttempts' \in Seq(AttemptsNoted),
         \A i \in 1..n : \/ Explains(candDecisions'[i], candAttempts'[i])
                         \/ candLate' /\ i = n /\ candResult' = "terminal",
         candDropped' > 0 => n = candLimit',
         candDropped' = 0 =>
           /\ candResult' = "accepted" <=> candAttempts'[n].outcome = "succeeded"
                                             /\ Reason(n)' = "accepted"
           /\ candResult' = "exhausted" => candAttempts'[n].candidate = CandCount
  PROVE  SelectionTruth'
<1>1. \A i \in 1..(n - 1) : GoneOn(i)' BY DEF Trail
<1>2. \A i \in 1..(n - 1) :
        IF candAttempts'[i + 1].candidate = candAttempts'[i].candidate
          THEN Reason(i)' = "retry_same_candidate"
          ELSE /\ candAttempts'[i + 1].candidate = candAttempts'[i].candidate + 1
               /\ Reason(i)' \in {"quality_rejected", "try_next_candidate", "retry_same_candidate"}
               /\ Reason(i)' = "retry_same_candidate" => UsedUp(i)'
  <2> SUFFICES ASSUME NEW i \in 1..(n - 1)
               PROVE  IF candAttempts'[i + 1].candidate = candAttempts'[i].candidate
                        THEN Reason(i)' = "retry_same_candidate"
                        ELSE /\ candAttempts'[i + 1].candidate = candAttempts'[i].candidate + 1
                             /\ Reason(i)' \in {"quality_rejected", "try_next_candidate", "retry_same_candidate"}
                             /\ Reason(i)' = "retry_same_candidate" => UsedUp(i)'
    OBVIOUS
  <2>1. GoneOn(i)' BY <1>1
  <2>2. candAttempts'[i] \in AttemptsNoted
    <3>1. i \in 1..n OBVIOUS
    <3> QED BY <3>1
  <2>3. candAttempts'[i].candidate # candAttempts'[i].candidate + 1
    BY <2>2, CandidatesAssumption DEF AttemptsNoted
  <2> QED BY <2>1, <2>3 DEF GoneOn, LeftFor
<1> QED BY <1>2 DEF SelectionTruth, UsedUp, Reason

\* Where the loops go on, the attempt just recorded leads there.
LEMMA GoneOnWith ==
  ASSUME Selecting, candStage = "trying", NEW d \in Dispositions \cup Acceptances, GoOn(d)
  PROVE  /\ candAt' \in [candidate : 1..CandCount, attempt : 1..CandTimes]
         /\ \/ /\ candStage' = "done" /\ candAt' = candAt
               /\ candResult' \in {"thrown", "accepted", "exhausted", "terminal",
                                   "requires_user_input"}
               /\ candResult' = "accepted" <=> d = "accepted"
               /\ candResult' = "exhausted" => candAt.candidate = CandCount
            \/ /\ candStage' = "sleeping" /\ candAt' = candAt /\ candResult' = "pending"
               /\ candAt.attempt < CandTimes /\ d = "retry_same_candidate"
            \/ /\ candStage' = "trying" /\ candResult' = "pending"
               /\ candAt'.candidate = candAt.candidate + 1 /\ candAt'.attempt = 1
               /\ d \in {"quality_rejected", "try_next_candidate", "retry_same_candidate"}
               /\ d = "retry_same_candidate" => candAt.attempt = CandTimes
<1>1. /\ candAt \in [candidate : 1..CandCount, attempt : 1..CandTimes] /\ candResult = "pending"
      /\ CandCount \in Nat \ {0} /\ CandTimes \in Nat \ {0}
  BY CandidatesAssumption DEF Selecting, CandTyped
<1>2. CASE d = "accepted"
  BY <1>1, <1>2 DEF GoOn, Finish, Retries
<1>3. CASE d \in {"terminal", "requires_user_input"}
  BY <1>1, <1>3 DEF GoOn, Finish, Retries
<1>4. CASE Retries(d)
  BY <1>1, <1>4 DEF GoOn, Finish, Retries
<1>5. CASE d \in {"quality_rejected", "try_next_candidate", "retry_same_candidate"} /\ ~Retries(d)
  <2>1. NextCandidate BY <1>5 DEF GoOn, Retries
  <2>2. d = "retry_same_candidate" => candAt.attempt = CandTimes BY <1>1, <1>5 DEF Retries
  <2>3. CASE candAt.candidate = CandCount
    BY <1>1, <1>5, <2>1, <2>3 DEF NextCandidate, Finish
  <2>4. CASE candAt.candidate # CandCount
    <3>1. /\ candAt' = [candidate |-> candAt.candidate + 1, attempt |-> 1]
          /\ candStage' = "trying" /\ candResult' = "pending"
      BY <1>1, <2>1, <2>4 DEF NextCandidate
    <3>2. candAt.candidate + 1 \in 1..CandCount /\ 1 \in 1..CandTimes BY <1>1, <2>4
    <3> QED BY <1>5, <2>2, <3>1, <3>2
  <2> QED BY <2>3, <2>4
<1> QED BY <1>2, <1>3, <1>4, <1>5 DEF Dispositions, Acceptances

\* A decision is recorded with the attempt, or neither is.
LEMMA DecideSelecting ==
  ASSUME Selecting, NEW d \in Dispositions \cup Acceptances, Decide(d)
  PROVE  Selecting'
<1> PICK n : n = Len(candAttempts) OBVIOUS
<1> DEFINE c == candAt.candidate
           outcome == IF d \in Acceptances THEN "succeeded" ELSE "failed"
           reason == IF d \in Acceptances THEN NoReason ELSE d
           a == [candidate |-> c, outcome |-> outcome, reason |-> reason]
           b == [candidate |-> c, decision |-> d]
<1>1. /\ candStage = "trying" /\ Paired /\ Trail /\ CandTyped
      /\ GoOn(d) /\ candDecisions' = Buffered(candDecisions, d) /\ RecordAttempt(outcome, reason)
      /\ candLimit' = candLimit /\ candLate' = candLate
  BY DEF Decide, Selecting
<1>2. /\ candAttempts \in Seq(AttemptsNoted) /\ candDecisions \in Seq(DecisionsNoted) /\ n \in Nat
      /\ Len(candDecisions) = n /\ n <= candLimit /\ candLimit \in Nat \ {0} /\ candDropped \in Nat
      /\ c \in 1..CandCount /\ candLate \in BOOLEAN /\ candAt.attempt \in 1..CandTimes
  BY <1>1 DEF CandTyped, Paired
<1>3. /\ a \in AttemptsNoted /\ b \in DecisionsNoted /\ Explains(b, a)
  BY <1>2 DEF AttemptsNoted, DecisionsNoted, Dispositions, Acceptances, NoReason, Explains
<1>4. /\ candAt' \in [candidate : 1..CandCount, attempt : 1..CandTimes]
      /\ candStage' \in {"trying", "sleeping", "done"}
      /\ candStage' = "sleeping" => candAt'.attempt < CandTimes
      /\ candResult' = "pending" <=> candStage' # "done"
      /\ candResult' = "accepted" => d = "accepted"
      /\ d = "accepted" => candResult' = "accepted"
      /\ candResult' = "exhausted" => c = CandCount
  BY <1>1, GoneOnWith
<1>5. CASE n < candLimit
  <2>1. candAttempts' = Append(candAttempts, a) /\ candDecisions' = Append(candDecisions, b)
        /\ candDropped' = candDropped
    BY <1>1, <1>2, <1>5 DEF RecordAttempt, Buffered
  <2>2. /\ candDecisions' \in Seq(DecisionsNoted) /\ Len(candDecisions') = n + 1
        /\ \A i \in 1..n : candDecisions'[i] = candDecisions[i]
        /\ candDecisions'[n + 1] = b
    BY <1>2, <1>3, <2>1
  <2>3. /\ candAttempts' \in Seq(AttemptsNoted) /\ Len(candAttempts') = n + 1
        /\ candDropped = 0 /\ candAttempts'[n + 1] = a /\ Trail'
        /\ \A i \in 1..n : candAttempts'[i] = candAttempts[i]
        /\ \A i \in 1..n : Explains(candDecisions'[i], candAttempts'[i])
    BY <1>1, <1>2, <1>3, <1>5, <2>1, <2>2, AttemptFollows
  <2>4. \A i \in 1..(n + 1) : Explains(candDecisions'[i], candAttempts'[i])
    BY <1>2, <1>3, <2>2, <2>3
  <2>5. CandTyped' BY <1>1, <1>2, <1>4, <2>1, <2>2, <2>3 DEF CandTyped
  <2>6. Paired'
    BY <1>1, <1>2, <1>5, <2>1, <2>2, <2>3, <2>4 DEF Paired
  <2>7. SelectionTruth'
    <3>1. Reason(n + 1)' = d BY <2>2 DEF Reason
    <3>2. /\ candAttempts'[n + 1].outcome = "succeeded" <=> d \in Acceptances
          /\ candAttempts'[n + 1].candidate = c
      BY <2>3
    <3>3. candDropped' = 0 =>
           /\ candResult' = "accepted" <=> candAttempts'[n + 1].outcome = "succeeded"
                                             /\ Reason(n + 1)' = "accepted"
           /\ candResult' = "exhausted" => candAttempts'[n + 1].candidate = CandCount
      BY <1>4, <3>1, <3>2 DEF Acceptances
    <3>4. ~(candDropped' > 0) BY <2>1, <2>3
    <3>5. n + 1 \in Nat /\ Len(candDecisions') >= n + 1 BY <1>2, <2>2
    <3> QED BY <2>3, <2>4, <3>3, <3>4, <3>5, SelectedAsItMust
  <2>8. ASSUME candStage' # "done" PROVE HereAttempts'
    <3> DEFINE k == candAt.attempt
    <3>1. /\ k \in Nat /\ k >= 1 /\ k - 1 <= n
          /\ \A j \in (n + 1 - (k - 1))..n : candAttempts[j].candidate = c
      <4>1. HereAttempts BY <1>1, <2>3 DEF Selecting
      <4> QED BY <1>1, <1>2, <4>1, CandidatesAssumption DEF HereAttempts, Made
    <3>2. \A j \in (n + 2 - k)..(n + 1) : candAttempts'[j].candidate = c
      <4> SUFFICES ASSUME NEW j \in (n + 2 - k)..(n + 1) PROVE candAttempts'[j].candidate = c
        OBVIOUS
      <4>1. CASE j = n + 1 BY <2>3, <4>1
      <4>2. CASE j # n + 1
        <5>1. j \in 1..n /\ j \in (n + 1 - (k - 1))..n BY <1>2, <3>1, <4>2
        <5> QED BY <2>3, <3>1, <5>1
      <4> QED BY <4>1, <4>2
    <3>3. Reason(n + 1)' = d /\ candAttempts'[n + 1].candidate = c BY <2>2, <2>3 DEF Reason
    <3>4. CASE candStage' = "sleeping"
      <4>1. /\ candAt' = candAt /\ candAt.attempt < CandTimes /\ d = "retry_same_candidate"
        BY <1>1, <3>4, GoneOnWith
      <4>2. Made' = k BY <3>4, <4>1 DEF Made
      <4>3. k <= n + 1 /\ (n + 1) + 1 - k = n + 2 - k /\ ~(k = 0) BY <1>2, <3>1
      <4> QED BY <2>3, <3>2, <3>3, <4>1, <4>2, <4>3 DEF HereAttempts
    <3>5. CASE candStage' = "trying"
      <4>1. /\ candAt'.candidate = c + 1 /\ candAt'.attempt = 1
            /\ d \in {"quality_rejected", "try_next_candidate", "retry_same_candidate"}
            /\ d = "retry_same_candidate" => k = CandTimes
        BY <1>1, <3>5, GoneOnWith
      <4>2. Made' = 0 BY <3>5, <4>1 DEF Made
      <4>3. d = "retry_same_candidate" => UsedUp(n + 1)'
        <5>1. k <= n + 1 /\ (n + 1) + 1 - k = n + 2 - k BY <1>2, <3>1
        <5> QED BY <3>2, <3>3, <4>1, <5>1 DEF UsedUp
      <4>4. LeftFor(n + 1, candAt.candidate)' BY <3>3, <4>1, <4>3 DEF LeftFor
      <4>5. 0 <= n + 1 /\ ~(0 > 0) /\ \A j \in (n + 1 + 1 - 0)..(n + 1) : FALSE BY <1>2
      <4> QED BY <2>3, <3>5, <4>2, <4>4, <4>5 DEF HereAttempts
    <3> QED BY <1>4, <2>8, <3>4, <3>5
  <2> QED BY <2>3, <2>5, <2>6, <2>7, <2>8 DEF Selecting
<1>6. CASE ~(n < candLimit)
  <2>1. candAttempts' = candAttempts /\ candDecisions' = candDecisions
        /\ candDropped' = candDropped + 1 /\ n = candLimit /\ candDropped' \in Nat /\ candDropped' > 0
    BY <1>1, <1>2, <1>6 DEF RecordAttempt, Buffered
  <2>2. CandTyped' BY <1>1, <1>2, <1>4, <2>1 DEF CandTyped
  <2>3. Paired' /\ Trail'
    BY <1>1, <2>1 DEF Paired, Trail, GoneOn, LeftFor, UsedUp, Reason
  <2>4. SelectionTruth'
    <3>1. \A i \in 1..n : Explains(candDecisions'[i], candAttempts'[i]) BY <1>1, <2>1 DEF Paired
    <3>2. Len(candDecisions') >= n /\ ~(candDropped' = 0) /\ n = candLimit' /\ Len(candAttempts') = n
      BY <1>1, <1>2, <2>1
    <3> QED BY <1>2, <2>1, <2>3, <3>1, <3>2, SelectedAsItMust
  <2> QED BY <2>1, <2>2, <2>3, <2>4 DEF Selecting
<1> QED BY <1>5, <1>6

\* The deadline: the abandoned attempt may have the first word.
LEMMA TimeOutSelecting ==
  ASSUME Selecting, NEW d \in Dispositions \cup Acceptances \cup {NoReason}, TimeOut(d)
  PROVE  Selecting'
<1> PICK n : n = Len(candAttempts) OBVIOUS
<1> DEFINE c == candAt.candidate
           a == [candidate |-> c, outcome |-> "failed", reason |-> "terminal"]
<1>1. /\ candStage = "trying" /\ candLate /\ Paired /\ Trail /\ CandTyped
      /\ RecordAttempt("failed", "terminal") /\ candDecisions' = WithTimeout(d)
      /\ candLimit' = candLimit /\ candLate' = candLate /\ candAt' = candAt
      /\ candResult' = "terminal" /\ candStage' = "done"
  BY DEF TimeOut, Finish, Selecting
<1>2. /\ candAttempts \in Seq(AttemptsNoted) /\ candDecisions \in Seq(DecisionsNoted) /\ n \in Nat
      /\ Len(candDecisions) = n /\ n <= candLimit /\ candLimit \in Nat \ {0} /\ candDropped \in Nat
      /\ c \in 1..CandCount
  BY <1>1 DEF CandTyped, Paired
<1>3. a \in AttemptsNoted BY <1>2 DEF AttemptsNoted, Dispositions
<1>4. ASSUME NEW buffer \in Seq(DecisionsNoted), NEW e \in Dispositions \cup Acceptances,
             \A i \in 1..n : buffer[i] = candDecisions[i], Len(buffer) >= n
      PROVE  /\ Buffered(buffer, e) \in Seq(DecisionsNoted)
             /\ \A i \in 1..n : Buffered(buffer, e)[i] = candDecisions[i]
             /\ Len(Buffered(buffer, e)) >= n
             /\ n < candLimit => Len(Buffered(buffer, e)) > n
  <2> DEFINE b == [candidate |-> c, decision |-> e]
  <2>1. b \in DecisionsNoted BY <1>2 DEF DecisionsNoted
  <2>2. CASE Len(buffer) < candLimit
    <3>1. Buffered(buffer, e) = Append(buffer, b) BY <2>2 DEF Buffered
    <3> HIDE DEF b
    <3>2. /\ Append(buffer, b) \in Seq(DecisionsNoted) /\ Len(Append(buffer, b)) = Len(buffer) + 1
          /\ \A i \in 1..n : i \in 1..Len(buffer)
      BY <1>2, <1>4, <2>1
    <3>3. \A i \in 1..n : Append(buffer, b)[i] = candDecisions[i] BY <1>4, <3>2
    <3>4. Len(buffer) + 1 > n BY <1>2, <1>4
    <3> QED BY <1>2, <3>1, <3>2, <3>3, <3>4
  <2>3. CASE ~(Len(buffer) < candLimit)
    <3>1. Buffered(buffer, e) = buffer BY <2>3 DEF Buffered
    <3>2. n < candLimit => Len(buffer) > n BY <1>2, <2>3
    <3> QED BY <1>4, <3>1, <3>2
  <2> QED BY <2>2, <2>3
<1>5. /\ candDecisions' \in Seq(DecisionsNoted)
      /\ \A i \in 1..n : candDecisions'[i] = candDecisions[i]
      /\ Len(candDecisions') >= n
      /\ n < candLimit => Len(candDecisions') > n
  <2>1. "terminal" \in Dispositions \cup Acceptances BY DEF Dispositions
  <2>2. /\ FirstWord(d) \in Seq(DecisionsNoted) /\ Len(FirstWord(d)) >= n
        /\ \A i \in 1..n : FirstWord(d)[i] = candDecisions[i]
    <3>1. CASE d = NoReason BY <1>2, <3>1 DEF FirstWord
    <3>2. CASE d # NoReason
      <4>1. \A i \in 1..n : candDecisions[i] = candDecisions[i] /\ Len(candDecisions) >= n BY <1>2
      <4>2. Len(candDecisions) >= n BY <1>2
      <4> QED BY <1>2, <1>4, <3>2, <4>1, <4>2 DEF FirstWord
    <3> QED BY <3>1, <3>2
  <2> QED BY <1>1, <1>4, <2>1, <2>2 DEF WithTimeout
<1>6. CASE n < candLimit
  <2>1. candAttempts' = Append(candAttempts, a) /\ candDropped' = candDropped
    BY <1>1, <1>6 DEF RecordAttempt
  <2>2. /\ candAttempts' \in Seq(AttemptsNoted) /\ Len(candAttempts') = n + 1
        /\ candDropped = 0 /\ candAttempts'[n + 1] = a /\ Trail'
        /\ \A i \in 1..n : Explains(candDecisions'[i], candAttempts'[i])
    BY <1>1, <1>3, <1>5, <1>6, <2>1, AttemptFollows
  <2>3. CandTyped' BY <1>1, <1>2, <1>5, <2>1, <2>2 DEF CandTyped
  <2>4. SelectionTruth'
    <3>1. \A i \in 1..(n + 1) : \/ Explains(candDecisions'[i], candAttempts'[i])
                                \/ candLate' /\ i = n + 1 /\ candResult' = "terminal"
      BY <1>1, <1>2, <2>2
    <3>2. n + 1 \in Nat /\ Len(candDecisions') >= n + 1 /\ ~(candDropped' > 0)
      BY <1>2, <1>5, <1>6, <2>1, <2>2
    <3>3. candAttempts'[n + 1].outcome # "succeeded" BY <2>2
    <3> QED BY <1>1, <2>2, <3>1, <3>2, <3>3, SelectedAsItMust
  <2> QED BY <1>1, <2>3, <2>4 DEF Selecting
<1>7. CASE ~(n < candLimit)
  <2>1. candAttempts' = candAttempts /\ n = candLimit /\ candDropped' = candDropped + 1
        /\ candDropped' \in Nat /\ candDropped' # 0
    BY <1>1, <1>2, <1>7 DEF RecordAttempt
  <2>2. CandTyped' BY <1>1, <1>2, <1>5, <2>1 DEF CandTyped
  <2>3. Trail'
    <3>1. \A i \in 1..n : Reason(i)' = Reason(i) BY <1>5 DEF Reason
    <3>2. \A i \in 1..(n - 1) : i \in 1..n /\ GoneOn(i) BY <1>1, <1>2 DEF Trail
    <3>3. \A i \in 1..(n - 1) : GoneOn(i)' BY <2>1, <3>1, <3>2 DEF GoneOn, LeftFor, UsedUp
    <3> QED BY <2>1, <3>3 DEF Trail
  <2>4. SelectionTruth'
    <3>1. \A i \in 1..n : Explains(candDecisions'[i], candAttempts'[i]) BY <1>1, <1>5, <2>1 DEF Paired
    <3> QED BY <1>1, <1>2, <1>5, <2>1, <2>3, <3>1, SelectedAsItMust
  <2> QED BY <1>1, <2>2, <2>4 DEF Selecting
<1> QED BY <1>6, <1>7

\* An error thrown out of firstAcceptable ends it with the evidence it has.
LEMMA ThrowSelecting ==
  ASSUME Selecting, NEW outcome \in {"failed", "cancelled"}, Throw(outcome)
  PROVE  Selecting'
<1> DEFINE a == [candidate |-> candAt.candidate, outcome |-> outcome, reason |-> NoReason]
<1>1. /\ candResult' = "thrown" /\ candStage' = "done" /\ CandTyped
      /\ RecordAttempt(outcome, NoReason) /\ candAt' = candAt
      /\ UNCHANGED <<candLimit, candLate, candDecisions>>
  BY DEF Throw, Finish, Selecting
<1>2. a \in AttemptsNoted BY <1>1 DEF CandTyped, AttemptsNoted, NoReason
<1>3. candAttempts' \in Seq(AttemptsNoted) /\ candDropped' \in Nat
  <2>1. CASE candAttempts' = Append(candAttempts, a) /\ candDropped' = candDropped
    BY <1>1, <1>2, <2>1 DEF CandTyped
  <2>2. CASE candAttempts' = candAttempts /\ candDropped' = candDropped + 1
    BY <1>1, <2>2 DEF CandTyped
  <2> QED BY <1>1, <2>1, <2>2 DEF RecordAttempt
<1>4. CandTyped' BY <1>1, <1>3 DEF CandTyped
<1>5. SelectionTruth' BY <1>1 DEF SelectionTruth
<1> QED BY <1>1, <1>4, <1>5 DEF Selecting

\* Steps that record nothing.
LEMMA QuietSelecting ==
  ASSUME Selecting, DeadlinePasses \/ Wake
  PROVE  Selecting'
<1>1. /\ CandTyped /\ Paired /\ Trail /\ candStage # "done"
      /\ UNCHANGED <<candLimit, candAttempts, candDropped, candDecisions>>
  BY DEF Selecting, DeadlinePasses, Wake
<1>2. Paired' /\ Trail' BY <1>1 DEF Paired, Trail, GoneOn, LeftFor, UsedUp, Reason
<1>3. SelectionTruth'
  <2>1. candResult' \in {"pending", "thrown"} BY <1>1 DEF CandTyped, DeadlinePasses, Wake, Finish
  <2> QED BY <2>1 DEF SelectionTruth
<1>4. CASE DeadlinePasses
  <2>1. CandTyped' /\ candStage' = candStage /\ candAt' = candAt
    BY <1>1, <1>4 DEF CandTyped, DeadlinePasses
  <2>2. candDropped' = 0 => HereAttempts'
    BY <1>1, <2>1 DEF Selecting, HereAttempts, Made, LeftFor, UsedUp, Reason
  <2> QED BY <1>2, <1>3, <2>1, <2>2 DEF Selecting
<1>5. CASE Wake /\ candStage' = "trying"
  <2>1. /\ candStage = "sleeping" /\ candAt' = [candAt EXCEPT !.attempt = @ + 1]
        /\ candResult' = candResult /\ candLate' = candLate
    BY <1>5 DEF Wake, Finish
  <2>2. /\ candAt.attempt \in Nat /\ candAt'.candidate = candAt.candidate
        /\ candAt'.attempt = candAt.attempt + 1
    BY <1>1, <2>1, CandidatesAssumption DEF CandTyped
  <2>3. Made' = Made
    <3>1. Made = candAt.attempt BY <2>1 DEF Made
    <3>2. Made' = candAt'.attempt - 1 BY <1>5 DEF Made
    <3>3. candAt.attempt + 1 - 1 = candAt.attempt BY <2>2
    <3> QED BY <2>2, <3>1, <3>2, <3>3
  <2>4. candDropped' = 0 => HereAttempts'
    BY <1>1, <1>5, <2>2, <2>3 DEF Selecting, HereAttempts, LeftFor, UsedUp, Reason
  <2>5. CandTyped' BY <1>1, <1>5, <2>1, <2>2, CandidatesAssumption DEF CandTyped
  <2> QED BY <1>2, <1>3, <2>4, <2>5 DEF Selecting
<1>6. CASE Wake /\ candStage' = "done"
  <2>1. CandTyped' BY <1>1, <1>6 DEF CandTyped, Wake, Finish
  <2> QED BY <1>3, <1>6, <2>1 DEF Selecting
<1> QED BY <1>4, <1>5, <1>6 DEF Wake, Finish

\* No attempt is made at first, whatever the limits.
LEMMA CandidatesInitSelecting ==
  ASSUME NEW limits \in SUBSET (Nat \ {0}), CandidatesInit(limits)
  PROVE  Selecting
<1> USE CandidatesAssumption DEF CandidatesInit
<1>1. CandTyped
  <2>1. 1 \in 1..CandCount /\ 1 \in 1..CandTimes OBVIOUS
  <2>2. candAt \in [candidate : 1..CandCount, attempt : 1..CandTimes] BY <2>1
  <2>3. candAttempts \in Seq(AttemptsNoted) /\ candDecisions \in Seq(DecisionsNoted) OBVIOUS
  <2>4. candLimit \in Nat \ {0} OBVIOUS
  <2> QED BY <2>2, <2>3, <2>4 DEF CandTyped
<1>2. SelectionTruth BY DEF SelectionTruth
<1>3. Paired /\ Trail BY DEF Paired, Trail
<1>4. HereAttempts BY DEF HereAttempts, Made
<1> QED BY <1>1, <1>2, <1>3, <1>4 DEF Selecting

\* Every step of the selection keeps the invariant.
LEMMA CandidatesStepSelecting == Selecting /\ [CandidatesNext]_candVars => Selecting'
<1> SUFFICES ASSUME Selecting, [CandidatesNext]_candVars PROVE Selecting'
  OBVIOUS
<1>1. CASE UNCHANGED candVars
  BY <1>1 DEF candVars, Selecting, CandTyped, SelectionTruth, Paired, Trail, GoneOn, HereAttempts,
              Made, LeftFor, UsedUp, Reason
<1>2. CASE CandidatesNext
  BY <1>2, DecideSelecting, ThrowSelecting, QuietSelecting, TimeOutSelecting DEF CandidatesNext
<1> QED BY <1>1, <1>2

\* For any number of candidates and attempts and any positive limits on the evidence,
\* what firstAcceptable of candidates/index.ts returns is what its attempts and the
\* decisions at their positions say, whatever the deadline abandons.
THEOREM SelectionsAreTrue ==
  ASSUME NEW CONSTANT limits \in SUBSET (Nat \ {0})
  PROVE  CandidatesInit(limits) /\ [][CandidatesNext]_candVars => []SelectionTruth
<1>1. CandidatesInit(limits) => Selecting BY CandidatesInitSelecting
<1>2. Selecting => SelectionTruth BY DEF Selecting
<1> QED BY <1>1, <1>2, CandidatesStepSelecting, PTL

(***************************************************************************)
(* Deadlines.  A deadline only ever moves to an earlier moment, and the timer*)
(* of a running scope is due at its deadline and not before now, so that a  *)
(* deadline that has passed has cancelled; a handler that is subscribed when*)
(* its scope is cancelled is told then, and no later.                       *)
(***************************************************************************)
\* A set of natural numbers that is not empty has its least element.
LEMMA Least ==
  ASSUME NEW S \in SUBSET Nat, S # {}
  PROVE  Min(S) \in S /\ \A y \in S : Min(S) <= y
<1>1. \E x \in S : \A y \in S : ~(<<y, x>> \in OpToRel(<, Nat))
  BY NatLessThanWellFounded, WFMin
<1>2. \E x \in S : \A y \in S : ~(y < x) BY <1>1 DEF OpToRel
<1>3. PICK x \in S : \A y \in S : ~(y < x) BY <1>2
<1>4. \A y \in S : x <= y
  <2> TAKE y \in S
  <2>1. ~(y < x) /\ x \in Nat /\ y \in Nat BY <1>3
  <2> QED BY <2>1
<1> QED BY <1>3, <1>4 DEF Min

\* The types of the variables.
Moments == 0..DlHorizon
NowTyped == dlNow \in Moments
StateTyped == dlState \in [DlScopes -> {"unopened", "running", "cancelling", "closed"}]
AtTyped == dlAt \in [DlScopes -> Moments \cup {Never}] /\ dlTimer \in [DlScopes -> Moments \cup {Never}]
ReasonTyped == dlReason \in [DlScopes -> [kind : {"none", "manual", "deadline"}, at : Moments \cup {Never}]]
HandlerTyped == dlHandler \in [DlHandlers -> [scope : DlScopes \cup {0}, told : Nat]]
AskedTyped == dlAsked \in [DlScopes -> SUBSET Moments]
DlTyped == NowTyped /\ StateTyped /\ AtTyped /\ ReasonTyped /\ HandlerTyped /\ AskedTyped

\* A scope's deadline is the earliest it was asked for; its timer is due no earlier
\* than now, and at the deadline while the scope runs.
Earliest(s) ==
  /\ dlAsked[s] = {} => dlAt[s] = Never
  /\ dlAsked[s] # {} => dlAt[s] \in dlAsked[s]
  /\ \A at \in dlAsked[s] : dlAt[s] <= at
Ticking(s) == dlTimer[s] >= dlNow /\ (dlState[s] = "running" => dlTimer[s] = dlAt[s])

\* A scope is opened below an open one, and cancelled while it runs; a deadline that
\* cancelled it had come, and was the earliest asked for until then.
Opened(s) == dlState[s] = "unopened" => dlAsked[s] = {} /\ dlTimer[s] = Never /\ \A o \in DlScopes : o > s => dlState[o] = "unopened"
Reasoned(s) ==
  /\ dlState[s] \in {"unopened", "running"} => dlReason[s].kind = "none"
  /\ dlState[s] = "cancelling" => dlReason[s].kind # "none"
  /\ dlReason[s].kind = "deadline" =>
       /\ dlReason[s].at \in dlAsked[s] /\ dlReason[s].at <= dlNow
       /\ \A at \in dlAsked[s] : at >= dlReason[s].at

\* A handler has not been told while its scope runs, nor before it has one.
Heard(h) ==
  LET s == dlHandler[h].scope
  IN /\ dlHandler[h].told \in {0, 1}
     /\ s = 0 /\ h \notin dlUnheard => dlHandler[h].told = 0
     /\ s # 0 => dlState[s] # "unopened" /\ (dlState[s] = "running" => dlHandler[h].told = 0)
     /\ s # 0 /\ h \notin dlUnheard => (dlHandler[h].told = 1) = (dlReason[s].kind # "none")

Timed ==
  /\ DlTyped
  /\ \A s \in DlScopes : Earliest(s) /\ Ticking(s) /\ Opened(s) /\ Reasoned(s)
  /\ \A h \in DlHandlers : Heard(h)

\* No scope is open and no timer armed at first.
LEMMA DeadlinesInitTimed == DeadlinesInit => Timed
<1> SUFFICES ASSUME DeadlinesInit PROVE Timed
  OBVIOUS
<1>1. DlTyped
  BY DeadlinesAssumption DEF DeadlinesInit, DlTyped, NowTyped, StateTyped, AtTyped, ReasonTyped,
    HandlerTyped, AskedTyped, Moments, NotCancelled, DlScopes, Never
<1>2. ASSUME NEW s \in DlScopes PROVE Earliest(s) /\ Ticking(s) /\ Opened(s) /\ Reasoned(s)
  BY DeadlinesAssumption DEF DeadlinesInit, Earliest, Ticking, Opened, Reasoned, NotCancelled, Never
<1>3. ASSUME NEW h \in DlHandlers PROVE Heard(h)
  BY DEF DeadlinesInit, Heard
<1> QED BY <1>1, <1>2, <1>3 DEF Timed

\* Arithmetic of the bounds.
LEMMA HorizonTyped == DlHorizon \in Nat /\ Never \in Nat /\ Moments \subseteq Nat
                /\ (\A m \in Moments : m < Never) /\ DlScopes \subseteq Nat /\ 0 \notin DlScopes
  BY DeadlinesAssumption DEF Never, Moments, DlScopes

\* A cancellation, with whatever reason.
LEMMA CancelTimed ==
  ASSUME Timed, NEW s \in DlScopes,
         NEW reason \in [kind : {"manual", "deadline"}, at : Moments \cup {Never}],
         CancelFor(s, reason), DropTimer(s), UNCHANGED <<dlNow, dlAt, dlAsked, dlUnheard>>,
         dlState[s] = "running" /\ reason.kind = "deadline" =>
           /\ reason.at \in dlAsked[s] /\ reason.at <= dlNow
           /\ \A at \in dlAsked[s] : at >= reason.at
  PROVE  Timed'
<1>1. DlTyped /\ (\A x \in DlScopes : Earliest(x) /\ Ticking(x) /\ Opened(x) /\ Reasoned(x))
      /\ \A h \in DlHandlers : Heard(h)
  BY DEF Timed
<1>2. dlTimer' = [dlTimer EXCEPT ![s] = Never] /\ dlTimer' \in [DlScopes -> Moments \cup {Never}]
      /\ dlTimer'[s] = Never /\ \A x \in DlScopes : x # s => dlTimer'[x] = dlTimer[x]
  BY <1>1 DEF DropTimer, DlTyped, AtTyped
<1>a. \A x \in DlScopes : Earliest(x)' BY <1>1 DEF Earliest
<1>3. CASE dlState[s] # "running"
  <2>1. dlState' = dlState /\ dlReason' = dlReason /\ dlHandler' = dlHandler
    BY <1>3 DEF CancelFor
  <2>2. DlTyped'
    BY <1>1, <1>2, <2>1 DEF DlTyped, NowTyped, StateTyped, AtTyped, ReasonTyped, HandlerTyped, AskedTyped
  <2>3. \A x \in DlScopes : Ticking(x)'
    BY <1>1, <1>2, <1>3, <2>1, HorizonTyped DEF Ticking, DlTyped, NowTyped
  <2>4. \A x \in DlScopes : Opened(x)' /\ Reasoned(x)' BY <1>1, <1>2, <2>1 DEF Opened, Reasoned
  <2>5. \A h \in DlHandlers : Heard(h)' BY <1>1, <2>1 DEF Heard
  <2> QED BY <1>a, <2>2, <2>3, <2>4, <2>5 DEF Timed
<1>4. CASE dlState[s] = "running"
  <2>1. /\ dlState' = [dlState EXCEPT ![s] = "cancelling"]
        /\ dlReason' = [dlReason EXCEPT ![s] = reason]
        /\ dlHandler' = [h \in DlHandlers |-> IF dlHandler[h].scope = s
                           THEN [dlHandler[h] EXCEPT !.told = @ + 1] ELSE dlHandler[h]]
    BY <1>4 DEF CancelFor
  <2>2. /\ dlState' \in [DlScopes -> {"unopened", "running", "cancelling", "closed"}]
        /\ dlState'[s] = "cancelling" /\ \A x \in DlScopes : x # s => dlState'[x] = dlState[x]
    BY <1>1, <2>1 DEF DlTyped, StateTyped
  <2>3. /\ dlReason' \in [DlScopes -> [kind : {"none", "manual", "deadline"}, at : Moments \cup {Never}]]
        /\ dlReason'[s] = reason /\ \A x \in DlScopes : x # s => dlReason'[x] = dlReason[x]
    BY <1>1, <2>1 DEF DlTyped, ReasonTyped
  <2>4. ASSUME NEW h \in DlHandlers
        PROVE  /\ dlHandler'[h].scope = dlHandler[h].scope
               /\ dlHandler'[h].told = IF dlHandler[h].scope = s THEN dlHandler[h].told + 1 ELSE dlHandler[h].told
               /\ dlHandler'[h] \in [scope : DlScopes \cup {0}, told : Nat]
    BY <1>1, <2>1 DEF DlTyped, HandlerTyped
  <2>5. dlHandler' \in [DlHandlers -> [scope : DlScopes \cup {0}, told : Nat]]
    <3>1. dlHandler' = [h \in DlHandlers |-> dlHandler'[h]] BY <2>1
    <3> QED BY <2>4, <3>1
  <2>6. DlTyped'
    BY <1>1, <1>2, <2>2, <2>3, <2>5 DEF DlTyped, NowTyped, StateTyped, AtTyped, ReasonTyped, HandlerTyped, AskedTyped
  <2>7. \A x \in DlScopes : Ticking(x)'
    BY <1>1, <1>2, <2>2, HorizonTyped DEF Ticking, DlTyped, NowTyped
  <2>8. \A x \in DlScopes : Opened(x)' BY <1>1, <1>2, <1>4, <2>2 DEF Opened
  <2>9. ASSUME NEW x \in DlScopes PROVE Reasoned(x)'
    <3>1. CASE x = s BY <1>4, <2>2, <2>3, <3>1 DEF Reasoned
    <3>2. CASE x # s BY <1>1, <2>2, <2>3, <3>2 DEF Reasoned
    <3> QED BY <3>1, <3>2
  <2>10. ASSUME NEW h \in DlHandlers PROVE Heard(h)'
    <3>1. dlUnheard' = dlUnheard /\ Heard(h) /\ dlHandler[h].scope \in DlScopes \cup {0} /\ 0 \notin DlScopes
      BY <1>1, HorizonTyped DEF DlTyped, HandlerTyped
    <3>2. dlReason[s].kind = "none" /\ reason.kind # "none" BY <1>1, <1>4 DEF Reasoned
    <3>3. CASE dlHandler[h].scope = s
      BY <1>4, <2>2, <2>3, <2>4, <3>1, <3>2, <3>3 DEF Heard
    <3>4. CASE dlHandler[h].scope # s
      BY <2>2, <2>3, <2>4, <3>1, <3>4 DEF Heard
    <3> QED BY <3>3, <3>4
  <2> QED BY <1>a, <2>6, <2>7, <2>8, <2>9, <2>10 DEF Timed
<1> QED BY <1>3, <1>4

\* A deadline that is asked for at a moment that has not passed, of an open scope or
\* one that opens.
LEMMA AskTimed ==
  ASSUME Timed, NEW s \in DlScopes, NEW at \in Moments, at >= dlNow,
         dlAsked' = [dlAsked EXCEPT ![s] = @ \cup {at}],
         IF Replaces(s, at) THEN dlAt' = [dlAt EXCEPT ![s] = at] /\ dlTimer' = [dlTimer EXCEPT ![s] = at]
         ELSE UNCHANGED <<dlAt, dlTimer>>
  PROVE  /\ AtTyped' /\ AskedTyped' /\ \A x \in DlScopes : Earliest(x)'
         /\ \A x \in DlScopes : dlTimer'[x] >= dlNow /\ (dlTimer[x] = dlAt[x] => dlTimer'[x] = dlAt'[x])
         /\ \A x \in DlScopes : x # s => dlAsked'[x] = dlAsked[x] /\ dlTimer'[x] = dlTimer[x]
         /\ \A x \in DlScopes : \A a \in dlAsked'[x] : a \in dlAsked[x] \/ a >= dlNow
         /\ \A x \in DlScopes : dlAsked[x] \subseteq dlAsked'[x]
<1>1. DlTyped /\ (\A x \in DlScopes : Earliest(x) /\ Ticking(x))
  BY DEF Timed
<1>2. /\ AskedTyped' /\ dlAsked'[s] = dlAsked[s] \cup {at}
      /\ \A x \in DlScopes : x # s => dlAsked'[x] = dlAsked[x]
  BY <1>1 DEF DlTyped, AskedTyped
<1>3. CASE Replaces(s, at)
  <2>1. /\ dlAt' = [dlAt EXCEPT ![s] = at] /\ dlTimer' = [dlTimer EXCEPT ![s] = at]
    BY <1>3
  <2>2. AtTyped' /\ dlAt'[s] = at /\ dlTimer'[s] = at
        /\ \A x \in DlScopes : x # s => dlAt'[x] = dlAt[x] /\ dlTimer'[x] = dlTimer[x]
    BY <1>1, <2>1 DEF DlTyped, AtTyped
  <2>3. \A a \in dlAsked[s] : at <= a
    <3>1. dlAsked[s] \subseteq Moments /\ dlAt[s] \in Nat BY <1>1, HorizonTyped DEF DlTyped, AskedTyped, AtTyped
    <3>2. CASE dlAt[s] = Never
      <4>1. dlAsked[s] = {} BY <1>1, <3>1, <3>2, HorizonTyped DEF Earliest
      <4> QED BY <4>1
    <3>3. CASE dlAt[s] > at
      <4> TAKE a \in dlAsked[s]
      <4>1. dlAt[s] <= a BY <1>1 DEF Earliest
      <4>2. a \in Nat /\ at \in Nat /\ dlAt[s] \in Nat BY <3>1, HorizonTyped
      <4> QED BY <3>3, <4>1, <4>2
    <3> QED BY <1>3, <3>2, <3>3 DEF Replaces
  <2>4. Earliest(s)' BY <1>2, <2>2, <2>3, HorizonTyped DEF Earliest
  <2>5. \A x \in DlScopes : x # s => Earliest(x)' BY <1>1, <1>2, <2>2 DEF Earliest
  <2> QED BY <1>1, <1>2, <2>2, <2>4, <2>5 DEF Ticking
<1>4. CASE ~Replaces(s, at)
  <2>1. dlAt' = dlAt /\ dlTimer' = dlTimer BY <1>4
  <2>2. dlAt[s] <= at /\ dlAt[s] # Never
    <3>1. dlAt[s] \in Nat /\ at \in Nat BY <1>1, HorizonTyped DEF DlTyped, AtTyped
    <3>2. dlAt[s] # Never /\ ~(dlAt[s] > at) BY <1>4 DEF Replaces
    <3> QED BY <3>1, <3>2
  <2>3. Earliest(s)' BY <1>1, <1>2, <2>1, <2>2 DEF Earliest
  <2>4. \A x \in DlScopes : x # s => Earliest(x)' BY <1>1, <1>2, <2>1 DEF Earliest
  <2> QED BY <1>1, <1>2, <2>1, <2>3, <2>4 DEF Ticking, DlTyped, AtTyped
<1> QED BY <1>3, <1>4

\* deadline() only ever brings the timer of a scope forward.
LEMMA SetDeadlineTimed ==
  ASSUME Timed, NEW s \in DlScopes, NEW ms \in DlDelays, SetDeadline(s, ms)
  PROVE  Timed'
<1> DEFINE at == dlNow + ms
<1>1. DlTyped /\ (\A x \in DlScopes : Earliest(x) /\ Ticking(x) /\ Opened(x) /\ Reasoned(x))
      /\ \A h \in DlHandlers : Heard(h)
  BY DEF Timed
<1>2. at \in Moments /\ at >= dlNow
  <2>1. dlNow \in 0..DlHorizon /\ ms \in Nat /\ DlHorizon \in Nat /\ at < DlHorizon + 1
    BY <1>1, DeadlinesAssumption DEF SetDeadline, DlTyped, NowTyped, Moments, Never
  <2> QED BY <2>1 DEF Moments
<1>3. /\ dlState[s] # "unopened" /\ dlAsked' = [dlAsked EXCEPT ![s] = @ \cup {at}]
      /\ IF Replaces(s, at) THEN dlAt' = [dlAt EXCEPT ![s] = at] /\ dlTimer' = [dlTimer EXCEPT ![s] = at]
         ELSE UNCHANGED <<dlAt, dlTimer>>
      /\ UNCHANGED <<dlNow, dlState, dlReason, dlHandler, dlUnheard>>
  BY DEF SetDeadline
<1> HIDE DEF at
<1>4. /\ AtTyped' /\ AskedTyped' /\ \A x \in DlScopes : Earliest(x)'
      /\ \A x \in DlScopes : dlTimer'[x] >= dlNow /\ (dlTimer[x] = dlAt[x] => dlTimer'[x] = dlAt'[x])
      /\ \A x \in DlScopes : x # s => dlAsked'[x] = dlAsked[x] /\ dlTimer'[x] = dlTimer[x]
      /\ \A x \in DlScopes : \A a \in dlAsked'[x] : a \in dlAsked[x] \/ a >= dlNow
      /\ \A x \in DlScopes : dlAsked[x] \subseteq dlAsked'[x]
  BY <1>2, <1>3, AskTimed
<1>5. DlTyped' BY <1>1, <1>3, <1>4 DEF DlTyped, NowTyped, StateTyped, ReasonTyped, HandlerTyped
<1>6. \A x \in DlScopes : Ticking(x)' BY <1>1, <1>3, <1>4 DEF Ticking
<1>7. \A x \in DlScopes : Opened(x)' BY <1>1, <1>3, <1>4 DEF Opened
<1>8. ASSUME NEW x \in DlScopes PROVE Reasoned(x)'
  <2>1. dlReason[x].kind = "deadline" => dlReason[x].at \in Nat /\ dlNow \in Nat
    BY <1>1, HorizonTyped DEF DlTyped, ReasonTyped, NowTyped
  <2>2. dlAsked'[x] \subseteq Nat BY <1>4, HorizonTyped DEF AskedTyped
  <2>3. dlReason[x].kind = "deadline" => dlReason[x].at \in dlAsked'[x] BY <1>1, <1>4 DEF Reasoned
  <2>4. dlReason[x].kind = "deadline" => \A a \in dlAsked'[x] : a >= dlReason[x].at
    BY <1>1, <1>4, <2>1, <2>2 DEF Reasoned
  <2> QED BY <1>1, <1>3, <2>3, <2>4 DEF Reasoned
<1>9. \A h \in DlHandlers : Heard(h)' BY <1>1, <1>3 DEF Heard
<1> QED BY <1>4, <1>5, <1>6, <1>7, <1>8, <1>9 DEF Timed

\* A new scope takes the deadline it is given, whatever that of its parent.
LEMMA OpenTimed ==
  ASSUME Timed, NEW s \in DlScopes, NEW ms \in DlDelays, Open(s, ms)
  PROVE  Timed'
<1> DEFINE at == dlNow + ms
<1>1. DlTyped /\ (\A x \in DlScopes : Earliest(x) /\ Ticking(x) /\ Opened(x) /\ Reasoned(x))
      /\ \A h \in DlHandlers : Heard(h)
  BY DEF Timed
<1>2. /\ dlState[s] = "unopened" /\ (s > 1 => dlState[s - 1] # "unopened") /\ at < Never
      /\ dlState' = [dlState EXCEPT ![s] = "running"]
      /\ UNCHANGED <<dlNow, dlReason, dlHandler, dlUnheard>>
  BY DEF Open
<1>3. at \in Moments /\ at >= dlNow
  <2>1. dlNow \in 0..DlHorizon /\ ms \in Nat /\ DlHorizon \in Nat /\ at < DlHorizon + 1
    BY <1>1, <1>2, DeadlinesAssumption DEF DlTyped, NowTyped, Moments, Never
  <2> QED BY <2>1 DEF Moments
<1>4. dlAsked[s] = {} /\ dlAt[s] = Never BY <1>1, <1>2 DEF Opened, Earliest
<1>5. /\ AtTyped' /\ AskedTyped' /\ \A x \in DlScopes : Earliest(x)'
      /\ \A x \in DlScopes : dlTimer'[x] >= dlNow
      /\ \A x \in DlScopes : x # s => dlAsked'[x] = dlAsked[x] /\ dlAt'[x] = dlAt[x] /\ dlTimer'[x] = dlTimer[x]
      /\ ms = 0 => dlAt'[s] = Never /\ dlTimer' = dlTimer
      /\ ms # 0 => dlAt'[s] = at /\ dlTimer'[s] = at
  <2>1. CASE ms = 0
    <3>1. dlAt' = dlAt /\ dlTimer' = dlTimer /\ dlAsked' = dlAsked BY <2>1 DEF Open
    <3> QED BY <1>1, <1>4, <2>1, <3>1 DEF DlTyped, AtTyped, AskedTyped, Earliest, Ticking
  <2>2. CASE ms # 0
    <3>1. /\ dlAt' = [dlAt EXCEPT ![s] = at] /\ dlTimer' = [dlTimer EXCEPT ![s] = at]
          /\ dlAsked' = [dlAsked EXCEPT ![s] = {at}]
      BY <2>2 DEF Open
    <3> HIDE DEF at
    <3>2. dlAsked' = [dlAsked EXCEPT ![s] = @ \cup {at}]
      BY <1>1, <1>4, <3>1 DEF DlTyped, AskedTyped
    <3>3. Replaces(s, at) BY <1>4 DEF Replaces
    <3>4. /\ AtTyped' /\ AskedTyped' /\ \A x \in DlScopes : Earliest(x)'
          /\ \A x \in DlScopes : dlTimer'[x] >= dlNow
          /\ \A x \in DlScopes : x # s => dlAsked'[x] = dlAsked[x]
      BY <1>3, <3>1, <3>2, <3>3, AskTimed
    <3> QED BY <1>1, <2>2, <3>1, <3>4 DEF DlTyped, AtTyped
  <2> QED BY <2>1, <2>2
<1>6. /\ dlState' \in [DlScopes -> {"unopened", "running", "cancelling", "closed"}]
      /\ dlState'[s] = "running" /\ \A x \in DlScopes : x # s => dlState'[x] = dlState[x]
  BY <1>1, <1>2 DEF DlTyped, StateTyped
<1> HIDE DEF at
<1>7. DlTyped' BY <1>1, <1>2, <1>5, <1>6 DEF DlTyped, NowTyped, StateTyped, ReasonTyped, HandlerTyped
<1>8. ASSUME NEW x \in DlScopes PROVE Ticking(x)'
  <2>1. CASE x # s BY <1>1, <1>2, <1>5, <1>6, <2>1 DEF Ticking
  <2>2. CASE x = s
    <3>1. dlTimer'[s] >= dlNow' BY <1>2, <1>5
    <3>2. CASE ms = 0
      <4>1. dlAt[s] \in Nat /\ dlTimer[s] \in Nat /\ dlTimer'[s] = dlTimer[s] /\ dlAt'[s] = Never
        BY <1>1, <1>5, <3>2, HorizonTyped DEF DlTyped, AtTyped
      <4>2. dlTimer[s] = Never BY <1>1, <1>2, <4>1 DEF Opened
      <4> QED BY <2>2, <3>1, <4>1, <4>2 DEF Ticking
    <3>3. CASE ms # 0 BY <1>5, <2>2, <3>1, <3>3 DEF Ticking
    <3> QED BY <3>2, <3>3
  <2> QED BY <2>1, <2>2
<1>9. ASSUME NEW x \in DlScopes PROVE Opened(x)'
  <2>1. SUFFICES ASSUME dlState'[x] = "unopened"
                 PROVE  dlAsked'[x] = {} /\ dlTimer'[x] = Never /\ \A o \in DlScopes : o > x => dlState'[o] = "unopened"
    BY DEF Opened
  <2>2. x # s /\ dlState[x] = "unopened" BY <1>6, <2>1
  <2>3. dlAsked'[x] = {} /\ dlTimer'[x] = Never BY <1>1, <1>5, <2>2 DEF Opened
  <2>4. ASSUME NEW o \in DlScopes, o > x PROVE dlState'[o] = "unopened"
    <3>1. CASE o = s
      <4>1. s \in Nat /\ x \in Nat /\ DlDepth \in Nat /\ s \in 1..DlDepth /\ x >= 1 /\ s > x
        BY <2>4, <3>1, DeadlinesAssumption DEF DlScopes
      <4>2. s > 1 /\ s - 1 \in 1..DlDepth /\ (s - 1 = x \/ s - 1 > x) BY <4>1
      <4>3. dlState[s - 1] = "unopened" BY <1>1, <2>2, <4>2 DEF Opened, DlScopes
      <4> QED BY <1>2, <4>2, <4>3
    <3>2. CASE o # s BY <1>1, <1>6, <2>2, <2>4, <3>2 DEF Opened
    <3> QED BY <3>1, <3>2
  <2> QED BY <2>3, <2>4
<1>10. ASSUME NEW x \in DlScopes PROVE Reasoned(x)'
  <2>1. CASE x # s BY <1>1, <1>2, <1>5, <1>6, <2>1 DEF Reasoned
  <2>2. CASE x = s
    <3>1. dlReason[s].kind = "none" BY <1>1, <1>2 DEF Reasoned
    <3> QED BY <1>2, <1>6, <2>2, <3>1 DEF Reasoned
  <2> QED BY <2>1, <2>2
<1>11. ASSUME NEW h \in DlHandlers PROVE Heard(h)'
  <2>1. Heard(h) /\ dlHandler' = dlHandler /\ dlUnheard' = dlUnheard /\ dlReason' = dlReason BY <1>1, <1>2
  <2>2. dlHandler[h].scope # 0 => dlHandler[h].scope \in DlScopes /\ dlState[dlHandler[h].scope] # "unopened"
    BY <1>1 DEF Heard, DlTyped, HandlerTyped
  <2>3. dlHandler[h].scope # 0 => dlState'[dlHandler[h].scope] = dlState[dlHandler[h].scope]
    BY <1>2, <1>6, <2>2
  <2> QED BY <2>1, <2>2, <2>3 DEF Heard
<1> QED BY <1>5, <1>7, <1>8, <1>9, <1>10, <1>11 DEF Timed

\* A timer that fires cancels its scope, with the deadline for a reason, and is dropped.
LEMMA FireTimed ==
  ASSUME Timed, NEW s \in DlScopes, Fire(s)
  PROVE  Timed'
<1> DEFINE why == [kind |-> "deadline", at |-> dlAt[s]]
<1>1. DlTyped /\ Earliest(s) /\ Ticking(s) BY DEF Timed
<1>2. /\ dlTimer[s] = dlNow /\ CancelFor(s, why) /\ DropTimer(s)
      /\ UNCHANGED <<dlNow, dlAt, dlAsked, dlUnheard>>
  BY DEF Fire
<1>3. why \in [kind : {"manual", "deadline"}, at : Moments \cup {Never}]
  BY <1>1 DEF DlTyped, AtTyped
<1>4. ASSUME dlState[s] = "running"
      PROVE  dlAt[s] \in dlAsked[s] /\ dlAt[s] <= dlNow /\ \A at \in dlAsked[s] : at >= dlAt[s]
  <2>1. dlAt[s] = dlNow /\ dlNow \in Nat /\ dlNow # Never
    BY <1>1, <1>2, <1>4, HorizonTyped DEF Ticking, DlTyped, NowTyped
  <2>2. dlAsked[s] \subseteq Nat BY <1>1, HorizonTyped DEF DlTyped, AskedTyped
  <2>3. dlAt[s] \in dlAsked[s] /\ \A at \in dlAsked[s] : dlAt[s] <= at BY <1>1, <2>1 DEF Earliest
  <2> QED BY <2>1, <2>2, <2>3
<1>5. why.kind = "deadline" /\ why.at = dlAt[s] OBVIOUS
<1> HIDE DEF why
<1> QED BY <1>2, <1>3, <1>4, <1>5, CancelTimed

\* cancel() drops the timer too.
LEMMA CancelActionTimed ==
  ASSUME Timed, NEW s \in DlScopes, Cancel(s)
  PROVE  Timed'
<1> DEFINE why == [kind |-> "manual", at |-> 0]
<1>1. CancelFor(s, why) /\ DropTimer(s) /\ UNCHANGED <<dlNow, dlAt, dlAsked, dlUnheard>>
  BY DEF Cancel
<1>2. why \in [kind : {"manual", "deadline"}, at : Moments \cup {Never}] /\ why.kind # "deadline"
  BY DeadlinesAssumption DEF Moments
<1> HIDE DEF why
<1> QED BY <1>1, <1>2, CancelTimed

\* A scope closes after the one below it.
LEMMA CloseScopeTimed ==
  ASSUME Timed, NEW s \in DlScopes, CloseScope(s)
  PROVE  Timed'
<1>1. DlTyped /\ (\A x \in DlScopes : Earliest(x) /\ Ticking(x) /\ Opened(x) /\ Reasoned(x))
      /\ \A h \in DlHandlers : Heard(h)
  BY DEF Timed
<1>2. /\ dlState[s] \in {"running", "cancelling"} /\ dlState' = [dlState EXCEPT ![s] = "closed"]
      /\ UNCHANGED <<dlNow, dlAt, dlReason, dlHandler, dlAsked, dlUnheard>>
  BY DEF CloseScope
<1>3. /\ dlState' \in [DlScopes -> {"unopened", "running", "cancelling", "closed"}]
      /\ dlState'[s] = "closed" /\ \A x \in DlScopes : x # s => dlState'[x] = dlState[x]
  BY <1>1, <1>2 DEF DlTyped, StateTyped
<1>4. /\ dlTimer' \in [DlScopes -> Moments \cup {Never}]
      /\ \A x \in DlScopes : x # s => dlTimer'[x] = dlTimer[x]
      /\ dlTimer'[s] \in {Never, dlTimer[s]}
  <2>1. dlTimer' = dlTimer \/ dlTimer' = [dlTimer EXCEPT ![s] = Never] BY DEF CloseScope, DropTimer
  <2> QED BY <1>1, <2>1 DEF DlTyped, AtTyped
<1>5. DlTyped'
  BY <1>1, <1>2, <1>3, <1>4 DEF DlTyped, NowTyped, StateTyped, AtTyped, ReasonTyped, HandlerTyped, AskedTyped
<1>6. \A x \in DlScopes : Earliest(x)' BY <1>1, <1>2 DEF Earliest
<1>7. ASSUME NEW x \in DlScopes PROVE Ticking(x)'
  <2>1. CASE x # s BY <1>1, <1>2, <1>3, <1>4, <2>1 DEF Ticking
  <2>2. CASE x = s
    <3>1. Never >= dlNow BY <1>1, HorizonTyped DEF DlTyped, NowTyped
    <3> QED BY <1>1, <1>2, <1>3, <1>4, <2>2, <3>1 DEF Ticking
  <2> QED BY <2>1, <2>2
<1>8. ASSUME NEW x \in DlScopes PROVE Opened(x)'
  <2>1. SUFFICES ASSUME dlState'[x] = "unopened" PROVE Opened(x)' BY DEF Opened
  <2>2. x # s /\ dlState[x] = "unopened" BY <1>3, <2>1
  <2>3. \A o \in DlScopes : o > x => o # s BY <1>1, <1>2, <2>2 DEF Opened
  <2> QED BY <1>1, <1>2, <1>3, <1>4, <2>2, <2>3 DEF Opened
<1>9. ASSUME NEW x \in DlScopes PROVE Reasoned(x)'
  <2>1. CASE x # s BY <1>1, <1>2, <1>3, <2>1 DEF Reasoned
  <2>2. CASE x = s BY <1>1, <1>2, <1>3, <2>2 DEF Reasoned
  <2> QED BY <2>1, <2>2
<1>10. ASSUME NEW h \in DlHandlers PROVE Heard(h)'
  <2>1. dlHandler[h].scope # 0 => dlHandler[h].scope \in DlScopes
    BY <1>1 DEF DlTyped, HandlerTyped
  <2>2. \A x \in DlScopes : dlState'[x] = dlState[x] \/ dlState'[x] = "closed" BY <1>3
  <2> QED BY <1>1, <1>2, <2>1, <2>2 DEF Heard
<1> QED BY <1>5, <1>6, <1>7, <1>8, <1>9, <1>10 DEF Timed

\* A handler subscribes to the cancellation of a scope, and leaves.
LEMMA HandlersTimed ==
  ASSUME Timed, NEW h \in DlHandlers, OffCancel(h) \/ \E s \in DlScopes : OnCancel(h, s)
  PROVE  Timed'
<1>1. DlTyped /\ (\A x \in DlScopes : Earliest(x) /\ Ticking(x) /\ Opened(x) /\ Reasoned(x))
      /\ \A g \in DlHandlers : Heard(g)
  BY DEF Timed
<1>2. UNCHANGED <<dlNow, dlState, dlAt, dlTimer, dlReason, dlAsked>> BY DEF OffCancel, OnCancel
<1>3. \A x \in DlScopes : Earliest(x)' /\ Ticking(x)' /\ Opened(x)' /\ Reasoned(x)'
  BY <1>1, <1>2 DEF Earliest, Ticking, Opened, Reasoned
<1>4. PICK to \in DlScopes \cup {0} :
                                     /\ dlHandler' = [dlHandler EXCEPT ![h] = [dlHandler[h] EXCEPT !.scope = to]]
                                     /\ dlUnheard \subseteq dlUnheard' /\ dlUnheard' \subseteq dlUnheard \cup {h}
                                     /\ to = 0 => h \in dlUnheard'
                                     /\ to # 0 => /\ dlHandler[h].scope = 0 /\ h \notin dlUnheard /\ dlState[to] # "unopened"
                                                  /\ dlState[to] # "running" => h \in dlUnheard'
  <2>1. CASE OffCancel(h)
    <3>1. dlHandler' = [dlHandler EXCEPT ![h].scope = 0] /\ dlUnheard' = dlUnheard \cup {h} BY <2>1 DEF OffCancel
    <3>2. dlHandler' = [dlHandler EXCEPT ![h] = [dlHandler[h] EXCEPT !.scope = 0]] BY <3>1
    <3>3. 0 \in DlScopes \cup {0} OBVIOUS
    <3> QED BY <3>1, <3>2, <3>3
  <2>2. CASE \E s \in DlScopes : OnCancel(h, s)
    <3>1. PICK s \in DlScopes : OnCancel(h, s) BY <2>2
    <3>2. dlHandler' = [dlHandler EXCEPT ![h].scope = s] BY <3>1 DEF OnCancel
    <3>3. dlHandler' = [dlHandler EXCEPT ![h] = [dlHandler[h] EXCEPT !.scope = s]] BY <3>2
    <3>4. /\ dlHandler[h].scope = 0 /\ h \notin dlUnheard /\ dlState[s] # "unopened"
          /\ dlUnheard \subseteq dlUnheard' /\ dlUnheard' \subseteq dlUnheard \cup {h}
          /\ dlState[s] # "running" => h \in dlUnheard'
      BY <3>1 DEF OnCancel
    <3>5. s # 0 /\ s \in DlScopes \cup {0} BY HorizonTyped
    <3> QED BY <3>3, <3>4, <3>5
  <2> QED BY <2>1, <2>2
<1>5. /\ dlHandler' \in [DlHandlers -> [scope : DlScopes \cup {0}, told : Nat]]
      /\ dlHandler'[h].scope = to /\ dlHandler'[h].told = dlHandler[h].told
      /\ \A g \in DlHandlers : g # h => dlHandler'[g] = dlHandler[g]
  <2>1. dlHandler \in [DlHandlers -> [scope : DlScopes \cup {0}, told : Nat]] BY <1>1 DEF DlTyped, HandlerTyped
  <2> DEFINE moved == [dlHandler[h] EXCEPT !.scope = to]
  <2>3. moved \in [scope : DlScopes \cup {0}, told : Nat] /\ moved.scope = to /\ moved.told = dlHandler[h].told
    BY <2>1
  <2>4. dlHandler' = [dlHandler EXCEPT ![h] = moved] BY <1>4
  <2> HIDE DEF moved
  <2>5. dlHandler' \in [DlHandlers -> [scope : DlScopes \cup {0}, told : Nat]] /\ dlHandler'[h] = moved
    BY <2>1, <2>3, <2>4
  <2>6. \A g \in DlHandlers : g # h => dlHandler'[g] = dlHandler[g] BY <2>1, <2>4
  <2> QED BY <2>3, <2>5, <2>6
<1>6. DlTyped'
  BY <1>1, <1>2, <1>5 DEF DlTyped, NowTyped, StateTyped, AtTyped, ReasonTyped, HandlerTyped, AskedTyped
<1>7. ASSUME NEW g \in DlHandlers PROVE Heard(g)'
  <2>1. CASE g # h BY <1>1, <1>2, <1>4, <1>5, <2>1 DEF Heard
  <2>2. CASE g = h
    <3>1. CASE to = 0 BY <1>1, <1>2, <1>4, <1>5, <2>2, <3>1 DEF Heard
    <3>2. CASE to # 0
      <4>1. to \in DlScopes /\ dlHandler[h].told = 0 BY <1>1, <1>4, <3>2 DEF Heard
      <4>2. dlState[to] = "running" => dlReason[to].kind = "none" BY <1>1, <4>1 DEF Reasoned
      <4> QED BY <1>2, <1>4, <1>5, <2>2, <3>2, <4>1, <4>2 DEF Heard
    <3> QED BY <3>1, <3>2
  <2> QED BY <2>1, <2>2
<1> QED BY <1>3, <1>6, <1>7 DEF Timed

\* Time passes only up to the next armed timer.
LEMMA ElapseTimed ==
  ASSUME Timed, Elapse
  PROVE  Timed'
<1>1. DlTyped /\ (\A x \in DlScopes : Earliest(x) /\ Ticking(x) /\ Opened(x) /\ Reasoned(x))
      /\ \A g \in DlHandlers : Heard(g)
  BY DEF Timed
<1>2. /\ dlNow < DlHorizon /\ (\A s \in DlScopes : dlTimer[s] # dlNow) /\ dlNow' = dlNow + 1
      /\ UNCHANGED <<dlState, dlAt, dlTimer, dlReason, dlHandler, dlAsked, dlUnheard>>
  BY DEF Elapse
<1>3. dlNow \in Nat /\ dlNow' \in Moments
  BY <1>1, <1>2, DeadlinesAssumption DEF DlTyped, NowTyped, Moments
<1>4. DlTyped'
  BY <1>1, <1>2, <1>3 DEF DlTyped, NowTyped, StateTyped, AtTyped, ReasonTyped, HandlerTyped, AskedTyped
<1>5. ASSUME NEW x \in DlScopes PROVE Ticking(x)'
  <2>1. dlTimer[x] \in Nat /\ dlTimer[x] >= dlNow /\ dlTimer[x] # dlNow
    BY <1>1, <1>2, HorizonTyped DEF DlTyped, AtTyped, Ticking
  <2>2. dlTimer[x] >= dlNow + 1 BY <1>3, <2>1
  <2> QED BY <1>1, <1>2, <2>2 DEF Ticking
<1>6. ASSUME NEW x \in DlScopes PROVE Reasoned(x)'
  <2>1. dlReason[x].at \in Nat BY <1>1, HorizonTyped DEF DlTyped, ReasonTyped
  <2>2. dlReason[x].at <= dlNow => dlReason[x].at <= dlNow + 1 BY <1>3, <2>1
  <2> QED BY <1>1, <1>2, <2>2 DEF Reasoned
<1>7. \A x \in DlScopes : Earliest(x)' /\ Opened(x)' BY <1>1, <1>2 DEF Earliest, Opened
<1>8. \A g \in DlHandlers : Heard(g)' BY <1>1, <1>2 DEF Heard
<1> QED BY <1>4, <1>5, <1>6, <1>7, <1>8 DEF Timed

\* What a task sees is the earliest deadline asked for.
LEMMA VisibleIsEarliest ==
  ASSUME Timed, NEW s \in DlScopes
  PROVE  VisibleAt(s) = Min({Never} \cup UNION {dlAsked[o] : o \in Outer(s)})
<1> DEFINE seen == {dlAt[o] : o \in Outer(s)}
           asked == {Never} \cup UNION {dlAsked[o] : o \in Outer(s)}
<1>1. DlTyped /\ \A x \in DlScopes : Earliest(x) BY DEF Timed
<1>2. Outer(s) \subseteq DlScopes /\ s \in Outer(s)
  BY DeadlinesAssumption DEF Outer, DlScopes
<1>3. seen \subseteq Nat /\ asked \subseteq Nat
  <2>1. \A o \in Outer(s) : dlAt[o] \in Nat BY <1>1, <1>2, HorizonTyped DEF DlTyped, AtTyped
  <2>2. \A o \in Outer(s) : dlAsked[o] \subseteq Nat BY <1>1, <1>2, HorizonTyped DEF DlTyped, AskedTyped
  <2>3. seen \subseteq Nat BY <2>1
  <2>4. asked \subseteq Nat BY <2>2, HorizonTyped
  <2> QED BY <2>3, <2>4
<1>4. seen # {} /\ asked # {}
  <2>1. dlAt[s] \in seen BY <1>2
  <2>2. Never \in asked OBVIOUS
  <2> QED BY <2>1, <2>2
<1>5. \A a \in seen : a \in asked
  <2> TAKE a \in seen
  <2>1. PICK o \in Outer(s) : a = dlAt[o] OBVIOUS
  <2>2. dlAt[o] = Never \/ dlAt[o] \in dlAsked[o] BY <1>1, <1>2 DEF Earliest
  <2>3. dlAsked[o] \subseteq asked OBVIOUS
  <2>4. Never \in asked OBVIOUS
  <2> QED BY <2>1, <2>2, <2>3, <2>4
<1>6. \A a \in asked : \E b \in seen : b <= a
  <2> TAKE a \in asked
  <2>1. CASE a = Never
    <3>1. dlAt[s] \in Moments \cup {Never} BY <1>1 DEF DlTyped, AtTyped
    <3>2. dlAt[s] <= Never
      <4>1. dlAt[s] \in Nat /\ Never \in Nat /\ (dlAt[s] = Never \/ dlAt[s] < Never) BY <3>1, HorizonTyped
      <4> QED BY <4>1
    <3> QED BY <1>2, <2>1, <3>2
  <2>2. CASE a # Never
    <3>1. PICK o \in Outer(s) : a \in dlAsked[o]
      <4>1. a \in UNION {dlAsked[o] : o \in Outer(s)} BY <2>2
      <4> QED BY <4>1
    <3>2. dlAt[o] <= a BY <1>1, <1>2, <3>1 DEF Earliest
    <3> QED BY <3>2
  <2> QED BY <2>1, <2>2
<1> HIDE DEF seen, asked
<1>7. Min(seen) \in seen /\ \A y \in seen : Min(seen) <= y BY <1>3, <1>4, Least
<1>8. Min(asked) \in asked /\ \A y \in asked : Min(asked) <= y BY <1>3, <1>4, Least
<1>9. Min(asked) <= Min(seen) BY <1>5, <1>7, <1>8
<1>10. PICK b \in seen : b <= Min(asked) BY <1>6, <1>8
<1>11. Min(seen) \in Nat /\ Min(asked) \in Nat /\ b \in Nat BY <1>3, <1>7, <1>8, <1>10
<1>12. Min(seen) <= b BY <1>7, <1>10
<1>13. Min(seen) = Min(asked) BY <1>9, <1>10, <1>11, <1>12
<1> QED BY <1>13 DEF VisibleAt, seen, asked

\* A deadline that has passed has aborted the signal.
LEMMA PassedIsAborted ==
  ASSUME Timed, NEW s \in DlScopes, dlState[s] # "unopened", VisibleAt(s) < dlNow,
         \A o \in Outer(s) : dlState[o] # "closed"
  PROVE  SignalAborted(s)
<1> DEFINE seen == {dlAt[o] : o \in Outer(s)}
<1>1. DlTyped /\ \A x \in DlScopes : Ticking(x) /\ Opened(x) /\ Reasoned(x) BY DEF Timed
<1>2. Outer(s) \subseteq DlScopes /\ s \in Outer(s) /\ \A o \in Outer(s) : o = s \/ s > o
  BY DeadlinesAssumption DEF Outer, DlScopes
<1>3. seen \subseteq Nat /\ seen # {}
  <2>1. \A o \in Outer(s) : dlAt[o] \in Nat BY <1>1, <1>2, HorizonTyped DEF DlTyped, AtTyped
  <2>2. seen \subseteq Nat BY <2>1
  <2>3. dlAt[s] \in seen BY <1>2
  <2> QED BY <2>2, <2>3
<1>4. VisibleAt(s) \in seen BY <1>3, Least DEF VisibleAt
<1>5. PICK o \in Outer(s) : dlAt[o] = VisibleAt(s) BY <1>4
<1>6. o \in DlScopes /\ dlState[o] # "closed" /\ dlState[o] # "unopened"
  BY <1>1, <1>2, <1>5 DEF Opened
<1>7. dlState[o] # "running"
  <2>1. SUFFICES ASSUME dlState[o] = "running" PROVE FALSE OBVIOUS
  <2>2. dlAt[o] >= dlNow /\ dlAt[o] < dlNow BY <1>1, <1>5, <1>6, <2>1 DEF Ticking
  <2>3. dlAt[o] \in Nat /\ dlNow \in Nat BY <1>1, <1>6, HorizonTyped DEF DlTyped, AtTyped, NowTyped
  <2> QED BY <2>2, <2>3
<1>8. dlState[o] = "cancelling" BY <1>1, <1>6, <1>7 DEF DlTyped, StateTyped
<1>9. dlReason[o].kind # "none" BY <1>1, <1>6, <1>8 DEF Reasoned
<1> QED BY <1>5, <1>9 DEF SignalAborted

\* A task sees the earliest deadline asked for along its line of scopes, and it aborts
\* the task; a handler is told once (engine/scope.ts:119-536), for any depth and horizon.
THEOREM DeadlinesAreTrue == DeadlinesInit /\ [][DeadlinesNext]_dlVars => []DeadlineTruth
<1>1. DeadlinesInit => Timed BY DeadlinesInitTimed
<1>2. Timed /\ [DeadlinesNext]_dlVars => Timed'
  <2> SUFFICES ASSUME Timed, [DeadlinesNext]_dlVars PROVE Timed' OBVIOUS
  <2>1. CASE Elapse BY <2>1, ElapseTimed
  <2>2. ASSUME NEW s \in DlScopes, Cancel(s) \/ Fire(s) \/ CloseScope(s) PROVE Timed'
    BY <2>2, CancelActionTimed, FireTimed, CloseScopeTimed
  <2>3. ASSUME NEW s \in DlScopes, NEW ms \in DlDelays, Open(s, ms) \/ SetDeadline(s, ms) PROVE Timed'
    BY <2>3, OpenTimed, SetDeadlineTimed
  <2>4. ASSUME NEW h \in DlHandlers, OffCancel(h) \/ \E s \in DlScopes : OnCancel(h, s) PROVE Timed'
    BY <2>4, HandlersTimed
  <2>5. CASE UNCHANGED dlVars
    BY <2>5 DEF dlVars, Timed, DlTyped, NowTyped, StateTyped, AtTyped, ReasonTyped, HandlerTyped, AskedTyped,
      Earliest, Ticking, Opened, Reasoned, Heard
  <2> QED BY <2>1, <2>2, <2>3, <2>4, <2>5 DEF DeadlinesNext
<1>3. Timed => DeadlineTruth
  <2> SUFFICES ASSUME Timed PROVE DeadlineTruth OBVIOUS
  <2>1. DlTyped /\ (\A s \in DlScopes : Reasoned(s)) /\ \A h \in DlHandlers : Heard(h) BY DEF Timed
  <2>2. ASSUME NEW s \in DlScopes, dlState[s] # "unopened"
        PROVE  /\ VisibleAt(s) = Min({Never} \cup UNION {dlAsked[o] : o \in Outer(s)})
               /\ VisibleAt(s) < dlNow /\ (\A o \in Outer(s) : dlState[o] # "closed") => SignalAborted(s)
               /\ dlReason[s].kind = "deadline" =>
                    /\ dlReason[s].at \in dlAsked[s] /\ dlReason[s].at <= dlNow
                    /\ \A at \in dlAsked[s] : at >= dlReason[s].at
    BY <2>1, <2>2, VisibleIsEarliest, PassedIsAborted DEF Reasoned
  <2>3. ASSUME NEW h \in DlHandlers
        PROVE  /\ dlHandler[h].told <= 1
               /\ dlHandler[h].scope # 0 /\ h \notin dlUnheard =>
                    (dlHandler[h].told = 1) = (dlReason[dlHandler[h].scope].kind # "none")
    BY <2>1 DEF Heard
  <2> QED BY <2>2, <2>3 DEF DeadlineTruth
<1> QED BY <1>1, <1>2, <1>3, PTL

\* The clocks of Companions: a deadline that has passed has cancelled all below it,
\* and limited starts keep their distance.
THEOREM ClocksAreTrue == ClocksSpec => []ClockTruth
  BY DeadlinesAreTrue, KeepsRate, PTL DEF ClocksSpec, ClockTruth

(***************************************************************************)
(* Occurrences in a sequence, as something is added to it or cut from it.   *)
(***************************************************************************)
\* Of a sequence, how often something is in it.
CountIn(seq, type) == Cardinality({i \in DOMAIN seq : seq[i] = type})

\* Occurrences are places of the sequence: finitely many, and none more than places.
LEMMA CountTyped ==
  ASSUME NEW S, NEW seq \in Seq(S), NEW type
  PROVE  /\ IsFiniteSet({i \in DOMAIN seq : seq[i] = type})
         /\ CountIn(seq, type) \in Nat
<1> DEFINE H == {i \in DOMAIN seq : seq[i] = type}
<1>1. Len(seq) \in Nat /\ DOMAIN seq = 1..Len(seq) BY LenProperties
<1>2. IsFiniteSet(1..Len(seq)) BY <1>1, FS_Interval
<1>3. H \in SUBSET (1..Len(seq)) BY <1>1
<1> HIDE DEF H
<1>4. IsFiniteSet(H) BY <1>2, <1>3, FS_Subset
<1>5. Cardinality(H) \in Nat BY <1>4, FS_CardinalityType
<1> QED BY <1>4, <1>5 DEF H, CountIn

\* What is nowhere in it is in it zero times.
LEMMA CountNone ==
  ASSUME NEW seq, NEW type, \A i \in DOMAIN seq : seq[i] # type
  PROVE  CountIn(seq, type) = 0
<1>1. {i \in DOMAIN seq : seq[i] = type} = {} OBVIOUS
<1> QED BY <1>1, FS_EmptySet DEF CountIn

\* And what is at one place only, once.
LEMMA CountOne ==
  ASSUME NEW seq, NEW type, NEW k \in DOMAIN seq, \A i \in DOMAIN seq : seq[i] = type <=> i = k
  PROVE  CountIn(seq, type) = 1
<1>1. {i \in DOMAIN seq : seq[i] = type} = {k} OBVIOUS
<1> QED BY <1>1, FS_Singleton DEF CountIn

\* What is in a sequence is somewhere in it.
LEMMA CountSome ==
  ASSUME NEW S, NEW seq \in Seq(S), NEW type, CountIn(seq, type) # 0
  PROVE  {i \in DOMAIN seq : seq[i] = type} # {}
  BY CountTyped, FS_EmptySet DEF CountIn

\* Two sequences, one behind the other, have their occurrences together.
LEMMA CountBehind ==
  ASSUME NEW S, NEW a \in Seq(S), NEW b \in Seq(S), NEW type
  PROVE  CountIn(a \o b, type) = CountIn(a, type) + CountIn(b, type)
<1> DEFINE A == {i \in DOMAIN a : a[i] = type}
           B == {i \in DOMAIN b : b[i] = type}
           C == {i \in DOMAIN (a \o b) : (a \o b)[i] = type}
           D == {i \in DOMAIN (a \o b) : i > Len(a) /\ (a \o b)[i] = type}
           f == [i \in B |-> Len(a) + i]
<1>1. /\ Len(a) \in Nat /\ DOMAIN a = 1..Len(a) /\ Len(b) \in Nat /\ DOMAIN b = 1..Len(b)
      /\ a \o b \in Seq(S) /\ Len(a \o b) = Len(a) + Len(b)
      /\ \A i \in 1..(Len(a) + Len(b)) : (a \o b)[i] = IF i <= Len(a) THEN a[i] ELSE b[i - Len(a)]
  BY LenProperties, ConcatProperties
<1>2. DOMAIN (a \o b) = 1..(Len(a) + Len(b)) BY <1>1, LenProperties
<1>3. C = A \cup D
  <2>1. \A i \in DOMAIN a : i \in DOMAIN (a \o b) /\ i <= Len(a) /\ (a \o b)[i] = a[i] BY <1>1, <1>2
  <2>2. \A i \in DOMAIN (a \o b) : i > Len(a) \/ i \in DOMAIN a BY <1>1, <1>2
  <2> QED BY <2>1, <2>2
<1>4. A \cap D = {} BY <1>1
<1>5. f \in Bijection(B, D)
  <2>1. \A i \in B : f[i] \in D /\ f[i] - Len(a) = i
    <3> TAKE i \in B
    <3>1. i \in 1..Len(b) /\ b[i] = type /\ f[i] = Len(a) + i BY <1>1
    <3>2. Len(a) + i \in 1..(Len(a) + Len(b)) /\ Len(a) + i > Len(a) /\ (Len(a) + i) - Len(a) = i
          /\ ~(Len(a) + i <= Len(a))
      BY <1>1, <3>1
    <3>3. (a \o b)[Len(a) + i] = b[i] BY <1>1, <3>2
    <3> HIDE DEF f
    <3> QED BY <1>2, <3>1, <3>2, <3>3
  <2>2. \A d \in D : \E i \in B : f[i] = d
    <3> TAKE d \in D
    <3>1. d \in 1..(Len(a) + Len(b)) /\ d > Len(a) /\ (a \o b)[d] = type BY <1>2
    <3>2. d - Len(a) \in 1..Len(b) /\ Len(a) + (d - Len(a)) = d BY <1>1, <3>1
    <3>3. b[d - Len(a)] = type BY <1>1, <3>1
    <3>4. d - Len(a) \in B BY <1>1, <3>2, <3>3
    <3> QED BY <3>2, <3>4
  <2>3. f \in [B -> D] BY <2>1
  <2> HIDE DEF f, B, D
  <2>4. \A i, j \in B : f[i] = f[j] => i = j BY <2>1
  <2>5. f \in Injection(B, D) BY <2>3, <2>4 DEF Injection, IsInjective
  <2>6. f \in Surjection(B, D) BY <2>2, <2>3 DEF Surjection
  <2> QED BY <2>5, <2>6 DEF Bijection
<1>6. IsFiniteSet(A) /\ IsFiniteSet(B) BY CountTyped
<1> HIDE DEF A, B, C, D, f
<1>7. IsFiniteSet(D) /\ Cardinality(D) = Cardinality(B)
  <2>1. ExistsBijection(B, D) BY <1>5 DEF ExistsBijection
  <2> QED BY <2>1, <1>6, FS_Bijection
<1>8. Cardinality(A \cup D) = Cardinality(A) + Cardinality(D) - Cardinality(A \cap D)
  BY <1>6, <1>7, FS_Union
<1>9. Cardinality(A \cap D) = 0 BY <1>4, FS_EmptySet
<1>10. Cardinality(A) \in Nat /\ Cardinality(D) \in Nat BY <1>6, <1>7, FS_CardinalityType
<1>11. CountIn(a \o b, type) = Cardinality(C) /\ CountIn(a, type) = Cardinality(A) /\ CountIn(b, type) = Cardinality(B)
  BY DEF CountIn, A, B, C
<1> QED BY <1>3, <1>7, <1>8, <1>9, <1>10, <1>11

\* A beginning of a sequence has no more of them.
LEMMA CountBeginning ==
  ASSUME NEW S, NEW seq \in Seq(S), NEW n \in 0..Len(seq), NEW type
  PROVE  CountIn(SubSeq(seq, 1, n), type) <= CountIn(seq, type)
<1> DEFINE r == SubSeq(seq, 1, n)
           A == {i \in DOMAIN r : r[i] = type}
           C == {i \in DOMAIN seq : seq[i] = type}
<1>1. Len(seq) \in Nat /\ DOMAIN seq = 1..Len(seq) /\ \A i \in 1..Len(seq) : seq[i] \in S
  BY LenProperties, ElementOfSeq
<1>2. r \in Seq(S) /\ Len(r) = n /\ \A i \in 1..n : r[i] = seq[i]
  <2>1. \A i \in 1..n : seq[i] \in S BY <1>1
  <2>2. r \in Seq(S) /\ Len(r) = (IF 1 <= n THEN n - 1 + 1 ELSE 0)
        /\ \A i \in 1..(n - 1 + 1) : r[i] = seq[1 + i - 1]
    BY <1>1, <2>1, SubSeqProperties
  <2> HIDE DEF r
  <2>3. n \in Nat BY <1>1
  <2>4. \A i \in 1..n : i \in 1..(n - 1 + 1) /\ 1 + i - 1 = i BY <2>3
  <2> QED BY <2>2, <2>3, <2>4
<1> HIDE DEF r
<1>3. DOMAIN r = 1..n BY <1>2, LenProperties
<1>4. A \in SUBSET C BY <1>1, <1>2, <1>3
<1>5. IsFiniteSet(C) BY CountTyped
<1> HIDE DEF A, C
<1>6. Cardinality(A) <= Cardinality(C) BY <1>4, <1>5, FS_Subset
<1> QED BY <1>6 DEF A, C, CountIn, r

(***************************************************************************)
(* The fault lab (FaultLab): what the window holds of each kind of event is *)
(* at most, and if nothing was dropped exactly, what the tasks went through. *)
(***************************************************************************)
\* Of two of the four kinds of scenario the count matters, of two the durations.
FaultKinds == {"cancellation_storm", "provider_timeout", "retry_exhaustion", "cleanup_hang"}
FaultTypes ==
  {"started", "closing", "cancelled", "succeeded", "failed", "attempt", "retrying", "cleanup_timeout"}
FaultScenarios == [kind : FaultKinds, count : Nat, first : Nat, second : Nat]

\* The recorder has taken new events: as many as fitted, and all if it dropped none.
LEMMA RecordCounts ==
  ASSUME faultWindow \in Nat, faultEvents \in Seq(FaultTypes), Len(faultEvents) <= faultWindow,
         faultDropped \in Nat, NEW new \in Seq(FaultTypes), FaultRecord(new)
  PROVE  /\ faultEvents' \in Seq(FaultTypes) /\ Len(faultEvents') <= faultWindow
         /\ faultDropped' \in Nat
         /\ \A type : CountIn(faultEvents', type) <= CountIn(faultEvents, type) + CountIn(new, type)
         /\ faultDropped' = 0 =>
              faultDropped = 0 /\ \A type : CountIn(faultEvents', type) = CountIn(faultEvents, type) + CountIn(new, type)
<1> DEFINE all == faultEvents \o new
           room == IF Len(all) < faultWindow THEN Len(all) ELSE faultWindow
<1>1. all \in Seq(FaultTypes) /\ Len(all) \in Nat BY ConcatProperties, LenProperties
<1>2. room \in 0..Len(all) /\ room <= faultWindow BY <1>1
<1>3. faultEvents' = SubSeq(all, 1, room) /\ faultDropped' = faultDropped + Len(all) - room
  BY DEF FaultRecord
<1>4. \A type : CountIn(all, type) = CountIn(faultEvents, type) + CountIn(new, type)
  BY CountBehind
<1> HIDE DEF all, room
<1>5. \A type : CountIn(faultEvents', type) <= CountIn(all, type)
  BY <1>1, <1>2, <1>3, CountBeginning
<1>6. faultEvents' \in Seq(FaultTypes) /\ Len(faultEvents') = room
  <2>1. \A i \in 1..room : all[i] \in FaultTypes BY <1>1, <1>2, ElementOfSeq
  <2>2. 1 \in Int /\ room \in Int BY <1>2
  <2>3. faultEvents' \in Seq(FaultTypes) /\ Len(faultEvents') = IF 1 <= room THEN room - 1 + 1 ELSE 0
    BY <1>3, <2>1, <2>2, SubSeqProperties
  <2> QED BY <1>2, <2>3
<1>7. faultDropped' \in Nat BY <1>1, <1>2, <1>3
<1>8. faultDropped' = 0 => faultDropped = 0 /\ room = Len(all) BY <1>1, <1>2, <1>3
<1>9. room = Len(all) => faultEvents' = all BY <1>1, <1>3, SubSeqFull
<1>10. \A type : CountIn(faultEvents', type) <= CountIn(faultEvents, type) + CountIn(new, type)
  BY <1>4, <1>5
<1>11. faultDropped' = 0 =>
         faultDropped = 0 /\ \A type : CountIn(faultEvents', type) = CountIn(faultEvents, type) + CountIn(new, type)
  BY <1>4, <1>8, <1>9
<1> QED BY <1>2, <1>6, <1>7, <1>10, <1>11

\* Types.
FaultStages == {"unborn", "running", "cleaning", "cancelled", "succeeded", "failed"}
FaultTyped ==
  /\ faultScenario \in FaultScenarios /\ faultWindow \in Nat
  /\ faultTask \in [FaultTasks -> FaultStages] /\ faultCalls \in Nat
  /\ faultEvents \in Seq(FaultTypes) /\ Len(faultEvents) <= faultWindow /\ faultDropped \in Nat
  /\ faultClosing \in {"none", "cancelled", "errored"} /\ faultOuter \in BOOLEAN
  /\ faultError \in {"none", "spawn", "cancellation", "TimeoutError", "retry_exhausted"}
  /\ faultReport \in {"pending", "pass", "fail"}

\* How a task stands says of which kind the scenario is and what has happened.
StageFits(i) ==
  /\ faultTask[i] = "cleaning" => Kind("cleanup_hang")
  /\ faultTask[i] = "cancelled" => faultClosing = "cancelled" /\ ~Kind("cleanup_hang")
  /\ faultTask[i] = "failed" =>
       \/ Kind("provider_timeout") /\ faultScenario.first <= faultScenario.second /\ faultError # "none"
       \/ Kind("retry_exhaustion") /\ faultCalls = faultScenario.count /\ faultError = "retry_exhausted"
  /\ faultTask[i] = "succeeded" =>
       \/ Kind("cleanup_hang")
       \/ Kind("cancellation_storm") /\ faultScenario.second <= faultScenario.first
       \/ Kind("provider_timeout") /\ faultScenario.second <= faultScenario.first
ErrorFits ==
  /\ faultError = "spawn" => faultOuter /\ ~Begun
  /\ faultError = "cancellation" => faultOuter /\ (Kind("provider_timeout") \/ Kind("retry_exhaustion"))
  /\ faultError = "TimeoutError" => Kind("provider_timeout")
  /\ faultError = "retry_exhausted" => Kind("retry_exhaustion") /\ faultTask[1] = "failed"
ClosingFits ==
  /\ faultClosing = "cancelled" => Kind("cancellation_storm") \/ faultOuter
  /\ faultClosing = "errored" => ~Kind("cancellation_storm")
  /\ Begun => \A i \in FaultTasks : faultTask[i] # "unborn"
  /\ ~Begun => (faultError = "none" => faultClosing = "none")
FaultControl == (\A i \in FaultTasks : StageFits(i)) /\ ErrorFits /\ ClosingFits

\* What there should be in a window that is large enough.
FaultCancels == Cardinality(Active({"cancelled"}))
FaultClosings == IF Begun /\ faultClosing # "none" THEN 1 ELSE 0
FaultCuts == IF Kind("cleanup_hang") /\ faultTask[1] = "succeeded" THEN 1 ELSE 0
FaultFailures == IF ~Kind("cancellation_storm") /\ faultTask[1] = "failed" THEN 1 ELSE 0
FaultRetries ==
  IF Kind("retry_exhaustion") THEN faultCalls - (IF faultTask[1] = "failed" THEN 1 ELSE 0) ELSE 0
Recorded(type, n) ==
  CountIn(faultEvents, type) <= n /\ (faultDropped = 0 => CountIn(faultEvents, type) = n)
FaultCounted ==
  /\ Recorded("cancelled", FaultCancels) /\ Recorded("closing", FaultClosings)
  /\ Recorded("cleanup_timeout", FaultCuts) /\ Recorded("failed", FaultFailures)
  /\ Recorded("retrying", FaultRetries)

\* After the report nothing happens any more.
FaultReported ==
  faultReport # "pending" =>
    /\ Active({"running", "cleaning"}) = {}
    /\ Begun \/ faultError = "spawn"
    /\ Kind("cancellation_storm") => faultClosing # "none"
    /\ FaultTruth
FaultSound == FaultTyped /\ FaultControl /\ FaultCounted /\ FaultReported

\* A scenario has one task, unless it is a storm.
LEMMA OneFaultTask == ~Kind("cancellation_storm") => FaultTasks = {1}
  BY DEF FaultTasks

\* The tasks are finitely many, and so are those in some stages.
LEMMA FaultTasksFinite ==
  ASSUME FaultTyped
  PROVE  /\ IsFiniteSet(FaultTasks)
         /\ Kind("cancellation_storm") => Cardinality(FaultTasks) = faultScenario.count
         /\ \A stages : IsFiniteSet(Active(stages)) /\ Cardinality(Active(stages)) \in Nat
<1>1. faultScenario.count \in Nat BY DEF FaultTyped, FaultScenarios
<1>2. \A n \in Nat : IsFiniteSet(1..n) /\ Cardinality(1..n) = n BY FS_Interval
<1>3. IsFiniteSet(FaultTasks) BY <1>1, <1>2 DEF FaultTasks
<1>4. Kind("cancellation_storm") => Cardinality(FaultTasks) = faultScenario.count
  BY <1>1, <1>2 DEF FaultTasks
<1>5. ASSUME NEW stages PROVE IsFiniteSet(Active(stages)) /\ Cardinality(Active(stages)) \in Nat
  <2>1. Active(stages) \in SUBSET FaultTasks BY DEF Active
  <2>2. IsFiniteSet(Active(stages)) BY <1>3, <2>1, FS_Subset
  <2> QED BY <2>2, FS_CardinalityType
<1> QED BY <1>3, <1>4, <1>5

\* The counts are kept by a record of what the tasks have gone through meanwhile.
LEMMA CountedAfter ==
  ASSUME FaultTyped, FaultCounted, NEW new \in Seq(FaultTypes), FaultRecord(new),
         FaultCancels' = FaultCancels + CountIn(new, "cancelled"),
         FaultClosings' = FaultClosings + CountIn(new, "closing"),
         FaultCuts' = FaultCuts + CountIn(new, "cleanup_timeout"),
         FaultFailures' = FaultFailures + CountIn(new, "failed"),
         FaultRetries' = FaultRetries + CountIn(new, "retrying")
  PROVE  /\ FaultCounted'
         /\ faultEvents' \in Seq(FaultTypes) /\ Len(faultEvents') <= faultWindow /\ faultDropped' \in Nat
<1>1. /\ faultEvents' \in Seq(FaultTypes) /\ Len(faultEvents') <= faultWindow /\ faultDropped' \in Nat
      /\ \A type : CountIn(faultEvents', type) <= CountIn(faultEvents, type) + CountIn(new, type)
      /\ faultDropped' = 0 =>
           faultDropped = 0 /\ \A type : CountIn(faultEvents', type) = CountIn(faultEvents, type) + CountIn(new, type)
  BY RecordCounts DEF FaultTyped
<1>2. \A type : CountIn(faultEvents, type) \in Nat /\ CountIn(new, type) \in Nat /\ CountIn(faultEvents', type) \in Nat
  BY <1>1, CountTyped DEF FaultTyped
<1>3. ASSUME NEW type, NEW n \in Int, NEW m, Recorded(type, n), m = n + CountIn(new, type)
      PROVE  CountIn(faultEvents', type) <= m /\ (faultDropped' = 0 => CountIn(faultEvents', type) = m)
  <2> DEFINE a == CountIn(faultEvents, type)  b == CountIn(new, type)  c == CountIn(faultEvents', type)
  <2>1. a \in Nat /\ b \in Nat /\ c \in Nat BY <1>2
  <2>2. a <= n /\ (faultDropped = 0 => a = n) BY <1>3 DEF Recorded
  <2>3. c <= a + b /\ (faultDropped' = 0 => faultDropped = 0 /\ c = a + b) BY <1>1
  <2>4. m = n + b BY <1>3
  <2> HIDE DEF a, b, c
  <2>5. c <= m /\ (faultDropped' = 0 => c = m) BY <2>1, <2>2, <2>3, <2>4
  <2> QED BY <2>5 DEF c
<1>4. /\ FaultCancels \in Int /\ FaultClosings \in Int /\ FaultCuts \in Int /\ FaultFailures \in Int
      /\ FaultRetries \in Int
  <2>1. FaultCancels \in Int BY FaultTasksFinite DEF FaultCancels
  <2> QED BY <2>1 DEF FaultClosings, FaultCuts, FaultFailures, FaultRetries, FaultTyped
<1>5. Recorded("cancelled", FaultCancels)' BY <1>3, <1>4 DEF FaultCounted, Recorded
<1>6. Recorded("closing", FaultClosings)' BY <1>3, <1>4 DEF FaultCounted, Recorded
<1>7. Recorded("cleanup_timeout", FaultCuts)' BY <1>3, <1>4 DEF FaultCounted, Recorded
<1>8. Recorded("failed", FaultFailures)' BY <1>3, <1>4 DEF FaultCounted, Recorded
<1>9. Recorded("retrying", FaultRetries)' BY <1>3, <1>4 DEF FaultCounted, Recorded
<1> QED BY <1>1, <1>5, <1>6, <1>7, <1>8, <1>9 DEF FaultCounted

\* Of one event, and of two.
LEMMA CountSingle ==
  ASSUME NEW a, NEW type
  PROVE  CountIn(<<a>>, type) = (IF a = type THEN 1 ELSE 0)
<1>1. DOMAIN <<a>> = {1} /\ <<a>>[1] = a OBVIOUS
<1>2. CASE a = type BY <1>1, <1>2, CountOne
<1>3. CASE a # type BY <1>1, <1>3, CountNone
<1> QED BY <1>2, <1>3

\* Of two that are put together.
LEMMA CountPair ==
  ASSUME NEW a, NEW b, NEW type
  PROVE  CountIn(<<a, b>>, type) = (IF a = type THEN 1 ELSE 0) + (IF b = type THEN 1 ELSE 0)
<1>1. <<a>> \in Seq({a, b}) /\ <<b>> \in Seq({a, b}) OBVIOUS
<1>2. CountIn(<<a>> \o <<b>>, type) = CountIn(<<a>>, type) + CountIn(<<b>>, type) BY <1>1, CountBehind
<1>3. <<a, b>> = <<a>> \o <<b>>
  <2> DEFINE s == <<a>> \o <<b>>
             t == <<a, b>>
  <2>1. s \in Seq({a, b}) /\ Len(s) = 2 /\ s[1] = a /\ s[2] = b
    BY <1>1, ConcatProperties
  <2>2. t \in Seq({a, b}) /\ Len(t) = 2 /\ t[1] = a /\ t[2] = b OBVIOUS
  <2> HIDE DEF s, t
  <2>3. \A i \in 1..2 : s[i] = t[i] BY <2>1, <2>2
  <2> QED BY <2>1, <2>2, <2>3, SeqEqual DEF s, t
<1> QED BY <1>2, <1>3, CountSingle

\* A task that was running or cleaning goes on.
LEMMA TaskBecomes ==
  ASSUME FaultTyped, UNCHANGED faultScenario, NEW i \in FaultTasks, NEW stage \in FaultStages \ {"unborn"},
         Becomes(i, stage), faultTask[i] \in {"running", "cleaning"}
  PROVE  /\ FaultTasks' = FaultTasks /\ \A a : Kind(a)' = Kind(a)
         /\ faultTask' \in [FaultTasks -> FaultStages]
         /\ \A j \in FaultTasks : faultTask'[j] = IF j = i THEN stage ELSE faultTask[j]
         /\ Begun /\ Begun'
         /\ FaultCancels' = FaultCancels + (IF stage = "cancelled" THEN 1 ELSE 0)
<1>1. FaultTasks' = FaultTasks /\ \A a : Kind(a)' = Kind(a) BY DEF FaultTasks, Kind
<1>2. faultTask' \in [FaultTasks -> FaultStages]
      /\ \A j \in FaultTasks : faultTask'[j] = IF j = i THEN stage ELSE faultTask[j]
  BY DEF FaultTyped, Becomes
<1>3. Begun BY DEF Begun
<1>4. Begun' BY <1>1, <1>2 DEF Begun
<1>5. Active({"cancelled"})' =
        IF stage = "cancelled" THEN Active({"cancelled"}) \cup {i} ELSE Active({"cancelled"})
  BY <1>1, <1>2 DEF Active
<1>6. i \notin Active({"cancelled"}) BY DEF Active
<1>7. IsFiniteSet(Active({"cancelled"})) /\ Cardinality(Active({"cancelled"})) \in Nat BY FaultTasksFinite
<1>8. Cardinality(Active({"cancelled"}) \cup {i}) = Cardinality(Active({"cancelled"})) + 1
  BY <1>6, <1>7, FS_AddElement
<1>9. FaultCancels' = FaultCancels + (IF stage = "cancelled" THEN 1 ELSE 0)
  BY <1>5, <1>7, <1>8 DEF FaultCancels
<1> QED BY <1>1, <1>2, <1>3, <1>4, <1>9

FaultKept == FaultTyped' /\ FaultControl' /\ FaultCounted' /\ faultReport' = "pending"
Going == FaultTyped /\ FaultControl /\ FaultCounted /\ faultReport = "pending"

\* The tasks are spawned, or not.
LEMMA BeginKeeps == ASSUME Going, Begin PROVE FaultKept
<1> USE DEF Going
<1>0. FaultTasks' = FaultTasks /\ (\A a : Kind(a)' = Kind(a)) /\ faultReport' = "pending"
      /\ UNCHANGED <<faultScenario, faultWindow, faultCalls, faultOuter>>
  BY DEF Begin, FaultTasks, Kind
<1>1. ~Begun /\ faultClosing = "none" /\ faultError = "none"
  BY DEF Begin, FaultControl, ClosingFits
<1>2. CASE faultOuter
  <2>1. faultError' = "spawn" /\ faultClosing' = "cancelled" /\ UNCHANGED <<faultTask, faultEvents, faultDropped>>
    BY <1>2 DEF Begin
  <2>2. ~Begun' BY <1>0, <1>1, <2>1 DEF Begun
  <2>3. FaultTyped' BY <1>0, <2>1 DEF FaultTyped
  <2>4. \A i \in FaultTasks : faultTask[i] = "unborn" BY <1>1 DEF Begun
  <2>5. FaultControl' BY <1>0, <1>2, <2>1, <2>2, <2>4 DEF FaultControl, StageFits, ErrorFits, ClosingFits
  <2>6. FaultCounted'
    <3>1. FaultClosings' = FaultClosings BY <1>1, <2>2 DEF FaultClosings
    <3>2. UNCHANGED <<FaultCancels, FaultCuts, FaultFailures, FaultRetries>>
      BY <1>0, <2>1 DEF FaultCancels, FaultCuts, FaultFailures, FaultRetries, Active
    <3> QED BY <2>1, <3>1, <3>2 DEF FaultCounted, Recorded
  <2> QED BY <1>0, <2>3, <2>5, <2>6 DEF FaultKept
<1>3. CASE ~faultOuter
  <2> DEFINE new == [i \in FaultTasks |-> "started"]
  <2>1. faultTask' = [i \in FaultTasks |-> "running"] /\ FaultRecord(new) /\ UNCHANGED <<faultError, faultClosing>>
    BY <1>3 DEF Begin
  <2>2. new \in Seq(FaultTypes)
    <3>1. \E n \in Nat : FaultTasks = 1..n BY DEF FaultTasks, FaultTyped, FaultScenarios
    <3> QED BY <3>1 DEF FaultTypes
  <2>3. \A type : type # "started" => CountIn(new, type) = 0 BY CountNone
  <2> HIDE DEF new
  <2>4. \A i \in FaultTasks : faultTask[i] = "unborn" /\ faultTask'[i] = "running" BY <1>1, <2>1 DEF Begun
  <2>5. Active({"cancelled"}) = {} /\ Active({"cancelled"})' = {} BY <1>0, <2>4 DEF Active
  <2>6. FaultCancels = 0 /\ FaultCancels' = 0 BY <2>5, FS_EmptySet DEF FaultCancels
  <2>7. FaultClosings' = 0 /\ FaultClosings = 0 BY <1>1, <2>1 DEF FaultClosings
  <2>8. ~Kind("cancellation_storm") => faultTask[1] = "unborn" /\ faultTask'[1] = "running"
    BY <2>4, OneFaultTask
  <2>9. ~Kind("cancellation_storm") => UNCHANGED <<FaultCuts, FaultFailures, FaultRetries>>
    BY <1>0, <2>8 DEF FaultCuts, FaultFailures, FaultRetries
  <2>10. Kind("cancellation_storm") => UNCHANGED <<FaultCuts, FaultFailures, FaultRetries>>
    BY <1>0 DEF FaultCuts, FaultFailures, FaultRetries, Kind
  <2>11. FaultCuts \in Int /\ FaultFailures \in Int /\ FaultRetries \in Int
    BY DEF FaultCuts, FaultFailures, FaultRetries, FaultTyped
  <2>12. /\ FaultCounted'
         /\ faultEvents' \in Seq(FaultTypes) /\ Len(faultEvents') <= faultWindow /\ faultDropped' \in Nat
    BY <2>1, <2>2, <2>3, <2>6, <2>7, <2>9, <2>10, <2>11, CountedAfter
  <2>13. FaultTyped'
    <3>1. faultTask' \in [FaultTasks -> FaultStages] BY <2>1 DEF FaultStages
    <3> QED BY <1>0, <2>1, <2>12, <3>1 DEF FaultTyped
  <2>14. FaultControl'
    BY <1>0, <1>1, <1>3, <2>1, <2>4 DEF FaultControl, StageFits, ErrorFits, ClosingFits
  <2> QED BY <1>0, <2>12, <2>13, <2>14 DEF FaultKept
<1> QED BY <1>2, <1>3

\* The scope is told to close: the recorder sees it once.
LEMMA ClosingKeeps ==
  ASSUME Going, Begun, faultClosing = "none", faultClosing' = "cancelled", FaultRecord(<<"closing">>),
         UNCHANGED <<faultScenario, faultWindow, faultTask, faultCalls, faultError, faultReport>>,
         faultOuter' \in {faultOuter, TRUE}, Kind("cancellation_storm") \/ faultOuter'
  PROVE  FaultKept
<1> USE DEF Going
<1>0. FaultTasks' = FaultTasks /\ (\A a : Kind(a)' = Kind(a)) /\ faultReport' = "pending" /\ Begun'
  BY DEF FaultTasks, Kind, Begun
<1>1. FaultClosings = 0 /\ FaultClosings' = 1 BY <1>0 DEF FaultClosings
<1>2. UNCHANGED <<FaultCancels, FaultCuts, FaultFailures, FaultRetries>>
  BY <1>0 DEF FaultCancels, FaultCuts, FaultFailures, FaultRetries, Active
<1>3. /\ FaultCancels \in Int /\ FaultCuts \in Int /\ FaultFailures \in Int /\ FaultRetries \in Int
  <2>1. FaultCancels \in Int BY FaultTasksFinite DEF FaultCancels
  <2> QED BY <2>1 DEF FaultCuts, FaultFailures, FaultRetries, FaultTyped
<1>4. \A type : CountIn(<<"closing">>, type) = IF "closing" = type THEN 1 ELSE 0 BY CountSingle
<1>5. <<"closing">> \in Seq(FaultTypes) BY DEF FaultTypes
<1>6. /\ FaultCounted'
      /\ faultEvents' \in Seq(FaultTypes) /\ Len(faultEvents') <= faultWindow /\ faultDropped' \in Nat
  <2> DEFINE new == <<"closing">>
  <2>1. /\ FaultCancels' = FaultCancels + CountIn(new, "cancelled")
        /\ FaultCuts' = FaultCuts + CountIn(new, "cleanup_timeout")
        /\ FaultFailures' = FaultFailures + CountIn(new, "failed")
        /\ FaultRetries' = FaultRetries + CountIn(new, "retrying")
    BY <1>2, <1>3, <1>4
  <2>2. FaultClosings' = FaultClosings + CountIn(new, "closing") BY <1>1, <1>4
  <2> HIDE DEF new
  <2> QED BY <1>5, <2>1, <2>2, CountedAfter DEF new
<1>7. FaultTyped' BY <1>0, <1>6 DEF FaultTyped
<1>8. FaultControl'
  <2>1. (\A i \in FaultTasks : StageFits(i))' BY <1>0 DEF FaultControl, StageFits
  <2>2. ErrorFits' BY <1>0, Zenon DEF FaultControl, ErrorFits, FaultTyped
  <2>3. ClosingFits' BY <1>0 DEF FaultControl, ClosingFits
  <2> QED BY <2>1, <2>2, <2>3 DEF FaultControl
<1> QED BY <1>0, <1>6, <1>7, <1>8 DEF FaultKept

\* The storm, and the caller's scope.
LEMMA StormKeeps == ASSUME Going, StormCancels PROVE FaultKept
  BY ClosingKeeps DEF StormCancels
\* The outer scope is aborted.
LEMMA OuterKeeps == ASSUME Going, OuterAborts PROVE FaultKept
<1>1. CASE Begun /\ faultClosing = "none" BY <1>1, ClosingKeeps DEF OuterAborts
<1>2. CASE ~(Begun /\ faultClosing = "none")
  <2>1. /\ faultOuter' = TRUE /\ UNCHANGED <<faultClosing, faultEvents, faultDropped, faultScenario, faultWindow>>
        /\ UNCHANGED <<faultTask, faultCalls, faultError, faultReport>>
    BY <1>2 DEF OuterAborts
  <2>2. FaultTasks' = FaultTasks /\ (\A a : Kind(a)' = Kind(a)) /\ Begun' = Begun
    BY <2>1 DEF FaultTasks, Kind, Begun
  <2>3. FaultTyped' BY <2>1, <2>2 DEF Going, FaultTyped
  <2>4. FaultControl'
    <3>1. (\A i \in FaultTasks : StageFits(i))' BY <2>1, <2>2 DEF Going, FaultControl, StageFits
    <3>2. ErrorFits' BY <2>1, <2>2 DEF Going, FaultControl, ErrorFits
    <3>3. ClosingFits' BY <2>1, <2>2 DEF Going, FaultControl, ClosingFits
    <3> QED BY <3>1, <3>2, <3>3 DEF FaultControl
  <2>5. FaultCounted'
    BY <2>1, <2>2 DEF Going, FaultCounted, Recorded, FaultCancels, FaultClosings, FaultCuts, FaultFailures,
                      FaultRetries, Active
  <2> QED BY <2>1, <2>3, <2>4, <2>5 DEF Going, FaultKept
<1> QED BY <1>1, <1>2

\* A task has moved on, and what it went through was recorded.
LEMMA TaskKeeps ==
  ASSUME Going, UNCHANGED <<faultScenario, faultWindow, faultOuter, faultReport>>,
         NEW i \in FaultTasks, NEW stage \in FaultStages \ {"unborn"},
         Becomes(i, stage), faultTask[i] \in {"running", "cleaning"},
         NEW new \in Seq(FaultTypes), FaultRecord(new),
         faultCalls' \in Nat, faultClosing' \in {faultClosing, "errored"},
         faultClosing # "none" => faultClosing' = faultClosing,
         faultClosing' = "errored" => faultClosing = "errored" \/ ~Kind("cancellation_storm"),
         faultError' \in {"none", "spawn", "cancellation", "TimeoutError", "retry_exhausted"},
         StageFits(i)', ErrorFits',
         CountIn(new, "cancelled") = (IF stage = "cancelled" THEN 1 ELSE 0),
         CountIn(new, "closing") = (IF faultClosing' = faultClosing THEN 0 ELSE 1),
         CountIn(new, "cleanup_timeout") = (IF Kind("cleanup_hang") /\ stage = "succeeded" THEN 1 ELSE 0),
         CountIn(new, "failed") = (IF ~Kind("cancellation_storm") /\ stage = "failed" THEN 1 ELSE 0),
         FaultRetries' = FaultRetries + CountIn(new, "retrying"),
         Kind("cancellation_storm") => UNCHANGED faultClosing
  PROVE  FaultKept
<1> USE DEF Going
<1>0. /\ FaultTasks' = FaultTasks /\ \A a : Kind(a)' = Kind(a)
      /\ faultTask' \in [FaultTasks -> FaultStages]
      /\ \A j \in FaultTasks : faultTask'[j] = IF j = i THEN stage ELSE faultTask[j]
      /\ Begun /\ Begun'
      /\ FaultCancels' = FaultCancels + (IF stage = "cancelled" THEN 1 ELSE 0)
  BY TaskBecomes
<1>1. FaultClosings' = FaultClosings + CountIn(new, "closing")
  BY <1>0 DEF FaultClosings
<1>2. ~Kind("cancellation_storm") => i = 1 /\ faultTask'[1] = stage /\ faultTask[1] \in {"running", "cleaning"}
  BY <1>0, OneFaultTask
<1>3. FaultCuts' = FaultCuts + CountIn(new, "cleanup_timeout")
  <2>1. CASE Kind("cleanup_hang")
    <3>1. ~Kind("cancellation_storm") BY <2>1 DEF Kind
    <3> QED BY <1>0, <1>2, <2>1, <3>1 DEF FaultCuts
  <2>2. CASE ~Kind("cleanup_hang") BY <1>0, <2>2 DEF FaultCuts
  <2> QED BY <2>1, <2>2
<1>4. FaultFailures' = FaultFailures + CountIn(new, "failed")
  <2>1. CASE ~Kind("cancellation_storm") BY <1>0, <1>2, <2>1 DEF FaultFailures
  <2>2. CASE Kind("cancellation_storm") BY <1>0, <2>2 DEF FaultFailures
  <2> QED BY <2>1, <2>2
<1>5. /\ FaultCounted'
      /\ faultEvents' \in Seq(FaultTypes) /\ Len(faultEvents') <= faultWindow /\ faultDropped' \in Nat
  <2>1. FaultCancels' = FaultCancels + CountIn(new, "cancelled") BY <1>0
  <2> QED BY <1>1, <1>3, <1>4, <2>1, CountedAfter
<1>6. FaultTyped' BY <1>0, <1>5 DEF FaultTyped
<1>7. ASSUME NEW j \in FaultTasks, j # i PROVE StageFits(j)'
  <2>1. faultTask'[j] = faultTask[j] BY <1>0, <1>7
  <2>2. Kind("cancellation_storm") BY <1>7, OneFaultTask
  <2>3. StageFits(j) BY DEF FaultControl
  <2>4. ~Kind("provider_timeout") /\ ~Kind("retry_exhaustion") /\ ~Kind("cleanup_hang") BY <2>2 DEF Kind
  <2> QED BY <1>0, <2>1, <2>2, <2>3, <2>4 DEF StageFits
<1>8. ClosingFits'
  <2>1. faultClosing' = "cancelled" => Kind("cancellation_storm") \/ faultOuter BY DEF FaultControl, ClosingFits
  <2>2. faultClosing' = "errored" => ~Kind("cancellation_storm") BY DEF FaultControl, ClosingFits
  <2>3. \A j \in FaultTasks : faultTask'[j] # "unborn" BY <1>0 DEF FaultControl, ClosingFits
  <2> QED BY <1>0, <2>1, <2>2, <2>3 DEF ClosingFits
<1>9. FaultControl' BY <1>0, <1>7, <1>8 DEF FaultControl
<1> QED BY <1>5, <1>6, <1>9 DEF FaultKept

\* A sleep is aborted, or over in time.
LEMMA AbortKeeps == ASSUME Going, NEW i \in FaultTasks, SleepAborted(i) PROVE FaultKept
<1>1. /\ faultTask[i] = "running" /\ faultClosing = "cancelled" /\ ~Kind("cleanup_hang")
      /\ Becomes(i, "cancelled") /\ FaultRecord(<<"cancelled">>)
      /\ faultError' = IF Kind("cancellation_storm") THEN "none" ELSE "cancellation"
      /\ UNCHANGED <<faultScenario, faultWindow, faultCalls, faultClosing, faultOuter, faultReport>>
  BY DEF SleepAborted
<1>2. \A type : CountIn(<<"cancelled">>, type) = IF "cancelled" = type THEN 1 ELSE 0 BY CountSingle
<1>3. /\ <<"cancelled">> \in Seq(FaultTypes) /\ "cancelled" \in FaultStages \ {"unborn"} BY DEF FaultStages, FaultTypes
<1>4. /\ \A a : Kind(a)' = Kind(a)
      /\ \A j \in FaultTasks : faultTask'[j] = IF j = i THEN "cancelled" ELSE faultTask[j]
  BY <1>1, <1>3, TaskBecomes DEF Going
<1>5. StageFits(i)' BY <1>1, <1>4 DEF StageFits
<1>6. ErrorFits'
  <2>1. Kind("cancellation_storm") \/ Kind("provider_timeout") \/ Kind("retry_exhaustion")
    BY <1>1 DEF Going, FaultTyped, FaultScenarios, FaultKinds, Kind
  <2>2. Kind("cancellation_storm") \/ faultOuter BY <1>1 DEF Going, FaultControl, ClosingFits
  <2> QED BY <1>1, <1>4, <2>1, <2>2 DEF ErrorFits
<1>7. FaultRetries' = FaultRetries + CountIn(<<"cancelled">>, "retrying")
  <2>1. Kind("retry_exhaustion") => i = 1 BY OneFaultTask DEF Kind
  <2>2. faultCalls \in Nat BY DEF Going, FaultTyped
  <2>3. Kind("retry_exhaustion") => faultTask[1] # "failed" /\ faultTask'[1] # "failed" BY <1>1, <1>4, <2>1
  <2> QED BY <1>1, <1>2, <1>4, <2>2, <2>3 DEF FaultRetries
<1>8. faultError' \in {"none", "cancellation"} /\ faultCalls' \in Nat BY <1>1 DEF Going, FaultTyped
<1> QED BY <1>1, <1>2, <1>3, <1>5, <1>6, <1>7, <1>8, TaskKeeps

\* A task finishes.
LEMMA FinishKeeps == ASSUME Going, NEW i \in FaultTasks, Finishes(i) PROVE FaultKept
<1>1. /\ faultTask[i] = "running" /\ Becomes(i, "succeeded") /\ FaultRecord(<<"succeeded">>)
      /\ UNCHANGED <<faultScenario, faultWindow, faultCalls, faultClosing, faultOuter, faultError, faultReport>>
      /\ Kind("cancellation_storm") \/ Kind("provider_timeout")
      /\ faultScenario.second <= faultScenario.first
  BY DEF Finishes
<1>2. \A type : CountIn(<<"succeeded">>, type) = IF "succeeded" = type THEN 1 ELSE 0 BY CountSingle
<1>3. /\ <<"succeeded">> \in Seq(FaultTypes) /\ "succeeded" \in FaultStages \ {"unborn"} BY DEF FaultStages, FaultTypes
<1>4. /\ (\A a : Kind(a)' = Kind(a)) /\ Begun' /\ Begun
      /\ \A j \in FaultTasks : faultTask'[j] = IF j = i THEN "succeeded" ELSE faultTask[j]
  BY <1>1, <1>3, TaskBecomes DEF Going
<1>5. StageFits(i)' BY <1>1, <1>4 DEF StageFits
<1>6. ~Kind("retry_exhaustion") /\ ~Kind("cleanup_hang") BY <1>1 DEF Kind
<1>7. ErrorFits' BY <1>1, <1>4, <1>6 DEF Going, FaultControl, ErrorFits
<1>8. FaultRetries' = FaultRetries + CountIn(<<"succeeded">>, "retrying")
  BY <1>2, <1>4, <1>6 DEF FaultRetries
<1>9. faultError' \in {"none", "spawn", "cancellation", "TimeoutError", "retry_exhausted"} /\ faultCalls' \in Nat
  BY <1>1 DEF Going, FaultTyped
<1> QED BY <1>1, <1>2, <1>3, <1>5, <1>6, <1>7, <1>8, <1>9, TaskKeeps

\* The provider loses against its timeout.
LEMMA ProviderKeeps == ASSUME Going, ProviderTimesOut PROVE FaultKept
<1> DEFINE new == <<>> \o <<"closing", "failed">>
<1>1. /\ Kind("provider_timeout") /\ faultTask[1] = "running" /\ faultClosing = "none"
      /\ faultScenario.first <= faultScenario.second
      /\ Becomes(1, "failed") /\ faultError' = "TimeoutError" /\ faultClosing' = "errored" /\ FaultRecord(new)
      /\ UNCHANGED <<faultScenario, faultWindow, faultCalls, faultOuter, faultReport>>
  BY DEF ProviderTimesOut, FailsWith
<1>2. new = <<"closing", "failed">> OBVIOUS
<1>3. \A type : CountIn(new, type) = (IF "closing" = type THEN 1 ELSE 0) + (IF "failed" = type THEN 1 ELSE 0)
  BY <1>2, CountPair
<1>4. /\ new \in Seq(FaultTypes) /\ "failed" \in FaultStages \ {"unborn"} BY <1>2 DEF FaultStages, FaultTypes
<1> HIDE DEF new
<1>5. ~Kind("cancellation_storm") /\ ~Kind("retry_exhaustion") /\ ~Kind("cleanup_hang") BY <1>1 DEF Kind
<1>6. 1 \in FaultTasks BY <1>5, OneFaultTask
<1>7. /\ (\A a : Kind(a)' = Kind(a))
      /\ \A j \in FaultTasks : faultTask'[j] = IF j = 1 THEN "failed" ELSE faultTask[j]
  BY <1>1, <1>4, <1>6, TaskBecomes DEF Going
<1>8. StageFits(1)' BY <1>1, <1>6, <1>7 DEF StageFits
<1>9. ErrorFits' BY <1>1, <1>7 DEF ErrorFits
<1>10. FaultRetries' = FaultRetries + CountIn(new, "retrying") BY <1>3, <1>5, <1>7 DEF FaultRetries
<1>11. faultCalls' \in Nat BY <1>1 DEF Going, FaultTyped
<1> QED BY <1>1, <1>3, <1>4, <1>5, <1>6, <1>8, <1>9, <1>10, <1>11, TaskKeeps

\* An attempt throws: it is announced as a retry unless it was the last.
LEMMA AttemptKeeps == ASSUME Going, AttemptThrows PROVE FaultKept
<1>1. /\ Kind("retry_exhaustion") /\ faultTask[1] = "running" /\ faultCalls' = faultCalls + 1
      /\ UNCHANGED <<faultScenario, faultWindow, faultOuter, faultReport>>
  BY DEF AttemptThrows
<1>2. ~Kind("cancellation_storm") /\ ~Kind("cleanup_hang") /\ ~Kind("provider_timeout") BY <1>1 DEF Kind
<1>3. 1 \in FaultTasks /\ FaultTasks = {1} BY <1>2, OneFaultTask
<1>4. faultCalls \in Nat /\ faultCalls' \in Nat BY <1>1 DEF Going, FaultTyped
<1>5. CASE faultCalls' = faultScenario.count
  <2> DEFINE rest == IF faultClosing = "none" THEN <<"closing", "failed">> ELSE <<"failed">>
             new == <<"attempt">> \o rest
  <2>1. /\ Becomes(1, "failed") /\ faultError' = "retry_exhausted" /\ FaultRecord(new)
        /\ faultClosing' = IF faultClosing = "none" THEN "errored" ELSE faultClosing
    BY <1>5 DEF AttemptThrows, FailsWith
  <2>2. rest \in Seq(FaultTypes) /\ <<"attempt">> \in Seq(FaultTypes)
    <3>1. /\ <<"closing", "failed">> \in Seq(FaultTypes) /\ <<"failed">> \in Seq(FaultTypes)
          /\ <<"attempt">> \in Seq(FaultTypes)
      BY DEF FaultTypes
    <3>2. rest = <<"closing", "failed">> \/ rest = <<"failed">> OBVIOUS
    <3> QED BY <3>1, <3>2
  <2>3. \A type : CountIn(rest, type) =
          (IF faultClosing = "none" /\ "closing" = type THEN 1 ELSE 0) + (IF "failed" = type THEN 1 ELSE 0)
    <3>1. \A type : /\ CountIn(<<"closing", "failed">>, type) = (IF "closing" = type THEN 1 ELSE 0) + (IF "failed" = type THEN 1 ELSE 0)
                    /\ CountIn(<<"failed">>, type) = (IF "failed" = type THEN 1 ELSE 0)
      BY CountPair, CountSingle
    <3>2. CASE faultClosing = "none" BY <3>1, <3>2
    <3>3. CASE faultClosing # "none" BY <3>1, <3>3
    <3> QED BY <3>2, <3>3
  <2>4. \A type : CountIn(<<"attempt">>, type) = IF "attempt" = type THEN 1 ELSE 0 BY CountSingle
  <2> HIDE DEF rest
  <2>5. \A type : CountIn(new, type) = CountIn(<<"attempt">>, type) + CountIn(rest, type)
    BY <2>2, CountBehind
  <2>6. new \in Seq(FaultTypes) BY <2>2, ConcatProperties
  <2> HIDE DEF new
  <2>7. /\ CountIn(new, "cancelled") = 0 /\ CountIn(new, "cleanup_timeout") = 0 /\ CountIn(new, "failed") = 1
        /\ CountIn(new, "closing") = (IF faultClosing = "none" THEN 1 ELSE 0) /\ CountIn(new, "retrying") = 0
    BY <2>3, <2>4, <2>5
  <2>8. "failed" \in FaultStages \ {"unborn"} BY DEF FaultStages
  <2>9. /\ (\A a : Kind(a)' = Kind(a)) /\ Begun'
        /\ \A j \in FaultTasks : faultTask'[j] = IF j = 1 THEN "failed" ELSE faultTask[j]
    BY <1>1, <1>3, <2>1, <2>8, TaskBecomes DEF Going
  <2>10. faultTask'[1] = "failed" BY <1>3, <2>9
  <2>11. StageFits(1)' BY <1>1, <1>5, <2>1, <2>9, <2>10 DEF StageFits
  <2>12. ErrorFits' BY <1>1, <2>1, <2>9, <2>10 DEF ErrorFits
  <2>13. FaultRetries' = FaultRetries + CountIn(new, "retrying")
    BY <1>1, <1>4, <2>7, <2>9, <2>10 DEF FaultRetries
  <2>14. faultClosing \in {"none", "cancelled", "errored"} BY DEF Going, FaultTyped
  <2> QED BY <1>1, <1>2, <1>3, <1>4, <2>1, <2>6, <2>7, <2>8, <2>11, <2>12, <2>13, <2>14, TaskKeeps
<1>6. CASE faultCalls' # faultScenario.count
  <2> DEFINE new == <<"attempt", "retrying">>
  <2>1. FaultRecord(new) /\ UNCHANGED <<faultTask, faultError, faultClosing>> BY <1>6 DEF AttemptThrows
  <2>2. new \in Seq(FaultTypes) BY DEF FaultTypes
  <2>3. \A type : CountIn(new, type) = (IF "attempt" = type THEN 1 ELSE 0) + (IF "retrying" = type THEN 1 ELSE 0)
    BY CountPair
  <2> HIDE DEF new
  <2>4. (\A a : Kind(a)' = Kind(a)) /\ Begun' = Begun /\ FaultTasks' = FaultTasks
    BY <1>1, <2>1 DEF Kind, Begun, FaultTasks
  <2>5. UNCHANGED <<FaultCancels, FaultClosings, FaultCuts, FaultFailures>> /\ FaultRetries' = FaultRetries + 1
    <3>1. UNCHANGED <<FaultCancels, FaultClosings, FaultCuts, FaultFailures>>
      BY <2>1, <2>4 DEF FaultCancels, FaultClosings, FaultCuts, FaultFailures, Active
    <3>2. FaultRetries' = FaultRetries + 1 BY <1>1, <1>4, <2>1, <2>4 DEF FaultRetries
    <3> QED BY <3>1, <3>2
  <2>6. /\ FaultCancels \in Int /\ FaultClosings \in Int /\ FaultCuts \in Int /\ FaultFailures \in Int
    <3>1. FaultCancels \in Int BY FaultTasksFinite DEF FaultCancels, Going
    <3> QED BY <3>1 DEF FaultClosings, FaultCuts, FaultFailures
  <2>7. /\ FaultCounted'
        /\ faultEvents' \in Seq(FaultTypes) /\ Len(faultEvents') <= faultWindow /\ faultDropped' \in Nat
    BY <2>1, <2>2, <2>3, <2>5, <2>6, CountedAfter DEF Going
  <2>8. FaultTyped' BY <1>1, <1>4, <2>1, <2>4, <2>7 DEF Going, FaultTyped
  <2>9. FaultControl'
    <3>1. (\A i \in FaultTasks : StageFits(i))'
      BY <1>1, <1>2, <1>3, <2>1, <2>4 DEF Going, FaultControl, StageFits
    <3>2. ErrorFits' BY <1>1, <2>1, <2>4 DEF Going, FaultControl, ErrorFits
    <3>3. ClosingFits' BY <1>1, <2>1, <2>4 DEF Going, FaultControl, ClosingFits
    <3> QED BY <3>1, <3>2, <3>3 DEF FaultControl
  <2> QED BY <1>1, <2>7, <2>8, <2>9 DEF Going, FaultKept
<1> QED BY <1>5, <1>6

\* The body of the hanging task returns, and its cleanup is cut off.
LEMMA ReturnKeeps == ASSUME Going, BodyReturns PROVE FaultKept
<1>1. /\ Kind("cleanup_hang") /\ faultTask[1] = "running" /\ Becomes(1, "cleaning")
      /\ UNCHANGED <<faultScenario, faultWindow, faultCalls, faultEvents, faultDropped, faultClosing,
                     faultOuter, faultError, faultReport>>
  BY DEF BodyReturns
<1>2. ~Kind("cancellation_storm") /\ ~Kind("retry_exhaustion") /\ ~Kind("provider_timeout") BY <1>1 DEF Kind
<1>3. FaultTasks = {1} BY <1>2, OneFaultTask
<1>4. "cleaning" \in FaultStages \ {"unborn"} BY DEF FaultStages
<1>5. /\ FaultTasks' = FaultTasks /\ (\A a : Kind(a)' = Kind(a)) /\ Begun' /\ Begun
      /\ faultTask' \in [FaultTasks -> FaultStages]
      /\ (\A j \in FaultTasks : faultTask'[j] = IF j = 1 THEN "cleaning" ELSE faultTask[j])
      /\ FaultCancels' = FaultCancels + 0
  BY <1>1, <1>3, <1>4, TaskBecomes DEF Going
<1>6. FaultCancels \in Int BY FaultTasksFinite DEF FaultCancels, Going
<1>7. faultTask'[1] = "cleaning" BY <1>3, <1>5
<1>8. UNCHANGED <<FaultCancels, FaultClosings, FaultCuts, FaultFailures, FaultRetries>>
  BY <1>1, <1>2, <1>5, <1>6, <1>7 DEF FaultClosings, FaultCuts, FaultFailures, FaultRetries
<1>9. FaultCounted' BY <1>1, <1>8 DEF Going, FaultCounted, Recorded
<1>10. FaultTyped' BY <1>1, <1>5 DEF Going, FaultTyped
<1>11. FaultControl'
  <2>1. (\A i \in FaultTasks : StageFits(i))' BY <1>1, <1>3, <1>5, <1>7 DEF StageFits
  <2>2. ErrorFits' BY <1>1, <1>2, <1>5 DEF Going, FaultControl, ErrorFits
  <2>3. ClosingFits' BY <1>1, <1>3, <1>5, <1>7 DEF Going, FaultControl, ClosingFits
  <2> QED BY <2>1, <2>2, <2>3 DEF FaultControl
<1> QED BY <1>1, <1>9, <1>10, <1>11 DEF Going, FaultKept

\* A cleanup that hangs is cut.
LEMMA CutKeeps == ASSUME Going, CleanupTimesOut PROVE FaultKept
<1> DEFINE new == <<"cleanup_timeout", "succeeded">>
<1>1. /\ Kind("cleanup_hang") /\ faultTask[1] = "cleaning" /\ Becomes(1, "succeeded") /\ FaultRecord(new)
      /\ UNCHANGED <<faultScenario, faultWindow, faultCalls, faultClosing, faultOuter, faultError, faultReport>>
  BY DEF CleanupTimesOut
<1>2. \A type : CountIn(new, type) = (IF "cleanup_timeout" = type THEN 1 ELSE 0) + (IF "succeeded" = type THEN 1 ELSE 0)
  BY CountPair
<1>3. new \in Seq(FaultTypes) /\ "succeeded" \in FaultStages \ {"unborn"} BY DEF FaultStages, FaultTypes
<1> HIDE DEF new
<1>4. ~Kind("cancellation_storm") /\ ~Kind("retry_exhaustion") /\ ~Kind("provider_timeout") BY <1>1 DEF Kind
<1>5. 1 \in FaultTasks BY <1>4, OneFaultTask
<1>6. /\ (\A a : Kind(a)' = Kind(a)) /\ Begun' /\ Begun
      /\ faultTask'[1] = "succeeded"
  BY <1>1, <1>3, <1>5, TaskBecomes DEF Going
<1>7. StageFits(1)' BY <1>1, <1>6 DEF StageFits
<1>8. ErrorFits' BY <1>1, <1>4, <1>6 DEF Going, FaultControl, ErrorFits
<1>9. FaultRetries' = FaultRetries + CountIn(new, "retrying") BY <1>2, <1>4, <1>6 DEF FaultRetries
<1>10. faultError' \in {"none", "spawn", "cancellation", "TimeoutError", "retry_exhausted"} /\ faultCalls' \in Nat
  BY <1>1 DEF Going, FaultTyped
<1> QED BY <1>1, <1>2, <1>3, <1>4, <1>5, <1>7, <1>8, <1>9, <1>10, TaskKeeps

\* A report that was earned passes, and no other does.
LEMMA VerifiedIsTrue ==
  ASSUME FaultTyped, FaultControl, FaultCounted, Active({"running", "cleaning"}) = {},
         IF Begun THEN TRUE ELSE faultError = "spawn",
         Kind("cancellation_storm") => faultClosing # "none"
  PROVE  /\ Verified => Earned
         /\ Undisturbed => Verified
<1>1. \A type : CountEvents(type) = CountIn(faultEvents, type) BY DEF CountEvents, CountIn
<1>2. \A type : CountIn(faultEvents, type) \in Nat BY CountTyped DEF FaultTyped
<1>3. ~faultOuter => Begun /\ faultError # "spawn" BY DEF FaultControl, ErrorFits
<1>4. Begun => \A i \in FaultTasks : faultTask[i] \in {"cancelled", "succeeded", "failed"}
  <2>1. \A i \in FaultTasks : faultTask[i] \in FaultStages /\ faultTask[i] \notin {"running", "cleaning"}
    BY DEF FaultTyped, Active
  <2> QED BY <2>1 DEF FaultControl, ClosingFits, FaultStages
<1>5. /\ faultScenario.count \in Nat /\ faultScenario.first \in Nat /\ faultScenario.second \in Nat
      /\ faultScenario.kind \in FaultKinds
  BY DEF FaultTyped, FaultScenarios
<1>6. CASE Kind("cancellation_storm")
  <2>1. ~Kind("cleanup_hang") /\ ~Kind("provider_timeout") /\ ~Kind("retry_exhaustion") BY <1>6 DEF Kind
  <2> DEFINE all == Active({"cancelled"})
  <2>2. all \in SUBSET FaultTasks BY DEF Active
  <2>3. IsFiniteSet(FaultTasks) /\ Cardinality(FaultTasks) = faultScenario.count /\ Cardinality(all) \in Nat
    BY <1>6, FaultTasksFinite
  <2>4. Recorded("cancelled", Cardinality(all)) BY DEF FaultCounted, FaultCancels
  <2>5. Cardinality(all) <= Cardinality(FaultTasks) /\ (Cardinality(FaultTasks) = Cardinality(all) => FaultTasks = all)
    <3> HIDE DEF all
    <3> QED BY <2>2, <2>3, FS_Subset
  <2>6. Verified <=> CountIn(faultEvents, "cancelled") >= faultScenario.count /\ ReportedOutcome = "cancelled" /\ faultError = "none"
    BY <1>1, <1>6, <2>1 DEF Verified, StormObserved, Kind
  <2>7. Verified => all = FaultTasks
    <3> HIDE DEF all
    <3>1. CountIn(faultEvents, "cancelled") <= Cardinality(all) BY <2>4 DEF Recorded
    <3>2. CountIn(faultEvents, "cancelled") \in Nat BY <1>2
    <3>3. Verified => Cardinality(FaultTasks) = Cardinality(all) BY <1>5, <2>3, <2>5, <2>6, <3>1, <3>2
    <3> QED BY <2>5, <3>3
  <2>8. ASSUME faultDropped = 0, ~faultOuter, faultScenario.second > faultScenario.first PROVE Verified
    <3>1. Begun BY <1>3, <2>8
    <3>2. \A i \in FaultTasks : faultTask[i] = "cancelled"
      <4> TAKE i \in FaultTasks
      <4>1. faultTask[i] # "failed" /\ faultTask[i] # "succeeded"
        BY <1>5, <2>1, <2>8 DEF FaultControl, StageFits
      <4> QED BY <1>4, <3>1, <4>1
    <3>3. all = FaultTasks BY <3>2 DEF Active
    <3>4. CountIn(faultEvents, "cancelled") = faultScenario.count BY <2>3, <2>4, <2>8, <3>3 DEF Recorded
    <3>5. faultClosing = "cancelled" BY <1>6 DEF FaultControl, ClosingFits, FaultTyped
    <3>6. CountIn(faultEvents, "closing") = 1 BY <2>8, <3>1, <3>5 DEF FaultCounted, FaultClosings, Recorded
    <3>7. {i \in DOMAIN faultEvents : faultEvents[i] = "closing"} # {} BY <3>6, CountSome DEF FaultTyped
    <3>8. ReportedOutcome = "cancelled" BY <3>5, <3>7 DEF ReportedOutcome
    <3>9. faultError = "none" BY <1>3, <2>1, <2>8 DEF FaultControl, ErrorFits, FaultTyped
    <3>10. CountIn(faultEvents, "cancelled") >= faultScenario.count BY <1>5, <3>4
    <3> QED BY <2>6, <3>8, <3>9, <3>10
  <2> QED BY <1>6, <2>1, <2>7, <2>8 DEF Earned, Undisturbed
<1>7. CASE Kind("cleanup_hang")
  <2>1. ~Kind("cancellation_storm") /\ ~Kind("provider_timeout") /\ ~Kind("retry_exhaustion") BY <1>7 DEF Kind
  <2>2. FaultTasks = {1} BY <2>1, OneFaultTask
  <2>3. Verified <=> CountIn(faultEvents, "cleanup_timeout") >= 1 /\ faultError = "none"
    BY <1>1, <1>7, <2>1 DEF Verified
  <2>4. Recorded("cleanup_timeout", IF faultTask[1] = "succeeded" THEN 1 ELSE 0) BY <1>7 DEF FaultCounted, FaultCuts
  <2>5. Verified => faultTask[1] = "succeeded" BY <1>2, <2>3, <2>4 DEF Recorded
  <2>6. ASSUME faultDropped = 0, ~faultOuter PROVE Verified
    <3>1. faultTask[1] = "succeeded" BY <1>3, <1>4, <1>7, <2>1, <2>2, <2>6 DEF FaultControl, StageFits
    <3>2. faultError = "none" BY <1>3, <2>1, <2>6 DEF FaultControl, ErrorFits, FaultTyped
    <3> QED BY <2>3, <2>4, <2>6, <3>1, <3>2 DEF Recorded
  <2> QED BY <1>7, <2>1, <2>5, <2>6 DEF Earned, Undisturbed
<1>8. CASE Kind("provider_timeout")
  <2>1. ~Kind("cancellation_storm") /\ ~Kind("cleanup_hang") /\ ~Kind("retry_exhaustion") BY <1>8 DEF Kind
  <2>2. FaultTasks = {1} BY <2>1, OneFaultTask
  <2>3. Verified <=> CountIn(faultEvents, "failed") >= 1 /\ faultTask[1] = "failed" /\ faultError # "none"
    BY <1>1, <1>8, <2>1 DEF Verified
  <2>4. faultTask[1] = "failed" => faultScenario.first <= faultScenario.second /\ faultError # "none"
    BY <2>1, <2>2 DEF FaultControl, StageFits
  <2>5. ASSUME faultDropped = 0, ~faultOuter, Buildable(faultScenario) PROVE Verified
    <3>1. faultScenario.second > faultScenario.first BY <1>8, <2>5 DEF Buildable, Kind
    <3>2. faultTask[1] # "succeeded" BY <1>5, <2>1, <2>2, <3>1 DEF FaultControl, StageFits
    <3>3. faultTask[1] # "cancelled" BY <2>1, <2>2, <2>5 DEF FaultControl, StageFits, ClosingFits
    <3>4. faultTask[1] = "failed" BY <1>3, <1>4, <2>2, <2>5, <3>2, <3>3
    <3>5. CountIn(faultEvents, "failed") = 1 BY <2>1, <2>5, <3>4 DEF FaultCounted, FaultFailures, Recorded
    <3> QED BY <2>3, <2>4, <3>4, <3>5
  <2> QED BY <1>8, <2>1, <2>3, <2>4, <2>5 DEF Earned, Undisturbed
<1>9. CASE Kind("retry_exhaustion")
  <2>1. ~Kind("cancellation_storm") /\ ~Kind("cleanup_hang") /\ ~Kind("provider_timeout") BY <1>9 DEF Kind
  <2>2. FaultTasks = {1} BY <2>1, OneFaultTask
  <2>3. Verified <=> CountIn(faultEvents, "retrying") = faultScenario.count - 1 /\ faultError # "none"
    BY <1>1, <1>9, <2>1 DEF Verified
  <2>4. faultTask[1] = "failed" => faultCalls = faultScenario.count /\ faultError = "retry_exhausted"
    BY <2>1, <2>2 DEF FaultControl, StageFits
  <2>5. faultError # "none" => RetriesSpent \/ faultOuter
    <3>1. faultError \in {"none", "spawn", "cancellation", "TimeoutError", "retry_exhausted"} BY DEF FaultTyped
    <3> QED BY <2>1, <2>4, <3>1 DEF FaultControl, ErrorFits, RetriesSpent
  <2>6. ASSUME faultDropped = 0, ~faultOuter PROVE Verified
    <3>1. faultTask[1] # "succeeded" BY <2>1, <2>2 DEF FaultControl, StageFits
    <3>2. faultTask[1] # "cancelled" BY <2>1, <2>2, <2>6 DEF FaultControl, StageFits, ClosingFits
    <3>3. faultTask[1] = "failed" BY <1>3, <1>4, <2>2, <2>6, <3>1, <3>2
    <3>4. CountIn(faultEvents, "retrying") = faultCalls - 1
      BY <1>9, <2>6, <3>3 DEF FaultCounted, FaultRetries, Recorded
    <3> QED BY <2>3, <2>4, <3>3, <3>4
  <2> QED BY <1>9, <2>1, <2>3, <2>5, <2>6 DEF Earned, Undisturbed
<1>10. \/ Kind("cancellation_storm") \/ Kind("cleanup_hang") \/ Kind("provider_timeout") \/ Kind("retry_exhaustion")
  BY <1>5 DEF FaultKinds, Kind
<1> QED BY <1>6, <1>7, <1>8, <1>9, <1>10

\* The report.
LEMMA ReportSound == ASSUME Going, Report PROVE FaultSound'
<1>1. /\ faultReport' = (IF Verified THEN "pass" ELSE "fail")
      /\ IF Begun THEN Active({"running", "cleaning"}) = {} ELSE faultError = "spawn"
      /\ Kind("cancellation_storm") => faultClosing # "none"
      /\ UNCHANGED <<faultScenario, faultWindow, faultTask, faultCalls, faultEvents, faultDropped,
                     faultClosing, faultOuter, faultError>>
  BY DEF Report
<1>2. Active({"running", "cleaning"}) = {}
  <2>1. ~Begun => \A i \in FaultTasks : faultTask[i] = "unborn" BY DEF Begun
  <2> QED BY <1>1, <2>1 DEF Active
<1>3. /\ FaultTasks' = FaultTasks /\ (\A a : Kind(a)' = Kind(a)) /\ Begun' = Begun
      /\ (\A stages : Active(stages)' = Active(stages))
  BY <1>1 DEF FaultTasks, Kind, Begun, Active
<1>4. FaultTyped' BY <1>1, <1>3 DEF Going, FaultTyped
<1>5. FaultControl'
  <2>1. (\A i \in FaultTasks : StageFits(i))' BY <1>1, <1>3 DEF Going, FaultControl, StageFits
  <2>2. ErrorFits' BY <1>1, <1>3 DEF Going, FaultControl, ErrorFits
  <2>3. ClosingFits' BY <1>1, <1>3 DEF Going, FaultControl, ClosingFits
  <2> QED BY <2>1, <2>2, <2>3 DEF FaultControl
<1>6. FaultCounted'
  BY <1>1, <1>3 DEF Going, FaultCounted, Recorded, FaultCancels, FaultClosings, FaultCuts, FaultFailures, FaultRetries
<1>7. /\ Verified => Earned
      /\ Undisturbed => Verified
  BY <1>1, <1>2, VerifiedIsTrue DEF Going
<1>8. RetriesSpent' <=> RetriesSpent BY <1>1 DEF RetriesSpent
<1>9. FaultTruth'
  <2>1. Earned => Earned' BY <1>1, <1>3, <1>8 DEF Earned
  <2>2. Undisturbed' => Undisturbed BY <1>1, <1>3 DEF Undisturbed
  <2>3. faultReport' = "pass" <=> Verified BY <1>1
  <2> QED BY <1>2, <1>3, <1>7, <2>1, <2>2, <2>3 DEF FaultTruth
<1>10. FaultReported' BY <1>1, <1>2, <1>3, <1>9 DEF FaultReported
<1> QED BY <1>4, <1>5, <1>6, <1>10 DEF FaultSound

\* Nothing has begun at first.
LEMMA FaultInitSound ==
  FaultInit(FaultScenarios, Nat, BOOLEAN) => FaultSound
<1> SUFFICES ASSUME FaultInit(FaultScenarios, Nat, BOOLEAN) PROVE FaultSound
  OBVIOUS
<1> USE DEF FaultInit
<1>1. \A i \in FaultTasks : faultTask[i] = "unborn" OBVIOUS
<1>2. ~Begun BY <1>1 DEF Begun
<1>3. FaultTyped
  <2>1. faultTask \in [FaultTasks -> FaultStages] BY DEF FaultStages
  <2>2. faultEvents \in Seq(FaultTypes) /\ Len(faultEvents) = 0 OBVIOUS
  <2> QED BY <2>1, <2>2 DEF FaultTyped
<1>4. FaultControl BY <1>1, <1>2 DEF FaultControl, StageFits, ErrorFits, ClosingFits
<1>5. FaultCounted
  <2>1. \A type : CountIn(faultEvents, type) = 0 BY CountNone
  <2>2. FaultCancels = 0
    <3>1. Active({"cancelled"}) = {} BY <1>1 DEF Active
    <3> QED BY <3>1, FS_EmptySet DEF FaultCancels
  <2>3. ~Kind("cancellation_storm") => faultTask[1] = "unborn" BY <1>1, OneFaultTask
  <2>4. FaultClosings = 0 /\ FaultCuts = 0 /\ FaultFailures = 0 /\ FaultRetries = 0
    <3>1. Kind("cleanup_hang") \/ Kind("retry_exhaustion") => ~Kind("cancellation_storm") BY DEF Kind
    <3>2. FaultClosings = 0 BY DEF FaultClosings
    <3>3. FaultCuts = 0 BY <2>3, <3>1 DEF FaultCuts
    <3>4. FaultFailures = 0 BY <2>3 DEF FaultFailures
    <3>5. FaultRetries = 0
      <4>1. faultCalls = 0 /\ 0 - 0 = 0 OBVIOUS
      <4> QED BY <2>3, <3>1, <4>1 DEF FaultRetries
    <3> QED BY <3>2, <3>3, <3>4, <3>5
  <2> QED BY <2>1, <2>2, <2>4 DEF FaultCounted, Recorded
<1>6. FaultReported BY DEF FaultReported
<1> QED BY <1>3, <1>4, <1>5, <1>6 DEF FaultSound

\* Every step of a scenario keeps the invariant, and none follows the report.
LEMMA FaultStepSound == FaultSound /\ [FaultNext]_faultVars => FaultSound'
<1> SUFFICES ASSUME FaultSound, [FaultNext]_faultVars PROVE FaultSound'
  OBVIOUS
<1>1. CASE UNCHANGED faultVars
  <2>1. FaultTasks' = FaultTasks /\ (\A a : Kind(a)' = Kind(a)) /\ Begun' = Begun
        /\ (\A stages : Active(stages)' = Active(stages)) /\ RetriesSpent' = RetriesSpent
    BY <1>1 DEF FaultTasks, Kind, Begun, Active, RetriesSpent, faultVars
  <2>2. FaultTyped' BY <1>1, <2>1 DEF FaultSound, FaultTyped, faultVars
  <2>3. FaultControl'
    <3>1. (\A i \in FaultTasks : StageFits(i))' BY <1>1, <2>1 DEF FaultSound, FaultControl, StageFits, faultVars
    <3>2. ErrorFits' BY <1>1, <2>1 DEF FaultSound, FaultControl, ErrorFits, faultVars
    <3>3. ClosingFits' BY <1>1, <2>1 DEF FaultSound, FaultControl, ClosingFits, faultVars
    <3> QED BY <3>1, <3>2, <3>3 DEF FaultControl
  <2>4. FaultCounted'
    BY <1>1, <2>1 DEF FaultSound, FaultCounted, Recorded, FaultCancels, FaultClosings, FaultCuts, FaultFailures,
                      FaultRetries, faultVars
  <2>5. FaultTruth' = FaultTruth BY <1>1 DEF FaultTruth, Earned, Undisturbed, RetriesSpent, Active, FaultTasks, Kind, faultVars
  <2>6. FaultReported' BY <1>1, <2>1, <2>5 DEF FaultSound, FaultReported, faultVars
  <2> QED BY <2>2, <2>3, <2>4, <2>6 DEF FaultSound
<1>2. CASE faultReport = "pending" /\ FaultNext
  <2>1. Going BY <1>2 DEF FaultSound, Going
  <2>2. FaultKept => FaultSound' BY DEF FaultKept, FaultSound, FaultReported
  <2>3. CASE Report BY <2>1, <2>3, ReportSound
  <2>4. CASE ~Report
    <3>1. ASSUME NEW i \in FaultTasks, SleepAborted(i) \/ Finishes(i) PROVE FaultKept
      BY <2>1, <3>1, AbortKeeps, FinishKeeps
    <3>2. FaultKept
      BY <1>2, <2>1, <2>4, <3>1, BeginKeeps, StormKeeps, OuterKeeps, ProviderKeeps, AttemptKeeps, ReturnKeeps,
         CutKeeps DEF FaultNext
    <3> QED BY <2>2, <3>2
  <2> QED BY <2>3, <2>4
<1>3. CASE faultReport # "pending" /\ FaultNext
  <2>1. /\ Active({"running", "cleaning"}) = {}
        /\ Begun \/ faultError = "spawn"
        /\ Kind("cancellation_storm") => faultClosing # "none"
    BY <1>3 DEF FaultSound, FaultReported
  <2>2. ASSUME NEW i \in FaultTasks PROVE faultTask[i] \notin {"running", "cleaning"}
    <3>1. i \notin Active({"running", "cleaning"}) BY <2>1
    <3> QED BY <3>1 DEF Active
  <2>3. ~Kind("cancellation_storm") => faultTask[1] \notin {"running", "cleaning"} BY <2>2, OneFaultTask
  <2>4. Kind("provider_timeout") \/ Kind("retry_exhaustion") \/ Kind("cleanup_hang") => ~Kind("cancellation_storm")
    BY DEF Kind
  <2>5. ~Begin /\ ~StormCancels /\ ~OuterAborts /\ ~Report BY <1>3, <2>1 DEF Begin, StormCancels, OuterAborts, Report
  <2>6. ~ProviderTimesOut /\ ~AttemptThrows /\ ~BodyReturns /\ ~CleanupTimesOut
    BY <2>3, <2>4 DEF ProviderTimesOut, AttemptThrows, BodyReturns, CleanupTimesOut
  <2>7. \A i \in FaultTasks : ~SleepAborted(i) /\ ~Finishes(i) BY <2>2 DEF SleepAborted, Finishes
  <2> QED BY <1>3, <2>5, <2>6, <2>7 DEF FaultNext
<1> QED BY <1>1, <1>2, <1>3

\* For any number of workers or attempts, any delays and any window, a report of
\* fault/index.ts that passes was earned, and a scenario that was built to fail in its
\* way passes if nothing interferes and the window was large enough.
THEOREM FaultsAreTrue ==
  FaultInit(FaultScenarios, Nat, BOOLEAN) /\ [][FaultNext]_faultVars => []FaultTruth
<1>1. FaultSound => FaultTruth BY DEF FaultSound, FaultReported, FaultTruth
<1> QED BY <1>1, FaultInitSound, FaultStepSound, PTL

(***************************************************************************)
(* The examples site (Site): the address, the run that is shown and the     *)
(* studio each keep to what was last done.                                  *)
(***************************************************************************)
\* Types; of the links there is only known that they name an example and a preset.
CONSTANT SiteNames
SiteLinks == [example : SiteNames, scenario : SiteNames]
SiteEntries == [example : SiteNames \cup SiteCases, scenario : SiteNames \cup SitePresets]
SitePhases == {"idle", "running", "completed", "aborted"}
SiteResults ==
  {NoResult} \cup [source : {"live-node", "captured-build"}, of : SiteCases, phase : {"completed", "aborted"}]
SiteTyped ==
  /\ siteShown \in [case : SiteCases, phase : SitePhases, step : 0..5, result : SiteResults]
  /\ siteTimers \in SUBSET (1..5) /\ siteGen \in Nat
  /\ IsFiniteSet(siteCalls)
  /\ siteCalls \in SUBSET [gen : Nat, case : SiteCases, fallback : {"completed", "aborted"}]
TabTyped ==
  /\ siteTab \in [entries : Seq(SiteEntries), at : Nat] /\ siteTab.at \in 1..Len(siteTab.entries)
StudioTyped ==
  /\ stu \in [preset : SitePresets, draft : Texts, preview : Texts, error : BOOLEAN]
  /\ stuTyped \in BOOLEAN /\ stuImport \in BOOLEAN

\* The latest call is about what is shown, the others are older.
CallsFit ==
  \A c \in siteCalls :
    /\ c.gen <= siteGen
    /\ c.gen = siteGen => c.case = siteShown.case /\ (c.fallback = "aborted" <=> siteShown.phase = "aborted")
LiveCalls == {c \in siteCalls : c.gen = siteGen}
ResultFits ==
  /\ siteShown.result # NoResult =>
       /\ siteShown.result.of = siteShown.case /\ siteShown.phase # "idle"
       /\ siteShown.result.source = "captured-build" =>
            (siteShown.result.phase = "aborted") = (siteShown.phase = "aborted")
  /\ Cardinality(LiveCalls) = IF siteShown.phase = "idle" \/ siteShown.result # NoResult THEN 0 ELSE 1
TimersFit == siteTimers = IF siteShown.phase = "running" THEN (siteShown.step + 1)..5 ELSE {}
RunFits == SiteTyped /\ CallsFit /\ ResultFits /\ TimersFit
StudioFits ==
  /\ StudioTyped /\ Valid(stu.preview)
  /\ ~stuTyped /\ ~stu.error => stu.preview = stu.draft
  /\ ~stuTyped /\ stu.error => ~Valid(stu.draft)
ShownHere == siteShown.case = ResolveCase(Here)
StudioHere == stu.preset = ResolvePreset(Here)
SiteSound == RunFits /\ TabTyped /\ StudioFits /\ ShownHere /\ StudioHere

\* An entry names an example and a preset, whatever the address says.
LEMMA Resolved == \A e : ResolveCase(e) \in SiteCases /\ ResolvePreset(e) \in SitePresets
<1>1. DefaultCase \in SiteCases BY SiteAssumption DEF DefaultCase
<1>2. DefaultPreset \in SitePresets BY SiteAssumption DEF DefaultPreset
<1> QED BY <1>1, <1>2 DEF ResolveCase, ResolvePreset

\* What is pushed is where the tab is then.
LEMMA PushedHere ==
  ASSUME TabTyped, NEW e \in SiteEntries, siteTab' = Pushed(e)
  PROVE  TabTyped' /\ Here' = e
<1> DEFINE front == SubSeq(siteTab.entries, 1, siteTab.at)
<1>1. siteTab.entries \in Seq(SiteEntries) /\ siteTab.at \in 1..Len(siteTab.entries) BY DEF TabTyped
<1>2. Len(siteTab.entries) \in Nat /\ \A i \in 1..Len(siteTab.entries) : siteTab.entries[i] \in SiteEntries
  BY <1>1, LenProperties, ElementOfSeq
<1>3. front \in Seq(SiteEntries) /\ Len(front) = siteTab.at
  <2>1. \A i \in 1..siteTab.at : siteTab.entries[i] \in SiteEntries BY <1>1, <1>2
  <2>2. 1 \in Int /\ siteTab.at \in Int /\ 1 <= siteTab.at BY <1>1
  <2> HIDE DEF front
  <2>3. front \in Seq(SiteEntries) /\ Len(front) = IF 1 <= siteTab.at THEN siteTab.at - 1 + 1 ELSE 0
    BY <2>1, <2>2, SubSeqProperties DEF front
  <2> QED BY <2>2, <2>3
<1>4. siteTab'.entries = Append(front, e) /\ siteTab'.at = siteTab.at + 1
      /\ siteTab' = [entries |-> Append(front, e), at |-> siteTab.at + 1]
  BY DEF Pushed
<1> HIDE DEF front
<1>5. /\ Append(front, e) \in Seq(SiteEntries) /\ Len(Append(front, e)) = siteTab.at + 1
      /\ Append(front, e)[siteTab.at + 1] = e
  BY <1>3, AppendProperties
<1>6. TabTyped' BY <1>1, <1>4, <1>5 DEF TabTyped
<1> QED BY <1>4, <1>5, <1>6 DEF Here

\* The entry the tab is at.
LEMMA HereTyped == TabTyped => Here \in SiteEntries
  BY ElementOfSeq DEF TabTyped, Here

\* Without a run there is nothing of one.
LEMMA ResetFits ==
  ASSUME RunFits, NEW c \in SiteCases, ResetTo(c)
  PROVE  RunFits' /\ siteShown'.case = c
<1>1. /\ siteTimers' = {} /\ siteGen' = siteGen + 1 /\ siteCalls' = siteCalls
      /\ siteShown' = [case |-> c, phase |-> "idle", step |-> 0, result |-> NoResult]
  BY DEF ResetTo
<1>2. SiteTyped' BY <1>1 DEF RunFits, SiteTyped, SitePhases, SiteResults
<1>3. \A d \in siteCalls : d.gen <= siteGen /\ d.gen \in Nat BY DEF RunFits, CallsFit, SiteTyped
<1>4. siteGen \in Nat BY DEF RunFits, SiteTyped
<1>5. \A d \in siteCalls : d.gen <= siteGen + 1 /\ d.gen # siteGen + 1 BY <1>3, <1>4
<1>6. CallsFit' BY <1>1, <1>5 DEF CallsFit
<1>7. LiveCalls' = {} BY <1>1, <1>5 DEF LiveCalls
<1>8. ResultFits' BY <1>1, <1>7, FS_EmptySet DEF ResultFits
<1>9. TimersFit' BY <1>1 DEF TimersFit
<1> QED BY <1>1, <1>2, <1>6, <1>8, <1>9 DEF RunFits

\* A press asks once, and what was asked before is of an older generation.
LEMMA AskFits ==
  ASSUME RunFits, NEW phase \in {"running", "aborted"}, NEW fallback \in {"completed", "aborted"},
         NEW armed \in SUBSET (1..5), Ask(phase, fallback, armed),
         fallback = "aborted" <=> phase = "aborted",
         armed = IF phase = "running" THEN 1..5 ELSE {}
  PROVE  RunFits' /\ siteShown'.case = siteShown.case
<1> DEFINE new == [gen |-> siteGen + 1, case |-> siteShown.case, fallback |-> fallback]
<1>1. /\ siteTimers' = armed /\ siteGen' = siteGen + 1
      /\ siteShown' = [siteShown EXCEPT !.phase = phase, !.step = 0, !.result = NoResult]
      /\ siteCalls' = siteCalls \cup {new}
  BY DEF Ask
<1>2. siteGen \in Nat /\ siteShown.case \in SiteCases /\ IsFiniteSet(siteCalls)
      /\ siteShown \in [case : SiteCases, phase : SitePhases, step : 0..5, result : SiteResults]
      /\ siteCalls \in SUBSET [gen : Nat, case : SiteCases, fallback : {"completed", "aborted"}]
  BY DEF RunFits, SiteTyped
<1>3. siteShown' = [case |-> siteShown.case, phase |-> phase, step |-> 0, result |-> NoResult] BY <1>1, <1>2
<1>4. new.gen = siteGen + 1 /\ new.case = siteShown.case /\ new.fallback = fallback
      /\ new \in [gen : Nat, case : SiteCases, fallback : {"completed", "aborted"}]
  BY <1>2
<1> HIDE DEF new
<1>5. SiteTyped'
  <2>1. IsFiniteSet(siteCalls') BY <1>1, <1>2, FS_AddElement
  <2>2. siteShown' \in [case : SiteCases, phase : SitePhases, step : 0..5, result : SiteResults]
    BY <1>2, <1>3 DEF SitePhases, SiteResults
  <2> QED BY <1>1, <1>2, <1>4, <2>1, <2>2 DEF SiteTyped
<1>6. \A d \in siteCalls : d.gen <= siteGen /\ d.gen \in Nat BY DEF RunFits, CallsFit, SiteTyped
<1>7. \A d \in siteCalls : d.gen <= siteGen + 1 /\ d.gen # siteGen + 1 BY <1>2, <1>6
<1>8. CallsFit' BY <1>1, <1>2, <1>3, <1>4, <1>7 DEF CallsFit
<1>9. LiveCalls' = {new} BY <1>1, <1>4, <1>7 DEF LiveCalls
<1>10. Cardinality(LiveCalls') = 1 BY <1>9, FS_Singleton
<1>11. ResultFits' BY <1>3, <1>10 DEF ResultFits
<1>12. TimersFit' BY <1>1, <1>3 DEF TimersFit
<1> QED BY <1>3, <1>5, <1>8, <1>11, <1>12 DEF RunFits

\* A timer fires: it was the first that was left.
LEMMA TimerFits ==
  ASSUME RunFits, NEW t \in 1..5, TimerFires(t)
  PROVE  RunFits' /\ siteShown'.case = siteShown.case
<1>0. /\ t \in siteTimers /\ (\A u \in siteTimers : t <= u) /\ siteTimers' = siteTimers \ {t}
      /\ siteShown' = (IF t < 5 THEN [siteShown EXCEPT !.step = t]
                  ELSE [siteShown EXCEPT !.phase = IF @ = "running" THEN "completed" ELSE @, !.step = 0])
      /\ siteGen' = siteGen /\ siteCalls' = siteCalls
  BY DEF TimerFires
<1>1. siteShown \in [case : SiteCases, phase : SitePhases, step : 0..5, result : SiteResults]
  BY DEF RunFits, SiteTyped
<1>2. siteShown.phase = "running" /\ siteTimers = (siteShown.step + 1)..5 /\ t = siteShown.step + 1
  <2>1. siteShown.phase = "running" /\ siteTimers = (siteShown.step + 1)..5 BY <1>0 DEF RunFits, TimersFit
  <2>2. siteShown.step \in 0..5 BY <1>1
  <2>3. siteShown.step + 1 \in siteTimers BY <1>0, <2>1, <2>2
  <2> QED BY <1>0, <2>1, <2>2, <2>3
<1>3. siteShown' = [case |-> siteShown.case, phase |-> IF t < 5 THEN "running" ELSE "completed",
                    step |-> IF t < 5 THEN t ELSE 0, result |-> siteShown.result]
  BY <1>0, <1>1, <1>2
<1>4. siteShown'.case = siteShown.case /\ siteShown'.result = siteShown.result
      /\ siteShown'.phase = (IF t < 5 THEN "running" ELSE "completed")
      /\ siteShown'.step = (IF t < 5 THEN t ELSE 0)
  BY <1>3
<1>5. SiteTyped'
  <2>1. siteShown' \in [case : SiteCases, phase : SitePhases, step : 0..5, result : SiteResults]
    BY <1>1, <1>3 DEF SitePhases
  <2> QED BY <1>0, <2>1 DEF RunFits, SiteTyped
<1>6. CallsFit' BY <1>0, <1>2, <1>4 DEF RunFits, CallsFit
<1>7. LiveCalls' = LiveCalls BY <1>0 DEF LiveCalls
<1>8. ResultFits' BY <1>2, <1>4, <1>7 DEF RunFits, ResultFits
<1>9. TimersFit'
  <2>1. siteShown.step \in 0..5 BY <1>1
  <2>2. CASE t < 5
    <3>1. siteTimers' = (t + 1)..5 BY <1>0, <1>2, <2>1, <2>2
    <3> QED BY <1>4, <2>2, <3>1 DEF TimersFit
  <2>3. CASE ~(t < 5)
    <3>1. siteTimers' = {} BY <1>0, <1>2, <2>1, <2>3
    <3> QED BY <1>4, <2>3, <3>1 DEF TimersFit
  <2> QED BY <2>2, <2>3
<1> QED BY <1>4, <1>5, <1>6, <1>8, <1>9 DEF RunFits

\* A call returns: its answer is shown if it is the latest.
LEMMA ReturnFits ==
  ASSUME RunFits, NEW call, NEW reached, CallReturns(call, reached)
  PROVE  RunFits' /\ siteShown'.case = siteShown.case
<1> DEFINE live == Live(call.case, reached)
           captured == [source |-> "captured-build", of |-> call.case, phase |-> call.fallback]
           shown == IF live = NoResult THEN captured ELSE live
<1>1. /\ call \in siteCalls /\ siteCalls' = siteCalls \ {call} /\ siteTimers' = siteTimers /\ siteGen' = siteGen
      /\ siteShown' = IF ~Current(call) THEN siteShown ELSE [siteShown EXCEPT !.result = shown]
  BY DEF CallReturns
<1>2. /\ siteShown \in [case : SiteCases, phase : SitePhases, step : 0..5, result : SiteResults]
      /\ call \in [gen : Nat, case : SiteCases, fallback : {"completed", "aborted"}]
      /\ IsFiniteSet(siteCalls)
  BY <1>1 DEF RunFits, SiteTyped
<1>3. live \in {[source |-> "live-node", of |-> call.case, phase |-> "completed"], NoResult} BY DEF Live
<1>4. /\ shown \in SiteResults /\ shown # NoResult /\ shown.of = call.case
      /\ shown.source = "captured-build" => shown.phase = call.fallback
  <2>1. captured \in SiteResults /\ captured # NoResult BY <1>2 DEF SiteResults, NoResult
  <2>2. CASE live = NoResult BY <2>1, <2>2
  <2>3. CASE live # NoResult
    <3>1. shown = [source |-> "live-node", of |-> call.case, phase |-> "completed"] BY <1>3, <2>3
    <3> HIDE DEF shown
    <3>2. shown.source = "live-node" /\ shown.of = call.case BY <3>1
    <3>3. shown \in SiteResults BY <1>2, <3>1 DEF SiteResults
    <3>4. shown # NoResult BY <3>1 DEF NoResult
    <3> QED BY <3>2, <3>3, <3>4
  <2> QED BY <2>2, <2>3
<1> HIDE DEF shown, live, captured
<1>5. IsFiniteSet(siteCalls') BY <1>1, <1>2, FS_RemoveElement
<1>6. CASE ~Current(call)
  <2>1. siteShown' = siteShown /\ call.gen # siteGen BY <1>1, <1>6 DEF Current
  <2>2. SiteTyped' BY <1>1, <1>5, <2>1 DEF RunFits, SiteTyped
  <2>3. CallsFit' BY <1>1, <2>1 DEF RunFits, CallsFit
  <2>4. LiveCalls' = LiveCalls BY <1>1, <2>1 DEF LiveCalls
  <2>5. ResultFits' BY <2>1, <2>4 DEF RunFits, ResultFits
  <2>6. TimersFit' BY <1>1, <2>1 DEF RunFits, TimersFit
  <2> QED BY <2>1, <2>2, <2>3, <2>5, <2>6 DEF RunFits
<1>7. CASE Current(call)
  <2>1. siteShown' = [siteShown EXCEPT !.result = shown] /\ call.gen = siteGen BY <1>1, <1>7 DEF Current
  <2>2. siteShown'.case = siteShown.case /\ siteShown'.phase = siteShown.phase
        /\ siteShown'.step = siteShown.step /\ siteShown'.result = shown
    BY <1>2, <2>1
  <2>3. SiteTyped'
    <3>1. siteShown' \in [case : SiteCases, phase : SitePhases, step : 0..5, result : SiteResults]
      BY <1>2, <1>4, <2>1
    <3> QED BY <1>1, <1>5, <3>1 DEF RunFits, SiteTyped
  <2>4. CallsFit' BY <1>1, <2>2 DEF RunFits, CallsFit
  <2>5. call \in LiveCalls BY <1>1, <2>1 DEF LiveCalls
  <2>6. IsFiniteSet(LiveCalls)
    <3>1. LiveCalls \in SUBSET siteCalls BY DEF LiveCalls
    <3> QED BY <1>2, <3>1, FS_Subset
  <2>7. Cardinality(LiveCalls) # 0 BY <2>5, <2>6, FS_EmptySet
  <2>8. Cardinality(LiveCalls) = 1 /\ siteShown.phase # "idle" BY <2>7 DEF RunFits, ResultFits
  <2>9. LiveCalls' = LiveCalls \ {call} BY <1>1 DEF LiveCalls
  <2>10. Cardinality(LiveCalls') = 0
    <3>1. Cardinality(LiveCalls \ {call}) = Cardinality(LiveCalls) - 1 BY <2>5, <2>6, FS_RemoveElement
    <3> QED BY <2>8, <2>9, <3>1
  <2>11. call.case = siteShown.case /\ (call.fallback = "aborted" <=> siteShown.phase = "aborted")
    BY <1>1, <2>1 DEF RunFits, CallsFit
  <2>12. ResultFits' BY <1>4, <2>2, <2>8, <2>10, <2>11 DEF ResultFits
  <2>13. TimersFit' BY <1>1, <2>2 DEF RunFits, TimersFit
  <2> QED BY <2>2, <2>3, <2>4, <2>12, <2>13 DEF RunFits
<1> QED BY <1>6, <1>7

\* A preset that is selected is shown.
LEMMA SelectedFits ==
  ASSUME StudioFits, NEW p \in SitePresets, stu' = SelectedPreset(p), stuTyped' = FALSE, stuImport' \in BOOLEAN
  PROVE  StudioFits' /\ stu'.preset = p
<1>1. Valid(p) /\ p \in Texts BY SiteAssumption DEF Valid, Texts
<1>2. stu \in [preset : SitePresets, draft : Texts, preview : Texts, error : BOOLEAN] BY DEF StudioFits, StudioTyped
<1>3. stu' = [preset |-> p, draft |-> p, preview |-> p, error |-> FALSE]
  BY <1>1, <1>2 DEF SelectedPreset, PreviewOf
<1>4. stu'.preset = p /\ stu'.draft = p /\ stu'.preview = p /\ stu'.error = FALSE BY <1>3
<1>5. StudioTyped'
  <2>1. stu' \in [preset : SitePresets, draft : Texts, preview : Texts, error : BOOLEAN] BY <1>1, <1>3
  <2> QED BY <2>1 DEF StudioTyped
<1>6. Valid(stu'.preview) BY <1>1, <1>4
<1> QED BY <1>4, <1>5, <1>6, Zenon DEF StudioFits, Valid

\* A text that is written and previewed, one that is typed, and one that is imported.
LEMMA PreviewedFits ==
  ASSUME StudioFits, NEW text \in Texts, stu' = PreviewOf([stu EXCEPT !.draft = text], text),
         stuTyped' = FALSE, stuImport' \in BOOLEAN
  PROVE  StudioFits' /\ stu'.preset = stu.preset
<1>1. stu \in [preset : SitePresets, draft : Texts, preview : Texts, error : BOOLEAN] BY DEF StudioFits, StudioTyped
<1>2. CASE Valid(text)
  <2>1. stu' = [preset |-> stu.preset, draft |-> text, preview |-> text, error |-> FALSE]
    BY <1>1, <1>2 DEF PreviewOf
  <2>2. stu'.preset = stu.preset /\ stu'.draft = text /\ stu'.preview = text /\ stu'.error = FALSE BY <2>1
  <2>3. StudioTyped'
    <3>1. stu' \in [preset : SitePresets, draft : Texts, preview : Texts, error : BOOLEAN]
      <4>1. text \in Texts /\ stu.preset \in SitePresets /\ stu.preview \in Texts BY <1>1
      <4>2. [preset |-> stu.preset, draft |-> text, preview |-> text, error |-> FALSE]
              \in [preset : SitePresets, draft : Texts, preview : Texts, error : BOOLEAN]
        BY <4>1
      <4> QED BY <2>1, <4>2, Zenon
    <3> QED BY <3>1, Zenon DEF StudioTyped
  <2>4. Valid(stu'.preview) BY <1>2, <2>2
  <2> QED BY <2>2, <2>3, <2>4, Zenon DEF StudioFits, Valid
<1>3. CASE ~Valid(text)
  <2>1. stu' = [preset |-> stu.preset, draft |-> text, preview |-> stu.preview, error |-> TRUE]
    BY <1>1, <1>3 DEF PreviewOf
  <2>2. stu'.preset = stu.preset /\ stu'.draft = text /\ stu'.preview = stu.preview /\ stu'.error = TRUE BY <2>1
  <2>3. StudioTyped'
    <3>1. stu' \in [preset : SitePresets, draft : Texts, preview : Texts, error : BOOLEAN]
      <4>1. text \in Texts /\ stu.preset \in SitePresets /\ stu.preview \in Texts BY <1>1
      <4>2. [preset |-> stu.preset, draft |-> text, preview |-> stu.preview, error |-> TRUE]
              \in [preset : SitePresets, draft : Texts, preview : Texts, error : BOOLEAN]
        BY <4>1
      <4> QED BY <2>1, <4>2, Zenon
    <3> QED BY <3>1, Zenon DEF StudioTyped
  <2>4. Valid(stu'.preview) BY <2>2 DEF StudioFits
  <2> QED BY <1>3, <2>2, <2>3, <2>4, Zenon DEF StudioFits, Valid
<1> QED BY <1>2, <1>3

\* The studio without an entry of its own: what is typed, refused or imported.
LEMMA StudioStays ==
  ASSUME SiteSound, StudioFits', stu'.preset = stu.preset,
         UNCHANGED <<siteShown, siteTimers, siteGen, siteCalls, siteTab>>
  PROVE  SiteSound'
<1>1. Here' = Here BY DEF Here
<1>2. RunFits' BY DEF SiteSound, RunFits, SiteTyped, CallsFit, ResultFits, LiveCalls, TimersFit
<1>3. TabTyped' BY DEF SiteSound, TabTyped
<1>4. ShownHere' /\ StudioHere' BY <1>1 DEF SiteSound, ShownHere, StudioHere
<1> QED BY <1>2, <1>3, <1>4 DEF SiteSound

\* The run, without the address.
LEMMA RunStays ==
  ASSUME SiteSound, RunFits', siteShown'.case = siteShown.case, UNCHANGED <<siteTab, stu, stuTyped, stuImport>>
  PROVE  SiteSound'
<1>1. Here' = Here BY DEF Here
<1>2. StudioFits' BY DEF SiteSound, StudioFits, StudioTyped
<1>3. TabTyped' BY DEF SiteSound, TabTyped
<1>4. ShownHere' /\ StudioHere' BY <1>1 DEF SiteSound, ShownHere, StudioHere
<1> QED BY <1>2, <1>3, <1>4 DEF SiteSound

\* Another entry: both listeners start afresh from it.
LEMMA PopSound ==
  ASSUME SiteSound, TabTyped', PopState(Here')
  PROVE  SiteSound'
<1>1. ResolveCase(Here') \in SiteCases /\ ResolvePreset(Here') \in SitePresets BY Resolved
<1>2. RunFits' /\ siteShown'.case = ResolveCase(Here') BY <1>1, ResetFits DEF SiteSound, PopState
<1>3. StudioFits' /\ stu'.preset = ResolvePreset(Here')
  <2>1. stuImport' \in BOOLEAN BY DEF SiteSound, StudioFits, StudioTyped, PopState
  <2> QED BY <1>1, <2>1, SelectedFits DEF SiteSound, PopState
<1> QED BY <1>2, <1>3 DEF SiteSound, ShownHere, StudioHere

\* The page opens on what its link names.
LEMMA SiteInitSound ==
  ASSUME NEW links \in SUBSET SiteLinks, SiteInit(links)
  PROVE  SiteSound
<1>1. PICK link \in links :
        /\ siteTab = [entries |-> <<link>>, at |-> 1]
        /\ siteShown = [case |-> ResolveCase(link), phase |-> "idle", step |-> 0, result |-> NoResult]
        /\ siteTimers = {} /\ siteGen = 0 /\ siteCalls = {}
        /\ stu = [preset |-> ResolvePreset(link), draft |-> ResolvePreset(link),
                  preview |-> ResolvePreset(link), error |-> FALSE]
        /\ stuTyped = FALSE /\ stuImport = FALSE
  BY DEF SiteInit
<1>2. link \in SiteEntries
  <2>1. link \in [example : SiteNames, scenario : SiteNames] BY DEF SiteLinks
  <2> QED BY <2>1 DEF SiteEntries
<1>3. TabTyped /\ Here = link
  <2>1. <<link>> \in Seq(SiteEntries) /\ Len(<<link>>) = 1 /\ <<link>>[1] = link BY <1>2
  <2> DEFINE q == <<link>>
  <2> HIDE DEF q
  <2>2. siteTab = [entries |-> q, at |-> 1] /\ q \in Seq(SiteEntries) /\ Len(q) = 1 /\ q[1] = link
    BY <1>1, <2>1 DEF q
  <2> QED BY <2>2 DEF TabTyped, Here
<1>4. ResolveCase(link) \in SiteCases /\ ResolvePreset(link) \in SitePresets BY Resolved
<1>5. RunFits
  <2>1. SiteTyped BY <1>1, <1>4, FS_EmptySet DEF SiteTyped, SitePhases, SiteResults
  <2>2. CallsFit BY <1>1 DEF CallsFit
  <2>3. Cardinality(LiveCalls) = 0
    <3>1. LiveCalls = {} BY <1>1 DEF LiveCalls
    <3> QED BY <3>1, FS_EmptySet
  <2>4. ResultFits BY <1>1, <2>3 DEF ResultFits
  <2>5. TimersFit BY <1>1 DEF TimersFit
  <2> QED BY <2>1, <2>2, <2>4, <2>5 DEF RunFits
<1>6. Valid(ResolvePreset(link)) /\ ResolvePreset(link) \in Texts BY <1>4, SiteAssumption DEF Valid, Texts
<1>7. StudioFits
  <2>1. StudioTyped BY <1>1, <1>4, <1>6 DEF StudioTyped
  <2>2. stu.preview = ResolvePreset(link) /\ stu.draft = stu.preview /\ stu.error = FALSE BY <1>1
  <2> QED BY <1>6, <2>1, <2>2, Zenon DEF StudioFits, Valid
<1>8. ShownHere /\ StudioHere BY <1>1, <1>3 DEF ShownHere, StudioHere
<1> QED BY <1>3, <1>5, <1>7, <1>8 DEF SiteSound

\* Every handler of the page keeps the invariant.
LEMMA SiteStepSound == SiteSound /\ [SiteNext]_siteVars => SiteSound'
<1> SUFFICES ASSUME SiteSound, [SiteNext]_siteVars PROVE SiteSound'
  OBVIOUS
<1>0. RunFits /\ TabTyped /\ StudioFits /\ ShownHere /\ StudioHere BY DEF SiteSound
<1>h. Here \in SiteEntries /\ stu.draft \in Texts /\ stu.preset \in SitePresets /\ siteShown.case \in SiteCases
  BY <1>0, HereTyped DEF StudioFits, StudioTyped, RunFits, SiteTyped
<1>1. ASSUME NEW c \in SiteCases, SelectUseCase(c) PROVE SiteSound'
  <2> DEFINE e == [Here EXCEPT !.example = c]
  <2>1. ResetTo(c) /\ siteTab' = Pushed(e) /\ UNCHANGED <<stu, stuTyped, stuImport>> BY <1>1 DEF SelectUseCase
  <2>2. e \in SiteEntries /\ e.example = c /\ e.scenario = Here.scenario BY <1>h DEF SiteEntries
  <2> HIDE DEF e
  <2>3. TabTyped' /\ Here' = e BY <1>0, <2>1, <2>2, PushedHere
  <2>4. RunFits' /\ siteShown'.case = c BY <1>0, <2>1, ResetFits
  <2>5. ShownHere' BY <2>2, <2>3, <2>4 DEF ShownHere, ResolveCase
  <2>6. StudioHere' BY <1>0, <2>1, <2>2, <2>3 DEF StudioHere, ResolvePreset
  <2>7. StudioFits' BY <1>0, <2>1 DEF StudioFits, StudioTyped
  <2> QED BY <2>3, <2>4, <2>5, <2>6, <2>7 DEF SiteSound
<1>2. CASE ResetScenario
  <2>1. ResetTo(siteShown.case) /\ UNCHANGED <<siteTab, stu, stuTyped, stuImport>> BY <1>2 DEF ResetScenario
  <2>2. RunFits' /\ siteShown'.case = siteShown.case BY <1>0, <1>h, <2>1, ResetFits
  <2> QED BY <2>1, <2>2, RunStays
<1>3. CASE RunScenario
  <2>1. RunFits' /\ siteShown'.case = siteShown.case
    <3>1. 1..5 \in SUBSET (1..5) OBVIOUS
    <3> QED BY <1>0, <1>3, <3>1, AskFits DEF RunScenario
  <2> QED BY <1>3, <2>1, RunStays DEF RunScenario, Ask
<1>4. CASE AbortScenario
  <2>1. RunFits' /\ siteShown'.case = siteShown.case
    <3>1. {} \in SUBSET (1..5) OBVIOUS
    <3> QED BY <1>0, <1>4, <3>1, AskFits DEF AbortScenario
  <2> QED BY <1>4, <2>1, RunStays DEF AbortScenario, Ask
<1>5. ASSUME NEW t \in 1..5, TimerFires(t) PROVE SiteSound'
  BY <1>0, <1>5, TimerFits, RunStays DEF TimerFires
<1>6. ASSUME NEW call \in siteCalls, NEW reached, CallReturns(call, reached) PROVE SiteSound'
  BY <1>0, <1>6, ReturnFits, RunStays DEF CallReturns
<1>7. ASSUME NEW p \in SitePresets, SelectPreset(p) PROVE SiteSound'
  <2> DEFINE e == [Here EXCEPT !.scenario = p]
  <2>1. /\ stu' = SelectedPreset(p) /\ stuTyped' = FALSE /\ siteTab' = Pushed(e)
        /\ UNCHANGED <<siteShown, siteTimers, siteGen, siteCalls, stuImport>>
    BY <1>7 DEF SelectPreset
  <2>2. e \in SiteEntries /\ e.scenario = p /\ e.example = Here.example BY <1>h DEF SiteEntries
  <2> HIDE DEF e
  <2>3. TabTyped' /\ Here' = e BY <1>0, <2>1, <2>2, PushedHere
  <2>4. StudioFits' /\ stu'.preset = p
    <3>1. stuImport' \in BOOLEAN BY <1>0, <2>1 DEF StudioFits, StudioTyped
    <3> QED BY <1>0, <2>1, <3>1, SelectedFits
  <2>5. ShownHere' BY <1>0, <2>1, <2>2, <2>3 DEF ShownHere, ResolveCase
  <2>6. StudioHere' BY <2>2, <2>3, <2>4 DEF StudioHere, ResolvePreset
  <2>7. RunFits' BY <1>0, <2>1 DEF RunFits, SiteTyped, CallsFit, ResultFits, LiveCalls, TimersFit
  <2> QED BY <2>3, <2>4, <2>5, <2>6, <2>7 DEF SiteSound
<1>8. CASE Reset
  <2>1. /\ stu' = SelectedPreset(stu.preset) /\ stuTyped' = FALSE
        /\ UNCHANGED <<siteShown, siteTimers, siteGen, siteCalls, siteTab, stuImport>>
    BY <1>8 DEF Reset
  <2>2. stuImport' \in BOOLEAN BY <1>0, <2>1 DEF StudioFits, StudioTyped
  <2>3. StudioFits' /\ stu'.preset = stu.preset BY <1>0, <1>h, <2>1, <2>2, SelectedFits
  <2> QED BY <2>1, <2>3, StudioStays
<1>9. CASE ValidateAndPreview
  <2>1. /\ stu' = PreviewOf(stu, stu.draft) /\ stuTyped' = FALSE
        /\ UNCHANGED <<siteShown, siteTimers, siteGen, siteCalls, siteTab, stuImport>>
    BY <1>9 DEF ValidateAndPreview
  <2>2. [stu EXCEPT !.draft = stu.draft] = stu BY <1>0 DEF StudioFits, StudioTyped
  <2>3. stuImport' \in BOOLEAN BY <1>0, <2>1 DEF StudioFits, StudioTyped
  <2>4. StudioFits' /\ stu'.preset = stu.preset BY <1>0, <1>h, <2>1, <2>2, <2>3, PreviewedFits
  <2> QED BY <2>1, <2>4, StudioStays
<1>10. CASE BeginImport
  <2>1. stuImport' = TRUE /\ UNCHANGED <<siteShown, siteTimers, siteGen, siteCalls, siteTab, stu, stuTyped>>
    BY <1>10 DEF BeginImport
  <2>2. StudioFits' BY <1>0, <2>1 DEF StudioFits, StudioTyped
  <2> QED BY <2>1, <2>2, StudioStays
<1>11. ASSUME NEW text \in Texts, UpdatePolicy(text) PROVE SiteSound'
  <2>1. /\ stu' = PreviewOf([stu EXCEPT !.draft = text], text) /\ stuTyped' = FALSE
        /\ UNCHANGED <<siteShown, siteTimers, siteGen, siteCalls, siteTab, stuImport>>
    BY <1>11 DEF UpdatePolicy
  <2>2. stuImport' \in BOOLEAN BY <1>0, <2>1 DEF StudioFits, StudioTyped
  <2>3. StudioFits' /\ stu'.preset = stu.preset BY <1>0, <2>1, <2>2, PreviewedFits
  <2> QED BY <2>1, <2>3, StudioStays
<1>12. ASSUME NEW text \in Texts, Type(text) PROVE SiteSound'
  <2>1. /\ stu' = [stu EXCEPT !.draft = text] /\ stuTyped' = TRUE
        /\ UNCHANGED <<siteShown, siteTimers, siteGen, siteCalls, siteTab, stuImport>>
    BY <1>12 DEF Type
  <2>2. stu'.preset = stu.preset /\ stu'.preview = stu.preview /\ StudioTyped' BY <1>0, <2>1 DEF StudioFits, StudioTyped
  <2>3. StudioFits' BY <1>0, <2>1, <2>2, Zenon DEF StudioFits
  <2> QED BY <2>1, <2>2, <2>3, StudioStays
<1>13. ASSUME NEW b \in BOOLEAN, ImportEnds(b) PROVE SiteSound'
  <2>1. stuImport' = FALSE /\ UNCHANGED <<siteShown, siteTimers, siteGen, siteCalls, siteTab>> BY <1>13 DEF ImportEnds
  <2>2. CASE b
    <3>1. stu' = [stu EXCEPT !.draft = "imported", !.preview = "imported", !.error = FALSE] /\ stuTyped' = FALSE
      BY <1>13, <2>2 DEF ImportEnds
    <3>2. stu' = [preset |-> stu.preset, draft |-> "imported", preview |-> "imported", error |-> FALSE]
      BY <1>0, <3>1 DEF StudioFits, StudioTyped
    <3>3. stu'.preset = stu.preset /\ stu'.preview = "imported" /\ stu'.draft = "imported" /\ stu'.error = FALSE
      BY <3>2
    <3>4. StudioTyped' BY <1>h, <2>1, <3>1, <3>2 DEF StudioTyped, Texts
    <3>5. Valid(stu'.preview) BY <3>3 DEF Valid
    <3>6. StudioFits' BY <3>3, <3>4, <3>5, Zenon DEF StudioFits
    <3> QED BY <2>1, <3>3, <3>6, StudioStays
  <2>3. CASE ~b
    <3>1. UNCHANGED <<stu, stuTyped>> BY <1>13, <2>3 DEF ImportEnds
    <3>2. StudioFits' BY <1>0, <2>1, <3>1 DEF StudioFits, StudioTyped
    <3> QED BY <2>1, <3>1, <3>2, StudioStays
  <2> QED BY <2>2, <2>3
<1>14. ASSUME NEW i \in 1..SiteVisits, Traverse(i) PROVE SiteSound'
  <2>1. /\ i \in DOMAIN siteTab.entries /\ siteTab' = [siteTab EXCEPT !.at = i] /\ PopState(siteTab.entries[i])
    BY <1>14 DEF Traverse
  <2>2. siteTab.entries \in Seq(SiteEntries) /\ siteTab \in [entries : Seq(SiteEntries), at : Nat]
    BY <1>0 DEF TabTyped
  <2>3. DOMAIN siteTab.entries = 1..Len(siteTab.entries) /\ Len(siteTab.entries) \in Nat BY <2>2, LenProperties
  <2>4. siteTab'.entries = siteTab.entries /\ siteTab'.at = i BY <2>1, <2>2
  <2>5. TabTyped' BY <2>1, <2>2, <2>3, <2>4 DEF TabTyped
  <2>6. Here' = siteTab.entries[i] BY <2>4 DEF Here
  <2> QED BY <2>1, <2>5, <2>6, PopSound
<1>15. CASE FollowFragment
  <2>1. siteTab' = Pushed(Here) /\ PopState(Here) BY <1>15 DEF FollowFragment
  <2>2. TabTyped' /\ Here' = Here BY <1>0, <1>h, <2>1, PushedHere
  <2> QED BY <2>1, <2>2, PopSound
<1>16. CASE UNCHANGED siteVars
  <2>1. UNCHANGED <<siteShown, siteTimers, siteGen, siteCalls, siteTab>> /\ UNCHANGED <<stu, stuTyped, stuImport>>
    BY <1>16 DEF siteVars
  <2>2. StudioFits' BY <1>0, <2>1 DEF StudioFits, StudioTyped
  <2> QED BY <2>1, <2>2, StudioStays
<1> QED BY <1>1, <1>2, <1>3, <1>4, <1>5, <1>6, <1>7, <1>8, <1>9, <1>10, <1>11, <1>12, <1>13, <1>14, <1>15, <1>16
        DEF SiteNext

\* For any examples, presets and links, and however long the history: the page shows
\* what its address names, the result and timers of the latest press, and the preview
\* of a valid text.
THEOREM SiteIsTrue ==
  ASSUME NEW CONSTANT links \in SUBSET SiteLinks
  PROVE  SiteInit(links) /\ [][SiteNext]_siteVars => []SiteTruth
<1>1. SiteInit(links) => SiteSound BY SiteInitSound
<1>2. SiteSound => SiteTruth
  BY DEF SiteSound, RunFits, ResultFits, TimersFit, LiveCalls, StudioFits, ShownHere, StudioHere, SiteTruth
<1> QED BY <1>1, <1>2, SiteStepSound, PTL

\* Induction up to a bound, and over all natural numbers, by sets.
LEMMA UpTo ==
  ASSUME NEW N \in Nat, NEW T, \A s \in 0..N : (\A r \in 0..N : r < s => r \in T) => s \in T
  PROVE  \A s \in 0..N : s \in T
<1> DEFINE S == (0..N) \ T
<1>1. SUFFICES ASSUME S # {} PROVE FALSE OBVIOUS
<1>2. S \in SUBSET Nat OBVIOUS
<1>3. \E x \in S : \A y \in S : x <= y BY <1>1, <1>2, Least
<1>4. PICK x \in S : \A y \in S : x <= y BY <1>3
<1>5. \A r \in 0..N : r < x => r \in T BY <1>4
<1> QED BY <1>4, <1>5

\* Induction over the naturals in the form of a set, from a least counterexample.
LEMMA AllNat ==
  ASSUME NEW T \in SUBSET Nat, 0 \in T, \A n \in T : n + 1 \in T
  PROVE  T = Nat
<1> DEFINE S == Nat \ T
<1>1. SUFFICES ASSUME S # {} PROVE FALSE OBVIOUS
<1>2. S \in SUBSET Nat OBVIOUS
<1>3. PICK x \in S : \A y \in S : x <= y BY <1>1, <1>2, Least
<1>4. x # 0 /\ x - 1 \in Nat /\ ~(x <= x - 1) BY <1>2
<1>5. x - 1 \in T BY <1>3, <1>4
<1> QED BY <1>4, <1>5

(***************************************************************************)
(* The failure lab (FailureLab): every turn keeps a course within its bounds, *)
(* the turns end, and where the retries are foreseen those of the preview     *)
(* and of the run are the same.                                             *)
(***************************************************************************)
LabIs == {"retry_same_candidate", "try_next_candidate", "quality_rejected",
          "requires_user_input", "terminal", "accepted"}
LabFinal == {"requires_user_input", "terminal", "accepted"}
LabWhys == {"none", "transient_provider_failure", "provider_unavailable", "provider_request_invalid",
            "production_change_requires_approval", "incident_evidence_missing",
            "incident_confidence_too_low", "workit_timeout", "workit_budget_exhausted"}
LabDecisions == [is : LabIs, why : LabWhys]
LabEvidence == [candidate : Nat, attempt : Nat, is : LabIs, why : LabWhys]
LabStatuses == {"pending", "exhausted", "thrown", "requires_user_input", "terminal", "accepted"}
LabActions(s) ==
  {"none"} \cup {s.candidates[c].outcomes[k].action : c \in 1..Len(s.candidates), k \in 1..MaxLabOutcomes}
LabCourses(s) ==
  [elapsed : Nat, spent : Nat, evidence : Seq(LabEvidence), dropped : Nat, status : LabStatuses,
   why : LabWhys, candidate : Nat, action : LabActions(s)]

\* A course within its bounds; of its evidence, only the last may be final.
Within(s, course) ==
  /\ course \in LabCourses(s)
  /\ course.spent <= s.policy.retryLimit /\ course.elapsed <= s.policy.deadline
  /\ Len(course.evidence) <= s.policy.maxEvidence
  /\ course.dropped > 0 => Len(course.evidence) = s.policy.maxEvidence
FinalLast(course, is) ==
  \A i \in DOMAIN course.evidence : course.evidence[i].is \in LabFinal =>
    i = Len(course.evidence) /\ course.dropped = 0 /\ is = course.evidence[i].is
OpenCourse(s, course) ==
  /\ Within(s, course) /\ course.status = "pending"
  /\ \A i \in DOMAIN course.evidence : course.evidence[i].is \notin LabFinal
EndedCourse(s, course) == Within(s, course) /\ Sound(s, course)

Recommended(s, o) ==
  /\ o.type = "success" /\ o.risk = "read_only"
  /\ o.references >= s.policy.minReferences /\ o.confidence >= s.policy.minConfidence
LabLimits(s) ==
  /\ s.policy.retryLimit \in Nat /\ s.policy.deadline \in Nat /\ s.policy.maxEvidence \in Nat
  /\ Len(s.candidates) \in Nat
  /\ \A c \in 1..Len(s.candidates) :
       /\ s.candidates[c].latency \in Nat /\ Len(s.candidates[c].outcomes) \in 1..MaxLabOutcomes
       /\ \A k \in 1..Len(s.candidates[c].outcomes) : ValidOutcome(s.candidates[c].outcomes[k])

\* What a valid scenario's numbers are.
LEMMA LimitsOfLab == ASSUME NEW s, ValidScenario(s) PROVE LabLimits(s)
<1>1. /\ ValidPolicy(s.policy) /\ Len(s.candidates) \in 1..12
      /\ \A c \in 1..Len(s.candidates) : ValidLabCandidate(s.candidates[c])
  BY DEF ValidScenario, MaxLabCandidates
<1>2. s.policy.retryLimit \in Nat /\ s.policy.deadline \in Nat /\ s.policy.maxEvidence \in Nat
  <2>1. /\ s.policy.retryLimit \in 0..4 /\ s.policy.maxEvidence \in 1..32 /\ s.policy.deadline \in Nat
    BY <1>1 DEF ValidPolicy, MaxLabRetries, MaxLabAttempts
  <2> QED BY <2>1
<1>3. Len(s.candidates) \in Nat BY <1>1
<1>4. ASSUME NEW c \in 1..Len(s.candidates)
      PROVE  /\ s.candidates[c].latency \in Nat /\ Len(s.candidates[c].outcomes) \in 1..MaxLabOutcomes
             /\ \A k \in 1..Len(s.candidates[c].outcomes) : ValidOutcome(s.candidates[c].outcomes[k])
  BY <1>1 DEF ValidLabCandidate
<1> QED BY <1>2, <1>3, <1>4 DEF LabLimits

\* What a decision is, and what it says of its outcome.
LEMMA DecisionKinds ==
  ASSUME NEW s, ValidPolicy(s.policy), NEW o, ValidOutcome(o)
  PROVE  LET d == DecisionOn(o, s.policy)
         IN /\ d \in LabDecisions
            /\ d.is = "accepted" => Recommended(s, o)
            /\ d.is = "retry_same_candidate" <=> o.type = "failure" /\ o.class = "transient"
<1> DEFINE d == DecisionOn(o, s.policy)
<1>1. CASE o.type = "failure"
  <2>1. d = FailureDecision(o.class) /\ o.class \in {"transient", "unavailable", "invalid_request"}
    BY <1>1 DEF DecisionOn, ValidOutcome
  <2>2. CASE o.class = "transient"
    BY <1>1, <2>1, <2>2 DEF FailureDecision, LabDecisions, LabIs, LabWhys
  <2>3. CASE o.class = "unavailable"
    BY <1>1, <2>1, <2>3 DEF FailureDecision, LabDecisions, LabIs, LabWhys
  <2>4. CASE o.class = "invalid_request"
    BY <1>1, <2>1, <2>4 DEF FailureDecision, LabDecisions, LabIs, LabWhys
  <2> QED BY <2>1, <2>2, <2>3, <2>4
<1>2. CASE o.type = "success"
  <2>1. /\ d = Assess(o, s.policy) /\ o.references \in Nat /\ o.confidence \in Nat
        /\ o.risk \in {"read_only", "production_write"}
        /\ s.policy.minReferences \in Nat /\ s.policy.minConfidence \in Nat
    BY <1>2 DEF DecisionOn, ValidOutcome, ValidPolicy, MaxLabReferences
  <2>2. d \in LabDecisions BY <2>1 DEF Assess, LabDecisions, LabIs, LabWhys
  <2>3. d.is = "accepted" => Recommended(s, o) BY <1>2, <2>1 DEF Assess, Recommended
  <2>4. d.is # "retry_same_candidate" BY <2>1 DEF Assess
  <2> QED BY <1>2, <2>2, <2>3, <2>4
<1> QED BY <1>1, <1>2 DEF ValidOutcome

\* What retaining does: the evidence is kept or counted, and the bounds hold.
LEMMA RetainWithin ==
  ASSUME NEW s, LabLimits(s), NEW course, Within(s, course), NEW c \in Nat, NEW k \in Nat,
         NEW d \in LabDecisions
  PROVE  LET r == Retain(s, course, c, k, d)
         IN /\ Within(s, r)
            /\ r.elapsed = course.elapsed /\ r.spent = course.spent /\ r.status = course.status
            /\ (\A i \in DOMAIN course.evidence : course.evidence[i].is \notin LabFinal) =>
                 /\ FinalLast(r, d.is)
                 /\ d.is \notin LabFinal => \A i \in DOMAIN r.evidence : r.evidence[i].is \notin LabFinal
<1> DEFINE r == Retain(s, course, c, k, d)
           e == [candidate |-> c, attempt |-> k, is |-> d.is, why |-> d.why]
<1>1. /\ course \in LabCourses(s) /\ course.evidence \in Seq(LabEvidence) /\ course.dropped \in Nat
      /\ Len(course.evidence) \in Nat /\ Len(course.evidence) <= s.policy.maxEvidence
      /\ s.policy.maxEvidence \in Nat
      /\ course.dropped > 0 => Len(course.evidence) = s.policy.maxEvidence
      /\ course.spent <= s.policy.retryLimit /\ course.elapsed <= s.policy.deadline
  BY DEF Within, LabCourses, LabLimits
<1>2. e \in LabEvidence /\ e.is = d.is BY DEF LabDecisions, LabEvidence
<1>3. CASE Len(course.evidence) < s.policy.maxEvidence
  <2>1. r = [course EXCEPT !.evidence = Append(course.evidence, e)] BY <1>3 DEF Retain
  <2> HIDE DEF e
  <2>2. /\ Append(course.evidence, e) \in Seq(LabEvidence)
        /\ Len(Append(course.evidence, e)) = Len(course.evidence) + 1
        /\ Append(course.evidence, e)[Len(course.evidence) + 1] = e
        /\ \A i \in 1..Len(course.evidence) : Append(course.evidence, e)[i] = course.evidence[i]
    BY <1>1, <1>2
  <2> DEFINE more == Append(course.evidence, e)
  <2> HIDE DEF r, more
  <2>3. /\ r \in LabCourses(s) /\ r.evidence = more /\ r.dropped = course.dropped
        /\ r.elapsed = course.elapsed /\ r.spent = course.spent /\ r.status = course.status
    BY <1>1, <2>1, <2>2 DEF LabCourses, more
  <2>4. Within(s, r) BY <1>1, <1>3, <2>2, <2>3 DEF Within, more
  <2>5. course.dropped = 0 BY <1>1, <1>3
  <2>6. DOMAIN r.evidence = 1..(Len(course.evidence) + 1) /\ Len(r.evidence) = Len(course.evidence) + 1
        /\ DOMAIN course.evidence = 1..Len(course.evidence)
    BY <1>1, <2>2, <2>3 DEF more
  <2>7. ASSUME \A i \in DOMAIN course.evidence : course.evidence[i].is \notin LabFinal
        PROVE  /\ FinalLast(r, d.is)
               /\ d.is \notin LabFinal => \A i \in DOMAIN r.evidence : r.evidence[i].is \notin LabFinal
    <3>1. ASSUME NEW i \in DOMAIN r.evidence
          PROVE  \/ r.evidence[i].is \notin LabFinal
                 \/ i = Len(r.evidence) /\ r.evidence[i].is = d.is
      <4>1. CASE i \in 1..Len(course.evidence)
        <5>1. r.evidence[i] = course.evidence[i] BY <2>2, <2>3, <4>1 DEF more
        <5> QED BY <2>6, <2>7, <4>1, <5>1
      <4>2. CASE i = Len(course.evidence) + 1
        <5>1. r.evidence[i] = e BY <2>2, <2>3, <4>2 DEF more
        <5> QED BY <1>2, <2>6, <4>2, <5>1
      <4> QED BY <1>1, <2>6, <3>1, <4>1, <4>2
    <3> QED BY <2>3, <2>5, <3>1 DEF FinalLast
  <2> QED BY <2>3, <2>4, <2>7 DEF r
<1>4. CASE ~(Len(course.evidence) < s.policy.maxEvidence)
  <2>1. r = [course EXCEPT !.dropped = course.dropped + 1] BY <1>4 DEF Retain
  <2> HIDE DEF r
  <2>2. /\ r \in LabCourses(s) /\ r.evidence = course.evidence /\ r.dropped = course.dropped + 1
        /\ r.elapsed = course.elapsed /\ r.spent = course.spent /\ r.status = course.status
    BY <1>1, <2>1 DEF LabCourses
  <2>3. Len(course.evidence) = s.policy.maxEvidence BY <1>1, <1>4
  <2>4. Within(s, r) BY <1>1, <2>2, <2>3 DEF Within
  <2>5. (\A i \in DOMAIN course.evidence : course.evidence[i].is \notin LabFinal) =>
          /\ FinalLast(r, d.is)
          /\ \A i \in DOMAIN r.evidence : r.evidence[i].is \notin LabFinal
    BY <2>2 DEF FinalLast
  <2> QED BY <2>2, <2>4, <2>5 DEF r
<1> QED BY <1>3, <1>4

\* A course that ends with what its last evidence says, and is not accepted, is sound.
LEMMA EndsSound ==
  ASSUME NEW s, NEW course, Within(s, course), NEW status \in LabStatuses \ {"pending", "accepted"},
         FinalLast(course, status), NEW why \in LabWhys
  PROVE  EndedCourse(s, Ends(course, status, why))
<1> DEFINE r == Ends(course, status, why)
<1>1. course \in LabCourses(s) BY DEF Within
<1>2. r = [course EXCEPT !.status = status, !.why = why] BY DEF Ends
<1> HIDE DEF r
<1>3. /\ r \in LabCourses(s) /\ r.evidence = course.evidence /\ r.dropped = course.dropped
      /\ r.elapsed = course.elapsed /\ r.spent = course.spent /\ r.status = status
  BY <1>1, <1>2 DEF LabCourses
<1>4. Within(s, r) BY <1>3 DEF Within
<1>5. Sound(s, r) BY <1>3 DEF Sound, Within, FinalLast, LabFinal
<1> QED BY <1>4, <1>5 DEF EndedCourse, r

\* An attempt in time is within the bounds, and open unless its decision is final.
LEMMA AttemptedWithin ==
  ASSUME NEW s, LabLimits(s), ValidPolicy(s.policy), NEW course, OpenCourse(s, course),
         NEW c \in 1..Len(s.candidates), NEW k \in Nat, NEW o, ValidOutcome(o), ~Overruns(s, course, c)
  PROVE  LET d == DecisionOn(o, s.policy)
             next == Attempted(s, course, c, k, o)
         IN /\ Within(s, next) /\ FinalLast(next, d.is)
            /\ d.is \notin LabFinal => OpenCourse(s, next)
            /\ next.status = "pending" /\ next.spent = course.spent
<1> DEFINE d == DecisionOn(o, s.policy)
           r == Retain(s, course, c, k, d)
           next == Attempted(s, course, c, k, o)
<1>1. d \in LabDecisions BY DecisionKinds
<1>2. c \in Nat /\ s.candidates[c].latency \in Nat /\ s.policy.deadline \in Nat BY DEF LabLimits
<1>3. /\ Within(s, course) /\ course.status = "pending" /\ course.elapsed \in Nat
      /\ \A i \in DOMAIN course.evidence : course.evidence[i].is \notin LabFinal
  BY DEF OpenCourse, Within, LabCourses
<1>0. LET q == Retain(s, course, c, k, d)
      IN /\ Within(s, q)
         /\ q.elapsed = course.elapsed /\ q.spent = course.spent /\ q.status = course.status
         /\ (\A i \in DOMAIN course.evidence : course.evidence[i].is \notin LabFinal) =>
              /\ FinalLast(q, d.is)
              /\ d.is \notin LabFinal => \A i \in DOMAIN q.evidence : q.evidence[i].is \notin LabFinal
  <2> HIDE DEF d
  <2>1. Within(s, course) BY DEF OpenCourse
  <2> QED BY <1>1, <1>2, <2>1, RetainWithin
<1> HIDE DEF d
<1>4. /\ Within(s, r) /\ r.elapsed = course.elapsed /\ r.spent = course.spent /\ r.status = course.status
      /\ FinalLast(r, d.is)
      /\ d.is \notin LabFinal => \A i \in DOMAIN r.evidence : r.evidence[i].is \notin LabFinal
  BY <1>3, <1>0
<1> HIDE DEF r
<1>5. next = [r EXCEPT !.elapsed = @ + s.candidates[c].latency] BY DEF Attempted, r, d
<1> DEFINE then == r.elapsed + s.candidates[c].latency
<1> HIDE DEF next
<1>6. r \in LabCourses(s) BY <1>4 DEF Within
<1>7. /\ next \in LabCourses(s) /\ next.evidence = r.evidence /\ next.dropped = r.dropped
      /\ next.elapsed = r.elapsed + s.candidates[c].latency /\ next.spent = r.spent /\ next.status = r.status
  <2>1. then \in Nat BY <1>2, <1>3, <1>4
  <2>2. next = [r EXCEPT !.elapsed = then] BY <1>5
  <2> HIDE DEF then
  <2>3. /\ next \in LabCourses(s) /\ next.evidence = r.evidence /\ next.dropped = r.dropped
        /\ next.elapsed = then /\ next.spent = r.spent /\ next.status = r.status
    BY <1>6, <2>1, <2>2 DEF LabCourses
  <2> QED BY <2>3 DEF then
<1>8. next.elapsed <= s.policy.deadline BY <1>2, <1>3, <1>4, <1>7 DEF Overruns
<1>9. Within(s, next) BY <1>4, <1>7, <1>8 DEF Within
<1>10. FinalLast(next, d.is) BY <1>4, <1>7 DEF FinalLast
<1>11. d.is \notin LabFinal => OpenCourse(s, next) BY <1>3, <1>4, <1>7, <1>9 DEF OpenCourse
<1> QED BY <1>3, <1>4, <1>7, <1>9, <1>10, <1>11 DEF next, d

\* An attempt that would be late ends the course at the deadline.
LEMMA CutShortFits ==
  ASSUME NEW s, LabLimits(s), NEW course, OpenCourse(s, course), NEW c \in Nat, NEW k \in Nat
  PROVE  EndedCourse(s, CutShort(s, course, c, k))
<1> DEFINE r == Retain(s, course, c, k, Timeout)
           late == [r EXCEPT !.elapsed = s.policy.deadline]
<1>1. Timeout \in LabDecisions /\ Timeout.is = "terminal" /\ Timeout.why \in LabWhys
  BY DEF Timeout, LabDecisions, LabIs, LabWhys
<1>2. Within(s, r) /\ FinalLast(r, "terminal") BY <1>1, RetainWithin DEF OpenCourse
<1> HIDE DEF r
<1>3. r \in LabCourses(s) /\ s.policy.deadline \in Nat BY <1>2 DEF Within, LabLimits
<1>4. /\ late \in LabCourses(s) /\ late.evidence = r.evidence /\ late.dropped = r.dropped
      /\ late.elapsed = s.policy.deadline /\ late.spent = r.spent
  BY <1>3 DEF LabCourses
<1> HIDE DEF late
<1>5. Within(s, late) BY <1>2, <1>3, <1>4 DEF Within
<1>6. FinalLast(late, "terminal") BY <1>2, <1>4 DEF FinalLast
<1>7. "terminal" \in LabStatuses \ {"pending", "accepted"} BY DEF LabStatuses
<1>8. EndedCourse(s, Ends(late, Timeout.is, Timeout.why)) BY <1>1, <1>5, <1>6, <1>7, EndsSound
<1> QED BY <1>8 DEF CutShort, late, r

\* An accepted outcome is the one the course selects.
LEMMA SelectsFits ==
  ASSUME NEW s, NEW course, Within(s, course), FinalLast(course, "accepted"),
         NEW c \in 1..Len(s.candidates), Len(s.candidates) \in Nat, Len(s.candidates[c].outcomes) \in 1..MaxLabOutcomes,
         NEW k \in 1..Len(s.candidates[c].outcomes), Recommended(s, s.candidates[c].outcomes[k])
  PROVE  EndedCourse(s, Selects(course, c, s.candidates[c].outcomes[k]))
<1> DEFINE o == s.candidates[c].outcomes[k]
           r == Selects(course, c, o)
<1>1. course \in LabCourses(s) BY DEF Within
<1>2. r = [course EXCEPT !.status = "accepted", !.candidate = c, !.action = o.action] BY DEF Selects
<1>3. o.action \in LabActions(s)
  <2>1. k \in 1..MaxLabOutcomes BY DEF MaxLabOutcomes
  <2> QED BY <2>1 DEF LabActions
<1>4. c \in Nat OBVIOUS
<1> HIDE DEF r, o
<1>5. /\ r \in LabCourses(s) /\ r.evidence = course.evidence /\ r.dropped = course.dropped
      /\ r.elapsed = course.elapsed /\ r.spent = course.spent /\ r.status = "accepted"
      /\ r.candidate = c /\ r.action = o.action
  BY <1>1, <1>2, <1>3, <1>4 DEF LabCourses, LabStatuses
<1>6. Within(s, r) BY <1>5 DEF Within
<1>7. /\ o.type = "success" /\ o.risk = "read_only" /\ o.action = r.action
      /\ o.references >= s.policy.minReferences /\ o.confidence >= s.policy.minConfidence
  BY <1>5 DEF Recommended, o
<1>8. \E j \in 1..Len(s.candidates[r.candidate].outcomes) :
        LET p == s.candidates[r.candidate].outcomes[j]
        IN /\ p.type = "success" /\ p.risk = "read_only" /\ p.action = r.action
           /\ p.references >= s.policy.minReferences /\ p.confidence >= s.policy.minConfidence
  BY <1>5, <1>7 DEF o
<1>9. Sound(s, r) BY <1>5, <1>6, <1>8 DEF Sound, Within, FinalLast, LabFinal
<1> QED BY <1>6, <1>9 DEF EndedCourse, r, o

\* What a turn may come to: the course has ended, the next candidate's turn is next, or
\* the candidate's next attempt.
LabComes(s, c, k, y) ==
  \/ \E q : EndedCourse(s, q) /\ y = Place(c, k, q)
  \/ c <= Len(s.candidates) /\ \E q : OpenCourse(s, q) /\ y = Place(c + 1, 1, q)
  \/ c <= Len(s.candidates) /\ k <= MaxLabOutcomes /\ \E q : OpenCourse(s, q) /\ y = Place(c, k + 1, q)

\* A retry more, within the limit.
LEMMA RetryOpen ==
  ASSUME NEW s, NEW course, OpenCourse(s, course), course.spent + 1 <= s.policy.retryLimit
  PROVE  OpenCourse(s, [course EXCEPT !.spent = @ + 1])
<1> DEFINE q == [course EXCEPT !.spent = @ + 1]
<1>1. course \in LabCourses(s) /\ course.spent \in Nat BY DEF OpenCourse, Within, LabCourses
<1>2. q = [course EXCEPT !.spent = course.spent + 1] BY <1>1 DEF LabCourses
<1> HIDE DEF q
<1>3. /\ q \in LabCourses(s) /\ q.evidence = course.evidence /\ q.dropped = course.dropped
      /\ q.elapsed = course.elapsed /\ q.spent = course.spent + 1 /\ q.status = course.status
  BY <1>1, <1>2 DEF LabCourses
<1>4. Within(s, q) BY <1>3 DEF OpenCourse, Within
<1>5. OpenCourse(s, q) BY <1>3, <1>4 DEF OpenCourse
<1> QED BY <1>5 DEF q

\* What is left when every candidate had its turn.
LEMMA ExhaustedEnded ==
  ASSUME NEW s, NEW course, OpenCourse(s, course)
  PROVE  EndedCourse(s, Ends(course, "exhausted", "none"))
<1>1. Within(s, course) /\ FinalLast(course, "exhausted") BY DEF OpenCourse, FinalLast
<1>2. "exhausted" \in LabStatuses \ {"pending", "accepted"} /\ "none" \in LabWhys BY DEF LabStatuses, LabWhys
<1> QED BY <1>1, <1>2, EndsSound

\* A turn of the preview comes to one of these.
LEMMA PreviewComes ==
  ASSUME NEW s, ValidScenario(s), NEW x, OpenCourse(s, x.course), x.c \in Nat \ {0}, x.k \in Nat \ {0}
  PROVE  LabComes(s, x.c, x.k, PreviewTurn(s, x))
<1> DEFINE c == x.c
           k == x.k
           o == s.candidates[c].outcomes[k]
           d == DecisionOn(o, s.policy)
           next == Attempted(s, x.course, c, k, o)
           y == PreviewTurn(s, x)
<1>1. LabLimits(s) /\ ValidPolicy(s.policy) BY LimitsOfLab DEF ValidScenario
<1>2. CASE c > Len(s.candidates)
  <2>1. y = Place(c, k, Ends(x.course, "exhausted", "none")) BY <1>2 DEF PreviewTurn
  <2> QED BY <2>1, ExhaustedEnded DEF LabComes
<1>3. CASE ~(c > Len(s.candidates)) /\ k > Len(s.candidates[c].outcomes)
  <2>1. y = Place(c + 1, 1, x.course) BY <1>3 DEF PreviewTurn
  <2>2. c <= Len(s.candidates) BY <1>1, <1>3 DEF LabLimits
  <2> QED BY <2>1, <2>2 DEF LabComes
<1>4. CASE ~(c > Len(s.candidates)) /\ ~(k > Len(s.candidates[c].outcomes)) /\ Overruns(s, x.course, c)
  <2>1. y = Place(c, k, CutShort(s, x.course, c, k)) BY <1>4 DEF PreviewTurn
  <2> QED BY <1>1, <2>1, CutShortFits DEF LabComes
<1>5. CASE ~(c > Len(s.candidates)) /\ ~(k > Len(s.candidates[c].outcomes)) /\ ~Overruns(s, x.course, c)
  <2>1. /\ c \in 1..Len(s.candidates) /\ k \in 1..Len(s.candidates[c].outcomes) /\ k \in Nat
        /\ Len(s.candidates[c].outcomes) \in 1..MaxLabOutcomes /\ Len(s.candidates) \in Nat
        /\ k <= MaxLabOutcomes /\ c <= Len(s.candidates)
    <3>1. c \in 1..Len(s.candidates) /\ Len(s.candidates) \in Nat /\ c <= Len(s.candidates)
      BY <1>1, <1>5 DEF LabLimits
    <3>2. Len(s.candidates[c].outcomes) \in 1..8 BY <1>1, <3>1 DEF LabLimits, MaxLabOutcomes
    <3>3. k \in 1..Len(s.candidates[c].outcomes) /\ k <= 8
      <4> DEFINE m == Len(s.candidates[c].outcomes)
      <4>1. k \in Nat /\ k # 0 /\ m \in 1..8 /\ ~(k > m) BY <1>5, <3>2
      <4> HIDE DEF k, m
      <4>2. k \in 1..m /\ k <= 8 BY <4>1
      <4> QED BY <4>2 DEF m
    <3> QED BY <3>1, <3>2, <3>3 DEF MaxLabOutcomes
  <2>2. ValidOutcome(o) BY <1>1, <2>1 DEF LabLimits
  <2>3. /\ d \in LabDecisions
        /\ d.is = "accepted" => Recommended(s, o)
    BY <1>1, <2>2, DecisionKinds
  <2>4. y = CASE d.is = "accepted" -> Place(c, k, Selects(next, c, o))
             [] d.is \in {"requires_user_input", "terminal"} -> Place(c, k, Ends(next, d.is, d.why))
             [] d.is \in {"try_next_candidate", "quality_rejected"} -> Place(c + 1, 1, next)
             [] d.is = "retry_same_candidate" ->
                  IF next.spent >= s.policy.retryLimit
                    THEN Place(c, k, Ends(Retain(s, next, c, k, BudgetSpent), BudgetSpent.is, BudgetSpent.why))
                    ELSE Place(c, k + 1, [next EXCEPT !.spent = @ + 1])
    BY <1>5 DEF PreviewTurn
  <2>5. /\ Within(s, next) /\ FinalLast(next, d.is)
        /\ d.is \notin LabFinal => OpenCourse(s, next)
        /\ next.status = "pending"
    <3> HIDE DEF o
    <3> QED BY <1>1, <1>5, <2>1, <2>2, AttemptedWithin
  <2> HIDE DEF y, next, d
  <2>6. d.is \in LabIs /\ d.why \in LabWhys BY <2>3 DEF LabDecisions
  <2>7. CASE d.is = "accepted"
    <3>1. y = Place(c, k, Selects(next, c, o)) BY <2>4, <2>7
    <3>2. EndedCourse(s, Selects(next, c, o)) BY <2>1, <2>3, <2>5, <2>7, SelectsFits
    <3> QED BY <3>1, <3>2 DEF LabComes, y
  <2>8. CASE d.is \in {"requires_user_input", "terminal"}
    <3>1. y = Place(c, k, Ends(next, d.is, d.why)) BY <2>4, <2>8
    <3>2. EndedCourse(s, Ends(next, d.is, d.why))
      <4>1. d.is \in LabStatuses \ {"pending", "accepted"} BY <2>8 DEF LabStatuses
      <4> QED BY <2>5, <2>6, <4>1, EndsSound
    <3> QED BY <3>1, <3>2 DEF LabComes, y
  <2>9. CASE d.is \in {"try_next_candidate", "quality_rejected"}
    <3>1. y = Place(c + 1, 1, next) BY <2>4, <2>9
    <3>2. OpenCourse(s, next) BY <2>5, <2>9 DEF LabFinal
    <3> QED BY <2>1, <3>1, <3>2 DEF LabComes, y
  <2>10. CASE d.is = "retry_same_candidate" /\ next.spent >= s.policy.retryLimit
    <3> DEFINE q == Retain(s, next, c, k, BudgetSpent)
    <3>1. y = Place(c, k, Ends(q, BudgetSpent.is, BudgetSpent.why)) BY <2>4, <2>10
    <3>2. BudgetSpent \in LabDecisions /\ BudgetSpent.is = "terminal" /\ BudgetSpent.why \in LabWhys
      BY DEF BudgetSpent, LabDecisions, LabIs, LabWhys
    <3>3. OpenCourse(s, next) BY <2>5, <2>10 DEF LabFinal
    <3>4. Within(s, q) /\ FinalLast(q, "terminal")
      <4>1. c \in Nat OBVIOUS
      <4>2. Within(s, next) /\ \A i \in DOMAIN next.evidence : next.evidence[i].is \notin LabFinal
        BY <3>3 DEF OpenCourse
      <4> HIDE DEF c, k
      <4>3. Within(s, q) /\ FinalLast(q, BudgetSpent.is)
        BY <1>1, <2>1, <3>2, <4>1, <4>2, RetainWithin
      <4> QED BY <3>2, <4>3
    <3>5. "terminal" \in LabStatuses \ {"pending", "accepted"} BY DEF LabStatuses
    <3> HIDE DEF q
    <3>6. EndedCourse(s, Ends(q, BudgetSpent.is, BudgetSpent.why)) BY <3>2, <3>4, <3>5, EndsSound
    <3> QED BY <3>1, <3>6 DEF LabComes, y
  <2>11. CASE d.is = "retry_same_candidate" /\ ~(next.spent >= s.policy.retryLimit)
    <3>1. y = Place(c, k + 1, [next EXCEPT !.spent = @ + 1]) BY <2>4, <2>11
    <3>2. OpenCourse(s, next) BY <2>5, <2>11 DEF LabFinal
    <3>3. next.spent + 1 <= s.policy.retryLimit
      <4>1. next.spent \in Nat /\ s.policy.retryLimit \in Nat
        BY <1>1, <2>5 DEF Within, LabCourses, LabLimits
      <4> QED BY <2>11, <4>1
    <3>4. OpenCourse(s, [next EXCEPT !.spent = @ + 1]) BY <3>2, <3>3, RetryOpen
    <3> QED BY <2>1, <3>1, <3>4 DEF LabComes, y
  <2> QED BY <2>6, <2>7, <2>8, <2>9, <2>10, <2>11 DEF LabIs, y
<1> QED BY <1>2, <1>3, <1>4, <1>5

\* So does a turn of the run.
LEMMA RunComes ==
  ASSUME NEW s, ValidScenario(s), NEW x, OpenCourse(s, x.course), x.c \in Nat \ {0}, x.k \in Nat \ {0}
  PROVE  LabComes(s, x.c, x.k, RunTurn(s, x))
<1> DEFINE c == x.c
           k == x.k
           outcomes == s.candidates[c].outcomes
           j == IF k <= Len(outcomes) THEN k ELSE Len(outcomes)
           o == s.candidates[c].outcomes[j]
           d == DecisionOn(o, s.policy)
           next == Attempted(s, x.course, c, k, o)
           y == RunTurn(s, x)
<1>1. LabLimits(s) /\ ValidPolicy(s.policy) BY LimitsOfLab DEF ValidScenario
<1>2. CASE c > Len(s.candidates)
  <2>1. y = Place(c, k, Ends(x.course, "exhausted", "none")) BY <1>2 DEF RunTurn
  <2> QED BY <2>1, ExhaustedEnded DEF LabComes
<1>3. CASE ~(c > Len(s.candidates)) /\ Overruns(s, x.course, c)
  <2>1. y = Place(c, k, CutShort(s, x.course, c, k)) BY <1>3 DEF RunTurn
  <2> QED BY <1>1, <2>1, CutShortFits DEF LabComes
<1>4. CASE ~(c > Len(s.candidates)) /\ ~Overruns(s, x.course, c)
  <2>1. /\ c \in 1..Len(s.candidates) /\ k \in Nat /\ j \in 1..Len(s.candidates[c].outcomes)
        /\ Len(s.candidates[c].outcomes) \in 1..MaxLabOutcomes /\ Len(s.candidates) \in Nat
        /\ c <= Len(s.candidates)
    <3>1. c \in 1..Len(s.candidates) /\ Len(s.candidates) \in Nat /\ c <= Len(s.candidates)
      BY <1>1, <1>4 DEF LabLimits
    <3>2. Len(s.candidates[c].outcomes) \in 1..8 BY <1>1, <3>1 DEF LabLimits, MaxLabOutcomes
    <3>3. j \in 1..Len(s.candidates[c].outcomes)
      <4> DEFINE m == Len(s.candidates[c].outcomes)
      <4>1. k \in Nat /\ k # 0 /\ m \in 1..8 /\ j = IF k <= m THEN k ELSE m BY <3>2
      <4> HIDE DEF k, m, j
      <4>2. j \in 1..m BY <4>1
      <4> QED BY <4>2 DEF m
    <3> QED BY <3>1, <3>2, <3>3 DEF MaxLabOutcomes
  <2>2. ValidOutcome(o) BY <1>1, <2>1 DEF LabLimits
  <2>3. /\ d \in LabDecisions
        /\ d.is = "accepted" => Recommended(s, o)
    BY <1>1, <2>2, DecisionKinds
  <2>4. y = CASE d.is = "accepted" -> Place(c, k, Selects(next, c, o))
             [] d.is \in {"requires_user_input", "terminal"} -> Place(c, k, Ends(next, d.is, d.why))
             [] d.is = "retry_same_candidate" /\ ~LastAttempt(s, k) ->
                  IF next.spent + 1 > s.policy.retryLimit THEN Place(c, k, Ends(next, "thrown", "none"))
                  ELSE Place(c, k + 1, [next EXCEPT !.spent = @ + 1])
             [] OTHER -> Place(c + 1, 1, next)
    BY <1>4 DEF RunTurn
  <2>5. /\ Within(s, next) /\ FinalLast(next, d.is)
        /\ d.is \notin LabFinal => OpenCourse(s, next)
        /\ next.status = "pending"
    <3> HIDE DEF o
    <3> QED BY <1>1, <1>4, <2>1, <2>2, AttemptedWithin
  <2> HIDE DEF y, next, d
  <2>6. d.is \in LabIs /\ d.why \in LabWhys BY <2>3 DEF LabDecisions
  <2>7. CASE d.is = "accepted"
    <3>1. y = Place(c, k, Selects(next, c, o)) BY <2>4, <2>7
    <3>2. EndedCourse(s, Selects(next, c, o))
      <4> HIDE DEF j
      <4> QED BY <2>1, <2>3, <2>5, <2>7, SelectsFits
    <3> QED BY <3>1, <3>2 DEF LabComes, y
  <2>8. CASE d.is \in {"requires_user_input", "terminal"}
    <3>1. y = Place(c, k, Ends(next, d.is, d.why)) BY <2>4, <2>8
    <3>2. EndedCourse(s, Ends(next, d.is, d.why))
      <4>1. d.is \in LabStatuses \ {"pending", "accepted"} BY <2>8 DEF LabStatuses
      <4> QED BY <2>5, <2>6, <4>1, EndsSound
    <3> QED BY <3>1, <3>2 DEF LabComes, y
  <2>9. CASE d.is \in {"try_next_candidate", "quality_rejected"} \/ (d.is = "retry_same_candidate" /\ LastAttempt(s, k))
    <3>1. y = Place(c + 1, 1, next) BY <2>4, <2>9
    <3>2. OpenCourse(s, next) BY <2>5, <2>9 DEF LabFinal
    <3> QED BY <2>1, <3>1, <3>2 DEF LabComes, y
  <2>10. CASE d.is = "retry_same_candidate" /\ ~LastAttempt(s, k) /\ next.spent + 1 > s.policy.retryLimit
    <3>1. y = Place(c, k, Ends(next, "thrown", "none")) BY <2>4, <2>10
    <3>2. OpenCourse(s, next) BY <2>5, <2>10 DEF LabFinal
    <3>3. FinalLast(next, "thrown") BY <3>2 DEF OpenCourse, FinalLast
    <3>4. "thrown" \in LabStatuses \ {"pending", "accepted"} /\ "none" \in LabWhys BY DEF LabStatuses, LabWhys
    <3>5. EndedCourse(s, Ends(next, "thrown", "none")) BY <2>5, <3>3, <3>4, EndsSound
    <3> QED BY <3>1, <3>5 DEF LabComes, y
  <2>11. CASE d.is = "retry_same_candidate" /\ ~LastAttempt(s, k) /\ ~(next.spent + 1 > s.policy.retryLimit)
    <3>1. y = Place(c, k + 1, [next EXCEPT !.spent = @ + 1]) BY <2>4, <2>11
    <3>2. OpenCourse(s, next) BY <2>5, <2>11 DEF LabFinal
    <3>3. next.spent + 1 <= s.policy.retryLimit
      <4>1. next.spent \in Nat /\ s.policy.retryLimit \in Nat
        BY <1>1, <2>5 DEF Within, LabCourses, LabLimits
      <4> QED BY <2>11, <4>1
    <3>4. OpenCourse(s, [next EXCEPT !.spent = @ + 1]) BY <3>2, <3>3, RetryOpen
    <3>5. k <= MaxLabOutcomes
      <4>1. s.policy.retryLimit \in 0..4 BY <1>1 DEF ValidPolicy, MaxLabRetries
      <4> QED BY <2>1, <2>11, <4>1 DEF LastAttempt, MaxLabOutcomes
    <3> QED BY <2>1, <3>1, <3>4, <3>5 DEF LabComes, y
  <2> QED BY <2>6, <2>7, <2>8, <2>9, <2>10, <2>11 DEF LabIs, y
<1> QED BY <1>2, <1>3, <1>4

\* The places of the first m turns.
PlacesUpTo(f, by, s, m) ==
  f = [n \in 0..m |-> IF n = 0 THEN Place(1, 1, NoCourse) ELSE Turn(by, s, f[n - 1])]

\* There is a place after every turn.
LEMMA PlacesDefined ==
  ASSUME NEW by, NEW s, MostTurns(s) \in Nat
  PROVE  PlacesUpTo(Places(by, s), by, s, MostTurns(s))
<1> DEFINE T == {m \in Nat : \E f : PlacesUpTo(f, by, s, m)}
<1>1. 0 \in T
  <2> DEFINE f == [n \in 0..0 |-> Place(1, 1, NoCourse)]
  <2>1. \A n \in 0..0 : n = 0 OBVIOUS
  <2>2. PlacesUpTo(f, by, s, 0) BY <2>1 DEF PlacesUpTo
  <2> QED BY <2>2
<1>2. ASSUME NEW m \in T PROVE m + 1 \in T
  <2>1. m \in Nat /\ m + 1 \in Nat OBVIOUS
  <2>2. PICK g : PlacesUpTo(g, by, s, m) OBVIOUS
  <2> DEFINE f == [n \in 0..(m + 1) |-> IF n = m + 1 THEN Turn(by, s, g[m]) ELSE g[n]]
  <2>3. \A n \in 0..m : g[n] = IF n = 0 THEN Place(1, 1, NoCourse) ELSE Turn(by, s, g[n - 1])
    BY <2>2 DEF PlacesUpTo
  <2>4. \A n \in 0..m : f[n] = g[n]
    <3> TAKE n \in 0..m
    <3>1. n \in 0..(m + 1) /\ n # m + 1 BY <2>1
    <3> QED BY <3>1
  <2>5. f[m + 1] = Turn(by, s, g[m])
    <3>1. m + 1 \in 0..(m + 1) BY <2>1
    <3> QED BY <3>1
  <2>6. f = [n \in 0..(m + 1) |-> f[n]] OBVIOUS
  <2> HIDE DEF f
  <2>7. ASSUME NEW n \in 0..(m + 1)
        PROVE  f[n] = IF n = 0 THEN Place(1, 1, NoCourse) ELSE Turn(by, s, f[n - 1])
    <3>1. CASE n \in 0..m
      <4>1. n # 0 => n - 1 \in 0..m BY <2>1, <3>1
      <4> QED BY <2>3, <2>4, <3>1, <4>1
    <3>2. CASE n = m + 1
      <4>1. n # 0 /\ n - 1 = m /\ m \in 0..m BY <2>1, <3>2
      <4> QED BY <2>4, <2>5, <3>2, <4>1
    <3>3. n \in 0..m \/ n = m + 1 BY <2>1
    <3> QED BY <3>1, <3>2, <3>3
  <2>8. PlacesUpTo(f, by, s, m + 1) BY <2>6, <2>7 DEF PlacesUpTo
  <2> QED BY <2>1, <2>8
<1>3. T = Nat
  <2> HIDE DEF T
  <2>1. T \subseteq Nat BY DEF T
  <2> QED BY <1>1, <1>2, <2>1, AllNat
<1>4. \E f : PlacesUpTo(f, by, s, MostTurns(s)) BY <1>3
<1> QED BY <1>4 DEF Places, PlacesUpTo

\* A place that is reached: its course is open or ended, and while it is open every
\* turn has led on, to another attempt or another candidate.
Reached(s, x, n) ==
  /\ x = Place(x.c, x.k, x.course)
  /\ x.c \in 1..(Len(s.candidates) + 1) /\ x.k \in 1..(MaxLabOutcomes + 1)
  /\ x.c > Len(s.candidates) => x.k = 1
  /\ IF x.course.status = "pending"
       THEN OpenCourse(s, x.course) /\ n <= (x.c - 1) * (MaxLabOutcomes + 1) + x.k - 1
       ELSE EndedCourse(s, x.course)

\* The arithmetic of the turns: at most nine for a candidate.
LEMMA TurnNumbers ==
  ASSUME NEW L \in Nat, NEW n \in Nat, NEW c \in 1..(L + 1), NEW k \in 1..9
  PROVE  /\ c <= L /\ n <= (c - 1) * 9 + k - 1 =>
              c + 1 \in 1..(L + 1) /\ n + 1 <= ((c + 1) - 1) * 9 + 1 - 1
         /\ c <= L /\ k <= 8 /\ n <= (c - 1) * 9 + k - 1 =>
              k + 1 \in 1..9 /\ ~(c > L) /\ n + 1 <= (c - 1) * 9 + (k + 1) - 1
         /\ (c > L => k = 1) => ~(L * 9 + 1 <= (c - 1) * 9 + k - 1)
<1>1. c \in Nat /\ k \in Nat /\ 1 <= c /\ c <= L + 1 /\ 1 <= k /\ k <= 9 OBVIOUS
<1>2. (c > L => k = 1) => ~(L * 9 + 1 <= (c - 1) * 9 + k - 1)
  <2>1. CASE c > L
    <3>1. c = L + 1 BY <1>1, <2>1
    <3> QED BY <1>1, <3>1
  <2>2. CASE ~(c > L)
    <3>1. c - 1 <= L - 1 BY <1>1, <2>2
    <3> QED BY <1>1, <3>1
  <2> QED BY <2>1, <2>2
<1> QED BY <1>1, <1>2

\* A turn goes on, or the course has ended.
LEMMA TurnReached ==
  ASSUME NEW s, ValidScenario(s), NEW by \in {"preview", "run"}, NEW x, NEW n \in Nat, Reached(s, x, n)
  PROVE  Reached(s, Turn(by, s, x), n + 1)
<1> DEFINE y == Turn(by, s, x)
<1>1. Len(s.candidates) \in Nat BY LimitsOfLab DEF LabLimits
<1>2. /\ x.c \in 1..(Len(s.candidates) + 1) /\ x.k \in 1..9
      /\ x.c > Len(s.candidates) => x.k = 1
      /\ x.c \in Nat \ {0} /\ x.k \in Nat \ {0}
  BY <1>1 DEF Reached, MaxLabOutcomes
<1>3. CASE x.course.status # "pending"
  <2>1. y = x BY <1>3 DEF Turn
  <2> QED BY <1>3, <2>1 DEF Reached
<1>4. CASE x.course.status = "pending"
  <2>1. OpenCourse(s, x.course) /\ n <= (x.c - 1) * 9 + x.k - 1 BY <1>4 DEF Reached, MaxLabOutcomes
  <2>2. LabComes(s, x.c, x.k, y)
    <3>1. y = PreviewTurn(s, x) \/ y = RunTurn(s, x) BY <1>4 DEF Turn
    <3> QED BY <1>2, <2>1, <3>1, PreviewComes, RunComes
  <2> HIDE DEF y
  <2>3. CASE \E q : EndedCourse(s, q) /\ y = Place(x.c, x.k, q)
    <3>1. PICK q : EndedCourse(s, q) /\ y = Place(x.c, x.k, q) BY <2>3
    <3>2. y.c = x.c /\ y.k = x.k /\ y.course = q BY <3>1 DEF Place
    <3>3. q.status # "pending" BY <3>1 DEF EndedCourse, Sound
    <3> QED BY <1>2, <3>1, <3>2, <3>3 DEF Reached, MaxLabOutcomes, y
  <2>4. CASE x.c <= Len(s.candidates) /\ \E q : OpenCourse(s, q) /\ y = Place(x.c + 1, 1, q)
    <3>1. PICK q : OpenCourse(s, q) /\ y = Place(x.c + 1, 1, q) BY <2>4
    <3>2. y.c = x.c + 1 /\ y.k = 1 /\ y.course = q BY <3>1 DEF Place
    <3>3. q.status = "pending" BY <3>1 DEF OpenCourse
    <3>4. /\ y.c \in 1..(Len(s.candidates) + 1) /\ y.k \in 1..9 /\ y.k = 1
          /\ n + 1 <= (y.c - 1) * 9 + y.k - 1
      <4>1. /\ x.c + 1 \in 1..(Len(s.candidates) + 1)
            /\ n + 1 <= ((x.c + 1) - 1) * 9 + 1 - 1
        BY <1>1, <1>2, <2>1, <2>4, TurnNumbers
      <4> QED BY <3>2, <4>1
    <3> QED BY <3>1, <3>2, <3>3, <3>4 DEF Reached, MaxLabOutcomes, y
  <2>5. CASE x.c <= Len(s.candidates) /\ x.k <= MaxLabOutcomes /\ \E q : OpenCourse(s, q) /\ y = Place(x.c, x.k + 1, q)
    <3>1. PICK q : OpenCourse(s, q) /\ y = Place(x.c, x.k + 1, q) BY <2>5
    <3>2. y.c = x.c /\ y.k = x.k + 1 /\ y.course = q BY <3>1 DEF Place
    <3>3. q.status = "pending" BY <3>1 DEF OpenCourse
    <3>4. /\ y.c \in 1..(Len(s.candidates) + 1) /\ y.k \in 1..9 /\ ~(y.c > Len(s.candidates))
          /\ n + 1 <= (y.c - 1) * 9 + y.k - 1
      <4>1. x.k <= 8 BY <2>5 DEF MaxLabOutcomes
      <4>2. /\ x.k + 1 \in 1..9 /\ ~(x.c > Len(s.candidates))
            /\ n + 1 <= (x.c - 1) * 9 + (x.k + 1) - 1
        BY <1>1, <1>2, <2>1, <2>5, <4>1, TurnNumbers
      <4> QED BY <1>2, <3>2, <4>2
    <3> QED BY <3>1, <3>2, <3>3, <3>4 DEF Reached, MaxLabOutcomes, y
  <2> QED BY <2>2, <2>3, <2>4, <2>5 DEF LabComes
<1> QED BY <1>3, <1>4

\* The first place: nothing is spent.
LEMMA FirstReached == ASSUME NEW s, ValidScenario(s) PROVE Reached(s, Place(1, 1, NoCourse), 0)
<1>1. LabLimits(s) BY LimitsOfLab
<1>2. Len(s.candidates) \in Nat /\ 1 <= Len(s.candidates)
  <2>1. Len(s.candidates) \in 1..12 BY DEF ValidScenario, MaxLabCandidates
  <2> QED BY <2>1
<1>3. /\ NoCourse.elapsed = 0 /\ NoCourse.spent = 0 /\ NoCourse.evidence = <<>> /\ NoCourse.dropped = 0
      /\ NoCourse.status = "pending"
  BY DEF NoCourse
<1>4. NoCourse \in LabCourses(s)
  BY DEF NoCourse, LabCourses, LabStatuses, LabWhys, LabActions
<1>5. OpenCourse(s, NoCourse) BY <1>1, <1>3, <1>4 DEF OpenCourse, Within, LabLimits
<1>6. /\ Place(1, 1, NoCourse).c = 1 /\ Place(1, 1, NoCourse).k = 1
      /\ Place(1, 1, NoCourse).course = NoCourse
  BY DEF Place
<1>7. /\ 1 \in 1..(Len(s.candidates) + 1) /\ 1 \in 1..9 /\ 0 <= (1 - 1) * 9 + 1 - 1 BY <1>2
<1> QED BY <1>3, <1>5, <1>6, <1>7 DEF Reached, MaxLabOutcomes

\* Every place is reached, and the last one has a course that ended.
LEMMA AllReached ==
  ASSUME NEW s, ValidScenario(s), NEW by \in {"preview", "run"}
  PROVE  /\ MostTurns(s) \in Nat
         /\ PlacesUpTo(Places(by, s), by, s, MostTurns(s))
         /\ \A n \in 0..MostTurns(s) : Reached(s, Places(by, s)[n], n)
         /\ EndedCourse(s, Places(by, s)[MostTurns(s)].course)
<1> DEFINE N == MostTurns(s)
           at == Places(by, s)
<1>1. Len(s.candidates) \in Nat /\ N = Len(s.candidates) * 9 + 1 /\ N \in Nat
  BY LimitsOfLab DEF LabLimits, MostTurns, MaxLabOutcomes
<1>2. PlacesUpTo(at, by, s, N) BY <1>1, PlacesDefined
<1> HIDE DEF N, at
<1>3. \A n \in 0..N : at[n] = IF n = 0 THEN Place(1, 1, NoCourse) ELSE Turn(by, s, at[n - 1])
  BY <1>2 DEF PlacesUpTo
<1> DEFINE T == {n \in 0..N : Reached(s, at[n], n)}
<1>4. ASSUME NEW n \in 0..N, \A m \in 0..N : m < n => m \in T PROVE n \in T
  <2>1. CASE n = 0 BY <1>3, <2>1, FirstReached
  <2>2. CASE n # 0
    <3>1. n - 1 \in 0..N /\ n - 1 < n /\ (n - 1) + 1 = n /\ n - 1 \in Nat BY <1>1, <2>2
    <3>2. Reached(s, at[n - 1], n - 1) BY <1>4, <3>1
    <3>3. Reached(s, Turn(by, s, at[n - 1]), n) BY <3>1, <3>2, TurnReached
    <3> QED BY <1>3, <2>2, <3>3
  <2> QED BY <2>1, <2>2
<1>5. \A n \in 0..N : n \in T
  <2> HIDE DEF T
  <2> QED BY <1>1, <1>4, UpTo
<1>6. \A n \in 0..N : Reached(s, at[n], n) BY <1>5
<1>7. EndedCourse(s, at[N].course)
  <2> DEFINE x == at[N]
  <2>1. Reached(s, x, N) BY <1>1, <1>6
  <2> HIDE DEF x
  <2>2. /\ x.c \in 1..(Len(s.candidates) + 1) /\ x.k \in 1..9
        /\ x.c > Len(s.candidates) => x.k = 1
        /\ x.course.status = "pending" => N <= (x.c - 1) * 9 + x.k - 1
        /\ x.course.status # "pending" => EndedCourse(s, x.course)
    BY <2>1 DEF Reached, MaxLabOutcomes
  <2>3. ~(N <= (x.c - 1) * 9 + x.k - 1)
    BY <1>1, <2>2, TurnNumbers
  <2> QED BY <2>2, <2>3 DEF x
<1> QED BY <1>1, <1>2, <1>6, <1>7 DEF N, at

\* Where the retries of a scenario are foreseen: an open course has spent no more than
\* the transient failures it has passed, and stands before an outcome of its candidate.
Passed(s, c, k) ==
  {a \in LabAttempts(s) : Transient(s, a) /\ (a[1] < c \/ (a[1] = c /\ a[2] < k))}
Foreseen(s, x) ==
  x.course.status = "pending" =>
    /\ x.course.spent <= Cardinality(Passed(s, x.c, x.k))
    /\ x.c <= Len(s.candidates) =>
         x.k <= Len(s.candidates[x.c].outcomes) /\ x.k - 1 <= x.course.spent

\* The transient failures that are passed are finitely many, and one more after each,
\* within the limit.
LEMMA PassedMore ==
  ASSUME NEW s, ValidScenario(s), RetriesForeseen(s), NEW c \in 1..Len(s.candidates),
         NEW k \in 1..Len(s.candidates[c].outcomes)
  PROVE  /\ Cardinality(Passed(s, c, k)) \in Nat
         /\ Cardinality(Passed(s, c + 1, 1)) \in Nat
         /\ Cardinality(Passed(s, c, k)) <= Cardinality(Passed(s, c + 1, 1))
         /\ Transient(s, <<c, k>>) =>
              /\ Cardinality(Passed(s, c, k + 1)) = Cardinality(Passed(s, c, k)) + 1
              /\ Cardinality(Passed(s, c, k)) + 1 <= s.policy.retryLimit
<1> DEFINE All == {a \in LabAttempts(s) : Transient(s, a)}
           P == Passed(s, c, k)
           a == <<c, k>>
<1>1. Len(s.candidates) \in Nat /\ Len(s.candidates[c].outcomes) \in 1..8
  BY LimitsOfLab DEF LabLimits, MaxLabOutcomes
<1>2. IsFiniteSet((1..Len(s.candidates)) \X (1..MaxLabOutcomes))
  <2>1. IsFiniteSet(1..Len(s.candidates)) BY <1>1, FS_Interval
  <2>2. IsFiniteSet(1..8)
    <3>1. 1 \in Int /\ 8 \in Int OBVIOUS
    <3>2. \A m, n \in Int : IsFiniteSet(m..n) BY FS_Interval
    <3> QED BY <3>1, <3>2
  <2>3. IsFiniteSet(1..MaxLabOutcomes) BY <2>2 DEF MaxLabOutcomes
  <2> QED BY <2>1, <2>3, FS_Product
<1>3. All \subseteq (1..Len(s.candidates)) \X (1..MaxLabOutcomes) BY DEF LabAttempts
<1>4. IsFiniteSet(All) BY <1>2, <1>3, FS_Subset
<1>5. \A b, j : Passed(s, b, j) \subseteq All BY DEF Passed
<1>6. \A b, j : IsFiniteSet(Passed(s, b, j)) /\ Cardinality(Passed(s, b, j)) \in Nat
  BY <1>4, <1>5, FS_Subset, FS_CardinalityType
<1>7. c \in Nat /\ k \in Nat /\ k <= 8 /\ k <= Len(s.candidates[c].outcomes) /\ k \in 1..8
  <2> DEFINE m == Len(s.candidates[c].outcomes)
  <2>1. m \in 1..8 /\ k \in 1..m /\ Len(s.candidates) \in Nat /\ c \in 1..Len(s.candidates) BY <1>1
  <2> HIDE DEF m
  <2>2. c \in Nat /\ k \in Nat /\ k <= 8 /\ k <= m /\ k \in 1..8 BY <2>1
  <2> QED BY <2>2 DEF m
<1>8. a \in LabAttempts(s) BY <1>7 DEF LabAttempts, MaxLabOutcomes
<1>9. \A b \in All : b[1] \in Nat /\ b[2] \in Nat /\ b = <<b[1], b[2]>>
  <2>1. \A b \in All : b \in (1..Len(s.candidates)) \X (1..MaxLabOutcomes) BY <1>3
  <2>2. \A b \in (1..Len(s.candidates)) \X (1..MaxLabOutcomes) :
          b[1] \in Nat /\ b[2] \in Nat /\ b = <<b[1], b[2]>>
    BY DEF MaxLabOutcomes
  <2> QED BY <2>1, <2>2
<1>10. P \subseteq Passed(s, c + 1, 1)
  <2>1. \A b \in P : b \in All /\ (b[1] < c \/ b[1] = c) BY DEF Passed
  <2>2. ASSUME NEW b \in P PROVE b[1] < c + 1
    <3>1. c \in Nat /\ b[1] \in Nat /\ (b[1] < c \/ b[1] = c) BY <1>7, <1>9, <2>1
    <3> QED BY <3>1
  <2> QED BY <2>1, <2>2 DEF Passed
<1>11. Cardinality(P) <= Cardinality(Passed(s, c + 1, 1)) BY <1>6, <1>10, FS_Subset
<1>12. ASSUME Transient(s, a)
       PROVE  /\ Cardinality(Passed(s, c, k + 1)) = Cardinality(P) + 1
              /\ Cardinality(P) + 1 <= s.policy.retryLimit
  <2>1. a \in All BY <1>8, <1>12
  <2>2. a \notin P BY <1>7 DEF Passed
  <2>3. Passed(s, c, k + 1) = P \cup {a}
    <3>1. ASSUME NEW b \in All
          PROVE  (b[1] < c \/ (b[1] = c /\ b[2] < k + 1)) <=> (b[1] < c \/ (b[1] = c /\ b[2] < k)) \/ b = a
      <4>1. b[2] < k + 1 <=> b[2] < k \/ b[2] = k BY <1>7, <1>9
      <4>2. b = a <=> b[1] = c /\ b[2] = k BY <1>9
      <4>3. c \in Nat /\ ~(c < c) BY <1>7
      <4> HIDE DEF a, All
      <4> QED BY <4>1, <4>2, <4>3
    <3>2. \A b, j : Passed(s, b, j) = {d \in All : d[1] < b \/ (d[1] = b /\ d[2] < j)} BY DEF Passed
    <3> HIDE DEF All, a
    <3> QED BY <2>1, <3>1, <3>2
  <2>4. Cardinality(P \cup {a}) = Cardinality(P) + 1
    <3> HIDE DEF P, a
    <3> QED BY <1>6, <2>2, FS_AddElement DEF P
  <2>5. P \cup {a} \subseteq All BY <1>5, <2>1
  <2>6. Cardinality(P \cup {a}) <= Cardinality(All) BY <1>4, <2>5, FS_Subset
  <2>7. Cardinality(All) <= s.policy.retryLimit BY DEF RetriesForeseen
  <2>8. Cardinality(All) \in Nat /\ s.policy.retryLimit \in Nat BY <1>4, FS_CardinalityType, LimitsOfLab DEF LabLimits
  <2>9. Cardinality(P) \in Nat BY <1>6
  <2>10. Cardinality(Passed(s, c, k + 1)) = Cardinality(P) + 1 BY <2>3, <2>4
  <2> HIDE DEF P, a, All
  <2>11. Cardinality(P) + 1 <= Cardinality(All) BY <2>4, <2>6
  <2>12. Cardinality(P) + 1 <= s.policy.retryLimit BY <2>7, <2>8, <2>9, <2>11
  <2> QED BY <2>10, <2>12
<1> QED BY <1>6, <1>11, <1>12

\* A turn of the preview is one of the run, and the retries stay foreseen.
LEMMA TurnForeseen ==
  ASSUME NEW s, ValidScenario(s), RetriesForeseen(s), NEW x, NEW n \in Nat, Reached(s, x, n), Foreseen(s, x)
  PROVE  Turn("preview", s, x) = Turn("run", s, x) /\ Foreseen(s, Turn("preview", s, x))
<1>1. LabLimits(s) /\ ValidPolicy(s.policy) BY LimitsOfLab DEF ValidScenario
<1>2. CASE x.course.status # "pending" BY <1>2 DEF Turn
<1>3. CASE x.course.status = "pending"
  <2> DEFINE c == x.c
             k == x.k
             o == s.candidates[c].outcomes[k]
             d == DecisionOn(o, s.policy)
             next == Attempted(s, x.course, c, k, o)
             y == PreviewTurn(s, x)
  <2>1. Turn("preview", s, x) = y /\ Turn("run", s, x) = RunTurn(s, x) BY <1>3 DEF Turn
  <2>2. /\ OpenCourse(s, x.course) /\ x.course.spent \in Nat
        /\ x.course.spent <= Cardinality(Passed(s, c, k))
        /\ c <= Len(s.candidates) => k <= Len(s.candidates[c].outcomes) /\ k - 1 <= x.course.spent
    BY <1>3 DEF Reached, Foreseen, OpenCourse, Within, LabCourses
  <2>3. c \in 1..(Len(s.candidates) + 1) /\ k \in 1..9 /\ Len(s.candidates) \in Nat
    BY <1>1 DEF Reached, LabLimits, MaxLabOutcomes
  <2>4. CASE c > Len(s.candidates)
    <3>1. y = Place(c, k, Ends(x.course, "exhausted", "none")) /\ RunTurn(s, x) = y
      BY <2>4 DEF PreviewTurn, RunTurn
    <3>2. EndedCourse(s, Ends(x.course, "exhausted", "none")) BY <2>2, ExhaustedEnded
    <3>3. y.course.status # "pending" BY <3>1, <3>2 DEF EndedCourse, Sound, Place
    <3> QED BY <2>1, <3>1, <3>3 DEF Foreseen
  <2>5. CASE ~(c > Len(s.candidates))
    <3>1. /\ c \in 1..Len(s.candidates) /\ k \in 1..Len(s.candidates[c].outcomes)
          /\ ~(k > Len(s.candidates[c].outcomes)) /\ k <= Len(s.candidates[c].outcomes)
          /\ Len(s.candidates[c].outcomes) \in 1..8
      <4>1. c \in 1..Len(s.candidates) BY <2>3, <2>5
      <4>2. Len(s.candidates[c].outcomes) \in 1..8 BY <1>1, <4>1 DEF LabLimits, MaxLabOutcomes
      <4>3. k <= Len(s.candidates[c].outcomes) BY <2>2, <2>3, <4>1
      <4> DEFINE m == Len(s.candidates[c].outcomes)
      <4>4. m \in 1..8 /\ k <= m /\ k \in 1..9 BY <2>3, <4>2, <4>3
      <4> HIDE DEF m, k
      <4>5. k \in 1..m /\ ~(k > m) BY <4>4
      <4> QED BY <4>1, <4>2, <4>3, <4>5 DEF m
    <3>2. CASE Overruns(s, x.course, c)
      <4>1. y = Place(c, k, CutShort(s, x.course, c, k)) /\ RunTurn(s, x) = y
        BY <2>5, <3>1, <3>2 DEF PreviewTurn, RunTurn
      <4>2. EndedCourse(s, CutShort(s, x.course, c, k)) BY <1>1, <2>2, <2>3, CutShortFits
      <4> DEFINE q == CutShort(s, x.course, c, k)
      <4>3. y = Place(c, k, q) /\ EndedCourse(s, q) BY <4>1, <4>2
      <4> HIDE DEF q, y
      <4>4. y.course = q BY <4>3 DEF Place
      <4>5. q.status # "pending" BY <4>3 DEF EndedCourse, Sound
      <4>6. y.course.status # "pending" BY <4>4, <4>5
      <4> QED BY <2>1, <4>1, <4>6 DEF Foreseen, y
    <3>3. CASE ~Overruns(s, x.course, c)
      <4>1. ValidOutcome(o) BY <1>1, <3>1 DEF LabLimits
      <4>2. /\ d \in LabDecisions
            /\ d.is = "retry_same_candidate" <=> Transient(s, <<c, k>>)
        BY <1>1, <4>1, DecisionKinds DEF Transient
      <4>3. y = CASE d.is = "accepted" -> Place(c, k, Selects(next, c, o))
             [] d.is \in {"requires_user_input", "terminal"} -> Place(c, k, Ends(next, d.is, d.why))
             [] d.is \in {"try_next_candidate", "quality_rejected"} -> Place(c + 1, 1, next)
             [] d.is = "retry_same_candidate" ->
                  IF next.spent >= s.policy.retryLimit
                    THEN Place(c, k, Ends(Retain(s, next, c, k, BudgetSpent), BudgetSpent.is, BudgetSpent.why))
                    ELSE Place(c, k + 1, [next EXCEPT !.spent = @ + 1])
        BY <2>5, <3>1, <3>3 DEF PreviewTurn
      <4>4. RunTurn(s, x) =
             CASE d.is = "accepted" -> Place(c, k, Selects(next, c, o))
             [] d.is \in {"requires_user_input", "terminal"} -> Place(c, k, Ends(next, d.is, d.why))
             [] d.is = "retry_same_candidate" /\ ~LastAttempt(s, k) ->
                  IF next.spent + 1 > s.policy.retryLimit THEN Place(c, k, Ends(next, "thrown", "none"))
                  ELSE Place(c, k + 1, [next EXCEPT !.spent = @ + 1])
             [] OTHER -> Place(c + 1, 1, next)
        BY <2>5, <3>1, <3>3 DEF RunTurn
      <4>5. /\ Within(s, next) /\ next.status = "pending" /\ next.spent = x.course.spent
            /\ d.is \notin LabFinal => OpenCourse(s, next)
        <5>1. k \in Nat BY <2>3
        <5> HIDE DEF o, c, k
        <5> QED BY <1>1, <2>2, <3>1, <3>3, <4>1, <5>1, AttemptedWithin
      <4>6. /\ Cardinality(Passed(s, c, k)) \in Nat /\ Cardinality(Passed(s, c + 1, 1)) \in Nat
            /\ Cardinality(Passed(s, c, k)) <= Cardinality(Passed(s, c + 1, 1))
            /\ Transient(s, <<c, k>>) =>
                 /\ Cardinality(Passed(s, c, k + 1)) = Cardinality(Passed(s, c, k)) + 1
                 /\ Cardinality(Passed(s, c, k)) + 1 <= s.policy.retryLimit
        <5> HIDE DEF c, k
        <5> QED BY <3>1, PassedMore
      <4> HIDE DEF y, next, d, o
      <4>7. d.is \in LabIs /\ s.policy.retryLimit \in Nat BY <1>1, <4>2 DEF LabDecisions, LabLimits
      <4>8. CASE d.is \in LabFinal
        <5>1. y = RunTurn(s, x) BY <4>3, <4>4, <4>8 DEF LabFinal
        <5>2. y.c = c /\ y.k = k /\ y.course.status = d.is
          <6>1. next \in LabCourses(s) BY <4>5 DEF Within
          <6>2. Selects(next, c, o).status = "accepted" BY <6>1 DEF Selects, LabCourses
          <6>3. Ends(next, d.is, d.why).status = d.is BY <6>1 DEF Ends, LabCourses
          <6> QED BY <4>3, <4>8, <6>2, <6>3 DEF LabFinal, Place
        <5>3. d.is # "pending" BY <4>8 DEF LabFinal
        <5> QED BY <2>1, <5>1, <5>2, <5>3 DEF Foreseen, y
      <4>9. CASE d.is \in {"try_next_candidate", "quality_rejected"}
        <5>1. y = Place(c + 1, 1, next) /\ y = RunTurn(s, x) BY <4>3, <4>4, <4>9
        <5>2. y.c = c + 1 /\ y.k = 1 /\ y.course = next BY <5>1 DEF Place
        <5>3. next.spent <= Cardinality(Passed(s, c + 1, 1)) BY <2>2, <4>5, <4>6
        <5>4. c + 1 <= Len(s.candidates) =>
                1 <= Len(s.candidates[c + 1].outcomes) /\ 1 - 1 <= next.spent
          <6>1. ASSUME c + 1 <= Len(s.candidates) PROVE 1 <= Len(s.candidates[c + 1].outcomes)
            <7>1. c + 1 \in 1..Len(s.candidates) BY <2>3, <6>1
            <7>2. Len(s.candidates[c + 1].outcomes) \in 1..8 BY <1>1, <7>1 DEF LabLimits, MaxLabOutcomes
            <7> DEFINE m == Len(s.candidates[c + 1].outcomes)
            <7>3. m \in 1..8 BY <7>2
            <7> HIDE DEF m
            <7>4. 1 <= m BY <7>3
            <7> QED BY <7>4 DEF m
          <6> QED BY <2>2, <4>5, <6>1
        <5> QED BY <2>1, <5>1, <5>2, <5>3, <5>4 DEF Foreseen, y
      <4>10. CASE d.is = "retry_same_candidate"
        <5>1. Transient(s, <<c, k>>) BY <4>2, <4>10
        <5>2. next.spent + 1 <= s.policy.retryLimit /\ k - 1 <= next.spent /\ next.spent \in Nat
          <6> DEFINE r == s.policy.retryLimit
                     e == next.spent
                     n1 == Cardinality(Passed(s, c, k))
          <6>1. e = x.course.spent /\ x.course.spent \in Nat /\ x.course.spent <= n1 BY <2>2, <4>5
          <6>2. c <= Len(s.candidates) BY <2>3, <2>5
          <6>3. k - 1 <= x.course.spent BY <2>2, <6>2
          <6>4. n1 \in Nat /\ n1 + 1 <= r /\ r \in Nat BY <4>6, <4>7, <5>1
          <6> HIDE DEF r, e, n1
          <6>5. e + 1 <= r /\ k - 1 <= e /\ e \in Nat BY <6>1, <6>3, <6>4
          <6> QED BY <6>5 DEF r, e
        <5>3. ~LastAttempt(s, k) /\ ~(next.spent >= s.policy.retryLimit) /\ ~(next.spent + 1 > s.policy.retryLimit)
          <6> DEFINE r == s.policy.retryLimit
                     e == next.spent
          <6>1. e + 1 <= r /\ k - 1 <= e /\ e \in Nat /\ r \in Nat /\ k \in Nat BY <2>3, <4>7, <5>2
          <6> HIDE DEF r, e, k
          <6>2. ~(k >= r + 1) /\ ~(e >= r) /\ ~(e + 1 > r) BY <6>1
          <6> QED BY <6>2 DEF LastAttempt, r, e
        <5> DEFINE q == [next EXCEPT !.spent = @ + 1]
        <5>4. y = Place(c, k + 1, q) /\ y = RunTurn(s, x) BY <4>3, <4>4, <4>10, <5>3
        <5>5. q.spent = next.spent + 1 BY <4>5 DEF Within, LabCourses
        <5> HIDE DEF q
        <5>6. y.c = c /\ y.k = k + 1 /\ y.course = q BY <5>4 DEF Place
        <5>7. q.spent <= Cardinality(Passed(s, c, k + 1)) BY <2>2, <4>5, <4>6, <5>1, <5>2, <5>5
        <5>8. k + 1 <= Len(s.candidates[c].outcomes)
          <6>1. k # Len(s.candidates[c].outcomes) BY <3>1, <5>1 DEF RetriesForeseen
          <6> QED BY <2>3, <3>1, <6>1
        <5>9. (k + 1) - 1 <= q.spent BY <2>3, <5>2, <5>5
        <5> QED BY <2>1, <5>4, <5>6, <5>7, <5>8, <5>9 DEF Foreseen, y
      <4> QED BY <4>7, <4>8, <4>9, <4>10 DEF LabIs, LabFinal
    <3> QED BY <3>2, <3>3
  <2> QED BY <2>4, <2>5
<1> QED BY <1>2, <1>3

\* The preview and the run of such a scenario are at the same place after every turn.
LEMMA SamePlaces ==
  ASSUME NEW s, ValidScenario(s), RetriesForeseen(s)
  PROVE  Preview(s) = RunLab(s)
<1> DEFINE N == MostTurns(s)
           P == Places("preview", s)
           R == Places("run", s)
<1>1. /\ N \in Nat /\ PlacesUpTo(P, "preview", s, N) /\ PlacesUpTo(R, "run", s, N)
      /\ \A n \in 0..N : Reached(s, P[n], n)
  BY AllReached
<1> HIDE DEF N, P, R
<1>2. \A n \in 0..N : /\ P[n] = IF n = 0 THEN Place(1, 1, NoCourse) ELSE Turn("preview", s, P[n - 1])
                      /\ R[n] = IF n = 0 THEN Place(1, 1, NoCourse) ELSE Turn("run", s, R[n - 1])
  BY <1>1 DEF PlacesUpTo
<1> DEFINE T == {n \in 0..N : P[n] = R[n] /\ Foreseen(s, P[n])}
<1>3. Foreseen(s, Place(1, 1, NoCourse))
  <2>1. LabLimits(s) /\ Len(s.candidates) \in 1..12 BY LimitsOfLab DEF ValidScenario, MaxLabCandidates
  <2>2. 1 \in 1..Len(s.candidates) BY <2>1
  <2>3. Len(s.candidates[1].outcomes) \in 1..8 BY <2>1, <2>2 DEF LabLimits, MaxLabOutcomes
  <2>4. 1 \in 1..Len(s.candidates[1].outcomes) /\ 1 <= Len(s.candidates[1].outcomes)
    <3> DEFINE m == Len(s.candidates[1].outcomes)
    <3>1. m \in 1..8 BY <2>3
    <3> HIDE DEF m
    <3>2. 1 \in 1..m /\ 1 <= m BY <3>1
    <3> QED BY <3>2 DEF m
  <2>5. Cardinality(Passed(s, 1, 1)) \in Nat BY <2>2, <2>4, PassedMore
  <2>6. /\ Place(1, 1, NoCourse).c = 1 /\ Place(1, 1, NoCourse).k = 1
        /\ Place(1, 1, NoCourse).course.spent = 0
    BY DEF Place, NoCourse
  <2> DEFINE x == Place(1, 1, NoCourse)
             e == Cardinality(Passed(s, 1, 1))
  <2>7. e \in Nat BY <2>5
  <2>8. x.c = 1 /\ x.k = 1 /\ x.course.spent = 0 BY <2>6
  <2> HIDE DEF x, e
  <2>9. 0 <= e /\ 1 - 1 <= 0 BY <2>7
  <2>10. x.course.spent <= e /\ x.k - 1 <= x.course.spent BY <2>8, <2>9
  <2>11. x.course.spent <= Cardinality(Passed(s, x.c, x.k)) BY <2>8, <2>10 DEF e
  <2>12. Foreseen(s, x) BY <2>4, <2>8, <2>10, <2>11 DEF Foreseen
  <2> QED BY <2>12 DEF x
<1>4. ASSUME NEW n \in 0..N, \A m \in 0..N : m < n => m \in T PROVE n \in T
  <2>1. CASE n = 0 BY <1>2, <1>3, <2>1
  <2>2. CASE n # 0
    <3>1. n - 1 \in 0..N /\ n - 1 < n /\ n - 1 \in Nat BY <1>1, <2>2
    <3>2. P[n - 1] = R[n - 1] /\ Foreseen(s, P[n - 1]) /\ Reached(s, P[n - 1], n - 1)
      BY <1>1, <1>4, <3>1
    <3>3. /\ Turn("preview", s, P[n - 1]) = Turn("run", s, P[n - 1])
          /\ Foreseen(s, Turn("preview", s, P[n - 1]))
      BY <3>1, <3>2, TurnForeseen
    <3> QED BY <1>2, <2>2, <3>2, <3>3
  <2> QED BY <2>1, <2>2
<1>5. \A n \in 0..N : n \in T
  <2> HIDE DEF T
  <2> QED BY <1>1, <1>4, UpTo
<1>6. N \in 0..N BY <1>1
<1>7. P[N] = R[N] BY <1>5, <1>6
<1> QED BY <1>7 DEF Preview, RunLab, N, P, R

\* The preview of every valid scenario is sound, and its run too; where the retries are
\* foreseen they come to the same (preview-engine.mjs, run-scenario.mjs), for scenarios
\* of every size the contract allows.
THEOREM LabsAreTrue == ASSUME NEW inputs PROVE LabInit(inputs) /\ [][UNCHANGED labInput]_labInput => []LabTruth
<1>1. LabTruth
  <2>1. SUFFICES ASSUME ValidScenario(labInput) PROVE LabTruth BY DEF LabTruth
  <2>2. Sound(labInput, Preview(labInput)) /\ Sound(labInput, RunLab(labInput))
    BY <2>1, AllReached DEF Preview, RunLab, EndedCourse
  <2>3. RetriesForeseen(labInput) => Contract(Preview(labInput)) = Contract(RunLab(labInput))
    BY <2>1, SamePlaces
  <2> QED BY <2>2, <2>3 DEF LabTruth
<1> QED BY <1>1, PTL

(***************************************************************************)
(* Imports of public data (PublicData): what an adapter hands on is a valid *)
(* scenario, and its preview accepts the first candidate that is sure.      *)
(***************************************************************************)
Kept == [number : Nat, issue : Issue]

\* What is kept of a list up to a position: issues of the list in their order.
KeptUpTo(kept, n) ==
  /\ kept \in Seq(Kept)
  /\ \A a \in 1..Len(kept) : kept[a].number <= n
  /\ \A a, b \in 1..Len(kept) : a < b => kept[a].number < kept[b].number

\* One issue more.
LEMMA KeptOneMore ==
  ASSUME NEW n \in Nat, NEW kept, KeptUpTo(kept, n), NEW issue \in Issue
  PROVE  KeptUpTo(Append(kept, [number |-> n + 1, issue |-> issue]), n + 1)
<1> DEFINE e == [number |-> n + 1, issue |-> issue]
           more == Append(kept, e)
<1>1. e \in Kept /\ e.number = n + 1 BY DEF Kept
<1> HIDE DEF e
<1>2. kept \in Seq(Kept) /\ Len(kept) \in Nat BY DEF KeptUpTo
<1>3. /\ more \in Seq(Kept) /\ Len(more) = Len(kept) + 1 /\ more[Len(kept) + 1] = e
      /\ \A a \in 1..Len(kept) : more[a] = kept[a]
  BY <1>1, <1>2
<1> HIDE DEF more
<1>4. \A a \in 1..Len(kept) : kept[a].number \in Nat /\ kept[a].number <= n
  <2>1. \A a \in 1..Len(kept) : kept[a] \in Kept BY <1>2
  <2> QED BY <2>1 DEF KeptUpTo, Kept
<1>5. \A a \in 1..Len(more) : more[a].number <= n + 1
  <2> TAKE a \in 1..Len(more)
  <2>1. CASE a \in 1..Len(kept) BY <1>3, <1>4, <2>1
  <2>2. CASE a = Len(kept) + 1 BY <1>1, <1>3, <2>2
  <2> QED BY <1>2, <1>3, <2>1, <2>2
<1>6. ASSUME NEW a \in 1..Len(more), NEW b \in 1..Len(more), a < b
      PROVE  more[a].number < more[b].number
  <2>1. a \in 1..Len(kept) BY <1>2, <1>3, <1>6
  <2>2. CASE b \in 1..Len(kept) BY <1>3, <1>6, <2>1, <2>2 DEF KeptUpTo
  <2>3. CASE b = Len(kept) + 1
    <3>1. more[a].number \in Nat /\ more[a].number <= n BY <1>3, <1>4, <2>1
    <3>2. more[b].number = n + 1 BY <1>1, <1>3, <2>3
    <3> QED BY <3>1, <3>2
  <2> QED BY <1>2, <1>3, <2>2, <2>3
<1>7. KeptUpTo(more, n + 1) BY <1>3, <1>5, <1>6 DEF KeptUpTo
<1> QED BY <1>7 DEF more, e

\* The lists that are kept, up to a position.
KeptBy(f, issues, m) ==
  f = [n \in 0..m |->
        IF n = 0 THEN <<>>
        ELSE IF issues[n].pull THEN f[n - 1]
        ELSE Append(f[n - 1], [number |-> n, issue |-> issues[n]])]

\* There is such a list up to every position.
LEMMA KeptDefined ==
  ASSUME NEW issues, Len(issues) \in Nat
  PROVE  KeptBy(NoPulls(issues), issues, Len(issues))
<1> DEFINE T == {m \in Nat : \E f : KeptBy(f, issues, m)}
           One(before, n) == IF issues[n].pull THEN before
                             ELSE Append(before, [number |-> n, issue |-> issues[n]])
<1>1. 0 \in T
  <2> DEFINE f == [n \in 0..0 |-> <<>>]
  <2>1. \A n \in 0..0 : n = 0 OBVIOUS
  <2>2. KeptBy(f, issues, 0) BY <2>1 DEF KeptBy
  <2> QED BY <2>2
<1>2. ASSUME NEW m \in T PROVE m + 1 \in T
  <2>1. m \in Nat /\ m + 1 \in Nat OBVIOUS
  <2>2. PICK g : KeptBy(g, issues, m) OBVIOUS
  <2> DEFINE f == [n \in 0..(m + 1) |-> IF n = m + 1 THEN One(g[m], m + 1) ELSE g[n]]
  <2>3. \A n \in 0..m : g[n] = IF n = 0 THEN <<>> ELSE One(g[n - 1], n)
    BY <2>2 DEF KeptBy
  <2>4. \A n \in 0..m : f[n] = g[n]
    <3> HIDE DEF One
    <3> TAKE n \in 0..m
    <3>1. n \in 0..(m + 1) /\ n # m + 1 BY <2>1
    <3> QED BY <3>1
  <2>5. f[m + 1] = One(g[m], m + 1)
    <3> HIDE DEF One
    <3>1. m + 1 \in 0..(m + 1) BY <2>1
    <3> QED BY <3>1
  <2>6. f = [n \in 0..(m + 1) |-> f[n]] OBVIOUS
  <2> HIDE DEF f
  <2>7. ASSUME NEW n \in 0..(m + 1)
        PROVE  f[n] = IF n = 0 THEN <<>> ELSE One(f[n - 1], n)
    <3> HIDE DEF One
    <3>1. CASE n \in 0..m
      <4>1. n # 0 => n - 1 \in 0..m BY <2>1, <3>1
      <4> QED BY <2>3, <2>4, <3>1, <4>1
    <3>2. CASE n = m + 1
      <4>1. n # 0 /\ n - 1 = m /\ m \in 0..m BY <2>1, <3>2
      <4> QED BY <2>4, <2>5, <3>2, <4>1
    <3>3. n \in 0..m \/ n = m + 1 BY <2>1
    <3> QED BY <3>1, <3>2, <3>3
  <2>8. KeptBy(f, issues, m + 1) BY <2>6, <2>7 DEF KeptBy
  <2> QED BY <2>1, <2>8
<1>3. T = Nat
  <2> HIDE DEF T
  <2>1. T \subseteq Nat BY DEF T
  <2> QED BY <1>1, <1>2, <2>1, AllNat
<1>4. \E f : KeptBy(f, issues, Len(issues)) BY <1>3
<1> QED BY <1>4 DEF NoPulls, KeptBy

\* What is kept of a whole list.
LEMMA PullsLeftOut ==
  ASSUME NEW issues \in Seq(Issue)
  PROVE  KeptUpTo(NoPulls(issues)[Len(issues)], Len(issues))
<1> DEFINE N == Len(issues)
           kept == NoPulls(issues)
           T == {n \in 0..N : KeptUpTo(kept[n], n)}
<1>1. N \in Nat /\ \A n \in 1..N : issues[n] \in Issue OBVIOUS
<1>2. KeptBy(kept, issues, N) BY <1>1, KeptDefined
<1> HIDE DEF kept, N
<1>3. \A n \in 0..N : kept[n] = IF n = 0 THEN <<>>
        ELSE IF issues[n].pull THEN kept[n - 1]
        ELSE Append(kept[n - 1], [number |-> n, issue |-> issues[n]])
  BY <1>2 DEF KeptBy
<1>4. ASSUME NEW n \in 0..N, \A m \in 0..N : m < n => m \in T PROVE n \in T
  <2>1. CASE n = 0
    <3>1. <<>> \in Seq(Kept) /\ Len(<<>>) = 0 OBVIOUS
    <3>2. \A a \in 1..0 : FALSE OBVIOUS
    <3>3. KeptUpTo(<<>>, 0) BY <3>1, <3>2 DEF KeptUpTo
    <3>4. kept[0] = <<>> BY <1>3, <2>1
    <3> QED BY <2>1, <3>3, <3>4
  <2>2. CASE n # 0
    <3>1. n - 1 \in 0..N /\ n - 1 < n /\ (n - 1) + 1 = n /\ n - 1 \in Nat /\ n \in 1..N /\ n \in Nat
      BY <1>1, <2>2
    <3>2. KeptUpTo(kept[n - 1], n - 1) BY <1>4, <3>1
    <3>3. CASE issues[n].pull
      <4>1. kept[n] = kept[n - 1] BY <1>3, <2>2, <3>3
      <4>2. kept[n - 1] \in Seq(Kept) BY <3>2 DEF KeptUpTo
      <4>3. \A a \in 1..Len(kept[n - 1]) : kept[n - 1][a] \in Kept BY <4>2
      <4>4. \A a \in 1..Len(kept[n - 1]) : kept[n - 1][a].number \in Nat BY <4>3 DEF Kept
      <4>5. \A a \in 1..Len(kept[n - 1]) : kept[n - 1][a].number <= n BY <3>1, <3>2, <4>4 DEF KeptUpTo
      <4> QED BY <3>2, <4>1, <4>5 DEF KeptUpTo
    <3>4. CASE ~issues[n].pull
      <4>1. kept[n] = Append(kept[n - 1], [number |-> n, issue |-> issues[n]]) BY <1>3, <2>2, <3>4
      <4>2. issues[n] \in Issue BY <1>1, <3>1
      <4> QED BY <3>1, <3>2, <4>1, <4>2, KeptOneMore
    <3> QED BY <3>3, <3>4
  <2> QED BY <2>1, <2>2
<1>5. \A n \in 0..N : n \in T
  <2> HIDE DEF T
  <2> QED BY <1>1, <1>4, UpTo
<1>6. N \in 0..N BY <1>1
<1> QED BY <1>5, <1>6 DEF kept, N

\* A scenario all of whose candidates succeed at once with one read-only outcome that
\* is grounded well enough: only how sure they are decides.
Imports(s) ==
  /\ ValidScenario(s) /\ s.policy.deadline = 2000 /\ s.policy.maxEvidence = 4
  /\ Len(s.candidates) \in 1..3
  /\ \A c \in 1..Len(s.candidates) :
       /\ s.candidates[c].latency = 0 /\ Len(s.candidates[c].outcomes) = 1
       /\ s.candidates[c].outcomes[1].type = "success"
       /\ s.candidates[c].outcomes[1].risk = "read_only"
       /\ s.candidates[c].outcomes[1].references \in Nat /\ s.policy.minReferences \in Nat
       /\ s.candidates[c].outcomes[1].references >= s.policy.minReferences
Sure(s, c) == ~(s.candidates[c].outcomes[1].confidence < s.policy.minConfidence)

\* A place of its preview: nothing is dropped, and whoever was passed is not sure.
Weighed(s, x) ==
  /\ x.course.dropped = 0
  /\ IF x.course.status = "pending"
       THEN /\ x.k = 1 /\ x.course.elapsed = 0 /\ Len(x.course.evidence) = x.c - 1
            /\ \A j \in 1..(x.c - 1) : ~Sure(s, j)
       ELSE \/ /\ x.course.status = "accepted" /\ x.course.candidate \in 1..Len(s.candidates)
               /\ Sure(s, x.course.candidate)
               /\ \A j \in 1..(x.course.candidate - 1) : ~Sure(s, j)
            \/ x.course.status = "exhausted" /\ \A j \in 1..Len(s.candidates) : ~Sure(s, j)

\* A turn of it.
LEMMA TurnWeighed ==
  ASSUME NEW s, Imports(s), NEW x, NEW n \in Nat, Reached(s, x, n), Weighed(s, x)
  PROVE  Weighed(s, Turn("preview", s, x))
<1>1. CASE x.course.status # "pending" BY <1>1 DEF Turn
<1>2. CASE x.course.status = "pending"
  <2> DEFINE c == x.c
             q == x.course
             y == PreviewTurn(s, x)
  <2>1. Turn("preview", s, x) = y BY <1>2 DEF Turn
  <2>2. /\ x.k = 1 /\ q.elapsed = 0 /\ q.dropped = 0 /\ Len(q.evidence) = c - 1
        /\ \A j \in 1..(c - 1) : ~Sure(s, j)
    BY <1>2 DEF Weighed
  <2>3. /\ c \in 1..(Len(s.candidates) + 1) /\ Len(s.candidates) \in 1..3
        /\ q \in LabCourses(s) /\ q.evidence \in Seq(LabEvidence)
    BY <1>2 DEF Reached, OpenCourse, Within, LabCourses, Imports
  <2>4. CASE c > Len(s.candidates)
    <3>1. y = Place(c, 1, Ends(q, "exhausted", "none")) BY <2>2, <2>4 DEF PreviewTurn
    <3>2. c - 1 = Len(s.candidates) BY <2>3, <2>4
    <3>3. /\ Ends(q, "exhausted", "none").dropped = 0
          /\ Ends(q, "exhausted", "none").status = "exhausted"
      BY <2>2, <2>3 DEF Ends, LabCourses
    <3>4. y.course.dropped = 0 /\ y.course.status = "exhausted" BY <3>1, <3>3 DEF Place
    <3> QED BY <2>1, <2>2, <3>2, <3>4 DEF Weighed
  <2>5. CASE ~(c > Len(s.candidates))
    <3> DEFINE o == s.candidates[c].outcomes[1]
               d == DecisionOn(o, s.policy)
               next == Attempted(s, q, c, 1, o)
               e == [candidate |-> c, attempt |-> 1, is |-> d.is, why |-> d.why]
    <3>1. c \in 1..Len(s.candidates) /\ c \in Nat /\ Len(q.evidence) < 4
      <4> DEFINE m == Len(s.candidates)
                 w == Len(q.evidence)
      <4>1. m \in 1..3 /\ c \in 1..(m + 1) /\ ~(c > m) /\ w = c - 1 BY <2>2, <2>3, <2>5
      <4> HIDE DEF c, m, w
      <4>2. c \in 1..m /\ c \in Nat /\ w < 4 BY <4>1
      <4> QED BY <4>2 DEF m, w
    <3>2. /\ s.candidates[c].latency = 0 /\ Len(s.candidates[c].outcomes) = 1
          /\ o.type = "success" /\ o.risk = "read_only"
          /\ o.references \in Nat /\ s.policy.minReferences \in Nat
          /\ o.references >= s.policy.minReferences
      BY <3>1 DEF Imports
    <3>3. s.policy.deadline = 2000 /\ s.policy.maxEvidence = 4 BY DEF Imports
    <3>4. ~Overruns(s, q, c) BY <2>2, <3>2, <3>3 DEF Overruns
    <3>5. /\ Sure(s, c) => d.is = "accepted"
          /\ ~Sure(s, c) => d.is = "quality_rejected"
      <4>1. d = Assess(o, s.policy) BY <3>2 DEF DecisionOn
      <4>2. ~(o.references < s.policy.minReferences) /\ o.risk # "production_write" BY <3>2
      <4> QED BY <4>1, <4>2 DEF Assess, Sure
    <3>6. y = CASE d.is = "accepted" -> Place(c, 1, Selects(next, c, o))
            [] d.is \in {"requires_user_input", "terminal"} -> Place(c, 1, Ends(next, d.is, d.why))
            [] d.is \in {"try_next_candidate", "quality_rejected"} -> Place(c + 1, 1, next)
            [] d.is = "retry_same_candidate" ->
                 IF next.spent >= s.policy.retryLimit
                   THEN Place(c, 1, Ends(Retain(s, next, c, 1, BudgetSpent), BudgetSpent.is, BudgetSpent.why))
                   ELSE Place(c, 1 + 1, [next EXCEPT !.spent = @ + 1])
      <4>1. ~(1 > Len(s.candidates[c].outcomes)) BY <3>2
      <4> QED BY <2>2, <2>5, <3>4, <4>1 DEF PreviewTurn
    <3>7. /\ next.dropped = 0 /\ next.elapsed = 0 /\ next.status = "pending"
          /\ Len(next.evidence) = c
          /\ Selects(next, c, o).status = "accepted" /\ Selects(next, c, o).dropped = 0
          /\ Selects(next, c, o).candidate = c
      <4> DEFINE more == Append(q.evidence, e)
                 kept == [q EXCEPT !.evidence = more]
      <4>1. Retain(s, q, c, 1, d) = kept BY <3>1, <3>3 DEF Retain
      <4> HIDE DEF d
      <4>2. Len(more) = Len(q.evidence) + 1
        <5> HIDE DEF e
        <5> QED BY <2>3
      <4>3. Len(more) = c BY <2>2, <3>1, <4>2
      <4> HIDE DEF e, more
      <4>4. next = [kept EXCEPT !.elapsed = @ + s.candidates[c].latency] BY <4>1 DEF Attempted, d
      <4>5. next = [kept EXCEPT !.elapsed = 0]
        <5>1. kept.elapsed = 0 BY <2>2, <2>3 DEF LabCourses
        <5>2. kept.elapsed + s.candidates[c].latency = 0 BY <3>2, <5>1
        <5> HIDE DEF kept, next
        <5> QED BY <4>4, <5>2
      <4> HIDE DEF next
      <4> DEFINE selected == [next EXCEPT !.status = "accepted", !.candidate = c, !.action = o.action]
      <4>6. Selects(next, c, o) = selected BY DEF Selects
      <4>7. q = [elapsed |-> q.elapsed, spent |-> q.spent, evidence |-> q.evidence, dropped |-> q.dropped,
                 status |-> q.status, why |-> q.why, candidate |-> q.candidate, action |-> q.action]
        BY <2>3 DEF LabCourses
      <4>8. next = [elapsed |-> 0, spent |-> q.spent, evidence |-> more, dropped |-> 0,
                    status |-> "pending", why |-> q.why, candidate |-> q.candidate, action |-> q.action]
        BY <1>2, <2>2, <4>5, <4>7
      <4>9. selected.status = "accepted" /\ selected.dropped = 0 /\ selected.candidate = c
        <5> HIDE DEF o
        <5> QED BY <4>8
      <4> QED BY <4>3, <4>6, <4>8, <4>9
    <3> HIDE DEF y, next, d, o
    <3>8. CASE Sure(s, c)
      <4>1. y = Place(c, 1, Selects(next, c, o)) BY <3>5, <3>6, <3>8
      <4>2. y.course = Selects(next, c, o) BY <4>1 DEF Place
      <4> QED BY <2>1, <2>2, <3>1, <3>7, <3>8, <4>2 DEF Weighed, y
    <3>9. CASE ~Sure(s, c)
      <4>1. y = Place(c + 1, 1, next) BY <3>5, <3>6, <3>9
      <4>2. y.c = c + 1 /\ y.k = 1 /\ y.course = next BY <4>1 DEF Place
      <4>3. (c + 1) - 1 = c /\ \A j \in 1..c : j \in 1..(c - 1) \/ j = c BY <3>1
      <4>4. \A j \in 1..((c + 1) - 1) : ~Sure(s, j) BY <2>2, <3>9, <4>3
      <4> QED BY <2>1, <3>7, <4>2, <4>3, <4>4 DEF Weighed, y
    <3> QED BY <3>8, <3>9
  <2> QED BY <2>4, <2>5
<1> QED BY <1>1, <1>2

\* The preview of such a scenario.
LEMMA ImportsWeighed ==
  ASSUME NEW s, Imports(s)
  PROVE  /\ Sound(s, Preview(s)) /\ Preview(s).dropped = 0
         /\ \/ /\ Preview(s).status = "accepted" /\ Preview(s).candidate \in 1..Len(s.candidates)
               /\ Sure(s, Preview(s).candidate)
               /\ \A j \in 1..(Preview(s).candidate - 1) : ~Sure(s, j)
            \/ Preview(s).status = "exhausted" /\ \A j \in 1..Len(s.candidates) : ~Sure(s, j)
<1> DEFINE N == MostTurns(s)
           P == Places("preview", s)
<1>1. ValidScenario(s) BY DEF Imports
<1>2. /\ N \in Nat /\ PlacesUpTo(P, "preview", s, N)
      /\ \A n \in 0..N : Reached(s, P[n], n)
      /\ EndedCourse(s, P[N].course)
  BY <1>1, AllReached
<1> HIDE DEF N, P
<1>3. \A n \in 0..N : P[n] = IF n = 0 THEN Place(1, 1, NoCourse) ELSE Turn("preview", s, P[n - 1])
  BY <1>2 DEF PlacesUpTo
<1> DEFINE T == {n \in 0..N : Weighed(s, P[n])}
<1>4. Weighed(s, Place(1, 1, NoCourse))
  <2>1. /\ Place(1, 1, NoCourse).c = 1 /\ Place(1, 1, NoCourse).k = 1
        /\ Place(1, 1, NoCourse).course = NoCourse
        /\ NoCourse.dropped = 0 /\ NoCourse.status = "pending" /\ NoCourse.elapsed = 0
        /\ NoCourse.evidence = <<>>
    BY DEF Place, NoCourse
  <2>2. Len(<<>>) = 1 - 1 /\ \A j \in 1..(1 - 1) : FALSE OBVIOUS
  <2> QED BY <2>1, <2>2 DEF Weighed
<1>5. ASSUME NEW n \in 0..N, \A m \in 0..N : m < n => m \in T PROVE n \in T
  <2>1. CASE n = 0 BY <1>3, <1>4, <2>1
  <2>2. CASE n # 0
    <3>1. n - 1 \in 0..N /\ n - 1 < n /\ n - 1 \in Nat BY <1>2, <2>2
    <3>2. Weighed(s, P[n - 1]) /\ Reached(s, P[n - 1], n - 1) BY <1>2, <1>5, <3>1
    <3>3. Weighed(s, Turn("preview", s, P[n - 1])) BY <3>1, <3>2, TurnWeighed
    <3> QED BY <1>3, <2>2, <3>3
  <2> QED BY <2>1, <2>2
<1>6. \A n \in 0..N : n \in T
  <2> HIDE DEF T
  <2> QED BY <1>2, <1>5, UpTo
<1>7. N \in 0..N BY <1>2
<1>8. Weighed(s, P[N]) BY <1>6, <1>7
<1>9. Preview(s) = P[N].course BY DEF Preview, P, N
<1>10. Sound(s, P[N].course) BY <1>2 DEF EndedCourse
<1>11. P[N].course.status # "pending" BY <1>10 DEF Sound
<1> QED BY <1>8, <1>9, <1>10, <1>11 DEF Weighed

\* The observation of the weather is such a scenario, of one candidate that is sure.
LEMMA WeatherImported ==
  Imports(WeatherScenario) /\ Len(WeatherScenario.candidates) = 1 /\ Sure(WeatherScenario, 1)
<1> DEFINE s == WeatherScenario
<1>1. /\ s.policy = [minReferences |-> 3, minConfidence |-> 95, retryLimit |-> 0, maxEvidence |-> 4,
                     deadline |-> 2000]
      /\ Len(s.candidates) = 1 /\ s.candidates[1].id = 1 /\ s.candidates[1].latency = 0
      /\ Len(s.candidates[1].outcomes) = 1
      /\ s.candidates[1].outcomes[1] = [type |-> "success", risk |-> "read_only", confidence |-> 99,
                                        references |-> 4, action |-> "record_weather_observation"]
  BY DEF WeatherScenario, Policy
<1> HIDE DEF s
<1>2. \A c \in 1..Len(s.candidates) : c = 1 BY <1>1
<1>3. ValidPolicy(s.policy) BY <1>1 DEF ValidPolicy, MaxLabReferences, MaxLabRetries, MaxLabAttempts
<1>4. ValidOutcome(s.candidates[1].outcomes[1]) BY <1>1 DEF ValidOutcome, MaxLabReferences
<1>5. ValidLabCandidate(s.candidates[1])
  <2>1. \A k \in 1..1 : k = 1 OBVIOUS
  <2> QED BY <1>1, <1>4, <2>1 DEF ValidLabCandidate, MaxLabOutcomes
<1>6. ValidScenario(s) BY <1>1, <1>2, <1>3, <1>5 DEF ValidScenario, MaxLabCandidates
<1>7. Imports(s)
  <2>1. s.policy.deadline = 2000 /\ s.policy.maxEvidence = 4 /\ s.policy.minReferences = 3 BY <1>1
  <2>2. /\ s.candidates[1].outcomes[1].type = "success" /\ s.candidates[1].outcomes[1].risk = "read_only"
        /\ s.candidates[1].outcomes[1].references = 4
    BY <1>1
  <2> QED BY <1>1, <1>2, <1>6, <2>1, <2>2 DEF Imports
<1>8. Sure(s, 1) BY <1>1 DEF Sure
<1> QED BY <1>1, <1>7, <1>8 DEF s

\* The issues of a body are such a scenario, and the bugs among them are sure.
LEMMA IssuesImported ==
  ASSUME NEW issues \in Seq(Issue), Importable(issues) # <<>>
  PROVE  LET s == GitHubScenario(issues)
         IN /\ Imports(s) /\ DOMAIN s.candidates = 1..Len(s.candidates)
            /\ \A c \in 1..Len(s.candidates) :
                 Sure(s, c) <=> s.candidates[c].outcomes[1].confidence = 90
<1> DEFINE kept == NoPulls(issues)[Len(issues)]
           L == Len(kept)
           F == Fewest(L, 3)
           taken == Importable(issues)
           s == GitHubScenario(issues)
<1>1. KeptUpTo(kept, Len(issues)) BY PullsLeftOut
<1>2. taken = SubSeq(kept, 1, F) BY DEF Importable, MaxImported
<1> HIDE DEF kept
<1>3. /\ kept \in Seq(Kept) /\ L \in Nat
      /\ \A a, b \in 1..L : a < b => kept[a].number < kept[b].number
      /\ \A a \in 1..L : kept[a] \in Kept
  BY <1>1 DEF KeptUpTo
<1>4. F \in 0..3 /\ F <= L /\ F \in Int
  <2> HIDE DEF L
  <2> QED BY <1>3 DEF Fewest
<1> HIDE DEF taken, L, F
<1>5. F \in 1..3
  <2>1. F < 1 => taken = <<>> BY <1>2, <1>4, SubSeqEmpty
  <2>2. taken # <<>> BY DEF taken
  <2> QED BY <1>4, <2>1, <2>2
<1>6. /\ taken \in Seq(Kept) /\ Len(taken) = F
      /\ \A a \in 1..F : taken[a] = kept[a]
  <2>1. \A a \in 1..F : kept[a] \in Kept BY <1>3, <1>4, <1>5
  <2>2. /\ SubSeq(kept, 1, F) \in Seq(Kept)
        /\ Len(SubSeq(kept, 1, F)) = IF 1 <= F THEN F - 1 + 1 ELSE 0
        /\ \A a \in 1..(F - 1 + 1) : SubSeq(kept, 1, F)[a] = kept[1 + a - 1]
    BY <1>4, <2>1, SubSeqProperties
  <2>3. F - 1 + 1 = F /\ 1 <= F BY <1>5
  <2>4. \A a \in 1..F : 1 + a - 1 = a OBVIOUS
  <2> QED BY <1>2, <2>2, <2>3, <2>4
<1>7. DOMAIN taken = 1..F BY <1>6
<1> DEFINE cands == [k \in 1..F |-> ToCandidate(taken[k].number, taken[k].issue)]
<1>8. s.policy = Policy(2, 85) /\ s.candidates = cands BY <1>7 DEF GitHubScenario, taken
<1>9. Len(cands) = F /\ DOMAIN cands = 1..F
  <2>1. \A f : f \in [1..F -> {ToCandidate(taken[k].number, taken[k].issue) : k \in 1..F}] => Len(f) = F
    BY <1>4
  <2> QED BY <2>1
<1>10. ASSUME NEW c \in 1..F
       PROVE  /\ s.candidates[c] = ToCandidate(taken[c].number, taken[c].issue)
              /\ taken[c].number \in Nat /\ taken[c].issue \in Issue
  <2>1. taken[c] \in Kept BY <1>6
  <2> QED BY <1>8, <2>1 DEF Kept
<1> HIDE DEF s, cands
<1>11. ASSUME NEW c \in 1..F
       PROVE  /\ s.candidates[c].id = taken[c].number /\ s.candidates[c].latency = 0
              /\ Len(s.candidates[c].outcomes) = 1
              /\ LET o == s.candidates[c].outcomes[1]
                 IN /\ o.type = "success" /\ o.risk = "read_only" /\ o.confidence \in {70, 90}
                    /\ o.references \in 2..5
  <2> DEFINE i == taken[c].issue
             o == [type |-> "success", risk |-> "read_only", confidence |-> Confidence(i),
                   references |-> 2 + Fewest(i.labels, MaxLabels), action |-> "open_incident_review"]
  <2>1. s.candidates[c] = [id |-> taken[c].number, latency |-> 0, outcomes |-> <<o>>]
    BY <1>10 DEF ToCandidate
  <2>2. i.labels \in Nat BY <1>10 DEF Issue
  <2>3. 2 + Fewest(i.labels, MaxLabels) \in 2..5
    <3> DEFINE n == i.labels
    <3>1. n \in Nat BY <2>2
    <3> HIDE DEF n
    <3>2. 2 + Fewest(n, MaxLabels) \in 2..5 BY <3>1 DEF Fewest, MaxLabels
    <3> QED BY <3>2 DEF n
  <2>4. Confidence(i) \in {70, 90} BY DEF Confidence
  <2>5. /\ o.type = "success" /\ o.risk = "read_only" /\ o.confidence \in {70, 90}
        /\ o.references \in 2..5
    BY <2>3, <2>4
  <2> HIDE DEF o
  <2>6. /\ s.candidates[c].id = taken[c].number /\ s.candidates[c].latency = 0
        /\ Len(s.candidates[c].outcomes) = 1 /\ s.candidates[c].outcomes[1] = o
    BY <2>1
  <2> QED BY <2>5, <2>6
<1>12. Len(s.candidates) = F /\ DOMAIN s.candidates = 1..F BY <1>8, <1>9
<1>13. s.policy = [minReferences |-> 2, minConfidence |-> 85, retryLimit |-> 0, maxEvidence |-> 4,
                   deadline |-> 2000]
  BY <1>8 DEF Policy
<1>14. ValidPolicy(s.policy) BY <1>13 DEF ValidPolicy, MaxLabReferences, MaxLabRetries, MaxLabAttempts
<1>15. ASSUME NEW c \in 1..F PROVE ValidLabCandidate(s.candidates[c])
  <2>1. ValidOutcome(s.candidates[c].outcomes[1])
    <3> DEFINE o == s.candidates[c].outcomes[1]
    <3>1. /\ o.type = "success" /\ o.risk = "read_only" /\ o.confidence \in {70, 90}
          /\ o.references \in 2..5
      BY <1>11
    <3> HIDE DEF o
    <3>2. o.references \in 0..8 /\ o.confidence \in 0..100 BY <3>1
    <3> QED BY <3>1, <3>2 DEF ValidOutcome, MaxLabReferences, o
  <2>2. \A k \in 1..1 : k = 1 OBVIOUS
  <2>3. s.candidates[c].latency = 0 /\ Len(s.candidates[c].outcomes) = 1 BY <1>11
  <2> QED BY <2>1, <2>2, <2>3 DEF ValidLabCandidate, MaxLabOutcomes
<1>16. ASSUME NEW c \in 1..F, NEW d \in 1..F, c # d
       PROVE  s.candidates[c].id # s.candidates[d].id
  <2>1. /\ taken[c].number \in Nat /\ taken[d].number \in Nat
        /\ taken[c] = kept[c] /\ taken[d] = kept[d] /\ c \in 1..L /\ d \in 1..L
    BY <1>3, <1>4, <1>6, <1>10
  <2>2. c < d \/ d < c BY <1>16
  <2>3. taken[c].number < taken[d].number \/ taken[d].number < taken[c].number
    BY <1>3, <2>1, <2>2
  <2> QED BY <1>11, <2>1, <2>3
<1>17. ValidScenario(s)
  <2>1. F \in 1..MaxLabCandidates BY <1>5 DEF MaxLabCandidates
  <2> QED BY <1>12, <1>14, <1>15, <1>16, <2>1 DEF ValidScenario
<1>18. Imports(s)
  <2>1. s.policy.deadline = 2000 /\ s.policy.maxEvidence = 4 /\ s.policy.minReferences = 2 BY <1>13
  <2>2. ASSUME NEW c \in 1..F
        PROVE  /\ s.candidates[c].outcomes[1].references \in Nat
               /\ s.candidates[c].outcomes[1].references >= 2
    <3>1. s.candidates[c].outcomes[1].references \in 2..5 BY <1>11
    <3> QED BY <3>1
  <2> QED BY <1>5, <1>11, <1>12, <1>17, <2>1, <2>2 DEF Imports
<1>19. ASSUME NEW c \in 1..F
       PROVE  Sure(s, c) <=> s.candidates[c].outcomes[1].confidence = 90
  <2>1. s.policy.minConfidence = 85 /\ s.candidates[c].outcomes[1].confidence \in {70, 90}
    BY <1>11, <1>13
  <2> QED BY <2>1 DEF Sure
<1> QED BY <1>12, <1>18, <1>19 DEF s

\* What an import brings, of a source.
Brought(source, s) ==
  \/ source = "weather" /\ s = WeatherScenario
  \/ source = "issues" /\ \E issues \in Seq(Issue) : Importable(issues) # <<>> /\ s = GitHubScenario(issues)

\* The first that is sure is the one the property names.
LEMMA BroughtTrue ==
  ASSUME NEW source \in {"weather", "issues"}, NEW s, Brought(source, s)
  PROVE  LET bugs == {k \in DOMAIN s.candidates : s.candidates[k].outcomes[1].confidence = 90}
             course == Preview(s)
         IN /\ ValidScenario(s) /\ Sound(s, course) /\ course.dropped = 0
            /\ source = "weather" => course.status = "accepted"
            /\ source = "issues" =>
                 IF bugs = {} THEN course.status = "exhausted"
                 ELSE course.status = "accepted" /\ course.candidate = CHOOSE k \in bugs : \A j \in bugs : k <= j
<1> DEFINE bugs == {k \in DOMAIN s.candidates : s.candidates[k].outcomes[1].confidence = 90}
           course == Preview(s)
<1>1. Imports(s) BY WeatherImported, IssuesImported DEF Brought
<1>2. ValidScenario(s) /\ Len(s.candidates) \in 1..3 BY <1>1 DEF Imports
<1>3. /\ Sound(s, course) /\ course.dropped = 0
      /\ \/ /\ course.status = "accepted" /\ course.candidate \in 1..Len(s.candidates)
            /\ Sure(s, course.candidate)
            /\ \A j \in 1..(course.candidate - 1) : ~Sure(s, j)
         \/ course.status = "exhausted" /\ \A j \in 1..Len(s.candidates) : ~Sure(s, j)
  BY <1>1, ImportsWeighed
<1> HIDE DEF course
<1>4. ASSUME source = "weather" PROVE course.status = "accepted"
  <2>1. Sure(s, 1) /\ Len(s.candidates) = 1 BY <1>4, WeatherImported DEF Brought
  <2>2. 1 \in 1..Len(s.candidates) BY <2>1
  <2> QED BY <1>3, <2>1, <2>2
<1>5. ASSUME source = "issues"
      PROVE  IF bugs = {} THEN course.status = "exhausted"
             ELSE course.status = "accepted" /\ course.candidate = CHOOSE k \in bugs : \A j \in bugs : k <= j
  <2>1. PICK issues \in Seq(Issue) : Importable(issues) # <<>> /\ s = GitHubScenario(issues)
    BY <1>5 DEF Brought
  <2>2. /\ DOMAIN s.candidates = 1..Len(s.candidates)
        /\ \A c \in 1..Len(s.candidates) : Sure(s, c) <=> s.candidates[c].outcomes[1].confidence = 90
    BY <2>1, IssuesImported
  <2>3. bugs = {c \in 1..Len(s.candidates) : Sure(s, c)} BY <2>2
  <2> HIDE DEF bugs
  <2>4. CASE bugs = {} BY <1>3, <2>3, <2>4
  <2>5. CASE bugs # {}
    <3> DEFINE a == course.candidate
    <3>1. course.status = "accepted" /\ a \in 1..Len(s.candidates) /\ Sure(s, a)
          /\ \A j \in 1..(a - 1) : ~Sure(s, j)
      BY <1>3, <2>3, <2>5
    <3>2. a \in bugs /\ bugs \subseteq Nat BY <1>2, <2>3, <3>1
    <3> HIDE DEF a
    <3>3. ASSUME NEW j \in bugs PROVE a <= j
      <4>1. j \in Nat /\ a \in Nat /\ 1 <= j BY <2>3, <3>2
      <4>2. j < a => j \in 1..(a - 1) BY <4>1
      <4>3. Sure(s, j) BY <2>3
      <4> QED BY <3>1, <4>1, <4>2, <4>3
    <3> DEFINE b == CHOOSE k \in bugs : \A j \in bugs : k <= j
    <3>4. b \in bugs /\ \A j \in bugs : b <= j BY <3>2, <3>3
    <3> HIDE DEF b
    <3>5. a \in Nat /\ b \in Nat /\ a <= b /\ b <= a BY <3>2, <3>3, <3>4
    <3>6. a = b BY <3>5
    <3> QED BY <2>5, <3>1, <3>6 DEF a, b
  <2> QED BY <2>4, <2>5
<1> QED BY <1>2, <1>3, <1>4, <1>5 DEF course

\* An import: what is shown is what came of it, and nothing is shown before it ended;
\* a signal that is aborted while it is listened to has ended it at once.
ImportSound ==
  /\ fetSource \in {"weather", "issues"} /\ fetPhase \in {"unsent", "requesting", "reading", "settled"}
  /\ fetSignal \in [aborted : BOOLEAN, heard : BOOLEAN]
  /\ fetShown.scenario # <<>> => Brought(fetSource, fetShown.scenario)
  /\ fetPhase # "settled" => fetShown = NothingShown /\ (fetSignal.heard => ~fetSignal.aborted)
  /\ fetPhase = "settled" =>
       IF fetSignal.aborted /\ fetSignal.heard THEN fetOutcome = "aborted" /\ fetShown = NothingShown
       ELSE fetSignal.aborted \/ (fetShown.scenario = <<>>) # (fetShown.error = "none")

\* What fails leaves an error, unless it was aborted.
LEMMA FailsSound ==
  ASSUME ImportSound, Pending, NEW code, code # "none", Fails(code),
         fetSignal' \in [aborted : BOOLEAN, heard : BOOLEAN],
         fetSignal'.aborted /\ fetSignal'.heard => code = "aborted"
  PROVE  ImportSound'
<1>1. fetPhase # "settled" /\ fetShown = NothingShown BY DEF Pending, ImportSound
<1>2. NothingShown.scenario = <<>> /\ NothingShown.error = "none" BY DEF NothingShown
<1>3. CASE fetSignal'.aborted
  <2>1. fetShown' = NothingShown /\ fetPhase' = "settled" /\ fetOutcome' = code /\ fetSource' = fetSource
    BY <1>1, <1>3 DEF Fails
  <2> QED BY <1>2, <1>3, <2>1 DEF ImportSound
<1>4. CASE ~fetSignal'.aborted
  <2>1. fetShown' = [NothingShown EXCEPT !.error = code] /\ fetPhase' = "settled" /\ fetSource' = fetSource
    BY <1>1, <1>4 DEF Fails
  <2>2. fetShown'.scenario = <<>> /\ fetShown'.error = code BY <2>1 DEF NothingShown
  <2> QED BY <1>4, <2>1, <2>2 DEF ImportSound
<1> QED BY <1>3, <1>4

\* The initial state.
LEMMA FetchInitSound ==
  ASSUME NEW sources \in SUBSET {"weather", "issues"}, FetchInit(sources, BOOLEAN)
  PROVE  ImportSound
<1>1. fetSource \in {"weather", "issues"} /\ fetPhase = "unsent" /\ fetShown = NothingShown
  BY DEF FetchInit
<1>2. PICK a \in BOOLEAN : fetSignal = [aborted |-> a, heard |-> ~a] BY DEF FetchInit
<1>3. NothingShown.scenario = <<>> BY DEF NothingShown
<1> QED BY <1>1, <1>2, <1>3 DEF ImportSound

\* Every step of an import.
LEMMA FetchStepSound == ImportSound /\ [FetchNext]_fetVars => ImportSound'
<1> SUFFICES ASSUME ImportSound, [FetchNext]_fetVars PROVE ImportSound'
  OBVIOUS
<1>1. ASSUME UNCHANGED fetVars PROVE ImportSound' BY <1>1 DEF ImportSound, fetVars
<1>2. ASSUME Send PROVE ImportSound'
  <2>1. NothingShown.scenario = <<>> BY DEF NothingShown
  <2> QED BY <1>2, <2>1 DEF Send, ImportSound
<1>3. ASSUME CallerGivesUp PROVE ImportSound'
  <2>1. fetSignal' \in [aborted : BOOLEAN, heard : BOOLEAN] /\ fetSignal'.heard = fetSignal.heard
        /\ Pending
    BY <1>3 DEF CallerGivesUp, ImportSound
  <2>2. CASE fetSignal.heard
    <3>1. Fails("aborted") BY <1>3, <2>2 DEF CallerGivesUp
    <3> QED BY <2>1, <3>1, FailsSound
  <2>3. CASE ~fetSignal.heard
    <3>1. UNCHANGED <<fetSource, fetPhase, fetOutcome, fetShown>> BY <1>3, <2>3 DEF CallerGivesUp
    <3> QED BY <2>1, <2>3, <3>1 DEF ImportSound, Pending
  <2> QED BY <2>2, <2>3
<1>4. ASSUME UNCHANGED fetSignal, Pending, NEW code, code # "none",
             Fails(code), fetSignal.aborted => code = "aborted"
      PROVE  ImportSound'
  <2>1. fetSignal' \in [aborted : BOOLEAN, heard : BOOLEAN] BY <1>4 DEF ImportSound
  <2>2. fetSignal'.aborted /\ fetSignal'.heard => code = "aborted" BY <1>4
  <2> QED BY <1>4, <2>1, <2>2, FailsSound
<1>5. ASSUME FetchTimesOut PROVE ImportSound'
  BY <1>4, <1>5 DEF FetchTimesOut
<1>6. ASSUME NetworkFails PROVE ImportSound'
  BY <1>4, <1>6 DEF NetworkFails
<1>7. ASSUME UNCHANGED fetSignal, Pending, NEW code, code # "none", Fails(code),
             fetPhase # "settled"
      PROVE  ImportSound'
  <2>1. fetSignal' \in [aborted : BOOLEAN, heard : BOOLEAN] BY <1>7 DEF ImportSound
  <2>2. ~(fetSignal'.aborted /\ fetSignal'.heard) BY <1>7 DEF ImportSound
  <2> QED BY <1>7, <2>1, <2>2, FailsSound
<1>8. ASSUME NEW status \in {200, 403, 429, 500}, Responds(status) PROVE ImportSound'
  <2>1. fetPhase = "requesting" /\ Pending /\ UNCHANGED fetSignal BY <1>8 DEF Responds, Pending
  <2>2. CASE status = 200
    <3>1. fetPhase' = "reading" /\ UNCHANGED <<fetSource, fetOutcome, fetShown>>
      BY <1>8, <2>2 DEF Responds
    <3> QED BY <2>1, <3>1 DEF ImportSound
  <2>3. CASE status # 200
    <3>1. Fails("rate_limited") \/ Fails("source_unavailable") BY <1>8, <2>3 DEF Responds
    <3> QED BY <1>7, <2>1, <3>1
  <2> QED BY <2>2, <2>3
<1>9. ASSUME NEW large \in BOOLEAN, NEW body \in Bodies(fetSource), BodyArrives(large, body)
      PROVE  ImportSound'
  <2>1. fetPhase = "reading" /\ Pending /\ UNCHANGED fetSignal BY <1>9 DEF BodyArrives, Pending
  <2>2. CASE large
    <3>1. Fails("response_too_large") BY <1>9, <2>2 DEF BodyArrives
    <3> QED BY <1>7, <2>1, <3>1
  <2>3. CASE ~large /\ Adapted(body).scenario = <<>>
    <3>1. Fails("invalid_response") BY <1>9, <2>3 DEF BodyArrives, Delivers
    <3> QED BY <1>7, <2>1, <3>1
  <2>4. CASE ~large /\ Adapted(body).scenario # <<>>
    <3>1. /\ fetPhase' = "settled" /\ fetShown' = Adapted(body) /\ fetSource' = fetSource
      BY <1>9, <2>4 DEF BodyArrives, Delivers
    <3>2. NothingShown.scenario = <<>> /\ NothingShown.error = "none" BY DEF NothingShown
    <3>3. Brought(fetSource, Adapted(body).scenario) /\ Adapted(body).error = "none"
      <4>1. fetSource \in {"weather", "issues"} BY DEF ImportSound
      <4>2. body # Unreadable
        <5>1. Adapted(Unreadable) = NothingShown BY DEF Adapted, Unreadable
        <5> QED BY <2>4, <3>2, <5>1
      <4>3. CASE fetSource = "weather"
        <5>1. body.is = "current" BY <4>2, <4>3 DEF Bodies
        <5>2. Adapted(body) = [NothingShown EXCEPT !.scenario = WeatherScenario] BY <5>1 DEF Adapted
        <5>3. Adapted(body).scenario = WeatherScenario /\ Adapted(body).error = "none"
          BY <5>2 DEF NothingShown
        <5> QED BY <4>3, <5>3 DEF Brought
      <4>4. CASE fetSource = "issues"
        <5>1. PICK i \in FetIssues : body = [is |-> "issues", value |-> i]
          BY <4>2, <4>4 DEF Bodies
        <5>2. body.is = "issues" /\ body.value = i BY <5>1
        <5>3. Adapted(body) = IF Importable(i) = <<>> THEN NothingShown
                              ELSE [NothingShown EXCEPT !.scenario = GitHubScenario(i)]
          BY <5>2 DEF Adapted
        <5>4. Importable(i) # <<>> BY <2>4, <3>2, <5>3
        <5>5. Adapted(body).scenario = GitHubScenario(i) /\ Adapted(body).error = "none"
          BY <5>3, <5>4 DEF NothingShown
        <5>6. i \in Seq(Issue) BY FetchAssumption
        <5> QED BY <4>4, <5>4, <5>5, <5>6 DEF Brought
      <4> QED BY <4>1, <4>3, <4>4
    <3>4. ~(fetSignal.aborted /\ fetSignal.heard) BY <2>1 DEF ImportSound
    <3>5. fetShown'.scenario # <<>> /\ fetShown'.error = "none" BY <2>4, <3>1, <3>3
    <3> QED BY <2>1, <3>1, <3>3, <3>4, <3>5 DEF ImportSound
  <2> QED BY <2>2, <2>3, <2>4
<1> QED BY <1>1, <1>2, <1>3, <1>5, <1>6, <1>8, <1>9 DEF FetchNext

\* Whatever a body holds, what is imported of it keeps to the contract of a scenario and
\* its preview accepts the observation, or the first issue that is labelled a bug; and an
\* import that has ended shows a scenario or an error, unless it was aborted.
THEOREM ImportsAreTrue ==
  ASSUME NEW CONSTANT sources \in SUBSET {"weather", "issues"}
  PROVE  FetchInit(sources, BOOLEAN) /\ [][FetchNext]_fetVars => []FetchTruth
<1>1. FetchInit(sources, BOOLEAN) => ImportSound BY FetchInitSound
<1>2. ImportSound /\ [FetchNext]_fetVars => ImportSound' BY FetchStepSound
<1>3. ImportSound => FetchTruth
  <2> SUFFICES ASSUME ImportSound PROVE FetchTruth OBVIOUS
  <2>1. fetSource \in {"weather", "issues"} BY DEF ImportSound
  <2>2. fetShown.scenario # <<>> => Brought(fetSource, fetShown.scenario) BY DEF ImportSound
  <2>3. fetPhase = "settled" =>
          IF fetSignal.aborted /\ fetSignal.heard THEN fetOutcome = "aborted" /\ fetShown = NothingShown
          ELSE fetSignal.aborted \/ (fetShown.scenario = <<>>) # (fetShown.error = "none")
    BY DEF ImportSound
  <2> QED BY <2>1, <2>2, <2>3, BroughtTrue DEF FetchTruth
<1> QED BY <1>1, <1>2, <1>3, PTL

\* A function of the numbers up to m that is given by its first value and by a step from
\* each value to the next exists.
StepsOn(S, m, G) == G \in [1..m -> [S -> S]]
Unrolls(f, S, b, m, G) == f \in [0..m -> S] /\ f[0] = b /\ \A n \in 1..m : f[n] = G[n][f[n - 1]]
\* Such a function exists, if each step stays among the values.
LEMMA Unrolled ==
  ASSUME NEW S, NEW b \in S, NEW m \in Nat, NEW G, StepsOn(S, m, G)
  PROVE  \E f : Unrolls(f, S, b, m, G)
<1> USE DEF StepsOn
<1> DEFINE Upto(f, k) == f[0] = b /\ \A n \in 1..k : f[n] = G[n][f[n - 1]]
           T == {k \in 0..m : \E f \in [0..k -> S] : Upto(f, k)}
<1>1. 0 \in T
  <2> DEFINE f == [n \in 0..0 |-> b]
  <2>1. f \in [0..0 -> S] /\ f[0] = b OBVIOUS
  <2>2. \A n \in 1..0 : FALSE OBVIOUS
  <2> HIDE DEF f
  <2> QED BY <2>1, <2>2
<1>2. ASSUME NEW k \in T, k + 1 \in 0..m PROVE k + 1 \in T
  <2>1. k \in 0..m /\ k \in Nat /\ k + 1 \in 1..m BY <1>2
  <2>2. PICK f \in [0..k -> S] : Upto(f, k) BY <2>1
  <2> DEFINE g == [n \in 0..(k + 1) |-> IF n = k + 1 THEN G[k + 1][f[k]] ELSE f[n]]
  <2>3. f[k] \in S /\ G[k + 1] \in [S -> S] BY <2>1, <2>2
  <2>4. G[k + 1][f[k]] \in S BY <2>3
  <2>5. ASSUME NEW n \in 0..(k + 1) PROVE g[n] \in S /\ (n # k + 1 => g[n] = f[n] /\ n \in 0..k)
    <3>1. n # k + 1 => n \in 0..k BY <2>1
    <3> QED BY <2>2, <2>4, <3>1
  <2>6. g \in [0..(k + 1) -> S] BY <2>5
  <2>7. g[k + 1] = G[k + 1][f[k]]
    <3>1. k + 1 \in 0..(k + 1) BY <2>1
    <3> QED BY <3>1
  <2> HIDE DEF g
  <2>8. g[0] = b
    <3>1. 0 \in 0..(k + 1) /\ 0 # k + 1 BY <2>1
    <3> QED BY <2>2, <2>5, <3>1
  <2>9. ASSUME NEW n \in 1..(k + 1) PROVE g[n] = G[n][g[n - 1]]
    <3>1. n \in 0..(k + 1) /\ n - 1 \in 0..(k + 1) /\ n - 1 # k + 1 BY <2>1
    <3>2. g[n - 1] = f[n - 1] BY <2>5, <3>1
    <3>3. CASE n = k + 1
      <4>1. n - 1 = k BY <2>1, <3>3
      <4> QED BY <2>7, <3>2, <3>3, <4>1
    <3>4. CASE n # k + 1
      <4>1. n \in 1..k BY <2>1, <3>4
      <4>2. f[n] = G[n][f[n - 1]] BY <2>2, <4>1
      <4> QED BY <2>5, <3>1, <3>2, <3>4, <4>2
    <3> QED BY <3>3, <3>4
  <2> QED BY <1>2, <2>6, <2>8, <2>9
<1>3. \A s \in 0..m : s \in T
  <2>1. ASSUME NEW s \in 0..m, \A r \in 0..m : r < s => r \in T PROVE s \in T
    <3>1. CASE s = 0 BY <1>1, <3>1
    <3>2. CASE s # 0
      <4>1. s - 1 \in 0..m /\ s - 1 < s /\ (s - 1) + 1 = s BY <3>2
      <4>2. s - 1 \in T BY <2>1, <4>1
      <4> HIDE DEF T
      <4> QED BY <1>2, <4>1, <4>2
    <3> QED BY <3>1, <3>2
  <2> HIDE DEF T
  <2> QED BY <2>1, UpTo
<1>4. m \in T BY <1>3
<1> QED BY <1>4 DEF Unrolls

(***************************************************************************)
(* The check of a declared protocol (SourceProtocol): what has been looked  *)
(* at is what the limits leave of the program, and all of it if it fits.    *)
(***************************************************************************)
DeclaredUses == [operation : Operations, capability : BOOLEAN]
DeclaredFunctions == [kind : STRING, uses : Seq(DeclaredUses)]
DeclaredModules == Seq(DeclaredFunctions)
Programs ==
  [modules : Seq(DeclaredModules), limits : [modules : Int, functions : Int, uses : Int]]
Codes ==
  {"resource_without_cleanup", "side_effect_without_evidence", "parallel_without_bound",
   "time_policy_unplanned", "tool_without_authority", "limit_exceeded"}
Findings == [code : Codes, module : Nat, function : Nat]
Reports == [modules : Nat, functions : Nat, uses : Nat, findings : SUBSET Findings]
Limited(l) == l.modules \in Nat /\ l.functions \in Nat /\ l.uses \in Nat

\* A function that is within its limit and has no gap; and what a finding says of one.
Clean(l, function) == Len(function.uses) <= l.uses /\ Gaps(function.kind, function.uses) = {}
FindingFits(l, modules, x) ==
  x.code # "limit_exceeded" /\ Len(modules[x.module][x.function].uses) <= l.uses =>
    x.code \in Gaps(modules[x.module][x.function].kind, modules[x.module][x.function].uses)

\* A beginning of a sequence.
LEMMA FirstOfTyped ==
  ASSUME NEW S, NEW s \in Seq(S), NEW n \in Nat
  PROVE  /\ FirstOf(s, n) \in Seq(S) /\ Len(FirstOf(s, n)) = IF Len(s) < n THEN Len(s) ELSE n
         /\ \A i \in 1..Len(FirstOf(s, n)) : i \in 1..Len(s) /\ FirstOf(s, n)[i] = s[i]
         /\ Len(s) <= n => FirstOf(s, n) = s
<1> DEFINE k == IF Len(s) < n THEN Len(s) ELSE n
<1>1. k \in Nat /\ k <= Len(s) /\ k \in 0..Len(s) /\ Len(s) \in Nat OBVIOUS
<1>2. FirstOf(s, n) = SubSeq(s, 1, k) BY DEF FirstOf
<1>3. \A i \in 1..k : i \in 1..Len(s) BY <1>1
<1>4. Len(s) <= n => k = Len(s) BY <1>1
<1> HIDE DEF k
<1>5. /\ SubSeq(s, 1, k) \in Seq(S) /\ Len(SubSeq(s, 1, k)) = k
      /\ \A i \in 1..k : SubSeq(s, 1, k)[i] = s[i]
  <2>1. /\ \A i \in 1..k : s[i] \in S BY <1>3
  <2>2. SubSeq(s, 1, k) = [i \in 1..k |-> s[i]]
    <3>1. SubSeq(s, 1, k) = [i \in 1..(1 + k - 1) |-> s[i + 1 - 1]] BY <1>1
    <3> QED BY <1>1, <3>1
  <2>3. [i \in 1..k |-> s[i]] \in [1..k -> S] BY <2>1
  <2> QED BY <1>1, <2>2, <2>3
<1>6. SubSeq(s, 1, Len(s)) = s BY <1>1
<1> QED BY <1>2, <1>3, <1>4, <1>5, <1>6 DEF k

\* One function more is looked at.
LEMMA FunctionChecked ==
  ASSUME NEW l, Limited(l), NEW modules, NEW d \in Reports, NEW f \in Nat, NEW fn \in DeclaredFunctions,
         fn = modules[d.modules][f]
  PROVE  LET e == CheckFunction(l, d, f, fn)
         IN /\ e \in Reports /\ e.modules = d.modules /\ e.functions = d.functions + 1
            /\ d.uses <= d.functions * l.uses => e.uses <= e.functions * l.uses
            /\ e.findings = {} <=> d.findings = {} /\ Clean(l, fn)
            /\ (\A x \in d.findings : FindingFits(l, modules, x)) => \A x \in e.findings : FindingFits(l, modules, x)
<1> DEFINE uses == FirstOf(fn.uses, l.uses)
           gaps == Gaps(fn.kind, uses)
           more == {Finding(code, d.modules, f) : code \in gaps}
           over == IF Len(fn.uses) > l.uses THEN {Exceeded(d.modules, f)} ELSE {}
           e == CheckFunction(l, d, f, fn)
<1>1. /\ d.modules \in Nat /\ d.functions \in Nat /\ d.uses \in Nat /\ d.findings \in SUBSET Findings
      /\ l.uses \in Nat /\ fn.uses \in Seq(DeclaredUses) /\ Len(fn.uses) \in Nat
  BY DEF Reports, Limited, DeclaredFunctions
<1>2. /\ uses \in Seq(DeclaredUses) /\ Len(uses) = IF Len(fn.uses) < l.uses THEN Len(fn.uses) ELSE l.uses
      /\ Len(fn.uses) <= l.uses => uses = fn.uses
  BY <1>1, FirstOfTyped
<1>3. Len(uses) \in Nat /\ Len(uses) <= l.uses
  <2> DEFINE n == Len(uses)
             k == Len(fn.uses)
  <2>1. n = (IF k < l.uses THEN k ELSE l.uses) /\ k \in Nat BY <1>1, <1>2
  <2> HIDE DEF n, k
  <2>2. n \in Nat /\ n <= l.uses BY <1>1, <2>1
  <2> QED BY <2>2 DEF n
<1>4. gaps \subseteq Codes \ {"limit_exceeded"} BY DEF Gaps, Codes
<1>5. e = [d EXCEPT !.functions = @ + 1, !.uses = @ + Len(uses), !.findings = @ \cup more \cup over]
  BY DEF CheckFunction
<1> HIDE DEF uses, gaps
<1>6. more \subseteq Findings /\ over \subseteq Findings
  <2>1. \A code \in Codes : Finding(code, d.modules, f) \in Findings BY <1>1 DEF Finding, Findings
  <2>2. Exceeded(d.modules, f) \in Findings BY <2>1 DEF Exceeded, Codes
  <2> QED BY <1>4, <2>1, <2>2
<1>7. \A x \in more : FindingFits(l, modules, x)
  <2> SUFFICES ASSUME NEW code \in gaps PROVE FindingFits(l, modules, Finding(code, d.modules, f)) OBVIOUS
  <2> DEFINE x == Finding(code, d.modules, f)
  <2>1. x.code = code /\ x.module = d.modules /\ x.function = f BY DEF Finding
  <2> HIDE DEF x
  <2>2. modules[x.module][x.function] = fn BY <2>1
  <2>3. Len(fn.uses) <= l.uses => code \in Gaps(fn.kind, fn.uses) BY <1>2 DEF gaps
  <2>4. FindingFits(l, modules, x) BY <2>1, <2>2, <2>3 DEF FindingFits
  <2> QED BY <2>4 DEF x
<1>8. \A x \in over : FindingFits(l, modules, x)
  <2>1. Exceeded(d.modules, f).code = "limit_exceeded" BY DEF Exceeded, Finding
  <2>2. FindingFits(l, modules, Exceeded(d.modules, f)) BY <2>1 DEF FindingFits
  <2> QED BY <2>2
<1>9. more \cup over = {} <=> Clean(l, fn)
  <2>1. more = {} <=> gaps = {} OBVIOUS
  <2>2. over = {} <=> Len(fn.uses) <= l.uses BY <1>1
  <2>3. Len(fn.uses) <= l.uses => gaps = Gaps(fn.kind, fn.uses) BY <1>2 DEF gaps
  <2> QED BY <2>1, <2>2, <2>3 DEF Clean
<1> HIDE DEF more, over, e
<1>10. /\ e.modules = d.modules /\ e.functions = d.functions + 1 /\ e.uses = d.uses + Len(uses)
       /\ e.findings = d.findings \cup more \cup over
       /\ e \in Reports
  <2>1. /\ d.functions + 1 \in Nat /\ d.uses + Len(uses) \in Nat /\ d.findings \cup more \cup over \in SUBSET Findings
    BY <1>1, <1>3, <1>6
  <2> QED BY <1>5, <2>1 DEF Reports
<1>11. d.uses <= d.functions * l.uses => e.uses <= e.functions * l.uses
  <2> DEFINE a == d.functions
             b == l.uses
             u == d.uses
             n == Len(uses)
  <2>1. a \in Nat /\ b \in Nat /\ u \in Nat /\ n \in Nat /\ n <= b BY <1>1, <1>3
  <2> HIDE DEF a, b, u, n
  <2>2. (a + 1) * b = a * b + b /\ a * b \in Nat BY <2>1
  <2>3. u <= a * b => u + n <= (a + 1) * b BY <2>1, <2>2
  <2> QED BY <1>10, <2>3 DEF a, b, u, n
<1> QED BY <1>7, <1>8, <1>9, <1>10, <1>11 DEF e

\* The functions of a module that are looked at, in turn.
LEMMA CheckSteps ==
  ASSUME NEW l, Limited(l), NEW begun \in Reports, NEW looked \in Seq(DeclaredFunctions)
  PROVE  LET at == CheckFunctions(l, begun, looked)
         IN  at[0] = begun /\ \A f \in 1..Len(looked) : at[f] = CheckFunction(l, at[f - 1], f, looked[f])
<1> DEFINE m == Len(looked)
           G == [f \in 1..m |-> [d \in Reports |-> CheckFunction(l, d, f, looked[f])]]
           By(g) == [f \in 0..m |-> IF f = 0 THEN begun ELSE CheckFunction(l, g[f - 1], f, looked[f])]
           A == CheckFunctions(l, begun, looked)
<1>1. m \in Nat /\ \A f \in 1..m : looked[f] \in DeclaredFunctions OBVIOUS
<1>2. StepsOn(Reports, m, G)
  <2>1. ASSUME NEW f \in 1..m, NEW d \in Reports PROVE CheckFunction(l, d, f, looked[f]) \in Reports
    <3> DEFINE modules == [i \in {d.modules} |-> [j \in {f} |-> looked[f]]]
    <3>1. f \in Nat /\ looked[f] \in DeclaredFunctions /\ modules[d.modules][f] = looked[f] BY <1>1
    <3> HIDE DEF modules, m
    <3> QED BY <3>1, FunctionChecked
  <2> QED BY <2>1 DEF StepsOn
<1>3. \A f \in 1..m, d \in Reports : G[f][d] = CheckFunction(l, d, f, looked[f]) OBVIOUS
<1>4. A = CHOOSE g : g = By(g) BY DEF CheckFunctions
<1> HIDE DEF m, G, A
<1>5. PICK g : Unrolls(g, Reports, begun, m, G) BY <1>1, <1>2, Unrolled
<1>6. ASSUME NEW f \in 0..m PROVE g[f] = IF f = 0 THEN begun ELSE CheckFunction(l, g[f - 1], f, looked[f])
  <2>1. CASE f = 0 BY <1>5, <2>1 DEF Unrolls
  <2>2. CASE f # 0
    <3>1. f \in 1..m /\ f - 1 \in 0..m BY <1>1, <2>2
    <3>2. g[f - 1] \in Reports BY <1>5, <3>1 DEF Unrolls
    <3> QED BY <1>3, <1>5, <2>2, <3>1, <3>2 DEF Unrolls
  <2> QED BY <2>1, <2>2
<1>7. g = By(g)
  <2>1. g = [f \in 0..m |-> g[f]] BY <1>5 DEF Unrolls
  <2> QED BY <1>6, <2>1
<1>8. A = By(A) BY <1>4, <1>7
<1>9. \A f \in 0..m : A[f] = IF f = 0 THEN begun ELSE CheckFunction(l, A[f - 1], f, looked[f]) BY <1>8
<1>10. A[0] = begun
  <2>1. 0 \in 0..m BY <1>1
  <2> QED BY <1>9, <2>1
<1>11. \A f \in 1..m : A[f] = CheckFunction(l, A[f - 1], f, looked[f])
  <2>1. \A f \in 1..m : f \in 0..m /\ f # 0 BY <1>1
  <2> QED BY <1>9, <2>1
<1> QED BY <1>10, <1>11 DEF A, m

\* What the functions of a module add to the report, taken one after the other.
LEMMA FunctionsChecked ==
  ASSUME NEW l, Limited(l), NEW modules, NEW begun \in Reports, NEW looked \in Seq(DeclaredFunctions),
         \A f \in 1..Len(looked) : looked[f] = modules[begun.modules][f],
         begun.uses <= begun.functions * l.uses,
         \A x \in begun.findings : FindingFits(l, modules, x)
  PROVE  LET e == CheckFunctions(l, begun, looked)[Len(looked)]
         IN /\ e \in Reports /\ e.modules = begun.modules /\ e.functions = begun.functions + Len(looked)
            /\ e.uses <= e.functions * l.uses
            /\ e.findings = {} <=> begun.findings = {} /\ \A f \in 1..Len(looked) : Clean(l, looked[f])
            /\ \A x \in e.findings : FindingFits(l, modules, x)
<1> DEFINE A == CheckFunctions(l, begun, looked)
           m == Len(looked)
           Fits(n) ==
             /\ A[n] \in Reports /\ A[n].modules = begun.modules /\ A[n].functions = begun.functions + n
             /\ A[n].uses <= A[n].functions * l.uses
             /\ A[n].findings = {} <=> begun.findings = {} /\ \A f \in 1..n : Clean(l, looked[f])
             /\ \A x \in A[n].findings : FindingFits(l, modules, x)
           T == {n \in 0..m : Fits(n)}
<1>1. A[0] = begun /\ \A f \in 1..m : A[f] = CheckFunction(l, A[f - 1], f, looked[f]) BY CheckSteps
<1>2. m \in Nat /\ \A f \in 1..m : looked[f] \in DeclaredFunctions OBVIOUS
<1> HIDE DEF A
<1>3. Fits(0)
  <2>1. begun.functions \in Nat BY DEF Reports
  <2>2. begun.functions + 0 = begun.functions BY <2>1
  <2>3. \A f \in 1..0 : FALSE OBVIOUS
  <2> QED BY <1>1, <2>2, <2>3
<1>4. ASSUME NEW n \in 1..m, Fits(n - 1) PROVE Fits(n)
  <2>1. n \in Nat /\ n - 1 \in Nat BY <1>2
  <2>2. looked[n] \in DeclaredFunctions /\ looked[n] = modules[A[n - 1].modules][n] BY <1>2, <1>4
  <2> DEFINE d == A[n - 1]
             e == CheckFunction(l, d, n, looked[n])
  <2>3. d \in Reports /\ A[n] = e BY <1>1, <1>4
  <2> HIDE DEF m
  <2>4. /\ e \in Reports /\ e.modules = d.modules /\ e.functions = d.functions + 1
        /\ d.uses <= d.functions * l.uses => e.uses <= e.functions * l.uses
        /\ e.findings = {} <=> d.findings = {} /\ Clean(l, looked[n])
        /\ (\A x \in d.findings : FindingFits(l, modules, x)) => \A x \in e.findings : FindingFits(l, modules, x)
    <3> HIDE DEF d, e
    <3> QED BY <2>1, <2>2, <2>3, FunctionChecked DEF d, e
  <2>5. \A f : f \in 1..n <=> f \in 1..(n - 1) \/ f = n BY <2>1
  <2>6. begun.functions \in Nat BY DEF Reports
  <2>7. (begun.functions + (n - 1)) + 1 = begun.functions + n BY <2>1, <2>6
  <2> HIDE DEF d, e
  <2> QED BY <1>4, <2>3, <2>4, <2>5, <2>7 DEF d
<1> HIDE DEF m, Fits
<1>5. \A n \in 0..m : n \in T
  <2>1. ASSUME NEW s \in 0..m, \A r \in 0..m : r < s => r \in T PROVE s \in T
    <3>1. CASE s = 0 BY <1>3, <3>1
    <3>2. CASE s # 0
      <4>1. s \in 1..m /\ s - 1 \in 0..m /\ s - 1 < s BY <1>2, <3>2
      <4>2. s - 1 \in T BY <2>1, <4>1
      <4> QED BY <1>4, <4>1, <4>2
    <3> QED BY <3>1, <3>2
  <2> HIDE DEF T
  <2> QED BY <1>2, <2>1, UpTo
<1>6. m \in T
  <2>1. m \in 0..m BY <1>2
  <2> QED BY <1>5, <2>1
<1>7. Fits(m) BY <1>6
<1> QED BY <1>7 DEF Fits, A, m

\* How many functions the first modules have.
LEMMA FunctionsCounted ==
  ASSUME NEW modules \in Seq(DeclaredModules)
  PROVE  LET total == FunctionsIn(modules)
         IN  /\ total[0] = 0 /\ \A m \in 0..Len(modules) : total[m] \in Nat
             /\ \A m \in 1..Len(modules) : total[m] = total[m - 1] + Len(modules[m])
<1> DEFINE M == Len(modules)
           G == [m \in 1..M |-> [n \in Nat |-> n + Len(modules[m])]]
           By(g) == [m \in 0..M |-> IF m = 0 THEN 0 ELSE g[m - 1] + Len(modules[m])]
           A == FunctionsIn(modules)
<1>1. M \in Nat /\ \A m \in 1..M : modules[m] \in DeclaredModules /\ Len(modules[m]) \in Nat
  BY DEF DeclaredModules
<1>2. StepsOn(Nat, M, G) BY <1>1 DEF StepsOn
<1>3. \A m \in 1..M, n \in Nat : G[m][n] = n + Len(modules[m]) OBVIOUS
<1>4. A = CHOOSE g : g = By(g) BY DEF FunctionsIn
<1> HIDE DEF M, G, A
<1>5. PICK g : Unrolls(g, Nat, 0, M, G) BY <1>1, <1>2, Unrolled
<1>6. ASSUME NEW m \in 0..M PROVE g[m] = IF m = 0 THEN 0 ELSE g[m - 1] + Len(modules[m])
  <2>1. CASE m = 0 BY <1>5, <2>1 DEF Unrolls
  <2>2. CASE m # 0
    <3>1. m \in 1..M /\ m - 1 \in 0..M BY <1>1, <2>2
    <3>2. g[m - 1] \in Nat BY <1>5, <3>1 DEF Unrolls
    <3> QED BY <1>3, <1>5, <2>2, <3>1, <3>2 DEF Unrolls
  <2> QED BY <2>1, <2>2
<1>7. g = By(g)
  <2>1. g = [m \in 0..M |-> g[m]] BY <1>5 DEF Unrolls
  <2> QED BY <1>6, <2>1
<1>8. A = By(A) BY <1>4, <1>7
<1>9. \A m \in 0..M : A[m] = IF m = 0 THEN 0 ELSE A[m - 1] + Len(modules[m]) BY <1>8
<1>10. A[0] = 0
  <2>1. 0 \in 0..M BY <1>1
  <2> QED BY <1>9, <2>1
<1>11. \A m \in 1..M : A[m] = A[m - 1] + Len(modules[m])
  <2>1. \A m \in 1..M : m \in 0..M /\ m # 0 BY <1>1
  <2> QED BY <1>9, <2>1
<1> DEFINE T == {m \in 0..M : A[m] \in Nat}
<1>12. \A m \in 0..M : m \in T
  <2>1. ASSUME NEW s \in 0..M, \A r \in 0..M : r < s => r \in T PROVE s \in T
    <3>1. CASE s = 0 BY <1>10, <3>1
    <3>2. CASE s # 0
      <4>1. s \in 1..M /\ s - 1 \in 0..M /\ s - 1 < s BY <1>1, <3>2
      <4>2. A[s - 1] \in Nat BY <2>1, <4>1
      <4>3. A[s] = A[s - 1] + Len(modules[s]) /\ Len(modules[s]) \in Nat BY <1>1, <1>11, <4>1
      <4> QED BY <4>2, <4>3
    <3> QED BY <3>1, <3>2
  <2> HIDE DEF T
  <2> QED BY <1>1, <2>1, UpTo
<1> QED BY <1>10, <1>11, <1>12 DEF A, M

\* What has been looked at after the first m modules, in a program of at most as many as
\* the limit.
Totalled(l, d, total) == d.functions = IF total <= l.functions THEN total ELSE l.functions
ModulesClean(l, modules, m) ==
  \A i \in 1..m : \A f \in 1..Len(modules[i]) : Clean(l, modules[i][f])
Looked(l, modules, first, d, m) ==
  /\ d \in Reports /\ d.modules = m /\ Totalled(l, d, FunctionsIn(modules)[m])
  /\ d.uses <= d.functions * l.uses
  /\ d.findings = {} <=> first = {} /\ FunctionsIn(modules)[m] <= l.functions /\ ModulesClean(l, modules, m)
  /\ \A x \in d.findings : FindingFits(l, modules, x)

\* One module more is looked at, as far as its functions are within the limit.
LEMMA ModuleBegun ==
  ASSUME NEW l, Limited(l), NEW modules, NEW d \in Reports, NEW module \in DeclaredModules,
         d.functions <= l.functions, d.uses <= d.functions * l.uses,
         \A x \in d.findings : FindingFits(l, modules, x)
  PROVE  LET e == BeginModule(l, d, module)
         IN /\ e \in Reports /\ e.modules = d.modules + 1 /\ e.functions = d.functions
            /\ e.uses <= e.functions * l.uses
            /\ e.findings = {} <=> d.findings = {} /\ d.functions + Len(module) <= l.functions
            /\ \A x \in e.findings : FindingFits(l, modules, x)
<1> DEFINE over == IF d.functions + Len(module) > l.functions THEN {Exceeded(d.modules + 1, 0)} ELSE {}
           e == BeginModule(l, d, module)
<1>1. /\ d.modules \in Nat /\ d.functions \in Nat /\ d.uses \in Nat /\ d.findings \in SUBSET Findings
      /\ l.functions \in Nat /\ Len(module) \in Nat
  BY DEF Reports, Limited, DeclaredModules
<1>2. e = [d EXCEPT !.modules = @ + 1, !.findings = @ \cup over] BY DEF BeginModule
<1>3. Exceeded(d.modules + 1, 0) \in Findings BY <1>1 DEF Exceeded, Finding, Findings, Codes
<1>4. FindingFits(l, modules, Exceeded(d.modules + 1, 0))
  <2>1. Exceeded(d.modules + 1, 0).code = "limit_exceeded" BY DEF Exceeded, Finding
  <2> QED BY <2>1 DEF FindingFits
<1>5. over = {} <=> d.functions + Len(module) <= l.functions BY <1>1
<1>6. over \subseteq Findings /\ \A x \in over : FindingFits(l, modules, x) BY <1>3, <1>4
<1> HIDE DEF over, e
<1>7. /\ e \in Reports /\ e.modules = d.modules + 1 /\ e.functions = d.functions /\ e.uses = d.uses
      /\ e.findings = d.findings \cup over
  <2>1. d.modules + 1 \in Nat /\ d.findings \cup over \in SUBSET Findings BY <1>1, <1>6
  <2> QED BY <1>2, <2>1 DEF Reports
<1> QED BY <1>5, <1>6, <1>7 DEF e

\* After a module more the report says of all modules so far what it is to say.
LEMMA ModuleChecked ==
  ASSUME NEW l, Limited(l), NEW modules \in Seq(DeclaredModules), NEW first,
         NEW m \in 1..Len(modules), NEW d, Looked(l, modules, first, d, m - 1)
  PROVE  Looked(l, modules, first, CheckModule(l, d, modules[m]), m)
<1> DEFINE module == modules[m]
           left == FunctionsLeft(l, d)
           looked == FirstOf(module, left)
           b == BeginModule(l, d, module)
           e == CheckFunctions(l, b, looked)[Len(looked)]
           n == Len(module)
           T == FunctionsIn(modules)[m]
           S == FunctionsIn(modules)[m - 1]
<1>1. m \in Nat /\ m - 1 \in Nat /\ m - 1 \in 0..Len(modules) /\ module \in DeclaredModules /\ n \in Nat
  BY DEF DeclaredModules
<1>2. T = S + n /\ S \in Nat /\ T \in Nat
  <2>1. m \in 0..Len(modules) OBVIOUS
  <2> QED BY <1>1, <2>1, FunctionsCounted
<1>3. CheckModule(l, d, module) = e BY DEF CheckModule
<1>4. /\ d \in Reports /\ d.modules = m - 1 /\ d.functions = (IF S <= l.functions THEN S ELSE l.functions)
      /\ d.uses <= d.functions * l.uses
      /\ d.findings = {} <=> first = {} /\ S <= l.functions /\ ModulesClean(l, modules, m - 1)
      /\ \A x \in d.findings : FindingFits(l, modules, x)
  BY DEF Looked, Totalled
<1>5. l.functions \in Nat BY DEF Limited
<1>6. d.functions <= l.functions /\ d.functions \in Nat
  <2> HIDE DEF S, T, n, module
  <2> QED BY <1>2, <1>4, <1>5
<1>7. left = l.functions - d.functions /\ left \in Nat BY <1>5, <1>6 DEF FunctionsLeft
<1> HIDE DEF left, n, S, T, module
<1>8. /\ b \in Reports /\ b.modules = d.modules + 1 /\ b.functions = d.functions
      /\ b.uses <= b.functions * l.uses
      /\ b.findings = {} <=> d.findings = {} /\ d.functions + n <= l.functions
      /\ \A x \in b.findings : FindingFits(l, modules, x)
  BY <1>1, <1>4, <1>6, ModuleBegun DEF n
<1>9. /\ looked \in Seq(DeclaredFunctions) /\ Len(looked) = (IF n < left THEN n ELSE left)
      /\ \A f \in 1..Len(looked) : looked[f] = module[f]
      /\ n <= left => looked = module
  BY <1>1, <1>7, FirstOfTyped DEF n, DeclaredModules
<1>10. b.modules = m BY <1>1, <1>4, <1>8
<1> HIDE DEF b, looked, e
<1>11. /\ e \in Reports /\ e.modules = b.modules /\ e.functions = b.functions + Len(looked)
       /\ e.uses <= e.functions * l.uses
       /\ e.findings = {} <=> b.findings = {} /\ \A f \in 1..Len(looked) : Clean(l, looked[f])
       /\ \A x \in e.findings : FindingFits(l, modules, x)
  <2>1. \A f \in 1..Len(looked) : looked[f] = modules[b.modules][f] BY <1>9, <1>10 DEF module
  <2> QED BY <1>8, <1>9, <2>1, FunctionsChecked DEF e
<1>12. Totalled(l, e, T)
  <2> DEFINE k == Len(looked)
             L == l.functions
             df == d.functions
             ef == e.functions
  <2>1. /\ k = (IF n < left THEN n ELSE left) /\ left = L - df /\ df = (IF S <= L THEN S ELSE L)
        /\ ef = df + k /\ T = S + n /\ S \in Nat /\ n \in Nat /\ L \in Nat
    BY <1>1, <1>2, <1>4, <1>5, <1>7, <1>8, <1>9, <1>11
  <2> HIDE DEF k, L, df, ef, n, S, T, left
  <2>2. ef = IF T <= L THEN T ELSE L
    <3>1. CASE S <= L /\ n < left BY <2>1, <3>1
    <3>2. CASE S <= L /\ ~(n < left) BY <2>1, <3>2
    <3>3. CASE ~(S <= L)
      <4>1. df = L /\ left = 0 BY <2>1, <3>3
      <4>2. k = 0 BY <2>1, <4>1
      <4> QED BY <2>1, <3>3, <4>1, <4>2
    <3> QED BY <3>1, <3>2, <3>3
  <2> QED BY <2>2 DEF ef, L, Totalled
<1>13. S <= l.functions /\ d.functions + n <= l.functions <=> T <= l.functions
  BY <1>1, <1>2, <1>4, <1>5
<1>14. T <= l.functions => looked = module
  <2>1. T <= l.functions => n <= left BY <1>1, <1>2, <1>4, <1>5, <1>7
  <2> QED BY <1>9, <2>1
<1>15. e.findings = {} <=> first = {} /\ T <= l.functions /\ ModulesClean(l, modules, m)
  <2>1. ModulesClean(l, modules, m) <=>
          ModulesClean(l, modules, m - 1) /\ \A f \in 1..Len(module) : Clean(l, module[f])
    <3>1. \A i : i \in 1..m <=> i \in 1..(m - 1) \/ i = m BY <1>1
    <3> QED BY <3>1 DEF ModulesClean, module
  <2>2. T <= l.functions => S <= l.functions BY <1>1, <1>2, <1>5
  <2> QED BY <1>4, <1>8, <1>11, <1>13, <1>14, <2>1, <2>2
<1>16. Looked(l, modules, first, e, m) BY <1>10, <1>11, <1>12, <1>15 DEF Looked, T
<1> QED BY <1>3, <1>16 DEF module

\* The modules that are looked at, in turn.
LEMMA ModulesChecked ==
  ASSUME NEW l, Limited(l), NEW modules \in Seq(DeclaredModules), NEW first, NEW begun,
         NEW looked \in Seq(DeclaredModules), Len(looked) <= Len(modules),
         \A m \in 1..Len(looked) : looked[m] = modules[m],
         Looked(l, modules, first, begun, 0)
  PROVE  Looked(l, modules, first, CheckModules(l, begun, looked)[Len(looked)], Len(looked))
<1> DEFINE M == Len(looked)
           Fits(d, m) == Looked(l, modules, first, d, m)
           Step(m, d) == IF Fits(d, m - 1) THEN CheckModule(l, d, looked[m]) ELSE begun
           G == [m \in 1..M |-> [d \in Reports |-> Step(m, d)]]
           By(g) == [m \in 0..M |-> IF m = 0 THEN begun ELSE CheckModule(l, g[m - 1], looked[m])]
           A == CheckModules(l, begun, looked)
<1>1. M \in Nat /\ begun \in Reports /\ \A m \in 1..M : m \in 1..Len(modules) BY DEF Looked
<1>2. ASSUME NEW m \in 1..M, NEW d, Fits(d, m - 1) PROVE Fits(CheckModule(l, d, looked[m]), m)
  <2>1. m \in 1..Len(modules) /\ looked[m] = modules[m] BY <1>1
  <2> HIDE DEF M
  <2> QED BY <1>2, <2>1, ModuleChecked
<1>3. StepsOn(Reports, M, G)
  <2>1. ASSUME NEW m \in 1..M, NEW d \in Reports PROVE Step(m, d) \in Reports
    <3>1. CASE Fits(d, m - 1) BY <1>2, <3>1 DEF Looked
    <3>2. CASE ~Fits(d, m - 1) BY <1>1, <3>2
    <3> QED BY <3>1, <3>2
  <2> HIDE DEF Step, M
  <2> QED BY <2>1 DEF StepsOn
<1>4. \A m \in 1..M, d \in Reports : G[m][d] = Step(m, d) OBVIOUS
<1>5. A = CHOOSE g : g = By(g) BY DEF CheckModules
<1> HIDE DEF M, G, A, Fits, Step
<1>6. PICK g : Unrolls(g, Reports, begun, M, G) BY <1>1, <1>3, Unrolled
<1> DEFINE T == {m \in 0..M : Fits(g[m], m)}
<1>7. Fits(g[0], 0) BY <1>6 DEF Unrolls, Fits
<1>8. ASSUME NEW m \in 1..M, Fits(g[m - 1], m - 1) PROVE g[m] = CheckModule(l, g[m - 1], looked[m])
  <2>1. m - 1 \in 0..M BY <1>1
  <2>2. g[m - 1] \in Reports BY <1>6, <2>1 DEF Unrolls
  <2> QED BY <1>4, <1>6, <1>8, <2>2 DEF Unrolls, Step
<1>9. \A m \in 0..M : m \in T
  <2>1. ASSUME NEW s \in 0..M, \A r \in 0..M : r < s => r \in T PROVE s \in T
    <3>1. CASE s = 0 BY <1>7, <3>1
    <3>2. CASE s # 0
      <4>1. s \in 1..M /\ s - 1 \in 0..M /\ s - 1 < s BY <1>1, <3>2
      <4>2. Fits(g[s - 1], s - 1) BY <2>1, <4>1
      <4> QED BY <1>2, <1>8, <4>1, <4>2
    <3> QED BY <3>1, <3>2
  <2> HIDE DEF T
  <2> QED BY <1>1, <2>1, UpTo
<1>10. ASSUME NEW m \in 0..M PROVE g[m] = IF m = 0 THEN begun ELSE CheckModule(l, g[m - 1], looked[m])
  <2>1. CASE m = 0 BY <1>6, <2>1 DEF Unrolls
  <2>2. CASE m # 0
    <3>1. m \in 1..M /\ m - 1 \in 0..M BY <1>1, <2>2
    <3>2. Fits(g[m - 1], m - 1) BY <1>9, <3>1
    <3> QED BY <1>8, <2>2, <3>1, <3>2
  <2> QED BY <2>1, <2>2
<1>11. g = By(g)
  <2>1. g = [m \in 0..M |-> g[m]] BY <1>6 DEF Unrolls
  <2> QED BY <1>10, <2>1
<1>12. A = By(A) BY <1>5, <1>11
<1>13. \A m \in 0..M : A[m] = IF m = 0 THEN begun ELSE CheckModule(l, A[m - 1], looked[m]) BY <1>12
<1> DEFINE U == {m \in 0..M : Fits(A[m], m)}
<1>14. \A m \in 0..M : m \in U
  <2>1. ASSUME NEW s \in 0..M, \A r \in 0..M : r < s => r \in U PROVE s \in U
    <3>1. CASE s = 0
      <4>1. A[0] = begun BY <1>13, <3>1
      <4>2. g[0] = begun BY <1>6 DEF Unrolls
      <4> QED BY <1>7, <3>1, <4>1, <4>2
    <3>2. CASE s # 0
      <4>1. s \in 1..M /\ s - 1 \in 0..M /\ s - 1 < s BY <1>1, <3>2
      <4>2. Fits(A[s - 1], s - 1) BY <2>1, <4>1
      <4>3. A[s] = CheckModule(l, A[s - 1], looked[s]) BY <1>13, <3>2
      <4> QED BY <1>2, <4>1, <4>2, <4>3
    <3> QED BY <3>1, <3>2
  <2> HIDE DEF U
  <2> QED BY <1>1, <2>1, UpTo
<1>15. M \in 0..M BY <1>1
<1>16. Fits(A[M], M) BY <1>14, <1>15
<1> QED BY <1>16 DEF A, M, Fits

\* What is to be shown of a declared protocol.
ProtocolSound(p) ==
  LimitsValid(p.limits) =>
    LET modules == p.modules
        limits == p.limits
        report == VerifySourceProtocol(modules, limits)
    IN /\ ProtocolStatus(report) = "pass" <=>
            /\ FitsLimits(modules, limits)
            /\ \A m \in DOMAIN modules : \A f \in DOMAIN modules[m] :
                 Gaps(modules[m][f].kind, modules[m][f].uses) = {}
       /\ report.modules <= limits.modules /\ report.functions <= limits.functions
       /\ report.uses <= report.functions * limits.uses
       /\ ProtocolStatus(report) = "pass" =>
            report.modules = Len(modules) /\ report.functions = FunctionsIn(modules)[Len(modules)]
       /\ \A x \in report.findings : FindingFits(limits, modules, x)

\* The report of any declared protocol keeps the promise.
LEMMA ProtocolChecked ==
  ASSUME NEW p \in Programs
  PROVE  ProtocolSound(p)
<1> SUFFICES ASSUME LimitsValid(p.limits) PROVE ProtocolSound(p) BY DEF ProtocolSound
<1> DEFINE modules == p.modules
           l == p.limits
           over == IF Len(modules) > l.modules THEN {Exceeded(0, 0)} ELSE {}
           begun == [NothingChecked EXCEPT !.findings = over]
           looked == FirstOf(modules, l.modules)
           K == Len(looked)
           N == Len(modules)
           total == FunctionsIn(modules)
           report == VerifySourceProtocol(modules, l)
<1>1. modules \in Seq(DeclaredModules) /\ N \in Nat BY DEF Programs
<1>2. Limited(l)
  <2>1. l \in [modules : Int, functions : Int, uses : Int] BY DEF Programs
  <2>2. l.modules >= 1 /\ l.functions >= 1 /\ l.uses >= 1 BY <2>1 DEF LimitsValid
  <2> QED BY <2>1, <2>2 DEF Limited
<1>3. l.modules \in Nat /\ l.functions \in Nat /\ l.uses \in Nat BY <1>2 DEF Limited
<1>4. /\ looked \in Seq(DeclaredModules) /\ K = (IF N < l.modules THEN N ELSE l.modules)
      /\ \A m \in 1..K : looked[m] = modules[m]
  BY <1>1, <1>3, FirstOfTyped
<1>5. report = CheckModules(l, begun, looked)[K] BY DEF VerifySourceProtocol
<1>6. total[0] = 0 BY <1>1, FunctionsCounted
<1>7. over = {} <=> N <= l.modules BY <1>1, <1>3
<1>8. Looked(l, modules, over, begun, 0)
  <2>1. over \subseteq Findings /\ \A x \in over : FindingFits(l, modules, x)
    <3>1. Exceeded(0, 0) \in Findings /\ Exceeded(0, 0).code = "limit_exceeded"
      BY DEF Exceeded, Finding, Findings, Codes
    <3> QED BY <3>1 DEF FindingFits
  <2> HIDE DEF over, l, modules
  <2>2. begun = [modules |-> 0, functions |-> 0, uses |-> 0, findings |-> over] BY DEF NothingChecked
  <2>3. begun \in Reports BY <2>1, <2>2 DEF Reports
  <2>4. Totalled(l, begun, total[0]) BY <1>3, <1>6, <2>2 DEF Totalled
  <2>5. begun.uses <= begun.functions * l.uses BY <1>3, <2>2
  <2>6. ModulesClean(l, modules, 0) BY DEF ModulesClean
  <2>7. total[0] <= l.functions BY <1>3, <1>6
  <2> QED BY <2>1, <2>2, <2>3, <2>4, <2>5, <2>6, <2>7 DEF Looked
<1> HIDE DEF over, begun, looked, report, modules, l
<1>9. K <= N /\ K \in Nat /\ K <= l.modules /\ (N <= l.modules => K = N) BY <1>1, <1>3, <1>4
<1>10. Looked(l, modules, over, report, K) BY <1>1, <1>2, <1>4, <1>5, <1>8, <1>9, ModulesChecked
<1>11. K \in 0..N /\ N \in 0..N BY <1>1, <1>9
<1>12. total[K] \in Nat BY <1>1, <1>11, FunctionsCounted
<1> HIDE DEF K, N, total
<1>13. /\ report \in Reports /\ report.modules = K
       /\ report.functions = (IF total[K] <= l.functions THEN total[K] ELSE l.functions)
       /\ report.uses <= report.functions * l.uses
       /\ report.findings = {} <=> over = {} /\ total[K] <= l.functions /\ ModulesClean(l, modules, K)
       /\ \A x \in report.findings : FindingFits(l, modules, x)
  BY <1>10 DEF Looked, Totalled, total
<1>14. report.functions <= l.functions BY <1>3, <1>12, <1>13
<1>15. ProtocolStatus(report) = "pass" <=> report.findings = {} BY DEF ProtocolStatus
<1>16. ModulesClean(l, modules, N) <=>
         /\ \A m \in DOMAIN modules : \A f \in DOMAIN modules[m] : Len(modules[m][f].uses) <= l.uses
         /\ \A m \in DOMAIN modules : \A f \in DOMAIN modules[m] :
              Gaps(modules[m][f].kind, modules[m][f].uses) = {}
  <2>1. DOMAIN modules = 1..N BY <1>1 DEF N
  <2>2. \A m \in 1..N : DOMAIN modules[m] = 1..Len(modules[m])
    <3>1. \A m \in 1..N : modules[m] \in DeclaredModules BY <1>1 DEF N
    <3> QED BY <3>1 DEF DeclaredModules
  <2> QED BY <2>1, <2>2 DEF ModulesClean, Clean
<1>17. report.findings = {} <=>
         /\ FitsLimits(modules, l)
         /\ \A m \in DOMAIN modules : \A f \in DOMAIN modules[m] :
              Gaps(modules[m][f].kind, modules[m][f].uses) = {}
  <2>1. report.findings = {} <=> N <= l.modules /\ total[N] <= l.functions /\ ModulesClean(l, modules, N)
    BY <1>7, <1>9, <1>13
  <2> QED BY <1>16, <2>1 DEF FitsLimits, N, total
<1>18. report.findings = {} => report.modules = N /\ report.functions = total[N]
  <2>1. report.findings = {} => N <= l.modules /\ K = N /\ total[K] <= l.functions BY <1>7, <1>9, <1>13
  <2> QED BY <1>13, <2>1
<1> QED BY <1>9, <1>13, <1>14, <1>15, <1>17, <1>18 DEF ProtocolSound, report, modules, l, N, total

\* Of every declared protocol: it passes if and only if it is within its limits and has
\* no gap, and what was looked at is within the limits however large it is.
THEOREM ProtocolsAreTrue ==
  ASSUME NEW CONSTANT inputs \in SUBSET Programs
  PROVE  ProtocolInit(inputs) /\ [][UNCHANGED protocol]_protocol => []ProtocolTruth
<1> DEFINE Inv == protocol \in Programs
<1>1. ProtocolInit(inputs) => Inv BY DEF ProtocolInit
<1>2. Inv /\ [UNCHANGED protocol]_protocol => Inv' OBVIOUS
<1>3. Inv => ProtocolTruth
  <2>1. Inv => ProtocolSound(protocol) BY ProtocolChecked
  <2> QED BY <2>1 DEF ProtocolSound, ProtocolTruth, FindingFits
<1> QED BY <1>1, <1>2, <1>3, PTL

\* Whatever is reported of a run is what it came to: the verdicts of the fault lab, the
\* previews and runs of any scenarios, what is imported, what the site shows, and the
\* check of any declared protocol.
THEOREM ReportsAreTrue ==
  ASSUME NEW CONSTANT inputs, NEW CONSTANT links \in SUBSET SiteLinks,
         NEW CONSTANT programs \in SUBSET Programs
  PROVE  ReportsSpec(FaultScenarios, inputs, links, programs) => []ReportsTruth
<1>1. FaultInit(FaultScenarios, Nat, BOOLEAN) /\ [][FaultNext]_faultVars => []FaultTruth BY FaultsAreTrue
<1>2. LabInit(inputs) /\ [][UNCHANGED labInput]_labInput => []LabTruth BY LabsAreTrue
<1>3. FetchInit({"issues", "weather"}, BOOLEAN) /\ [][FetchNext]_fetVars => []FetchTruth
  <2>1. {"issues", "weather"} \in SUBSET {"weather", "issues"} OBVIOUS
  <2> QED BY <2>1, ImportsAreTrue
<1>4. SiteInit(links) /\ [][SiteNext]_siteVars => []SiteTruth BY SiteIsTrue
<1>5. ProtocolInit(programs) /\ [][UNCHANGED protocol]_protocol => []ProtocolTruth BY ProtocolsAreTrue
<1>6. FaultTruth /\ LabTruth /\ FetchTruth /\ SiteTruth /\ ProtocolTruth => ReportsTruth BY DEF ReportsTruth
<1> QED BY <1>1, <1>2, <1>3, <1>4, <1>5, <1>6, PTL DEF ReportsSpec
=============================================================================

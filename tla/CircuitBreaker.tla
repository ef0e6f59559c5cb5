--------------------------- MODULE CircuitBreaker ---------------------------
(***************************************************************************)
(* run.circuitBreaker of @workit/core (run/index.ts): one breaker shared   *)
(* by every call of the wrapped task.                                      *)
(*                                                                         *)
(* What the wrapper does before it awaits the task is one step, what it    *)
(* does when the task settles another; calls overlap freely between them.  *)
(* A refused call throws and changes nothing, so it is no step.  The clock *)
(* is Date.now() in units of which resetAfter is a multiple.  A call is    *)
(* one of finitely many callers, which call again and again.               *)
(***************************************************************************)
EXTENDS Naturals, FiniteSets

CONSTANTS
  Calls,             \* those that call the wrapped task
  Cancellable,       \* those whose task may end with a CancellationError
  FailureThreshold, ResetAfter, MaxHalfOpenCalls,  \* the options
  MaxTime, MaxEpoch  \* bounds on the clock and on the number of recoveries tried

ASSUME BreakerAssumption ==
  /\ Cancellable \subseteq Calls /\ IsFiniteSet(Calls)
  /\ FailureThreshold \in Nat \ {0} /\ MaxHalfOpenCalls \in Nat \ {0}
  /\ ResetAfter \in Nat /\ MaxTime \in Nat /\ MaxEpoch \in Nat

VARIABLES
  now,       \* the clock
  state,     \* "closed", "open", "half_open" for 0, 1, 2
  failures, openedUntil, epoch, admitted,
  running,   \* the calls that await the task
  halfOpenEpoch,  \* of a running call: the epoch it probes, 0 when it is no probe
  overtaken  \* history: the running calls during which the breaker has opened

breaker == <<state, failures, openedUntil, epoch, admitted>>
vars == <<now, breaker, running, halfOpenEpoch, overtaken>>

TypeOK ==
  /\ now \in 0..MaxTime
  /\ state \in {"closed", "open", "half_open"}
  /\ failures \in 0..FailureThreshold
  /\ openedUntil \in 0..(MaxTime + ResetAfter)
  /\ epoch \in 0..MaxEpoch
  /\ admitted \in 0..MaxHalfOpenCalls
  /\ running \in SUBSET Calls
  /\ halfOpenEpoch \in [Calls -> 0..MaxEpoch]
  /\ overtaken \in SUBSET running

Init ==
  /\ now = 0
  /\ state = "closed" /\ failures = 0 /\ openedUntil = 0 /\ epoch = 0 /\ admitted = 0
  /\ running = {} /\ halfOpenEpoch = [c \in Calls |-> 0] /\ overtaken = {}
----------------------------------------------------------------------------
Run(c, probed) ==
  /\ running' = running \cup {c}
  /\ halfOpenEpoch' = [halfOpenEpoch EXCEPT ![c] = probed]
  /\ UNCHANGED <<now, failures, openedUntil, overtaken>>

\* A call of a closed breaker.
CallClosed(c) ==
  /\ c \notin running /\ state = "closed"
  /\ Run(c, 0)
  /\ UNCHANGED <<state, epoch, admitted>>

\* A call of a breaker that was open long enough: it half-opens the breaker and
\* is its first probe.
CallProbesFirst(c) ==
  /\ c \notin running /\ state = "open" /\ now >= openedUntil
  /\ epoch < MaxEpoch
  /\ state' = "half_open" /\ epoch' = epoch + 1 /\ admitted' = 1
  /\ Run(c, epoch + 1)

\* A further probe of a half-open breaker.
ProbeUncounted(n) == n
ProbeCounted(n) == n + 1
CallProbes(c) ==
  /\ c \notin running /\ state = "half_open" /\ admitted < MaxHalfOpenCalls
  /\ admitted' = ProbeCounted(admitted)
  /\ Run(c, epoch)
  /\ UNCHANGED <<state, epoch>>

\* open(), close(); halfOpen() is part of CallProbesFirst.
OpenBreaker ==
  /\ state' = "open" /\ openedUntil' = now + ResetAfter
  /\ overtaken' = running'

CloseBreaker ==
  /\ state' = "closed" /\ failures' = 0
  /\ overtaken' = overtaken \cap running'

Return(c) ==
  /\ c \in running /\ running' = running \ {c}
  /\ UNCHANGED <<now, epoch, admitted, halfOpenEpoch>>

KeepBreaker ==
  /\ overtaken' = overtaken \cap running'
  /\ UNCHANGED <<state, failures, openedUntil>>

\* A probe's success closes the breaker if it is still half open in its epoch; a
\* success of another call resets the failures of a closed breaker.
ProbesWhatever(c) == halfOpenEpoch[c] > 0
ProbesAnEarlier(c) == state = "half_open" /\ epoch > halfOpenEpoch[c]
ProbesNow(c) == state = "half_open" /\ epoch = halfOpenEpoch[c]
Succeed(c) ==
  /\ Return(c)
  /\ IF (IF halfOpenEpoch[c] > 0 THEN ProbesNow(c) ELSE state = "closed")
       THEN CloseBreaker /\ UNCHANGED openedUntil
       ELSE KeepBreaker

\* A probe's failure opens the breaker as long as no newer epoch began, even
\* after another probe closed it; a failure of another call counts when closed.
ExceedsThreshold == failures + 1 > FailureThreshold
ReachesThreshold == failures + 1 >= FailureThreshold
Fail(c) ==
  /\ Return(c)
  /\ IF halfOpenEpoch[c] > 0
       THEN IF halfOpenEpoch[c] = epoch THEN OpenBreaker /\ UNCHANGED failures ELSE KeepBreaker
       ELSE IF state # "closed" THEN KeepBreaker
       ELSE /\ failures' = failures + 1
            /\ IF ReachesThreshold THEN OpenBreaker
               ELSE /\ overtaken' = overtaken \cap running'
                    /\ UNCHANGED <<state, openedUntil>>

\* A cancelled call leaves the breaker alone, also the count of admitted probes.
Cancelled(c) ==
  /\ c \in Cancellable
  /\ Return(c) /\ KeepBreaker

Tick ==
  /\ now < MaxTime /\ now' = now + 1
  /\ UNCHANGED <<breaker, running, halfOpenEpoch, overtaken>>

Call(c) == CallClosed(c) \/ CallProbesFirst(c) \/ CallProbes(c)
End(c) == Succeed(c) \/ Fail(c) \/ Cancelled(c)
Next == (\E c \in Calls : Call(c) \/ End(c)) \/ Tick

\* Callers keep calling, tasks end and time passes.
Fairness ==
  /\ WF_vars(\E c \in Calls : Call(c))
  /\ \A c \in Calls : WF_vars(End(c))
  /\ WF_vars(Tick)

Spec == Init /\ [][Next]_vars
FairSpec == Spec /\ Fairness
----------------------------------------------------------------------------
\* The probes of a half-open breaker that run at a time are at most
\* halfOpenMaxCalls, whatever was cancelled and whatever still runs of earlier
\* epochs; a closed breaker is always short of its threshold.
ProbesBounded ==
  /\ state = "half_open" =>
       Cardinality({c \in running : halfOpenEpoch[c] = epoch}) <= MaxHalfOpenCalls
  /\ state = "closed" => failures < FailureThreshold

\* A call during which the breaker opened never closes it: what is known of the
\* service is older than the trouble.  Nor does anything end the open state
\* before its time.
NoStaleRecovery ==
  [][ /\ state # "closed" /\ state' = "closed" => \A c \in running \ running' : c \notin overtaken
      /\ state = "open" /\ state' # "open" => now >= openedUntil ]_vars

\* A probe that ends without being cancelled decides: the breaker does not stay
\* half open.
ProbeDecides ==
  \A c \in Calls \ Cancellable :
    (state = "half_open" /\ c \in running /\ halfOpenEpoch[c] = epoch) ~> state # "half_open"

\* The breaker "recovers after reset" (packages/core/tests/unit/run.test.js:381):
\* a half-open breaker that is called closes or opens again.
LeavesHalfOpen == state = "half_open" ~> state # "half_open"
=============================================================================

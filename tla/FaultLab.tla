------------------------------ MODULE FaultLab ------------------------------
(***************************************************************************)
(* fault/index.ts: a scenario is run in a group of its own, a recorder with *)
(* a window of maxEvents notes what the engine emits, and the report says   *)
(* from these events whether the injected fault was seen and survived.      *)
(*                                                                          *)
(* The group may run in a scope of the caller, which is cancelled before it *)
(* or at any moment.  Of two timers the shorter one fires first, and equal  *)
(* ones in either order.                                                    *)
(***************************************************************************)
EXTENDS Naturals, Sequences, FiniteSets

VARIABLES
  faultScenario,  \* kind, and count, first and second: what its kind makes of them
  faultWindow,    \* maxEvents
  faultTask,      \* of each task: unborn, running, cleaning, or how it settled
  faultCalls,     \* invocations of the body that retry wraps
  faultEvents,    \* the types of the events in the window
  faultDropped,   \* events that no longer fit
  faultClosing,   \* none, or the reason of the scope's closing
  faultOuter,     \* the caller's scope is cancelled
  faultError,     \* none, or what group() threw
  faultReport     \* pending, pass or fail

faultVars == <<faultScenario, faultWindow, faultTask, faultCalls, faultEvents, faultDropped,
               faultClosing, faultOuter, faultError, faultReport>>

\* cancellation_storm: count workers of duration second are cancelled after first.
\* provider_timeout: a timeout of first against a latency of second.
\* retry_exhaustion: count attempts.  cleanup_hang: one task, one cleanup.
Kind(kind) == faultScenario.kind = kind
FaultTasks == 1..(IF Kind("cancellation_storm") THEN faultScenario.count ELSE 1)

\* The builders refuse what could not show the fault; a storm they take as it is.
Buildable(s) ==
  /\ s.kind \in {"cancellation_storm", "retry_exhaustion"} => s.count >= 1
  /\ s.kind = "cancellation_storm" => s.second > 0
  /\ s.kind = "provider_timeout" => s.first > 0 /\ s.second > s.first

FaultInit(scenarios, windows, outers) ==
  /\ faultScenario \in scenarios /\ faultWindow \in windows
  /\ faultTask = [i \in FaultTasks |-> "unborn"] /\ faultCalls = 0
  /\ faultEvents = <<>> /\ faultDropped = 0 /\ faultClosing = "none"
  /\ faultOuter \in outers /\ faultError = "none" /\ faultReport = "pending"
----------------------------------------------------------------------------
\* The recorder keeps the first events.
FaultRecord(new) ==
  LET all == faultEvents \o new
      room == IF Len(all) < faultWindow THEN Len(all) ELSE faultWindow
  IN faultEvents' = SubSeq(all, 1, room) /\ faultDropped' = faultDropped + Len(all) - room
Begun == \E i \in FaultTasks : faultTask[i] # "unborn"
Active(stages) == {i \in FaultTasks : faultTask[i] \in stages}
Becomes(i, stage) == faultTask' = [faultTask EXCEPT ![i] = stage]

\* execute...: the tasks are spawned, unless the group began cancelled, before
\* the recorder could see it.
Begin ==
  /\ ~Begun /\ faultError = "none"
  /\ IF faultOuter
       THEN /\ faultError' = "spawn" /\ faultClosing' = "cancelled"
            /\ UNCHANGED <<faultTask, faultEvents, faultDropped>>
       ELSE /\ faultTask' = [i \in FaultTasks |-> "running"]
            /\ FaultRecord([i \in FaultTasks |-> "started"])
            /\ UNCHANGED <<faultError, faultClosing>>
  /\ UNCHANGED <<faultScenario, faultWindow, faultCalls, faultOuter, faultReport>>

\* executeCancellationStorm: the scope is cancelled, unless it is already.
StormCancels ==
  /\ Kind("cancellation_storm") /\ Begun /\ faultClosing = "none"
  /\ faultScenario.first <= faultScenario.second \/ Active({"running"}) = {}
  /\ faultClosing' = "cancelled" /\ FaultRecord(<<"closing">>)
  /\ UNCHANGED <<faultScenario, faultWindow, faultTask, faultCalls, faultOuter, faultError, faultReport>>
OuterAborts ==
  /\ ~faultOuter /\ faultReport = "pending" /\ faultOuter' = TRUE
  /\ IF Begun /\ faultClosing = "none" THEN faultClosing' = "cancelled" /\ FaultRecord(<<"closing">>)
     ELSE UNCHANGED <<faultClosing, faultEvents, faultDropped>>
  /\ UNCHANGED <<faultScenario, faultWindow, faultTask, faultCalls, faultError, faultReport>>

\* A task whose signal is aborted while it sleeps; only a storm goes on from there.
SleepAborted(i) ==
  /\ faultTask[i] = "running" /\ faultClosing = "cancelled" /\ ~Kind("cleanup_hang")
  /\ Kind("retry_exhaustion") => faultCalls > 0
  /\ Becomes(i, "cancelled") /\ FaultRecord(<<"cancelled">>)
  /\ faultError' = IF Kind("cancellation_storm") THEN "none" ELSE "cancellation"
  /\ UNCHANGED <<faultScenario, faultWindow, faultCalls, faultClosing, faultOuter, faultReport>>

\* The sleep of a worker or of the provider is over in time.
Finishes(i) ==
  /\ faultTask[i] = "running" /\ faultClosing = "none"
  /\ \/ Kind("cancellation_storm") /\ faultScenario.second <= faultScenario.first
     \/ Kind("provider_timeout") /\ faultScenario.second <= faultScenario.first
  /\ Becomes(i, "succeeded") /\ FaultRecord(<<"succeeded">>)
  /\ UNCHANGED <<faultScenario, faultWindow, faultCalls, faultClosing, faultOuter, faultError, faultReport>>

\* A task fails and with it the scope: sibling_failed.
FailsWith(i, error, before) ==
  /\ Becomes(i, "failed") /\ faultError' = error
  /\ IF faultClosing = "none"
       THEN faultClosing' = "errored" /\ FaultRecord(before \o <<"closing", "failed">>)
       ELSE FaultRecord(before \o <<"failed">>) /\ UNCHANGED faultClosing
ProviderTimesOut ==
  /\ Kind("provider_timeout") /\ faultTask[1] = "running" /\ faultClosing = "none"
  /\ faultScenario.first <= faultScenario.second
  /\ FailsWith(1, "TimeoutError", <<>>)
  /\ UNCHANGED <<faultScenario, faultWindow, faultCalls, faultOuter, faultReport>>

\* retry: the body throws; but for the last time the retry is announced and waits.
AttemptThrows ==
  /\ Kind("retry_exhaustion") /\ faultTask[1] = "running"
  /\ faultClosing = "none" \/ faultCalls = 0
  /\ faultCalls' = faultCalls + 1
  /\ IF faultCalls' = faultScenario.count THEN FailsWith(1, "retry_exhausted", <<"attempt">>)
     ELSE FaultRecord(<<"attempt", "retrying">>) /\ UNCHANGED <<faultTask, faultError, faultClosing>>
  /\ UNCHANGED <<faultScenario, faultWindow, faultOuter, faultReport>>

\* executeCleanupHang: the body registers its cleanup and returns, the cleanup never
\* settles, and its timeout ends the task.
BodyReturns ==
  /\ Kind("cleanup_hang") /\ faultTask[1] = "running" /\ Becomes(1, "cleaning")
  /\ UNCHANGED <<faultScenario, faultWindow, faultCalls, faultEvents, faultDropped, faultClosing,
                 faultOuter, faultError, faultReport>>
CleanupTimesOut ==
  /\ Kind("cleanup_hang") /\ faultTask[1] = "cleaning" /\ Becomes(1, "succeeded")
  /\ FaultRecord(<<"cleanup_timeout", "succeeded">>)
  /\ UNCHANGED <<faultScenario, faultWindow, faultCalls, faultClosing, faultOuter, faultError, faultReport>>
----------------------------------------------------------------------------
\* inferTerminal of the closed scope, from the events of the window.
ReportedOutcome ==
  LET closings == {i \in DOMAIN faultEvents : faultEvents[i] = "closing"}
  IN IF closings # {} /\ faultClosing = "cancelled" THEN "cancelled"
     ELSE IF (closings # {} /\ faultClosing = "errored") \/ Active({"failed"}) # {} THEN "failed"
     ELSE "completed"
CountEvents(type) == Cardinality({i \in DOMAIN faultEvents : faultEvents[i] = type})

\* verifyScenario: no finding.  The receipt of a closed scope is terminal and
\* leaks no task, see module Observers.
AnyCancelled == CountEvents("cancelled") >= 1
StormObserved == CountEvents("cancelled") >= faultScenario.count
Verified ==
  CASE Kind("cancellation_storm") ->
         StormObserved /\ ReportedOutcome = "cancelled" /\ faultError = "none"
    [] Kind("cleanup_hang") -> CountEvents("cleanup_timeout") >= 1 /\ faultError = "none"
    [] Kind("provider_timeout") ->
         CountEvents("failed") >= 1 /\ faultTask[1] = "failed" /\ faultError # "none"
    [] Kind("retry_exhaustion") ->
         CountEvents("retrying") = faultScenario.count - 1 /\ faultError # "none"

\* group() has joined its tasks; a storm waits for its own cancellation first.
Report ==
  /\ faultReport = "pending"
  /\ IF Begun THEN Active({"running", "cleaning"}) = {} ELSE faultError = "spawn"
  /\ Kind("cancellation_storm") => faultClosing # "none"
  /\ faultReport' = IF Verified THEN "pass" ELSE "fail"
  /\ UNCHANGED <<faultScenario, faultWindow, faultTask, faultCalls, faultEvents, faultDropped,
                 faultClosing, faultOuter, faultError>>

FaultNext ==
  \/ Begin \/ StormCancels \/ OuterAborts \/ ProviderTimesOut \/ AttemptThrows
  \/ BodyReturns \/ CleanupTimesOut \/ Report
  \/ \E i \in FaultTasks : SleepAborted(i) \/ Finishes(i)
----------------------------------------------------------------------------
RetriesSpent == faultTask[1] = "failed" /\ faultCalls = faultScenario.count
Earned ==
  CASE Kind("cancellation_storm") -> Active({"cancelled"}) = FaultTasks
    [] Kind("cleanup_hang") -> faultTask[1] = "succeeded"
    [] Kind("provider_timeout") -> faultTask[1] = "failed" /\ faultScenario.first <= faultScenario.second
    [] Kind("retry_exhaustion") -> RetriesSpent \/ faultOuter
Undisturbed ==
  /\ Buildable(faultScenario) /\ faultDropped = 0 /\ ~faultOuter
  /\ Kind("cancellation_storm") => faultScenario.second > faultScenario.first

\* A report that passes was earned: each worker of the storm was cancelled while it
\* ran, the cleanup was cut off by its timeout, the provider lost against the
\* timeout, and every attempt was made, unless the caller's scope was cancelled.
\* And a scenario that a builder made passes, if its window was large enough, its
\* workers outlast the delay of the storm and the caller did not interfere.
FaultTruth ==
  faultReport # "pending" =>
    /\ Active({"running", "cleaning"}) = {}
    /\ faultReport = "pass" => Earned
    /\ Undisturbed => faultReport = "pass"

\* "Scenario that exhausts WorkIt's retry wrapper" (packages/core/src/fault/index.ts:55).
PassMeansExhausted == Kind("retry_exhaustion") /\ faultReport = "pass" => RetriesSpent
=============================================================================

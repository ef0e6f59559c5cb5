------------------------------ MODULE Wrappers ------------------------------
(***************************************************************************)
(* The wrappers of run/index.ts around one task: timeout and deadline,      *)
(* uncancellable, retry, hedge, fallback and supervise, and offload of      *)
(* worker/index.ts, which runs one function in a worker thread.             *)
(*                                                                          *)
(* A wrapper starts attempts, arms timers, listens to the signal of its     *)
(* task and settles one promise.  Attempts are not tasks of a scope: one    *)
(* that is still running when the wrapper has settled runs on with nobody   *)
(* awaiting it, and learns of that by its signal only.  Attempts, timers,   *)
(* and the abort of the signal come in any order.                           *)
(***************************************************************************)
EXTENDS Naturals, FiniteSets

CONSTANTS
  Kinds,       \* the wrappers that may be called
  MaxAttempts, \* attempts: times, max, maxRestarts + 1; fallback has two
  Budget       \* what the retryBudget admits

ASSUME WrapperAssumption ==
  /\ Kinds \subseteq {"timeout", "uncancellable", "retry", "supervise", "hedge", "fallback",
                      "offload"}
  /\ MaxAttempts \in Nat \ {0, 1} /\ Budget \in Nat

VARIABLES
  kind,
  run,         \* of each attempt, or of the worker: how it stands
  told,        \* the attempts whose signal is aborted
  parent,      \* ctx.signal: live, or aborted by a cancellation or a TimeoutError
  timers,      \* armed: 0 ends the wrapper, i starts attempt i
  charged,       \* of the retry budget
  windowOver,  \* supervise: its reset window has passed
  promise      \* pending, or how it settled

wrapVars == <<kind, run, told, parent, timers, charged, windowOver, promise>>

Attempts == 1..MaxAttempts
Ended == {"succeeded", "failed", "cancelled"}
Bounded == {"timeout", "uncancellable", "offload"}
Sequential == {"retry", "supervise", "fallback"}
Running == {i \in Attempts : run[i] = "running"}

\* A shield lets only a TimeoutError of its parent's signal through.
Through(how) == kind # "uncancellable" \/ how = "timeout"

\* What the call does at once.  A hedge or a worker is not started under an
\* aborted signal; a shielded task does not see that it is.
Refused == kind \in {"hedge", "offload"} /\ parent # "live"
WrappersInit(kinds, parents) ==
  /\ kind \in kinds /\ parent \in parents
  /\ run = [i \in Attempts |-> IF i = 1 /\ ~Refused THEN "running" ELSE "unstarted"]
  /\ told = IF parent # "live" /\ ~Refused /\ Through(parent) THEN {1} ELSE {}
  /\ timers = IF Refused THEN {} ELSE IF kind \in Bounded THEN {0}
              ELSE IF kind = "hedge" THEN 2..MaxAttempts ELSE {}
  /\ charged = 0 /\ windowOver = FALSE
  /\ promise = IF Refused THEN "cancelled" ELSE "pending"
----------------------------------------------------------------------------
EndOf(res) == CASE res = "succeeded" -> "value" [] res = "failed" -> "error"
              [] OTHER -> "cancelled"
SettleArmed(end) == promise' = end /\ UNCHANGED timers
Settle(end) == promise' = end /\ timers' = {}

\* The worker thread is terminated.
Terminate == run' = [run EXCEPT ![1] = "cancelled"]

\* An attempt of retry, supervise or fallback has failed with attempt i: whether
\* another one follows, and what it waits for.
MayRestart(i) == i < MaxAttempts /\ ~windowOver
RetryOrStop(i) ==
  \/ /\ Settle("error")              \* retryIf, restartOn or the last attempt
     /\ UNCHANGED <<parent, told, charged>>
  \/ /\ i < MaxAttempts /\ kind = "retry" /\ charged >= Budget
     /\ Settle("cancelled")          \* the owner of the budget is cancelled
     /\ parent' = IF parent = "live" THEN "cancelled" ELSE parent
     /\ UNCHANGED <<told, charged>>
  \/ /\ MayRestart(i) /\ (kind = "retry" => charged < Budget)
     /\ charged' = IF kind = "retry" THEN charged + 1 ELSE charged
     /\ IF parent = "live" THEN timers' = {i + 1} /\ UNCHANGED promise ELSE Settle("cancelled")
     /\ UNCHANGED <<parent, told>>

\* Attempt i ends while the promise is pending.
EndsBounded(res) ==
  /\ Settle(IF kind = "uncancellable" /\ parent = "cancelled" /\ res = "succeeded"
            THEN "cancelled" ELSE EndOf(res))
  /\ UNCHANGED <<told, parent, charged>>

EndsInTurn(i, res) ==
  IF res # "failed"
    THEN Settle(EndOf(res)) /\ UNCHANGED <<told, parent, charged>>
    ELSE RetryOrStop(i)

LosersKept(i) == told
LosersTold(i) == told \cup (Running \ {i})
AllButOneEnded(i) == Cardinality({j \in Attempts : run[j] \in Ended}) + 2 >= MaxAttempts
AllEnded(i) == Cardinality({j \in Attempts : run[j] \in Ended}) + 1 = MaxAttempts
EndsHedged(i, res) ==
  /\ IF res = "succeeded" THEN Settle("value") /\ told' = LosersTold(i)
     ELSE IF AllEnded(i) THEN Settle("error") /\ UNCHANGED told
     ELSE UNCHANGED <<promise, timers, told>>
  /\ UNCHANGED <<parent, charged>>

\* Once the promise has settled nobody looks at an attempt any more.
AttemptEnds(i, res) ==
  /\ run[i] = "running"
  /\ IF kind = "fallback" /\ i = 1 /\ res = "failed" /\ promise = "pending"
       THEN /\ run' = [run EXCEPT ![1] = "failed", ![2] = "running"]
            /\ told' = IF parent = "live" THEN told ELSE told \cup {2}
            /\ UNCHANGED <<promise, timers, parent, charged>>
       ELSE /\ run' = [run EXCEPT ![i] = res]
            /\ IF promise # "pending" THEN UNCHANGED <<promise, timers, told, parent, charged>>
               ELSE CASE kind \in Bounded -> EndsBounded(res)
                      [] kind = "fallback" -> Settle(EndOf(res)) /\ UNCHANGED <<told, parent, charged>>
                      [] kind = "hedge" -> EndsHedged(i, res)
                      [] OTHER -> EndsInTurn(i, res)
  /\ UNCHANGED <<kind, windowOver>>

\* The worker exits with code 0 and without a message: nothing reacts.
ExitsSilently ==
  /\ kind = "offload" /\ run[1] = "running"
  /\ run' = [run EXCEPT ![1] = "exited"]
  /\ UNCHANGED <<kind, told, parent, timers, charged, windowOver, promise>>
----------------------------------------------------------------------------
\* The timer of timeout, uncancellable and offload.  The signal of a shield
\* combines that of its timer with the parent's: when the parent's came first
\* the timer's abort is no event any more and does not reach the task.
ShieldDeaf == kind = "uncancellable" /\ parent # "live"
TimeLimit ==
  /\ 0 \in timers /\ Settle("timeout")
  /\ IF kind = "offload" /\ run[1] = "running" THEN Terminate ELSE UNCHANGED run
  /\ told' = IF ShieldDeaf \/ kind = "offload" THEN told ELSE told \cup Running
  /\ UNCHANGED <<kind, parent, charged, windowOver>>

\* A delayed start: of a hedged attempt, or of the next one after its backoff.
Start(i) ==
  /\ i \in timers \ {0} /\ timers' = timers \ {i}
  /\ kind = "hedge" => \A j \in timers : i <= j
  /\ run' = [run EXCEPT ![i] = "running"]
  /\ UNCHANGED <<kind, told, parent, charged, windowOver, promise>>

\* ctx.signal is aborted: it reaches the attempts by their combined signals.
\* Hedges, sleeps and workers settle.
SettlesWorkers == promise = "pending" /\ kind = "offload"
SettlesAtOnce ==
  promise = "pending" /\ (kind \in {"hedge", "offload"} \/ (kind \in Sequential /\ timers # {}))
ParentAborts(how) ==
  /\ parent = "live" /\ parent' = how
  /\ told' = IF Through(how) /\ kind # "offload" THEN told \cup Running ELSE told
  /\ IF SettlesAtOnce THEN Settle("cancelled") ELSE UNCHANGED <<promise, timers>>
  /\ IF SettlesAtOnce /\ kind = "offload" /\ run[1] = "running" THEN Terminate
     ELSE UNCHANGED run
  /\ UNCHANGED <<kind, charged, windowOver>>

WindowPasses ==
  /\ kind = "supervise" /\ ~windowOver /\ windowOver' = TRUE
  /\ UNCHANGED <<kind, run, told, parent, timers, charged, promise>>

SomeAttemptEnds(i) == \E res \in Ended : AttemptEnds(i, res)

WrappersNext ==
  \/ \E i \in Attempts : SomeAttemptEnds(i) \/ Start(i)
  \/ \E how \in {"cancelled", "timeout"} : ParentAborts(how)
  \/ TimeLimit \/ ExitsSilently \/ WindowPasses

\* Timers fire, and an attempt whose signal is aborted ends.
WrappersFairness ==
  /\ WF_wrapVars(TimeLimit)
  /\ \A i \in Attempts : WF_wrapVars(Start(i)) /\ WF_wrapVars(i \in told /\ SomeAttemptEnds(i))

WrappersSpec ==
  WrappersInit(Kinds, {"live", "cancelled", "timeout"}) /\ [][WrappersNext]_wrapVars /\ WrappersFairness
----------------------------------------------------------------------------
WrappersTypeOK ==
  /\ kind \in Kinds
  /\ run \in [Attempts -> {"unstarted", "running", "exited"} \cup Ended]
  /\ told \subseteq Attempts /\ timers \subseteq 0..MaxAttempts
  /\ parent \in {"live", "cancelled", "timeout"}
  /\ charged \in 0..Budget
  /\ windowOver \in BOOLEAN
  /\ promise \in {"pending", "value", "error", "cancelled", "timeout"}

\* When a wrapper has settled, its promise says what happened to the attempts and
\* none is left running unknowingly.  A value comes only from a success, an error
\* of a hedge only after all of its attempts, of the others only after the failure
\* of the last one started, and a cancellation only when the parent's signal was
\* aborted or an attempt was cancelled.  Every attempt still running has its signal
\* aborted and nothing is armed to start another, except in a shield whose parent
\* was aborted before, see BoundedShield.  Every further attempt of a retry was
\* charged to its budget.
WrapperTruth ==
  /\ promise = "value" => \E i \in Attempts : run[i] = "succeeded"
  /\ promise = "error" =>
       IF kind = "hedge" THEN \A i \in Attempts : run[i] \in {"failed", "cancelled"}
       ELSE \E i \in Attempts : /\ run[i] = "failed"
                                /\ \A j \in Attempts : j > i => run[j] = "unstarted"
  /\ promise = "cancelled" => parent # "live" \/ \E i \in Attempts : run[i] = "cancelled"
  /\ promise # "pending" =>
       /\ timers = {}
       /\ (kind = "uncancellable" /\ parent # "live") \/ Running \subseteq told
  /\ kind = "retry" => Cardinality({i \in Attempts : run[i] # "unstarted"}) <= charged + 1

\* No attempt starts after the promise has settled, and an attempt of retry,
\* supervise or fallback starts only when all before it have failed, so never
\* beside a running one or after a cancellation.
AttemptsInTurn ==
  [][\A i \in Attempts :
       run[i] = "unstarted" /\ run'[i] = "running" =>
         /\ promise = "pending"
         /\ kind \in Sequential => \A j \in 1..i - 1 : run'[j] = "failed"]_wrapVars

\* When the parent's signal is aborted every wrapper settles, as does one with a
\* time limit in any case.
AbortedSettles ==
  (parent # "live" \/ (kind \in Bounded)) ~> (promise # "pending")

\* "run.uncancellable timeout bounds the shield and aborts the inner signal"
\* (packages/core/tests/unit/run.test.js:214).
BoundedShield == promise = "timeout" => Running \subseteq told
=============================================================================

---------------------------- MODULE Combinators ----------------------------
(***************************************************************************)
(* The combinators of run/index.ts that run a list of tasks in a group of  *)
(* their own: run.all, allSettled, race, any, series and pool, over the    *)
(* engine of module Scope.  The group runs in the body of a calling group, *)
(* Outer, whose cancellation aborts its signal and nothing else of it.     *)
(*                                                                         *)
(* A combinator starts its tasks in one synchronous loop (starting), and   *)
(* then reacts to their settlements one microtask later, in the order in   *)
(* which they settled (settlements, of which seen were handled).  Bodies,  *)
(* cleanups and cancellations of other tasks interleave with all of that.  *)
(*                                                                         *)
(* Combinators do not give their handles away: only they call cancel() on  *)
(* them.  The tasks spawn nothing themselves and have no key.              *)
(***************************************************************************)
EXTENDS Scope, Sequences, FiniteSets

CONSTANTS
  Outer, Group,  \* the calling group, and the group of the combinator
  TaskList,      \* the argument of the combinator
  Kinds,         \* the combinators that may be called
  Concurrency    \* of run.pool

ASSUME CombinatorAssumption ==
  /\ Scopes = {Outer, Group} /\ Outer # Group /\ Roots = {Outer} /\ Misconfigured = {}
  /\ Background = {} /\ Silent = {} /\ Keys = {}
  /\ TaskList \in Seq(Tasks) /\ TaskList # <<>>
  /\ \A t \in Tasks : \E i \in DOMAIN TaskList : TaskList[i] = t
  /\ Len(TaskList) = Cardinality(Tasks)
  /\ Kinds \subseteq {"all", "allSettled", "race", "any", "series", "pool"}
  /\ Concurrency \in Nat \ {0}

VARIABLES
  kind,         \* the combinator that was called
  starting,     \* its loop over the tasks, or over the workers of the pool, is running
  next,         \* the next task to start
  settlements,  \* the settled tasks, in the order in which they settled
  seen,         \* how many of them the combinator has handled
  result,       \* how the function passed for a task ended
  promise       \* what the body of the group returns: pending, or how it settled

combinatorVars == <<kind, starting, next, settlements, seen, result, promise>>
allVars == <<vars, combinatorVars>>

CombinatorInit ==
  /\ Init
  /\ kind \in Kinds
  /\ starting = FALSE
  /\ next = 1
  /\ settlements = <<>>
  /\ seen = 0
  /\ result = [t \in Tasks |-> "none"]
  /\ promise = "pending"
----------------------------------------------------------------------------
\* allSettled and any run the function inside a task that catches its errors:
\* that task always succeeds, even when the function throws at once.
Wrapped == kind \in {"allSettled", "any"}

\* The pool starts that many workers, series awaits every task before the next;
\* the others start all tasks.
UsesWorkers == kind \in {"series", "pool"}
SlotsForAll == Len(TaskList)
Slots ==
  CASE kind = "series" -> 1
    [] kind = "pool" /\ Concurrency < Len(TaskList) -> Concurrency
    [] OTHER -> Len(TaskList)

\* A promise settles once.
Decide(end) == promise' = IF promise = "pending" THEN end ELSE promise

\* The group of the combinator is opened and the loop begins.
Call ==
  \/ Open(Outer, NoOne) /\ UNCHANGED combinatorVars
  \/ /\ Open(Group, Outer)
     /\ starting' = TRUE
     /\ UNCHANGED <<kind, next, settlements, seen, result, promise>>

\* task(fn) for the next task: it runs, or has thrown before its first await, or
\* spawn() throws because the group was cancelled, and so does the caller.
StartNext ==
  LET t == TaskList[next]
  IN  /\ next <= Len(TaskList)
      /\ next' = next + 1
      /\ \/ /\ Spawn(Group, t, NoOne)
            /\ UNCHANGED <<settlements, result, promise>>
         \/ /\ ~Wrapped
            /\ \E res \in {"failed", "cancelled"} :
                 /\ SpawnThrows(Group, t, NoOne, res)
                 /\ result' = [result EXCEPT ![t] = res]
            /\ settlements' = Append(settlements, t)
            /\ UNCHANGED promise
         \/ /\ state[Group] # "running"
            /\ Decide("failed")
            /\ UNCHANGED <<vars, settlements, result>>

\* An error of spawn() leaves the loop over the tasks, but not the pool's loop
\* over its workers: each of them is an async function.
Begin ==
  /\ starting /\ StartNext
  /\ starting' = (next < Slots /\ (UsesWorkers \/ state[Group] = "running"))
  /\ UNCHANGED <<kind, seen>>
----------------------------------------------------------------------------
\* The task settles with its last cleanup.
SettlesAtEnd(t, left) == settlements' = Append(settlements, t)
Settles(t, left) ==
  settlements' = IF left = 0 THEN Append(settlements, t) ELSE settlements

FunctionEnds(t) ==
  \E res \in Ends, n \in 0..MaxDefers[t] :
    /\ TaskBodyEnds(t, IF Wrapped THEN "succeeded" ELSE res, n)
    /\ Settles(t, n)
    /\ result' = [result EXCEPT ![t] = res]
    /\ UNCHANGED <<kind, starting, next, seen, promise>>

CleanupEnds(t) ==
  /\ TaskCleanupEnds(t)
  /\ Settles(t, taskDefers[t] - 1)
  /\ UNCHANGED <<kind, starting, next, seen, result, promise>>

\* cancelLosers(): handle.cancel() of all handles but the winner's.
NoLosers(winner) == {}
Losers(winner) == {t \in Tasks \ {winner} : status[t] = "running"}
CancelLosers(winner) ==
  /\ aborted' = aborted \cup Losers(winner)
  /\ UNCHANGED <<adoption, state, closing, records, closeVars, taskVars>>

\* race and any: the settlement of t is the first that counts, and wins.
AnySettlement(t) == TRUE
AnySuccess(t) == result[t] = "succeeded"
Counts(t) == kind = "race" \/ result[t] = "succeeded"
Wins(t) ==
  /\ kind \in {"race", "any"} /\ promise = "pending" /\ Counts(t)
  /\ Decide(result[t])
  /\ CancelLosers(t)
  /\ UNCHANGED <<next, settlements, result>>

\* any: all functions failed.  The error is the reason of the group's signal if
\* that is aborted, and otherwise a WorkAggregateError.
AllFailed(t) ==
  /\ kind = "any" /\ promise = "pending" /\ ~Counts(t) /\ seen + 1 = Len(TaskList)
  /\ Decide(IF SignalAborted(Group) THEN "cancelled" ELSE "failed")
  /\ UNCHANGED <<vars, next, settlements, result>>

\* race and any: too late, or not yet.
NoDecision(t) ==
  /\ kind \in {"race", "any"}
  /\ promise # "pending" \/ (~Counts(t) /\ seen + 1 < Len(TaskList))
  /\ UNCHANGED <<vars, next, settlements, result, promise>>

\* The others collect: a rejected handle rejects the whole, the last fulfilled
\* one resolves it.
RejectsOnFailureOnly(t) == kind # "allSettled" /\ result[t] = "failed"
Rejects(t) == kind # "allSettled" /\ result[t] # "succeeded"

\* What a worker does after a rejected task: it throws.  After a fulfilled one it
\* takes the next task, although the pool may have rejected by then.
GoesOnRegardless(t) == UsesWorkers /\ next <= Len(TaskList)
GoesOn(t) == UsesWorkers /\ ~Rejects(t) /\ next <= Len(TaskList)

Collects(t) ==
  /\ kind \notin {"race", "any"}
  /\ \/ /\ GoesOn(t)
        /\ StartNext
     \/ /\ ~GoesOn(t)
        /\ IF Rejects(t) THEN Decide(result[t])
           ELSE IF seen + 1 = Len(TaskList) THEN Decide("succeeded")
           ELSE UNCHANGED promise
        /\ UNCHANGED <<vars, next, settlements, result>>

\* The reaction to the next settlement.
React ==
  /\ seen < Len(settlements)
  /\ LET t == settlements[seen + 1]
     IN  Wins(t) \/ AllFailed(t) \/ NoDecision(t) \/ Collects(t)
  /\ seen' = seen + 1
  /\ UNCHANGED <<kind, starting>>

\* The body of the group settles as its promise did.
BodyEnds ==
  /\ promise # "pending"
  /\ \E n \in 0..MaxDefers[Group] : GroupBodyEnds(Group, promise, n)
  /\ UNCHANGED combinatorVars

\* close(): an iteration awaits the promises of the tasks with a chain of its
\* own, longer than that of the reactions above, which therefore come first.
Closes ==
  /\ phase[Group] = "drain" => seen = Len(settlements)
  /\ CloseStep(Group)
  /\ UNCHANGED combinatorVars

\* Code of the caller or of a task cancels one of the groups.
CancelFromOutside ==
  /\ \E s \in Scopes : Cancel(s, "manual")
  /\ UNCHANGED combinatorVars

CombinatorNext ==
  \/ Begin
  \/ ~starting /\ \/ Call
                  \/ \E t \in Tasks : FunctionEnds(t)
                  \/ \E t \in Tasks : CleanupEnds(t)
                  \/ React
                  \/ BodyEnds
                  \/ Closes
                  \/ CancelFromOutside

\* As in Scope: cleanups end, promise continuations run, and a function whose
\* signal is aborted ends.
CombinatorFairness ==
  /\ WF_allVars(Begin) /\ WF_allVars(~starting /\ React)
  /\ WF_allVars(~starting /\ BodyEnds) /\ WF_allVars(~starting /\ Closes)
  /\ \A t \in Tasks :
       /\ WF_allVars(~starting /\ CleanupEnds(t))
       /\ WF_allVars(~starting /\ TaskSignalAborted(t) /\ FunctionEnds(t))

CombinatorSpec == CombinatorInit /\ [][CombinatorNext]_allVars
CombinatorFairSpec == CombinatorSpec /\ CombinatorFairness
----------------------------------------------------------------------------
Started  == {t \in Tasks : status[t] # "unborn"}
Returned == outcome[Group] # "pending"

\* The type invariant.  Tasks start in the order of the list, and settle once.
CombinatorTypeOK ==
  /\ TypeOK
  /\ kind \in Kinds
  /\ starting \in BOOLEAN
  /\ next \in 1..Len(TaskList) + 1
  /\ Started \subseteq {TaskList[i] : i \in 1..next - 1}
  /\ Len(settlements) = Cardinality(settled)
  /\ {settlements[i] : i \in DOMAIN settlements} = settled
  /\ seen \in 0..Len(settlements)
  /\ result \in [Tasks -> {"none"} \cup Ends]
  /\ promise \in {"pending"} \cup Ends

\* run.race resolves exactly when the first task to settle succeeded and no loser
\* failed on its way out: a loser's cancellation, before or after its settlement
\* is seen, never becomes the outcome, and a loser's failure is never swallowed.
RaceTruth ==
  kind = "race" /\ Returned =>
    (outcome[Group] = "resolved" <=> /\ result[settlements[1]] = "succeeded"
                                     /\ \A t \in Tasks : result[t] # "failed")

\* run.any resolves exactly when some function succeeded, whatever the others
\* did, in whatever order they settled, and whoever was cancelled meanwhile.
AnyTruth ==
  kind = "any" /\ Returned =>
    (outcome[Group] = "resolved" <=> \E t \in Tasks : result[t] = "succeeded")

\* run.all, series and pool resolve exactly when every task of the list ran and
\* succeeded, also if the group is cancelled while tasks wait for their turn;
\* run.allSettled resolves, cancelled or not, with a settlement of every task.
CollectTruth ==
  Returned =>
    /\ kind \in {"all", "series", "pool"} =>
         (outcome[Group] = "resolved" <=> \A t \in Tasks : result[t] = "succeeded")
    /\ kind = "allSettled" => outcome[Group] = "resolved" /\ settled = Tasks

\* No more tasks of a pool are unsettled, cleanups included, than Concurrency;
\* of a series, one.
ConcurrencyBounded ==
  UsesWorkers =>
    Cardinality(Started \ settled) <= IF kind = "series" THEN 1 ELSE Concurrency

\* Fail-fast: once a task has failed no other is started, and a series starts a
\* task only after all before it have succeeded and settled.
StartsInTurn ==
  [][\A t \in Tasks :
       status[t] = "unborn" /\ status'[t] # "unborn" =>
         /\ ~Wrapped => \A u \in Tasks : result[u] # "failed"
         /\ kind = "series" => \A i \in 1..next - 1 : /\ TaskList[i] \in settled
                                                      /\ result[TaskList[i]] = "succeeded"
    ]_allVars

\* A combinator returns only after every task it started has settled, losers and
\* their cleanups included.  A pool can fail it, see BodiesJoined of Scope: after
\* a cancelled task its workers go on starting tasks while the group closes.
LosersJoined ==
  Returned /\ kind # "pool" => Started \subseteq settled

\* A decided race ends although nobody cancelled its group, and so does every
\* combinator that failed: the other tasks learn that they have lost.
DecidedEnds ==
  (promise # "pending" /\ (promise = "failed" \/ kind \in {"race", "any"})) ~> Returned

\* Whatever the mode, the outcome is the one its tasks' results call for.
ModeTruth == RaceTruth /\ AnyTruth /\ CollectTruth

\* "Returns the first task settlement" (run/index.ts:67): a race resolves if the
\* first task to settle succeeded.
FirstSettlementReturned ==
  kind = "race" /\ Returned /\ result[settlements[1]] = "succeeded"
    => outcome[Group] = "resolved"
=============================================================================

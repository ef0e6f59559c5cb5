------------------------------- MODULE Scope -------------------------------
(***************************************************************************)
(* The scope engine of @workit/core (engine/scope.ts): ScopeImpl, the tasks *)
(* it spawns and group(), which opens a scope, runs a body and closes it.  *)
(*                                                                         *)
(* JavaScript runs one synchronous segment at a time, so an action is the  *)
(* code between two awaits, with every call it makes: a task body that     *)
(* fails also cancels its scope, the end of group()'s body also takes the  *)
(* first snapshot of close().  Segments of different tasks, timers and     *)
(* groups interleave freely.  One approximation widens the behaviours:     *)
(* when no scope-level cleanup is registered the code goes from the last   *)
(* drain to "closed" in one segment; here Finish is always a step of its   *)
(* own, as it is in the code after a cleanup was awaited.                  *)
(*                                                                         *)
(* What a caller passes with a task or a scope (its options) is constant.  *)
(* How many cleanups an owner registers shows only when they run, so the   *)
(* number is chosen there, at most MaxDefers of it.                        *)
(***************************************************************************)
EXTENDS Naturals

CONSTANTS
  Scopes,         \* scope identities
  Tasks,          \* task identities
  Keys,           \* idempotency keys
  NoOne,          \* no owner, no task, no key
  Roots,          \* the scopes opened by code that runs in no scope
  Misconfigured,  \* the scopes whose deadline option parseDuration rejects
  Background,     \* the tasks spawned by run.background() or task.background()
  Silent,         \* the groups and tasks whose body, if it fails, throws undefined
  KeysOf,         \* the idempotency keys a task may be spawned with; NoOne: without
  MaxDefers       \* bound: how many cleanups a scope or task registers at most

ASSUME ScopeAssumption ==
  /\ Scopes \cap Tasks = {}
  /\ NoOne \notin Scopes \cup Tasks \cup Keys
  /\ Roots \subseteq Scopes /\ Misconfigured \subseteq Scopes
  /\ Background \subseteq Tasks
  /\ Silent \subseteq Scopes \cup Tasks
  /\ KeysOf \in [Tasks -> SUBSET (Keys \cup {NoOne})]
  /\ MaxDefers \in [Scopes \cup Tasks -> Nat]

VARIABLES
  owner,    \* the parent of a scope, the scope of a task
  born,     \* history: the phase of the owner when it adopted the scope or task
  signal,   \* AbortSignal.any: the scopes whose controllers feed a scope's signal
  state,    \* ScopeImpl.state, plus "unopened"
  aborted,  \* the scopes and tasks whose own AbortController is aborted
  closing,  \* the reason of the scope:closing event, once emitted
  childScopes, tasks, firstChildFailure, idempotencyHandles,
  phase,    \* where group() and close() stand
  awaited,  \* what the current iteration of close() awaits
  defers,   \* the cleanups of a scope still to end
  bodyError,  \* group(): is the error kept of the body not undefined?
  outcome,    \* group(): how its promise settled
  status,     \* TaskRecord.status, plus "unborn"
  key,        \* the idempotency key of an unsettled task, or NoOne
  settled,    \* the tasks whose promise is settled, cleanups done
  taskDefers  \* the cleanups of a task still to end

adoption == <<owner, born, signal>>
control  == <<state, aborted, closing>>
records  == <<childScopes, tasks, firstChildFailure, idempotencyHandles>>
closeVars == <<phase, awaited, defers, bodyError, outcome>>
taskVars == <<status, key, settled, taskDefers>>
vars == <<adoption, control, records, closeVars, taskVars>>

Owned  == Scopes \cup Tasks
Ends   == {"succeeded", "failed", "cancelled"}
Phases == {"none", "body", "drain", "defers", "over"}

TypeOK ==
  /\ owner \in [Owned -> Scopes \cup {NoOne}]
  /\ born \in [Owned -> Phases]
  /\ signal \in [Scopes -> SUBSET Scopes]
  /\ state \in [Scopes -> {"unopened", "running", "cancelling", "closed"}]
  /\ aborted \in SUBSET Owned
  /\ closing \in [Scopes -> {"none", "completed", "errored", "cancelled"}]
  /\ childScopes \in [Scopes -> SUBSET Scopes]
  /\ tasks \in [Scopes -> SUBSET Tasks]
  /\ firstChildFailure \in [Scopes -> Tasks \cup {NoOne}]
  /\ idempotencyHandles \in [Scopes -> [Keys -> Tasks \cup {NoOne}]]
  /\ phase \in [Scopes -> Phases]
  /\ awaited \in [Scopes -> SUBSET Owned]
  /\ defers \in [Scopes -> Nat] /\ \A s \in Scopes : defers[s] <= MaxDefers[s]
  /\ bodyError \in [Scopes -> BOOLEAN]
  /\ outcome \in [Scopes -> {"pending", "resolved", "rejected"}]
  /\ status \in [Tasks -> {"unborn", "running"} \cup Ends]
  /\ key \in [Tasks -> Keys \cup {NoOne}]
  /\ settled \in SUBSET Tasks
  /\ taskDefers \in [Tasks -> Nat] /\ \A t \in Tasks : taskDefers[t] <= MaxDefers[t]

Init ==
  /\ owner = [x \in Owned |-> NoOne]
  /\ born = [x \in Owned |-> "none"]
  /\ signal = [s \in Scopes |-> {}]
  /\ state = [s \in Scopes |-> "unopened"]
  /\ aborted = {}
  /\ closing = [s \in Scopes |-> "none"]
  /\ childScopes = [s \in Scopes |-> {}]
  /\ tasks = [s \in Scopes |-> {}]
  /\ firstChildFailure = [s \in Scopes |-> NoOne]
  /\ idempotencyHandles = [s \in Scopes |-> [k \in Keys |-> NoOne]]
  /\ phase = [s \in Scopes |-> "none"]
  /\ awaited = [s \in Scopes |-> {}]
  /\ defers = [s \in Scopes |-> 0]
  /\ bodyError = [s \in Scopes |-> FALSE]
  /\ outcome = [s \in Scopes |-> "pending"]
  /\ status = [t \in Tasks |-> "unborn"]
  /\ key = [t \in Tasks |-> NoOne]
  /\ settled = {}
  /\ taskDefers = [t \in Tasks |-> 0]
----------------------------------------------------------------------------
\* A task whose body has ended and whose cleanups are still running.
InCleanup(t) == status[t] \in Ends /\ t \notin settled

\* Code that holds scope s is on the stack or will be resumed: the body of its
\* group, a task of s or a cleanup of one, or a cleanup of s itself.
Holds(s) ==
  \/ phase[s] = "body"
  \/ phase[s] = "defers" /\ defers[s] > 0
  \/ \E t \in Tasks : owner[t] = s /\ (status[t] = "running" \/ InCleanup(t))

SignalAborted(s)     == signal[s] \cap aborted # {}
TaskSignalAborted(t) == t \in aborted \/ (owner[t] # NoOne /\ SignalAborted(owner[t]))

ClassifyVerbatim(reason) == reason
Classify(reason) ==
  IF reason \in {"parent_failed", "sibling_failed", "budget"} THEN "errored" ELSE "cancelled"

\* The scope:closing event is emitted once, with the first reason.
CloseEventAgain(s, reason) == closing' = [closing EXCEPT ![s] = reason]
CloseEvent(s, reason) ==
  closing' = IF closing[s] = "none" THEN [closing EXCEPT ![s] = reason] ELSE closing

\* scope.cancel() acts on a running scope only, so once: it aborts the scope's
\* controller and announces the closing.
CancelScope(s, reason) ==
  IF state[s] = "running"
    THEN /\ state' = [state EXCEPT ![s] = "cancelling"]
         /\ aborted' = aborted \cup {s}
         /\ CloseEvent(s, Classify(reason))
    ELSE UNCHANGED control

Adopt(x, s) ==
  /\ owner' = [owner EXCEPT ![x] = s]
  /\ born' = [born EXCEPT ![x] = IF s = NoOne THEN "none" ELSE phase[s]]

LinkOwnSignalOnly(s, p) == signal' = [signal EXCEPT ![s] = {s}]
LinkSignal(s, p) ==
  signal' = [signal EXCEPT ![s] = {s} \cup (IF p = NoOne THEN {} ELSE signal[p])]

\* group() constructs its scope under the current scope p of the caller.  The
\* constructor joins the parent before it parses the deadline option, so a
\* rejected deadline leaves the scope there with no body and no one to close it.
Open(s, p) ==
  /\ state[s] = "unopened"
  /\ IF p = NoOne THEN s \in Roots ELSE s \notin Roots /\ Holds(p)
  /\ Adopt(s, p)
  /\ LinkSignal(s, p)
  /\ state' = [state EXCEPT ![s] = "running"]
  /\ childScopes' = [q \in Scopes |-> childScopes[q] \cup (IF q = p THEN {s} ELSE {})]
  /\ IF s \in Misconfigured
       THEN /\ phase' = [phase EXCEPT ![s] = "over"]
            /\ outcome' = [outcome EXCEPT ![s] = "rejected"]
       ELSE /\ phase' = [phase EXCEPT ![s] = "body"]
            /\ UNCHANGED outcome
  /\ UNCHANGED <<aborted, closing, tasks, firstChildFailure, idempotencyHandles, awaited,
                 defers, bodyError, taskVars>>

\* spawn() up to the task body: refused unless the scope is running; with a key
\* whose task is in flight it returns that task and changes nothing.
InFlightIgnored(s, k) == FALSE
InFlight(s, k) == k # NoOne /\ idempotencyHandles[s][k] # NoOne

WithKey(handles, k, value) == [j \in Keys |-> IF j = k THEN value ELSE handles[j]]

Admit(s, t, k) ==
  /\ status[t] = "unborn" /\ k \in KeysOf[t]
  /\ state[s] = "running" /\ ~InFlight(s, k)
  /\ Adopt(t, s)
  /\ tasks' = [tasks EXCEPT ![s] = @ \cup {t}]
  /\ idempotencyHandles' = [idempotencyHandles EXCEPT ![s] = WithKey(@, k, t)]

\* The first foreground failure is kept and cancels the scope.  What is kept is
\* the error, and undefined stands for none.
NoteResult(s, t, res) ==
  IF res = "failed" /\ t \notin Background /\ firstChildFailure[s] = NoOne
    THEN /\ firstChildFailure' = [firstChildFailure EXCEPT ![s] = IF t \in Silent THEN NoOne
                                                                  ELSE t]
         /\ CancelScope(s, "sibling_failed")
    ELSE UNCHANGED <<firstChildFailure, control>>

\* spawn() of a task whose body reaches its first await.
Spawn(s, t, k) ==
  /\ Admit(s, t, k)
  /\ key' = [key EXCEPT ![t] = k]
  /\ status' = [status EXCEPT ![t] = "running"]
  /\ UNCHANGED <<signal, control, childScopes, firstChildFailure, closeVars, settled,
                 taskDefers>>

\* spawn() of a task function that throws before its first await: the task has
\* settled, its key was removed, before spawn() stores the handle under the key.
SpawnThrows(s, t, k, res) ==
  /\ Admit(s, t, k)
  /\ NoteResult(s, t, res)
  /\ status' = [status EXCEPT ![t] = res]
  /\ settled' = settled \cup {t}
  /\ UNCHANGED <<signal, childScopes, closeVars, key, taskDefers>>

\* The task's promise settles and its key is free again.
Settle(t) ==
  /\ settled' = settled \cup {t}
  /\ idempotencyHandles' = [idempotencyHandles EXCEPT ![owner[t]] = WithKey(@, key[t], NoOne)]
  /\ key' = [key EXCEPT ![t] = NoOne]

\* The body of t ends, having registered n cleanups with ctx.defer().
TaskBodyEnds(t, res, n) ==
  /\ status[t] = "running"
  /\ status' = [status EXCEPT ![t] = res]
  /\ taskDefers' = [taskDefers EXCEPT ![t] = n]
  /\ NoteResult(owner[t], t, res)
  /\ IF n = 0 THEN Settle(t) ELSE UNCHANGED <<key, settled, idempotencyHandles>>
  /\ UNCHANGED <<adoption, childScopes, tasks, closeVars>>

\* One cleanup of a task ends: it returned, threw or exceeded its timeout.
TaskCleanupEnds(t) ==
  /\ InCleanup(t)
  /\ taskDefers' = [taskDefers EXCEPT ![t] = @ - 1]
  /\ IF taskDefers[t] = 1 THEN Settle(t) ELSE UNCHANGED <<key, settled, idempotencyHandles>>
  /\ UNCHANGED <<adoption, control, childScopes, tasks, firstChildFailure, closeVars, status>>

\* handle.cancel() aborts the task's own controller and nothing else; once the
\* body has ended nobody looks at it.
HandleCancel(t) ==
  /\ status[t] = "running" /\ t \notin aborted
  /\ aborted' = aborted \cup {t}
  /\ UNCHANGED <<adoption, state, closing, records, closeVars, taskVars>>

\* scope.cancel() by code with a reference to the scope or by its deadline
\* timer, which are classified alike, or by an exceeded budget.
Cancel(s, reason) ==
  /\ state[s] = "running" /\ phase[s] # "over"
  /\ CancelScope(s, reason)
  /\ UNCHANGED <<adoption, records, closeVars, taskVars>>
----------------------------------------------------------------------------
\* The head of close()'s loop: await the tasks ts and the child scopes the
\* scope has now, or go on to its n cleanups when there are none.
AwaitTasksOnly(s, ts, n) ==
  /\ awaited' = [awaited EXCEPT ![s] = ts]
  /\ phase' = [phase EXCEPT ![s] = IF ts = {} THEN "defers" ELSE "drain"]
  /\ defers' = [defers EXCEPT ![s] = IF ts = {} THEN n ELSE 0]
AwaitOwned(s, ts, n) ==
  LET owned == ts \cup childScopes[s]
  IN  /\ awaited' = [awaited EXCEPT ![s] = owned]
      /\ phase' = [phase EXCEPT ![s] = IF owned = {} THEN "defers" ELSE "drain"]
      /\ defers' = [defers EXCEPT ![s] = IF owned = {} THEN n ELSE 0]

\* group(): the body settles.  A body that failed cancels the scope, one that
\* was cancelled does not; then close() begins.
GroupBodyEnds(s, res, n) ==
  /\ phase[s] = "body"
  /\ bodyError' = [bodyError EXCEPT ![s] = \/ res = "cancelled"
                                           \/ res = "failed" /\ s \notin Silent]
  /\ IF res = "failed" THEN CancelScope(s, "parent_failed") ELSE UNCHANGED control
  /\ AwaitOwned(s, tasks[s], n)
  /\ UNCHANGED <<adoption, records, outcome, taskVars>>

\* What close() awaits of x has happened.
DoneAtBodyEnd(x) == IF x \in Scopes THEN state[x] = "closed" ELSE status[x] \in Ends
Done(x) == IF x \in Scopes THEN state[x] = "closed" ELSE x \in settled

\* close(): the snapshot is done; every task whose status is terminal is
\* forgotten, awaited or not, and the loop starts over.
NoneRunning(s) == {}
StillRunning(s) == {t \in tasks[s] : status[t] = "running"}
Drain(s, n) ==
  /\ phase[s] = "drain"
  /\ \A x \in awaited[s] : Done(x)
  /\ tasks' = [tasks EXCEPT ![s] = StillRunning(s)]
  /\ AwaitOwned(s, StillRunning(s), n)
  /\ UNCHANGED <<adoption, control, childScopes, firstChildFailure, idempotencyHandles,
                 bodyError, outcome, taskVars>>

\* close(): one cleanup of the scope ends, by itself or by its timeout.
ScopeCleanupEnds(s) ==
  /\ phase[s] = "defers" /\ defers[s] > 0
  /\ defers' = [defers EXCEPT ![s] = @ - 1]
  /\ UNCHANGED <<adoption, control, records, phase, awaited, bodyError, outcome, taskVars>>

\* group() settles with the body's error, else the first child failure, else
\* the body's value.
ResultOfBody(s) == IF bodyError[s] THEN "rejected" ELSE "resolved"
GroupResult(s) ==
  IF bodyError[s] \/ firstChildFailure[s] # NoOne THEN "rejected" ELSE "resolved"

\* The end of close().
Finish(s) ==
  /\ phase[s] = "defers" /\ defers[s] = 0
  /\ childScopes' = [q \in Scopes |-> IF q = owner[s] THEN childScopes[q] \ {s}
                                      ELSE childScopes[q]]
  /\ CloseEvent(s, IF firstChildFailure[s] = NoOne THEN "completed" ELSE "errored")
  /\ state' = [state EXCEPT ![s] = "closed"]
  /\ phase' = [phase EXCEPT ![s] = "over"]
  /\ outcome' = [outcome EXCEPT ![s] = GroupResult(s)]
  /\ UNCHANGED <<adoption, aborted, tasks, firstChildFailure, idempotencyHandles, awaited,
                 defers, bodyError, taskVars>>
----------------------------------------------------------------------------
CloseStep(s) ==
  \/ \E n \in 0..MaxDefers[s] : Drain(s, n)
  \/ ScopeCleanupEnds(s)
  \/ Finish(s)

ScopeStep(s) ==
  \/ \E p \in Scopes \cup {NoOne} : Open(s, p)
  \/ \E reason \in {"manual", "budget"} : Cancel(s, reason)
  \/ \E res \in Ends, n \in 0..MaxDefers[s] : GroupBodyEnds(s, res, n)
  \/ CloseStep(s)

TaskStep(t) ==
  \/ \E s \in Scopes, k \in Keys \cup {NoOne} :
       /\ Holds(s)
       /\ \/ Spawn(s, t, k)
          \/ \E res \in {"failed", "cancelled"} : SpawnThrows(s, t, k, res)
  \/ \E res \in Ends, n \in 0..MaxDefers[t] : TaskBodyEnds(t, res, n)
  \/ TaskCleanupEnds(t)
  \/ HandleCancel(t)

Next == (\E s \in Scopes : ScopeStep(s)) \/ (\E t \in Tasks : TaskStep(t))

\* Every cleanup ends because runCleanup() races it with a timer; continuations
\* of settled promises run; a body that can see its signal aborted ends
\* (cancellation is cooperative).  Nothing obliges any other body to end.
AbortedGroupEnds(s) ==
  SignalAborted(s) /\ \E res \in Ends, n \in 0..MaxDefers[s] : GroupBodyEnds(s, res, n)
AbortedTaskEnds(t) ==
  TaskSignalAborted(t) /\ \E res \in Ends, n \in 0..MaxDefers[t] : TaskBodyEnds(t, res, n)

Fairness ==
  /\ \A s \in Scopes : WF_vars(CloseStep(s)) /\ WF_vars(AbortedGroupEnds(s))
  /\ \A t \in Tasks : WF_vars(TaskCleanupEnds(t) \/ AbortedTaskEnds(t))

Spec == Init /\ [][Next]_vars
FairSpec == Spec /\ Fairness
----------------------------------------------------------------------------
(***************************************************************************)
(* What must hold.  Work born in the "body" phase was adopted before its   *)
(* scope began to close, work born in "drain" while close() was awaiting.  *)
(***************************************************************************)
ForegroundFailures(s) ==
  {t \in Tasks \ Background : owner[t] = s /\ status[t] = "failed"
                              /\ born[t] \in {"body", "drain"}}

\* close() joins what it found: when a scope is closed, every task it had
\* adopted before its group's body ended is settled, cleanups included, and
\* every child scope opened before the scope's own cleanups is closed.
OwnedWorkJoined ==
  \A x \in Owned :
    /\ owner[x] # NoOne /\ state[owner[x]] = "closed"
    /\ born[x] = "body" \/ (born[x] = "drain" /\ x \in Scopes)
    => Done(x)

\* No body of a task spawned while close() was draining outlives its scope,
\* even when it was spawned during an iteration that did not await it.
BodiesJoined ==
  \A t \in Tasks :
    status[t] = "running" /\ born[t] \in {"body", "drain"} => state[owner[t]] # "closed"

\* group() never resolves over a foreground failure of work the scope drained,
\* whichever task failed, whenever, and whatever had cancelled the scope, as
\* long as the error is not undefined.
OutcomeTruth ==
  \A s \in Scopes :
    outcome[s] = "resolved" => ~bodyError[s] /\ ForegroundFailures(s) \subseteq Silent

\* scope:closing says "completed" only of a scope that was never cancelled and
\* whose foreground work did not fail; a cancelled scope announced it at once
\* and the announcement stands.
ClosingTruth ==
  \A s \in Scopes :
    /\ closing[s] = "completed" => s \notin aborted /\ ForegroundFailures(s) = {}
    /\ s \in aborted => closing[s] \in {"errored", "cancelled"}

\* At most one unsettled task per idempotency key of a scope.
OneInFlightPerKey ==
  \A t, u \in Tasks :
    t # u /\ key[t] = key[u] /\ owner[t] = owner[u] => key[t] = NoOne

\* A cancelled scope closes: the abort reaches every body below it, in tasks and
\* groups started before or after, and close() gets through its drain and defers.
CancelledCloses == \A s \in Scopes : s \in aborted ~> state[s] = "closed"

\* The promise of structured concurrency, as Nursery states it: no scope closes
\* while work it must await is present.  Late are the tasks spawned after close()
\* began and the scopes opened after its drain ended.
Late == {x \in Owned : \/ born[x] \in {"defers", "over"}
                       \/ x \in Tasks /\ born[x] = "drain"}
Present == {s \in Scopes : state[s] \in {"running", "cancelling"}}
           \cup {t \in Tasks : status[t] # "unborn" /\ t \notin settled}
Gone == {s \in Scopes : state[s] = "closed"} \cup settled

Promise == INSTANCE Nursery WITH Members <- Owned, Nobody <- NoOne, guardian <- owner,
                                 present <- Present, gone <- Gone, late <- Late
ImplementsNursery == Promise!Spec

\* Rule R4 (scope.ts:15): a scope cannot close while its tasks are pending.
NoPendingTaskInClosedScope ==
  \A t \in Tasks : status[t] # "unborn" /\ state[owner[t]] = "closed" => t \in settled

\* The entry of an idempotency key "is removed when that task settles"
\* (packages/core/README.md:367): it never stands for a settled task.
SettledTaskFreesKey ==
  \A s \in Scopes, k \in Keys : idempotencyHandles[s][k] \notin settled
=============================================================================

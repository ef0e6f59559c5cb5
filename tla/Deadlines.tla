------------------------------ MODULE Deadlines ------------------------------
(***************************************************************************)
(* deadline(), onCancel() and the deadlines that tasks see, engine/scope.ts: *)
(* scopes that are nested one in the other, each with a timer, and handlers *)
(* that wait for its cancellation.  What tasks and cleanups do is in module *)
(* Scope, where a deadline may fire at any moment.                          *)
(*                                                                          *)
(* A timer fires at its time, before a later moment begins.                 *)
(***************************************************************************)
EXTENDS Naturals, FiniteSets, FiniteSetsExt

CONSTANTS
  DlDepth,     \* scopes 1, its child 2, and so on
  DlHorizon,   \* bound: the last moment
  DlDelays,    \* the durations that are asked for
  DlHandlers   \* handlers, each of one scope

ASSUME DeadlinesAssumption == DlDepth \in Nat \ {0} /\ DlHorizon \in Nat /\ DlDelays \subseteq Nat

VARIABLES
  dlNow,       \* Date.now()
  dlState,     \* of each scope: unopened, running, cancelling or closed
  dlAt,        \* deadlineAt, or Never
  dlTimer,     \* when deadlineTimer fires, or Never
  dlReason,    \* why the scope was cancelled: none, manual, or the deadline it names
  dlHandler,   \* of each handler: the scope it is subscribed to and how often it was told
  dlAsked,     \* history: the moments that deadline() was asked for
  dlUnheard    \* history: handlers that left before they were told

dlVars == <<dlNow, dlState, dlAt, dlTimer, dlReason, dlHandler, dlAsked, dlUnheard>>

DlScopes == 1..DlDepth
Never == DlHorizon + 1
Outer(s) == 1..s
NotCancelled == [kind |-> "none", at |-> 0]

DeadlinesInit ==
  /\ dlNow = 0 /\ dlState = [s \in DlScopes |-> "unopened"]
  /\ dlAt = [s \in DlScopes |-> Never] /\ dlTimer = [s \in DlScopes |-> Never]
  /\ dlReason = [s \in DlScopes |-> NotCancelled]
  /\ dlHandler = [h \in DlHandlers |-> [scope |-> 0, told |-> 0]]
  /\ dlAsked = [s \in DlScopes |-> {}] /\ dlUnheard = {}
----------------------------------------------------------------------------
\* The signal of a scope combines its parent's with its own.
SignalAborted(s) == \E o \in Outer(s) : dlReason[o].kind # "none"

\* deadline(): an earlier one stays, whatever has become of the scope.
ReplacesAlways(s, at) == TRUE
Replaces(s, at) == dlAt[s] = Never \/ dlAt[s] > at
SetDeadline(s, ms) ==
  LET at == dlNow + ms
  IN /\ dlState[s] # "unopened" /\ at < Never
     /\ dlAsked' = [dlAsked EXCEPT ![s] = @ \cup {at}]
     /\ IF Replaces(s, at) THEN dlAt' = [dlAt EXCEPT ![s] = at] /\ dlTimer' = [dlTimer EXCEPT ![s] = at]
        ELSE UNCHANGED <<dlAt, dlTimer>>
     /\ UNCHANGED <<dlNow, dlState, dlReason, dlHandler, dlUnheard>>

\* The constructor takes a deadline that is not 0, and does not look at its parent.
Open(s, ms) ==
  /\ dlState[s] = "unopened" /\ (s > 1 => dlState[s - 1] # "unopened") /\ dlNow + ms < Never
  /\ dlState' = [dlState EXCEPT ![s] = "running"]
  /\ IF ms = 0 THEN UNCHANGED <<dlAt, dlTimer, dlAsked>>
     ELSE /\ dlAt' = [dlAt EXCEPT ![s] = dlNow + ms] /\ dlTimer' = [dlTimer EXCEPT ![s] = dlNow + ms]
          /\ dlAsked' = [dlAsked EXCEPT ![s] = {dlNow + ms}]
  /\ UNCHANGED <<dlNow, dlReason, dlHandler, dlUnheard>>

\* cancel(): the first reason stays, the handlers of this scope are told, and the
\* timer is dropped when the closing is announced.
CancelFor(s, reason) ==
  IF dlState[s] # "running" THEN UNCHANGED <<dlState, dlReason, dlHandler>>
  ELSE /\ dlState' = [dlState EXCEPT ![s] = "cancelling"]
       /\ dlReason' = [dlReason EXCEPT ![s] = reason]
       /\ dlHandler' = [h \in DlHandlers |-> IF dlHandler[h].scope = s
                          THEN [dlHandler[h] EXCEPT !.told = @ + 1] ELSE dlHandler[h]]
DropTimer(s) == dlTimer' = [dlTimer EXCEPT ![s] = Never]
Cancel(s) ==
  /\ dlState[s] = "running" /\ CancelFor(s, [kind |-> "manual", at |-> 0]) /\ DropTimer(s)
  /\ UNCHANGED <<dlNow, dlAt, dlAsked, dlUnheard>>
Fire(s) ==
  /\ dlTimer[s] = dlNow /\ CancelFor(s, [kind |-> "deadline", at |-> dlAt[s]]) /\ DropTimer(s)
  /\ UNCHANGED <<dlNow, dlAt, dlAsked, dlUnheard>>

\* close() waits for the scopes below.  A closing that was announced dropped the
\* timer before.
CloseScope(s) ==
  /\ dlState[s] \in {"running", "cancelling"}
  /\ \A i \in DlScopes : i = s + 1 => dlState[i] \in {"unopened", "closed"}
  /\ dlState' = [dlState EXCEPT ![s] = "closed"]
  /\ IF dlReason[s].kind = "none" THEN DropTimer(s) ELSE UNCHANGED dlTimer
  /\ UNCHANGED <<dlNow, dlAt, dlReason, dlHandler, dlAsked, dlUnheard>>

OnCancel(h, s) ==
  /\ dlHandler[h].scope = 0 /\ h \notin dlUnheard /\ dlState[s] # "unopened"
  /\ dlHandler' = [dlHandler EXCEPT ![h].scope = s]
  /\ dlUnheard' = IF dlState[s] = "running" THEN dlUnheard ELSE dlUnheard \cup {h}
  /\ UNCHANGED <<dlNow, dlState, dlAt, dlTimer, dlReason, dlAsked>>
OffCancel(h) ==
  /\ dlHandler[h].scope # 0 /\ dlHandler' = [dlHandler EXCEPT ![h].scope = 0]
  /\ dlUnheard' = dlUnheard \cup {h}
  /\ UNCHANGED <<dlNow, dlState, dlAt, dlTimer, dlReason, dlAsked>>

Elapse ==
  /\ dlNow < DlHorizon /\ \A s \in DlScopes : dlTimer[s] # dlNow
  /\ dlNow' = dlNow + 1
  /\ UNCHANGED <<dlState, dlAt, dlTimer, dlReason, dlHandler, dlAsked, dlUnheard>>

DeadlinesNext ==
  \/ Elapse
  \/ \E s \in DlScopes : Cancel(s) \/ Fire(s) \/ CloseScope(s)
  \/ \E s \in DlScopes, ms \in DlDelays : Open(s, ms) \/ SetDeadline(s, ms)
  \/ \E h \in DlHandlers : OffCancel(h) \/ \E s \in DlScopes : OnCancel(h, s)
----------------------------------------------------------------------------
\* ctx.deadlineAt: the earliest of the scope and those above it.
VisibleAt(s) == Min({dlAt[o] : o \in Outer(s)})

\* The deadline that a task sees is the earliest that was ever asked for, of its
\* scope or one above, and once it has passed the task's signal is aborted, unless
\* a scope on the way has closed, as the one that set it may.  A scope says that it
\* was cancelled by a deadline only if that has come and was the earliest asked
\* for until then, and a handler is told once of the cancellation of its own scope.
DeadlineTruth ==
  /\ \A s \in DlScopes : dlState[s] # "unopened" =>
       /\ VisibleAt(s) = Min({Never} \cup UNION {dlAsked[o] : o \in Outer(s)})
       /\ VisibleAt(s) < dlNow /\ (\A o \in Outer(s) : dlState[o] # "closed") => SignalAborted(s)
       /\ dlReason[s].kind = "deadline" =>
            /\ dlReason[s].at \in dlAsked[s] /\ dlReason[s].at <= dlNow
            /\ \A at \in dlAsked[s] : at >= dlReason[s].at
  /\ \A h \in DlHandlers :
       /\ dlHandler[h].told <= 1
       /\ dlHandler[h].scope # 0 /\ h \notin dlUnheard =>
            (dlHandler[h].told = 1) = (dlReason[dlHandler[h].scope].kind # "none")

=============================================================================

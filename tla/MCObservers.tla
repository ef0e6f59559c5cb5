---------------------------- MODULE MCObservers ----------------------------
(* An instance of Observers for TLC. *)
EXTENDS Observers
CONSTANTS t1, t2

NoKeys == [t \in Tasks |-> {NoOne}]

\* The first task registers a cleanup.
OneCleanup == [x \in Scopes \cup Tasks |-> IF x = t1 THEN 1 ELSE 0]

\* Bound: the first task is one of the child scope, the second of the root.
OneTaskEach == owner[t1] # Watched /\ owner[t2] \in {Watched, NoOne}

\* Bound: the observers are attached first of all, or after scope:closing while
\* no task has settled.
AtTwoMoments == attached' # attached => \/ \A x \in Owned : owner[x] = NoOne
                                        \/ closing[Watched] # "none" /\ settled = {}

\* Bound: no handle is cancelled.  No event tells that one was, and a task may end
\* as cancelled without it.
NoHandleCancelled == aborted \cap Tasks = {}

Bounds == OneTaskEach' /\ NoHandleCancelled' /\ AtTwoMoments

BoundedSpec == ObserversInit /\ [][ObserversNext /\ Bounds]_<<vars, observerVars>>
=============================================================================

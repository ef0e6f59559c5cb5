--------------------------- MODULE SharedResource ---------------------------
(***************************************************************************)
(* bracketShared and bracketLazy of resources/index.ts: a resource that is  *)
(* acquired when it is first used and released by a cleanup of its owner,   *)
(* the scope whose tasks share it, or the task that asks for it with get(). *)
(* run.bracket acquires one for its own body, in the same terms.            *)
(* Uses overlap; an acquisition takes time and may fail.                    *)
(*                                                                          *)
(* The owner awaits its uses before its cleanups, but for two kinds: a use  *)
(* that is abandoned, by a timeout around it or because the body does not   *)
(* await get(), and one that begins in the cleanups of the owner.           *)
(***************************************************************************)
EXTENDS Naturals, FiniteSets

CONSTANT ResUses   \* the tasks of the scope, or the calls of get()

VARIABLES
  resKind,       \* shared, lazy or bracket
  resOwner,      \* running, cleaning or closed
  resUse,        \* of each use: idle, acquiring, waiting, using or ended
  resStray,      \* uses that the owner does not await
  resState,      \* none, held or released
  resPending,    \* acquirePromise is set
  resCleanups,   \* releases in the owner's defers
  resAcquirers   \* uses whose acquisition succeeded

resVars == <<resKind, resOwner, resUse, resStray, resState, resPending, resCleanups, resAcquirers>>

ResourceInit(kinds) ==
  /\ resKind \in kinds /\ resOwner = "running"
  /\ resUse = [u \in ResUses |-> "idle"] /\ resStray = {}
  /\ resState = "none" /\ resPending = FALSE /\ resCleanups = 0 /\ resAcquirers = {}

Uses(stages) == {u \in ResUses : resUse[u] \in stages}
Awaited == Uses({"acquiring", "waiting", "using"}) \ resStray
----------------------------------------------------------------------------
\* getSharedResource, get: the resource, the acquisition under way, or a new one.
\* A closed scope runs no task; a task's get() may be called at any time.
EveryUse == TRUE
FirstUse == ~resPending
\* run.bracket: the task itself acquires, once, and goes on when it has the resource.
OneUse == resKind = "bracket" => resOwner = "running" /\ Uses({"idle"}) = ResUses
BeginUse(u) ==
  /\ resUse[u] = "idle" /\ (resOwner = "closed" => resKind = "lazy") /\ OneUse
  /\ resUse' = [resUse EXCEPT ![u] =
       CASE resState # "none" -> "using" [] resState = "none" /\ ~FirstUse -> "waiting"
         [] OTHER -> "acquiring"]
  /\ resPending' = (resPending \/ resState = "none")
  /\ resStray' = IF resOwner = "running" THEN resStray ELSE resStray \cup {u}
  /\ UNCHANGED <<resKind, resOwner, resState, resCleanups, resAcquirers>>

\* The acquisition ends: all that wait for it go on, or fail with it, and the
\* next use may try again.  The release is registered whatever became of the owner.
Acquire(u) ==
  /\ resUse[u] = "acquiring"
  /\ resUse' = [v \in ResUses |-> IF resUse[v] \in {"acquiring", "waiting"} THEN "using"
                                  ELSE resUse[v]]
  /\ resState' = "held" /\ resAcquirers' = resAcquirers \cup {u}
  /\ resCleanups' = resCleanups + 1
  /\ UNCHANGED <<resKind, resOwner, resStray, resPending>>
StillPending == resPending
NotPending == FALSE
AcquisitionFails(u) ==
  /\ resUse[u] = "acquiring"
  /\ resUse' = [v \in ResUses |-> IF resUse[v] \in {"acquiring", "waiting"} THEN "ended"
                                  ELSE resUse[v]]
  /\ resPending' = NotPending
  /\ UNCHANGED <<resKind, resOwner, resStray, resState, resCleanups, resAcquirers>>

EndUse(u) ==
  /\ resUse[u] = "using" /\ resUse' = [resUse EXCEPT ![u] = "ended"]
  /\ UNCHANGED <<resKind, resOwner, resStray, resState, resPending, resCleanups, resAcquirers>>

Abandon(u) ==
  /\ u \in Awaited /\ resKind # "bracket" /\ resStray' = resStray \cup {u}
  /\ UNCHANGED <<resKind, resOwner, resUse, resState, resPending, resCleanups, resAcquirers>>

\* The owner has nothing left to await and runs its cleanups, the releases among
\* them, last in first out; it is closed when there are none.
StartCleanups ==
  /\ resOwner = "running" /\ Awaited = {} /\ resOwner' = "cleaning"
  /\ UNCHANGED <<resKind, resUse, resStray, resState, resPending, resCleanups, resAcquirers>>
Release ==
  /\ resOwner = "cleaning" /\ resCleanups > 0
  /\ resCleanups' = resCleanups - 1 /\ resState' = "released"
  /\ UNCHANGED <<resKind, resOwner, resUse, resStray, resPending, resAcquirers>>
OwnerCloses ==
  /\ resOwner = "cleaning" /\ resCleanups = 0 /\ resOwner' = "closed"
  /\ UNCHANGED <<resKind, resUse, resStray, resState, resPending, resCleanups, resAcquirers>>

ResourceNext ==
  \/ \E u \in ResUses : \/ BeginUse(u) \/ Acquire(u) \/ AcquisitionFails(u)
                        \/ EndUse(u) \/ Abandon(u)
  \/ StartCleanups \/ Release \/ OwnerCloses
----------------------------------------------------------------------------
\* One resource is acquired at most, by one acquisition at a time, which every
\* waiting use waits for; no use that the owner awaits meets it released; and a
\* closed owner has released it, unless a use that the owner did not await
\* acquired it.
ResourceTruth ==
  /\ Cardinality(resAcquirers) <= 1 /\ Cardinality(Uses({"acquiring"})) <= 1
  /\ Uses({"waiting"}) # {} => Uses({"acquiring"}) # {}
  /\ resState = "released" => Uses({"using"}) \subseteq resStray
  /\ resOwner = "closed" /\ resState = "held" => resAcquirers \subseteq resStray
=============================================================================

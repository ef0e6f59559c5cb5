---------------------------- MODULE ScopeProofs ----------------------------
(***************************************************************************)
(* Theorems about Scope, for every set of scopes, tasks and keys: its type *)
(* correctness and its safety invariants, from one inductive invariant.    *)
(***************************************************************************)
EXTENDS Scope, TLAPS

USE DEF Owned, Ends, Phases, adoption, control, records, closeVars, taskVars

\* What was not opened or spawned has left no trace; what was has an owner that
\* was opened before it.
Traceless ==
  /\ \A s \in Scopes : phase[s] = "none" <=> state[s] = "unopened"
  /\ \A s \in Scopes : state[s] = "unopened" => owner[s] = NoOne
  /\ \A t \in Tasks : status[t] = "unborn" => owner[t] = NoOne /\ t \notin settled
  /\ \A t \in Tasks : status[t] # "unborn" => owner[t] \in Scopes
  /\ \A x \in Owned : owner[x] # NoOne => phase[owner[x]] # "none"
  /\ \A x \in Owned : owner[x] = NoOne <=> born[x] = "none"

\* A task whose body runs is not settled; one in cleanup has a cleanup left.
Cleanups ==
  /\ \A t \in Tasks : status[t] = "running" => t \notin settled
  /\ \A t \in Tasks : InCleanup(t) => taskDefers[t] # 0

\* How the state of a scope goes with the progress of its group and its closing.
Lifecycle ==
  /\ \A s \in Scopes : phase[s] \in {"body", "drain", "defers"}
                         => state[s] \in {"running", "cancelling"}
  /\ \A s \in Scopes : state[s] = "closed" => phase[s] = "over"
  /\ \A s \in Scopes : state[s] \in {"unopened", "running"}
                         => s \notin aborted /\ closing[s] = "none"
  /\ \A s \in Scopes : s \in aborted \/ state[s] = "cancelling"
                         => closing[s] \in {"errored", "cancelled"}
  /\ \A s \in Scopes : closing[s] = "completed" \/ outcome[s] = "resolved"
                         => state[s] = "closed"

\* A scope's sets hold the work it would have to await now.
Tracked ==
  /\ \A t \in Tasks : status[t] = "running" => t \in tasks[owner[t]]
  /\ \A t \in Tasks : owner[t] # NoOne /\ phase[owner[t]] = "body" => t \in tasks[owner[t]]
  /\ \A x \in Scopes : owner[x] # NoOne /\ state[x] \in {"running", "cancelling"}
                         => x \in childScopes[owner[x]]

\* What close() has waited for once it is past a phase.
Ended(s) == phase[s] \in {"defers", "over"}
Joining ==
  /\ \A t \in Tasks : owner[t] # NoOne /\ phase[owner[t]] = "drain" /\ born[t] = "body"
                        => t \in awaited[owner[t]] \/ t \in settled
  /\ \A t \in Tasks : owner[t] # NoOne /\ Ended(owner[t]) /\ born[t] = "body" => t \in settled
  /\ \A t \in Tasks : owner[t] # NoOne /\ Ended(owner[t]) /\ born[t] = "drain"
                        => status[t] # "running"
  /\ \A x \in Scopes : owner[x] # NoOne /\ Ended(owner[x]) /\ born[x] \in {"body", "drain"}
                        => state[x] = "closed"

\* A foreground failure has stopped its scope, and left an error if it had one.
Recorded ==
  /\ \A t \in Tasks \ Background : status[t] = "failed" =>
       /\ state[owner[t]] # "running"
       /\ t \notin Silent => firstChildFailure[owner[t]] # NoOne
  /\ \A s \in Scopes : firstChildFailure[s] # NoOne => state[s] \in {"cancelling", "closed"}

\* The key of an unsettled task leads to that task.
KeyHeld ==
  \A t \in Tasks : key[t] # NoOne => /\ status[t] # "unborn" /\ t \notin settled
                                     /\ idempotencyHandles[owner[t]][key[t]] = t

Inductive ==
  /\ TypeOK
  /\ Traceless /\ Cleanups /\ Lifecycle /\ Tracked /\ Joining /\ Recorded /\ KeyHeld
----------------------------------------------------------------------------
\* Nothing is open, spawned or cancelled at first.
LEMMA InitInductive == Init => Inductive
<1> SUFFICES ASSUME Init PROVE Inductive OBVIOUS
<1>1. TypeOK BY ScopeAssumption DEF Init, TypeOK
<1>2. Traceless BY ScopeAssumption DEF Init, Traceless
<1>3. Cleanups /\ Lifecycle BY ScopeAssumption DEF Init, Cleanups, Lifecycle, InCleanup
<1>4. Tracked /\ Joining BY ScopeAssumption DEF Init, Tracked, Joining
<1>5. Recorded /\ KeyHeld BY ScopeAssumption DEF Init, Recorded, KeyHeld
<1> QED BY <1>1, <1>2, <1>3, <1>4, <1>5 DEF Inductive
----------------------------------------------------------------------------
\* What the helpers shared by several actions change.
LEMMA ClassifyRange ==
  ASSUME NEW reason
  PROVE  Classify(reason) \in {"errored", "cancelled"}
  BY DEF Classify

\* scope.cancel() cancels a running scope, and announces the closing it did not
\* announce before; it leaves every other scope alone.
LEMMA CancelScopeEffect ==
  ASSUME Inductive, NEW s \in Scopes, NEW reason, CancelScope(s, reason)
  PROVE  /\ state' \in [Scopes -> {"unopened", "running", "cancelling", "closed"}]
         /\ aborted' \in SUBSET Owned
         /\ closing' \in [Scopes -> {"none", "completed", "errored", "cancelled"}]
         /\ state[s] # "running" => UNCHANGED control
         /\ state[s] = "running" => /\ state' = [state EXCEPT ![s] = "cancelling"]
                                    /\ aborted' = aborted \cup {s}
                                    /\ closing'[s] \in {"errored", "cancelled"}
         /\ \A q \in Scopes \ {s} : closing'[q] = closing[q]
<1>1. CASE state[s] # "running"
  BY <1>1 DEF CancelScope, Inductive, TypeOK
<1>2. CASE state[s] = "running"
  <2>1. closing[s] = "none" BY <1>2 DEF Inductive, Lifecycle
  <2>2. closing' = [closing EXCEPT ![s] = Classify(reason)]
    BY <1>2, <2>1 DEF CancelScope, CloseEvent
  <2>3. closing' \in [Scopes -> {"none", "completed", "errored", "cancelled"}]
    BY <2>2, ClassifyRange DEF Inductive, TypeOK
  <2>4. state' = [state EXCEPT ![s] = "cancelling"] /\ aborted' = aborted \cup {s}
    BY <1>2 DEF CancelScope
  <2> QED BY <1>2, <2>2, <2>3, <2>4, ClassifyRange DEF Inductive, TypeOK
<1> QED BY <1>1, <1>2

\* A result is either without consequence or the first failure: the failure is
\* recorded, unless it is undefined, and the scope is cancelled.
LEMMA NoteResultEffect ==
  ASSUME Inductive, NEW s \in Scopes, NEW t \in Tasks, NEW res, NoteResult(s, t, res)
  PROVE  /\ state' \in [Scopes -> {"unopened", "running", "cancelling", "closed"}]
         /\ aborted' \in SUBSET Owned
         /\ closing' \in [Scopes -> {"none", "completed", "errored", "cancelled"}]
         /\ firstChildFailure' \in [Scopes -> Tasks \cup {NoOne}]
         /\ state[s] # "running" => UNCHANGED control
         /\ \/ UNCHANGED control
            \/ /\ state' = [state EXCEPT ![s] = "cancelling"] /\ state[s] = "running"
               /\ aborted' = aborted \cup {s}
               /\ closing'[s] \in {"errored", "cancelled"}
         /\ \A q \in Scopes \ {s} : closing'[q] = closing[q]
         /\ \A q \in Scopes : firstChildFailure[q] # NoOne => firstChildFailure'[q] # NoOne
         /\ \A q \in Scopes \ {s} : firstChildFailure'[q] = firstChildFailure[q]
         /\ firstChildFailure'[s] # firstChildFailure[s] => state'[s] # "running"
         /\ res = "failed" /\ t \notin Background =>
              /\ state'[s] # "running"
              /\ t \notin Silent => firstChildFailure'[s] # NoOne
<1>1. CASE UNCHANGED <<firstChildFailure, control>> /\
           ~(res = "failed" /\ t \notin Background /\ firstChildFailure[s] = NoOne)
  BY <1>1 DEF Inductive, TypeOK, Recorded
<1>2. CASE /\ firstChildFailure[s] = NoOne
           /\ firstChildFailure' =
                [firstChildFailure EXCEPT ![s] = IF t \in Silent THEN NoOne ELSE t]
           /\ CancelScope(s, "sibling_failed")
  <2>1. t # NoOne BY ScopeAssumption
  <2>2. firstChildFailure' \in [Scopes -> Tasks \cup {NoOne}]
    BY <1>2 DEF Inductive, TypeOK
  <2>3. /\ \A q \in Scopes \ {s} : firstChildFailure'[q] = firstChildFailure[q]
        /\ t \notin Silent => firstChildFailure'[s] = t
    BY <1>2 DEF Inductive, TypeOK
  <2>4. state'[s] # "running"
    BY <1>2, CancelScopeEffect DEF Inductive, TypeOK
  <2> QED BY <1>2, <2>1, <2>2, <2>3, <2>4, CancelScopeEffect
<1> QED BY <1>1, <1>2 DEF NoteResult

\* A cancellation that leaves the progress of the groups alone.
LEMMA CancelKeepsLifecycle ==
  ASSUME Inductive, NEW s \in Scopes, phase' = phase, outcome' = outcome,
         \/ UNCHANGED control
         \/ /\ state' = [state EXCEPT ![s] = "cancelling"] /\ state[s] = "running"
            /\ aborted' = aborted \cup {s}
            /\ closing'[s] \in {"errored", "cancelled"}
            /\ \A q \in Scopes \ {s} : closing'[q] = closing[q]
  PROVE  Lifecycle'
<1>1. CASE UNCHANGED control
  BY <1>1 DEF Inductive, Lifecycle
<1>2. CASE /\ state' = [state EXCEPT ![s] = "cancelling"] /\ state[s] = "running"
           /\ aborted' = aborted \cup {s}
           /\ closing'[s] \in {"errored", "cancelled"}
           /\ \A q \in Scopes \ {s} : closing'[q] = closing[q]
  <2>1. \A q \in Scopes : state'[q] = IF q = s THEN "cancelling" ELSE state[q]
    BY <1>2 DEF Inductive, TypeOK
  <2> QED BY <1>2, <2>1 DEF Inductive, Lifecycle
<1> QED BY <1>1, <1>2

\* A settling task gives up its key, and only its own.
LEMMA SettleEffect ==
  ASSUME Inductive, NEW t \in Tasks, status[t] # "unborn", Settle(t)
  PROVE  /\ settled' = settled \cup {t} /\ settled' \in SUBSET Tasks
         /\ idempotencyHandles' \in [Scopes -> [Keys -> Tasks \cup {NoOne}]]
         /\ key' \in [Tasks -> Keys \cup {NoOne}]
         /\ \A u \in Tasks \ {t} : key'[u] = key[u]
         /\ key'[t] = NoOne
         /\ \A u \in Tasks \ {t} : key[u] # NoOne =>
              idempotencyHandles'[owner[u]][key[u]] = u
<1>1. owner[t] \in Scopes BY DEF Inductive, Traceless
<1>2. /\ settled' = settled \cup {t} /\ settled' \in SUBSET Tasks
      /\ key' \in [Tasks -> Keys \cup {NoOne}]
      /\ \A u \in Tasks \ {t} : key'[u] = key[u]
      /\ key'[t] = NoOne
  BY DEF Settle, Inductive, TypeOK
<1>3. idempotencyHandles' \in [Scopes -> [Keys -> Tasks \cup {NoOne}]]
  BY <1>1 DEF Settle, WithKey, Inductive, TypeOK
<1>4. ASSUME NEW u \in Tasks \ {t}, key[u] # NoOne
      PROVE  idempotencyHandles'[owner[u]][key[u]] = u
  <2>1. /\ owner[u] \in Scopes /\ key[u] \in Keys
        /\ idempotencyHandles[owner[u]][key[u]] = u
    BY <1>4 DEF Inductive, TypeOK, Traceless, KeyHeld
  <2>2. CASE owner[u] = owner[t] /\ key[u] = key[t]
    <3>1. idempotencyHandles[owner[t]][key[t]] = t
      BY <1>4, <2>2 DEF Inductive, KeyHeld
    <3> QED BY <2>1, <2>2, <3>1
  <2>3. CASE owner[u] = owner[t] /\ key[u] # key[t]
    BY <1>1, <2>1, <2>3 DEF Settle, WithKey, Inductive, TypeOK
  <2>4. CASE owner[u] # owner[t]
    BY <1>1, <2>1, <2>4 DEF Settle, WithKey, Inductive, TypeOK
  <2> QED BY <2>2, <2>3, <2>4
<1> QED BY <1>2, <1>3, <1>4
----------------------------------------------------------------------------
\* Each action preserves the invariant.  A lemma states what the action does to
\* each variable, value by value; the parts of the invariant follow from that.
LEMMA OpenStep ==
  ASSUME Inductive, NEW s \in Scopes, NEW p \in Scopes \cup {NoOne}, Open(s, p)
  PROVE  Inductive'
<1> USE ScopeAssumption
<1> TypeOK BY DEF Inductive
<1>1. /\ aborted' = aborted /\ closing' = closing /\ tasks' = tasks
      /\ firstChildFailure' = firstChildFailure /\ idempotencyHandles' = idempotencyHandles
      /\ awaited' = awaited /\ defers' = defers /\ bodyError' = bodyError
      /\ status' = status /\ key' = key /\ settled' = settled /\ taskDefers' = taskDefers
  BY DEF Open
<1>2. /\ owner' \in [Owned -> Scopes \cup {NoOne}]
      /\ born' \in [Owned -> Phases]
      /\ owner' = [owner EXCEPT ![s] = p]
      /\ born'[s] = (IF p = NoOne THEN "none" ELSE phase[p])
      /\ \A x \in Owned \ {s} : born'[x] = born[x]
  BY DEF TypeOK, Open, Adopt
<1>3. signal' \in [Scopes -> SUBSET Scopes]
  BY DEF TypeOK, Open, LinkSignal
<1>4. /\ childScopes' \in [Scopes -> SUBSET Scopes]
      /\ \A q \in Scopes : childScopes'[q] = childScopes[q] \cup (IF q = p THEN {s} ELSE {})
  BY DEF TypeOK, Open
<1>5. /\ state' \in [Scopes -> {"unopened", "running", "cancelling", "closed"}]
      /\ state[s] = "unopened" /\ state' = [state EXCEPT ![s] = "running"]
  BY DEF TypeOK, Open
<1>6. /\ phase' \in [Scopes -> Phases]
      /\ outcome' \in [Scopes -> {"pending", "resolved", "rejected"}]
      /\ \A q \in Scopes \ {s} : phase'[q] = phase[q] /\ outcome'[q] = outcome[q]
      /\ phase'[s] \in {"body", "over"}
      /\ outcome'[s] = outcome[s] \/ outcome'[s] = "rejected"
  <2>1. CASE s \in Misconfigured
    <3>1. /\ phase' = [phase EXCEPT ![s] = "over"]
          /\ outcome' = [outcome EXCEPT ![s] = "rejected"]
      BY <2>1 DEF Open
    <3> QED BY <3>1 DEF TypeOK
  <2>2. CASE s \notin Misconfigured
    <3>1. phase' = [phase EXCEPT ![s] = "body"] /\ outcome' = outcome
      BY <2>2 DEF Open
    <3> QED BY <3>1 DEF TypeOK
  <2> QED BY <2>1, <2>2
<1>7. TypeOK'
  BY <1>1, <1>2, <1>3, <1>4, <1>5, <1>6 DEF TypeOK
<1>8. /\ phase[s] = "none" /\ owner[s] = NoOne
      /\ \A x \in Owned : owner[x] # s
  <2>1. phase[s] = "none" /\ owner[s] = NoOne
    BY <1>5 DEF Inductive, Traceless
  <2>2. \A x \in Owned : owner[x] # s
    BY <2>1 DEF Inductive, Traceless
  <2> QED BY <2>1, <2>2
<1>9. p # NoOne => p \in Scopes /\ p # s /\ phase[p] # "none"
  <2>1. p # NoOne => p \in Scopes /\ Holds(p) BY DEF Open
  <2>2. ASSUME p # NoOne PROVE phase[p] # "none"
    BY <2>1, <2>2 DEF Holds, Inductive, Traceless
  <2> QED BY <2>1, <2>2, <1>8
<1>10. /\ \A x \in Owned : owner'[x] = IF x = s THEN p ELSE owner[x]
       /\ \A q \in Scopes : state'[q] = IF q = s THEN "running" ELSE state[q]
       /\ s \notin Tasks /\ s # NoOne
  BY <1>2, <1>5 DEF TypeOK
<1>11. Traceless'
  <2>1. (\A q \in Scopes : phase[q] = "none" <=> state[q] = "unopened")'
    BY <1>6, <1>10 DEF Inductive, Traceless
  <2>2. (\A q \in Scopes : state[q] = "unopened" => owner[q] = NoOne)'
    BY <1>10 DEF Inductive, Traceless
  <2>3. (\A t \in Tasks : status[t] = "unborn" => owner[t] = NoOne /\ t \notin settled)'
    BY <1>1, <1>10 DEF Inductive, Traceless
  <2>4. (\A t \in Tasks : status[t] # "unborn" => owner[t] \in Scopes)'
    BY <1>1, <1>10 DEF Inductive, Traceless
  <2>5. (\A x \in Owned : owner[x] # NoOne => phase[owner[x]] # "none")'
    <3>1. \A x \in Owned : owner[x] # NoOne => owner[x] \in Scopes BY DEF TypeOK
    <3> QED BY <1>6, <1>8, <1>9, <1>10, <3>1 DEF Inductive, Traceless
  <2>6. (\A x \in Owned : owner[x] = NoOne <=> born[x] = "none")'
    BY <1>2, <1>8, <1>9, <1>10 DEF Inductive, Traceless
  <2> QED BY <2>1, <2>2, <2>3, <2>4, <2>5, <2>6 DEF Traceless
<1>12. Cleanups' BY <1>1 DEF Inductive, Cleanups, InCleanup
<1>13. Lifecycle'
  BY <1>1, <1>5, <1>6, <1>10 DEF Inductive, Lifecycle
<1>14. Tracked'
  <2>1. \A x \in Owned : owner[x] # NoOne => owner[x] \in Scopes BY DEF TypeOK
  <2> QED BY <1>1, <1>4, <1>6, <1>8, <1>9, <1>10, <2>1 DEF Inductive, Tracked
<1>15. Joining'
  <2>1. \A x \in Owned : owner[x] # NoOne => owner[x] \in Scopes BY DEF TypeOK
  <2> QED BY <1>1, <1>2, <1>6, <1>8, <1>9, <1>10, <2>1 DEF Inductive, Joining, Ended
<1>16. Recorded'
  BY <1>1, <1>5, <1>8, <1>10 DEF Inductive, Recorded
<1>17. KeyHeld'
  BY <1>1, <1>10 DEF Inductive, KeyHeld
<1> QED BY <1>7, <1>11, <1>12, <1>13, <1>14, <1>15, <1>16, <1>17 DEF Inductive

\* spawn(): the new task is in the map of its running scope, with the key it took.
LEMMA SpawnStep ==
  ASSUME Inductive, NEW s \in Scopes, NEW t \in Tasks, NEW k \in Keys \cup {NoOne},
         Spawn(s, t, k)
  PROVE  Inductive'
<1> USE ScopeAssumption
<1> TypeOK BY DEF Inductive
<1>1. TypeOK' BY DEF TypeOK, Spawn, Admit, Adopt, WithKey
<1>2. /\ \A x \in Owned : owner'[x] = IF x = t THEN s ELSE owner[x]
      /\ \A x \in Owned : born'[x] = IF x = t THEN phase[s] ELSE born[x]
      /\ status[t] = "unborn"
      /\ \A u \in Tasks : status'[u] = IF u = t THEN "running" ELSE status[u]
      /\ \A u \in Tasks : key'[u] = IF u = t THEN k ELSE key[u]
      /\ \A q \in Scopes : tasks'[q] = tasks[q] \cup (IF q = s THEN {t} ELSE {})
      /\ t \notin Scopes /\ s # NoOne
  BY DEF TypeOK, Spawn, Admit, Adopt
<1>3. /\ state' = state /\ aborted' = aborted /\ closing' = closing
      /\ childScopes' = childScopes /\ firstChildFailure' = firstChildFailure
      /\ phase' = phase /\ awaited' = awaited /\ outcome' = outcome
      /\ settled' = settled /\ taskDefers' = taskDefers
      /\ state[s] = "running"
  BY DEF Spawn, Admit
<1>4. t \notin settled /\ owner[t] = NoOne /\ phase[s] # "none"
  BY <1>2, <1>3 DEF Inductive, Traceless
<1>5. Traceless' BY <1>2, <1>3, <1>4 DEF Inductive, Traceless
<1>6. Cleanups' BY <1>2, <1>3, <1>4 DEF Inductive, Cleanups, InCleanup
<1>7. Lifecycle' BY <1>3 DEF Inductive, Lifecycle
<1>8. \A x \in Owned : owner[x] # NoOne => owner[x] \in Scopes BY DEF TypeOK
<1>9. Tracked'
  BY <1>2, <1>3, <1>4, <1>8 DEF Inductive, Tracked, Traceless
<1>10. Joining' BY <1>2, <1>3, <1>4, <1>8 DEF Inductive, Joining, Ended
<1>11. Recorded' BY <1>2, <1>3 DEF Inductive, Recorded
<1>12. KeyHeld'
  <2>1. SUFFICES ASSUME NEW u \in Tasks, key'[u] # NoOne
        PROVE  /\ status'[u] # "unborn" /\ u \notin settled'
               /\ idempotencyHandles'[owner'[u]][key'[u]] = u
    BY DEF KeyHeld
  <2>2. CASE u = t
    <3>1. k \in Keys BY <1>2, <2>1, <2>2
    <3>2. idempotencyHandles'[s][k] = t
      BY <3>1 DEF TypeOK, Spawn, Admit, WithKey
    <3> QED BY <1>2, <1>3, <1>4, <2>2, <3>2
  <2>3. CASE u # t
    <3>1. /\ key[u] \in Keys /\ key'[u] = key[u] /\ owner'[u] = owner[u]
          /\ owner[u] \in Scopes
          /\ status[u] # "unborn" /\ u \notin settled
          /\ idempotencyHandles[owner[u]][key[u]] = u
      BY <1>2, <2>1, <2>3 DEF Inductive, TypeOK, Traceless, KeyHeld
    <3>2. ~(owner[u] = s /\ key[u] = k)
      BY <3>1 DEF Spawn, Admit, InFlight
    <3>3. idempotencyHandles'[owner[u]][key[u]] = u
      BY <3>1, <3>2 DEF TypeOK, Spawn, Admit, WithKey
    <3> QED BY <1>2, <1>3, <2>3, <3>1, <3>3
  <2> QED BY <2>2, <2>3
<1> QED BY <1>1, <1>5, <1>6, <1>7, <1>9, <1>10, <1>11, <1>12 DEF Inductive

\* spawn() of a task that throws at once: it is settled but still in the map.
LEMMA SpawnThrowsStep ==
  ASSUME Inductive, NEW s \in Scopes, NEW t \in Tasks, NEW k \in Keys \cup {NoOne},
         NEW res \in {"failed", "cancelled"}, SpawnThrows(s, t, k, res)
  PROVE  Inductive'
<1> USE ScopeAssumption
<1> TypeOK BY DEF Inductive
<1>1. NoteResult(s, t, res) BY DEF SpawnThrows
<1>2. /\ \A x \in Owned : owner'[x] = IF x = t THEN s ELSE owner[x]
      /\ \A x \in Owned : born'[x] = IF x = t THEN phase[s] ELSE born[x]
      /\ status[t] = "unborn"
      /\ \A u \in Tasks : status'[u] = IF u = t THEN res ELSE status[u]
      /\ \A q \in Scopes : tasks'[q] = tasks[q] \cup (IF q = s THEN {t} ELSE {})
      /\ settled' = settled \cup {t}
      /\ t \notin Scopes /\ s # NoOne
  BY DEF TypeOK, SpawnThrows, Admit, Adopt
<1>3. /\ signal' = signal /\ childScopes' = childScopes
      /\ phase' = phase /\ awaited' = awaited /\ defers' = defers
      /\ bodyError' = bodyError /\ outcome' = outcome
      /\ key' = key /\ taskDefers' = taskDefers
      /\ state[s] = "running"
  BY DEF SpawnThrows, Admit
<1>4. TypeOK'
  <2>1. /\ owner' \in [Owned -> Scopes \cup {NoOne}] /\ born' \in [Owned -> Phases]
        /\ tasks' \in [Scopes -> SUBSET Tasks]
        /\ status' \in [Tasks -> {"unborn", "running"} \cup Ends]
        /\ settled' \in SUBSET Tasks
    BY DEF TypeOK, SpawnThrows, Admit, Adopt
  <2>2. idempotencyHandles' \in [Scopes -> [Keys -> Tasks \cup {NoOne}]]
    BY DEF TypeOK, SpawnThrows, Admit, WithKey
  <2> QED BY <1>1, <1>3, <2>1, <2>2, NoteResultEffect DEF TypeOK
<1>5. /\ \A q \in Scopes : \/ state'[q] = state[q]
                           \/ state[q] = "running" /\ state'[q] = "cancelling"
  <2>1. UNCHANGED control \/ (state[s] = "running" /\ state' = [state EXCEPT ![s] = "cancelling"])
    BY <1>1, NoteResultEffect
  <2> QED BY <2>1 DEF TypeOK
<1>6. owner[t] = NoOne /\ key[t] = NoOne /\ phase[s] # "none"
  BY <1>2, <1>3 DEF Inductive, Traceless, KeyHeld
<1>7. \A x \in Owned : owner[x] # NoOne => owner[x] \in Scopes BY DEF TypeOK
<1>8. Traceless' BY <1>2, <1>3, <1>5, <1>6 DEF Inductive, Traceless
<1>9. Cleanups' BY <1>2, <1>3 DEF Inductive, Cleanups, InCleanup
<1>10. Lifecycle' BY <1>1, <1>3, NoteResultEffect, CancelKeepsLifecycle
<1>11. Tracked' BY <1>2, <1>3, <1>5, <1>6, <1>7 DEF Inductive, Tracked, Traceless
<1>12. Joining' BY <1>2, <1>3, <1>5, <1>6, <1>7 DEF Inductive, Joining, Ended
<1>13. Recorded'
  <2>1. /\ \A q \in Scopes \ {s} : firstChildFailure'[q] = firstChildFailure[q]
        /\ firstChildFailure'[s] # firstChildFailure[s] => state'[s] = "cancelling"
        /\ firstChildFailure[s] # NoOne => firstChildFailure'[s] # NoOne
        /\ res = "failed" /\ t \notin Background =>
             /\ state'[s] # "running"
             /\ t \notin Silent => firstChildFailure'[s] # NoOne
    BY <1>1, <1>3, <1>5, NoteResultEffect
  <2> QED BY <1>2, <1>5, <2>1 DEF Inductive, Recorded, Traceless
<1>14. KeyHeld'
  <2>1. SUFFICES ASSUME NEW u \in Tasks, key[u] # NoOne
        PROVE  /\ status'[u] # "unborn" /\ u \notin settled'
               /\ idempotencyHandles'[owner'[u]][key[u]] = u
    BY <1>3 DEF KeyHeld
  <2>2. /\ u # t /\ key[u] \in Keys /\ owner'[u] = owner[u] /\ owner[u] \in Scopes
        /\ status[u] # "unborn" /\ u \notin settled
        /\ idempotencyHandles[owner[u]][key[u]] = u
    BY <1>2, <1>6, <2>1 DEF Inductive, TypeOK, Traceless, KeyHeld
  <2>3. ~(owner[u] = s /\ key[u] = k)
    BY <2>2 DEF SpawnThrows, Admit, InFlight
  <2>4. idempotencyHandles'[owner[u]][key[u]] = u
    BY <2>2, <2>3 DEF TypeOK, SpawnThrows, Admit, WithKey
  <2> QED BY <1>2, <2>2, <2>4
<1> QED BY <1>4, <1>8, <1>9, <1>10, <1>11, <1>12, <1>13, <1>14 DEF Inductive

\* The end of a task body, with the failure it may report to its scope.
LEMMA TaskBodyEndsStep ==
  ASSUME Inductive, NEW t \in Tasks, NEW res \in Ends, NEW n \in 0..MaxDefers[t],
         TaskBodyEnds(t, res, n)
  PROVE  Inductive'
<1> USE ScopeAssumption
<1> TypeOK BY DEF Inductive
<1>1. /\ owner' = owner /\ born' = born /\ signal' = signal
      /\ childScopes' = childScopes /\ tasks' = tasks
      /\ phase' = phase /\ awaited' = awaited /\ defers' = defers
      /\ bodyError' = bodyError /\ outcome' = outcome
      /\ status[t] = "running"
  BY DEF TaskBodyEnds
<1>2. owner[t] \in Scopes /\ t \notin settled /\ owner[t] # NoOne
  BY <1>1 DEF Inductive, Traceless, Cleanups
<1>3. NoteResult(owner[t], t, res) BY DEF TaskBodyEnds
<1>4. /\ status' \in [Tasks -> {"unborn", "running"} \cup Ends]
      /\ \A u \in Tasks : status'[u] = IF u = t THEN res ELSE status[u]
  BY DEF TaskBodyEnds, TypeOK
<1>5. /\ taskDefers' \in [Tasks -> Nat] /\ \A u \in Tasks : taskDefers'[u] <= MaxDefers[u]
      /\ \A u \in Tasks \ {t} : taskDefers'[u] = taskDefers[u]
      /\ taskDefers'[t] = n
  BY DEF TaskBodyEnds, TypeOK
<1>6. /\ settled' \in SUBSET Tasks
      /\ idempotencyHandles' \in [Scopes -> [Keys -> Tasks \cup {NoOne}]]
      /\ key' \in [Tasks -> Keys \cup {NoOne}]
      /\ n = 0 => settled' = settled \cup {t} /\ key'[t] = NoOne
      /\ n # 0 => settled' = settled
      /\ \A u \in Tasks : key'[u] # NoOne => /\ key'[u] = key[u] /\ u \notin settled'
                                             /\ status[u] # "unborn"
                                             /\ idempotencyHandles'[owner[u]][key[u]] = u
  <2>1. CASE n = 0
    <3>1. Settle(t) /\ status[t] # "unborn" BY <1>1, <2>1 DEF TaskBodyEnds
    <3> QED BY <2>1, <3>1, SettleEffect DEF Inductive, KeyHeld
  <2>2. CASE n # 0
    <3>1. UNCHANGED <<key, settled, idempotencyHandles>> BY <2>2 DEF TaskBodyEnds
    <3> QED BY <2>2, <3>1 DEF Inductive, KeyHeld, TypeOK
  <2> QED BY <2>1, <2>2
<1>7. TypeOK' BY <1>1, <1>2, <1>3, <1>4, <1>5, <1>6, NoteResultEffect DEF TypeOK
<1>8. /\ \A q \in Scopes : \/ state'[q] = state[q]
                           \/ state[q] = "running" /\ state'[q] = "cancelling"
  <2>1. \/ UNCHANGED control
        \/ state[owner[t]] = "running" /\ state' = [state EXCEPT ![owner[t]] = "cancelling"]
    BY <1>2, <1>3, NoteResultEffect
  <2> QED BY <1>2, <2>1 DEF TypeOK
<1>9. Traceless' BY <1>1, <1>2, <1>4, <1>6, <1>8 DEF Inductive, Traceless
<1>10. Cleanups' BY <1>2, <1>4, <1>5, <1>6 DEF Inductive, Cleanups, InCleanup
<1>11. Lifecycle'
  BY <1>1, <1>2, <1>3, NoteResultEffect, CancelKeepsLifecycle
<1>12. Tracked' BY <1>1, <1>4, <1>8 DEF Inductive, Tracked, TypeOK
<1>13. Joining' BY <1>1, <1>4, <1>6, <1>8 DEF Inductive, Joining, Ended, TypeOK
<1>14. Recorded'
  <2>1. /\ \A q \in Scopes \ {owner[t]} : firstChildFailure'[q] = firstChildFailure[q]
        /\ firstChildFailure'[owner[t]] # firstChildFailure[owner[t]] =>
             state'[owner[t]] # "running"
        /\ firstChildFailure[owner[t]] # NoOne => firstChildFailure'[owner[t]] # NoOne
        /\ res = "failed" /\ t \notin Background =>
             /\ state'[owner[t]] # "running"
             /\ t \notin Silent => firstChildFailure'[owner[t]] # NoOne
    BY <1>2, <1>3, NoteResultEffect
  <2>2. \A u \in Tasks : status[u] # "unborn" => owner[u] \in Scopes
    BY DEF Inductive, Traceless
  <2>3. state[owner[t]] # "unopened"
    BY <1>1, <1>2 DEF Inductive, Traceless
  <2>4. \A q \in Scopes : firstChildFailure'[q] # NoOne => state'[q] \in {"cancelling", "closed"}
    BY <1>2, <1>7, <1>8, <2>1, <2>3 DEF Inductive, Recorded, TypeOK
  <2>5. \A u \in Tasks \ Background : status'[u] = "failed" =>
          /\ state'[owner[u]] # "running"
          /\ u \notin Silent => firstChildFailure'[owner[u]] # NoOne
    BY <1>1, <1>2, <1>4, <1>8, <2>1, <2>2 DEF Inductive, Recorded
  <2> QED BY <1>1, <2>4, <2>5 DEF Recorded
<1>15. KeyHeld' BY <1>1, <1>4, <1>6 DEF KeyHeld
<1> QED BY <1>7, <1>9, <1>10, <1>11, <1>12, <1>13, <1>14, <1>15 DEF Inductive

\* The end of a task's cleanup.
LEMMA TaskCleanupEndsStep ==
  ASSUME Inductive, NEW t \in Tasks, TaskCleanupEnds(t)
  PROVE  Inductive'
<1> USE ScopeAssumption
<1> TypeOK BY DEF Inductive
<1>1. /\ owner' = owner /\ born' = born /\ signal' = signal
      /\ state' = state /\ aborted' = aborted /\ closing' = closing
      /\ childScopes' = childScopes /\ tasks' = tasks
      /\ firstChildFailure' = firstChildFailure
      /\ phase' = phase /\ awaited' = awaited /\ defers' = defers
      /\ bodyError' = bodyError /\ outcome' = outcome /\ status' = status
  BY DEF TaskCleanupEnds
<1>2. status[t] \in Ends /\ t \notin settled /\ taskDefers[t] # 0
  BY DEF TaskCleanupEnds, InCleanup, Inductive, Cleanups
<1>3. /\ taskDefers' \in [Tasks -> Nat] /\ \A u \in Tasks : taskDefers'[u] <= MaxDefers[u]
      /\ \A u \in Tasks \ {t} : taskDefers'[u] = taskDefers[u]
      /\ taskDefers[t] # 1 => taskDefers'[t] # 0
  <2>1. taskDefers' = [taskDefers EXCEPT ![t] = taskDefers[t] - 1]
    BY DEF TaskCleanupEnds
  <2>2. taskDefers[t] \in Nat \ {0} /\ taskDefers[t] <= MaxDefers[t] /\ MaxDefers[t] \in Nat
    BY <1>2 DEF TypeOK
  <2>3. taskDefers[t] - 1 \in Nat /\ taskDefers[t] - 1 <= MaxDefers[t]
    BY <2>2
  <2> QED BY <2>1, <2>2, <2>3 DEF TypeOK
<1>4. /\ settled' \in SUBSET Tasks
      /\ idempotencyHandles' \in [Scopes -> [Keys -> Tasks \cup {NoOne}]]
      /\ key' \in [Tasks -> Keys \cup {NoOne}]
      /\ taskDefers[t] = 1 => settled' = settled \cup {t}
      /\ taskDefers[t] # 1 => settled' = settled
      /\ \A u \in Tasks : key'[u] # NoOne => /\ key'[u] = key[u] /\ u \notin settled'
                                             /\ status[u] # "unborn"
                                             /\ idempotencyHandles'[owner[u]][key[u]] = u
  <2>1. CASE taskDefers[t] = 1
    <3>1. Settle(t) /\ status[t] # "unborn" BY <1>2, <2>1 DEF TaskCleanupEnds
    <3> QED BY <2>1, <3>1, SettleEffect DEF Inductive, KeyHeld
  <2>2. CASE taskDefers[t] # 1
    <3>1. UNCHANGED <<key, settled, idempotencyHandles>> BY <2>2 DEF TaskCleanupEnds
    <3> QED BY <2>2, <3>1 DEF Inductive, KeyHeld, TypeOK
  <2> QED BY <2>1, <2>2
<1>5. TypeOK' BY <1>1, <1>3, <1>4 DEF TypeOK
<1>6. Traceless' BY <1>1, <1>2, <1>4 DEF Inductive, Traceless
<1>7. Cleanups' BY <1>1, <1>2, <1>3, <1>4 DEF Inductive, Cleanups, InCleanup
<1>8. Lifecycle' BY <1>1 DEF Inductive, Lifecycle
<1>9. Tracked' BY <1>1 DEF Inductive, Tracked
<1>10. Joining' BY <1>1, <1>4 DEF Inductive, Joining, Ended
<1>11. Recorded' BY <1>1 DEF Inductive, Recorded
<1>12. KeyHeld' BY <1>1, <1>4 DEF KeyHeld
<1> QED BY <1>5, <1>6, <1>7, <1>8, <1>9, <1>10, <1>11, <1>12 DEF Inductive

\* handle.cancel() touches the controller of one task only.
LEMMA HandleCancelStep ==
  ASSUME Inductive, NEW t \in Tasks, HandleCancel(t)
  PROVE  Inductive'
<1> USE ScopeAssumption
<1>1. /\ owner' = owner /\ born' = born /\ signal' = signal
      /\ state' = state /\ closing' = closing /\ aborted' = aborted \cup {t}
      /\ childScopes' = childScopes /\ tasks' = tasks
      /\ firstChildFailure' = firstChildFailure /\ idempotencyHandles' = idempotencyHandles
      /\ phase' = phase /\ awaited' = awaited /\ defers' = defers
      /\ bodyError' = bodyError /\ outcome' = outcome
      /\ status' = status /\ key' = key /\ settled' = settled /\ taskDefers' = taskDefers
  BY DEF HandleCancel
<1>2. TypeOK' BY <1>1 DEF Inductive, TypeOK
<1>3. Lifecycle'
  <2>1. \A s \in Scopes : s \in aborted' <=> s \in aborted BY <1>1
  <2> QED BY <1>1, <2>1 DEF Inductive, Lifecycle
<1>4. Traceless' /\ Cleanups'
  BY <1>1 DEF Inductive, Traceless, Cleanups, InCleanup
<1>5. Tracked' /\ Joining' BY <1>1 DEF Inductive, Tracked, Joining, Ended
<1>6. Recorded' /\ KeyHeld' BY <1>1 DEF Inductive, Recorded, KeyHeld
<1> QED BY <1>2, <1>3, <1>4, <1>5, <1>6 DEF Inductive

\* scope.cancel() by a timer, a budget or other code.
LEMMA CancelStep ==
  ASSUME Inductive, NEW s \in Scopes, NEW reason, Cancel(s, reason)
  PROVE  Inductive'
<1> USE ScopeAssumption
<1> TypeOK BY DEF Inductive
<1>1. /\ owner' = owner /\ born' = born /\ signal' = signal
      /\ childScopes' = childScopes /\ tasks' = tasks
      /\ firstChildFailure' = firstChildFailure /\ idempotencyHandles' = idempotencyHandles
      /\ phase' = phase /\ awaited' = awaited /\ defers' = defers
      /\ bodyError' = bodyError /\ outcome' = outcome
      /\ status' = status /\ key' = key /\ settled' = settled /\ taskDefers' = taskDefers
      /\ state[s] = "running" /\ CancelScope(s, reason)
  BY DEF Cancel
<1>2. TypeOK' BY <1>1, CancelScopeEffect DEF TypeOK
<1>3. Lifecycle' BY <1>1, CancelScopeEffect, CancelKeepsLifecycle
<1>4. \A q \in Scopes : \/ state'[q] = state[q]
                        \/ state[q] = "running" /\ state'[q] = "cancelling"
  BY <1>1, CancelScopeEffect DEF TypeOK
<1>5. Traceless' BY <1>1, <1>4 DEF Inductive, Traceless
<1>6. Cleanups' BY <1>1 DEF Inductive, Cleanups, InCleanup
<1>7. Tracked' BY <1>1, <1>4 DEF Inductive, Tracked
<1>8. Joining' BY <1>1, <1>4 DEF Inductive, Joining, Ended
<1>9. Recorded' BY <1>1, <1>4 DEF Inductive, Recorded, Traceless
<1>10. KeyHeld' BY <1>1 DEF Inductive, KeyHeld
<1> QED BY <1>10, <1>2, <1>3, <1>5, <1>6, <1>7, <1>8, <1>9 DEF Inductive

\* What the head of close()'s loop does with the tasks ts it finds.
LEMMA AwaitOwnedEffect ==
  ASSUME TypeOK, NEW s \in Scopes, NEW ts \in SUBSET Tasks, NEW n \in 0..MaxDefers[s],
         AwaitOwned(s, ts, n)
  PROVE  /\ phase' \in [Scopes -> Phases]
         /\ awaited' \in [Scopes -> SUBSET Owned]
         /\ defers' \in [Scopes -> Nat] /\ \A q \in Scopes : defers'[q] <= MaxDefers[q]
         /\ \A q \in Scopes \ {s} : phase'[q] = phase[q] /\ awaited'[q] = awaited[q]
         /\ awaited'[s] = ts \cup childScopes[s]
         /\ \/ phase'[s] = "drain"
            \/ phase'[s] = "defers" /\ ts = {} /\ childScopes[s] = {}
<1> USE ScopeAssumption
<1> DEFINE owned == ts \cup childScopes[s]
<1>1. owned \in SUBSET Owned /\ MaxDefers[s] \in Nat BY DEF TypeOK
<1>2. /\ awaited' = [awaited EXCEPT ![s] = owned]
      /\ phase' = [phase EXCEPT ![s] = IF owned = {} THEN "defers" ELSE "drain"]
      /\ defers' = [defers EXCEPT ![s] = IF owned = {} THEN n ELSE 0]
  BY DEF AwaitOwned
<1>3. owned = {} => ts = {} /\ childScopes[s] = {} OBVIOUS
<1> HIDE DEF owned
<1>4. /\ phase' \in [Scopes -> Phases]
      /\ awaited' \in [Scopes -> SUBSET Owned]
      /\ \A q \in Scopes \ {s} : phase'[q] = phase[q] /\ awaited'[q] = awaited[q]
      /\ awaited'[s] = owned
      /\ \/ phase'[s] = "drain"
         \/ phase'[s] = "defers" /\ owned = {}
  BY <1>1, <1>2 DEF TypeOK
<1>5. defers' \in [Scopes -> Nat] /\ \A q \in Scopes : defers'[q] <= MaxDefers[q]
  BY <1>1, <1>2 DEF TypeOK
<1> QED BY <1>3, <1>4, <1>5 DEF owned

\* The end of group()'s body: close() takes its first snapshot.
LEMMA GroupBodyEndsStep ==
  ASSUME Inductive, NEW s \in Scopes, NEW res \in Ends, NEW n \in 0..MaxDefers[s],
         GroupBodyEnds(s, res, n)
  PROVE  Inductive'
<1> USE ScopeAssumption
<1> TypeOK BY DEF Inductive
<1>1. /\ owner' = owner /\ born' = born /\ signal' = signal
      /\ childScopes' = childScopes /\ tasks' = tasks
      /\ firstChildFailure' = firstChildFailure /\ idempotencyHandles' = idempotencyHandles
      /\ outcome' = outcome
      /\ status' = status /\ key' = key /\ settled' = settled /\ taskDefers' = taskDefers
      /\ phase[s] = "body"
  BY DEF GroupBodyEnds
<1>2. /\ phase' \in [Scopes -> Phases]
      /\ awaited' \in [Scopes -> SUBSET Owned]
      /\ defers' \in [Scopes -> Nat] /\ \A q \in Scopes : defers'[q] <= MaxDefers[q]
      /\ \A q \in Scopes \ {s} : phase'[q] = phase[q] /\ awaited'[q] = awaited[q]
      /\ awaited'[s] = tasks[s] \cup childScopes[s]
      /\ \/ phase'[s] = "drain"
         \/ phase'[s] = "defers" /\ tasks[s] = {} /\ childScopes[s] = {}
  <2>1. AwaitOwned(s, tasks[s], n) /\ tasks[s] \in SUBSET Tasks
    BY DEF GroupBodyEnds, TypeOK
  <2> QED BY <2>1, AwaitOwnedEffect
<1>3. bodyError' \in [Scopes -> BOOLEAN] BY DEF GroupBodyEnds, TypeOK
<1>4. /\ state' \in [Scopes -> {"unopened", "running", "cancelling", "closed"}]
      /\ aborted' \in SUBSET Owned
      /\ closing' \in [Scopes -> {"none", "completed", "errored", "cancelled"}]
      /\ \A q \in Scopes \ {s} : /\ state'[q] = state[q] /\ closing'[q] = closing[q]
                                 /\ q \in aborted' <=> q \in aborted
      /\ \/ UNCHANGED control
         \/ /\ state[s] = "running" /\ state'[s] = "cancelling"
            /\ closing'[s] \in {"errored", "cancelled"}
  <2>1. CASE res = "failed"
    <3>1. CancelScope(s, "parent_failed") BY <2>1 DEF GroupBodyEnds
    <3> QED BY <3>1, CancelScopeEffect DEF TypeOK
  <2>2. CASE res # "failed"
    <3>1. UNCHANGED control BY <2>2 DEF GroupBodyEnds
    <3> QED BY <3>1 DEF TypeOK
  <2> QED BY <2>1, <2>2
<1>5. TypeOK' BY <1>1, <1>2, <1>3, <1>4 DEF TypeOK
<1>6. \A q \in Scopes : \/ state'[q] = state[q]
                        \/ state[q] = "running" /\ state'[q] = "cancelling"
  BY <1>4
<1>7. \A x \in Owned : owner[x] # NoOne => owner[x] \in Scopes BY DEF TypeOK
<1>8. Traceless'
  <2>1. \A q \in Scopes : phase'[q] = "none" <=> phase[q] = "none"
    BY <1>1, <1>2
  <2> QED BY <1>1, <1>6, <1>7, <2>1 DEF Inductive, Traceless
<1>9. Cleanups' BY <1>1 DEF Inductive, Cleanups, InCleanup
<1>10. Lifecycle'
  <2>1. state[s] \in {"running", "cancelling"} BY <1>1 DEF Inductive, Lifecycle
  <2> QED BY <1>1, <1>2, <1>4, <2>1 DEF Inductive, Lifecycle
<1>11. Tracked' BY <1>1, <1>2, <1>6, <1>7 DEF Inductive, Tracked
<1>12. Joining'
  <2>1. \A t \in Tasks : owner[t] = s => t \in tasks[s]
    BY <1>1 DEF Inductive, Tracked
  <2>2. \A x \in Scopes : owner[x] = s /\ state[x] \in {"running", "cancelling"}
          => x \in childScopes[s]
    BY DEF Inductive, Tracked
  <2>3. \A x \in Scopes : owner[x] = s /\ x \notin childScopes[s] => state'[x] = "closed"
    BY <1>6, <2>2 DEF Inductive, TypeOK, Traceless
  <2> QED BY <1>1, <1>2, <1>6, <1>7, <2>1, <2>3 DEF Inductive, Joining, Ended
<1>13. Recorded' BY <1>1, <1>6 DEF Inductive, Recorded, Traceless
<1>14. KeyHeld' BY <1>1 DEF Inductive, KeyHeld
<1> QED BY <1>14, <1>5, <1>8, <1>9, <1>10, <1>11, <1>12, <1>13 DEF Inductive

\* An iteration of close()'s loop: what it forgets has ended, what it finds next
\* is what is still owned.
LEMMA DrainStep ==
  ASSUME Inductive, NEW s \in Scopes, NEW n \in 0..MaxDefers[s], Drain(s, n)
  PROVE  Inductive'
<1> USE ScopeAssumption
<1> TypeOK BY DEF Inductive
<1>1. /\ owner' = owner /\ born' = born /\ signal' = signal
      /\ state' = state /\ aborted' = aborted /\ closing' = closing
      /\ childScopes' = childScopes
      /\ firstChildFailure' = firstChildFailure /\ idempotencyHandles' = idempotencyHandles
      /\ bodyError' = bodyError /\ outcome' = outcome
      /\ status' = status /\ key' = key /\ settled' = settled /\ taskDefers' = taskDefers
      /\ phase[s] = "drain"
      /\ \A x \in awaited[s] : Done(x)
  BY DEF Drain
<1>2. /\ tasks' \in [Scopes -> SUBSET Tasks]
      /\ \A q \in Scopes \ {s} : tasks'[q] = tasks[q]
      /\ tasks'[s] = StillRunning(s)
  BY DEF Drain, StillRunning, TypeOK
<1>3. /\ phase' \in [Scopes -> Phases]
      /\ awaited' \in [Scopes -> SUBSET Owned]
      /\ defers' \in [Scopes -> Nat] /\ \A q \in Scopes : defers'[q] <= MaxDefers[q]
      /\ \A q \in Scopes \ {s} : phase'[q] = phase[q] /\ awaited'[q] = awaited[q]
      /\ \/ phase'[s] = "drain"
         \/ phase'[s] = "defers" /\ StillRunning(s) = {} /\ childScopes[s] = {}
  <2>1. AwaitOwned(s, StillRunning(s), n) /\ StillRunning(s) \in SUBSET Tasks
    BY DEF Drain, StillRunning, TypeOK
  <2> QED BY <2>1, AwaitOwnedEffect
<1>4. TypeOK' BY <1>1, <1>2, <1>3 DEF TypeOK
<1>5. \A x \in Owned : owner[x] # NoOne => owner[x] \in Scopes BY DEF TypeOK
<1>6. Traceless'
  <2>1. \A q \in Scopes : phase'[q] = "none" <=> phase[q] = "none"
    BY <1>1, <1>3
  <2> QED BY <1>1, <1>5, <2>1 DEF Inductive, Traceless
<1>7. Cleanups' BY <1>1 DEF Inductive, Cleanups, InCleanup
<1>8. Lifecycle' BY <1>1, <1>3 DEF Inductive, Lifecycle
<1>9. Tracked'
  BY <1>1, <1>2, <1>3, <1>5 DEF Inductive, Tracked, Traceless, StillRunning
<1>10. Joining'
  <2>1. \A t \in Tasks : owner[t] = s /\ born[t] = "body" => t \in settled
    <3>1. \A t \in Tasks : Done(t) => t \in settled BY DEF Done
    <3> QED BY <1>1, <3>1 DEF Inductive, Joining
  <2>2. \A t \in Tasks : owner[t] = s /\ status[t] = "running" => t \in StillRunning(s)
    BY DEF Inductive, Tracked, StillRunning
  <2>3. \A x \in Scopes : owner[x] = s /\ x \notin childScopes[s] => state[x] = "closed"
    <3>1. \A x \in Scopes : owner[x] = s /\ state[x] \in {"running", "cancelling"}
            => x \in childScopes[s]
      BY DEF Inductive, Tracked
    <3>2. \A x \in Scopes : owner[x] = s => state[x] # "unopened"
      BY DEF Inductive, Traceless
    <3> QED BY <3>1, <3>2 DEF TypeOK
  <2> QED BY <1>1, <1>3, <1>5, <2>1, <2>2, <2>3 DEF Inductive, Joining, Ended
<1>11. Recorded' /\ KeyHeld' BY <1>1 DEF Inductive, Recorded, KeyHeld
<1> QED BY <1>4, <1>6, <1>7, <1>8, <1>9, <1>10, <1>11 DEF Inductive

\* The end of a scope's cleanup.
LEMMA ScopeCleanupEndsStep ==
  ASSUME Inductive, NEW s \in Scopes, ScopeCleanupEnds(s)
  PROVE  Inductive'
<1> USE ScopeAssumption
<1>1. /\ owner' = owner /\ born' = born /\ signal' = signal
      /\ state' = state /\ aborted' = aborted /\ closing' = closing
      /\ childScopes' = childScopes /\ tasks' = tasks
      /\ firstChildFailure' = firstChildFailure /\ idempotencyHandles' = idempotencyHandles
      /\ phase' = phase /\ awaited' = awaited
      /\ bodyError' = bodyError /\ outcome' = outcome
      /\ status' = status /\ key' = key /\ settled' = settled /\ taskDefers' = taskDefers
  BY DEF ScopeCleanupEnds
<1>2. defers' \in [Scopes -> Nat] /\ \A q \in Scopes : defers'[q] <= MaxDefers[q]
  <2>1. defers' = [defers EXCEPT ![s] = defers[s] - 1] /\ defers[s] > 0
    BY DEF ScopeCleanupEnds
  <2>2. defers[s] \in Nat /\ defers[s] <= MaxDefers[s] /\ MaxDefers[s] \in Nat
    BY DEF Inductive, TypeOK
  <2>3. defers[s] - 1 \in Nat /\ defers[s] - 1 <= MaxDefers[s] BY <2>1, <2>2
  <2> QED BY <2>1, <2>3 DEF Inductive, TypeOK
<1>3. TypeOK' BY <1>1, <1>2 DEF Inductive, TypeOK
<1>4. Traceless' /\ Cleanups' /\ Lifecycle'
  BY <1>1 DEF Inductive, Traceless, Cleanups, InCleanup, Lifecycle
<1>5. Tracked' /\ Joining' BY <1>1 DEF Inductive, Tracked, Joining, Ended
<1>6. Recorded' /\ KeyHeld' BY <1>1 DEF Inductive, Recorded, KeyHeld
<1> QED BY <1>3, <1>4, <1>5, <1>6 DEF Inductive

\* The end of close(): nothing of the scope is running or awaited any more.
LEMMA FinishStep ==
  ASSUME Inductive, NEW s \in Scopes, Finish(s)
  PROVE  Inductive'
<1> USE ScopeAssumption
<1> TypeOK BY DEF Inductive
<1>1. /\ owner' = owner /\ born' = born /\ signal' = signal
      /\ aborted' = aborted /\ tasks' = tasks
      /\ firstChildFailure' = firstChildFailure /\ idempotencyHandles' = idempotencyHandles
      /\ awaited' = awaited /\ defers' = defers /\ bodyError' = bodyError
      /\ status' = status /\ key' = key /\ settled' = settled /\ taskDefers' = taskDefers
      /\ phase[s] = "defers"
  BY DEF Finish
<1>2. /\ childScopes' \in [Scopes -> SUBSET Scopes]
      /\ \A q \in Scopes : childScopes[q] \ {s} \subseteq childScopes'[q]
  BY DEF Finish, TypeOK
<1>3. /\ state' \in [Scopes -> {"unopened", "running", "cancelling", "closed"}]
      /\ \A q \in Scopes : state'[q] = IF q = s THEN "closed" ELSE state[q]
      /\ phase' \in [Scopes -> Phases]
      /\ \A q \in Scopes : phase'[q] = IF q = s THEN "over" ELSE phase[q]
  BY DEF Finish, TypeOK
<1>4. /\ outcome' \in [Scopes -> {"pending", "resolved", "rejected"}]
      /\ \A q \in Scopes \ {s} : outcome'[q] = outcome[q]
  BY DEF Finish, TypeOK, GroupResult
<1>5. /\ closing' \in [Scopes -> {"none", "completed", "errored", "cancelled"}]
      /\ \A q \in Scopes \ {s} : closing'[q] = closing[q]
      /\ closing[s] # "none" => closing'[s] = closing[s]
  BY DEF Finish, CloseEvent, TypeOK
<1>6. TypeOK' BY <1>1, <1>2, <1>3, <1>4, <1>5 DEF TypeOK
<1>7. \A x \in Owned : owner[x] # NoOne => owner[x] \in Scopes BY DEF TypeOK
<1>8. state[s] \in {"running", "cancelling"} BY <1>1 DEF Inductive, Lifecycle
<1>9. Traceless' BY <1>1, <1>3, <1>7, <1>8 DEF Inductive, Traceless
<1>10. Cleanups' BY <1>1 DEF Inductive, Cleanups, InCleanup
<1>11. Lifecycle' BY <1>1, <1>3, <1>4, <1>5 DEF Inductive, Lifecycle
<1>12. Tracked' BY <1>1, <1>2, <1>3, <1>7 DEF Inductive, Tracked, Traceless
<1>13. Joining' BY <1>1, <1>3, <1>7 DEF Inductive, Joining, Ended
<1>14. Recorded' BY <1>1, <1>3 DEF Inductive, Recorded, Traceless
<1>15. KeyHeld' BY <1>1 DEF Inductive, KeyHeld
<1> QED BY <1>15, <1>6, <1>9, <1>10, <1>11, <1>12, <1>13, <1>14 DEF Inductive

\* A step that changes nothing.
LEMMA StutterStep ==
  ASSUME Inductive, UNCHANGED vars
  PROVE  Inductive'
<1>1. TypeOK' BY DEF Inductive, vars, TypeOK
<1>2. Traceless' /\ Cleanups' /\ Lifecycle'
  BY DEF Inductive, vars, Traceless, Cleanups, InCleanup, Lifecycle
<1>3. Tracked' /\ Joining' BY DEF Inductive, vars, Tracked, Joining, Ended
<1>4. Recorded' /\ KeyHeld' BY DEF Inductive, vars, Recorded, KeyHeld
<1> QED BY <1>1, <1>2, <1>3, <1>4 DEF Inductive

\* Every step preserves the invariant.
LEMMA NextInductive == Inductive /\ [Next]_vars => Inductive'
<1> SUFFICES ASSUME Inductive, [Next]_vars PROVE Inductive' OBVIOUS
<1>1. ASSUME NEW s \in Scopes, ScopeStep(s) PROVE Inductive'
  BY <1>1, OpenStep, CancelStep, GroupBodyEndsStep, DrainStep, ScopeCleanupEndsStep,
     FinishStep DEF ScopeStep, CloseStep
<1>2. ASSUME NEW t \in Tasks, TaskStep(t) PROVE Inductive'
  BY <1>2, SpawnStep, SpawnThrowsStep, TaskBodyEndsStep, TaskCleanupEndsStep,
     HandleCancelStep DEF TaskStep
<1> QED BY <1>1, <1>2, StutterStep DEF Next

\* The invariant that carries the other theorems holds of the engine whatever
\* the scopes, tasks, keys and options are.
THEOREM InductiveHolds == Spec => []Inductive
  BY InitInductive, NextInductive, PTL DEF Spec
----------------------------------------------------------------------------
\* Every variable keeps its type: the tree of scopes, the controllers, the maps
\* and sets of ScopeImpl and the cleanups still to run.
THEOREM TypeCorrect == Spec => []TypeOK
<1>1. Inductive => TypeOK BY DEF Inductive
<1> QED BY <1>1, InductiveHolds, PTL

\* close() has joined the tasks its scope adopted before the body ended, with
\* their cleanups, and every child scope opened before the scope's own cleanups.
THEOREM JoinsOwnedWork == Spec => []OwnedWorkJoined
<1>1. Inductive => OwnedWorkJoined
  <2> SUFFICES ASSUME Inductive, NEW x \in Owned,
                      owner[x] # NoOne, state[owner[x]] = "closed",
                      born[x] = "body" \/ (born[x] = "drain" /\ x \in Scopes)
               PROVE  Done(x)
    BY DEF OwnedWorkJoined
  <2>1. owner[x] \in Scopes BY DEF Inductive, TypeOK
  <2>2. Ended(owner[x]) BY <2>1 DEF Inductive, Lifecycle, Ended
  <2>3. CASE x \in Scopes BY <2>2, <2>3 DEF Inductive, Joining, Done
  <2>4. CASE x \notin Scopes BY <2>2, <2>4 DEF Inductive, Joining, Done
  <2> QED BY <2>3, <2>4
<1> QED BY <1>1, InductiveHolds, PTL

\* No body of a task spawned before or during the drain outlives the scope.
THEOREM JoinsBodies == Spec => []BodiesJoined
<1>1. Inductive => BodiesJoined
  <2> SUFFICES ASSUME Inductive, NEW t \in Tasks, status[t] = "running",
                      born[t] \in {"body", "drain"}, state[owner[t]] = "closed"
               PROVE  FALSE
    BY DEF BodiesJoined
  <2>1. owner[t] \in Scopes /\ owner[t] # NoOne
    BY ScopeAssumption DEF Inductive, Traceless
  <2>2. Ended(owner[t]) BY <2>1 DEF Inductive, Lifecycle, Ended
  <2> QED BY <2>1, <2>2 DEF Inductive, Joining, Cleanups
<1> QED BY <1>1, InductiveHolds, PTL

\* An idempotency key of a scope never belongs to two unsettled tasks.
THEOREM KeysExclusive == Spec => []OneInFlightPerKey
<1>1. Inductive => OneInFlightPerKey
  BY DEF Inductive, KeyHeld, OneInFlightPerKey
<1> QED BY <1>1, InductiveHolds, PTL
----------------------------------------------------------------------------
\* How a scope can be closed after a step: it finished in it, or it was closed
\* and the step added nothing to what its outcome and its closing speak of.
Untouched(s) ==
  /\ state[s] = "closed"
  /\ outcome'[s] = outcome[s] /\ bodyError'[s] = bodyError[s]
  /\ closing'[s] = closing[s]
  /\ s \in aborted' => s \in aborted
  /\ \A t \in Tasks \ Background :
       /\ owner'[t] = s /\ status'[t] = "failed" /\ born'[t] \in {"body", "drain"}
       => owner[t] = s /\ status[t] = "failed" /\ born[t] \in {"body", "drain"}

\* Tasks neither close a scope nor take back a result, and add no foreground
\* failure born before the scope's cleanups to a closed scope.
LEMMA ClosedAfterTaskStep ==
  ASSUME Inductive, NEW s \in Scopes, NEW t \in Tasks, TaskStep(t), state'[s] = "closed"
  PROVE  Untouched(s)
<1> USE ScopeAssumption
<1> TypeOK BY DEF Inductive
<1>1. ASSUME NEW q \in Scopes, NEW k \in Keys \cup {NoOne}, Spawn(q, t, k)
      PROVE  Untouched(s)
  BY <1>1 DEF Spawn, Admit, Adopt, TypeOK, Untouched
<1>2. ASSUME NEW q \in Scopes, NEW k \in Keys \cup {NoOne},
             NEW res \in {"failed", "cancelled"}, SpawnThrows(q, t, k, res)
      PROVE  Untouched(s)
  <2>1. /\ state[q] = "running" /\ NoteResult(q, t, res)
        /\ outcome' = outcome /\ bodyError' = bodyError
        /\ owner' = [owner EXCEPT ![t] = q]
        /\ status' = [status EXCEPT ![t] = res]
        /\ \A u \in Tasks \ {t} : born'[u] = born[u]
    BY <1>2 DEF SpawnThrows, Admit, Adopt, TypeOK
  <2>2. UNCHANGED control \/ state' = [state EXCEPT ![q] = "cancelling"]
    BY <2>1, NoteResultEffect
  <2>3. state[s] = "closed" /\ s # q BY <2>1, <2>2 DEF TypeOK
  <2>4. closing'[s] = closing[s] /\ (s \in aborted' => s \in aborted)
    BY <2>1, <2>3, NoteResultEffect
  <2> QED BY <2>1, <2>3, <2>4 DEF TypeOK, Untouched
<1>3. ASSUME NEW res \in Ends, NEW n \in 0..MaxDefers[t], TaskBodyEnds(t, res, n)
      PROVE  Untouched(s)
  <2>1. /\ status[t] = "running" /\ NoteResult(owner[t], t, res)
        /\ outcome' = outcome /\ bodyError' = bodyError
        /\ owner' = owner /\ born' = born
        /\ status' = [status EXCEPT ![t] = res]
    BY <1>3 DEF TaskBodyEnds
  <2>2. owner[t] \in Scopes /\ owner[t] # NoOne BY <2>1 DEF Inductive, Traceless
  <2>3. /\ state[s] = "closed"
        /\ closing'[s] = closing[s] /\ (s \in aborted' => s \in aborted)
    BY <2>1, <2>2, NoteResultEffect DEF TypeOK
  <2>4. owner[t] = s => born[t] \notin {"body", "drain"}
    BY <2>1, <2>2, <2>3 DEF Inductive, Lifecycle, Joining, Ended, Cleanups
  <2> QED BY <2>1, <2>3, <2>4 DEF TypeOK, Untouched
<1>4. ASSUME TaskCleanupEnds(t) PROVE Untouched(s)
  BY <1>4 DEF TaskCleanupEnds, Untouched
<1>5. ASSUME HandleCancel(t) PROVE Untouched(s)
  BY <1>5 DEF HandleCancel, Untouched
<1> QED BY <1>1, <1>2, <1>3, <1>4, <1>5 DEF TaskStep

\* No step of a scope changes the outcome or closing of a closed one.
LEMMA ClosedAfterScopeStep ==
  ASSUME Inductive, NEW s \in Scopes, NEW q \in Scopes, ScopeStep(q), state'[s] = "closed"
  PROVE  Finish(s) \/ Untouched(s)
<1> USE ScopeAssumption
<1> TypeOK BY DEF Inductive
<1>1. ASSUME NEW p \in Scopes \cup {NoOne}, Open(q, p) PROVE Untouched(s)
  <2>1. /\ state[q] = "unopened" /\ state' = [state EXCEPT ![q] = "running"]
        /\ bodyError' = bodyError /\ closing' = closing /\ aborted' = aborted
        /\ status' = status
    BY <1>1 DEF Open
  <2>2. state[s] = "closed" /\ s # q BY <2>1 DEF TypeOK
  <2>3. \A x \in Owned \ {q} : owner'[x] = owner[x] /\ born'[x] = born[x]
    BY <1>1 DEF Open, Adopt, TypeOK
  <2>4. outcome'[s] = outcome[s] BY <1>1, <2>2 DEF Open, TypeOK
  <2> QED BY <2>1, <2>2, <2>3, <2>4 DEF Untouched
<1>2. ASSUME NEW reason, Cancel(q, reason) PROVE Untouched(s)
  <2>1. /\ state[q] = "running" /\ CancelScope(q, reason)
        /\ outcome' = outcome /\ bodyError' = bodyError
        /\ owner' = owner /\ born' = born /\ status' = status
    BY <1>2 DEF Cancel
  <2>2. state[s] = "closed" /\ s # q BY <2>1, CancelScopeEffect DEF TypeOK
  <2> QED BY <2>1, <2>2, CancelScopeEffect DEF Untouched
<1>3. ASSUME NEW res \in Ends, NEW n \in 0..MaxDefers[q], GroupBodyEnds(q, res, n)
      PROVE  Untouched(s)
  <2>1. /\ phase[q] = "body" /\ outcome' = outcome
        /\ owner' = owner /\ born' = born /\ status' = status
        /\ \A x \in Scopes \ {q} : bodyError'[x] = bodyError[x]
        /\ CancelScope(q, "parent_failed") \/ UNCHANGED control
    BY <1>3 DEF GroupBodyEnds, TypeOK
  <2>2. state[q] # "closed" BY <2>1 DEF Inductive, Lifecycle
  <2>3. CASE UNCHANGED control
    BY <2>1, <2>2, <2>3 DEF Untouched
  <2>4. CASE CancelScope(q, "parent_failed")
    <3>1. UNCHANGED control \/ state' = [state EXCEPT ![q] = "cancelling"]
      BY <2>4, CancelScopeEffect
    <3>2. state[s] = "closed" /\ s # q BY <2>2, <3>1 DEF TypeOK
    <3>3. closing'[s] = closing[s] /\ (s \in aborted' => s \in aborted)
      BY <2>4, <3>2, CancelScopeEffect
    <3> QED BY <2>1, <3>2, <3>3 DEF Untouched
  <2> QED BY <2>1, <2>3, <2>4
<1>4. ASSUME NEW n \in 0..MaxDefers[q], Drain(q, n) PROVE Untouched(s)
  BY <1>4 DEF Drain, Untouched
<1>5. ASSUME ScopeCleanupEnds(q) PROVE Untouched(s)
  BY <1>5 DEF ScopeCleanupEnds, Untouched
<1>6. ASSUME Finish(q) PROVE Finish(s) \/ Untouched(s)
  <2>1. CASE q = s BY <1>6, <2>1
  <2>2. CASE q # s
    <3>1. /\ state' = [state EXCEPT ![q] = "closed"]
          /\ bodyError' = bodyError /\ aborted' = aborted
          /\ owner' = owner /\ born' = born /\ status' = status
          /\ outcome'[s] = outcome[s]
      BY <1>6, <2>2 DEF Finish, TypeOK
    <3>2. closing'[s] = closing[s]
      BY <1>6, <2>2 DEF Finish, CloseEvent, TypeOK
    <3> QED BY <2>2, <3>1, <3>2 DEF TypeOK, Untouched
  <2> QED BY <2>1, <2>2
<1> QED BY <1>1, <1>2, <1>3, <1>4, <1>5, <1>6 DEF ScopeStep, CloseStep

\* What is settled about a closed scope stays so.
LEMMA ClosedAfterStep ==
  ASSUME Inductive, [Next]_vars, NEW s \in Scopes, state'[s] = "closed"
  PROVE  Finish(s) \/ Untouched(s)
<1>1. CASE UNCHANGED vars BY <1>1 DEF vars, Untouched
<1> QED BY <1>1, ClosedAfterTaskStep, ClosedAfterScopeStep DEF Next

\* At the moment a scope finishes, its outcome and its closing tell the truth.
LEMMA FinishTellsTruth ==
  ASSUME Inductive, NEW s \in Scopes, Finish(s)
  PROVE  /\ outcome'[s] = "resolved" => ~bodyError'[s] /\ ForegroundFailures(s)' \subseteq Silent
         /\ closing'[s] = "completed" => s \notin aborted' /\ ForegroundFailures(s)' = {}
<1> USE ScopeAssumption
<1>1. /\ owner' = owner /\ born' = born /\ status' = status
      /\ aborted' = aborted /\ bodyError' = bodyError
      /\ outcome'[s] = GroupResult(s) /\ phase[s] = "defers"
  BY DEF Finish, Inductive, TypeOK
<1>2. /\ firstChildFailure[s] = NoOne => ForegroundFailures(s)' \subseteq Silent
      /\ state[s] = "running" => ForegroundFailures(s)' = {}
  BY <1>1 DEF Inductive, Recorded, ForegroundFailures
<1>3. outcome'[s] = "resolved" => ~bodyError'[s] /\ firstChildFailure[s] = NoOne
  BY <1>1 DEF GroupResult
<1>4. closing'[s] = "completed" => closing[s] = "none" /\ state[s] = "running"
  <2>1. closing[s] # "completed" BY <1>1 DEF Inductive, Lifecycle
  <2>2. closing'[s] = "completed" => closing[s] = "none"
    BY <2>1 DEF Finish, CloseEvent, Inductive, TypeOK
  <2> QED BY <1>1, <2>2 DEF Inductive, Lifecycle
<1>5. closing[s] = "none" => s \notin aborted BY DEF Inductive, Lifecycle
<1> QED BY <1>1, <1>2, <1>3, <1>4, <1>5

\* group() never resolves over a failed body or a foreground failure of work it
\* drained, unless the error is undefined; and it stays so although late work may
\* still fail.
THEOREM OutcomeIsTrue == Spec => []OutcomeTruth
<1>1. Init => OutcomeTruth BY DEF Init, OutcomeTruth
<1>2. Inductive /\ Inductive' /\ OutcomeTruth /\ [Next]_vars => OutcomeTruth'
  <2> SUFFICES ASSUME Inductive, Inductive', OutcomeTruth, [Next]_vars,
                      NEW s \in Scopes, outcome'[s] = "resolved"
               PROVE  ~bodyError'[s] /\ ForegroundFailures(s)' \subseteq Silent
    BY DEF OutcomeTruth
  <2>1. state'[s] = "closed" BY DEF Inductive, Lifecycle
  <2>2. CASE Finish(s) BY <2>2, FinishTellsTruth
  <2>3. CASE Untouched(s)
    <3>1. ~bodyError[s] /\ ForegroundFailures(s) \subseteq Silent
      BY <2>3 DEF OutcomeTruth, Untouched
    <3> QED BY <2>3, <3>1 DEF Untouched, ForegroundFailures
  <2> QED BY <2>1, <2>2, <2>3, ClosedAfterStep
<1> QED BY <1>1, <1>2, InductiveHolds, PTL DEF Spec

\* The scope:closing event says "completed" only of a scope that was never
\* cancelled and whose drained foreground work did not fail.
THEOREM ClosingIsTrue == Spec => []ClosingTruth
<1>1. Init => ClosingTruth BY DEF Init, ClosingTruth
<1>2. Inductive /\ Inductive' /\ ClosingTruth /\ [Next]_vars => ClosingTruth'
  <2> SUFFICES ASSUME Inductive, Inductive', ClosingTruth, [Next]_vars, NEW s \in Scopes
               PROVE  /\ closing'[s] = "completed" =>
                           s \notin aborted' /\ ForegroundFailures(s)' = {}
                      /\ s \in aborted' => closing'[s] \in {"errored", "cancelled"}
    BY DEF ClosingTruth
  <2>1. s \in aborted' => closing'[s] \in {"errored", "cancelled"}
    BY DEF Inductive, Lifecycle
  <2>2. ASSUME closing'[s] = "completed"
        PROVE  s \notin aborted' /\ ForegroundFailures(s)' = {}
    <3>1. state'[s] = "closed" BY <2>2 DEF Inductive, Lifecycle
    <3>2. CASE Finish(s) BY <2>2, <3>2, FinishTellsTruth
    <3>3. CASE Untouched(s)
      <4>1. s \notin aborted /\ ForegroundFailures(s) = {}
        BY <2>2, <3>3 DEF ClosingTruth, Untouched
      <4> QED BY <3>3, <4>1 DEF Untouched, ForegroundFailures
    <3> QED BY <3>1, <3>2, <3>3, ClosedAfterStep
  <2> QED BY <2>1, <2>2
<1> QED BY <1>1, <1>2, InductiveHolds, PTL DEF Spec
----------------------------------------------------------------------------
\* The refinement: what a step does to the members that are present, gone and
\* late.  A stutter leaves all of Nursery's variables alone.
SameMembers ==
  /\ owner' = owner /\ born' = born /\ status' = status /\ settled' = settled
  /\ \A s \in Scopes : \/ state'[s] = state[s]
                       \/ state[s] = "running" /\ state'[s] = "cancelling"

\* A step that changes none of the members of the nursery stutters there.
LEMMA SameMembersStutters ==
  ASSUME Inductive, SameMembers
  PROVE  UNCHANGED Promise!nurseryVars
<1>1. Present' = Present BY DEF SameMembers, Present
<1>2. Gone' = Gone BY DEF SameMembers, Gone
<1>3. Late' = Late BY DEF SameMembers, Late
<1> QED BY <1>1, <1>2, <1>3 DEF SameMembers, Promise!nurseryVars

\* Adopting a scope or a task is taking charge of it.
LEMMA AdoptTakesCharge ==
  ASSUME Inductive, NEW x \in Owned, NEW s \in Scopes \cup {NoOne}, Adopt(x, s),
         owner[x] = NoOne, x \notin Present \cup Gone,
         s \in Scopes => phase[s] # "none", x \in Tasks => s \in Present
  PROVE  Promise!TakeCharge(x, s)
<1> USE ScopeAssumption
<1> TypeOK BY DEF Inductive
<1>1. owner' = [owner EXCEPT ![x] = s] BY DEF Adopt
<1>2. /\ born'[x] = (IF s = NoOne THEN "none" ELSE phase[s])
      /\ \A y \in Owned \ {x} : born'[y] = born[y]
  BY DEF Adopt, TypeOK
<1>3. born[x] = "none" BY DEF Inductive, Traceless
<1>4. Late' \in {Late, Late \cup {x}}
  <2>1. CASE x \in Late' BY <1>2, <2>1 DEF Late
  <2>2. CASE x \notin Late' BY <1>2, <1>3, <2>2 DEF Late
  <2> QED BY <2>1, <2>2
<1>5. ASSUME x \notin Late', s # NoOne PROVE s \in Present
  <2>1. CASE x \in Tasks BY <1>5, <2>1
  <2>2. CASE x \notin Tasks
    <3>1. phase[s] \in {"body", "drain"}
      BY <1>2, <1>5 DEF Late, TypeOK
    <3> QED BY <1>5, <3>1 DEF Inductive, Lifecycle, Present
  <2> QED BY <2>1, <2>2
<1> QED BY <1>1, <1>4, <1>5 DEF Promise!TakeCharge

\* Opening a scope is entering the nursery.
LEMMA OpenEnters ==
  ASSUME Inductive, NEW s \in Scopes, NEW p \in Scopes \cup {NoOne}, Open(s, p)
  PROVE  Promise!Enter(s, p)
<1> USE ScopeAssumption
<1> TypeOK BY DEF Inductive
<1>1. /\ state[s] = "unopened" /\ state' = [state EXCEPT ![s] = "running"]
      /\ status' = status /\ settled' = settled /\ Adopt(s, p)
  BY DEF Open
<1>2. owner[s] = NoOne BY <1>1 DEF Inductive, Traceless
<1>3. p \in Scopes => phase[p] # "none"
  <2>1. p \in Scopes => Holds(p) BY DEF Open
  <2> QED BY <2>1 DEF Holds, Inductive, Traceless
<1>4. s \notin Present \cup Gone BY <1>1 DEF Present, Gone, TypeOK
<1>5. Promise!TakeCharge(s, p) BY <1>1, <1>2, <1>3, <1>4, AdoptTakesCharge
<1>6. \A q \in Scopes : state'[q] = IF q = s THEN "running" ELSE state[q]
  BY <1>1 DEF TypeOK
<1>7. Present' = Present \cup {s} BY <1>1, <1>6 DEF Present
<1>8. Gone' = Gone BY <1>1, <1>6 DEF Gone
<1> QED BY <1>5, <1>7, <1>8 DEF Promise!Enter

\* Admitting a task puts it in the charge of a scope that is present.
LEMMA AdmitTakesCharge ==
  ASSUME Inductive, NEW s \in Scopes, NEW t \in Tasks, NEW k, Admit(s, t, k)
  PROVE  Promise!TakeCharge(t, s) /\ t \notin Present \cup Gone
<1> USE ScopeAssumption
<1>1. status[t] = "unborn" /\ state[s] = "running" /\ Adopt(t, s) BY DEF Admit
<1>2. owner[t] = NoOne /\ t \notin settled /\ phase[s] # "none"
  BY <1>1 DEF Inductive, Traceless
<1>3. t \notin Present \cup Gone BY <1>1, <1>2 DEF Present, Gone
<1>4. s \in Present BY <1>1 DEF Present
<1> QED BY <1>1, <1>2, <1>3, <1>4, AdoptTakesCharge

\* spawn() is entering the nursery.
LEMMA SpawnEnters ==
  ASSUME Inductive, NEW s \in Scopes, NEW t \in Tasks, NEW k \in Keys \cup {NoOne},
         Spawn(s, t, k)
  PROVE  Promise!Enter(t, s)
<1> USE ScopeAssumption
<1>1. Promise!TakeCharge(t, s) /\ t \notin Present \cup Gone
  BY AdmitTakesCharge DEF Spawn
<1>2. /\ status' = [status EXCEPT ![t] = "running"] /\ settled' = settled /\ state' = state
  BY DEF Spawn
<1>3. \A u \in Tasks : status'[u] = IF u = t THEN "running" ELSE status[u]
  BY <1>2 DEF Inductive, TypeOK
<1>4. status[t] = "unborn" /\ t \notin settled
  BY DEF Spawn, Admit, Inductive, Traceless
<1>5. Present' = Present \cup {t} BY <1>2, <1>3, <1>4 DEF Present
<1>6. Gone' = Gone BY <1>2 DEF Gone
<1> QED BY <1>1, <1>5, <1>6 DEF Promise!Enter

\* spawn() of a task that throws at once passes through it.
LEMMA SpawnThrowsPasses ==
  ASSUME Inductive, NEW s \in Scopes, NEW t \in Tasks, NEW k \in Keys \cup {NoOne},
         NEW res \in {"failed", "cancelled"}, SpawnThrows(s, t, k, res)
  PROVE  Promise!PassThrough(t, s)
<1> USE ScopeAssumption
<1>1. Promise!TakeCharge(t, s) /\ t \notin Present \cup Gone
  BY AdmitTakesCharge DEF SpawnThrows
<1>2. /\ status' = [status EXCEPT ![t] = res] /\ settled' = settled \cup {t}
      /\ NoteResult(s, t, res)
  BY DEF SpawnThrows
<1>3. \A u \in Tasks \ {t} : status'[u] = status[u]
  BY <1>2 DEF Inductive, TypeOK
<1>4. \A q \in Scopes : \/ state'[q] = state[q]
                        \/ state[q] = "running" /\ state'[q] = "cancelling"
  <2>1. UNCHANGED control \/ (state[s] = "running" /\ state' = [state EXCEPT ![s] = "cancelling"])
    BY <1>2, NoteResultEffect
  <2> QED BY <2>1 DEF Inductive, TypeOK
<1>5. t \notin Scopes /\ status[t] = "unborn"
  BY DEF SpawnThrows, Admit
<1>6. Present' = Present BY <1>2, <1>3, <1>4, <1>5 DEF Present
<1>7. Gone' = Gone \cup {t} BY <1>2, <1>4 DEF Gone
<1> QED BY <1>1, <1>6, <1>7 DEF Promise!PassThrough

\* A task that settles leaves; no member is in the charge of a task.
LEMMA SettledLeaves ==
  ASSUME Inductive, NEW t \in Tasks, status[t] # "unborn", t \notin settled,
         settled' = settled \cup {t}, owner' = owner, born' = born,
         \A u \in Tasks : status'[u] = "unborn" <=> status[u] = "unborn",
         \A q \in Scopes : \/ state'[q] = state[q]
                           \/ state[q] = "running" /\ state'[q] = "cancelling"
  PROVE  Promise!Leave(t)
<1> USE ScopeAssumption
<1>1. t \in Present /\ t \notin Scopes BY DEF Present
<1>2. Present' = Present \ {t} BY <1>1 DEF Present
<1>3. Gone' = Gone \cup {t} BY DEF Gone
<1>4. Late' = Late BY DEF Late
<1>5. \A y \in Present : owner[y] # t BY <1>1 DEF Inductive, TypeOK, Present
<1> QED BY <1>1, <1>2, <1>3, <1>4, <1>5 DEF Promise!Leave

\* A task body's end is a task leaving, or nothing when cleanups remain.
LEMMA TaskBodyEndsMaps ==
  ASSUME Inductive, NEW t \in Tasks, NEW res \in Ends, NEW n \in 0..MaxDefers[t],
         TaskBodyEnds(t, res, n)
  PROVE  Promise!Leave(t) \/ UNCHANGED Promise!nurseryVars
<1>1. /\ owner' = owner /\ born' = born /\ status[t] = "running"
      /\ status' = [status EXCEPT ![t] = res] /\ NoteResult(owner[t], t, res)
  BY DEF TaskBodyEnds
<1>2. owner[t] \in Scopes /\ t \notin settled BY <1>1 DEF Inductive, Traceless, Cleanups
<1>3. \A q \in Scopes : \/ state'[q] = state[q]
                        \/ state[q] = "running" /\ state'[q] = "cancelling"
  <2>1. \/ UNCHANGED control
        \/ state[owner[t]] = "running" /\ state' = [state EXCEPT ![owner[t]] = "cancelling"]
    BY <1>1, <1>2, NoteResultEffect
  <2> QED BY <2>1 DEF Inductive, TypeOK
<1>4. \A u \in Tasks : status'[u] = "unborn" <=> status[u] = "unborn"
  BY <1>1 DEF Inductive, TypeOK
<1>5. CASE n = 0
  <2>1. settled' = settled \cup {t} BY <1>5 DEF TaskBodyEnds, Settle
  <2> QED BY <1>1, <1>2, <1>3, <1>4, <2>1, SettledLeaves
<1>6. CASE n # 0
  <2>1. settled' = settled BY <1>6 DEF TaskBodyEnds
  <2>2. Present' = Present BY <1>3, <1>4, <2>1 DEF Present
  <2>3. Gone' = Gone BY <1>3, <2>1 DEF Gone
  <2>4. Late' = Late BY <1>1 DEF Late
  <2> QED BY <1>1, <2>2, <2>3, <2>4 DEF Promise!nurseryVars
<1> QED BY <1>5, <1>6

\* So is the end of a cleanup, when it was the last.
LEMMA TaskCleanupEndsMaps ==
  ASSUME Inductive, NEW t \in Tasks, TaskCleanupEnds(t)
  PROVE  Promise!Leave(t) \/ UNCHANGED Promise!nurseryVars
<1>1. /\ owner' = owner /\ born' = born /\ state' = state /\ status' = status
      /\ status[t] # "unborn" /\ t \notin settled
  BY DEF TaskCleanupEnds, InCleanup
<1>2. CASE taskDefers[t] = 1
  <2>1. settled' = settled \cup {t} BY <1>2 DEF TaskCleanupEnds, Settle
  <2> QED BY <1>1, <2>1, SettledLeaves
<1>3. CASE taskDefers[t] # 1
  <2>1. settled' = settled BY <1>3 DEF TaskCleanupEnds
  <2> QED BY <1>1, <2>1, SameMembersStutters DEF SameMembers
<1> QED BY <1>2, <1>3

\* The end of close() is a scope leaving: all it had to wait for has left.
LEMMA FinishLeaves ==
  ASSUME Inductive, NEW s \in Scopes, Finish(s)
  PROVE  Promise!Leave(s)
<1> USE ScopeAssumption
<1> TypeOK BY DEF Inductive
<1>1. /\ owner' = owner /\ born' = born /\ status' = status /\ settled' = settled
      /\ phase[s] = "defers" /\ state' = [state EXCEPT ![s] = "closed"]
  BY DEF Finish
<1>2. s \in Present /\ s \notin Tasks BY <1>1 DEF Inductive, Lifecycle, Present
<1>3. \A q \in Scopes : state'[q] = IF q = s THEN "closed" ELSE state[q]
  BY <1>1 DEF TypeOK
<1>4. Present' = Present \ {s} BY <1>1, <1>2, <1>3 DEF Present
<1>5. Gone' = Gone \cup {s} BY <1>1, <1>3 DEF Gone
<1>6. Late' = Late BY <1>1 DEF Late
<1>7. ASSUME NEW y \in Present, owner[y] = s PROVE y \in Late
  <2>1. y \in Owned /\ s # NoOne BY DEF Present
  <2>2. born[y] \in {"body", "drain", "defers", "over"}
    BY <1>7, <2>1 DEF Inductive, TypeOK, Traceless
  <2>3. Ended(s) BY <1>1 DEF Ended
  <2>4. CASE y \in Tasks
    <3>1. y \notin settled BY <1>7, <2>4 DEF Present
    <3>2. born[y] # "body" BY <1>7, <2>1, <2>3, <2>4, <3>1 DEF Inductive, Joining
    <3> QED BY <2>2, <2>4, <3>2 DEF Late
  <2>5. CASE y \in Scopes /\ y \notin Tasks
    <3>1. state[y] # "closed" BY <1>7, <2>5 DEF Present
    <3>2. born[y] \notin {"body", "drain"}
      BY <1>7, <2>1, <2>3, <2>5, <3>1 DEF Inductive, Joining
    <3> QED BY <2>1, <2>2, <3>2 DEF Late
  <2> QED BY <2>1, <2>4, <2>5
<1> QED BY <1>1, <1>2, <1>4, <1>5, <1>6, <1>7 DEF Promise!Leave

\* Each step of a scope maps to a step of the nursery or a stutter.
LEMMA ScopeStepMaps ==
  ASSUME Inductive, NEW s \in Scopes, ScopeStep(s)
  PROVE  [Promise!Next]_Promise!nurseryVars
<1>1. ASSUME NEW p \in Scopes \cup {NoOne}, Open(s, p) PROVE Promise!Next
  BY <1>1, OpenEnters DEF Promise!Next
<1>2. ASSUME NEW reason, Cancel(s, reason) PROVE SameMembers
  BY <1>2, CancelScopeEffect DEF Cancel, SameMembers, Inductive, TypeOK
<1>3. ASSUME NEW res \in Ends, NEW n \in 0..MaxDefers[s], GroupBodyEnds(s, res, n)
      PROVE  SameMembers
  <2>1. /\ owner' = owner /\ born' = born /\ status' = status /\ settled' = settled
        /\ CancelScope(s, "parent_failed") \/ UNCHANGED control
    BY <1>3 DEF GroupBodyEnds
  <2> QED BY <2>1, CancelScopeEffect DEF SameMembers, Inductive, TypeOK
<1>4. ASSUME NEW n \in 0..MaxDefers[s], Drain(s, n) PROVE SameMembers
  BY <1>4 DEF Drain, SameMembers
<1>5. ASSUME ScopeCleanupEnds(s) PROVE SameMembers
  BY <1>5 DEF ScopeCleanupEnds, SameMembers
<1>6. ASSUME Finish(s) PROVE Promise!Next
  BY <1>6, FinishLeaves DEF Promise!Next
<1> QED BY <1>1, <1>2, <1>3, <1>4, <1>5, <1>6, SameMembersStutters DEF ScopeStep, CloseStep

\* Each step of a task does.
LEMMA TaskStepMaps ==
  ASSUME Inductive, NEW t \in Tasks, TaskStep(t)
  PROVE  [Promise!Next]_Promise!nurseryVars
<1>1. ASSUME NEW s \in Scopes, NEW k \in Keys \cup {NoOne}, Spawn(s, t, k)
      PROVE  Promise!Next
  BY <1>1, SpawnEnters DEF Promise!Next
<1>2. ASSUME NEW s \in Scopes, NEW k \in Keys \cup {NoOne},
             NEW res \in {"failed", "cancelled"}, SpawnThrows(s, t, k, res)
      PROVE  Promise!Next
  BY <1>2, SpawnThrowsPasses DEF Promise!Next
<1>3. ASSUME HandleCancel(t) PROVE SameMembers
  BY <1>3 DEF HandleCancel, SameMembers
<1>4. ASSUME Promise!Leave(t) PROVE Promise!Next
  BY <1>4 DEF Promise!Next
<1> QED BY <1>1, <1>2, <1>3, <1>4, TaskBodyEndsMaps, TaskCleanupEndsMaps,
           SameMembersStutters DEF TaskStep

\* The engine implements Nursery: a scope leaves the tree of structured work
\* only after all that entered under it in time, at every depth.
THEOREM RefinesNursery == Spec => ImplementsNursery
<1>1. Init => Promise!Init
  <2> SUFFICES ASSUME Init PROVE Promise!Init OBVIOUS
  <2>1. Present = {} /\ Gone = {} /\ Late = {}
    BY ScopeAssumption DEF Init, Present, Gone, Late
  <2> QED BY <2>1 DEF Init, Promise!Init
<1>2. Inductive /\ [Next]_vars => [Promise!Next]_Promise!nurseryVars
  <2> SUFFICES ASSUME Inductive, [Next]_vars
               PROVE  [Promise!Next]_Promise!nurseryVars
    OBVIOUS
  <2>1. CASE UNCHANGED vars
    BY <2>1, SameMembersStutters DEF vars, SameMembers
  <2> QED BY <2>1, ScopeStepMaps, TaskStepMaps DEF Next
<1> QED BY <1>1, <1>2, InductiveHolds, PTL DEF Spec, ImplementsNursery, Promise!Spec
----------------------------------------------------------------------------
\* For the modules built on this one: what an action does to the tasks, to one
\* group g and to what is recorded of its failures.
SameTasks ==
  /\ status' = status /\ settled' = settled
  /\ \A t \in Tasks : owner'[t] = owner[t] /\ born'[t] = born[t]
SameGroup(g) ==
  /\ phase'[g] = phase[g] /\ bodyError'[g] = bodyError[g]
  /\ outcome'[g] = outcome[g]
SameFailure(g) == firstChildFailure'[g] = firstChildFailure[g]
MayCancel(g) == \/ state'[g] = state[g]
                \/ state[g] = "running" /\ state'[g] = "cancelling"

\* An aborted signal stays aborted.
KeepsSignal(g) == signal'[g] = signal[g] /\ aborted \subseteq aborted'

\* A task ends in the group: it may be its first failure, which is recorded.
Notes(g, t) ==
  /\ SameGroup(g) /\ MayCancel(g)
  /\ (SameFailure(g) /\ state'[g] = state[g]) \/ status'[t] = "failed"
  /\ firstChildFailure[g] # NoOne => firstChildFailure'[g] # NoOne
  /\ status'[t] = "failed" => state'[g] # "running"

\* Opening a scope: what it does to a group that may be another.
LEMMA OpenEffect ==
  ASSUME Inductive, NEW s \in Scopes, NEW p \in Scopes \cup {NoOne}, Open(s, p),
         NEW g \in Scopes, g \notin Misconfigured
  PROVE  /\ SameTasks /\ SameFailure(g)
         /\ s # g => SameGroup(g) /\ state'[g] = state[g] /\ KeepsSignal(g)
         /\ s = g => /\ state[g] = "unopened" /\ state'[g] = "running"
                     /\ phase'[g] = "body"
                     /\ bodyError'[g] = bodyError[g]
                     /\ outcome'[g] = outcome[g]
<1> USE ScopeAssumption
<1>1. TypeOK BY DEF Inductive
<1>2. SameTasks /\ SameFailure(g)
  BY <1>1 DEF Open, Adopt, TypeOK, SameTasks, SameFailure
<1>3. CASE s # g
  BY <1>1, <1>2, <1>3 DEF Open, TypeOK, SameGroup, LinkSignal, KeepsSignal
<1>4. CASE s = g
  BY <1>1, <1>2, <1>4 DEF Open, TypeOK
<1> QED BY <1>3, <1>4

\* A cancellation only adds to the controllers that fired.
LEMMA CancelScopeKeeps ==
  ASSUME Inductive, NEW s \in Scopes, NEW reason,
         CancelScope(s, reason) \/ UNCHANGED control, NEW g \in Scopes
  PROVE  MayCancel(g) /\ aborted \subseteq aborted'
<1>1. TypeOK BY DEF Inductive
<1>2. CASE UNCHANGED control BY <1>2 DEF MayCancel
<1>3. CASE CancelScope(s, reason)
  <2>1. aborted \subseteq aborted' BY <1>3 DEF CancelScope
  <2>2. MayCancel(g) BY <1>1, <1>3, CancelScopeEffect DEF TypeOK, MayCancel
  <2> QED BY <2>1, <2>2
<1> QED BY <1>2, <1>3

\* cancel(): no task changes, and no group but for its cancellation.
LEMMA CancelEffect ==
  ASSUME Inductive, NEW s \in Scopes, NEW reason, NEW g \in Scopes,
         CancelScope(s, reason), UNCHANGED <<adoption, records, closeVars, taskVars>>
  PROVE  SameTasks /\ SameFailure(g) /\ SameGroup(g) /\ MayCancel(g) /\ KeepsSignal(g)
  BY CancelScopeKeeps DEF SameTasks, SameFailure, SameGroup, KeepsSignal

\* The end of a body: the group begins to close.
LEMMA GroupBodyEndsEffect ==
  ASSUME Inductive, NEW g \in Scopes, g \notin Silent, NEW res \in Ends,
         NEW n \in 0..MaxDefers[g], GroupBodyEnds(g, res, n)
  PROVE  /\ SameTasks /\ SameFailure(g) /\ MayCancel(g) /\ KeepsSignal(g)
         /\ phase[g] = "body" /\ phase'[g] \in {"drain", "defers"}
         /\ bodyError'[g] <=> res # "succeeded"
         /\ outcome'[g] = outcome[g]
<1>1. TypeOK BY DEF Inductive
<1>2. /\ UNCHANGED <<adoption, records, outcome, taskVars>>
      /\ CancelScope(g, "parent_failed") \/ UNCHANGED control
      /\ AwaitOwned(g, tasks[g], n)
      /\ phase[g] = "body"
      /\ bodyError' = [bodyError EXCEPT ![g] = \/ res = "cancelled"
                                               \/ res = "failed" /\ g \notin Silent]
  BY DEF GroupBodyEnds
<1>3. MayCancel(g) /\ aborted \subseteq aborted' BY <1>2, CancelScopeKeeps
<1>4. phase'[g] \in {"drain", "defers"}
  BY <1>1, <1>2 DEF AwaitOwned, TypeOK
<1>5. bodyError'[g] <=> res # "succeeded" BY <1>1, <1>2 DEF TypeOK
<1> QED BY <1>2, <1>3, <1>4, <1>5 DEF SameTasks, SameFailure, KeepsSignal

\* close(): another round, or the end with an outcome.
LEMMA CloseStepEffect ==
  ASSUME Inductive, NEW g \in Scopes, CloseStep(g)
  PROVE  /\ SameTasks /\ SameFailure(g) /\ KeepsSignal(g)
         /\ phase[g] \in {"drain", "defers"}
         /\ bodyError'[g] = bodyError[g]
         /\ \/ /\ state'[g] = state[g] /\ outcome'[g] = outcome[g]
               /\ phase'[g] \in {"drain", "defers"}
            \/ /\ state'[g] = "closed" /\ phase'[g] = "over"
               /\ outcome'[g] = GroupResult(g)
<1>1. TypeOK BY DEF Inductive
<1>2. ASSUME NEW n \in 0..MaxDefers[g], Drain(g, n)
      PROVE  /\ SameTasks /\ SameFailure(g) /\ KeepsSignal(g) /\ phase[g] = "drain"
             /\ bodyError'[g] = bodyError[g]
             /\ state'[g] = state[g] /\ outcome'[g] = outcome[g]
             /\ phase'[g] \in {"drain", "defers"}
  <2>1. AwaitOwned(g, StillRunning(g), n) BY <1>2 DEF Drain
  <2>2. phase'[g] \in {"drain", "defers"} BY <1>1, <2>1 DEF AwaitOwned, TypeOK
  <2> QED BY <1>2, <2>2 DEF Drain, SameTasks, SameFailure, KeepsSignal
<1>3. CASE ScopeCleanupEnds(g)
  BY <1>3 DEF ScopeCleanupEnds, SameTasks, SameFailure, KeepsSignal
<1>4. CASE Finish(g)
  BY <1>1, <1>4 DEF Finish, TypeOK, SameTasks, SameFailure, KeepsSignal
<1> QED BY <1>2, <1>3, <1>4 DEF CloseStep

\* spawn(): one unborn task begins to run.
LEMMA SpawnEffect ==
  ASSUME Inductive, NEW g \in Scopes, NEW t \in Tasks, NEW k, Spawn(g, t, k)
  PROVE  /\ status[t] = "unborn" /\ state[g] = "running"
         /\ \A u \in Tasks : status'[u] = IF u = t THEN "running" ELSE status[u]
         /\ \A u \in Tasks : owner'[u] = IF u = t THEN g ELSE owner[u]
         /\ \A u \in Tasks : born'[u] = IF u = t THEN phase[g] ELSE born[u]
         /\ settled' = settled /\ KeepsSignal(g)
         /\ SameGroup(g) /\ SameFailure(g) /\ state'[g] = state[g]
<1> USE ScopeAssumption
<1>1. TypeOK BY DEF Inductive
<1>2. /\ status[t] = "unborn" /\ state[g] = "running" /\ Adopt(t, g)
      /\ status' = [status EXCEPT ![t] = "running"]
      /\ UNCHANGED <<signal, control, firstChildFailure, closeVars, settled>>
  BY DEF Spawn, Admit
<1> QED BY <1>1, <1>2 DEF Adopt, TypeOK, SameGroup, SameFailure, KeepsSignal

\* The effect of NoteResult, in these terms.
LEMMA NotesEffect ==
  ASSUME Inductive, NEW g \in Scopes, NEW t \in Tasks, t \notin Background, NEW res,
         NoteResult(g, t, res), status'[t] = res, UNCHANGED closeVars
  PROVE  Notes(g, t) /\ aborted \subseteq aborted'
<1>1. TypeOK BY DEF Inductive
<1>2. SameGroup(g) BY DEF SameGroup
<1>3. CancelScope(g, "sibling_failed") \/ UNCHANGED control BY DEF NoteResult
<1>4. MayCancel(g) /\ aborted \subseteq aborted' BY <1>3, CancelScopeKeeps
<1>5. (SameFailure(g) /\ state'[g] = state[g]) \/ status'[t] = "failed"
  BY DEF NoteResult, SameFailure
<1>6. /\ firstChildFailure[g] # NoOne => firstChildFailure'[g] # NoOne
      /\ status'[t] = "failed" => state'[g] # "running"
  BY NoteResultEffect
<1> QED BY <1>2, <1>4, <1>5, <1>6 DEF Notes

\* spawn() of a task that throws at once: it has ended and settled.
LEMMA SpawnThrowsEffect ==
  ASSUME Inductive, NEW g \in Scopes, NEW t \in Tasks, t \notin Background, NEW k,
         NEW res \in {"failed", "cancelled"}, SpawnThrows(g, t, k, res)
  PROVE  /\ status[t] = "unborn" /\ state[g] = "running" /\ t \notin settled
         /\ \A u \in Tasks : status'[u] = IF u = t THEN res ELSE status[u]
         /\ \A u \in Tasks : owner'[u] = IF u = t THEN g ELSE owner[u]
         /\ \A u \in Tasks : born'[u] = IF u = t THEN phase[g] ELSE born[u]
         /\ settled' = settled \cup {t} /\ Notes(g, t)
<1> USE ScopeAssumption
<1>1. TypeOK BY DEF Inductive
<1>2. /\ status[t] = "unborn" /\ state[g] = "running" /\ Adopt(t, g)
      /\ status' = [status EXCEPT ![t] = res] /\ settled' = settled \cup {t}
      /\ NoteResult(g, t, res) /\ UNCHANGED closeVars
  BY DEF SpawnThrows, Admit
<1>3. t \notin settled BY <1>2 DEF Inductive, Traceless
<1>4. Notes(g, t) BY <1>1, <1>2, NotesEffect DEF TypeOK
<1> QED BY <1>1, <1>2, <1>3, <1>4 DEF Adopt, TypeOK

\* The end of the body of a task: it settles unless a cleanup is left.
LEMMA TaskBodyEndsEffect ==
  ASSUME Inductive, NEW g \in Scopes, NEW t \in Tasks, t \notin Background,
         owner[t] = g, NEW res \in Ends, NEW n \in 0..MaxDefers[t], TaskBodyEnds(t, res, n)
  PROVE  /\ status[t] = "running" /\ t \notin settled
         /\ \A u \in Tasks : status'[u] = IF u = t THEN res ELSE status[u]
         /\ \A u \in Tasks : owner'[u] = owner[u] /\ born'[u] = born[u]
         /\ settled' = IF n = 0 THEN settled \cup {t} ELSE settled
         /\ Notes(g, t) /\ KeepsSignal(g)
<1>1. TypeOK BY DEF Inductive
<1>2. /\ status[t] = "running" /\ status' = [status EXCEPT ![t] = res]
      /\ NoteResult(g, t, res) /\ UNCHANGED closeVars /\ UNCHANGED adoption
      /\ settled' = IF n = 0 THEN settled \cup {t} ELSE settled
  BY DEF TaskBodyEnds, Settle
<1>3. t \notin settled BY <1>2 DEF Inductive, Cleanups
<1>4. Notes(g, t) /\ aborted \subseteq aborted' BY <1>1, <1>2, NotesEffect DEF TypeOK
<1> QED BY <1>1, <1>2, <1>3, <1>4 DEF TypeOK, KeepsSignal

\* A cleanup of a task: the last one settles it.
LEMMA TaskCleanupEndsEffect ==
  ASSUME Inductive, NEW g \in Scopes, NEW t \in Tasks, TaskCleanupEnds(t)
  PROVE  /\ status[t] \in Ends /\ t \notin settled /\ status' = status
         /\ \A u \in Tasks : owner'[u] = owner[u] /\ born'[u] = born[u]
         /\ settled' = IF taskDefers[t] = 1 THEN settled \cup {t} ELSE settled
         /\ SameGroup(g) /\ SameFailure(g) /\ state'[g] = state[g] /\ KeepsSignal(g)
  BY DEF TaskCleanupEnds, InCleanup, Settle, SameGroup, SameFailure, KeepsSignal
=============================================================================

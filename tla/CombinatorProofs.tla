-------------------------- MODULE CombinatorProofs --------------------------
(***************************************************************************)
(* Theorems about Combinators, for every list of tasks and any number of   *)
(* workers.  The invariant of the engine survives the combinators' steps;  *)
(* a second invariant relates the list, the settlements and the promise of *)
(* the body to the group they belong to.                                   *)
(***************************************************************************)
EXTENDS Combinators, ScopeProofs, FiniteSetTheorems, SequenceTheorems

USE DEF Owned, Ends, Phases, adoption, control, records, closeVars, taskVars

Types ==
  /\ kind \in Kinds /\ starting \in BOOLEAN
  /\ next \in 1..Len(TaskList) + 1
  /\ settlements \in Seq(Tasks) /\ seen \in 0..Len(settlements)
  /\ result \in [Tasks -> {"none"} \cup Ends]
  /\ promise \in {"pending"} \cup Ends

\* The tasks that were started are the group's, from the list and in its order; one
\* that was passed over was refused, and its refusal decided.
Order ==
  /\ \A t \in Tasks : status[t] # "unborn" => owner[t] = Group
  /\ \A i \in 1..Len(TaskList) : status[TaskList[i]] # "unborn" => i < next
  /\ \A i \in 1..next - 1 :
       status[TaskList[i]] = "unborn" => promise # "pending" /\ state[Group] # "running"

\* The settlements are the settled tasks, each once.
Settlements ==
  /\ \A t \in Tasks : t \in settled <=> \E i \in 1..Len(settlements) : settlements[i] = t
  /\ \A i, j \in 1..Len(settlements) : settlements[i] = settlements[j] => i = j

\* The group sees how a function ended, unless it is wrapped.
Results ==
  \A t \in Tasks :
    /\ result[t] = "none" <=> status[t] \in {"unborn", "running"}
    /\ status[t] \in Ends => status[t] = IF Wrapped THEN "succeeded" ELSE result[t]

\* The loop over the tasks runs in the body of the group.  If the group is no longer
\* running then, a task has failed before its first await.
Beginning ==
  /\ state[Group] = "unopened" => ~starting /\ next = 1 /\ promise = "pending"
  /\ starting => phase[Group] = "body" /\ next <= Slots /\ seen = 0
  /\ starting /\ state[Group] # "running" => ~Wrapped /\ \E t \in Tasks : result[t] = "failed"
  /\ promise = "pending" => phase[Group] \in {"none", "body"}
  /\ kind # "pool" => \A t \in Tasks : status[t] # "unborn" => born[t] = "body"

\* Every worker has one task; a series that has decided is done.
Workers ==
  /\ UsesWorkers => next <= Slots + seen + 1
  /\ kind = "series" /\ promise # "pending" =>
       ~starting /\ Len(settlements) = seen /\ Started \subseteq settled

\* How the outcome of the group goes with the promise of its body.
Outcomes ==
  /\ phase[Group] \in {"drain", "defers", "over"} =>
       promise # "pending" /\ (bodyError[Group] <=> promise # "succeeded")
  /\ firstChildFailure[Group] # NoOne => \E t \in Tasks : status[t] = "failed"
  /\ outcome[Group] = "resolved" =>
       promise = "succeeded" /\ (kind # "pool" => firstChildFailure[Group] = NoOne)
  /\ outcome[Group] = "rejected" => promise # "succeeded" \/ firstChildFailure[Group] # NoOne
  /\ Returned => phase[Group] = "over"

\* What each combinator has learnt from the settlements it has seen.
RaceDecides ==
  kind = "race" =>
    /\ promise = "pending" => seen = 0
    /\ promise # "pending" =>
         \/ Len(settlements) # 0 /\ promise = result[settlements[1]]
         \/ \E t \in Tasks : result[t] = "failed"
AnyDecides ==
  kind = "any" =>
    /\ promise = "pending" => \A i \in 1..seen : result[settlements[i]] # "succeeded"
    /\ promise = "succeeded" => \E t \in Tasks : result[t] = "succeeded"
    /\ promise \in {"failed", "cancelled"} =>
         \A t \in Tasks : t \in settled /\ result[t] # "succeeded"
CollectDecides ==
  kind \notin {"race", "any"} =>
    /\ promise = "pending" => \A i \in 1..seen : ~Rejects(settlements[i])
    /\ promise = "succeeded" => \A t \in Tasks : t \in settled /\ ~Rejects(t)
    /\ promise \in {"failed", "cancelled"} =>
         /\ kind # "allSettled"
         /\ \E t \in Tasks : \/ result[t] \in {"failed", "cancelled"}
                             \/ status[t] = "unborn" /\ state[Group] # "running"

Learnt ==
  /\ Types /\ Order /\ Settlements /\ Results /\ Beginning /\ Workers /\ Outcomes
  /\ RaceDecides /\ AnyDecides /\ CollectDecides
----------------------------------------------------------------------------
\* The list names every task once.
LEMMA ListOfTasks ==
  /\ Len(TaskList) \in Nat \ {0} /\ IsFiniteSet(Tasks)
  /\ Cardinality(Tasks) = Len(TaskList)
  /\ \A i \in 1..Len(TaskList) : TaskList[i] \in Tasks
  /\ \A t \in Tasks : \E i \in 1..Len(TaskList) : TaskList[i] = t
  /\ \A i, j \in 1..Len(TaskList) : TaskList[i] = TaskList[j] => i = j
<1>1. /\ TaskList \in Seq(Tasks) /\ TaskList # <<>>
      /\ Cardinality(Tasks) = Len(TaskList)
      /\ \A t \in Tasks : \E i \in DOMAIN TaskList : TaskList[i] = t
  BY CombinatorAssumption
<1>2. /\ Len(TaskList) \in Nat \ {0} /\ DOMAIN TaskList = 1..Len(TaskList)
      /\ TaskList \in [1..Len(TaskList) -> Tasks]
  BY <1>1, EmptySeq, LenProperties
<1>3. TaskList \in Surjection(1..Len(TaskList), Tasks)
  BY <1>1, <1>2 DEF Surjection
<1>4. /\ IsFiniteSet(1..Len(TaskList))
      /\ Cardinality(1..Len(TaskList)) = Len(TaskList)
  <2>1. 1 \in Int /\ Len(TaskList) \in Int /\ ~(1 > Len(TaskList)) BY <1>2
  <2>2. Len(TaskList) - 1 + 1 = Len(TaskList) BY <1>2
  <2> QED BY <2>1, <2>2, FS_Interval
<1>5. IsFiniteSet(Tasks) /\ TaskList \in Injection(1..Len(TaskList), Tasks)
  BY <1>1, <1>3, <1>4, FS_Surjection
<1>6. \A i, j \in 1..Len(TaskList) : TaskList[i] = TaskList[j] => i = j
  BY <1>5 DEF Injection, IsInjective
<1> QED BY <1>1, <1>2, <1>5, <1>6

\* The group is opened from the outer one, and its options are the plain ones.
LEMMA Constants ==
  /\ Group \in Scopes /\ Outer \in Scopes /\ Group # Outer
  /\ Scopes = {Outer, Group} /\ Group \notin Roots /\ Group # NoOne
  /\ Misconfigured = {} /\ Background = {} /\ Silent = {} /\ Keys = {}
  /\ Concurrency \in Nat \ {0}
  BY CombinatorAssumption, ScopeAssumption

\* How many tasks may run at a time: at least one, and one in a series.
LEMMA SlotsPositive ==
  /\ Slots \in Nat \ {0}
  /\ kind = "series" => Slots = 1
  /\ kind = "pool" => Slots <= Concurrency
<1>1. CASE kind = "series" BY <1>1 DEF Slots
<1>2. CASE kind = "pool" /\ Concurrency < Len(TaskList)
  BY <1>2, Constants DEF Slots
<1>3. CASE ~(kind = "series") /\ ~(kind = "pool" /\ Concurrency < Len(TaskList))
  <2>1. Slots = Len(TaskList) BY <1>3 DEF Slots
  <2> QED BY <1>3, <2>1, ListOfTasks, Constants
<1> QED BY <1>1, <1>2, <1>3

\* How many tasks have started and settled.
LEMMA Counting ==
  ASSUME Inductive, Types, Order, Settlements
  PROVE  /\ settled \subseteq Started
         /\ Len(settlements) \in Nat /\ Len(settlements) <= next - 1
         /\ Len(settlements) = Cardinality(settled)
         /\ Cardinality(Started \ settled) \in Nat
         /\ Cardinality(Started \ settled) <= next - 1 - Len(settlements)
         /\ Len(settlements) = next - 1 =>
              /\ Started \subseteq settled
              /\ \A i \in 1..next - 1 : TaskList[i] \in settled
         /\ Len(settlements) = Len(TaskList) => settled = Tasks
<1> DEFINE begun == {TaskList[i] : i \in 1..next - 1}
<1>1. /\ next - 1 \in Nat /\ next - 1 <= Len(TaskList)
      /\ \A i \in 1..next - 1 : i \in 1..Len(TaskList)
  BY ListOfTasks DEF Types
<1>2. IsFiniteSet(begun) /\ Cardinality(begun) <= next - 1
  <2>1. IsFiniteSet(1..next - 1) /\ Cardinality(1..next - 1) = next - 1
    <3>1. 1 \in Int /\ next - 1 \in Int BY <1>1
    <3>2. (IF 1 > next - 1 THEN 0 ELSE next - 1 - 1 + 1) = next - 1 BY <1>1
    <3> QED BY <3>1, <3>2, FS_Interval
  <2>2. [i \in 1..next - 1 |-> TaskList[i]] \in Surjection(1..next - 1, begun)
    BY DEF Surjection
  <2> QED BY <2>1, <2>2, FS_Surjection
<1>3. Started \subseteq begun
  <2> SUFFICES ASSUME NEW t \in Tasks, status[t] # "unborn" PROVE t \in begun
    BY DEF Started
  <2>1. PICK i \in 1..Len(TaskList) : TaskList[i] = t BY ListOfTasks
  <2>2. i < next BY <2>1 DEF Order
  <2>3. i \in 1..next - 1 BY <1>1, <2>2 DEF Types
  <2> QED BY <2>1, <2>3
<1>4. settled \subseteq Started
  BY DEF Inductive, TypeOK, Traceless, Started
<1>5. Len(settlements) \in Nat BY DEF Types
<1>6. IsFiniteSet(settled) /\ Cardinality(settled) = Len(settlements)
  <2>1. /\ IsFiniteSet(1..Len(settlements))
        /\ Cardinality(1..Len(settlements)) = Len(settlements)
    <3>1. 1 \in Int /\ Len(settlements) \in Int BY <1>5
    <3>2. (IF 1 > Len(settlements) THEN 0 ELSE Len(settlements) - 1 + 1) = Len(settlements)
      BY <1>5
    <3> QED BY <3>1, <3>2, FS_Interval
  <2>2. /\ settlements \in [1..Len(settlements) -> Tasks]
        /\ \A i \in 1..Len(settlements) : settlements[i] \in settled
    <3>1. settlements \in [1..Len(settlements) -> Tasks] BY LenProperties DEF Types
    <3> QED BY <3>1 DEF Settlements
  <2>3. settlements \in [1..Len(settlements) -> settled] BY <2>2
  <2>4. \A t \in settled : \E i \in 1..Len(settlements) : settlements[i] = t
    BY DEF Settlements, Inductive, TypeOK
  <2>5. settlements \in Surjection(1..Len(settlements), settled)
    BY <2>3, <2>4 DEF Surjection
  <2>6. settlements \in Injection(1..Len(settlements), settled)
    BY <2>3 DEF Injection, IsInjective, Settlements
  <2> QED BY <2>1, <2>5, <2>6, FS_Surjection
<1>7. /\ IsFiniteSet(Started) /\ Cardinality(Started) \in Nat
      /\ Cardinality(Started) <= next - 1
  <2>1. /\ IsFiniteSet(Started) /\ Cardinality(Started) <= Cardinality(begun)
    BY <1>2, <1>3, FS_Subset
  <2>2. Cardinality(begun) \in Nat /\ Cardinality(Started) \in Nat
    BY <1>2, <2>1, FS_CardinalityType
  <2> QED BY <1>1, <1>2, <2>1, <2>2
<1>8. /\ Cardinality(settled) <= Cardinality(begun) /\ settled \subseteq begun
      /\ Cardinality(begun) \in Nat
      /\ Cardinality(settled) = Cardinality(begun) => settled = begun
  BY <1>2, <1>3, <1>4, FS_Subset, FS_CardinalityType
<1>9. Cardinality(Started \ settled) = Cardinality(Started) - Cardinality(settled)
  <2>1. Started \cap settled = settled BY <1>4
  <2> QED BY <1>7, <2>1, FS_Difference
<1>10. Cardinality(Started \ settled) \in Nat
  <2>1. IsFiniteSet(Started \ settled) BY <1>7, FS_Difference
  <2> QED BY <2>1, FS_CardinalityType
<1> HIDE DEF begun
<1>11. /\ Len(settlements) <= next - 1
       /\ Cardinality(Started \ settled) <= next - 1 - Len(settlements)
  BY <1>1, <1>2, <1>5, <1>6, <1>7, <1>8, <1>9
<1>12. ASSUME Len(settlements) = next - 1
       PROVE  /\ Started \subseteq settled
              /\ \A i \in 1..next - 1 : TaskList[i] \in settled
  <2>1. Cardinality(settled) = Cardinality(begun)
    BY <1>1, <1>2, <1>5, <1>6, <1>8, <1>12
  <2> QED BY <1>3, <1>8, <2>1 DEF begun
<1>13. ASSUME Len(settlements) = Len(TaskList) PROVE settled = Tasks
  <2>1. settled \subseteq Tasks BY DEF Inductive, TypeOK
  <2> QED BY <1>6, <1>13, <2>1, ListOfTasks, FS_Subset
<1> QED BY <1>4, <1>5, <1>6, <1>10, <1>11, <1>12, <1>13
----------------------------------------------------------------------------
\* cancelLosers() touches the controllers of tasks only.
LEMMA CancelLosersStep ==
  ASSUME Inductive, NEW winner, CancelLosers(winner)
  PROVE  Inductive'
<1> USE ScopeAssumption
<1>1. /\ owner' = owner /\ born' = born /\ signal' = signal
      /\ state' = state /\ closing' = closing /\ aborted' = aborted \cup Losers(winner)
      /\ childScopes' = childScopes /\ tasks' = tasks
      /\ firstChildFailure' = firstChildFailure /\ idempotencyHandles' = idempotencyHandles
      /\ phase' = phase /\ awaited' = awaited /\ defers' = defers
      /\ bodyError' = bodyError /\ outcome' = outcome
      /\ status' = status /\ key' = key /\ settled' = settled /\ taskDefers' = taskDefers
  BY DEF CancelLosers
<1>2. Losers(winner) \subseteq Tasks BY DEF Losers
<1>3. TypeOK' BY <1>1, <1>2 DEF Inductive, TypeOK
<1>4. Lifecycle'
  <2>1. \A s \in Scopes : s \in aborted' <=> s \in aborted BY <1>1, <1>2
  <2> QED BY <1>1, <2>1 DEF Inductive, Lifecycle
<1>5. Traceless' /\ Cleanups'
  BY <1>1 DEF Inductive, Traceless, Cleanups, InCleanup
<1>6. Tracked' /\ Joining' BY <1>1 DEF Inductive, Tracked, Joining, Ended
<1>7. Recorded' /\ KeyHeld' BY <1>1 DEF Inductive, Recorded, KeyHeld
<1> QED BY <1>3, <1>4, <1>5, <1>6, <1>7 DEF Inductive

\* The engine's invariant survives every step of a combinator.
LEMMA StartNextEngine ==
  ASSUME Inductive, Types, next <= Len(TaskList), StartNext
  PROVE  Inductive'
<1> DEFINE t == TaskList[next]
<1>1. t \in Tasks /\ Group \in Scopes /\ NoOne \in Keys \cup {NoOne}
  BY ListOfTasks, Constants DEF Types
<1>2. CASE Spawn(Group, t, NoOne) BY <1>1, <1>2, SpawnStep
<1>3. ASSUME NEW res \in {"failed", "cancelled"}, SpawnThrows(Group, t, NoOne, res)
      PROVE  Inductive'
  BY <1>1, <1>3, SpawnThrowsStep
<1>4. CASE UNCHANGED vars BY <1>4, StutterStep
<1> QED BY <1>2, <1>3, <1>4 DEF StartNext

\* Whatever a combinator does, the invariant of the engine stays.
LEMMA CombinatorEngine ==
  ASSUME Inductive, Types, [CombinatorNext]_allVars
  PROVE  Inductive'
<1> USE Constants
<1>1. CASE Begin
  <2>1. StartNext /\ next <= Len(TaskList) BY <1>1 DEF Begin, StartNext
  <2> QED BY <2>1, StartNextEngine
<1>2. CASE Call BY <1>2, OpenStep DEF Call
<1>3. ASSUME NEW t \in Tasks, FunctionEnds(t) PROVE Inductive'
  <2>1. PICK res \in Ends, n \in 0..MaxDefers[t] :
          TaskBodyEnds(t, IF Wrapped THEN "succeeded" ELSE res, n)
    BY <1>3 DEF FunctionEnds
  <2>2. (IF Wrapped THEN "succeeded" ELSE res) \in Ends OBVIOUS
  <2> QED BY <2>1, <2>2, TaskBodyEndsStep
<1>4. ASSUME NEW t \in Tasks, CleanupEnds(t) PROVE Inductive'
  BY <1>4, TaskCleanupEndsStep DEF CleanupEnds
<1>5. CASE React
  <2> DEFINE t == settlements[seen + 1]
  <2>1. Wins(t) \/ AllFailed(t) \/ NoDecision(t) \/ Collects(t) BY <1>5 DEF React
  <2> HIDE DEF t
  <2>2. CASE Wins(t) BY <2>2, CancelLosersStep DEF Wins
  <2>3. CASE AllFailed(t) \/ NoDecision(t) BY <2>3, StutterStep DEF AllFailed, NoDecision
  <2>4. CASE Collects(t)
    <3>1. CASE StartNext
      <4>1. next <= Len(TaskList) BY <3>1 DEF StartNext
      <4> QED BY <3>1, <4>1, StartNextEngine
    <3>2. CASE UNCHANGED vars BY <3>2, StutterStep
    <3> QED BY <2>4, <3>1, <3>2 DEF Collects
  <2> QED BY <2>1, <2>2, <2>3, <2>4
<1>6. CASE BodyEnds
  <2>1. PICK n \in 0..MaxDefers[Group] : GroupBodyEnds(Group, promise, n) /\ promise # "pending"
    BY <1>6 DEF BodyEnds
  <2>2. promise \in Ends BY <2>1 DEF Types
  <2> QED BY <2>1, <2>2, GroupBodyEndsStep
<1>7. CASE Closes
  BY <1>7, DrainStep, ScopeCleanupEndsStep, FinishStep DEF Closes, CloseStep
<1>8. CASE CancelFromOutside BY <1>8, CancelStep DEF CancelFromOutside
<1>9. CASE UNCHANGED allVars BY <1>9, StutterStep DEF allVars
<1> QED BY <1>1, <1>2, <1>3, <1>4, <1>5, <1>6, <1>7, <1>8, <1>9 DEF CombinatorNext
----------------------------------------------------------------------------
\* The settlements only grow, by a task that settles.
Grows(t) == \/ settled' = settled /\ settlements' = settlements
            \/ settled' = settled \cup {t} /\ settlements' = Append(settlements, t)

\* A settlement that is appended leaves the earlier ones where they were.
LEMMA Grown ==
  ASSUME Types, Settlements, NEW t \in Tasks, t \notin settled, Grows(t)
  PROVE  /\ Settlements' /\ settlements' \in Seq(Tasks)
         /\ Len(settlements) \in Nat /\ Len(settlements') \in Nat
         /\ Len(settlements) <= Len(settlements')
         /\ \A i \in 1..Len(settlements) : /\ settlements[i] \in settled
                                           /\ settlements[i] \in Tasks
                                           /\ settlements'[i] = settlements[i]
         /\ settled \subseteq settled'
<1>1. settlements \in Seq(Tasks) /\ Len(settlements) \in Nat BY DEF Types
<1>2. \A i \in 1..Len(settlements) : settlements[i] \in settled /\ settlements[i] \in Tasks
  <2>1. \A i \in 1..Len(settlements) : settlements[i] \in Tasks
    BY <1>1, ElementOfSeq
  <2> QED BY <2>1 DEF Settlements
<1>3. CASE settled' = settled /\ settlements' = settlements
  BY <1>1, <1>2, <1>3 DEF Settlements
<1>4. CASE settled' = settled \cup {t} /\ settlements' = Append(settlements, t)
  <2>1. /\ settlements' \in Seq(Tasks)
        /\ Len(settlements') = Len(settlements) + 1
        /\ \A i \in 1..Len(settlements) : settlements'[i] = settlements[i]
        /\ settlements'[Len(settlements) + 1] = t
    BY <1>1, <1>4, AppendProperties
  <2>2. \A i \in 1..Len(settlements') : i \in 1..Len(settlements) \/ i = Len(settlements) + 1
    BY <1>1, <2>1
  <2>3. Len(settlements) + 1 \in 1..Len(settlements') BY <1>1, <2>1
  <2>4. \A i \in 1..Len(settlements) : i \in 1..Len(settlements') BY <1>1, <2>1
  <2>5. \A u \in Tasks : u \in settled' <=>
          \E i \in 1..Len(settlements') : settlements'[i] = u
    <3> SUFFICES ASSUME NEW u \in Tasks
                 PROVE  u \in settled' <=>
                          \E i \in 1..Len(settlements') : settlements'[i] = u
      OBVIOUS
    <3>1. ASSUME u \in settled' PROVE \E i \in 1..Len(settlements') : settlements'[i] = u
      BY <1>4, <2>1, <2>3, <2>4, <3>1 DEF Settlements
    <3>2. ASSUME NEW i \in 1..Len(settlements'), settlements'[i] = u PROVE u \in settled'
      BY <1>2, <1>4, <2>1, <2>2, <3>2
    <3> QED BY <3>1, <3>2
  <2>6. \A i, j \in 1..Len(settlements') : settlements'[i] = settlements'[j] => i = j
    BY <1>2, <2>1, <2>2 DEF Settlements
  <2>7. Settlements' BY <2>5, <2>6 DEF Settlements
  <2> QED BY <1>1, <1>2, <1>4, <2>1, <2>7
<1> QED BY <1>3, <1>4 DEF Grows
----------------------------------------------------------------------------
\* The state before the call.
LEMMA CombinatorInitLearnt == CombinatorInit => Inductive /\ Learnt
<1> SUFFICES ASSUME CombinatorInit PROVE Inductive /\ Learnt OBVIOUS
<1> USE Constants
<1>1. Inductive BY InitInductive DEF CombinatorInit
<1>2. /\ kind \in Kinds /\ starting = FALSE /\ next = 1 /\ settlements = <<>> /\ seen = 0
      /\ result = [t \in Tasks |-> "none"] /\ promise = "pending"
      /\ status = [t \in Tasks |-> "unborn"] /\ settled = {}
      /\ phase[Group] = "none" /\ firstChildFailure[Group] = NoOne
      /\ outcome[Group] = "pending"
  BY DEF CombinatorInit, Init
<1>3. settlements \in Seq(Tasks) /\ Len(settlements) = 0 BY <1>2, EmptySeq
<1>4. Types
  <2>1. next \in 1..Len(TaskList) + 1 BY <1>2, ListOfTasks
  <2>2. seen = 0 BY <1>2
  <2>3. seen \in 0..Len(settlements) BY <1>3, <2>2
  <2>4. result \in [Tasks -> {"none"} \cup Ends] BY <1>2
  <2> QED BY <1>2, <1>3, <2>1, <2>3, <2>4, Zenon DEF Types
<1>5. Order BY <1>2, ListOfTasks DEF Order
<1>6. Settlements BY <1>2, <1>3 DEF Settlements
<1>7. Results BY <1>2 DEF Results
<1>8. Beginning BY <1>2 DEF Beginning
<1>9. Workers
  <2>1. next <= Slots + seen + 1 BY <1>2, SlotsPositive
  <2> QED BY <1>2, <2>1 DEF Workers
<1>10. Outcomes BY <1>2 DEF Outcomes, Returned
<1>11. RaceDecides BY <1>2 DEF RaceDecides
<1>12. AnyDecides BY <1>2 DEF AnyDecides
<1>13. CollectDecides BY <1>2 DEF CollectDecides
<1> QED
  BY <1>1, <1>4, <1>5, <1>6, <1>7, <1>8, <1>9, <1>10, <1>11, <1>12, <1>13 DEF Learnt

\* A step of the groups: no task starts or ends.
LEMMA QuietStep ==
  ASSUME Learnt, ~starting, UNCHANGED combinatorVars, SameTasks,
         state'[Group] = "unopened" => state[Group] = "unopened",
         state'[Group] = "running" => state[Group] \in {"unopened", "running"},
         promise = "pending" => phase'[Group] \in {"none", "body"},
         Outcomes'
  PROVE  Learnt'
<1>1. /\ kind' = kind /\ starting' = starting /\ next' = next /\ settlements' = settlements
      /\ seen' = seen /\ result' = result /\ promise' = promise
  BY DEF combinatorVars
<1>2. /\ status' = status /\ settled' = settled
      /\ \A t \in Tasks : owner'[t] = owner[t] /\ born'[t] = born[t]
  BY DEF SameTasks
<1>3. Types' BY <1>1 DEF Learnt, Types
<1>4. Order'
  <2>1. state[Group] = "unopened" => next = 1 BY DEF Learnt, Beginning
  <2>2. \A i \in 1..next - 1 : next # 1 BY DEF Learnt, Types
  <2> QED BY <1>1, <1>2, <2>1, <2>2 DEF Learnt, Order
<1>5. Settlements' BY <1>1, <1>2 DEF Learnt, Settlements
<1>6. Results' BY <1>1, <1>2 DEF Learnt, Results, Wrapped
<1>7. Beginning' BY <1>1, <1>2 DEF Learnt, Beginning, Slots
<1>8. Workers' BY <1>1, <1>2 DEF Learnt, Workers, UsesWorkers, Slots, Started
<1>9. RaceDecides' BY <1>1 DEF Learnt, RaceDecides
<1>10. AnyDecides' BY <1>1, <1>2 DEF Learnt, AnyDecides
<1>11. CollectDecides'
  <2>1. state[Group] = "unopened" => promise = "pending" BY DEF Learnt, Beginning
  <2> QED BY <1>1, <1>2, <2>1 DEF Learnt, CollectDecides, Rejects
<1> QED BY <1>3, <1>4, <1>5, <1>6, <1>7, <1>8, <1>9, <1>10, <1>11 DEF Learnt

\* The call opens the group; nothing of the combinator exists yet.
LEMMA CallStep ==
  ASSUME Inductive, Learnt, ~starting, Call
  PROVE  Learnt'
<1> USE Constants
<1>1. CASE Open(Outer, NoOne) /\ UNCHANGED combinatorVars
  <2>1. SameTasks /\ SameFailure(Group) /\ SameGroup(Group) /\ state'[Group] = state[Group]
    BY <1>1, OpenEffect
  <2>2. phase'[Group] = phase[Group] BY <2>1 DEF SameGroup
  <2>3. Outcomes'
    BY <1>1, <2>1 DEF Learnt, Outcomes, combinatorVars, SameTasks, SameFailure, SameGroup, Returned
  <2>4. promise = "pending" => phase'[Group] \in {"none", "body"}
    BY <2>2 DEF Learnt, Beginning
  <2> QED BY <1>1, <2>1, <2>3, <2>4, QuietStep
<1>2. CASE /\ Open(Group, Outer) /\ starting' = TRUE
           /\ UNCHANGED <<kind, next, settlements, seen, result, promise>>
  <2>1. /\ SameTasks /\ SameFailure(Group)
        /\ state[Group] = "unopened" /\ state'[Group] = "running" /\ phase'[Group] = "body"
        /\ bodyError'[Group] = bodyError[Group] /\ outcome'[Group] = outcome[Group]
    BY <1>2, OpenEffect
  <2>2. /\ status' = status /\ settled' = settled
        /\ \A t \in Tasks : owner'[t] = owner[t] /\ born'[t] = born[t]
    BY <2>1 DEF SameTasks
  <2>3. next = 1 /\ promise = "pending" BY <2>1 DEF Learnt, Beginning
  <2>4. Len(settlements) \in Nat /\ Len(settlements) <= 0 /\ Types /\ Order
    <3>1. Len(settlements) \in Nat /\ Len(settlements) <= next - 1
      BY Counting DEF Learnt
    <3> QED BY <2>3, <3>1 DEF Learnt
  <2>5. seen = 0 /\ seen \in Nat BY <2>4 DEF Types
  <2>6. phase[Group] = "none" BY <2>1 DEF Inductive, Traceless
  <2>7. Types' BY <1>2 DEF Learnt, Types
  <2>8. Order' BY <1>2, <2>2, <2>3 DEF Learnt, Order
  <2>9. Settlements' BY <1>2, <2>2 DEF Learnt, Settlements
  <2>10. Results' BY <1>2, <2>2 DEF Learnt, Results, Wrapped
  <2>11. Beginning'
    <3>1. Slots' = Slots BY <1>2 DEF Slots
    <3>2. next' <= Slots' BY <1>2, <2>3, <3>1, SlotsPositive
    <3> QED BY <1>2, <2>1, <2>2, <2>5, <3>2 DEF Learnt, Beginning
  <2>12. Workers'
    BY <1>2, <2>2, <2>3 DEF Learnt, Workers, UsesWorkers, Slots, Started
  <2>13. Outcomes'
    BY <1>2, <2>1, <2>2, <2>6 DEF Learnt, Outcomes, SameFailure, Returned
  <2>14. RaceDecides' BY <1>2 DEF Learnt, RaceDecides
  <2>15. AnyDecides' BY <1>2, <2>2 DEF Learnt, AnyDecides
  <2>16. CollectDecides' BY <1>2, <2>2, <2>3 DEF Learnt, CollectDecides, Rejects
  <2> QED
    BY <2>7, <2>8, <2>9, <2>10, <2>11, <2>12, <2>13, <2>14, <2>15, <2>16 DEF Learnt
<1> QED BY <1>1, <1>2 DEF Call

\* A cancellation from outside changes signals and nothing that the combinator learnt.
LEMMA CancelFromOutsideStep ==
  ASSUME Inductive, Learnt, ~starting, CancelFromOutside
  PROVE  Learnt'
<1>1. PICK s \in Scopes : Cancel(s, "manual") BY DEF CancelFromOutside
<1>2. UNCHANGED combinatorVars BY DEF CancelFromOutside
<1>3. SameTasks /\ SameFailure(Group) /\ SameGroup(Group) /\ MayCancel(Group)
  BY <1>1, CancelEffect, Constants DEF Cancel
<1>4. Outcomes'
  BY <1>2, <1>3 DEF Learnt, Outcomes, combinatorVars, SameTasks, SameFailure, SameGroup, Returned
<1>5. promise = "pending" => phase'[Group] \in {"none", "body"}
  BY <1>3 DEF Learnt, Beginning, SameGroup
<1>6. /\ state'[Group] = "unopened" => state[Group] = "unopened"
      /\ state'[Group] = "running" => state[Group] \in {"unopened", "running"}
  BY <1>3 DEF MayCancel
<1> QED BY <1>2, <1>3, <1>4, <1>5, <1>6, QuietStep

\* The end of the body: the promise has settled, and close() begins.
LEMMA BodyEndsStep ==
  ASSUME Inductive, Learnt, ~starting, BodyEnds
  PROVE  Learnt'
<1>1. PICK n \in 0..MaxDefers[Group] : GroupBodyEnds(Group, promise, n) BY DEF BodyEnds
<1>2. UNCHANGED combinatorVars /\ promise # "pending" BY DEF BodyEnds
<1>3. promise \in Ends BY <1>2 DEF Learnt, Types
<1>4. /\ SameTasks /\ SameFailure(Group) /\ MayCancel(Group)
      /\ phase[Group] = "body" /\ phase'[Group] \in {"drain", "defers"}
      /\ bodyError'[Group] <=> promise # "succeeded"
      /\ outcome'[Group] = outcome[Group]
  BY <1>1, <1>3, GroupBodyEndsEffect, Constants
<1>5. ~Returned BY <1>4 DEF Learnt, Outcomes
<1>6. Outcomes'
  BY <1>2, <1>4, <1>5 DEF Learnt, Outcomes, combinatorVars, SameTasks, SameFailure, Returned
<1>7. /\ state'[Group] = "unopened" => state[Group] = "unopened"
      /\ state'[Group] = "running" => state[Group] \in {"unopened", "running"}
  BY <1>4 DEF MayCancel
<1> QED BY <1>2, <1>4, <1>6, <1>7, QuietStep

\* close() drains, runs its cleanups and ends; here outcomes are fixed.
LEMMA ClosesStep ==
  ASSUME Inductive, Learnt, ~starting, Closes
  PROVE  Learnt'
<1>1. CloseStep(Group) /\ UNCHANGED combinatorVars BY DEF Closes
<1>2. /\ SameTasks /\ SameFailure(Group)
      /\ phase[Group] \in {"drain", "defers"}
      /\ bodyError'[Group] = bodyError[Group]
      /\ \/ /\ state'[Group] = state[Group] /\ outcome'[Group] = outcome[Group]
            /\ phase'[Group] \in {"drain", "defers"}
         \/ /\ state'[Group] = "closed" /\ phase'[Group] = "over"
            /\ outcome'[Group] = GroupResult(Group)
  BY <1>1, CloseStepEffect, Constants
<1>3. promise # "pending" /\ ~Returned /\ (bodyError[Group] <=> promise # "succeeded")
  BY <1>2 DEF Learnt, Outcomes
<1>4. Outcomes'
  <2>1. CASE outcome'[Group] = outcome[Group] /\ phase'[Group] \in {"drain", "defers"}
    BY <1>1, <1>2, <1>3, <2>1
       DEF Learnt, Outcomes, combinatorVars, SameTasks, SameFailure, Returned
  <2>2. CASE phase'[Group] = "over" /\ outcome'[Group] = GroupResult(Group)
    BY <1>1, <1>2, <1>3, <2>2
       DEF Learnt, Outcomes, combinatorVars, SameTasks, SameFailure, Returned, GroupResult
  <2> QED BY <1>2, <2>1, <2>2
<1>5. state'[Group] = state[Group] \/ state'[Group] = "closed" BY <1>2
<1> QED BY <1>1, <1>2, <1>3, <1>4, <1>5, QuietStep
----------------------------------------------------------------------------
\* A task of the group ends, or settles with its last cleanup.
LEMMA EndStep ==
  ASSUME Inductive, Learnt, ~starting, NEW t \in Tasks,
         t \notin settled, status[t] # "unborn", status'[t] # "unborn",
         Grows(t), Results', result' \in [Tasks -> {"none"} \cup Ends],
         status[t] = "running" \/ status'[t] = status[t],
         result[t] = "none" \/ result'[t] = result[t],
         \A u \in Tasks \ {t} : status'[u] = status[u] /\ result'[u] = result[u],
         \A u \in Tasks : owner'[u] = owner[u] /\ born'[u] = born[u],
         SameGroup(Group), MayCancel(Group), SameFailure(Group) \/ status'[t] = "failed",
         firstChildFailure[Group] # NoOne => firstChildFailure'[Group] # NoOne,
         UNCHANGED <<kind, starting, next, seen, promise>>
  PROVE  Learnt'
<1> USE Constants
<1>1. /\ Settlements' /\ settlements' \in Seq(Tasks)
      /\ Len(settlements) \in Nat /\ Len(settlements') \in Nat
      /\ Len(settlements) <= Len(settlements')
      /\ \A i \in 1..Len(settlements) : /\ settlements[i] \in settled
                                        /\ settlements[i] \in Tasks
                                        /\ settlements'[i] = settlements[i]
      /\ settled \subseteq settled'
  BY Grown DEF Learnt
<1>2. /\ phase'[Group] = phase[Group] /\ bodyError'[Group] = bodyError[Group]
      /\ outcome'[Group] = outcome[Group]
      /\ state'[Group] = "running" => state[Group] = "running"
      /\ state'[Group] = "unopened" => state[Group] = "unopened"
  BY DEF SameGroup, MayCancel
<1>3. \A u \in Tasks : status'[u] = "unborn" <=> status[u] = "unborn" OBVIOUS
<1>4. ASSUME NEW i \in 1..seen
      PROVE  /\ settlements'[i] = settlements[i] /\ settlements[i] \in Tasks
             /\ result'[settlements[i]] = result[settlements[i]]
  <2>1. i \in 1..Len(settlements) BY <1>1 DEF Learnt, Types
  <2> QED BY <1>1, <2>1
<1>5. Types'
  <2>1. seen \in 0..Len(settlements') BY <1>1 DEF Learnt, Types
  <2> QED BY <1>1, <2>1 DEF Learnt, Types
<1>6. Order'
  <2>1. \A i \in 1..next - 1 : i \in 1..Len(TaskList)
    BY ListOfTasks DEF Learnt, Types
  <2>2. \A i \in 1..Len(TaskList) : TaskList[i] \in Tasks BY ListOfTasks
  <2> QED BY <1>2, <1>3, <2>1, <2>2 DEF Learnt, Order
<1>7. \A u \in Tasks : result[u] = "failed" => result'[u] = "failed" OBVIOUS
<1>8. Beginning' BY <1>2, <1>3 DEF Learnt, Beginning
<1>9. Workers'
  <2>1. ~(kind = "series" /\ promise # "pending")
    BY DEF Learnt, Workers, Started
  <2>2. UsesWorkers' = UsesWorkers /\ Slots' = Slots BY DEF UsesWorkers, Slots
  <2> QED BY <2>1, <2>2 DEF Learnt, Workers
<1>10. Outcomes'
  <2>1. firstChildFailure'[Group] # NoOne => \E u \in Tasks : status'[u] = "failed"
    <3>1. CASE SameFailure(Group)
      <4>1. firstChildFailure[Group] # NoOne => \E u \in Tasks : status[u] = "failed"
        BY DEF Learnt, Outcomes
      <4>2. \A u \in Tasks : status[u] = "failed" => status'[u] = "failed" OBVIOUS
      <4> QED BY <3>1, <4>1, <4>2 DEF SameFailure
    <3>2. CASE status'[t] = "failed" BY <3>2
    <3> QED BY <3>1, <3>2
  <2>2. ASSUME outcome[Group] = "resolved" PROVE kind = "pool"
    <3>1. owner[t] = Group /\ Ended(Group)
      BY <2>2 DEF Learnt, Order, Outcomes, Returned, Ended
    <3>2. born[t] # "body" BY <3>1 DEF Inductive, Joining
    <3> QED BY <3>2 DEF Learnt, Beginning
  <2> QED BY <1>2, <2>1, <2>2 DEF Learnt, Outcomes, Returned
<1>11. RaceDecides'
  <2>1. ASSUME Len(settlements) # 0
        PROVE  Len(settlements') # 0 /\ result'[settlements'[1]] = result[settlements[1]]
    <3>1. 1 \in 1..Len(settlements) /\ Len(settlements') # 0 BY <1>1, <2>1
    <3> QED BY <1>1, <3>1
  <2> QED BY <1>7, <2>1 DEF Learnt, RaceDecides
<1>12. AnyDecides'
  <2>1. \A u \in Tasks : result[u] = "succeeded" => result'[u] = "succeeded" OBVIOUS
  <2> QED BY <1>4, <2>1 DEF Learnt, AnyDecides
<1>13. CollectDecides'
  <2>1. \A u \in Tasks : result[u] \in {"failed", "cancelled"} => result'[u] = result[u]
    OBVIOUS
  <2> QED BY <1>2, <1>3, <1>4, <2>1 DEF Learnt, CollectDecides, Rejects
<1> QED
  BY <1>1, <1>5, <1>6, <1>8, <1>9, <1>10, <1>11, <1>12, <1>13 DEF Learnt

\* The function of a task ends: its result, and its settlement if no cleanup is left.
LEMMA FunctionEndsStep ==
  ASSUME Inductive, Learnt, ~starting, NEW t \in Tasks, FunctionEnds(t)
  PROVE  Learnt'
<1>1. PICK res \in Ends, n \in 0..MaxDefers[t] :
        /\ TaskBodyEnds(t, IF Wrapped THEN "succeeded" ELSE res, n)
        /\ Settles(t, n)
        /\ result' = [result EXCEPT ![t] = res]
        /\ UNCHANGED <<kind, starting, next, seen, promise>>
  BY DEF FunctionEnds
<1> DEFINE end == IF Wrapped THEN "succeeded" ELSE res
<1>2. end \in Ends OBVIOUS
<1>3. status[t] = "running" /\ owner[t] = Group
  BY <1>1 DEF TaskBodyEnds, Learnt, Order
<1>4. TaskBodyEnds(t, end, n) BY <1>1
<1> HIDE DEF end
<1>5. /\ status[t] = "running" /\ t \notin settled
      /\ \A u \in Tasks : status'[u] = IF u = t THEN end ELSE status[u]
      /\ \A u \in Tasks : owner'[u] = owner[u] /\ born'[u] = born[u]
      /\ settled' = IF n = 0 THEN settled \cup {t} ELSE settled
      /\ Notes(Group, t)
  BY <1>2, <1>3, <1>4, TaskBodyEndsEffect, Constants
<1>6. Grows(t) BY <1>1, <1>5 DEF Settles, Grows
<1>7. /\ \A u \in Tasks : result'[u] = IF u = t THEN res ELSE result[u]
      /\ result' \in [Tasks -> {"none"} \cup Ends]
  BY <1>1 DEF Learnt, Types
<1>8. result[t] = "none" BY <1>5 DEF Learnt, Results
<1>9. Results'
  <2>1. Wrapped' = Wrapped BY <1>1 DEF Wrapped
  <2> QED BY <1>1, <1>2, <1>5, <1>7, <2>1 DEF Learnt, Results, end
<1>10. /\ SameGroup(Group) /\ MayCancel(Group)
       /\ SameFailure(Group) \/ status'[t] = "failed"
       /\ firstChildFailure[Group] # NoOne => firstChildFailure'[Group] # NoOne
  BY <1>5 DEF Notes
<1>11. status'[t] # "unborn" BY <1>2, <1>5
<1> QED BY <1>1, <1>5, <1>6, <1>7, <1>8, <1>9, <1>10, <1>11, EndStep DEF Notes

\* The last cleanup settles the handle, which the combinator hears of once.
LEMMA CleanupEndsStep ==
  ASSUME Inductive, Learnt, ~starting, NEW t \in Tasks, CleanupEnds(t)
  PROVE  Learnt'
<1>1. /\ TaskCleanupEnds(t) /\ Settles(t, taskDefers[t] - 1)
      /\ UNCHANGED <<kind, starting, next, seen, result, promise>>
  BY DEF CleanupEnds
<1>2. /\ status[t] \in Ends /\ t \notin settled /\ status' = status
      /\ \A u \in Tasks : owner'[u] = owner[u] /\ born'[u] = born[u]
      /\ settled' = IF taskDefers[t] = 1 THEN settled \cup {t} ELSE settled
      /\ SameGroup(Group) /\ SameFailure(Group) /\ state'[Group] = state[Group]
  BY <1>1, TaskCleanupEndsEffect, Constants
<1>3. Grows(t)
  <2>1. taskDefers[t] \in Nat BY DEF Inductive, TypeOK
  <2>2. taskDefers[t] - 1 = 0 <=> taskDefers[t] = 1 BY <2>1
  <2> QED BY <1>1, <1>2, <2>2 DEF Settles, Grows
<1>4. Results' BY <1>1, <1>2 DEF Learnt, Results, Wrapped
<1>5. result' \in [Tasks -> {"none"} \cup Ends] BY <1>1 DEF Learnt, Types
<1>6. MayCancel(Group) /\ status[t] # "unborn" /\ status'[t] # "unborn"
  BY <1>2 DEF MayCancel
<1> QED BY <1>1, <1>2, <1>3, <1>4, <1>5, <1>6, EndStep DEF SameFailure
----------------------------------------------------------------------------
\* What a call of task(fn) does.
Joins(t) ==
  /\ status[t] = "unborn" /\ status'[t] # "unborn" /\ t \notin settled
  /\ state[Group] = "running"
  /\ \A u \in Tasks \ {t} : status'[u] = status[u] /\ result'[u] = result[u]
  /\ owner'[t] = Group /\ born'[t] = phase[Group]
  /\ \A u \in Tasks \ {t} : owner'[u] = owner[u] /\ born'[u] = born[u]
  /\ SameGroup(Group) /\ MayCancel(Group)
  /\ (SameFailure(Group) /\ state'[Group] = state[Group]) \/ status'[t] = "failed"
  /\ firstChildFailure[Group] # NoOne => firstChildFailure'[Group] # NoOne
  /\ Grows(t) /\ promise' = promise /\ result' \in [Tasks -> {"none"} \cup Ends]
  /\ \/ status'[t] = "running" /\ result'[t] = "none"
     \/ ~Wrapped /\ status'[t] \in {"failed", "cancelled"} /\ result'[t] = status'[t]
Refused(t) ==
  /\ status[t] = "unborn" /\ state[Group] # "running" /\ SameTasks
  /\ SameGroup(Group) /\ SameFailure(Group) /\ state'[Group] = state[Group]
  /\ settlements' = settlements /\ result' = result
  /\ promise' = IF promise = "pending" THEN "failed" ELSE promise

\* The next task is spawned in the group, or the group refuses it.
LEMMA StartNextEffect ==
  ASSUME Inductive, Learnt, next <= Len(TaskList), StartNext
  PROVE  /\ TaskList[next] \in Tasks /\ next' = next + 1
         /\ Joins(TaskList[next]) \/ Refused(TaskList[next])
<1> DEFINE t == TaskList[next]
<1>1. next \in 1..Len(TaskList) BY ListOfTasks DEF Learnt, Types
<1>2. t \in Tasks BY <1>1, ListOfTasks
<1>3. status[t] = "unborn"
  <2>1. ~(next < next) BY <1>1
  <2> QED BY <1>1, <2>1 DEF Learnt, Order
<1>4. t \notin settled BY <1>2, <1>3 DEF Inductive, Traceless
<1>5. result[t] = "none" BY <1>2, <1>3 DEF Learnt, Results
<1>6. ASSUME Spawn(Group, t, NoOne), UNCHANGED <<settlements, result, promise>>
      PROVE  Joins(t)
  <2> HIDE DEF t
  <2>1. /\ status[t] = "unborn" /\ state[Group] = "running"
        /\ \A u \in Tasks : status'[u] = IF u = t THEN "running" ELSE status[u]
        /\ \A u \in Tasks : owner'[u] = IF u = t THEN Group ELSE owner[u]
        /\ \A u \in Tasks : born'[u] = IF u = t THEN phase[Group] ELSE born[u]
        /\ settled' = settled /\ SameGroup(Group) /\ SameFailure(Group)
        /\ state'[Group] = state[Group]
    BY <1>2, <1>6, SpawnEffect, Constants
  <2>2. Joins(t)
    BY <1>2, <1>4, <1>5, <1>6, <2>1 DEF Joins, Grows, MayCancel, SameFailure, Learnt, Types
  <2> QED BY <2>2
<1>7. ASSUME ~Wrapped, NEW res \in {"failed", "cancelled"},
             SpawnThrows(Group, t, NoOne, res),
             result' = [result EXCEPT ![t] = res],
             settlements' = Append(settlements, t), promise' = promise
      PROVE  Joins(t)
  <2> HIDE DEF t
  <2>1. /\ status[t] = "unborn" /\ state[Group] = "running" /\ t \notin settled
        /\ \A u \in Tasks : status'[u] = IF u = t THEN res ELSE status[u]
        /\ \A u \in Tasks : owner'[u] = IF u = t THEN Group ELSE owner[u]
        /\ \A u \in Tasks : born'[u] = IF u = t THEN phase[Group] ELSE born[u]
        /\ settled' = settled \cup {t} /\ Notes(Group, t)
    BY <1>2, <1>7, SpawnThrowsEffect, Constants
  <2>2. /\ SameGroup(Group) /\ MayCancel(Group)
        /\ (SameFailure(Group) /\ state'[Group] = state[Group]) \/ status'[t] = "failed"
        /\ firstChildFailure[Group] # NoOne => firstChildFailure'[Group] # NoOne
    BY <2>1 DEF Notes
  <2>3. /\ \A u \in Tasks : result'[u] = IF u = t THEN res ELSE result[u]
        /\ result' \in [Tasks -> {"none"} \cup Ends]
    BY <1>7 DEF Learnt, Types
  <2>4. Grows(t) BY <1>7, <2>1 DEF Grows
  <2> QED BY <1>2, <1>7, <2>1, <2>2, <2>3, <2>4 DEF Joins
<1>8. ASSUME state[Group] # "running", Decide("failed"),
             UNCHANGED <<vars, settlements, result>>
      PROVE  Refused(t)
  BY <1>3, <1>8 DEF Refused, Decide, vars, SameTasks, SameGroup, SameFailure
<1>9. next' = next + 1 BY DEF StartNext
<1> QED BY <1>2, <1>6, <1>7, <1>8, <1>9 DEF StartNext

\* The parts of the invariant that do not depend on who called task(fn).
LEMMA JoinsStep ==
  ASSUME Inductive, Learnt, next <= Len(TaskList), NEW t \in Tasks, t = TaskList[next],
         Joins(t), next' = next + 1, kind' = kind
  PROVE  /\ Order' /\ Results' /\ Outcomes'
         /\ Settlements' /\ settlements' \in Seq(Tasks)
         /\ Len(settlements) \in Nat /\ Len(settlements') \in Nat
         /\ Len(settlements) <= Len(settlements')
         /\ \A i \in 1..Len(settlements) : /\ settlements[i] \in settled
                                           /\ settlements[i] \in Tasks
                                           /\ settlements'[i] = settlements[i]
                                           /\ result'[settlements[i]] = result[settlements[i]]
         /\ settled \subseteq settled'
         /\ \A u \in Tasks : result[u] # "none" => result'[u] = result[u]
         /\ next' \in 1..Len(TaskList) + 1
<1> USE Constants
<1>1. /\ status[t] = "unborn" /\ status'[t] # "unborn" /\ t \notin settled
      /\ state[Group] = "running"
      /\ \A u \in Tasks \ {t} : status'[u] = status[u] /\ result'[u] = result[u]
      /\ owner'[t] = Group
      /\ \A u \in Tasks \ {t} : owner'[u] = owner[u] /\ born'[u] = born[u]
      /\ (SameFailure(Group) /\ state'[Group] = state[Group]) \/ status'[t] = "failed"
      /\ firstChildFailure[Group] # NoOne => firstChildFailure'[Group] # NoOne
      /\ Grows(t) /\ promise' = promise
      /\ \/ status'[t] = "running" /\ result'[t] = "none"
         \/ ~Wrapped /\ status'[t] \in {"failed", "cancelled"} /\ result'[t] = status'[t]
  BY DEF Joins
<1>2. /\ phase'[Group] = phase[Group] /\ bodyError'[Group] = bodyError[Group]
      /\ outcome'[Group] = outcome[Group]
  BY DEF Joins, SameGroup
<1>3. next \in 1..Len(TaskList) /\ Len(TaskList) \in Nat BY ListOfTasks DEF Learnt, Types
<1>4. /\ Settlements' /\ settlements' \in Seq(Tasks)
      /\ Len(settlements) \in Nat /\ Len(settlements') \in Nat
      /\ Len(settlements) <= Len(settlements')
      /\ \A i \in 1..Len(settlements) : /\ settlements[i] \in settled
                                        /\ settlements[i] \in Tasks
                                        /\ settlements'[i] = settlements[i]
      /\ settled \subseteq settled'
  BY <1>1, Grown DEF Learnt
<1>5. result[t] = "none" BY <1>1 DEF Learnt, Results
<1>6. \A u \in Tasks : result[u] # "none" => result'[u] = result[u] BY <1>1, <1>5
<1>7. \A i \in 1..Len(settlements) : result'[settlements[i]] = result[settlements[i]]
  BY <1>1, <1>4
<1>8. Order'
  <2>1. ASSUME NEW u \in Tasks, status'[u] # "unborn" PROVE owner'[u] = Group
    BY <1>1, <2>1 DEF Learnt, Order
  <2>2. ASSUME NEW i \in 1..Len(TaskList), status'[TaskList[i]] # "unborn" PROVE i < next'
    <3>1. TaskList[i] \in Tasks BY ListOfTasks
    <3>2. CASE TaskList[i] = t
      <4>1. i = next BY <1>3, <3>2, ListOfTasks
      <4> QED BY <1>3, <4>1
    <3>3. CASE TaskList[i] # t
      <4>1. i < next BY <1>1, <2>2, <3>1, <3>3 DEF Learnt, Order
      <4> QED BY <1>3, <4>1
    <3> QED BY <3>2, <3>3
  <2>3. ASSUME NEW i \in 1..next' - 1, status'[TaskList[i]] = "unborn"
        PROVE  promise' # "pending" /\ state'[Group] # "running"
    <3>1. i \in 1..next - 1 \/ i = next BY <1>3
    <3>2. i # next BY <1>1, <2>3
    <3>3. i \in 1..Len(TaskList) BY <1>3, <3>1
    <3>4. TaskList[i] \in Tasks /\ TaskList[i] # t BY <1>1, <2>3, <3>3, ListOfTasks
    <3>5. status[TaskList[i]] = "unborn" BY <1>1, <2>3, <3>4
    <3> QED BY <1>1, <3>1, <3>2, <3>5 DEF Learnt, Order
  <2> QED BY <2>1, <2>2, <2>3 DEF Order
<1>9. Results'
  <2>1. Wrapped' = Wrapped BY DEF Wrapped
  <2> QED BY <1>1, <1>5, <2>1 DEF Learnt, Results
<1>10. Outcomes'
  <2>1. firstChildFailure'[Group] # NoOne => \E u \in Tasks : status'[u] = "failed"
    <3>1. CASE SameFailure(Group)
      <4>1. firstChildFailure[Group] # NoOne => \E u \in Tasks : status[u] = "failed"
        BY DEF Learnt, Outcomes
      <4>2. \A u \in Tasks : status[u] = "failed" => status'[u] = "failed" BY <1>1
      <4> QED BY <3>1, <4>1, <4>2 DEF SameFailure
    <3>2. CASE status'[t] = "failed" BY <3>2
    <3> QED BY <1>1, <3>1, <3>2
  <2>2. outcome[Group] # "resolved"
    BY <1>1 DEF Inductive, Lifecycle
  <2> QED BY <1>1, <1>2, <2>1, <2>2 DEF Learnt, Outcomes, Returned
<1>11. next' \in 1..Len(TaskList) + 1 BY <1>3
<1> QED BY <1>4, <1>6, <1>7, <1>8, <1>9, <1>10, <1>11

\* A refused task changes no task, and rejects a promise that is pending.
LEMMA RefusedStep ==
  ASSUME Inductive, Learnt, next <= Len(TaskList), NEW t \in Tasks, t = TaskList[next],
         Refused(t), next' = next + 1, kind' = kind
  PROVE  /\ Order' /\ Results' /\ Outcomes'
         /\ Settlements' /\ settlements' \in Seq(Tasks)
         /\ next' \in 1..Len(TaskList) + 1
<1> USE Constants
<1>1. /\ status[t] = "unborn" /\ state[Group] # "running"
      /\ state'[Group] = state[Group]
      /\ settlements' = settlements /\ result' = result
      /\ promise' = (IF promise = "pending" THEN "failed" ELSE promise)
      /\ status' = status /\ settled' = settled
      /\ \A u \in Tasks : owner'[u] = owner[u] /\ born'[u] = born[u]
      /\ phase'[Group] = phase[Group] /\ bodyError'[Group] = bodyError[Group]
      /\ outcome'[Group] = outcome[Group]
      /\ firstChildFailure'[Group] = firstChildFailure[Group]
  BY DEF Refused, SameTasks, SameGroup, SameFailure
<1>2. next \in 1..Len(TaskList) /\ Len(TaskList) \in Nat BY ListOfTasks DEF Learnt, Types
<1>3. promise' # "pending" BY <1>1
<1>4. Order'
  <2>1. ASSUME NEW i \in 1..Len(TaskList), status'[TaskList[i]] # "unborn" PROVE i < next'
    <3>1. i < next BY <1>1, <2>1 DEF Learnt, Order
    <3> QED BY <1>2, <3>1
  <2> QED BY <1>1, <1>3, <2>1 DEF Learnt, Order
<1>5. Results' BY <1>1 DEF Learnt, Results, Wrapped
<1>6. Outcomes'
  <2>1. promise = "pending" => phase[Group] \in {"none", "body"} /\ ~Returned
    BY DEF Learnt, Beginning, Outcomes
  <2> QED BY <1>1, <2>1 DEF Learnt, Outcomes, Returned
<1>7. Settlements' /\ settlements' \in Seq(Tasks)
  BY <1>1 DEF Learnt, Types, Settlements
<1>8. next' \in 1..Len(TaskList) + 1 BY <1>2
<1> QED BY <1>4, <1>5, <1>6, <1>7, <1>8
----------------------------------------------------------------------------
\* One round of the synchronous loop.
LEMMA BeginStep ==
  ASSUME Inductive, Learnt, Begin
  PROVE  Learnt'
<1> USE Constants
<1> DEFINE t == TaskList[next]
<1>1. /\ starting /\ StartNext /\ next <= Len(TaskList)
      /\ starting' = (next < Slots /\ (UsesWorkers \/ state[Group] = "running"))
      /\ kind' = kind /\ seen' = seen
  BY DEF Begin, StartNext
<1>2. /\ phase[Group] = "body" /\ next <= Slots /\ seen = 0
      /\ state[Group] # "running" => ~Wrapped /\ \E u \in Tasks : result[u] = "failed"
      /\ kind = "series" => promise = "pending" /\ Slots = 1
  BY <1>1, SlotsPositive DEF Learnt, Beginning, Workers
<1>3. state[Group] \in {"running", "cancelling"}
  BY <1>2 DEF Inductive, Lifecycle
<1>4. t \in Tasks /\ next' = next + 1 /\ (Joins(t) \/ Refused(t))
  BY <1>1, StartNextEffect
<1>5. /\ Wrapped' = Wrapped /\ UsesWorkers' = UsesWorkers /\ Slots' = Slots
      /\ Slots \in Nat /\ next \in Nat /\ starting' \in BOOLEAN
  BY <1>1, SlotsPositive, ListOfTasks DEF Wrapped, UsesWorkers, Slots, Learnt, Types
<1>6. UsesWorkers => next' <= Slots' + seen' + 1 BY <1>1, <1>2, <1>4, <1>5
<1>7. starting' => next' <= Slots'
  <2>1. starting' => next < Slots BY <1>1
  <2> QED BY <1>4, <1>5, <2>1
<1>8. kind = "series" => ~starting' /\ next = 1
  <2>1. starting' => next < Slots BY <1>1
  <2>2. next >= 1 BY ListOfTasks DEF Learnt, Types
  <2> QED BY <1>2, <1>5, <2>1, <2>2
<1> HIDE DEF t
<1>9. CASE Joins(t)
  <2>1. /\ Order' /\ Results' /\ Outcomes'
        /\ Settlements' /\ settlements' \in Seq(Tasks)
        /\ Len(settlements) \in Nat /\ Len(settlements') \in Nat
        /\ Len(settlements) <= Len(settlements')
        /\ \A i \in 1..Len(settlements) : /\ settlements[i] \in settled
                                          /\ settlements[i] \in Tasks
                                          /\ settlements'[i] = settlements[i]
                                          /\ result'[settlements[i]] = result[settlements[i]]
        /\ settled \subseteq settled'
        /\ \A u \in Tasks : result[u] # "none" => result'[u] = result[u]
        /\ next' \in 1..Len(TaskList) + 1
    BY <1>1, <1>4, <1>9, JoinsStep DEF t
  <2>2. /\ state[Group] = "running" /\ status[t] = "unborn" /\ t \notin settled
        /\ status'[t] # "unborn" /\ born'[t] = phase[Group] /\ phase'[Group] = phase[Group]
        /\ \A u \in Tasks \ {t} : status'[u] = status[u] /\ born'[u] = born[u]
        /\ MayCancel(Group)
        /\ state'[Group] = state[Group] \/ status'[t] = "failed"
        /\ promise' = promise /\ result' \in [Tasks -> {"none"} \cup Ends]
        /\ \/ status'[t] = "running" /\ result'[t] = "none"
           \/ ~Wrapped /\ status'[t] \in {"failed", "cancelled"} /\ result'[t] = status'[t]
    BY <1>9 DEF Joins, SameGroup
  <2>3. Types'
    <3>1. seen' \in 0..Len(settlements') BY <1>1, <1>2, <2>1
    <3> QED BY <1>1, <1>5, <2>1, <2>2, <3>1 DEF Learnt, Types
  <2>4. Beginning'
    <3>1. starting' /\ state'[Group] # "running" =>
            ~Wrapped' /\ \E u \in Tasks : result'[u] = "failed"
      BY <1>4, <1>5, <2>2
    <3>2. kind' # "pool" => \A u \in Tasks : status'[u] # "unborn" => born'[u] = "body"
      BY <1>1, <1>2, <2>2 DEF Learnt, Beginning
    <3>3. state'[Group] # "unopened" BY <1>9 DEF Joins, MayCancel
    <3> QED BY <1>1, <1>2, <1>7, <2>2, <3>1, <3>2, <3>3 DEF Learnt, Beginning
  <2>5. Workers'
    <3>1. kind' = "series" => promise' = "pending" BY <1>1, <1>2, <2>2
    <3>2. UsesWorkers' => next' <= Slots' + seen' + 1 BY <1>5, <1>6
    <3> QED BY <3>1, <3>2, Zenon DEF Workers
  <2>6. RaceDecides'
    <3>1. ASSUME Len(settlements) # 0
          PROVE  Len(settlements') # 0 /\ result'[settlements'[1]] = result[settlements[1]]
      <4>1. 1 \in 1..Len(settlements) /\ Len(settlements') # 0 BY <2>1, <3>1
      <4> QED BY <2>1, <4>1
    <3>2. \A u \in Tasks : result[u] = "failed" => result'[u] = "failed" BY <2>1
    <3> QED BY <1>1, <1>2, <2>2, <3>1, <3>2 DEF Learnt, RaceDecides
  <2>7. AnyDecides'
    <3>1. \A u \in Tasks : result[u] = "succeeded" => result'[u] = "succeeded" BY <2>1
    <3>2. \A i \in 1..seen' : FALSE BY <1>1, <1>2
    <3>3. promise \in {"failed", "cancelled"} => kind # "any"
      BY <1>4, <2>2 DEF Learnt, AnyDecides
    <3> QED BY <1>1, <2>2, <3>1, <3>2, <3>3 DEF Learnt, AnyDecides
  <2>8. CollectDecides'
    <3>1. \A i \in 1..seen' : FALSE BY <1>1, <1>2
    <3>2. promise = "succeeded" => kind \in {"race", "any"}
      BY <1>4, <2>2 DEF Learnt, CollectDecides
    <3>3. \A u \in Tasks : result[u] \in {"failed", "cancelled"} => result'[u] = result[u]
      BY <2>1
    <3> QED BY <1>1, <2>2, <3>1, <3>2, <3>3 DEF Learnt, CollectDecides
  <2> QED BY <2>1, <2>3, <2>4, <2>5, <2>6, <2>7, <2>8 DEF Learnt
<1>10. CASE Refused(t)
  <2>1. /\ Order' /\ Results' /\ Outcomes'
        /\ Settlements' /\ settlements' \in Seq(Tasks)
        /\ next' \in 1..Len(TaskList) + 1
    BY <1>1, <1>4, <1>10, RefusedStep DEF t
  <2>2. /\ status[t] = "unborn" /\ state[Group] # "running"
        /\ state'[Group] = state[Group]
        /\ settlements' = settlements /\ result' = result
        /\ promise' = (IF promise = "pending" THEN "failed" ELSE promise)
        /\ status' = status /\ settled' = settled
        /\ \A u \in Tasks : owner'[u] = owner[u] /\ born'[u] = born[u]
        /\ phase'[Group] = phase[Group]
    BY <1>10 DEF Refused, SameTasks, SameGroup
  <2>3. promise' # "pending" /\ promise' \in Ends
    BY <2>2 DEF Learnt, Types
  <2>4. ~Wrapped /\ \E u \in Tasks : result[u] = "failed" BY <1>2, <2>2
  <2>5. Types' BY <1>1, <1>5, <2>1, <2>2, <2>3 DEF Learnt, Types
  <2>6. Beginning'
    BY <1>1, <1>2, <1>3, <1>5, <1>7, <2>2, <2>3, <2>4 DEF Learnt, Beginning
  <2>7. Workers'
    <3>1. ASSUME kind = "series" PROVE Len(settlements) = seen /\ Started \subseteq settled
      <4>1. /\ Len(settlements) \in Nat /\ Len(settlements) <= next - 1
            /\ Len(settlements) = next - 1 => Started \subseteq settled
        BY Counting DEF Learnt
      <4>2. Len(settlements) = 0 /\ next - 1 = 0 BY <1>8, <3>1, <4>1
      <4> QED BY <1>2, <4>1, <4>2
    <3>2. Started' = Started BY <2>2 DEF Started
    <3>3. UsesWorkers' => next' <= Slots' + seen' + 1 BY <1>5, <1>6
    <3>4. kind' = "series" =>
            ~starting' /\ Len(settlements') = seen' /\ Started' \subseteq settled'
      BY <1>1, <1>8, <2>2, <3>1, <3>2
    <3> QED BY <3>3, <3>4, Zenon DEF Workers
  <2>8. RaceDecides' BY <1>1, <2>2, <2>3, <2>4 DEF RaceDecides
  <2>9. AnyDecides' BY <1>1, <2>4 DEF AnyDecides, Wrapped
  <2>10. CollectDecides'
    <3>1. kind # "allSettled" BY <2>4 DEF Wrapped
    <3>2. promise = "succeeded" => kind \in {"race", "any"}
      BY <1>4, <2>2 DEF Learnt, CollectDecides, Inductive, Traceless
    <3>3. promise' # "succeeded" \/ promise = "succeeded" BY <2>2
    <3> QED BY <1>1, <1>4, <2>2, <2>3, <3>1, <3>2, <3>3 DEF CollectDecides
  <2> QED BY <2>1, <2>5, <2>6, <2>7, <2>8, <2>9, <2>10 DEF Learnt
<1> QED BY <1>4, <1>9, <1>10 DEF t
----------------------------------------------------------------------------
\* A reaction happens with a task that settled, in the group.
LEMMA Reacting ==
  ASSUME Inductive, Learnt, seen < Len(settlements)
  PROVE  /\ Len(settlements) \in Nat /\ seen \in Nat
         /\ seen + 1 \in 1..Len(settlements)
         /\ settlements[seen + 1] \in Tasks /\ settlements[seen + 1] \in settled
         /\ result[settlements[seen + 1]] \in Ends
         /\ state[Group] # "unopened"
         /\ kind = "series" => /\ promise = "pending" /\ Len(settlements) = seen + 1
                               /\ next - 1 = seen + 1 /\ Started \subseteq settled
                               /\ \A i \in 1..next - 1 : TaskList[i] \in settled
<1> USE Constants
<1>1. /\ Len(settlements) \in Nat /\ seen \in Nat /\ next \in Nat
      /\ seen + 1 \in 1..Len(settlements) /\ settlements \in Seq(Tasks)
  <2>1. Len(settlements) \in Nat /\ seen \in Nat /\ settlements \in Seq(Tasks)
    BY DEF Learnt, Types
  <2>2. next \in Nat BY ListOfTasks DEF Learnt, Types
  <2>3. seen + 1 \in 1..Len(settlements) BY <2>1
  <2> QED BY <2>1, <2>2, <2>3
<1>2. settlements[seen + 1] \in Tasks BY <1>1, ElementOfSeq
<1>3. settlements[seen + 1] \in settled BY <1>1, <1>2 DEF Learnt, Settlements
<1> DEFINE t == settlements[seen + 1]
<1>4. status[t] \notin {"unborn", "running"} /\ owner[t] = Group
  BY <1>2, <1>3 DEF Inductive, Traceless, Cleanups, Learnt, Order
<1>5. result[t] \in Ends BY <1>2, <1>4 DEF Learnt, Results, Types
<1>6. state[Group] # "unopened"
  BY <1>2, <1>4 DEF Inductive, Traceless
<1>7. ASSUME kind = "series"
      PROVE  /\ promise = "pending" /\ Len(settlements) = seen + 1 /\ next - 1 = seen + 1
             /\ Started \subseteq settled
             /\ \A i \in 1..next - 1 : TaskList[i] \in settled
  <2>1. promise = "pending" BY <1>1, <1>7 DEF Learnt, Workers
  <2>2. next <= 1 + seen + 1
    BY <1>7, SlotsPositive DEF Learnt, Workers, UsesWorkers
  <2>3. /\ Len(settlements) <= next - 1
        /\ Len(settlements) = next - 1 =>
             /\ Started \subseteq settled
             /\ \A i \in 1..next - 1 : TaskList[i] \in settled
    BY Counting DEF Learnt
  <2>4. Len(settlements) = seen + 1 /\ next - 1 = seen + 1 BY <1>1, <2>2, <2>3
  <2> QED BY <2>1, <2>3, <2>4
<1> QED BY <1>1, <1>2, <1>3, <1>5, <1>6, <1>7

\* A reaction that starts no task.
LEMMA DecidesStep ==
  ASSUME Inductive, Learnt, ~starting, seen < Len(settlements), seen' = seen + 1,
         SameTasks, SameGroup(Group), SameFailure(Group), state'[Group] = state[Group],
         UNCHANGED <<kind, starting, next, settlements, result>>,
         promise' \in {"pending"} \cup Ends, promise # "pending" => promise' = promise,
         RaceDecides', AnyDecides', CollectDecides'
  PROVE  Learnt'
<1>1. /\ status' = status /\ settled' = settled
      /\ \A t \in Tasks : owner'[t] = owner[t] /\ born'[t] = born[t]
      /\ phase'[Group] = phase[Group] /\ bodyError'[Group] = bodyError[Group]
      /\ outcome'[Group] = outcome[Group]
      /\ firstChildFailure'[Group] = firstChildFailure[Group]
  BY DEF SameTasks, SameGroup, SameFailure
<1>2. /\ Len(settlements) \in Nat /\ seen \in Nat /\ state[Group] # "unopened"
      /\ kind = "series" => Len(settlements) = seen + 1 /\ Started \subseteq settled
  BY Reacting
<1>3. Types'
  <2>1. seen' \in 0..Len(settlements) BY <1>2
  <2> QED BY <2>1 DEF Learnt, Types
<1>4. Order' BY <1>1 DEF Learnt, Order
<1>5. Settlements' BY <1>1 DEF Learnt, Settlements
<1>6. Results' BY <1>1 DEF Learnt, Results, Wrapped
<1>7. Beginning' BY <1>1, <1>2 DEF Learnt, Beginning
<1>8. Workers'
  <2>1. UsesWorkers' = UsesWorkers /\ Slots' = Slots /\ Started' = Started
    BY <1>1 DEF UsesWorkers, Slots, Started
  <2>2. UsesWorkers => next <= Slots + seen' + 1
    <3>1. next \in Nat /\ Slots \in Nat BY ListOfTasks, SlotsPositive DEF Learnt, Types
    <3>2. UsesWorkers => next <= Slots + seen + 1 BY DEF Learnt, Workers
    <3> QED BY <1>2, <3>1, <3>2
  <2>3. UsesWorkers' => next' <= Slots' + seen' + 1 BY <2>1, <2>2
  <2>4. kind' = "series" =>
          ~starting' /\ Len(settlements') = seen' /\ Started' \subseteq settled'
    BY <1>1, <1>2, <2>1
  <2> QED BY <2>3, <2>4, Zenon DEF Workers
<1>9. Outcomes'
  <2>1. promise = "pending" => phase[Group] \in {"none", "body"} /\ ~Returned
    BY DEF Learnt, Beginning, Outcomes
  <2> QED BY <1>1, <2>1 DEF Learnt, Outcomes, Returned
<1> QED BY <1>3, <1>4, <1>5, <1>6, <1>7, <1>8, <1>9 DEF Learnt

\* What has been seen after a reaction to t: what was seen before, and t.
LEMMA OneMoreSeen ==
  ASSUME Learnt, seen < Len(settlements)
  PROVE  \A i \in 1..seen + 1 : i \in 1..seen \/ i = seen + 1
  BY DEF Learnt, Types

\* When as many settlements are handled as there are tasks, every task has settled.
LEMMA AllSeen ==
  ASSUME Inductive, Learnt, seen < Len(settlements), seen + 1 = Len(TaskList)
  PROVE  /\ settled = Tasks
         /\ \A t \in Tasks : \E i \in 1..seen + 1 : settlements[i] = t
<1>1. /\ Len(settlements) \in Nat /\ Len(settlements) <= next - 1
      /\ Len(settlements) = Len(TaskList) => settled = Tasks
  BY Counting DEF Learnt
<1>2. seen \in Nat /\ next - 1 <= Len(TaskList) /\ next \in Nat
  BY <1>1, ListOfTasks DEF Learnt, Types
<1>3. Len(settlements) = seen + 1 /\ Len(settlements) = Len(TaskList)
  BY <1>1, <1>2, ListOfTasks
<1>4. \A t \in Tasks : t \in settled BY <1>1, <1>3
<1> QED BY <1>1, <1>3, <1>4 DEF Learnt, Settlements

\* The first result of a race, or the first success of any, decides and cancels the group.
LEMMA WinsStep ==
  ASSUME Inductive, Learnt, ~starting, seen < Len(settlements), seen' = seen + 1,
         UNCHANGED <<kind, starting>>, NEW t, t = settlements[seen + 1], Wins(t)
  PROVE  Learnt'
<1>1. /\ kind \in {"race", "any"} /\ promise = "pending" /\ Counts(t)
      /\ promise' = result[t] /\ UNCHANGED <<next, settlements, result>>
      /\ SameTasks /\ SameGroup(Group) /\ SameFailure(Group) /\ state'[Group] = state[Group]
  BY DEF Wins, Decide, CancelLosers, SameTasks, SameGroup, SameFailure
<1>2. t \in Tasks /\ result[t] \in Ends /\ Len(settlements) # 0 /\ seen \in Nat
  BY Reacting
<1>3. RaceDecides'
  <2>1. kind = "race" => t = settlements[1] BY <1>1, <1>2 DEF Learnt, RaceDecides
  <2> QED BY <1>1, <1>2, <2>1 DEF RaceDecides
<1>4. AnyDecides' BY <1>1, <1>2 DEF AnyDecides, Counts
<1>5. CollectDecides'
  <2>1. kind' \in {"race", "any"} BY <1>1
  <2> QED BY <2>1, Zenon DEF CollectDecides
<1> QED BY <1>1, <1>2, <1>3, <1>4, <1>5, DecidesStep

\* The last failure of any rejects it: no settlement handled before was a success.
LEMMA AllFailedStep ==
  ASSUME Inductive, Learnt, ~starting, seen < Len(settlements), seen' = seen + 1,
         UNCHANGED <<kind, starting>>, NEW t, t = settlements[seen + 1], AllFailed(t)
  PROVE  Learnt'
<1>1. /\ kind = "any" /\ promise = "pending" /\ result[t] # "succeeded"
      /\ seen + 1 = Len(TaskList)
      /\ promise' \in {"cancelled", "failed"} /\ UNCHANGED <<next, settlements, result>>
      /\ SameTasks /\ SameGroup(Group) /\ SameFailure(Group) /\ state'[Group] = state[Group]
  BY DEF AllFailed, Counts, Decide, vars, SameTasks, SameGroup, SameFailure
<1>2. settled = Tasks /\ \A u \in Tasks : \E i \in 1..seen + 1 : settlements[i] = u
  BY <1>1, AllSeen
<1>3. \A i \in 1..seen + 1 : result[settlements[i]] # "succeeded"
  BY <1>1, OneMoreSeen DEF Learnt, AnyDecides
<1>4. AnyDecides' BY <1>1, <1>2, <1>3 DEF AnyDecides, SameTasks
<1>5. RaceDecides' /\ CollectDecides'
  <2>1. kind' = "any" /\ kind' \in {"race", "any"} BY <1>1
  <2>2. kind' # "race" BY <2>1
  <2> QED BY <2>1, <2>2, Zenon DEF RaceDecides, CollectDecides
<1> QED BY <1>1, <1>4, <1>5, DecidesStep

\* A settlement after the decision, or a failure that leaves others to wait for, decides nothing.
LEMMA NoDecisionStep ==
  ASSUME Inductive, Learnt, ~starting, seen < Len(settlements), seen' = seen + 1,
         UNCHANGED <<kind, starting>>, NEW t, t = settlements[seen + 1], NoDecision(t)
  PROVE  Learnt'
<1>1. /\ kind \in {"race", "any"}
      /\ promise # "pending" \/ ~Counts(t)
      /\ UNCHANGED <<next, settlements, result, promise>>
      /\ SameTasks /\ SameGroup(Group) /\ SameFailure(Group) /\ state'[Group] = state[Group]
  BY DEF NoDecision, vars, SameTasks, SameGroup, SameFailure
<1>2. RaceDecides' BY <1>1 DEF Learnt, RaceDecides, Counts
<1>3. AnyDecides'
  <2>1. kind = "any" /\ promise = "pending" =>
          \A i \in 1..seen + 1 : result[settlements[i]] # "succeeded"
    BY <1>1, OneMoreSeen DEF Learnt, AnyDecides, Counts
  <2> QED BY <1>1, <2>1 DEF Learnt, AnyDecides, SameTasks
<1>4. CollectDecides'
  <2>1. kind' \in {"race", "any"} BY <1>1
  <2> QED BY <2>1, Zenon DEF CollectDecides
<1>5. promise' \in {"pending"} \cup Ends BY <1>1 DEF Learnt, Types
<1> QED BY <1>1, <1>2, <1>3, <1>4, <1>5, DecidesStep

\* A collecting combinator learns of t and starts nothing.
LEMMA CollectsStep ==
  ASSUME Inductive, Learnt, ~starting, seen < Len(settlements), seen' = seen + 1,
         UNCHANGED <<kind, starting>>, NEW t, t = settlements[seen + 1],
         kind \notin {"race", "any"}, ~GoesOn(t),
         IF Rejects(t) THEN Decide(result[t])
         ELSE IF seen + 1 = Len(TaskList) THEN Decide("succeeded")
         ELSE UNCHANGED promise,
         UNCHANGED <<vars, next, settlements, result>>
  PROVE  Learnt'
<1>1. /\ SameTasks /\ SameGroup(Group) /\ SameFailure(Group) /\ state'[Group] = state[Group]
      /\ status' = status /\ settled' = settled /\ state' = state
  BY DEF vars, SameTasks, SameGroup, SameFailure
<1>2. t \in Tasks /\ result[t] \in Ends BY Reacting
<1>3. /\ promise # "pending" => promise' = promise
      /\ promise = "pending" =>
           \/ Rejects(t) /\ promise' = result[t]
           \/ ~Rejects(t) /\ seen + 1 = Len(TaskList) /\ promise' = "succeeded"
           \/ ~Rejects(t) /\ promise' = "pending"
  BY DEF Decide
<1>4. promise' \in {"pending"} \cup Ends BY <1>2, <1>3 DEF Learnt, Types
<1>5. promise = "pending" /\ ~Rejects(t) => \A i \in 1..seen + 1 : ~Rejects(settlements[i])
  BY OneMoreSeen DEF Learnt, CollectDecides
<1>6. promise = "pending" /\ Rejects(t) =>
        kind # "allSettled" /\ result[t] \in {"failed", "cancelled"}
  BY <1>2 DEF Rejects
<1>7. ASSUME promise = "pending", ~Rejects(t), seen + 1 = Len(TaskList)
      PROVE  \A u \in Tasks : u \in settled /\ ~Rejects(u)
  <2>1. settled = Tasks /\ \A u \in Tasks : \E i \in 1..seen + 1 : settlements[i] = u
    BY <1>7, AllSeen
  <2> QED BY <1>5, <1>7, <2>1
<1>8. \A u : Rejects(u)' <=> Rejects(u) BY DEF Rejects
<1>9. CollectDecides'
  <2>1. CASE promise # "pending"
    <3>1. promise' = promise BY <1>3, <2>1
    <3> QED BY <1>1, <1>8, <2>1, <3>1 DEF Learnt, CollectDecides, Rejects
  <2>2. CASE promise = "pending" /\ Rejects(t) /\ promise' = result[t]
    <3>1. kind # "allSettled" /\ result'[t] \in {"failed", "cancelled"}
      BY <1>6, <2>2
    <3>2. promise' \in {"failed", "cancelled"} BY <1>6, <2>2
    <3> QED BY <1>2, <3>1, <3>2 DEF CollectDecides
  <2>3. CASE /\ promise = "pending" /\ ~Rejects(t) /\ seen + 1 = Len(TaskList)
             /\ promise' = "succeeded"
    BY <1>1, <1>7, <2>3 DEF CollectDecides, Rejects
  <2>4. CASE promise = "pending" /\ ~Rejects(t) /\ promise' = "pending"
    BY <1>5, <2>4 DEF CollectDecides, Rejects
  <2> QED BY <1>3, <2>1, <2>2, <2>3, <2>4
<1>10. RaceDecides' /\ AnyDecides'
  <2>1. kind' # "race" /\ kind' # "any" OBVIOUS
  <2> QED BY <2>1, Zenon DEF RaceDecides, AnyDecides
<1> QED BY <1>1, <1>3, <1>4, <1>9, <1>10, DecidesStep

\* A worker goes on with the next task.
LEMMA GoesOnStep ==
  ASSUME Inductive, Learnt, ~starting, seen < Len(settlements), seen' = seen + 1,
         UNCHANGED <<kind, starting>>, NEW s, s = settlements[seen + 1],
         GoesOn(s), StartNext
  PROVE  Learnt'
<1> USE Constants
<1> DEFINE t == TaskList[next]
<1>1. UsesWorkers /\ ~Rejects(s) /\ next <= Len(TaskList) BY DEF GoesOn
<1>2. /\ Len(settlements) \in Nat /\ seen \in Nat
      /\ state[Group] # "unopened" /\ s \in Tasks
      /\ kind = "series" => /\ promise = "pending" /\ Len(settlements) = seen + 1
                            /\ Started \subseteq settled
  BY Reacting
<1>3. t \in Tasks /\ next' = next + 1 /\ (Joins(t) \/ Refused(t))
  BY <1>1, StartNextEffect
<1>4. kind \in {"series", "pool"} /\ ~Wrapped BY <1>1 DEF UsesWorkers, Wrapped
<1>5. UsesWorkers' => next' <= Slots' + seen' + 1
  <2>1. Slots' = Slots /\ Slots \in Nat /\ next \in Nat
    BY SlotsPositive, ListOfTasks DEF Slots, Learnt, Types
  <2>2. next <= Slots + seen + 1 BY <1>1 DEF Learnt, Workers
  <2> QED BY <1>2, <1>3, <2>1, <2>2
<1>6. kind = "series" => phase[Group] = "body"
  BY <1>2 DEF Learnt, Beginning, Inductive, Traceless
<1>7. promise = "pending" => \A i \in 1..seen + 1 : ~Rejects(settlements[i])
  BY <1>1, <1>4, OneMoreSeen DEF Learnt, CollectDecides
<1>8. RaceDecides' /\ AnyDecides'
  <2>1. kind' # "race" /\ kind' # "any" BY <1>4
  <2> QED BY <2>1, Zenon DEF RaceDecides, AnyDecides
<1> HIDE DEF t
<1>9. CASE Joins(t)
  <2>1. /\ Order' /\ Results' /\ Outcomes'
        /\ Settlements' /\ settlements' \in Seq(Tasks)
        /\ Len(settlements') \in Nat
        /\ Len(settlements) <= Len(settlements')
        /\ \A i \in 1..Len(settlements) : /\ settlements[i] \in settled
                                          /\ settlements[i] \in Tasks
                                          /\ settlements'[i] = settlements[i]
                                          /\ result'[settlements[i]] = result[settlements[i]]
        /\ settled \subseteq settled'
        /\ \A u \in Tasks : result[u] # "none" => result'[u] = result[u]
        /\ next' \in 1..Len(TaskList) + 1
    BY <1>1, <1>3, <1>9, JoinsStep DEF t
  <2>2. /\ state[Group] = "running" /\ status[t] = "unborn" /\ t \notin settled
        /\ born'[t] = phase[Group] /\ phase'[Group] = phase[Group]
        /\ \A u \in Tasks \ {t} : status'[u] = status[u] /\ born'[u] = born[u]
        /\ promise' = promise /\ result' \in [Tasks -> {"none"} \cup Ends]
    BY <1>9 DEF Joins, SameGroup
  <2>3. Types'
    <3>1. seen' \in 0..Len(settlements') BY <1>2, <2>1
    <3> QED BY <2>1, <2>2, <3>1 DEF Learnt, Types
  <2>4. Beginning'
    <3>1. kind' # "pool" => \A u \in Tasks : status'[u] # "unborn" => born'[u] = "body"
      BY <1>4, <1>6, <2>2 DEF Learnt, Beginning
    <3>2. state'[Group] # "unopened" BY <1>9 DEF Joins, MayCancel
    <3> QED BY <2>2, <3>1, <3>2 DEF Learnt, Beginning
  <2>5. Workers'
    <3>1. kind' = "series" => promise' = "pending" BY <1>2, <2>2
    <3> QED BY <1>5, <3>1, Zenon DEF Workers
  <2>6. CollectDecides'
    <3>1. promise = "pending" => \A i \in 1..seen' : ~Rejects(settlements[i])
      BY <1>7
    <3>2. \A i \in 1..seen' : i \in 1..Len(settlements) BY <1>2
    <3>3. \A i \in 1..seen' : result'[settlements'[i]] = result[settlements[i]]
      BY <2>1, <3>2
    <3>4. promise' = "pending" =>
            \A i \in 1..seen' : ~(kind' # "allSettled" /\ result'[settlements'[i]] # "succeeded")
      BY <2>2, <3>1, <3>3 DEF Rejects
    <3>5. promise # "succeeded"
      BY <1>3, <1>4, <2>2 DEF Learnt, CollectDecides
    <3>6. \A u \in Tasks : result[u] \in {"failed", "cancelled"} => result'[u] = result[u]
      BY <2>1
    <3>7. promise' \in {"failed", "cancelled"} =>
            kind # "allSettled" /\ \E u \in Tasks : result'[u] \in {"failed", "cancelled"}
      BY <1>4, <2>2, <3>6 DEF Learnt, CollectDecides
    <3> QED BY <2>2, <3>4, <3>5, <3>7 DEF CollectDecides, Rejects
  <2> QED BY <1>8, <2>1, <2>3, <2>4, <2>5, <2>6 DEF Learnt
<1>10. CASE Refused(t)
  <2>1. /\ Order' /\ Results' /\ Outcomes'
        /\ Settlements' /\ settlements' \in Seq(Tasks)
        /\ next' \in 1..Len(TaskList) + 1
    BY <1>1, <1>3, <1>10, RefusedStep DEF t
  <2>2. /\ status[t] = "unborn" /\ state[Group] # "running"
        /\ state'[Group] = state[Group]
        /\ settlements' = settlements /\ result' = result
        /\ promise' = (IF promise = "pending" THEN "failed" ELSE promise)
        /\ status' = status /\ settled' = settled
        /\ \A u \in Tasks : owner'[u] = owner[u] /\ born'[u] = born[u]
        /\ phase'[Group] = phase[Group]
    BY <1>10 DEF Refused, SameTasks, SameGroup
  <2>3. promise' # "pending" /\ promise' \in Ends
    BY <2>2 DEF Learnt, Types
  <2>4. Types'
    <3>1. seen' \in 0..Len(settlements) BY <1>2
    <3> QED BY <2>1, <2>2, <2>3, <3>1 DEF Learnt, Types
  <2>5. Beginning' BY <1>2, <2>2, <2>3 DEF Learnt, Beginning
  <2>6. Workers'
    <3>1. Started' = Started BY <2>2 DEF Started
    <3>2. kind' = "series" =>
            ~starting' /\ Len(settlements') = seen' /\ Started' \subseteq settled'
      BY <1>2, <2>2, <3>1
    <3> QED BY <1>5, <3>2, Zenon DEF Workers
  <2>7. CollectDecides'
    <3>1. promise = "succeeded" => FALSE
      BY <1>3, <1>4, <2>2 DEF Learnt, CollectDecides, Inductive, Traceless
    <3>2. promise' # "succeeded" BY <2>2, <3>1
    <3>3. kind' # "allSettled" BY <1>4
    <3> QED BY <1>3, <2>2, <2>3, <3>2, <3>3 DEF CollectDecides
  <2> QED BY <1>8, <2>1, <2>4, <2>5, <2>6, <2>7 DEF Learnt
<1> QED BY <1>3, <1>9, <1>10 DEF t

\* Every reaction to a settlement keeps what the combinator knows.
LEMMA ReactStep ==
  ASSUME Inductive, Learnt, ~starting, React
  PROVE  Learnt'
<1> DEFINE t == settlements[seen + 1]
<1>1. /\ seen < Len(settlements) /\ seen' = seen + 1 /\ UNCHANGED <<kind, starting>>
      /\ Wins(t) \/ AllFailed(t) \/ NoDecision(t) \/ Collects(t)
  BY DEF React
<1>2. CASE Wins(t) BY <1>1, <1>2, WinsStep
<1>3. CASE AllFailed(t) BY <1>1, <1>3, AllFailedStep
<1>4. CASE NoDecision(t) BY <1>1, <1>4, NoDecisionStep
<1>5. CASE Collects(t)
  <2> PICK u : u = t OBVIOUS
  <2>1. kind \notin {"race", "any"} BY <1>5 DEF Collects
  <2>2. CASE GoesOn(u) /\ StartNext BY <1>1, <2>2, GoesOnStep
  <2>3. CASE /\ ~GoesOn(u)
             /\ IF Rejects(u) THEN Decide(result[u])
                ELSE IF seen + 1 = Len(TaskList) THEN Decide("succeeded")
                ELSE UNCHANGED promise
             /\ UNCHANGED <<vars, next, settlements, result>>
    BY <1>1, <2>1, <2>3, CollectsStep
  <2> QED BY <1>5, <2>2, <2>3 DEF Collects
<1> QED BY <1>1, <1>2, <1>3, <1>4, <1>5

\* So does a step that changes nothing.
LEMMA CombinatorStutter ==
  ASSUME Learnt, UNCHANGED allVars
  PROVE  Learnt'
<1> USE DEF allVars, vars, combinatorVars
<1>1. Types' /\ Order' /\ Settlements' BY DEF Learnt, Types, Order, Settlements
<1>2. Results' /\ Beginning' BY DEF Learnt, Results, Beginning, Wrapped, Slots
<1>3. Workers' BY DEF Learnt, Workers, UsesWorkers, Slots, Started
<1>4. Outcomes' BY DEF Learnt, Outcomes, Returned
<1>5. RaceDecides' /\ AnyDecides' /\ CollectDecides'
  BY DEF Learnt, RaceDecides, AnyDecides, CollectDecides, Rejects
<1> QED BY <1>1, <1>2, <1>3, <1>4, <1>5 DEF Learnt

\* Both invariants together are inductive.
LEMMA CombinatorNextLearnt ==
  ASSUME Inductive, Learnt, [CombinatorNext]_allVars
  PROVE  Inductive' /\ Learnt'
<1>1. Inductive' BY CombinatorEngine DEF Learnt
<1>2. Learnt'
  BY BeginStep, CallStep, FunctionEndsStep, CleanupEndsStep, ReactStep, BodyEndsStep,
     ClosesStep, CancelFromOutsideStep, CombinatorStutter DEF CombinatorNext
<1> QED BY <1>1, <1>2

\* The two invariants hold whatever the list, the combinator and the bound are: the
\* engine's own one survives although a decided race aborts several tasks at once.
THEOREM CombinatorInductive == CombinatorSpec => [](Inductive /\ Learnt)
<1>1. Inductive /\ Learnt /\ [CombinatorNext]_allVars => (Inductive /\ Learnt)'
  BY CombinatorNextLearnt
<1> QED BY <1>1, CombinatorInitLearnt, PTL DEF CombinatorSpec
----------------------------------------------------------------------------
\* The combinator's variables keep their types; the settlements are the settled
\* tasks, each once, and only tasks from the passed part of the list have started.
THEOREM CombinatorTypes == CombinatorSpec => []CombinatorTypeOK
<1>1. Inductive /\ Learnt => CombinatorTypeOK
  <2> SUFFICES ASSUME Inductive, Learnt PROVE CombinatorTypeOK OBVIOUS
  <2>1. Started \subseteq {TaskList[i] : i \in 1..next - 1}
    <3> SUFFICES ASSUME NEW t \in Tasks, status[t] # "unborn"
                 PROVE  \E i \in 1..next - 1 : TaskList[i] = t
      BY DEF Started
    <3>1. PICK i \in 1..Len(TaskList) : TaskList[i] = t BY ListOfTasks
    <3>2. i < next BY <3>1 DEF Learnt, Order
    <3>3. i \in 1..next - 1 BY <3>2, ListOfTasks DEF Learnt, Types
    <3> QED BY <3>1, <3>3
  <2>2. Len(settlements) = Cardinality(settled) BY Counting DEF Learnt
  <2>3. {settlements[i] : i \in DOMAIN settlements} = settled
    <3>1. /\ DOMAIN settlements = 1..Len(settlements)
          /\ \A i \in 1..Len(settlements) : settlements[i] \in Tasks
      BY LenProperties, ElementOfSeq DEF Learnt, Types
    <3>2. settled \subseteq Tasks BY DEF Inductive, TypeOK
    <3> QED BY <3>1, <3>2 DEF Learnt, Settlements
  <2> QED BY <2>1, <2>2, <2>3, Zenon DEF CombinatorTypeOK, Inductive, Learnt, Types
<1> QED BY <1>1, CombinatorInductive, PTL

\* A pool never has more unsettled tasks than Concurrency, a series one, however
\* their workers, the cleanups of their tasks and a closing group interleave.
THEOREM ConcurrencyIsBounded == CombinatorSpec => []ConcurrencyBounded
<1>1. Inductive /\ Learnt => ConcurrencyBounded
  <2> SUFFICES ASSUME Inductive, Learnt, UsesWorkers
               PROVE  Cardinality(Started \ settled) <=
                        IF kind = "series" THEN 1 ELSE Concurrency
    BY DEF ConcurrencyBounded
  <2>1. /\ Len(settlements) \in Nat /\ Cardinality(Started \ settled) \in Nat
        /\ Cardinality(Started \ settled) <= next - 1 - Len(settlements)
    BY Counting DEF Learnt
  <2>2. next \in Nat /\ seen \in Nat /\ seen <= Len(settlements) /\ Slots \in Nat
    BY <2>1, ListOfTasks, SlotsPositive DEF Learnt, Types
  <2>3. next <= Slots + seen + 1 BY DEF Learnt, Workers
  <2>4. Cardinality(Started \ settled) <= Slots BY <2>1, <2>2, <2>3
  <2>5. CASE kind = "series" BY <2>4, <2>5, SlotsPositive
  <2>6. CASE kind # "series"
    <3>1. Slots <= Concurrency BY <2>6, SlotsPositive DEF UsesWorkers
    <3> QED BY <2>1, <2>2, <2>4, <2>6, <3>1, Constants
  <2> QED BY <2>5, <2>6
<1> QED BY <1>1, CombinatorInductive, PTL

\* A combinator other than the pool returns only after all its tasks have settled,
\* losers and their cleanups included.
LEMMA LosersAreSettled == Inductive /\ Learnt => LosersJoined
<1> SUFFICES ASSUME Inductive, Learnt, Returned, kind # "pool",
                    NEW t \in Tasks, status[t] # "unborn"
             PROVE  t \in settled
  BY DEF LosersJoined, Started
<1>1. owner[t] = Group /\ born[t] = "body" BY DEF Learnt, Order, Beginning
<1>2. Ended(Group) BY DEF Learnt, Outcomes, Ended
<1> QED BY <1>1, <1>2, Constants DEF Inductive, Joining

\* When a combinator other than a pool returns, every task it started has settled, losers
\* and their cleanups included: they are cancelled, and close() of the group awaits them.
THEOREM LosersAreJoined == CombinatorSpec => []LosersJoined
  BY LosersAreSettled, CombinatorInductive, PTL
\* A result shows in the status of its task, unless the function was wrapped.
LEMMA Shown ==
  ASSUME Inductive, Learnt, NEW t \in Tasks
  PROVE  /\ ~Wrapped => \A end \in Ends : status[t] = end <=> result[t] = end
         /\ Wrapped => status[t] # "failed"
         /\ status[t] \in Ends <=> result[t] \in Ends
<1>1. /\ result[t] \in {"none"} \cup Ends /\ status[t] \in {"unborn", "running"} \cup Ends
  BY DEF Learnt, Types, Inductive, TypeOK
<1>2. /\ result[t] = "none" <=> status[t] \in {"unborn", "running"}
      /\ status[t] \in Ends => status[t] = IF Wrapped THEN "succeeded" ELSE result[t]
  BY DEF Learnt, Results
<1> QED BY <1>1, <1>2

----------------------------------------------------------------------------
\* Only task(fn) starts a task: in the loop, or by a worker after a success.
LEMMA StartsHere ==
  ASSUME Inductive, Learnt, [CombinatorNext]_allVars,
         NEW t \in Tasks, status[t] = "unborn", status'[t] # "unborn"
  PROVE  /\ Joins(TaskList[next])
         /\ starting \/ (seen < Len(settlements) /\ ~Rejects(settlements[seen + 1]))
<1> USE Constants
<1>1. ~SameTasks BY DEF SameTasks
<1>2. ASSUME StartNext PROVE Joins(TaskList[next])
  <2>1. next <= Len(TaskList) BY <1>2 DEF StartNext
  <2> QED BY <1>1, <1>2, <2>1, StartNextEffect DEF Refused
<1>3. CASE Begin BY <1>2, <1>3 DEF Begin
<1>4. CASE Call BY <1>1, <1>4, OpenEffect DEF Call
<1>5. ASSUME NEW u \in Tasks, FunctionEnds(u) PROVE FALSE
  BY <1>5 DEF FunctionEnds, TaskBodyEnds, Inductive, TypeOK
<1>6. ASSUME NEW u \in Tasks, CleanupEnds(u) PROVE FALSE
  BY <1>6 DEF CleanupEnds, TaskCleanupEnds
<1>7. CASE React
  <2> DEFINE s == settlements[seen + 1]
  <2>1. seen < Len(settlements) /\ (Wins(s) \/ AllFailed(s) \/ NoDecision(s) \/ Collects(s))
    BY <1>7 DEF React
  <2>2. ~Wins(s) BY DEF Wins, CancelLosers
  <2>3. ~AllFailed(s) /\ ~NoDecision(s) BY DEF AllFailed, NoDecision, vars
  <2>4. GoesOn(s) /\ StartNext BY <2>1, <2>2, <2>3 DEF Collects, vars
  <2> QED BY <1>2, <2>1, <2>4 DEF GoesOn
<1>8. CASE BodyEnds
  <2>1. promise \in Ends BY <1>8 DEF BodyEnds, Learnt, Types
  <2> QED BY <1>1, <1>8, <2>1, GroupBodyEndsEffect DEF BodyEnds
<1>9. CASE Closes BY <1>1, <1>9, CloseStepEffect DEF Closes
<1>10. CASE CancelFromOutside
  <2>1. PICK s \in Scopes : Cancel(s, "manual") BY <1>10 DEF CancelFromOutside
  <2> QED BY <1>1, <2>1, CancelEffect DEF Cancel
<1>11. CASE UNCHANGED allVars BY <1>11 DEF allVars, vars
<1> QED BY <1>3, <1>4, <1>5, <1>6, <1>7, <1>8, <1>9, <1>10, <1>11 DEF CombinatorNext

\* Fail-fast, and a series starts a task only after its predecessors succeeded.
THEOREM TasksStartInTurn == CombinatorSpec => StartsInTurn
<1> DEFINE InTurn ==
      \A t \in Tasks :
        status[t] = "unborn" /\ status'[t] # "unborn" =>
          /\ ~Wrapped => \A u \in Tasks : result[u] # "failed"
          /\ kind = "series" => \A i \in 1..next - 1 : /\ TaskList[i] \in settled
                                                       /\ result[TaskList[i]] = "succeeded"
<1>1. Inductive /\ Learnt /\ [CombinatorNext]_allVars => [InTurn]_allVars
  <2> SUFFICES ASSUME Inductive, Learnt, [CombinatorNext]_allVars,
                      NEW t \in Tasks, status[t] = "unborn", status'[t] # "unborn"
               PROVE  /\ ~Wrapped => \A u \in Tasks : result[u] # "failed"
                      /\ kind = "series" =>
                           \A i \in 1..next - 1 : /\ TaskList[i] \in settled
                                                  /\ result[TaskList[i]] = "succeeded"
    OBVIOUS
  <2>1. /\ state[Group] = "running"
        /\ starting \/ (seen < Len(settlements) /\ ~Rejects(settlements[seen + 1]))
    BY StartsHere DEF Joins
  <2>2. ASSUME ~Wrapped, NEW u \in Tasks, result[u] = "failed" PROVE FALSE
    <3>1. status[u] = "failed" BY <2>2, Shown
    <3>2. owner[u] = Group BY <3>1 DEF Learnt, Order
    <3> QED BY <2>1, <3>1, <3>2, Constants DEF Inductive, Recorded
  <2>3. ASSUME kind = "series"
        PROVE  \A i \in 1..next - 1 : /\ TaskList[i] \in settled
                                      /\ result[TaskList[i]] = "succeeded"
    <3>1. CASE starting
      <4>1. next - 1 <= 0 /\ next \in Nat
        BY <2>3, <3>1, SlotsPositive, ListOfTasks DEF Learnt, Beginning, Types
      <4>2. \A i \in 1..next - 1 : FALSE BY <4>1
      <4> QED BY <4>2
    <3>2. CASE seen < Len(settlements) /\ ~Rejects(settlements[seen + 1])
      <4>1. /\ promise = "pending" /\ Len(settlements) = seen + 1
            /\ \A i \in 1..next - 1 : TaskList[i] \in settled
        BY <2>3, <3>2, Reacting
      <4>2. \A i \in 1..seen + 1 : ~Rejects(settlements[i])
        BY <2>3, <3>2, <4>1, OneMoreSeen DEF Learnt, CollectDecides
      <4>3. \A u \in settled : result[u] = "succeeded"
        <5> SUFFICES ASSUME NEW u \in settled PROVE result[u] = "succeeded" OBVIOUS
        <5>1. u \in Tasks BY DEF Inductive, TypeOK
        <5>2. PICK i \in 1..seen + 1 : settlements[i] = u
          BY <4>1, <5>1 DEF Learnt, Settlements
        <5> QED BY <2>3, <4>2, <5>2 DEF Rejects
      <4> QED BY <4>1, <4>3
    <3> QED BY <2>1, <3>1, <3>2
  <2> QED BY <2>2, <2>3
<1>2. CombinatorSpec => [][InTurn]_allVars
  BY <1>1, CombinatorInductive, PTL DEF CombinatorSpec
<1> QED BY <1>2 DEF StartsInTurn
----------------------------------------------------------------------------
\* How the group settles: with the promise of its body and the failures it noted.
LEMMA GroupOutcome ==
  ASSUME Inductive, Learnt, Returned
  PROVE  /\ promise \in Ends
         /\ outcome[Group] = "resolved" =>
              /\ promise = "succeeded"
              /\ kind # "pool" => \A t \in Tasks : status[t] # "failed"
         /\ outcome[Group] # "resolved" =>
              promise # "succeeded" \/ \E t \in Tasks : status[t] = "failed"
<1> USE Constants
<1>1. phase[Group] = "over" /\ promise # "pending"
  BY DEF Learnt, Outcomes
<1>2. promise \in Ends BY <1>1 DEF Learnt, Types
<1>3. ASSUME outcome[Group] = "resolved", kind # "pool", NEW t \in Tasks, status[t] = "failed"
      PROVE  FALSE
  <2>1. firstChildFailure[Group] = NoOne BY <1>3 DEF Learnt, Outcomes
  <2>2. owner[t] = Group BY <1>3 DEF Learnt, Order
  <2> QED BY <1>3, <2>1, <2>2 DEF Inductive, Recorded
<1>4. outcome[Group] = "resolved" \/ outcome[Group] = "rejected"
  BY DEF Returned, Inductive, TypeOK
<1> QED BY <1>2, <1>3, <1>4 DEF Learnt, Outcomes

\* A race resolves exactly if its first settlement succeeded and no loser failed on the way out.
LEMMA RaceIsTrue ==
  ASSUME Inductive, Learnt, kind = "race", Returned
  PROVE  outcome[Group] = "resolved" <=> /\ result[settlements[1]] = "succeeded"
                                         /\ \A t \in Tasks : result[t] # "failed"
<1>1. promise = result[settlements[1]] \/ \E t \in Tasks : result[t] = "failed"
  BY GroupOutcome DEF Learnt, RaceDecides
<1>2. \A t \in Tasks : status[t] = "failed" <=> result[t] = "failed"
  BY Shown DEF Wrapped
<1> QED BY <1>1, <1>2, GroupOutcome

\* any resolves exactly if some task succeeded.
LEMMA AnyIsTrue ==
  ASSUME Inductive, Learnt, kind = "any", Returned
  PROVE  outcome[Group] = "resolved" <=> \E t \in Tasks : result[t] = "succeeded"
<1>1. \A t \in Tasks : status[t] # "failed" BY Shown DEF Wrapped
<1>2. /\ promise = "succeeded" => \E t \in Tasks : result[t] = "succeeded"
      /\ promise # "succeeded" => \A t \in Tasks : result[t] # "succeeded"
  BY GroupOutcome DEF Learnt, AnyDecides
<1> QED BY <1>1, <1>2, GroupOutcome

\* all, series and pool resolve exactly if every task succeeded; allSettled always does.
LEMMA CollectIsTrue ==
  ASSUME Inductive, Learnt, Returned
  PROVE  /\ kind \in {"all", "series", "pool"} =>
              (outcome[Group] = "resolved" <=> \A t \in Tasks : result[t] = "succeeded")
         /\ kind = "allSettled" => outcome[Group] = "resolved" /\ settled = Tasks
<1>1. ASSUME kind \in {"all", "series", "pool"}
      PROVE  outcome[Group] = "resolved" <=> \A t \in Tasks : result[t] = "succeeded"
  <2>1. promise = "succeeded" => \A t \in Tasks : result[t] = "succeeded"
    BY <1>1 DEF Learnt, CollectDecides, Rejects
  <2>2. promise # "succeeded" => \E t \in Tasks : result[t] # "succeeded"
    <3>1. \A t \in Tasks : status[t] = "unborn" => result[t] = "none"
      BY DEF Learnt, Results
    <3> QED BY <1>1, <3>1, GroupOutcome DEF Learnt, CollectDecides
  <2>3. \A t \in Tasks : status[t] = "failed" => result[t] = "failed"
    BY <1>1, Shown DEF Wrapped
  <2> QED BY <2>1, <2>2, <2>3, GroupOutcome
<1>2. ASSUME kind = "allSettled" PROVE outcome[Group] = "resolved" /\ settled = Tasks
  <2>1. \A t \in Tasks : status[t] # "failed" BY <1>2, Shown DEF Wrapped
  <2>2. promise = "succeeded" BY <1>2, GroupOutcome DEF Learnt, CollectDecides
  <2>3. \A t \in Tasks : t \in settled BY <1>2, <2>2 DEF Learnt, CollectDecides
  <2>4. settled \subseteq Tasks BY DEF Inductive, TypeOK
  <2> QED BY <2>1, <2>2, <2>3, <2>4, GroupOutcome
<1> QED BY <1>1, <1>2

\* Each combinator settles as its tasks' results call for, in whatever order they
\* settled, whoever was cancelled and whenever the group was.
THEOREM ModesAreTrue == CombinatorSpec => []ModeTruth
<1>1. Inductive /\ Learnt => ModeTruth
  BY RaceIsTrue, AnyIsTrue, CollectIsTrue DEF ModeTruth, RaceTruth, AnyTruth, CollectTruth
<1> QED BY <1>1, CombinatorInductive, PTL
=============================================================================

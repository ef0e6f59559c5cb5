---------------------------- MODULE StreamProofs ----------------------------
(***************************************************************************)
(* Theorems about what runs on the engine and what looks on it.  Of          *)
(* WorkStream, for any items, any concurrency and any number of cleanups:    *)
(* its type correctness, its backpressure and what becomes of its items.     *)
(* Of Observers, for any tree of scopes, wherever in it and whenever they    *)
(* are attached: what receipts, summaries and spans tell.  Each has one      *)
(* inductive invariant beside that of the engine.                            *)
(***************************************************************************)
EXTENDS WorkStream, Observers, ScopeProofs, SequenceTheorems, FiniteSetTheorems

USE DEF Owned, Ends, Phases, adoption, control, records, closeVars, taskVars

Shape ==
  /\ pc \in {"start", "fill", "pull", "race", "yield", "closing", "over"}
  /\ filling \in BOOLEAN /\ sourceDone \in BOOLEAN
  /\ pulled \in 0..Len(Items)
  /\ active \in SUBSET Tasks
  /\ value \in [Tasks -> {"none"} \cup Values]
  /\ reported \in [Tasks -> Seq(Reports)]
  /\ yields \in Seq(Tasks)
  /\ ending \in {"none", "done", "failed", "stopped"}

\* Where the generator stands goes with its scope, whose body ends only after the
\* generator has decided how it is to end.
Standing ==
  /\ pc = "start" <=> state[Stream] = "unopened"
  /\ pc \in {"fill", "pull", "race", "yield"} => phase[Stream] = "body"
  /\ pc = "over" => phase[Stream] = "over"
  /\ ending # "none" <=> pc \in {"closing", "over"}

\* The generator asks the source, or its consumer, only with room for one more.
Room ==
  /\ Cardinality(active) <= Concurrency
  /\ pc \in {"pull", "yield"} => Cardinality(active) < Concurrency

\* The items pulled so far are the tasks launched so far, in the scope of the stream
\* and before it began to close, but for one that was refused and failed the stream.
Pulls ==
  /\ \A t \in Tasks : status[t] # "unborn" => owner[t] = Stream /\ born[t] = "body"
  /\ \A i \in 1..Len(Items) : status[Items[i]] # "unborn" => i <= pulled
  /\ ending # "failed" => \A i \in 1..pulled : status[Items[i]] # "unborn"

\* How an item ended, what the engine knows of it and what was reported agree.
Endings ==
  \A t \in Tasks :
    /\ value[t] = "none" <=> status[t] \in {"unborn", "running"}
    /\ status[t] = "succeeded" <=> value[t] \in {"value", "skip"}
    /\ status[t] \in Ends =>
         /\ Len(reported[t]) # 0
         /\ reported[t][Len(reported[t])] = "fulfilled" <=> value[t] = "value"

\* A task leaves the active set settled, and unless the stream fails its value was
\* yielded, once, or filtered out.
Takes ==
  /\ \A t \in active : status[t] # "unborn"
  /\ \A t \in Tasks \ active : status[t] # "unborn" =>
       /\ t \in settled
       /\ ending # "failed" => value[t] \in {"value", "skip"}
       /\ ending # "failed" /\ value[t] = "value" => \E i \in 1..Len(yields) : yields[i] = t
  /\ \A i \in 1..Len(yields) : yields[i] \notin active /\ value[yields[i]] = "value"
  /\ \A i, j \in 1..Len(yields) : yields[i] = yields[j] => i = j

\* The generator waits for a task only if there is one, or nothing more to pull.
Dry ==
  /\ pc = "race" => active # {} \/ sourceDone \/ SignalAborted(Stream)
  /\ ending = "done" => active = {} /\ (sourceDone \/ SignalAborted(Stream))

Flowing == Shape /\ Standing /\ Room /\ Pulls /\ Endings /\ Takes /\ Dry
----------------------------------------------------------------------------
\* The list names every task once.
LEMMA ListOfItems ==
  /\ Len(Items) \in Nat /\ IsFiniteSet(Tasks)
  /\ \A i \in 1..Len(Items) : Items[i] \in Tasks
  /\ \A t \in Tasks : \E i \in 1..Len(Items) : Items[i] = t
  /\ \A i, j \in 1..Len(Items) : Items[i] = Items[j] => i = j
<1>1. /\ Items \in Seq(Tasks) /\ Cardinality(Tasks) = Len(Items)
      /\ \A t \in Tasks : \E i \in DOMAIN Items : Items[i] = t
  BY StreamAssumption
<1>2. /\ Len(Items) \in Nat /\ DOMAIN Items = 1..Len(Items)
      /\ Items \in [1..Len(Items) -> Tasks]
  BY <1>1, LenProperties
<1>3. Items \in Surjection(1..Len(Items), Tasks)
  BY <1>1, <1>2 DEF Surjection
<1>4. IsFiniteSet(1..Len(Items)) /\ Cardinality(1..Len(Items)) = Len(Items)
  <2>1. 1 \in Int /\ Len(Items) \in Int BY <1>2
  <2>2. CASE 1 > Len(Items)
    <3>1. Len(Items) = 0 BY <1>2, <2>2
    <3> QED BY <2>1, <2>2, <3>1, FS_Interval
  <2>3. CASE ~(1 > Len(Items))
    <3>1. Len(Items) - 1 + 1 = Len(Items) BY <1>2
    <3> QED BY <2>1, <2>3, <3>1, FS_Interval
  <2> QED BY <2>2, <2>3
<1>5. IsFiniteSet(Tasks) /\ Items \in Injection(1..Len(Items), Tasks)
  BY <1>1, <1>3, <1>4, FS_Surjection
<1>6. \A i, j \in 1..Len(Items) : Items[i] = Items[j] => i = j
  BY <1>5 DEF Injection, IsInjective
<1> QED BY <1>1, <1>2, <1>5, <1>6

\* The stream is opened from the outer scope, and its options are the plain ones.
LEMMA StreamConstants ==
  /\ Stream \in Scopes /\ Outer \in Scopes /\ Stream # Outer
  /\ Scopes = {Outer, Stream} /\ Stream \notin Roots /\ Stream # NoOne
  /\ Misconfigured = {} /\ Background = {} /\ Silent = {} /\ Keys = {}
  /\ Concurrency \in Nat \ {0}
  BY StreamAssumption, ScopeAssumption

\* The size of the active set when a task joins or leaves it.
LEMMA ActiveSize ==
  ASSUME active \in SUBSET Tasks
  PROVE  /\ Cardinality(active) \in Nat
         /\ Cardinality(active) = 0 <=> active = {}
         /\ \A t \in Tasks : Cardinality(active \cup {t}) <= Cardinality(active) + 1
         /\ \A t \in active : Cardinality(active \ {t}) = Cardinality(active) - 1
<1>1. IsFiniteSet(active) BY ListOfItems, FS_Subset
<1>2. Cardinality(active) \in Nat BY <1>1, FS_CardinalityType
<1>3. Cardinality(active) = 0 <=> active = {} BY <1>1, FS_EmptySet
<1>4. ASSUME NEW t \in Tasks PROVE Cardinality(active \cup {t}) <= Cardinality(active) + 1
  <2>1. CASE t \in active
    <3>1. active \cup {t} = active BY <2>1
    <3>2. Cardinality(active \cup {t}) = Cardinality(active) BY <3>1, Zenon
    <3> QED BY <1>2, <3>2
  <2>2. CASE t \notin active
    <3>1. Cardinality(active \cup {t}) = Cardinality(active) + 1
      BY <1>1, <2>2, FS_AddElement
    <3> QED BY <1>2, <3>1
  <2> QED BY <2>1, <2>2
<1>5. \A t \in active : Cardinality(active \ {t}) = Cardinality(active) - 1
  BY <1>1, FS_RemoveElement
<1> QED BY <1>2, <1>3, <1>4, <1>5

\* An aborted signal stays aborted.
LEMMA SignalKept ==
  ASSUME KeepsSignal(Stream), SignalAborted(Stream)
  PROVE  SignalAborted(Stream)'
  BY DEF KeepsSignal, SignalAborted

\* A step that leaves the engine alone.
LEMMA EngineKept ==
  ASSUME UNCHANGED vars
  PROVE  SameTasks /\ SameGroup(Stream) /\ state'[Stream] = state[Stream] /\ KeepsSignal(Stream)
  BY DEF vars, SameTasks, SameGroup, KeepsSignal

\* A step that does not touch the tasks, and takes none of them.
LEMMA TasksKept ==
  ASSUME Flowing, SameTasks, UNCHANGED <<pulled, active, value, reported, yields>>,
         ending = "failed" => ending' = "failed"
  PROVE  Pulls' /\ Endings' /\ Takes'
<1>1. /\ status' = status /\ settled' = settled
      /\ \A t \in Tasks : owner'[t] = owner[t] /\ born'[t] = born[t]
  BY DEF SameTasks
<1>2. Pulls' BY <1>1 DEF Flowing, Pulls
<1>3. Endings' BY <1>1 DEF Flowing, Endings
<1>4. Takes' BY <1>1 DEF Flowing, Takes
<1> QED BY <1>2, <1>3, <1>4

\* A step of the engine that the generator does not see.
LEMMA GeneratorKept ==
  ASSUME Flowing, UNCHANGED streamVars, KeepsSignal(Stream),
         state'[Stream] = "unopened" <=> state[Stream] = "unopened",
         pc \in {"fill", "pull", "race", "yield"} => phase'[Stream] = phase[Stream],
         pc = "over" => phase'[Stream] = phase[Stream]
  PROVE  Shape' /\ Standing' /\ Room' /\ Dry'
<1> USE DEF streamVars
<1>1. Shape' BY DEF Flowing, Shape
<1>2. Standing' BY DEF Flowing, Standing
<1>3. Room' BY DEF Flowing, Room
<1>4. Dry' BY SignalKept DEF Flowing, Dry
<1> QED BY <1>1, <1>2, <1>3, <1>4
----------------------------------------------------------------------------
\* Every step of the stream is a step of the engine, or leaves it alone.
LEMMA CancelStreamEngine ==
  ASSUME CancelScope(Stream, "manual"), phase[Stream] # "over",
         UNCHANGED <<adoption, records, closeVars, taskVars>>
  PROVE  [Next]_vars
<1> USE StreamConstants
<1>1. CASE state[Stream] = "running"
  <2>1. Cancel(Stream, "manual") BY <1>1 DEF Cancel
  <2> QED BY <2>1 DEF Next, ScopeStep
<1>2. CASE state[Stream] # "running" BY <1>2 DEF CancelScope, vars
<1> QED BY <1>1, <1>2

\* Every step of a stream is a step of the engine, or none.
LEMMA StreamEngine == Flowing /\ [StreamNext]_allVars => [Next]_vars
<1> SUFFICES ASSUME Flowing, [StreamNext]_allVars PROVE [Next]_vars OBVIOUS
<1> USE StreamConstants
<1>1. ASSUME NEW s \in Scopes, NEW p \in Scopes \cup {NoOne}, Open(s, p) PROVE Next
  BY <1>1 DEF Next, ScopeStep
<1>2. CASE StreamStarts BY <1>1, <1>2 DEF StreamStarts
<1>3. CASE Fill \/ Resume \/ Exhausted \/ GeneratorEnds
  BY <1>3 DEF Fill, Resume, Exhausted, GeneratorEnds
<1>4. ASSUME Fails, pc \in {"pull", "race"} PROVE [Next]_vars
  <2>1. phase[Stream] = "body" BY <1>4 DEF Flowing, Standing
  <2> QED BY <1>4, <2>1, CancelStreamEngine DEF Fails
<1>5. CASE Pulled
  <2>1. ASSUME pulled < Len(Items), Spawn(Stream, Items[pulled + 1], NoOne) PROVE Next
    <3>1. pulled + 1 \in 1..Len(Items) BY <2>1, ListOfItems DEF Flowing, Shape
    <3>2. Items[pulled + 1] \in Tasks BY <3>1, ListOfItems
    <3>3. Holds(Stream) BY <1>5 DEF Pulled, Flowing, Standing, Holds
    <3> QED BY <2>1, <3>2, <3>3 DEF Next, TaskStep
  <2> QED BY <1>4, <1>5, <2>1 DEF Pulled
<1>6. ASSUME NEW t \in Tasks, Take(t) PROVE [Next]_vars
  BY <1>4, <1>6 DEF Take
<1>7. CASE ConsumerStops
  <2>1. phase[Stream] = "body" BY <1>7 DEF ConsumerStops, Flowing, Standing
  <2> QED BY <1>7, <2>1, CancelStreamEngine DEF ConsumerStops, CancelRest
<1>8. CASE HoldEnds BY <1>8 DEF HoldEnds, Next, ScopeStep
<1>9. CASE Engine BY <1>1, <1>9 DEF Engine, Next, ScopeStep
<1>10. ASSUME NEW t \in Tasks, ItemEnds(t) PROVE Next
  <2>1. PICK res \in Values, handlerThrows \in BOOLEAN, n \in 0..MaxDefers[t] :
          LET final == IF handlerThrows THEN "failed" ELSE res
          IN TaskBodyEnds(t, IF final \in {"value", "skip"} THEN "succeeded" ELSE final, n)
    BY <1>10 DEF ItemEnds
  <2> QED BY <2>1 DEF Next, TaskStep, Values
<1>11. ASSUME NEW t \in Tasks, ItemCleanupEnds(t) PROVE Next
  BY <1>11 DEF ItemCleanupEnds, Next, TaskStep
<1>12. CASE UNCHANGED allVars BY <1>12 DEF allVars
<1> QED
  BY <1>2, <1>3, <1>5, <1>6, <1>7, <1>8, <1>9, <1>10, <1>11, <1>12 DEF StreamNext
----------------------------------------------------------------------------
\* Before the stream starts nothing is pulled.
LEMMA StreamInitFlows == StreamInit => Inductive /\ Flowing
<1> SUFFICES ASSUME StreamInit PROVE Inductive /\ Flowing OBVIOUS
<1> USE StreamConstants, ListOfItems DEF StreamInit
<1>1. Inductive BY InitInductive
<1>2. /\ state[Stream] = "unopened"
      /\ \A t \in Tasks : status[t] = "unborn"
  BY DEF Init
<1>3. yields = <<>> /\ yields \in Seq(Tasks) /\ Len(yields) = 0 /\ <<>> \in Seq(Reports) OBVIOUS
<1>4. Shape
  <2>1. reported \in [Tasks -> Seq(Reports)] BY <1>3
  <2>2. 0 \in 0..Len(Items) OBVIOUS
  <2> QED BY <1>3, <2>1, <2>2 DEF Shape
<1>5. Standing BY <1>2 DEF Standing
<1>6. Room
  <2>1. Cardinality(active) = 0 BY FS_EmptySet
  <2> QED BY <2>1 DEF Room
<1>7. Pulls BY <1>2 DEF Pulls
<1>8. Endings BY <1>2 DEF Endings
<1>9. Takes
  <2>1. \A i \in 1..Len(yields) : FALSE BY <1>3
  <2> QED BY <1>2, <2>1 DEF Takes
<1>10. Dry BY DEF Dry
<1> QED BY <1>1, <1>4, <1>5, <1>6, <1>7, <1>8, <1>9, <1>10 DEF Flowing
----------------------------------------------------------------------------
\* Where the generator stands when its scope has begun.
LEMMA Begun ==
  ASSUME Inductive, Flowing, pc # "start"
  PROVE  state[Stream] # "unopened"
  BY DEF Flowing, Standing

\* The generator opens its scope.
LEMMA StreamStartsStep ==
  ASSUME Inductive, Flowing, StreamStarts
  PROVE  Flowing'
<1> USE StreamConstants
<1>1. /\ pc = "start" /\ pc' = "fill" /\ Open(Stream, Outer)
      /\ UNCHANGED <<filling, pulled, sourceDone, active, value, reported, yields, ending>>
  BY DEF StreamStarts
<1>2. SameTasks /\ state'[Stream] = "running" /\ phase'[Stream] = "body"
  BY <1>1, OpenEffect
<1>3. Shape' BY <1>1 DEF Flowing, Shape
<1>4. Standing' BY <1>1, <1>2 DEF Flowing, Standing
<1>5. Room' BY <1>1 DEF Flowing, Room
<1>6. Dry' BY <1>1 DEF Flowing, Standing, Dry
<1>7. Pulls' /\ Endings' /\ Takes' BY <1>1, <1>2, TasksKept
<1> QED BY <1>3, <1>4, <1>5, <1>6, <1>7 DEF Flowing

\* What the generator does by itself.
LEMMA FillStep ==
  ASSUME Inductive, Flowing, Fill
  PROVE  Flowing'
<1> USE StreamConstants
<1>1. /\ pc = "fill"
      /\ UNCHANGED <<vars, pulled, sourceDone, active, value, reported, yields, ending>>
      /\ \/ /\ Cardinality(active) < Concurrency
            /\ pc' = "pull" /\ filling' = filling
         \/ /\ Cardinality(active) >= Concurrency \/ sourceDone
            /\ pc' = "race" /\ filling' = FALSE
  <2>1. Cardinality(active) \in Nat BY ActiveSize DEF Flowing, Shape
  <2> QED BY <2>1 DEF Fill, FillRoom
<1>2. /\ SameTasks /\ SameGroup(Stream) /\ state'[Stream] = state[Stream]
      /\ KeepsSignal(Stream)
  BY <1>1, EngineKept
<1>3. Shape' BY <1>1 DEF Flowing, Shape
<1>4. Standing' BY <1>1, <1>2 DEF Flowing, Standing, SameGroup
<1>5. Room' BY <1>1 DEF Flowing, Room
<1>6. Dry'
  <2>1. Cardinality(active) >= Concurrency => active # {}
    BY ActiveSize DEF Flowing, Shape
  <2>2. ending = "none" BY <1>1 DEF Flowing, Standing
  <2>3. pc' = "race" => active # {} \/ sourceDone BY <1>1, <2>1
  <2> QED BY <1>1, <2>2, <2>3 DEF Dry
<1>7. Pulls' /\ Endings' /\ Takes' BY <1>1, <1>2, TasksKept
<1> QED BY <1>3, <1>4, <1>5, <1>6, <1>7 DEF Flowing

\* The consumer asks for the next value.
LEMMA ResumeStep ==
  ASSUME Inductive, Flowing, Resume
  PROVE  Flowing'
<1>1. /\ pc = "yield" /\ Ask
      /\ UNCHANGED <<vars, filling, pulled, sourceDone, active, value, reported, yields,
                     ending>>
  BY DEF Resume
<1>2. /\ SameTasks /\ SameGroup(Stream) /\ state'[Stream] = state[Stream]
      /\ KeepsSignal(Stream)
  BY <1>1, EngineKept
<1>3. /\ pc' \in {"race", "pull"}
      /\ pc' = "race" => sourceDone \/ SignalAborted(Stream)
  BY <1>1 DEF Ask, Idle
<1>4. Shape' BY <1>1, <1>3 DEF Flowing, Shape
<1>5. Standing' BY <1>1, <1>2, <1>3 DEF Flowing, Standing, SameGroup
<1>6. Room' BY <1>1, <1>3 DEF Flowing, Room
<1>7. Dry'
  <2>1. ending = "none" BY <1>1 DEF Flowing, Standing
  <2> QED BY <1>1, <1>2, <1>3, <2>1, SignalKept DEF Dry
<1>8. Pulls' /\ Endings' /\ Takes' BY <1>1, <1>2, TasksKept
<1> QED BY <1>4, <1>5, <1>6, <1>7, <1>8 DEF Flowing

\* Source and items are at an end, and the scope begins to close.
LEMMA ExhaustedStep ==
  ASSUME Inductive, Flowing, Exhausted
  PROVE  Flowing'
<1>1. /\ pc = "race" /\ active = {} /\ pc' = "closing" /\ ending' = "done"
      /\ UNCHANGED <<vars, filling, pulled, sourceDone, active, value, reported, yields>>
  BY DEF Exhausted
<1>2. /\ SameTasks /\ SameGroup(Stream) /\ state'[Stream] = state[Stream]
      /\ KeepsSignal(Stream)
  BY <1>1, EngineKept
<1>3. Shape' BY <1>1 DEF Flowing, Shape
<1>4. Standing' BY <1>1, <1>2 DEF Flowing, Standing
<1>5. Room' BY <1>1 DEF Flowing, Room
<1>6. Dry' BY <1>1, <1>2, SignalKept DEF Flowing, Dry
<1>7. ending = "none" BY <1>1 DEF Flowing, Standing
<1>8. Pulls' /\ Endings' /\ Takes' BY <1>1, <1>2, <1>7, TasksKept
<1> QED BY <1>3, <1>4, <1>5, <1>6, <1>8 DEF Flowing

\* The generator ends with its scope.
LEMMA GeneratorEndsStep ==
  ASSUME Inductive, Flowing, GeneratorEnds
  PROVE  Flowing'
<1>1. /\ pc = "closing" /\ phase[Stream] = "over" /\ pc' = "over"
      /\ UNCHANGED <<vars, filling, pulled, sourceDone, active, value, reported, yields,
                     ending>>
  BY DEF GeneratorEnds, ScopeJoined
<1>2. /\ SameTasks /\ SameGroup(Stream) /\ state'[Stream] = state[Stream]
      /\ KeepsSignal(Stream)
  BY <1>1, EngineKept
<1>3. Shape' BY <1>1 DEF Flowing, Shape
<1>4. Standing' BY <1>1, <1>2 DEF Flowing, Standing, SameGroup
<1>5. Room' BY <1>1 DEF Flowing, Room
<1>6. Dry' BY <1>1, <1>2, SignalKept DEF Flowing, Dry
<1>7. Pulls' /\ Endings' /\ Takes' BY <1>1, <1>2, TasksKept
<1> QED BY <1>3, <1>4, <1>5, <1>6, <1>7 DEF Flowing
----------------------------------------------------------------------------
\* The generator cancels its scope and is to end.
LEMMA CancelsAndCloses ==
  ASSUME Inductive, Flowing, pc \in {"pull", "race", "yield"}, pc' = "closing",
         ending' \in {"failed", "stopped"}, active' \in SUBSET active,
         CancelScope(Stream, "manual"), UNCHANGED <<adoption, records, closeVars, taskVars>>
  PROVE  SameTasks /\ Standing' /\ Room' /\ Dry' /\ ending = "none"
<1> USE StreamConstants
<1>1. SameTasks /\ SameGroup(Stream) /\ MayCancel(Stream) BY CancelEffect
<1>2. Standing'
  <2>1. state'[Stream] # "unopened" BY <1>1, Begun DEF MayCancel
  <2> QED BY <2>1 DEF Flowing, Standing
<1>3. Room'
  <2>1. Cardinality(active') <= Cardinality(active) /\ Cardinality(active') \in Nat
    <3>1. IsFiniteSet(active) BY ListOfItems, FS_Subset DEF Flowing, Shape
    <3>2. IsFiniteSet(active') BY <3>1, FS_Subset
    <3> QED BY <3>1, <3>2, FS_Subset, FS_CardinalityType
  <2>2. Cardinality(active) <= Concurrency BY DEF Flowing, Room
  <2>3. Cardinality(active) \in Nat BY ActiveSize DEF Flowing, Shape
  <2>4. Cardinality(active') <= Concurrency BY <2>1, <2>2, <2>3
  <2> QED BY <2>4 DEF Room
<1>4. Dry' BY DEF Dry
<1>5. ending = "none" BY DEF Flowing, Standing
<1> QED BY <1>1, <1>2, <1>3, <1>4, <1>5

\* return() of the consumer cancels what runs and closes the scope.
LEMMA ConsumerStopsStep ==
  ASSUME Inductive, Flowing, ConsumerStops
  PROVE  Flowing'
<1>1. /\ pc = "yield" /\ pc' = "closing" /\ ending' = "stopped"
      /\ CancelScope(Stream, "manual") /\ UNCHANGED <<adoption, records, closeVars, taskVars>>
      /\ UNCHANGED <<filling, pulled, sourceDone, active, value, reported, yields>>
  BY DEF ConsumerStops, CancelRest
<1>2. SameTasks /\ Standing' /\ Room' /\ Dry' /\ ending = "none"
  BY <1>1, CancelsAndCloses
<1>3. Shape' BY <1>1 DEF Flowing, Shape
<1>4. Pulls' /\ Endings' /\ Takes' BY <1>1, <1>2, TasksKept
<1> QED BY <1>2, <1>3, <1>4 DEF Flowing

\* The engine at work, unseen by the generator.
LEMMA HoldEndsStep ==
  ASSUME Inductive, Flowing, HoldEnds
  PROVE  Flowing'
<1> USE StreamConstants
<1>1. PICK res \in {"succeeded", "failed", "cancelled"}, n \in 0..MaxDefers[Stream] :
        GroupBodyEnds(Stream, res, n)
  BY DEF HoldEnds
<1>2. pc = "closing" /\ UNCHANGED streamVars BY DEF HoldEnds
<1>3. SameTasks /\ MayCancel(Stream) /\ KeepsSignal(Stream) BY <1>1, GroupBodyEndsEffect
<1>4. Shape' /\ Standing' /\ Room' /\ Dry'
  BY <1>2, <1>3, GeneratorKept DEF MayCancel
<1>5. Pulls' /\ Endings' /\ Takes' BY <1>2, <1>3, TasksKept DEF streamVars
<1> QED BY <1>4, <1>5 DEF Flowing

\* A step that only the engine takes: a cancellation, a round of close().
LEMMA EngineStep ==
  ASSUME Inductive, Flowing, Engine
  PROVE  Flowing'
<1> USE StreamConstants
<1>1. UNCHANGED streamVars BY DEF Engine
<1>2. ASSUME Open(Outer, NoOne)
      PROVE  /\ SameTasks /\ SameGroup(Stream) /\ KeepsSignal(Stream)
             /\ state'[Stream] = state[Stream]
  BY <1>2, OpenEffect
<1>3. ASSUME NEW s \in Scopes, Cancel(s, "manual")
      PROVE  SameTasks /\ SameGroup(Stream) /\ KeepsSignal(Stream) /\ MayCancel(Stream)
  BY <1>3, CancelEffect DEF Cancel
<1>4. ASSUME CloseStep(Stream)
      PROVE  /\ SameTasks /\ KeepsSignal(Stream) /\ phase[Stream] \in {"drain", "defers"}
             /\ state'[Stream] = "unopened" <=> state[Stream] = "unopened"
  <2>1. /\ SameTasks /\ KeepsSignal(Stream) /\ phase[Stream] \in {"drain", "defers"}
        /\ state'[Stream] = state[Stream] \/ state'[Stream] = "closed"
    BY <1>4, CloseStepEffect
  <2>2. state[Stream] # "unopened" BY <2>1 DEF Inductive, Traceless
  <2> QED BY <2>1, <2>2
<1>5. /\ SameTasks /\ KeepsSignal(Stream)
      /\ state'[Stream] = "unopened" <=> state[Stream] = "unopened"
      /\ phase'[Stream] = phase[Stream] \/ phase[Stream] \in {"drain", "defers"}
  BY <1>2, <1>3, <1>4 DEF Engine, SameGroup, MayCancel
<1>6. Shape' /\ Standing' /\ Room' /\ Dry'
  <2>1. /\ pc \in {"fill", "pull", "race", "yield"} => phase'[Stream] = phase[Stream]
        /\ pc = "over" => phase'[Stream] = phase[Stream]
    BY <1>5 DEF Flowing, Standing
  <2> QED BY <1>1, <1>5, <2>1, GeneratorKept
<1>7. Pulls' /\ Endings' /\ Takes' BY <1>1, <1>5, TasksKept DEF streamVars
<1> QED BY <1>6, <1>7 DEF Flowing
----------------------------------------------------------------------------
\* The source yields an item, whose task is spawned.
LEMMA LaunchStep ==
  ASSUME Inductive, Flowing, pc = "pull", pulled < Len(Items), pulled' = pulled + 1,
         NEW t, t = Items[pulled + 1], Spawn(Stream, t, NoOne), active' = active \cup {t},
         pc' = IF filling THEN "fill" ELSE "race",
         UNCHANGED <<filling, sourceDone, value, reported, yields, ending>>
  PROVE  Flowing'
<1> USE StreamConstants
<1>1. pulled \in Nat /\ pulled + 1 \in 1..Len(Items) BY ListOfItems DEF Flowing, Shape
<1>2. t \in Tasks BY <1>1, ListOfItems
<1>3. /\ status[t] = "unborn" /\ state[Stream] = "running"
      /\ \A u \in Tasks : status'[u] = IF u = t THEN "running" ELSE status[u]
      /\ \A u \in Tasks : owner'[u] = IF u = t THEN Stream ELSE owner[u]
      /\ \A u \in Tasks : born'[u] = IF u = t THEN phase[Stream] ELSE born[u]
      /\ settled' = settled /\ KeepsSignal(Stream)
      /\ SameGroup(Stream) /\ state'[Stream] = state[Stream]
  BY <1>2, SpawnEffect
<1>4. phase[Stream] = "body" /\ ending = "none" BY DEF Flowing, Standing
<1>5. Shape'
  <2>1. pulled' \in 0..Len(Items) BY <1>1, ListOfItems
  <2> QED BY <1>2, <2>1 DEF Flowing, Shape
<1>6. Standing' BY <1>3, <1>4 DEF Flowing, Standing, SameGroup
<1>7. Room'
  <2>1. /\ Cardinality(active \cup {t}) <= Cardinality(active) + 1
        /\ Cardinality(active) \in Nat /\ Cardinality(active) < Concurrency
    BY <1>2, ActiveSize DEF Flowing, Shape, Room
  <2>2. Cardinality(active \cup {t}) \in Nat
    <3>1. IsFiniteSet(active \cup {t}) BY <1>2, ListOfItems, FS_Subset DEF Flowing, Shape
    <3> QED BY <3>1, FS_CardinalityType
  <2>3. Cardinality(active') <= Concurrency BY <2>1, <2>2
  <2> QED BY <2>3 DEF Room
<1>8. Dry' BY <1>4 DEF Dry
<1>9. Pulls'
  <2>1. \A u \in Tasks : status'[u] # "unborn" => owner'[u] = Stream /\ born'[u] = "body"
    BY <1>2, <1>3, <1>4 DEF Flowing, Pulls
  <2>2. ASSUME NEW i \in 1..Len(Items), status'[Items[i]] # "unborn" PROVE i <= pulled + 1
    <3>1. Items[i] \in Tasks BY ListOfItems
    <3>2. CASE Items[i] = t
      <4>1. i = pulled + 1 BY <1>1, <3>2, ListOfItems
      <4> QED BY <1>1, <4>1
    <3>3. CASE Items[i] # t
      <4>1. i <= pulled BY <1>3, <2>2, <3>1, <3>3 DEF Flowing, Pulls
      <4> QED BY <1>1, <4>1
    <3> QED BY <3>2, <3>3
  <2>3. ASSUME NEW i \in 1..pulled + 1 PROVE status'[Items[i]] # "unborn"
    <3>1. i \in 1..Len(Items) BY <1>1, ListOfItems
    <3>2. Items[i] \in Tasks BY <3>1, ListOfItems
    <3>3. CASE i = pulled + 1 BY <1>2, <1>3, <3>3
    <3>4. CASE i # pulled + 1
      <4>1. i \in 1..pulled BY <1>1, <3>4
      <4>2. status[Items[i]] # "unborn" BY <1>4, <4>1 DEF Flowing, Pulls
      <4> QED BY <1>3, <3>2, <4>2
    <3> QED BY <3>3, <3>4
  <2> QED BY <2>1, <2>2, <2>3 DEF Pulls
<1>10. Endings' BY <1>2, <1>3 DEF Flowing, Endings
<1>11. Takes'
  <2>1. \A i \in 1..Len(yields) : yields[i] # t /\ yields[i] \in Tasks
    <3>1. \A i \in 1..Len(yields) : yields[i] \in Tasks /\ value[yields[i]] = "value"
      BY ElementOfSeq DEF Flowing, Shape, Takes
    <3>2. value[t] = "none" BY <1>2, <1>3 DEF Flowing, Endings
    <3> QED BY <3>1, <3>2
  <2>2. ASSUME NEW u \in active' PROVE status'[u] # "unborn"
    <3>1. u \in Tasks /\ (u = t \/ u \in active) BY <1>2 DEF Flowing, Shape
    <3>2. u \in active => status[u] # "unborn" BY DEF Flowing, Takes
    <3>3. status'[u] = IF u = t THEN "running" ELSE status[u] BY <1>3, <3>1
    <3> QED BY <3>1, <3>2, <3>3
  <2>3. ASSUME NEW u \in Tasks \ active', status'[u] # "unborn"
        PROVE  /\ u \in settled'
               /\ ending' # "failed" => value'[u] \in {"value", "skip"}
               /\ ending' # "failed" /\ value'[u] = "value" =>
                    \E i \in 1..Len(yields') : yields'[i] = u
    <3>1. u # t /\ u \in Tasks \ active BY <2>3
    <3>2. status[u] # "unborn" BY <1>3, <2>3, <3>1
    <3> QED BY <1>3, <3>1, <3>2 DEF Flowing, Takes
  <2>4. \A i \in 1..Len(yields') : yields'[i] \notin active' /\ value'[yields'[i]] = "value"
    BY <2>1 DEF Flowing, Takes
  <2>5. \A i, j \in 1..Len(yields') : yields'[i] = yields'[j] => i = j
    BY DEF Flowing, Takes
  <2> QED BY <2>2, <2>3, <2>4, <2>5 DEF Takes
<1> QED BY <1>5, <1>6, <1>7, <1>8, <1>9, <1>10, <1>11 DEF Flowing

\* The source fails, or yields an item to a scope that spawns nothing any more.
LEMMA PullFailsStep ==
  ASSUME Inductive, Flowing, pc = "pull", Fails, pulled' \in pulled..Len(Items),
         UNCHANGED <<filling, sourceDone, active, value, reported, yields>>
  PROVE  Flowing'
<1>1. /\ pc' = "closing" /\ ending' = "failed" /\ CancelScope(Stream, "manual")
      /\ UNCHANGED <<adoption, records, closeVars, taskVars>>
  BY DEF Fails
<1>2. SameTasks /\ Standing' /\ Room' /\ Dry' /\ ending = "none"
  BY <1>1, CancelsAndCloses
<1>3. pulled \in 0..Len(Items) /\ Len(Items) \in Nat BY ListOfItems DEF Flowing, Shape
<1>4. Shape'
  <2>1. pulled' \in 0..Len(Items) BY <1>3
  <2> QED BY <1>1, <2>1 DEF Flowing, Shape
<1>5. /\ status' = status /\ settled' = settled
      /\ \A t \in Tasks : owner'[t] = owner[t] /\ born'[t] = born[t]
  BY <1>2 DEF SameTasks
<1>6. Pulls'
  <2>1. \A i \in 1..Len(Items) : status[Items[i]] # "unborn" => i <= pulled'
    <3>1. \A i \in 1..Len(Items) : status[Items[i]] # "unborn" => i <= pulled
      BY DEF Flowing, Pulls
    <3> QED BY <1>3, <3>1
  <2> QED BY <1>1, <1>5, <2>1 DEF Flowing, Pulls
<1>7. Endings' BY <1>5 DEF Flowing, Endings
<1>8. Takes' BY <1>1, <1>2, <1>5 DEF Flowing, Takes
<1> QED BY <1>2, <1>4, <1>6, <1>7, <1>8 DEF Flowing

\* The source has no further item.
LEMMA SourceEndsStep ==
  ASSUME Inductive, Flowing, pc = "pull", sourceDone' = TRUE,
         pc' = IF filling THEN "fill" ELSE "race",
         UNCHANGED <<vars, filling, pulled, active, value, reported, yields, ending>>
  PROVE  Flowing'
<1>1. /\ SameTasks /\ SameGroup(Stream) /\ state'[Stream] = state[Stream]
      /\ KeepsSignal(Stream)
  BY EngineKept
<1>2. Shape' BY DEF Flowing, Shape
<1>3. Standing' BY <1>1 DEF Flowing, Standing, SameGroup
<1>4. Room' BY DEF Flowing, Room
<1>5. Dry' BY DEF Flowing, Standing, Dry
<1>6. Pulls' /\ Endings' /\ Takes' BY <1>1, TasksKept
<1> QED BY <1>2, <1>3, <1>4, <1>5, <1>6 DEF Flowing

\* The source answers: with an item that is spawned, with its end, or with an error.
LEMMA PulledStep ==
  ASSUME Inductive, Flowing, Pulled
  PROVE  Flowing'
<1>1. pc = "pull" /\ UNCHANGED <<filling, value, reported, yields>> BY DEF Pulled
<1>2. pulled \in 0..Len(Items) /\ Len(Items) \in Nat BY ListOfItems DEF Flowing, Shape
<1> PICK t : t = Items[pulled + 1] OBVIOUS
<1>3. ASSUME pulled < Len(Items), pulled' = pulled + 1, UNCHANGED <<sourceDone, active>>, Fails
      PROVE  Flowing'
  <2>1. pulled' \in pulled..Len(Items) BY <1>2, <1>3
  <2> QED BY <1>1, <1>3, <2>1, PullFailsStep
<1>4. ASSUME Fails, UNCHANGED <<pulled, sourceDone, active>> PROVE Flowing'
  <2>1. pulled' \in pulled..Len(Items) BY <1>2, <1>4
  <2> QED BY <1>1, <1>4, <2>1, PullFailsStep
<1>5. ASSUME pulled < Len(Items), pulled' = pulled + 1, UNCHANGED <<sourceDone, ending>>,
             Spawn(Stream, t, NoOne), active' = active \cup {t},
             pc' = IF filling THEN "fill" ELSE "race"
      PROVE  Flowing'
  BY <1>1, <1>5, LaunchStep
<1>6. ASSUME sourceDone' = TRUE, pc' = (IF filling THEN "fill" ELSE "race"),
             UNCHANGED <<vars, pulled, active, ending>>
      PROVE  Flowing'
  BY <1>1, <1>6, SourceEndsStep
<1> QED BY <1>3, <1>4, <1>5, <1>6 DEF Pulled
----------------------------------------------------------------------------
\* A task leaves the active set: what is kept of it.
LEMMA Taken ==
  ASSUME Inductive, Flowing, SameTasks, NEW t \in active \cap settled, active' = active \ {t},
         UNCHANGED <<pulled, value, reported>>,
         \/ ending' = "failed" /\ yields' = yields
         \/ value[t] = "skip" /\ yields' = yields /\ ending' = ending
         \/ value[t] = "value" /\ yields' = Append(yields, t) /\ ending' = ending
  PROVE  Pulls' /\ Endings' /\ Takes' /\ yields' \in Seq(Tasks)
<1>1. /\ status' = status /\ settled' = settled
      /\ \A u \in Tasks : owner'[u] = owner[u] /\ born'[u] = born[u]
  BY DEF SameTasks
<1>2. t \in Tasks /\ yields \in Seq(Tasks) /\ Len(yields) \in Nat
  BY LenProperties DEF Flowing, Shape
<1>3. Pulls' BY <1>1 DEF Flowing, Pulls
<1>4. Endings' BY <1>1 DEF Flowing, Endings
<1>5. CASE yields' = yields
  <2>1. Takes' BY <1>1, <1>5 DEF Flowing, Takes
  <2> QED BY <1>2, <1>3, <1>4, <1>5, <2>1
<1>6. CASE value[t] = "value" /\ yields' = Append(yields, t) /\ ending' = ending
  <2>1. /\ yields' \in Seq(Tasks) /\ Len(yields') = Len(yields) + 1
        /\ \A i \in 1..Len(yields) : yields'[i] = yields[i]
        /\ yields'[Len(yields) + 1] = t
    BY <1>2, <1>6, AppendProperties
  <2>2. \A i \in 1..Len(yields') : i \in 1..Len(yields) \/ i = Len(yields) + 1
    BY <1>2, <2>1
  <2>3. \A i \in 1..Len(yields) : i \in 1..Len(yields') BY <1>2, <2>1
  <2>4. Len(yields) + 1 \in 1..Len(yields') BY <1>2, <2>1
  <2>5. \A i \in 1..Len(yields) : yields[i] \notin active /\ value[yields[i]] = "value"
    BY DEF Flowing, Takes
  <2>6. \A u \in Tasks \ active' : u = t \/ u \in Tasks \ active OBVIOUS
  <2>7. \A u \in active' : status'[u] # "unborn" BY <1>1 DEF Flowing, Takes
  <2>8. ASSUME NEW u \in Tasks \ active', status'[u] # "unborn"
        PROVE  /\ u \in settled'
               /\ ending' # "failed" => value'[u] \in {"value", "skip"}
               /\ ending' # "failed" /\ value'[u] = "value" =>
                    \E i \in 1..Len(yields') : yields'[i] = u
    <3>1. CASE u = t BY <1>1, <1>6, <2>1, <2>4, <3>1
    <3>2. CASE u \in Tasks \ active
      <4>1. /\ u \in settled
            /\ ending # "failed" => value[u] \in {"value", "skip"}
            /\ ending # "failed" /\ value[u] = "value" =>
                 \E i \in 1..Len(yields) : yields[i] = u
        BY <1>1, <2>8, <3>2 DEF Flowing, Takes
      <4> QED BY <1>1, <1>6, <2>1, <2>3, <4>1
    <3> QED BY <2>6, <3>1, <3>2
  <2>9. \A i \in 1..Len(yields') : yields'[i] \notin active' /\ value'[yields'[i]] = "value"
    BY <1>6, <2>1, <2>2, <2>5
  <2>10. \A i \in 1..Len(yields) : yields[i] # t BY <2>5
  <2>11. \A i, j \in 1..Len(yields') : yields'[i] = yields'[j] => i = j
    <3>1. \A i, j \in 1..Len(yields) : yields[i] = yields[j] => i = j
      BY DEF Flowing, Takes
    <3> QED BY <2>1, <2>2, <2>10, <3>1
  <2> QED BY <1>3, <1>4, <2>1, <2>7, <2>8, <2>9, <2>11 DEF Takes
<1> QED BY <1>5, <1>6

\* The race hands an item over that has settled.
LEMMA TakeStep ==
  ASSUME Inductive, Flowing, NEW t \in Tasks, Take(t)
  PROVE  Flowing'
<1> USE StreamConstants
<1>1. /\ pc = "race" /\ t \in active \cap settled /\ active' = active \ {t}
      /\ UNCHANGED <<filling, pulled, sourceDone, value, reported>>
  BY DEF Take
<1>2. Cardinality(active') < Concurrency /\ Cardinality(active') <= Concurrency
  <2>1. /\ Cardinality(active \ {t}) = Cardinality(active) - 1
        /\ Cardinality(active) \in Nat /\ Cardinality(active) <= Concurrency
    BY <1>1, ActiveSize DEF Flowing, Shape, Room
  <2> QED BY <1>1, <2>1
<1>3. Room' BY <1>2 DEF Room
<1>4. CASE Fails /\ UNCHANGED yields
  <2>1. /\ pc' = "closing" /\ ending' = "failed" /\ CancelScope(Stream, "manual")
        /\ UNCHANGED <<adoption, records, closeVars, taskVars>>
    BY <1>4 DEF Fails
  <2>2. SameTasks /\ Standing' /\ Dry' BY <1>1, <2>1, CancelsAndCloses
  <2>3. Pulls' /\ Endings' /\ Takes' BY <1>1, <1>4, <2>1, <2>2, Taken
  <2>4. Shape' BY <1>1, <1>4, <2>1 DEF Flowing, Shape
  <2> QED BY <1>3, <2>2, <2>3, <2>4 DEF Flowing
<1>5. CASE value[t] = "skip" /\ Ask /\ UNCHANGED <<vars, yields, ending>>
  <2>1. /\ SameTasks /\ SameGroup(Stream) /\ state'[Stream] = state[Stream]
        /\ KeepsSignal(Stream)
    BY <1>5, EngineKept
  <2>2. /\ pc' \in {"race", "pull"}
        /\ pc' = "race" => sourceDone \/ SignalAborted(Stream)
    BY <1>5 DEF Ask, Idle
  <2>3. Pulls' /\ Endings' /\ Takes' BY <1>1, <1>5, <2>1, Taken
  <2>4. Shape' BY <1>1, <1>5, <2>2 DEF Flowing, Shape
  <2>5. Standing' BY <1>1, <1>5, <2>1, <2>2 DEF Flowing, Standing, SameGroup
  <2>6. Dry'
    <3>1. ending = "none" BY <1>1 DEF Flowing, Standing
    <3> QED BY <1>1, <1>5, <2>1, <2>2, <3>1, SignalKept DEF Dry
  <2> QED BY <1>3, <2>3, <2>4, <2>5, <2>6 DEF Flowing
<1>6. CASE /\ value[t] = "value" /\ pc' = "yield" /\ yields' = Append(yields, t)
           /\ UNCHANGED <<vars, ending>>
  <2>1. /\ SameTasks /\ SameGroup(Stream) /\ state'[Stream] = state[Stream]
        /\ KeepsSignal(Stream)
    BY <1>6, EngineKept
  <2>2. Pulls' /\ Endings' /\ Takes' /\ yields' \in Seq(Tasks)
    BY <1>1, <1>6, <2>1, Taken
  <2>3. Shape' BY <1>1, <1>6, <2>2 DEF Flowing, Shape
  <2>4. Standing' BY <1>1, <1>6, <2>1 DEF Flowing, Standing, SameGroup
  <2>5. Dry' BY <1>1, <1>6 DEF Flowing, Standing, Dry
  <2> QED BY <1>3, <2>2, <2>3, <2>4, <2>5 DEF Flowing
<1> QED BY <1>4, <1>5, <1>6 DEF Take
----------------------------------------------------------------------------
\* An item ends, and is still active.
LEMMA ItemEndsStep ==
  ASSUME Inductive, Flowing, NEW t \in Tasks, ItemEnds(t)
  PROVE  Flowing'
<1> USE StreamConstants
<1>1. PICK res \in Values, handlerThrows \in BOOLEAN, n \in 0..MaxDefers[t] :
        LET success == res \in {"value", "skip"}
            final   == IF handlerThrows THEN "failed" ELSE res
        IN  /\ value' = [value EXCEPT ![t] = final]
            /\ reported' = [reported EXCEPT ![t] =
                 IF success /\ handlerThrows THEN <<ReportOf(res), "rejected">>
                 ELSE <<ReportOf(res)>>]
            /\ TaskBodyEnds(t, IF final \in {"value", "skip"} THEN "succeeded" ELSE final, n)
  BY DEF ItemEnds
<1> DEFINE final == IF handlerThrows THEN "failed" ELSE res
           end   == IF final \in {"value", "skip"} THEN "succeeded" ELSE final
           told  == IF res \in {"value", "skip"} /\ handlerThrows
                      THEN <<ReportOf(res), "rejected">> ELSE <<ReportOf(res)>>
<1>2. /\ value' = [value EXCEPT ![t] = final] /\ reported' = [reported EXCEPT ![t] = told]
      /\ TaskBodyEnds(t, end, n)
  BY <1>1
<1>3. UNCHANGED <<pc, filling, pulled, sourceDone, active, yields, ending>> BY DEF ItemEnds
<1>4. /\ final \in Values /\ end \in Ends
      /\ end = "succeeded" <=> final \in {"value", "skip"}
  BY DEF Values
<1>5. /\ told \in Seq(Reports) /\ Len(told) # 0
      /\ told[Len(told)] = "fulfilled" <=> final = "value"
  <2>1. /\ ReportOf(res) \in Reports
        /\ ReportOf(res) = "fulfilled" <=> res = "value"
    BY DEF ReportOf, Reports, Values
  <2>2. CASE res \in {"value", "skip"} /\ handlerThrows
    <3>1. PICK r \in Reports : told = <<r, "rejected">> BY <2>1, <2>2
    <3>2. /\ told \in Seq(Reports) /\ Len(told) = 2 /\ told[2] = "rejected"
          /\ Len(told) # 0
      <4> HIDE DEF told
      <4> QED BY <3>1 DEF Reports
    <3>3. final = "failed" BY <2>2
    <3> QED BY <3>2, <3>3
  <2>3. CASE ~(res \in {"value", "skip"} /\ handlerThrows)
    <3>1. told = <<ReportOf(res)>> BY <2>3
    <3>2. told \in Seq(Reports) /\ Len(told) = 1 /\ told[1] = ReportOf(res)
      BY <2>1, <3>1
    <3>3. final = "value" <=> res = "value" BY <2>3
    <3> QED BY <2>1, <3>2, <3>3
  <2> QED BY <2>2, <2>3
<1> HIDE DEF final, end, told
<1>6. status[t] = "running" /\ owner[t] = Stream
  BY <1>2 DEF TaskBodyEnds, Flowing, Pulls
<1>7. /\ t \notin settled
      /\ \A u \in Tasks : status'[u] = IF u = t THEN end ELSE status[u]
      /\ \A u \in Tasks : owner'[u] = owner[u] /\ born'[u] = born[u]
      /\ settled \subseteq settled'
      /\ SameGroup(Stream) /\ MayCancel(Stream) /\ KeepsSignal(Stream)
  BY <1>2, <1>4, <1>6, TaskBodyEndsEffect DEF Notes
<1>8. /\ \A u \in Tasks : value'[u] = IF u = t THEN final ELSE value[u]
      /\ \A u \in Tasks : reported'[u] = IF u = t THEN told ELSE reported[u]
      /\ value' \in [Tasks -> {"none"} \cup Values] /\ reported' \in [Tasks -> Seq(Reports)]
  BY <1>2, <1>4, <1>5 DEF Flowing, Shape
<1>9. \A u \in Tasks : status'[u] = "unborn" <=> status[u] = "unborn"
  BY <1>4, <1>6, <1>7
<1>10. t \in active BY <1>6, <1>7 DEF Flowing, Takes
<1>11. Shape' BY <1>3, <1>8 DEF Flowing, Shape
<1>12. Standing' BY <1>3, <1>7 DEF Flowing, Standing, SameGroup, MayCancel
<1>13. Room' BY <1>3 DEF Flowing, Room
<1>14. Dry' BY <1>3, <1>7, SignalKept DEF Flowing, Dry
<1>15. Pulls'
  <2>1. /\ \A i \in 1..Len(Items) : Items[i] \in Tasks
        /\ \A i \in 1..pulled : i \in 1..Len(Items)
    BY ListOfItems DEF Flowing, Shape
  <2> QED BY <1>3, <1>7, <1>9, <2>1 DEF Flowing, Pulls
<1>16. Endings'
  <2>1. final # "none" /\ end \notin {"unborn", "running"} BY <1>4 DEF Values
  <2> QED BY <1>4, <1>5, <1>7, <1>8, <2>1 DEF Flowing, Endings
<1>17. Takes'
  <2>1. \A i \in 1..Len(yields) : yields[i] # t /\ yields[i] \in Tasks
    BY <1>10, ElementOfSeq DEF Flowing, Shape, Takes
  <2>2. \A u \in active' : status'[u] # "unborn"
    BY <1>3, <1>9 DEF Flowing, Shape, Takes
  <2>3. ASSUME NEW u \in Tasks \ active', status'[u] # "unborn"
        PROVE  /\ u \in settled'
               /\ ending' # "failed" => value'[u] \in {"value", "skip"}
               /\ ending' # "failed" /\ value'[u] = "value" =>
                    \E i \in 1..Len(yields') : yields'[i] = u
    <3>1. u # t /\ u \in Tasks \ active BY <1>3, <1>10
    <3>2. status[u] # "unborn" BY <1>9, <2>3
    <3> QED BY <1>3, <1>7, <1>8, <3>1, <3>2 DEF Flowing, Takes
  <2>4. \A i \in 1..Len(yields') : yields'[i] \notin active' /\ value'[yields'[i]] = "value"
    BY <1>3, <1>8, <2>1 DEF Flowing, Takes
  <2>5. \A i, j \in 1..Len(yields') : yields'[i] = yields'[j] => i = j
    BY <1>3 DEF Flowing, Takes
  <2> QED BY <2>2, <2>3, <2>4, <2>5 DEF Takes
<1> QED
  BY <1>11, <1>12, <1>13, <1>14, <1>15, <1>16, <1>17 DEF Flowing

\* A cleanup of an item; the last one settles it.
LEMMA ItemCleanupEndsStep ==
  ASSUME Inductive, Flowing, NEW t \in Tasks, ItemCleanupEnds(t)
  PROVE  Flowing'
<1> USE StreamConstants
<1>1. TaskCleanupEnds(t) /\ UNCHANGED streamVars BY DEF ItemCleanupEnds
<1>2. /\ status' = status /\ settled \subseteq settled'
      /\ \A u \in Tasks : owner'[u] = owner[u] /\ born'[u] = born[u]
      /\ SameGroup(Stream) /\ state'[Stream] = state[Stream] /\ KeepsSignal(Stream)
  BY <1>1, TaskCleanupEndsEffect
<1>3. Shape' /\ Standing' /\ Room' /\ Dry' BY <1>1, <1>2, GeneratorKept DEF SameGroup
<1>4. Pulls' BY <1>1, <1>2 DEF Flowing, Pulls, streamVars
<1>5. Endings' BY <1>1, <1>2 DEF Flowing, Endings, streamVars
<1>6. Takes' BY <1>1, <1>2 DEF Flowing, Takes, streamVars
<1> QED BY <1>3, <1>4, <1>5, <1>6 DEF Flowing

\* A step that changes nothing.
LEMMA StreamStutter ==
  ASSUME Flowing, UNCHANGED allVars
  PROVE  Flowing'
<1>1. UNCHANGED vars /\ UNCHANGED streamVars BY DEF allVars
<1>2. /\ SameTasks /\ SameGroup(Stream) /\ state'[Stream] = state[Stream]
      /\ KeepsSignal(Stream)
  BY <1>1, EngineKept
<1>3. Shape' /\ Standing' /\ Room' /\ Dry' BY <1>1, <1>2, GeneratorKept DEF SameGroup
<1>4. Pulls' /\ Endings' /\ Takes' BY <1>1, <1>2, TasksKept DEF streamVars
<1> QED BY <1>3, <1>4 DEF Flowing

\* Every step of a stream keeps the invariant.
LEMMA StreamNextFlows == Inductive /\ Flowing /\ [StreamNext]_allVars => Flowing'
<1> SUFFICES ASSUME Inductive, Flowing, [StreamNext]_allVars PROVE Flowing' OBVIOUS
<1>1. CASE StreamStarts BY <1>1, StreamStartsStep
<1>2. CASE Fill BY <1>2, FillStep
<1>3. CASE Pulled BY <1>3, PulledStep
<1>4. CASE Resume BY <1>4, ResumeStep
<1>5. CASE Exhausted BY <1>5, ExhaustedStep
<1>6. CASE ConsumerStops BY <1>6, ConsumerStopsStep
<1>7. CASE HoldEnds BY <1>7, HoldEndsStep
<1>8. CASE GeneratorEnds BY <1>8, GeneratorEndsStep
<1>9. CASE Engine BY <1>9, EngineStep
<1>10. CASE \E t \in Tasks : Take(t) BY <1>10, TakeStep
<1>11. CASE \E t \in Tasks : ItemEnds(t) BY <1>11, ItemEndsStep
<1>12. CASE \E t \in Tasks : ItemCleanupEnds(t) BY <1>12, ItemCleanupEndsStep
<1>13. CASE UNCHANGED allVars BY <1>13, StreamStutter
<1> QED
  BY <1>1, <1>2, <1>3, <1>4, <1>5, <1>6, <1>7, <1>8, <1>9, <1>10, <1>11, <1>12, <1>13
     DEF StreamNext

\* What the generator knows of its items and of its scope is what the engine does
\* with them, however items end, handlers throw, and the stream is cancelled or stopped.
THEOREM StreamInductive == StreamSpec => [](Inductive /\ Flowing)
<1>1. Inductive /\ Flowing /\ [StreamNext]_allVars => (Inductive /\ Flowing)'
  BY StreamNextFlows, StreamEngine, NextInductive
<1> QED BY <1>1, StreamInitFlows, PTL DEF StreamSpec

\* The variables of the stream keep their types, over an engine that keeps its own.
THEOREM StreamTypes == StreamSpec => []StreamTypeOK
<1>1. Inductive /\ Flowing => StreamTypeOK
  <2> SUFFICES ASSUME Inductive, Flowing PROVE StreamTypeOK OBVIOUS
  <2>1. active \subseteq Launched BY DEF Flowing, Shape, Takes, Launched
  <2> QED BY <2>1 DEF Inductive, Flowing, Shape, StreamTypeOK
<1> QED BY <1>1, StreamInductive, PTL

\* However slow the consumer is and however items end, no more than Concurrency items
\* are pulled and not yet taken, the one being asked for included.
THEOREM StreamBackpressured == StreamSpec => []Backpressured
<1>1. Inductive /\ Flowing => Backpressured
  <2> SUFFICES ASSUME Inductive, Flowing PROVE Backpressured OBVIOUS
  <2>1. Cardinality(active) \in Nat BY ActiveSize DEF Flowing, Shape
  <2> QED BY <2>1, StreamConstants DEF Flowing, Room, Backpressured
<1> QED BY <1>1, StreamInductive, PTL
----------------------------------------------------------------------------
\* The values yielded are as many as the items they come from.
LEMMA YieldedOnce ==
  ASSUME Flowing
  PROVE  Len(yields) = Cardinality(Yielded)
<1>1. yields \in Seq(Tasks) /\ Len(yields) \in Nat /\ DOMAIN yields = 1..Len(yields)
  BY LenProperties DEF Flowing, Shape
<1>2. yields \in Surjection(1..Len(yields), Yielded)
  BY <1>1 DEF Surjection, Yielded
<1>3. IsFiniteSet(1..Len(yields)) /\ Cardinality(1..Len(yields)) = Len(yields)
  <2>1. 1 \in Int /\ Len(yields) \in Int BY <1>1
  <2>2. CASE 1 > Len(yields)
    <3>1. Len(yields) = 0 BY <1>1, <2>2
    <3> QED BY <2>1, <2>2, <3>1, FS_Interval
  <2>3. CASE ~(1 > Len(yields))
    <3>1. Len(yields) - 1 + 1 = Len(yields) BY <1>1
    <3> QED BY <2>1, <2>3, <3>1, FS_Interval
  <2> QED BY <2>2, <2>3
<1>4. yields \in Injection(1..Len(yields), Yielded)
  BY <1>2 DEF Flowing, Takes, Surjection, Injection, IsInjective
<1>5. yields \in Bijection(1..Len(yields), Yielded)
  BY <1>2, <1>4 DEF Bijection
<1> QED BY <1>3, <1>5, FS_Bijection DEF ExistsBijection

\* The invariant says what ItemsJoined says.
LEMMA ItemsAreJoined ==
  ASSUME Inductive, Flowing
  PROVE  ItemsJoined
<1> USE StreamConstants
<1>1. ASSUME pc = "over", NEW t \in Launched PROVE t \in settled
  <2>1. owner[t] = Stream /\ born[t] = "body" /\ phase[Stream] = "over" /\ t \in Tasks
    BY <1>1 DEF Launched, Flowing, Pulls, Standing
  <2> QED BY <2>1 DEF Inductive, Joining, Ended
<1>2. ASSUME NEW t \in settled
      PROVE  reported[t][Len(reported[t])] = "fulfilled" <=> value[t] = "value"
  <2>1. t \in Tasks /\ status[t] \in Ends
    BY DEF Inductive, TypeOK, Traceless, Cleanups
  <2> QED BY <2>1 DEF Flowing, Endings
<1>3. ASSUME ending = "done"
      PROVE  /\ Yielded = {t \in Launched : value[t] = "value"}
             /\ Launched = {Items[i] : i \in 1..pulled}
             /\ \A t \in Launched : value[t] \in {"value", "skip"}
             /\ sourceDone \/ SignalAborted(Stream)
  <2>1. active = {} /\ (sourceDone \/ SignalAborted(Stream)) BY <1>3 DEF Flowing, Dry
  <2>2. \A t \in Launched : /\ value[t] \in {"value", "skip"}
                            /\ value[t] = "value" => \E i \in 1..Len(yields) : yields[i] = t
    BY <1>3, <2>1 DEF Launched, Flowing, Takes
  <2>3. \A i \in 1..Len(yields) : /\ yields[i] \in Launched
                                  /\ value[yields[i]] = "value"
    <3>1. \A i \in 1..Len(yields) : yields[i] \in Tasks /\ value[yields[i]] = "value"
      BY ElementOfSeq DEF Flowing, Shape, Takes
    <3> QED BY <3>1 DEF Launched, Flowing, Endings
  <2>4. DOMAIN yields = 1..Len(yields) BY LenProperties DEF Flowing, Shape
  <2>5. Yielded = {t \in Launched : value[t] = "value"}
    BY <2>2, <2>3, <2>4 DEF Yielded
  <2>6. Launched = {Items[i] : i \in 1..pulled}
    <3>1. \A i \in 1..pulled : i \in 1..Len(Items) /\ status[Items[i]] # "unborn"
      BY <1>3, ListOfItems DEF Flowing, Shape, Pulls
    <3>2. ASSUME NEW t \in Launched PROVE \E i \in 1..pulled : Items[i] = t
      <4>1. PICK i \in 1..Len(Items) : Items[i] = t BY ListOfItems DEF Launched
      <4>2. i <= pulled BY <4>1 DEF Launched, Flowing, Pulls
      <4>3. i \in 1..pulled BY <4>2, ListOfItems DEF Flowing, Shape
      <4> QED BY <4>1, <4>3
    <3> QED BY <3>1, <3>2, ListOfItems DEF Launched
  <2> QED BY <2>1, <2>2, <2>5, <2>6
<1> QED BY <1>1, <1>2, <1>3, YieldedOnce DEF ItemsJoined

\* When the generator has ended every item's task is settled, its last report agrees
\* with its value, and a stream without an error gave every item it pulled, once.
THEOREM StreamItemsJoined == StreamSpec => []ItemsJoined
BY ItemsAreJoined, StreamInductive, PTL
----------------------------------------------------------------------------
\* The tasks whose start was observed, and those of them that have ended.
SeenTasks == seen \cap Tasks
SeenEnded(res) == {t \in SeenTasks \cap settled : status[t] = res}
OwnedBy(s) == {t \in SeenTasks : owner[t] = s}
EndedIn(s, res) == {t \in SeenEnded(res) : owner[t] = s}

\* The observers keep their types.
Recorders ==
  /\ attached \in {"no", "early", "late"}
  /\ droppedEvents \in Nat
  /\ seen \in SUBSET Owned /\ IsFiniteSet(seen)
  /\ DOMAIN summaries \subseteq Scopes
  /\ exports \in [Scopes -> Nat]
  /\ taskTotal \in [Ends -> Nat]

\* Nothing was observed of what happened before.
Unattached ==
  /\ attached = "no" => events = {} /\ seen = {}
  /\ attached # "no" => state[Watched] # "unopened"

\* An event on record is true for good; the last word of a task is that of a
\* settled one.  A recorder that missed nothing has the closing event.
Evidence ==
  /\ afterTerminal = {}
  /\ \A e \in events : e.of \in Tasks /\ e.type \in Ends => e.of \in settled
  /\ \A e \in events : e.type = "closing" =>
       e.of \in Scopes /\ e.reason = closing[e.of] /\ e.reason # "none"
  /\ attached = "early" /\ droppedEvents = 0 /\ closing[Watched] # "none" =>
       Event("closing", Watched, closing[Watched]) \in events
  /\ \A s \in Scopes : state[s] = "closed" => closing[s] # "none"

\* What was seen was begun and is below the scope watched; of a scope that was
\* seen, every task was.
Sightings ==
  /\ \A s \in Scopes \cap seen : state[s] # "unopened" /\ s \in Below(Watched)
  /\ \A t \in SeenTasks : status[t] # "unborn" /\ owner[t] \in Below(Watched)
  /\ \A t \in Tasks : owner[t] \in seen => t \in seen

\* The open spans are those of the tasks seen that have not settled.
Traced ==
  /\ spans = SeenTasks \ settled
  /\ \A res \in Ends : taskTotal[res] = Cardinality(SeenEnded(res))

\* A summary counts the tasks of its scope by what they came to.
CountsOf(m, owned, ended, reason) ==
  /\ m.started = Cardinality(owned)
  /\ m.ended \in [Ends -> Nat]
  /\ \A res \in Ends : m.ended[res] = Cardinality(ended[res])
  /\ m.cleanupFailed \in Nat
  /\ m.outcome \in {"completed", "errored", "cancelled"}
  /\ ended["failed"] # {} \/ m.cleanupFailed # 0 \/ reason = "errored" => m.outcome = "errored"
  /\ reason = "cancelled" => m.outcome \in {"cancelled", "errored"}
  /\ reason = "completed" => m.outcome \in {"completed", "errored"}
Counts(s, m) == CountsOf(m, OwnedBy(s), [res \in Ends |-> EndedIn(s, res)], closing[s])
Summarized ==
  /\ \A s \in Scopes : s \in DOMAIN summaries <=> s \in seen /\ state[s] # "closed"
  /\ \A s \in DOMAIN summaries : Counts(s, summaries[s])
  /\ \A s \in Scopes : exports[s] = IF s \in seen /\ state[s] = "closed" THEN 1 ELSE 0
  /\ \A s \in Scopes : exports[s] = 1 => s \in DOMAIN exported /\ SummaryTells(s, exported[s])

Observing == Recorders /\ Unattached /\ Evidence /\ Sightings /\ Traced /\ Summarized
----------------------------------------------------------------------------
\* Nobody has an owner that the nobody owns.
LEMMA Watching == Watched \in Scopes /\ NoOne \notin Scopes /\ NoOne \notin Tasks
                  /\ Scopes \cap Tasks = {}
  BY ScopeAssumption, ObserversAssumption

\* A scope is at or below itself, and what is opened in one that is below is below.
LEMMA BelowClosed ==
  ASSUME NEW s \in Scopes
  PROVE  /\ s \in Below(s) /\ Below(s) \subseteq Scopes
         /\ \A q \in Scopes : owner[q] \in Below(s) => q \in Below(s)
  BY DEF Below

\* It is the least such set.
LEMMA BelowLeast ==
  ASSUME NEW s \in Scopes, NEW T \in SUBSET Scopes, s \in T,
         \A q \in Scopes : owner[q] \in T => q \in T
  PROVE  Below(s) \subseteq T
  BY DEF Below

\* Owners stay.
OwnersStay == \A x \in Owned : owner[x] # NoOne => owner'[x] = owner[x] /\ born'[x] = born[x]
\* So who is below a scope stays below it.
LEMMA BelowStays ==
  ASSUME NEW s \in Scopes, OwnersStay
  PROVE  Below(s) \subseteq Below(s)'
<1> SUFFICES ASSUME NEW q \in Below(s), NEW T \in SUBSET Scopes, s \in T,
                    \A r \in Scopes : owner'[r] \in T => r \in T
             PROVE  q \in T
  BY DEF Below
<1>1. ASSUME NEW r \in Scopes, owner[r] \in T PROVE r \in T
  BY <1>1, Watching DEF OwnersStay
<1> QED BY <1>1, BelowLeast
----------------------------------------------------------------------------
\* What a step of the engine does that events tell of: what was begun, ended or
\* announced stays so.
TasksAdvance ==
  /\ \A t \in Tasks : status[t] \in Ends => status'[t] = status[t]
  /\ \A t \in Tasks : status[t] # "unborn" => status'[t] # "unborn"
  /\ settled \subseteq settled'
  /\ \A t \in Starting : owner'[t] \in Scopes /\ state[owner'[t]] = "running"
ScopesAdvance ==
  /\ \A s \in Scopes : closing[s] # "none" => closing'[s] = closing[s]
  /\ \A s \in Scopes : state[s] = "closed" => state'[s] = "closed"
  /\ \A s \in Scopes : state[s] # "unopened" => state'[s] # "unopened"
  /\ \A s \in Closed : closing'[s] # "none"

\* One scope or task begins or ends in a step, and one scope announces its closing.
Cleaned == {y \in Owned : CleanupEnded(y)}
ActorIs(x) == /\ Starting \subseteq {x} /\ Ending \subseteq {x} /\ Cleaned \subseteq {x}
              /\ Opening \subseteq {x} /\ Closed \subseteq {x}
Advances ==
  /\ OwnersStay /\ TasksAdvance /\ ScopesAdvance
  /\ \E x \in Owned : ActorIs(x)
  /\ \E s \in Scopes : Announcing \subseteq {s}

\* A cancellation, or none, of the scope s.
MayAnnounce(s) ==
  /\ \A q \in Scopes \ {s} : closing'[q] = closing[q] /\ state'[q] = state[q]
  /\ closing[s] # "none" => closing'[s] = closing[s]
  /\ state'[s] = state[s] \/ (state[s] = "running" /\ state'[s] = "cancelling")

\* cancel() changes one scope at most.
LEMMA CancelAnnounces ==
  ASSUME Inductive, NEW s \in Scopes, NEW reason,
         CancelScope(s, reason) \/ UNCHANGED control
  PROVE  MayAnnounce(s)
<1>1. CASE UNCHANGED control BY <1>1 DEF MayAnnounce
<1>2. CASE CancelScope(s, reason)
  <2>1. CASE state[s] # "running" BY <1>2, <2>1, CancelScopeEffect DEF MayAnnounce
  <2>2. CASE state[s] = "running"
    <3>1. closing[s] = "none" BY <2>2 DEF Inductive, Lifecycle
    <3>2. state' = [state EXCEPT ![s] = "cancelling"] BY <1>2, <2>2 DEF CancelScope
    <3>3. \A q \in Scopes \ {s} : closing'[q] = closing[q]
      BY <1>2, CancelScopeEffect
    <3> QED BY <2>2, <3>1, <3>2, <3>3 DEF MayAnnounce, Inductive, TypeOK
  <2> QED BY <2>1, <2>2
<1> QED BY <1>1, <1>2

\* Nor does the failure of a task.
LEMMA NotesAnnounces ==
  ASSUME Inductive, NEW s \in Scopes, NEW t, NEW res, NoteResult(s, t, res)
  PROVE  MayAnnounce(s)
  BY CancelAnnounces DEF NoteResult

\* Then scopes advance, none opens or closes and one announces at most.
LEMMA AnnouncesAdvance ==
  ASSUME NEW s \in Scopes, MayAnnounce(s)
  PROVE  ScopesAdvance /\ Opening = {} /\ Closed = {} /\ Announcing \subseteq {s}
<1>1. ScopesAdvance BY DEF MayAnnounce, ScopesAdvance, Closed
<1>2. Opening = {} /\ Closed = {} BY DEF MayAnnounce, Opening, Closed
<1>3. Announcing \subseteq {s} BY DEF MayAnnounce, Announcing
<1> QED BY <1>1, <1>2, <1>3

\* group() opens a scope.
LEMMA OpenAdvances ==
  ASSUME Inductive, NEW s \in Scopes, NEW p \in Scopes \cup {NoOne}, Open(s, p)
  PROVE  Advances
<1>1. TypeOK BY DEF Inductive
<1>2. /\ state[s] = "unopened" /\ state' = [state EXCEPT ![s] = "running"]
      /\ closing' = closing /\ defers' = defers /\ Adopt(s, p)
      /\ status' = status /\ settled' = settled /\ taskDefers' = taskDefers
  BY DEF Open
<1>3. owner[s] = NoOne BY <1>2 DEF Inductive, Traceless
<1>4. OwnersStay BY <1>1, <1>2, <1>3 DEF Adopt, TypeOK, OwnersStay
<1>5. Starting = {} /\ Ending = {} /\ Announcing = {} BY <1>2 DEF Starting, Ending, Announcing
<1>6. TasksAdvance BY <1>2, <1>5 DEF TasksAdvance
<1>7. Closed = {} /\ Opening \subseteq {s} BY <1>1, <1>2 DEF Closed, Opening, TypeOK
<1>8. ScopesAdvance BY <1>1, <1>2, <1>7 DEF ScopesAdvance, TypeOK
<1>9. Cleaned = {}
  <2>1. \A d \in Nat : ~(d < d) OBVIOUS
  <2> QED BY <1>1, <1>2, <2>1 DEF Cleaned, CleanupEnded, TypeOK
<1>10. ActorIs(s) BY <1>5, <1>7, <1>9 DEF ActorIs
<1> QED BY <1>4, <1>5, <1>6, <1>8, <1>10 DEF Advances

\* spawn() begins a task of a running scope.
LEMMA SpawnAdvances ==
  ASSUME Inductive, NEW s \in Scopes, NEW t \in Tasks, NEW k, Spawn(s, t, k)
  PROVE  Advances
<1>1. TypeOK BY DEF Inductive
<1>2. /\ status[t] = "unborn" /\ state[s] = "running" /\ Adopt(t, s)
      /\ status' = [status EXCEPT ![t] = "running"]
      /\ UNCHANGED <<control, defers, settled, taskDefers>>
  BY DEF Spawn, Admit
<1>3. owner[t] = NoOne BY <1>2 DEF Inductive, Traceless
<1>4. OwnersStay BY <1>1, <1>2, <1>3 DEF Adopt, TypeOK, OwnersStay
<1>5. Starting \subseteq {t} /\ Ending = {} BY <1>1, <1>2 DEF Starting, Ending, TypeOK
<1>6. owner'[t] = s BY <1>1, <1>2 DEF Adopt, TypeOK
<1>7. TasksAdvance BY <1>1, <1>2, <1>5, <1>6 DEF TasksAdvance, TypeOK
<1>8. MayAnnounce(s) BY <1>2 DEF MayAnnounce
<1>9. Cleaned = {}
  <2>1. \A d \in Nat : ~(d < d) OBVIOUS
  <2> QED BY <1>1, <1>2, <2>1 DEF Cleaned, CleanupEnded, TypeOK
<1>10. ActorIs(t) BY <1>5, <1>8, <1>9, AnnouncesAdvance DEF ActorIs
<1> QED BY <1>4, <1>7, <1>8, <1>10, AnnouncesAdvance DEF Advances

\* So it does when the task throws at once: the task ends as it begins.
LEMMA SpawnThrowsAdvances ==
  ASSUME Inductive, NEW s \in Scopes, NEW t \in Tasks, NEW k, NEW res \in {"failed", "cancelled"},
         SpawnThrows(s, t, k, res)
  PROVE  Advances
<1>1. TypeOK BY DEF Inductive
<1>2. /\ status[t] = "unborn" /\ state[s] = "running" /\ Adopt(t, s)
      /\ status' = [status EXCEPT ![t] = res] /\ settled' = settled \cup {t}
      /\ NoteResult(s, t, res)
      /\ UNCHANGED <<defers, taskDefers>>
  BY DEF SpawnThrows, Admit
<1>3. owner[t] = NoOne BY <1>2 DEF Inductive, Traceless
<1>4. OwnersStay BY <1>1, <1>2, <1>3 DEF Adopt, TypeOK, OwnersStay
<1>5. Starting \subseteq {t} /\ Ending \subseteq {t}
  BY <1>1, <1>2 DEF Starting, Ending, TypeOK
<1>6. owner'[t] = s BY <1>1, <1>2 DEF Adopt, TypeOK
<1>7. TasksAdvance BY <1>1, <1>2, <1>5, <1>6 DEF TasksAdvance, TypeOK
<1>8. MayAnnounce(s) BY <1>2, NotesAnnounces
<1>9. Cleaned = {}
  <2>1. \A d \in Nat : ~(d < d) OBVIOUS
  <2> QED BY <1>1, <1>2, <2>1 DEF Cleaned, CleanupEnded, TypeOK
<1>10. ActorIs(t) BY <1>5, <1>8, <1>9, AnnouncesAdvance DEF ActorIs
<1> QED BY <1>4, <1>7, <1>8, <1>10, AnnouncesAdvance DEF Advances

\* The end of a task's body is the end of the task, or of its body only.
LEMMA TaskBodyEndsAdvances ==
  ASSUME Inductive, NEW t \in Tasks, NEW res \in Ends, NEW n \in 0..MaxDefers[t],
         TaskBodyEnds(t, res, n)
  PROVE  Advances
<1>1. TypeOK BY DEF Inductive
<1>2. /\ status[t] = "running" /\ status' = [status EXCEPT ![t] = res]
      /\ settled' = settled \/ settled' = settled \cup {t}
      /\ NoteResult(owner[t], t, res) /\ taskDefers' = [taskDefers EXCEPT ![t] = n]
      /\ UNCHANGED <<adoption, defers>>
  BY DEF TaskBodyEnds, Settle
<1>3. owner[t] \in Scopes BY <1>2 DEF Inductive, Traceless
<1>4. OwnersStay BY <1>2 DEF OwnersStay
<1>5. Starting = {} /\ Ending \subseteq {t}
  BY <1>1, <1>2 DEF Starting, Ending, TypeOK
<1>6. TasksAdvance BY <1>1, <1>2, <1>5 DEF TasksAdvance, TypeOK
<1>7. MayAnnounce(owner[t]) BY <1>2, <1>3, NotesAnnounces
<1>8. Cleaned \subseteq {t}
  <2>1. \A d \in Nat : ~(d < d) OBVIOUS
  <2> QED BY <1>1, <1>2, <2>1 DEF Cleaned, CleanupEnded, TypeOK
<1>9. ActorIs(t) BY <1>5, <1>7, <1>8, <1>3, AnnouncesAdvance DEF ActorIs
<1> QED BY <1>3, <1>4, <1>6, <1>7, <1>9, AnnouncesAdvance DEF Advances

\* So is the end of a cleanup.
LEMMA TaskCleanupEndsAdvances ==
  ASSUME Inductive, NEW t \in Tasks, TaskCleanupEnds(t)
  PROVE  Advances
<1>1. TypeOK BY DEF Inductive
<1>2. /\ status' = status /\ status[t] \in Ends
      /\ settled' = settled \/ settled' = settled \cup {t}
      /\ taskDefers' = [taskDefers EXCEPT ![t] = @ - 1]
      /\ UNCHANGED <<adoption, control, defers>>
  BY DEF TaskCleanupEnds, Settle, InCleanup
<1>3. owner[t] \in Scopes BY <1>2 DEF Inductive, Traceless
<1>4. OwnersStay BY <1>2 DEF OwnersStay
<1>5. Starting = {} /\ Ending \subseteq {t}
  BY <1>1, <1>2 DEF Starting, Ending, TypeOK
<1>6. TasksAdvance BY <1>1, <1>2, <1>5 DEF TasksAdvance, TypeOK
<1>7. MayAnnounce(owner[t]) BY <1>2, <1>3 DEF MayAnnounce
<1>8. Cleaned \subseteq {t}
  <2>1. \A d \in Nat : ~(d < d) OBVIOUS
  <2> QED BY <1>1, <1>2, <2>1 DEF Cleaned, CleanupEnded, TypeOK
<1>9. ActorIs(t) BY <1>5, <1>7, <1>8, <1>3, AnnouncesAdvance DEF ActorIs
<1> QED BY <1>3, <1>4, <1>6, <1>7, <1>9, AnnouncesAdvance DEF Advances

\* A step in which tasks and cleanups rest, and of which the most that is told is
\* that a scope is cancelled.
LEMMA RestAdvances ==
  ASSUME Inductive, NEW s \in Scopes, MayAnnounce(s),
         UNCHANGED <<adoption, status, settled, taskDefers>>,
         \A q \in Scopes \ {s} : defers'[q] = defers[q]
  PROVE  Advances
<1>1. TypeOK BY DEF Inductive
<1>2. OwnersStay BY DEF OwnersStay
<1>3. Starting = {} /\ Ending = {} BY DEF Starting, Ending
<1>4. TasksAdvance BY <1>3 DEF TasksAdvance
<1>5. Cleaned \subseteq {s}
  <2>1. \A d \in Nat : ~(d < d) OBVIOUS
  <2> QED BY <1>1, <2>1 DEF Cleaned, CleanupEnded, TypeOK
<1>6. ActorIs(s) BY <1>3, <1>5, AnnouncesAdvance DEF ActorIs
<1> QED BY <1>2, <1>4, <1>6, AnnouncesAdvance DEF Advances

\* Every step of a task.
LEMMA TaskStepAdvances ==
  ASSUME Inductive, NEW t \in Tasks, TaskStep(t)
  PROVE  Advances
<1>1. ASSUME HandleCancel(t) PROVE Advances
  <2>1. PICK s \in Scopes : s = Watched BY Watching
  <2> QED BY <1>1, RestAdvances DEF HandleCancel, MayAnnounce
<1> QED BY <1>1, SpawnAdvances, SpawnThrowsAdvances, TaskBodyEndsAdvances,
           TaskCleanupEndsAdvances DEF TaskStep

\* The end of close() closes a scope that has announced it, now or before.
LEMMA FinishAdvances ==
  ASSUME Inductive, NEW s \in Scopes, Finish(s)
  PROVE  Advances
<1>1. TypeOK BY DEF Inductive
<1>2. /\ UNCHANGED <<adoption, status, settled, taskDefers, defers>>
      /\ state' = [state EXCEPT ![s] = "closed"] /\ phase[s] = "defers"
      /\ CloseEvent(s, IF firstChildFailure[s] = NoOne THEN "completed" ELSE "errored")
  BY DEF Finish
<1>3. OwnersStay BY <1>2 DEF OwnersStay
<1>4. Starting = {} /\ Ending = {} BY <1>2 DEF Starting, Ending
<1>5. TasksAdvance BY <1>2, <1>4 DEF TasksAdvance
<1>6. Cleaned = {}
  <2>1. \A d \in Nat : ~(d < d) OBVIOUS
  <2> QED BY <1>1, <1>2, <2>1 DEF Cleaned, CleanupEnded, TypeOK
<1>7. Opening = {} /\ Closed \subseteq {s} BY <1>1, <1>2 DEF Opening, Closed, TypeOK
<1>8. /\ \A q \in Scopes \ {s} : closing'[q] = closing[q]
      /\ closing[s] # "none" => closing'[s] = closing[s]
      /\ closing'[s] # "none"
  BY <1>1, <1>2 DEF CloseEvent, TypeOK
<1>9. Announcing \subseteq {s} BY <1>8 DEF Announcing
<1>10. ScopesAdvance BY <1>1, <1>2, <1>7, <1>8 DEF ScopesAdvance, TypeOK
<1>11. ActorIs(s) BY <1>4, <1>6, <1>7 DEF ActorIs
<1> QED BY <1>3, <1>5, <1>9, <1>10, <1>11 DEF Advances

\* Every step of a scope.
LEMMA ScopeStepAdvances ==
  ASSUME Inductive, NEW s \in Scopes, ScopeStep(s)
  PROVE  Advances
<1>1. TypeOK BY DEF Inductive
<1>2. ASSUME NEW reason, Cancel(s, reason) PROVE Advances
  BY <1>2, CancelAnnounces, RestAdvances DEF Cancel
<1>3. ASSUME NEW res \in Ends, NEW n \in 0..MaxDefers[s], GroupBodyEnds(s, res, n)
      PROVE  Advances
  <2>1. CancelScope(s, "parent_failed") \/ UNCHANGED control BY <1>3 DEF GroupBodyEnds
  <2>2. \A q \in Scopes \ {s} : defers'[q] = defers[q]
    BY <1>1, <1>3 DEF GroupBodyEnds, AwaitOwned, TypeOK
  <2> QED BY <1>3, <2>1, <2>2, CancelAnnounces, RestAdvances DEF GroupBodyEnds
<1>4. ASSUME NEW n \in 0..MaxDefers[s], Drain(s, n) PROVE Advances
  <2>1. \A q \in Scopes \ {s} : defers'[q] = defers[q]
    BY <1>1, <1>4 DEF Drain, AwaitOwned, TypeOK
  <2> QED BY <1>4, <2>1, RestAdvances DEF Drain, MayAnnounce
<1>5. ASSUME ScopeCleanupEnds(s) PROVE Advances
  <2>1. \A q \in Scopes \ {s} : defers'[q] = defers[q]
    BY <1>1, <1>5 DEF ScopeCleanupEnds, TypeOK
  <2> QED BY <1>5, <2>1, RestAdvances DEF ScopeCleanupEnds, MayAnnounce
<1> QED BY <1>2, <1>3, <1>4, <1>5, OpenAdvances, FinishAdvances DEF ScopeStep, CloseStep

\* Every step of the engine.
LEMMA NextAdvances == Inductive /\ Next => Advances
  BY ScopeStepAdvances, TaskStepAdvances DEF Next
----------------------------------------------------------------------------
\* The events of a step, by their types.
IsNews(new) ==
  /\ IsFiniteSet(new)
  /\ \A e \in new :
       /\ e.of \in Heard'
       /\ \/ e.type = "opened" /\ e.of \in Opening
          \/ e.type = "started" /\ e.of \in Starting
          \/ e.type = "closing" /\ e.of \in Announcing /\ e.reason = closing'[e.of]
          \/ e.type \in CleanupReports /\ e.of \in Cleaned
          \/ /\ e.type \in Ends /\ e.of \in Ending
             /\ e.type = status'[e.of] /\ e = Event(status'[e.of], e.of, "none")
          \/ e.type = "closed" /\ e.of \in Closed
  /\ \A e \in new : e.type \in {"started", "opened"} => e = Event(e.type, e.of, "none")
  /\ \A s \in Heard' : Event("opened", s, "none") \in new <=> s \in Opening
  /\ \A t \in Heard' : Event("started", t, "none") \in new <=> t \in Starting
  /\ \A s \in Heard' \cap Announcing : Event("closing", s, closing'[s]) \in new
  /\ \A t \in Heard', res \in Ends : Event(res, t, "none") \in new <=> t \in Ending /\ status'[t] = res
  /\ \A s \in Heard' : Event("closed", s, "none") \in new <=> s \in Closed

\* They are at most one of each type.
LEMMA EmittedFinite ==
  ASSUME Advances, NEW report
  PROVE  IsFiniteSet(Emitted(report))
<1>1. PICK x \in Owned : ActorIs(x) BY DEF Advances
<1>2. PICK s \in Scopes : Announcing \subseteq {s} BY DEF Advances
<1> DEFINE all == ({Event("opened", x, "none")} \cup {Event("started", x, "none")})
                  \cup ({Event("closing", s, closing'[s])} \cup {Event(report, x, "none")})
                  \cup ({Event(status'[x], x, "none")} \cup {Event("closed", x, "none")})
<1>3. Emitted(report) \subseteq all
  BY <1>1, <1>2 DEF Emitted, ActorIs, Each, Cleaned
<1>4. IsFiniteSet(all) BY FS_Singleton, FS_Union
<1> QED BY <1>3, <1>4, FS_Subset

\* An event is its type, its subject and its reason.
LEMMA EventFields ==
  \A a, b, c : Event(a, b, c).type = a /\ Event(a, b, c).of = b /\ Event(a, b, c).reason = c
  BY DEF Event

\* A task that settles has ended.
LEMMA SettledEnded == Inductive => \A t \in settled : t \in Tasks /\ status[t] \in Ends
  BY DEF Inductive, TypeOK, Traceless, Cleanups

\* What a step emits tells what it did.
LEMMA EmittedNews ==
  ASSUME Inductive, Inductive', Advances, NEW report \in CleanupReports \cup {"none"}
  PROVE  IsNews(Emitted(report))
<1> DEFINE new == Emitted(report)
<1>1. \A t \in Ending : t \in Tasks /\ status'[t] \in Ends
  BY SettledEnded DEF Ending, Inductive, TypeOK, Traceless, Cleanups
<1>2. \A e : e \in new <=>
        /\ e.of \in Heard'
        /\ \/ \E x \in Opening : e = Event("opened", x, "none")
           \/ \E x \in Starting : e = Event("started", x, "none")
           \/ \E x \in Announcing : e = Event("closing", x, closing'[x])
           \/ report # "none" /\ \E x \in Cleaned : e = Event(report, x, "none")
           \/ \E x \in Ending : e = Event(status'[x], x, "none")
           \/ \E x \in Closed : e = Event("closed", x, "none")
  BY DEF Emitted, Each, Cleaned
<1> HIDE DEF new
<1>3. IsFiniteSet(new) BY EmittedFinite DEF new
<1>4. ASSUME NEW e \in new
      PROVE  /\ e.of \in Heard'
             /\ \/ e.type = "opened" /\ e.of \in Opening
                \/ e.type = "started" /\ e.of \in Starting
                \/ e.type = "closing" /\ e.of \in Announcing /\ e.reason = closing'[e.of]
                \/ e.type \in CleanupReports /\ e.of \in Cleaned
                \/ /\ e.type \in Ends /\ e.of \in Ending
                   /\ e.type = status'[e.of] /\ e = Event(status'[e.of], e.of, "none")
                \/ e.type = "closed" /\ e.of \in Closed
             /\ e.type \in {"started", "opened"} => e = Event(e.type, e.of, "none")
  <2> DEFINE Told ==
         /\ \/ e.type = "opened" /\ e.of \in Opening
            \/ e.type = "started" /\ e.of \in Starting
            \/ e.type = "closing" /\ e.of \in Announcing /\ e.reason = closing'[e.of]
            \/ e.type \in CleanupReports /\ e.of \in Cleaned
            \/ /\ e.type \in Ends /\ e.of \in Ending
               /\ e.type = status'[e.of] /\ e = Event(status'[e.of], e.of, "none")
            \/ e.type = "closed" /\ e.of \in Closed
         /\ e.type \in {"started", "opened"} => e = Event(e.type, e.of, "none")
  <2>1. ASSUME NEW x \in Opening, e = Event("opened", x, "none") PROVE Told
    <3>1. e.type = "opened" /\ e.of = x BY <2>1, EventFields
    <3> QED BY <2>1, <3>1
  <2>2. ASSUME NEW x \in Starting, e = Event("started", x, "none") PROVE Told
    <3>1. e.type = "started" /\ e.of = x BY <2>2, EventFields
    <3> QED BY <2>2, <3>1
  <2>3. ASSUME NEW x \in Announcing, e = Event("closing", x, closing'[x]) PROVE Told
    <3>1. e.type = "closing" /\ e.of = x /\ e.reason = closing'[x] BY <2>3, EventFields
    <3> QED BY <2>3, <3>1
  <2>4. ASSUME NEW x \in Cleaned, report # "none", e = Event(report, x, "none") PROVE Told
    <3>1. e.type = report /\ e.of = x BY <2>4, EventFields
    <3> QED BY <2>4, <3>1 DEF CleanupReports
  <2>5. ASSUME NEW x \in Ending, e = Event(status'[x], x, "none") PROVE Told
    <3>1. e.type = status'[x] /\ e.of = x BY <2>5, EventFields
    <3> QED BY <1>1, <2>5, <3>1
  <2>6. ASSUME NEW x \in Closed, e = Event("closed", x, "none") PROVE Told
    <3>1. e.type = "closed" /\ e.of = x BY <2>6, EventFields
    <3> QED BY <2>6, <3>1
  <2> QED BY <1>2, <2>1, <2>2, <2>3, <2>4, <2>5, <2>6
<1>6. ASSUME NEW s \in Heard' PROVE Event("opened", s, "none") \in new <=> s \in Opening
  <2> DEFINE e == Event("opened", s, "none")
  <2>1. e.type = "opened" /\ e.of = s BY EventFields
  <2>2. s \in Opening => e \in new BY <1>2, <2>1
  <2> HIDE DEF e
  <2>3. e \in new => s \in Opening BY <1>4, <2>1 DEF CleanupReports
  <2> QED BY <2>2, <2>3 DEF e
<1>7. ASSUME NEW t \in Heard' PROVE Event("started", t, "none") \in new <=> t \in Starting
  <2> DEFINE e == Event("started", t, "none")
  <2>1. e.type = "started" /\ e.of = t BY EventFields
  <2>2. t \in Starting => e \in new BY <1>2, <2>1
  <2> HIDE DEF e
  <2>3. e \in new => t \in Starting BY <1>4, <2>1 DEF CleanupReports
  <2> QED BY <2>2, <2>3 DEF e
<1>8. ASSUME NEW s \in Heard' \cap Announcing PROVE Event("closing", s, closing'[s]) \in new
  <2>1. Event("closing", s, closing'[s]).of = s BY EventFields
  <2> QED BY <1>2, <2>1
<1>9. ASSUME NEW t \in Heard', NEW res \in Ends
      PROVE  Event(res, t, "none") \in new <=> t \in Ending /\ status'[t] = res
  <2> DEFINE e == Event(res, t, "none")
  <2>1. e.type = res /\ e.of = t BY EventFields
  <2>2. t \in Ending /\ status'[t] = res => e \in new BY <1>2, <2>1
  <2> HIDE DEF e
  <2>3. e \in new => t \in Ending /\ status'[t] = res BY <1>4, <2>1 DEF CleanupReports
  <2> QED BY <2>2, <2>3 DEF e
<1>10. ASSUME NEW s \in Heard' PROVE Event("closed", s, "none") \in new <=> s \in Closed
  <2> DEFINE e == Event("closed", s, "none")
  <2>1. e.type = "closed" /\ e.of = s BY EventFields
  <2>2. s \in Closed => e \in new BY <1>2, <2>1
  <2> HIDE DEF e
  <2>3. e \in new => s \in Closed BY <1>4, <2>1 DEF CleanupReports
  <2> QED BY <2>2, <2>3 DEF e
<1> QED BY <1>3, <1>4, <1>6, <1>7, <1>8, <1>9, <1>10 DEF IsNews, new

\* A set that gains one element at most, when one thing at most is told of it,
\* is counted by what is told.
LEMMA CountGrows ==
  ASSUME NEW S, IsFiniteSet(S), NEW x, NEW G, G \subseteq {x}, S \cap G = {},
         NEW A, NEW a, A \subseteq {a}, A = {} <=> G = {}
  PROVE  /\ IsFiniteSet(S \cup G)
         /\ Cardinality(S) \in Nat /\ Cardinality(A) \in Nat
         /\ Cardinality(S \cup G) = Cardinality(S) + Cardinality(A)
<1>1. Cardinality(S) \in Nat BY FS_CardinalityType
<1>2. CASE G = {}
  <2>1. A = {} /\ S \cup G = S BY <1>2
  <2> QED BY <1>1, <2>1, FS_EmptySet
<1>3. CASE G # {}
  <2>1. G = {x} /\ A = {a} /\ x \notin S BY <1>3
  <2>2. IsFiniteSet(S \cup {x}) /\ Cardinality(S \cup {x}) = Cardinality(S) + 1
    BY <2>1, FS_AddElement
  <2>3. Cardinality({a}) = 1 BY FS_Singleton
  <2> QED BY <1>1, <2>1, <2>2, <2>3
<1> QED BY <1>2, <1>3
----------------------------------------------------------------------------
\* A step of the engine whose events are observed.
Observes(new) ==
  /\ Inductive /\ Inductive' /\ Advances /\ Observing
  /\ attached # "no" /\ IsNews(new) /\ Observe(new)

\* After it too, what is opened in a scope below is below.
LEMMA BelowClosedNext ==
  /\ Watched \in Below(Watched)' /\ Below(Watched)' \subseteq Scopes
  /\ \A q \in Scopes : owner'[q] \in Below(Watched)' => q \in Below(Watched)'
  BY Watching DEF Below

\* Whose events are heard.
LEMMA HeardNext ==
  \A x : x \in Heard' <=> x \in Below(Watched)' \/ (x \in Tasks /\ owner'[x] \in Below(Watched)')
  BY DEF Heard

\* What is seen in a step was opened or begun in it.
LEMMA SeenNext ==
  ASSUME NEW new, Observes(new)
  PROVE  \A x : x \in seen' <=> x \in seen \/ (x \in Heard' /\ x \in Opening \cup Starting)
<1>1. seen' = seen \cup {e.of : e \in {f \in new : f.type \in {"opened", "started"}}}
  BY DEF Observes, Observe
<1>2. IsNews(new) BY DEF Observes
<1>3. ASSUME NEW e \in new, e.type \in {"opened", "started"}
      PROVE  e.of \in Heard' /\ e.of \in Opening \cup Starting
  BY <1>2, <1>3 DEF IsNews, CleanupReports
<1>4. ASSUME NEW x \in Heard', x \in Opening \cup Starting
      PROVE  \E e \in new : e.type \in {"opened", "started"} /\ e.of = x
  <2>1. CASE x \in Opening
    <3>1. Event("opened", x, "none") \in new BY <1>2, <2>1 DEF IsNews
    <3> QED BY <3>1 DEF Event
  <2>2. CASE x \in Starting
    <3>1. Event("started", x, "none") \in new BY <1>2, <2>2 DEF IsNews
    <3> QED BY <3>1 DEF Event
  <2> QED BY <1>4, <2>1, <2>2
<1> QED BY <1>1, <1>3, <1>4

\* A task of a scope has an owner that began before it did.
LEMMA TasksOfScope ==
  ASSUME NEW new, Observes(new), NEW t \in Tasks, owner'[t] \in Scopes
  PROVE  /\ state[owner'[t]] # "unopened" /\ status'[t] # "unborn"
         /\ \/ owner[t] = owner'[t] /\ status[t] # "unborn"
            \/ t \in Starting /\ state[owner'[t]] = "running"
<1> USE Watching DEF Observes
<1>1. status'[t] # "unborn" BY DEF Inductive, Traceless
<1>2. CASE owner[t] = NoOne
  <2>1. status[t] = "unborn" BY <1>2 DEF Inductive, Traceless
  <2>2. t \in Starting BY <1>1, <2>1 DEF Starting
  <2> QED BY <1>1, <2>2 DEF Advances, TasksAdvance
<1>3. CASE owner[t] # NoOne
  <2>1. owner'[t] = owner[t] BY <1>3 DEF Advances, OwnersStay
  <2>2. status[t] # "unborn" BY <1>3 DEF Inductive, Traceless
  <2>3. phase[owner[t]] # "none" BY <1>3 DEF Inductive, Traceless
  <2> QED BY <1>1, <2>1, <2>2, <2>3 DEF Inductive, Traceless
<1> QED BY <1>2, <1>3

\* Sightings go on.
LEMMA SightingsNext ==
  ASSUME NEW new, Observes(new)
  PROVE  Sightings'
<1> USE Watching
<1>1. Sightings /\ Inductive /\ Inductive' /\ Advances BY DEF Observes, Observing
<1>2. Below(Watched) \subseteq Below(Watched)' BY <1>1, BelowStays DEF Advances
<1>3. ASSUME NEW s \in Scopes \cap seen'
      PROVE  state'[s] # "unopened" /\ s \in Below(Watched)'
  <2>1. CASE s \in seen BY <1>1, <1>2, <2>1 DEF Sightings, Advances, ScopesAdvance
  <2>2. CASE s \in Heard' /\ s \in Opening \cup Starting
    BY <2>2, HeardNext DEF Opening, Starting
  <2> QED BY <2>1, <2>2, SeenNext
<1>4. ASSUME NEW t \in Tasks \cap seen'
      PROVE  status'[t] # "unborn" /\ owner'[t] \in Below(Watched)'
  <2>1. CASE t \in seen
    <3>1. status[t] # "unborn" /\ owner[t] \in Below(Watched) /\ owner[t] # NoOne
      BY <1>1, <2>1, BelowClosed DEF Sightings, SeenTasks
    <3>2. owner'[t] = owner[t] BY <1>1, <3>1 DEF Advances, OwnersStay
    <3> QED BY <1>1, <1>2, <3>1, <3>2 DEF Advances, TasksAdvance
  <2>2. CASE t \in Heard' /\ t \in Opening \cup Starting
    BY <2>2, HeardNext, BelowClosedNext DEF Opening, Starting
  <2> QED BY <2>1, <2>2, SeenNext
<1>5. ASSUME NEW t \in Tasks, owner'[t] \in seen' PROVE t \in seen'
  <2>1. seen \subseteq Owned BY DEF Observes, Observing, Recorders
  <2>2. owner'[t] \in Scopes
    <3>1. owner'[t] \in Scopes \cup {NoOne} BY <1>1 DEF Inductive, TypeOK
    <3>2. NoOne \notin seen' BY <2>1, SeenNext DEF Opening, Starting
    <3> QED BY <1>5, <3>1, <3>2
  <2>3. owner'[t] \in seen
    BY <1>5, <2>2, SeenNext, TasksOfScope DEF Opening, Starting
  <2>4. CASE owner[t] = owner'[t] BY <1>1, <2>3, <2>4, SeenNext DEF Sightings
  <2>5. CASE t \in Starting
    <3>1. owner'[t] \in Below(Watched)' BY <1>1, <1>2, <2>2, <2>3 DEF Sightings
    <3> QED BY <2>5, <3>1, HeardNext, SeenNext
  <2> QED BY <2>2, <2>4, <2>5, TasksOfScope
<1> QED BY <1>3, <1>4, <1>5 DEF Sightings, SeenTasks

\* No task speaks after its last word.
LEMMA NewsOfUnsettled ==
  ASSUME NEW new, Observes(new), NEW e \in new, e.of \in Tasks
  PROVE  /\ e.of \notin settled
         /\ e.type \in {"started"} \cup CleanupReports \cup Ends
         /\ e.type \in Ends => e.of \in settled'
<1> USE Watching
<1>1. IsNews(new) /\ Inductive BY DEF Observes
<1>2. e.of \notin Opening \cup Announcing \cup Closed BY DEF Opening, Announcing, Closed
<1>3. \/ e.type = "started" /\ e.of \in Starting
      \/ e.type \in CleanupReports /\ e.of \in Cleaned
      \/ e.type \in Ends /\ e.of \in Ending
  BY <1>1, <1>2 DEF IsNews
<1>4. CASE e.type = "started" /\ e.of \in Starting
  BY <1>1, <1>4 DEF Starting, Inductive, Traceless
<1>5. CASE e.type \in CleanupReports /\ e.of \in Cleaned
  BY <1>5 DEF Cleaned, CleanupEnded, InCleanup, CleanupReports
<1>6. CASE e.type \in Ends /\ e.of \in Ending BY <1>6 DEF Ending
<1> QED BY <1>3, <1>4, <1>5, <1>6

\* The evidence stands, and what is kept adds to it.
LEMMA EvidenceNext ==
  ASSUME NEW new, Observes(new)
  PROVE  Evidence'
<1> USE Watching
<1> DEFINE kept == {e \in new : recorded + Cardinality({f \in new : Turn(f.type) <= Turn(e.type)})
                             <= MaxEvents}
<1>1. /\ events' = events \cup kept
      /\ afterTerminal' = afterTerminal \cup {e.of : e \in {f \in kept : Speaks(f, kept)}}
      /\ droppedEvents' = droppedEvents + Cardinality(new \ kept)
      /\ attached' = attached
  BY DEF Observes, Observe, Record
<1>2. kept \subseteq new OBVIOUS
<1> HIDE DEF kept
<1>3. Evidence /\ Recorders /\ Advances /\ IsNews(new) BY DEF Observes, Observing
<1>4. ASSUME NEW f \in kept, Speaks(f, kept) PROVE FALSE
  <2>1. f.of \in Tasks /\ f \in new BY <1>2, <1>4 DEF Speaks
  <2>2. PICK old \in events \cup kept :
          /\ old.of = f.of /\ old.type \in Ends
          /\ old \in events \/ Turn(old.type) < Turn(f.type)
    BY <1>4 DEF Speaks
  <2>3. CASE old \in events
    <3>1. old.of \in settled BY <1>3, <2>1, <2>2, <2>3 DEF Evidence
    <3> QED BY <2>1, <2>2, <3>1, NewsOfUnsettled
  <2>4. CASE Turn(old.type) < Turn(f.type)
    <3>1. Turn(old.type) = 5 BY <2>2 DEF Turn, CleanupReports
    <3>2. f.type \in {"started"} \cup CleanupReports \cup Ends BY <2>1, NewsOfUnsettled
    <3>3. Turn(f.type) \in {2, 4, 5} BY <3>2 DEF Turn, CleanupReports
    <3> QED BY <2>4, <3>1, <3>3
  <2> QED BY <2>2, <2>3, <2>4
<1>5. afterTerminal' = {} BY <1>1, <1>3, <1>4 DEF Evidence
<1>6. ASSUME NEW e \in events', e.of \in Tasks, e.type \in Ends PROVE e.of \in settled'
  BY <1>1, <1>2, <1>3, <1>6, NewsOfUnsettled DEF Evidence, Advances, TasksAdvance
<1>7. ASSUME NEW e \in events', e.type = "closing"
      PROVE  e.of \in Scopes /\ e.reason = closing'[e.of] /\ e.reason # "none"
  <2>1. CASE e \in events BY <1>3, <1>7, <2>1 DEF Evidence, Advances, ScopesAdvance
  <2>2. CASE e \in new
    <3>1. e.of \in Announcing /\ e.reason = closing'[e.of]
      BY <1>3, <1>7, <2>2 DEF IsNews, CleanupReports
    <3> QED BY <3>1 DEF Announcing
  <2> QED BY <1>1, <1>2, <2>1, <2>2
<1>8. ASSUME attached' = "early", droppedEvents' = 0, closing'[Watched] # "none"
      PROVE  Event("closing", Watched, closing'[Watched]) \in events'
  <2>1. IsFiniteSet(new \ kept) BY <1>3, FS_Subset DEF IsNews
  <2>2. Cardinality(new \ kept) \in Nat BY <2>1, FS_CardinalityType
  <2>3. droppedEvents = 0 /\ Cardinality(new \ kept) = 0
    BY <1>1, <1>3, <1>8, <2>2 DEF Recorders
  <2>4. new \subseteq kept BY <2>1, <2>3, FS_EmptySet
  <2>5. CASE closing[Watched] # "none"
    BY <1>1, <1>3, <1>8, <2>3, <2>5 DEF Evidence, Advances, ScopesAdvance
  <2>6. CASE closing[Watched] = "none"
    <3>1. Watched \in Heard' \cap Announcing
      BY <1>8, <2>6, HeardNext, BelowClosedNext DEF Announcing
    <3> QED BY <1>1, <1>3, <2>4, <3>1 DEF IsNews
  <2> QED BY <2>5, <2>6
<1>9. ASSUME NEW s \in Scopes, state'[s] = "closed" PROVE closing'[s] # "none"
  BY <1>3, <1>9 DEF Evidence, Advances, ScopesAdvance, Closed
<1> QED BY <1>5, <1>6, <1>7, <1>8, <1>9 DEF Evidence

\* The tasks seen that end in a step.
EndingAs(res) == {t \in Tasks : t \in seen' /\ t \in Ending /\ status'[t] = res}

\* A task seen that is settled was seen before, if it was settled.
LEMMA SeenBefore ==
  ASSUME NEW new, Observes(new), NEW t \in Tasks, t \in settled
  PROVE  t \in seen' <=> t \in seen
<1>1. t \notin Starting BY DEF Starting, Observes, Inductive, Traceless
<1> QED BY <1>1, SeenNext, Watching DEF Opening

\* Who has ended are those who had and those who end.
LEMMA EndedNext ==
  ASSUME NEW new, Observes(new), NEW res \in Ends
  PROVE  /\ SeenEnded(res)' = SeenEnded(res) \cup EndingAs(res)
         /\ SeenEnded(res) \cap EndingAs(res) = {}
         /\ \A s \in Scopes :
              EndedIn(s, res)' = EndedIn(s, res) \cup {t \in EndingAs(res) : owner'[t] = s}
<1> USE Watching
<1>1. Advances /\ Inductive BY DEF Observes
<1>2. \A t \in Tasks \cap settled : status[t] \in Ends /\ owner[t] \in Scopes /\ t \in settled'
  BY <1>1, SettledEnded DEF Inductive, Traceless, Advances, TasksAdvance
<1>3. \A t \in Tasks \cap settled : status'[t] = status[t] /\ owner'[t] = owner[t]
  BY <1>1, <1>2 DEF Advances, TasksAdvance, OwnersStay
<1>4. SeenEnded(res)' = SeenEnded(res) \cup EndingAs(res)
  BY <1>2, <1>3, SeenBefore DEF SeenEnded, SeenTasks, EndingAs, Ending
<1>5. SeenEnded(res) \cap EndingAs(res) = {} BY DEF SeenEnded, EndingAs, Ending
<1>6. \A s \in Scopes :
        EndedIn(s, res)' = EndedIn(s, res) \cup {t \in EndingAs(res) : owner'[t] = s}
  <2>1. \A t \in SeenEnded(res) : owner'[t] = owner[t] BY <1>3 DEF SeenEnded, SeenTasks
  <2>2. \A s : EndedIn(s, res)' = {t \in SeenEnded(res)' : owner'[t] = s} BY DEF EndedIn
  <2>3. \A s : EndedIn(s, res) = {t \in SeenEnded(res) : owner[t] = s} BY DEF EndedIn
  <2> QED BY <1>4, <2>1, <2>2, <2>3
<1> QED BY <1>4, <1>5, <1>6

\* The events of the tasks that end.
LEMMA EndingHeard ==
  ASSUME NEW new, Observes(new), NEW res \in Ends, NEW t \in Tasks, t \in seen'
  PROVE  Event(res, t, "none") \in new <=> t \in EndingAs(res)
<1>1. IsNews(new) BY DEF Observes
<1>2. t \in Heard' BY SightingsNext, HeardNext DEF Sightings, SeenTasks
<1> QED BY <1>1, <1>2 DEF IsNews, EndingAs

\* The spans are those of the tasks seen that have not settled.
LEMMA TracedNext ==
  ASSUME NEW new, Observes(new)
  PROVE  Traced'
<1> USE Watching
<1>1. /\ Traced /\ Recorders /\ Advances /\ IsNews(new) /\ Inductive /\ Inductive'
      /\ TraceSpan(new) /\ CountTask(new)
  BY DEF Observes, Observing, Observe
<1>2. spans \cup StartedIn(new) = (seen' \cap Tasks) \ settled
  <2>1. \A t \in Tasks : t \in StartedIn(new) <=> t \in Heard' /\ t \in Starting
    <3>1. \A t \in Tasks : Event("started", t, "none") \in new => t \in Heard'
      BY <1>1 DEF IsNews, Event
    <3> QED BY <1>1, <3>1 DEF StartedIn, IsNews
  <2>2. \A t \in Starting : t \notin settled BY <1>1 DEF Starting, Inductive, Traceless
  <2>3. \A t \in Tasks : t \in spans <=> t \in seen /\ t \notin settled
    BY <1>1 DEF Traced, SeenTasks
  <2>4. spans \subseteq Tasks /\ StartedIn(new) \subseteq Tasks
    BY <1>1 DEF Traced, SeenTasks, StartedIn
  <2>5. \A t \in Tasks : t \in seen' <=> t \in seen \/ t \in StartedIn(new)
    BY <2>1, SeenNext DEF Opening
  <2> QED BY <2>1, <2>2, <2>3, <2>4, <2>5
<1>3. ASSUME NEW res \in Ends
      PROVE  (spans \cup StartedIn(new)) \cap EndedAs(res, new) = EndingAs(res)
  <2>1. \A t \in Tasks : t \in seen' => (t \in EndedAs(res, new) <=> t \in EndingAs(res))
    BY EndingHeard DEF EndedAs
  <2>2. EndingAs(res) \subseteq (seen' \cap Tasks) \ settled BY DEF EndingAs, Ending
  <2>3. EndedAs(res, new) \subseteq Tasks BY DEF EndedAs
  <2> QED BY <1>2, <2>1, <2>2, <2>3
<1>4. spans' = SeenTasks' \ settled'
  <2>1. spans' = (spans \cup StartedIn(new)) \ UNION {EndedAs(res, new) : res \in Ends}
    BY <1>1 DEF TraceSpan
  <2>2. \A t \in (seen' \cap Tasks) \ settled :
          (\E res \in Ends : t \in EndedAs(res, new)) <=> t \in settled'
    <3> SUFFICES ASSUME NEW t \in (seen' \cap Tasks) \ settled
                 PROVE  (\E res \in Ends : t \in EndedAs(res, new)) <=> t \in settled'
      OBVIOUS
    <3>1. \A res \in Ends : t \in EndedAs(res, new) <=> t \in EndingAs(res)
      BY EndingHeard DEF EndedAs
    <3>2. t \in settled' => status'[t] \in Ends
      BY <1>1 DEF Inductive, TypeOK, Traceless, Cleanups
    <3> QED BY <3>1, <3>2 DEF EndingAs, Ending
  <2>3. settled \subseteq settled' BY <1>1 DEF Advances, TasksAdvance
  <2> QED BY <1>2, <2>1, <2>2, <2>3 DEF SeenTasks
<1>5. ASSUME NEW res \in Ends PROVE taskTotal'[res] = Cardinality(SeenEnded(res)')
  <2>1. taskTotal'[res] = taskTotal[res] + Cardinality(EndingAs(res))
    BY <1>1, <1>3 DEF CountTask
  <2>2. taskTotal[res] = Cardinality(SeenEnded(res)) BY <1>1 DEF Traced
  <2>3. PICK x \in Owned : ActorIs(x) BY <1>1 DEF Advances
  <2>4. EndingAs(res) \subseteq {x} BY <2>3 DEF EndingAs, ActorIs
  <2>5. IsFiniteSet(SeenEnded(res))
    <3>1. SeenEnded(res) \subseteq seen BY DEF SeenEnded, SeenTasks
    <3> QED BY <1>1, <3>1, FS_Subset DEF Recorders
  <2>6. Cardinality(SeenEnded(res) \cup EndingAs(res)) =
          Cardinality(SeenEnded(res)) + Cardinality(EndingAs(res))
    <3>1. SeenEnded(res) \cap EndingAs(res) = {} BY EndedNext
    <3> HIDE DEF EndingAs
    <3> QED BY <2>4, <2>5, <3>1, CountGrows
  <2> QED BY <2>1, <2>2, <2>6, EndedNext
<1> QED BY <1>4, <1>5 DEF Traced

\* The observers keep their types.
LEMMA RecordersNext ==
  ASSUME NEW new, Observes(new)
  PROVE  Recorders' /\ Unattached'
<1> USE Watching
<1>1. /\ Recorders /\ Unattached /\ Advances /\ IsNews(new) /\ attached # "no" /\ Observe(new)
  BY DEF Observes, Observing
<1>2. attached' = attached BY <1>1 DEF Observe
<1>3. droppedEvents' \in Nat
  <2>1. PICK kept \in SUBSET new : droppedEvents' = droppedEvents + Cardinality(new \ kept)
    BY <1>1 DEF Observe, Record
  <2>2. IsFiniteSet(new \ kept) BY <1>1, FS_Subset DEF IsNews
  <2>3. Cardinality(new \ kept) \in Nat BY <2>2, FS_CardinalityType
  <2> QED BY <1>1, <2>1, <2>3 DEF Recorders
<1>4. seen' \in SUBSET Owned /\ IsFiniteSet(seen')
  <2>1. PICK x \in Owned : ActorIs(x) BY <1>1 DEF Advances
  <2>2. seen' \subseteq seen \cup {x} BY <2>1, SeenNext DEF ActorIs
  <2>3. IsFiniteSet(seen \cup {x}) BY <1>1, FS_AddElement DEF Recorders
  <2>4. IsFiniteSet(seen') BY <2>2, <2>3, FS_Subset
  <2> QED BY <1>1, <2>2, <2>4 DEF Recorders
<1>5. DOMAIN summaries' \subseteq Scopes BY <1>1 DEF Observe, ExportSummaries, Recorders
<1>6. exports' \in [Scopes -> Nat]
  <2>1. exports \in [Scopes -> Nat] BY <1>1 DEF Recorders
  <2>2. PICK over \in SUBSET Scopes :
          exports' = [s \in Scopes |-> IF s \in over THEN exports[s] + 1 ELSE exports[s]]
    BY <1>1 DEF Observe, ExportSummaries, Recorders
  <2> QED BY <2>1, <2>2
<1>7. taskTotal' \in [Ends -> Nat]
  <2>1. \A res \in Ends : Cardinality(SeenEnded(res)') \in Nat
    <3> SUFFICES ASSUME NEW res \in Ends PROVE Cardinality(SeenEnded(res)') \in Nat
      OBVIOUS
    <3>1. SeenEnded(res)' \subseteq seen' BY DEF SeenEnded, SeenTasks
    <3>2. IsFiniteSet(SeenEnded(res)') BY <1>4, <3>1, FS_Subset
    <3> QED BY <3>2, FS_CardinalityType
  <2>2. \A res \in Ends : taskTotal'[res] \in Nat BY <2>1, TracedNext DEF Traced
  <2>3. taskTotal' = [res \in Ends |-> taskTotal'[res]] BY <1>1 DEF Observe, CountTask
  <2> QED BY <2>2, <2>3
<1>8. state'[Watched] # "unopened" BY <1>1 DEF Unattached, Advances, ScopesAdvance
<1> QED BY <1>1, <1>2, <1>3, <1>4, <1>5, <1>6, <1>7, <1>8 DEF Recorders, Unattached
----------------------------------------------------------------------------
\* The tasks of a scope seen that begin in a step.
StartingOf(s) == {t \in Starting : t \in seen' /\ owner'[t] = s}
EndingOf(s, res) == {t \in EndingAs(res) : owner'[t] = s}

\* The tasks of a scope are those it had and those that begin.
LEMMA OwnedNext ==
  ASSUME NEW new, Observes(new), NEW s \in Scopes
  PROVE  OwnedBy(s)' = OwnedBy(s) \cup StartingOf(s) /\ OwnedBy(s) \cap StartingOf(s) = {}
<1> USE Watching
<1>1. Advances /\ Sightings BY DEF Observes, Observing
<1>2. ASSUME NEW t \in SeenTasks
      PROVE  owner'[t] = owner[t] /\ t \notin Starting /\ t \in SeenTasks'
  <2>1. status[t] # "unborn" /\ owner[t] # NoOne
    BY <1>1, BelowClosed DEF Sightings, SeenTasks
  <2> QED BY <1>1, <2>1, SeenNext DEF SeenTasks, Advances, OwnersStay, Starting
<1>3. ASSUME NEW t \in SeenTasks', t \notin SeenTasks PROVE t \in Starting
  BY <1>3, SeenNext DEF SeenTasks, Opening
<1>4. \A t \in Starting : t \in Tasks BY DEF Starting
<1> QED BY <1>2, <1>3, <1>4 DEF OwnedBy, StartingOf, SeenTasks

\* The events counted in a summary are those of the tasks of its scope that begin,
LEMMA StartsTold ==
  ASSUME NEW new, Observes(new), NEW s \in Scopes, NEW x \in Owned, ActorIs(x)
  PROVE  /\ OfScope(new, s, {"started"}) \subseteq {Event("started", x, "none")}
         /\ OfScope(new, s, {"started"}) = {} <=> StartingOf(s) = {}
<1> USE Watching
<1>1. IsNews(new) BY DEF Observes
<1>2. ASSUME NEW e \in OfScope(new, s, {"started"})
      PROVE  e = Event("started", x, "none") /\ e.of \in StartingOf(s)
  <2>1. /\ e \in new /\ e.type = "started"
        /\ e.of = s \/ (e.of \in Tasks /\ owner'[e.of] = s /\ e.of \in seen')
    BY DEF OfScope
  <2>2. e.of \in Starting /\ e = Event("started", e.of, "none")
    BY <1>1, <2>1 DEF IsNews, CleanupReports
  <2>3. e.of # s BY <2>2 DEF Starting
  <2> QED BY <2>1, <2>2, <2>3 DEF StartingOf, ActorIs
<1>3. ASSUME NEW t \in StartingOf(s)
      PROVE  Event("started", t, "none") \in OfScope(new, s, {"started"})
  <2>1. t \in Tasks /\ t \in Starting /\ t \in seen' /\ owner'[t] = s
    BY DEF StartingOf, Starting
  <2>2. t \in Heard' BY <2>1, SightingsNext, HeardNext DEF Sightings, SeenTasks
  <2>3. Event("started", t, "none") \in new BY <1>1, <2>1, <2>2 DEF IsNews
  <2>4. Event("started", t, "none").of = t /\ Event("started", t, "none").type = "started"
    BY DEF Event
  <2> QED BY <2>1, <2>3, <2>4 DEF OfScope
<1> QED BY <1>2, <1>3

\* that end,
LEMMA EndsTold ==
  ASSUME NEW new, Observes(new), NEW s \in Scopes, NEW x \in Owned, ActorIs(x), NEW res \in Ends
  PROVE  /\ OfScope(new, s, {res}) \subseteq {Event(res, x, "none")}
         /\ OfScope(new, s, {res}) = {} <=> EndingOf(s, res) = {}
<1> USE Watching
<1>1. IsNews(new) BY DEF Observes
<1>2. ASSUME NEW e \in OfScope(new, s, {res})
      PROVE  e = Event(res, x, "none") /\ e.of \in EndingOf(s, res)
  <2>1. /\ e \in new /\ e.type = res
        /\ e.of = s \/ (e.of \in Tasks /\ owner'[e.of] = s /\ e.of \in seen')
    BY DEF OfScope
  <2>2. e.of \in Ending /\ res = status'[e.of] /\ e = Event(status'[e.of], e.of, "none")
    BY <1>1, <2>1 DEF IsNews, CleanupReports
  <2>3. e.of \in Tasks BY <2>2 DEF Ending, Observes, Inductive, TypeOK
  <2> QED BY <2>1, <2>2, <2>3 DEF EndingOf, EndingAs, ActorIs
<1>3. ASSUME NEW t \in EndingOf(s, res)
      PROVE  Event(res, t, "none") \in OfScope(new, s, {res})
  <2>1. t \in Tasks /\ t \in EndingAs(res) /\ t \in seen' /\ owner'[t] = s
    BY DEF EndingOf, EndingAs
  <2>2. Event(res, t, "none") \in new BY <2>1, EndingHeard
  <2>3. Event(res, t, "none").of = t /\ Event(res, t, "none").type = res
    BY DEF Event
  <2> QED BY <2>1, <2>2, <2>3 DEF OfScope
<1> QED BY <1>2, <1>3

\* and its closing.
LEMMA ClosingTold ==
  ASSUME NEW new, Observes(new), NEW s \in Scopes, s \in seen'
  PROVE  OfScope(new, s, {"closing"}) # {} <=> s \in Announcing
<1> USE Watching
<1>1. IsNews(new) BY DEF Observes
<1>2. ASSUME NEW e \in OfScope(new, s, {"closing"}) PROVE s \in Announcing
  <2>1. /\ e \in new /\ e.type = "closing" /\ (e.of = s \/ e.of \in Tasks) BY DEF OfScope
  <2>2. e.of \in Announcing BY <1>1, <2>1 DEF IsNews, CleanupReports
  <2> QED BY <2>1, <2>2 DEF Announcing
<1>3. ASSUME s \in Announcing PROVE Event("closing", s, closing'[s]) \in OfScope(new, s, {"closing"})
  <2>1. s \in Heard' BY SightingsNext, HeardNext DEF Sightings
  <2>2. Event("closing", s, closing'[s]) \in new BY <1>1, <1>3, <2>1 DEF IsNews
  <2>3. /\ Event("closing", s, closing'[s]).of = s
        /\ Event("closing", s, closing'[s]).type = "closing"
    BY DEF Event
  <2> QED BY <2>2, <2>3 DEF OfScope
<1> QED BY <1>2, <1>3

\* What a summary counts after a step it was known before.
LEMMA SummaryCounts ==
  ASSUME NEW new, Observes(new), NEW s \in DOMAIN summaries
  PROVE  CountsOf(Summarize(summaries[s], new, s), OwnedBy(s)',
                  [res \in Ends |-> EndedIn(s, res)'], closing'[s])
<1> USE Watching
<1> DEFINE m == summaries[s]
           n == Summarize(m, new, s)
           told(types) == OfScope(new, s, types) # {}
           number(types) == Cardinality(OfScope(new, s, types))
           announced == IF told({"closing"}) THEN ClosingOutcome(m.outcome, closing'[s])
                                             ELSE m.outcome
<1>1. /\ n.outcome = IF told({"failed"} \cup CleanupReports) THEN "errored"
                     ELSE IF told({"cancelled"}) THEN ClosingOutcome(announced, "cancelled")
                     ELSE announced
      /\ n.started = m.started + number({"started"})
      /\ n.ended = [res \in Ends |-> m.ended[res] + number({res})]
      /\ n.cleanupFailed = m.cleanupFailed + number(CleanupReports)
  BY DEF Summarize
<1>2. /\ s \in Scopes /\ s \in seen /\ state[s] # "closed" /\ s \in seen'
      /\ CountsOf(m, OwnedBy(s), [res \in Ends |-> EndedIn(s, res)], closing[s])
  <2>1. Summarized /\ Recorders BY DEF Observes, Observing
  <2>2. s \in Scopes BY <2>1 DEF Recorders
  <2>3. Counts(s, m) /\ s \in seen /\ state[s] # "closed" BY <2>1, <2>2 DEF Summarized
  <2> QED BY <2>2, <2>3, SeenNext DEF Counts
<1> HIDE DEF n, m
<1>3. PICK x \in Owned : ActorIs(x) BY DEF Observes, Advances
<1>4. IsFiniteSet(seen) BY DEF Observes, Observing, Recorders
<1>5. n.started = Cardinality(OwnedBy(s)')
  <2>1. OwnedBy(s) \subseteq seen BY DEF OwnedBy, SeenTasks
  <2>2. IsFiniteSet(OwnedBy(s)) BY <1>4, <2>1, FS_Subset
  <2>3. StartingOf(s) \subseteq {x} BY <1>3 DEF StartingOf, ActorIs
  <2>4. /\ OfScope(new, s, {"started"}) \subseteq {Event("started", x, "none")}
        /\ OfScope(new, s, {"started"}) = {} <=> StartingOf(s) = {}
    BY <1>2, <1>3, StartsTold
  <2>5. OwnedBy(s) \cap StartingOf(s) = {} BY <1>2, OwnedNext
  <2>6. Cardinality(OwnedBy(s) \cup StartingOf(s)) = Cardinality(OwnedBy(s)) + number({"started"})
    BY <2>2, <2>3, <2>4, <2>5, CountGrows
  <2>7. m.started = Cardinality(OwnedBy(s)) BY <1>2 DEF CountsOf
  <2> QED BY <1>1, <1>2, <2>6, <2>7, OwnedNext
<1>6. ASSUME NEW res \in Ends
      PROVE  /\ n.ended[res] = Cardinality(EndedIn(s, res)') /\ n.ended[res] \in Nat
             /\ EndedIn(s, res)' = EndedIn(s, res) \cup EndingOf(s, res)
             /\ told({res}) <=> EndingOf(s, res) # {}
  <2>1. EndedIn(s, res) \subseteq seen BY DEF EndedIn, SeenEnded, SeenTasks
  <2>2. IsFiniteSet(EndedIn(s, res)) BY <1>4, <2>1, FS_Subset
  <2>3. EndingOf(s, res) \subseteq {x} BY <1>3 DEF EndingOf, EndingAs, ActorIs
  <2>4. /\ OfScope(new, s, {res}) \subseteq {Event(res, x, "none")}
        /\ OfScope(new, s, {res}) = {} <=> EndingOf(s, res) = {}
    BY <1>2, <1>3, EndsTold
  <2>5. EndedIn(s, res) \cap EndingOf(s, res) = {} BY EndedNext DEF EndedIn, EndingOf
  <2>6. /\ Cardinality(EndedIn(s, res) \cup EndingOf(s, res))
             = Cardinality(EndedIn(s, res)) + number({res})
        /\ Cardinality(EndedIn(s, res)) \in Nat /\ number({res}) \in Nat
    <3>1. PICK S, G, A, a : /\ S = EndedIn(s, res) /\ G = EndingOf(s, res)
                            /\ A = OfScope(new, s, {res}) /\ a = Event(res, x, "none")
      OBVIOUS
    <3>2. /\ IsFiniteSet(S) /\ G \subseteq {x} /\ S \cap G = {}
          /\ A \subseteq {a} /\ (A = {} <=> G = {})
      BY <2>2, <2>3, <2>4, <2>5, <3>1
    <3>3. /\ Cardinality(S \cup G) = Cardinality(S) + Cardinality(A)
          /\ Cardinality(S) \in Nat /\ Cardinality(A) \in Nat
      <4>1. Cardinality(S \cup G) = Cardinality(S) + Cardinality(A) BY <3>2, CountGrows
      <4>2. Cardinality(S) \in Nat BY <3>2, FS_CardinalityType
      <4>3. Cardinality(A) \in Nat BY <3>2, FS_CardinalityType, FS_Singleton, FS_Subset
      <4> QED BY <4>1, <4>2, <4>3
    <3> QED BY <3>1, <3>3
  <2>7. m.ended[res] = Cardinality(EndedIn(s, res)) BY <1>2 DEF CountsOf
  <2>8. EndedIn(s, res)' = EndedIn(s, res) \cup EndingOf(s, res)
    BY <1>2, EndedNext DEF EndingOf
  <2>9. n.ended[res] = m.ended[res] + number({res}) BY <1>1
  <2>10. n.ended[res] = Cardinality(EndedIn(s, res)') /\ n.ended[res] \in Nat
    BY <2>6, <2>7, <2>8, <2>9
  <2> QED BY <2>4, <2>8, <2>10
<1>7. n.ended \in [Ends -> Nat]
  <2>1. n.ended = [res \in Ends |-> n.ended[res]] BY <1>1
  <2> QED BY <1>6, <2>1
<1>8. n.cleanupFailed \in Nat /\ (n.cleanupFailed # 0 => m.cleanupFailed # 0 \/ told(CleanupReports))
  <2>1. OfScope(new, s, CleanupReports) \subseteq new BY DEF OfScope
  <2>2. IsFiniteSet(OfScope(new, s, CleanupReports))
    BY <2>1, FS_Subset DEF Observes, IsNews
  <2>3. number(CleanupReports) \in Nat /\ (number(CleanupReports) # 0 => told(CleanupReports))
    BY <2>2, FS_CardinalityType, FS_EmptySet
  <2>4. m.cleanupFailed \in Nat BY <1>2 DEF CountsOf
  <2> QED BY <1>1, <2>3, <2>4
<1>9. /\ told({"failed"}) => told({"failed"} \cup CleanupReports)
      /\ told(CleanupReports) => told({"failed"} \cup CleanupReports)
  BY DEF OfScope
<1>10. told({"closing"}) <=> closing[s] = "none" /\ closing'[s] # "none"
  BY <1>2, ClosingTold DEF Announcing
<1>11. closing'[s] = "completed" => ~told({"cancelled"})
  <2>1. ASSUME closing'[s] = "completed" PROVE EndingOf(s, "cancelled") = {}
    <3>1. state'[s] = "closed" BY <1>2, <2>1 DEF Observes, Inductive, Lifecycle
    <3>2. s \in Closed BY <1>2, <3>1 DEF Closed
    <3>3. s = x BY <1>3, <3>2 DEF ActorIs
    <3> QED BY <1>2, <1>3, <3>3 DEF ActorIs, EndingOf, EndingAs
  <2>2. "cancelled" \in Ends OBVIOUS
  <2> QED BY <1>6, <2>1, <2>2
<1>12. /\ closing'[s] \in {"none", "completed", "errored", "cancelled"}
       /\ closing[s] # "none" => closing'[s] = closing[s]
  BY <1>2 DEF Observes, Inductive, TypeOK, Advances, ScopesAdvance
<1>13. /\ m.outcome \in {"completed", "errored", "cancelled"}
       /\ EndedIn(s, "failed") # {} \/ m.cleanupFailed # 0 \/ closing[s] = "errored"
            => m.outcome = "errored"
       /\ closing[s] = "cancelled" => m.outcome \in {"cancelled", "errored"}
       /\ closing[s] = "completed" => m.outcome \in {"completed", "errored"}
  BY <1>2 DEF CountsOf
<1>14. EndedIn(s, "failed")' # {} => EndedIn(s, "failed") # {} \/ told({"failed"})
  BY <1>6
<1> HIDE DEF told, number
<1>15. /\ announced \in {"completed", "errored", "cancelled"}
       /\ m.outcome = "errored" \/ closing'[s] = "errored" => announced = "errored"
       /\ closing'[s] = "cancelled" => announced \in {"cancelled", "errored"}
       /\ closing'[s] = "completed" => announced \in {"completed", "errored"}
  BY <1>10, <1>12, <1>13 DEF ClosingOutcome
<1> HIDE DEF announced
<1>16. /\ n.outcome \in {"completed", "errored", "cancelled"}
       /\ announced = "errored" \/ told({"failed"} \cup CleanupReports) => n.outcome = "errored"
       /\ announced = "cancelled" => n.outcome \in {"cancelled", "errored"}
       /\ announced \in {"completed", "errored"} /\ ~told({"cancelled"})
            => n.outcome \in {"completed", "errored"}
  BY <1>1, <1>15 DEF ClosingOutcome
<1>17. /\ EndedIn(s, "failed")' # {} \/ n.cleanupFailed # 0 \/ closing'[s] = "errored"
            => n.outcome = "errored"
       /\ closing'[s] = "cancelled" => n.outcome \in {"cancelled", "errored"}
       /\ closing'[s] = "completed" => n.outcome \in {"completed", "errored"}
  BY <1>8, <1>9, <1>11, <1>13, <1>14, <1>15, <1>16
<1> QED BY <1>5, <1>6, <1>7, <1>8, <1>16, <1>17 DEF CountsOf, n, m

\* The summary of a scope just opened counts nothing.
LEMMA EmptyCounts ==
  ASSUME NEW new, Observes(new), NEW s \in Opening
  PROVE  CountsOf(EmptySummary, OwnedBy(s)', [res \in Ends |-> EndedIn(s, res)'], closing'[s])
<1> USE Watching
<1>1. s \in Scopes /\ state[s] = "unopened" /\ state'[s] = "running" BY DEF Opening
<1>2. OwnedBy(s)' = {}
  <2>1. ASSUME NEW t \in Tasks, owner'[t] = s PROVE FALSE BY <1>1, <2>1, TasksOfScope
  <2> QED BY <2>1 DEF OwnedBy, SeenTasks
<1>3. ASSUME NEW res \in Ends PROVE EndedIn(s, res)' = {}
  BY <1>2 DEF EndedIn, SeenEnded, OwnedBy
<1>4. closing'[s] = "none" BY <1>1 DEF Observes, Inductive, Lifecycle
<1>5. Cardinality({}) = 0 BY FS_EmptySet
<1> QED BY <1>2, <1>3, <1>4, <1>5 DEF CountsOf, EmptySummary

\* A closed scope has joined the tasks it owned before its drain.
LEMMA JoinedSettled ==
  ASSUME Inductive, NEW t \in Tasks, owner[t] \in Scopes, state[owner[t]] = "closed", t \notin Late
  PROVE  t \in settled
<1>1. born[t] = "body" BY Watching DEF Late, Inductive, TypeOK, Traceless
<1> QED BY <1>1, Watching DEF Inductive, Lifecycle, Joining, Ended

\* What a summary counts when its scope closes is true of the scope.
CountsTell ==
  Inductive /\ Sightings /\ IsFiniteSet(seen) =>
    \A s \in Scopes \cap seen : \A m :
      /\ state[s] = "closed" /\ closing[s] # "none"
      /\ CountsOf(m, OwnedBy(s), [res \in Ends |-> EndedIn(s, res)], closing[s])
      => SummaryTells(s, m)
\* Of the tasks a scope owned before it closed none is missing.
LEMMA ClosedTells == CountsTell
<1> SUFFICES ASSUME Inductive, Sightings, IsFiniteSet(seen), NEW s \in Scopes \cap seen,
                    state[s] = "closed", closing[s] # "none",
                    NEW m, CountsOf(m, OwnedBy(s), [res \in Ends |-> EndedIn(s, res)], closing[s])
             PROVE  SummaryTells(s, m)
  BY DEF CountsTell
<1> USE Watching
<1>1. ASSUME NEW res \in Ends
      PROVE  /\ Joined(s, res) \subseteq EndedIn(s, res) /\ IsFiniteSet(EndedIn(s, res))
             /\ m.ended[res] = Cardinality(EndedIn(s, res))
  <2>1. \A t \in Joined(s, res) : t \in EndedIn(s, res)
    BY JoinedSettled DEF Joined, EndedIn, SeenEnded, SeenTasks, Sightings
  <2>2. EndedIn(s, res) \subseteq seen BY DEF EndedIn, SeenEnded, SeenTasks
  <2>3. IsFiniteSet(EndedIn(s, res)) BY <2>2, FS_Subset
  <2> QED BY <2>1, <2>3 DEF CountsOf
<1>2. ASSUME NEW res \in Ends PROVE m.ended[res] >= Cardinality(Joined(s, res))
  <2>1. /\ Cardinality(Joined(s, res)) <= Cardinality(EndedIn(s, res))
    BY <1>1, FS_Subset
  <2>2. Joined(s, res) \in SUBSET EndedIn(s, res) BY <1>1
  <2>3. IsFiniteSet(Joined(s, res)) BY <1>1, <2>2, FS_Subset
  <2>4. Cardinality(Joined(s, res)) \in Nat /\ Cardinality(EndedIn(s, res)) \in Nat
    BY <1>1, <2>3, FS_CardinalityType
  <2> QED BY <1>1, <2>1, <2>4
<1>3. m.started >= m.ended["succeeded"] + m.ended["failed"] + m.ended["cancelled"]
  <2>1. PICK A, B, C : /\ A = EndedIn(s, "succeeded") /\ B = EndedIn(s, "failed")
                       /\ C = EndedIn(s, "cancelled")
    OBVIOUS
  <2>2. IsFiniteSet(A) /\ IsFiniteSet(B) /\ IsFiniteSet(C) BY <1>1, <2>1
  <2>3. A \cap B = {} /\ (A \cup B) \cap C = {} BY <2>1 DEF EndedIn, SeenEnded
  <2>4. A \cup B \cup C \in SUBSET OwnedBy(s)
    BY <2>1 DEF EndedIn, SeenEnded, OwnedBy, SeenTasks
  <2>5. IsFiniteSet(OwnedBy(s))
    <3>1. OwnedBy(s) \subseteq seen BY DEF OwnedBy, SeenTasks
    <3> QED BY <3>1, FS_Subset
  <2>6. /\ IsFiniteSet(A \cup B)
        /\ Cardinality(A \cup B) = Cardinality(A) + Cardinality(B) - Cardinality(A \cap B)
    BY <2>2, FS_Union
  <2>7. Cardinality((A \cup B) \cup C)
          = Cardinality(A \cup B) + Cardinality(C) - Cardinality((A \cup B) \cap C)
    BY <2>2, <2>6, FS_Union
  <2>8. Cardinality(A \cup B \cup C) <= Cardinality(OwnedBy(s)) BY <2>4, <2>5, FS_Subset
  <2>9. /\ Cardinality(A) \in Nat /\ Cardinality(B) \in Nat /\ Cardinality(C) \in Nat
        /\ Cardinality(OwnedBy(s)) \in Nat
    BY <2>2, <2>5, FS_CardinalityType
  <2>10. Cardinality(A \cup B \cup C) = Cardinality(A) + Cardinality(B) + Cardinality(C)
    <3>1. Cardinality({}) = 0 BY FS_EmptySet
    <3>2. Cardinality(A \cap B) = 0 /\ Cardinality((A \cup B) \cap C) = 0 BY <2>3, <3>1
    <3>3. Cardinality(A \cup B) = Cardinality(A) + Cardinality(B) BY <2>6, <2>9, <3>2
    <3>4. Cardinality((A \cup B) \cup C) = Cardinality(A \cup B) + Cardinality(C)
      BY <2>6, <2>7, <2>9, <3>2, <3>3
    <3> QED BY <3>3, <3>4
  <2>11. /\ m.ended["succeeded"] = Cardinality(A) /\ m.ended["failed"] = Cardinality(B)
         /\ m.ended["cancelled"] = Cardinality(C) /\ m.started = Cardinality(OwnedBy(s))
    BY <1>1, <2>1 DEF CountsOf
  <2> QED BY <2>8, <2>9, <2>10, <2>11
<1>4. closing[s] \in {"completed", "errored", "cancelled"} BY DEF Inductive, TypeOK
<1>5. /\ m.outcome \in {"completed", "errored", "cancelled"}
      /\ EndedIn(s, "failed") # {} \/ m.cleanupFailed # 0 \/ closing[s] = "errored"
           => m.outcome = "errored"
      /\ closing[s] = "cancelled" => m.outcome \in {"cancelled", "errored"}
      /\ closing[s] = "completed" => m.outcome \in {"completed", "errored"}
  BY DEF CountsOf
<1>6. Joined(s, "failed") # {} => EndedIn(s, "failed") # {} BY <1>1
<1> QED BY <1>2, <1>3, <1>4, <1>5, <1>6 DEF SummaryTells

\* So it is after a step.
LEMMA ClosedTellsNext == CountsTell'
  BY ClosedTells, PTL

\* A summary that was true of a closed scope stays true of it.
LEMMA TellsStays ==
  ASSUME Inductive, Inductive', Advances, Evidence, NEW s \in Scopes, state[s] = "closed",
         NEW m, SummaryTells(s, m)
  PROVE  SummaryTells(s, m)'
<1> USE Watching
<1>1. closing'[s] = closing[s] BY DEF Evidence, Advances, ScopesAdvance
<1>2. ASSUME NEW t \in Tasks, owner[t] = s
      PROVE  owner'[t] = s /\ born'[t] = born[t] /\ (t \in settled => status'[t] = status[t])
  BY <1>2, SettledEnded DEF Advances, OwnersStay, TasksAdvance
<1>3. ASSUME NEW t \in Tasks, owner'[t] = s PROVE owner[t] = s
  <2>1. owner[t] = NoOne => status[t] = "unborn" BY DEF Inductive, Traceless
  <2>2. status'[t] # "unborn" BY <1>3 DEF Inductive, Traceless
  <2>3. owner[t] = NoOne => state[s] = "running"
    BY <1>3, <2>1, <2>2 DEF Starting, Advances, TasksAdvance
  <2> QED BY <1>3, <2>3 DEF Advances, OwnersStay
<1>4. ASSUME NEW res \in Ends PROVE Joined(s, res)' = Joined(s, res)
  <2>1. ASSUME NEW t \in Tasks, owner[t] = s
        PROVE  /\ t \in Late' <=> t \in Late
               /\ t \notin Late => status'[t] = status[t]
    BY <1>2, <2>1, JoinedSettled DEF Late
  <2> QED BY <1>2, <1>3, <2>1 DEF Joined
<1> QED BY <1>1, <1>4 DEF SummaryTells

\* Every summary goes on counting, and is exported when its scope closes.
LEMMA SummarizedNext ==
  ASSUME NEW new, Observes(new)
  PROVE  Summarized'
<1> USE Watching
<1>1. /\ Summarized /\ Recorders /\ Sightings /\ Evidence /\ Advances /\ Inductive /\ Inductive'
      /\ IsNews(new) /\ ExportSummaries(new)
  BY DEF Observes, Observing, Observe
<1>2. PICK known, over :
        /\ known = DOMAIN summaries \cup {s \in Scopes : Event("opened", s, "none") \in new}
        /\ over = {s \in known : Event("closed", s, "none") \in new}
        /\ summaries' = [s \in known \ over |-> Ingest(new, s)]
        /\ exported' = [s \in DOMAIN exported \cup over |->
                          IF s \in over THEN Ingest(new, s) ELSE exported[s]]
        /\ exports' = [s \in Scopes |-> IF s \in over THEN exports[s] + 1 ELSE exports[s]]
  BY <1>1 DEF ExportSummaries
<1>3. \A s \in Scopes : Event("opened", s, "none") \in new <=> s \in Heard' /\ s \in Opening
  <2>1. \A s \in Scopes : Event("opened", s, "none") \in new => s \in Heard'
    <3>1. \A s : Event("opened", s, "none").of = s BY DEF Event
    <3> QED BY <1>1, <3>1 DEF IsNews
  <2> QED BY <1>1, <2>1 DEF IsNews
<1>4. \A s \in Scopes : s \in DOMAIN summaries <=> s \in seen /\ state[s] # "closed"
  BY <1>1 DEF Summarized
<1>5. \A s \in Scopes : s \in known <=> s \in seen' /\ state[s] # "closed"
  <2>1. \A s \in Scopes : s \in seen' <=> s \in seen \/ Event("opened", s, "none") \in new
    BY <1>3, SeenNext DEF Starting
  <2>2. \A s \in Opening : state[s] # "closed" BY DEF Opening
  <2> QED BY <1>2, <1>3, <1>4, <2>1, <2>2
<1>6. known \subseteq Scopes BY <1>1, <1>2 DEF Recorders
<1>7. \A s \in known : s \in over <=> state'[s] = "closed"
  <2> SUFFICES ASSUME NEW s \in known PROVE s \in over <=> state'[s] = "closed" OBVIOUS
  <2>1. s \in Scopes /\ s \in seen' /\ state[s] # "closed" BY <1>5, <1>6
  <2>2. s \in Heard' BY <2>1, SightingsNext, HeardNext DEF Sightings
  <2>3. s \in over <=> s \in Closed BY <1>1, <1>2, <2>2 DEF IsNews
  <2> QED BY <2>1, <2>3 DEF Closed
<1>8. \A s \in Scopes : state[s] = "closed" => state'[s] = "closed" /\ (s \in seen' <=> s \in seen)
  <2>1. \A s \in Opening : state[s] # "closed" BY DEF Opening
  <2> QED BY <1>1, <2>1, SeenNext DEF Advances, ScopesAdvance, Starting
<1>9. ASSUME NEW s \in known
      PROVE  CountsOf(Ingest(new, s), OwnedBy(s)', [res \in Ends |-> EndedIn(s, res)'], closing'[s])
  <2>1. CASE Event("opened", s, "none") \in new
    BY <1>3, <1>6, <2>1, EmptyCounts DEF Ingest
  <2>2. CASE Event("opened", s, "none") \notin new
    BY <1>2, <2>2, SummaryCounts DEF Ingest
  <2> QED BY <2>1, <2>2
<1>10. \A s \in Scopes : s \in DOMAIN summaries' <=> s \in seen' /\ state'[s] # "closed"
  BY <1>2, <1>5, <1>6, <1>7, <1>8
<1>11. ASSUME NEW s \in DOMAIN summaries' PROVE Counts(s, summaries[s])'
  <2>1. s \in known /\ summaries'[s] = Ingest(new, s) BY <1>2, <1>11
  <2> QED BY <1>9, <2>1 DEF Counts
<1>12. ASSUME NEW s \in Scopes
       PROVE  exports'[s] = IF s \in seen' /\ state'[s] = "closed" THEN 1 ELSE 0
  <2>1. exports'[s] = IF s \in over THEN exports[s] + 1 ELSE exports[s] BY <1>2
  <2>2. exports[s] = IF s \in seen /\ state[s] = "closed" THEN 1 ELSE 0
    BY <1>1 DEF Summarized
  <2>3. s \in over => s \in known BY <1>2
  <2> QED BY <1>5, <1>7, <1>8, <2>1, <2>2, <2>3
<1>13. ASSUME NEW s \in Scopes, exports'[s] = 1
       PROVE  s \in DOMAIN exported' /\ SummaryTells(s, exported[s])'
  <2>1. s \in seen' /\ state'[s] = "closed" BY <1>12, <1>13
  <2>2. CASE s \in over
    <3>1. s \in known /\ exported'[s] = Ingest(new, s) /\ s \in DOMAIN exported' BY <1>2, <2>2
    <3>2. closing'[s] # "none" BY <2>1, EvidenceNext DEF Evidence
    <3>3. Sightings' /\ IsFiniteSet(seen') BY SightingsNext, RecordersNext DEF Recorders
    <3>4. CountsOf(exported'[s], OwnedBy(s)', [res \in Ends |-> EndedIn(s, res)'], closing'[s])
      BY <1>9, <3>1
    <3>5. SummaryTells(s, exported[s])'
      BY <1>1, <2>1, <3>2, <3>3, <3>4, ClosedTellsNext DEF CountsTell
    <3> QED BY <3>1, <3>5
  <2>3. CASE s \notin over
    <3>1. state[s] = "closed" /\ s \in seen BY <1>5, <1>7, <1>8, <2>1, <2>3
    <3>2. exports[s] = 1 BY <1>1, <3>1 DEF Summarized
    <3>3. s \in DOMAIN exported /\ SummaryTells(s, exported[s]) BY <1>1, <3>2 DEF Summarized
    <3>4. s \in DOMAIN exported' /\ exported'[s] = exported[s] BY <1>2, <2>3, <3>3
    <3>5. PICK m : m = exported[s] OBVIOUS
    <3>6. SummaryTells(s, m)' BY <1>1, <3>1, <3>3, <3>5, TellsStays
    <3>7. SummaryTells(s, exported[s])' BY <3>4, <3>5, <3>6 DEF SummaryTells
    <3> QED BY <3>4, <3>7
  <2> QED BY <2>2, <2>3
<1> QED BY <1>10, <1>11, <1>12, <1>13 DEF Summarized

\* So goes everything that is observed.
LEMMA ObservingNext ==
  ASSUME NEW new, Observes(new)
  PROVE  Observing'
  BY RecordersNext, EvidenceNext, SightingsNext, TracedNext, SummarizedNext DEF Observing
----------------------------------------------------------------------------
\* Before the observers are attached they see nothing.
LEMMA UnattachedNext ==
  ASSUME Inductive, Inductive', Advances, Observing, attached = "no", UNCHANGED observerVars
  PROVE  Observing'
<1> USE Watching
<1>1. /\ Recorders /\ Unattached /\ Evidence /\ Traced /\ Summarized
      /\ events = {} /\ seen = {} /\ SeenTasks = {}
  BY DEF Observing, Unattached, SeenTasks
<1>2. /\ attached' = attached /\ events' = events /\ droppedEvents' = droppedEvents
      /\ afterTerminal' = afterTerminal /\ spans' = spans /\ taskTotal' = taskTotal
      /\ summaries' = summaries /\ exported' = exported /\ exports' = exports /\ seen' = seen
  BY DEF observerVars
<1>3. SeenTasks' = {} BY <1>1, <1>2 DEF SeenTasks
<1>4. Recorders' /\ Unattached' BY <1>1, <1>2 DEF Recorders, Unattached
<1>5. Evidence' BY <1>1, <1>2 DEF Evidence, Advances, ScopesAdvance, Closed
<1>6. Sightings' BY <1>1, <1>2, <1>3 DEF Sightings
<1>7. Traced'
  <2>1. \A res : SeenEnded(res) = {} BY <1>1 DEF SeenEnded
  <2>2. \A res : SeenEnded(res)' = {} BY <1>3 DEF SeenEnded
  <2> QED BY <1>1, <1>2, <1>3, <2>1, <2>2 DEF Traced
<1>8. Summarized'
  <2>1. DOMAIN summaries = {} BY <1>1 DEF Recorders, Summarized
  <2>2. \A s \in Scopes : exports[s] = 0 BY <1>1 DEF Summarized
  <2> QED BY <1>1, <1>2, <2>1, <2>2 DEF Summarized
<1> QED BY <1>4, <1>5, <1>6, <1>7, <1>8 DEF Observing

\* Attaching them changes nothing else, nor does a step that changes nothing.
LEMMA AttachNext ==
  ASSUME Observing, Inductive, Attach \/ UNCHANGED <<vars, observerVars>>
  PROVE  Observing'
<1> USE Watching
<1>1. /\ owner' = owner /\ status' = status /\ settled' = settled /\ state' = state
      /\ closing' = closing /\ born' = born /\ vars' = vars
      /\ events' = events /\ droppedEvents' = droppedEvents
      /\ afterTerminal' = afterTerminal /\ spans' = spans /\ taskTotal' = taskTotal
      /\ summaries' = summaries /\ exported' = exported /\ exports' = exports /\ seen' = seen
  BY DEF Attach, vars, observerVars
<1>2. \/ attached' = attached
      \/ /\ attached' \in {"early", "late"} /\ state[Watched] # "unopened"
         /\ attached' = "early" => closing[Watched] = "none"
  BY DEF Attach, observerVars
<1>3. Below(Watched)' = Below(Watched) BY <1>1 DEF Below
<1>4. /\ SeenTasks' = SeenTasks /\ Late' = Late
      /\ \A res : SeenEnded(res)' = SeenEnded(res)
      /\ \A s : OwnedBy(s)' = OwnedBy(s)
      /\ \A s, res : EndedIn(s, res)' = EndedIn(s, res) /\ Joined(s, res)' = Joined(s, res)
  BY <1>1 DEF SeenTasks, SeenEnded, OwnedBy, EndedIn, Joined, Late
<1>5. Recorders' /\ Unattached'
  BY <1>1, <1>2 DEF Observing, Recorders, Unattached
<1>6. Evidence' BY <1>1, <1>2 DEF Observing, Evidence
<1>7. Sightings' BY <1>1, <1>3, <1>4 DEF Observing, Sightings
<1>8. Traced' BY <1>1, <1>4 DEF Observing, Traced
<1>9. Summarized' BY <1>1, <1>4 DEF Observing, Summarized, Counts, CountsOf, SummaryTells
<1> QED BY <1>5, <1>6, <1>7, <1>8, <1>9 DEF Observing

\* Nothing is observed at first.
LEMMA InitObserving == ObserversInit => Inductive /\ Observing
<1> SUFFICES ASSUME ObserversInit PROVE Inductive /\ Observing OBVIOUS
<1> USE Watching
<1>1. Init /\ Inductive BY InitInductive DEF ObserversInit
<1>2. /\ attached = "no" /\ events = {} /\ droppedEvents = 0 /\ afterTerminal = {}
      /\ spans = {} /\ taskTotal = [res \in Ends |-> 0] /\ DOMAIN summaries = {}
      /\ exports = [s \in Scopes |-> 0] /\ seen = {}
  BY DEF ObserversInit
<1>3. SeenTasks = {} /\ Cardinality({}) = 0 /\ IsFiniteSet({}) BY <1>2, FS_EmptySet DEF SeenTasks
<1>4. Recorders /\ Unattached BY <1>2, <1>3 DEF Recorders, Unattached
<1>5. Evidence BY <1>1, <1>2 DEF Evidence, Init
<1>6. Sightings BY <1>2, <1>3 DEF Sightings
<1>7. Traced
  <2>1. \A res : SeenEnded(res) = {} BY <1>3 DEF SeenEnded
  <2> QED BY <1>2, <1>3, <2>1 DEF Traced
<1>8. Summarized BY <1>2, <1>3 DEF Summarized
<1> QED BY <1>1, <1>4, <1>5, <1>6, <1>7, <1>8 DEF Observing

\* Every step of the engine and of the observers keeps both invariants.
LEMMA StepObserving ==
  ASSUME Inductive, Observing, [ObserversNext]_<<vars, observerVars>>
  PROVE  Inductive' /\ Observing'
<1>1. CASE Attach \/ UNCHANGED <<vars, observerVars>>
  <2>1. UNCHANGED vars BY <1>1 DEF Attach
  <2> QED BY <1>1, <2>1, NextInductive, AttachNext
<1>2. CASE EngineSteps
  <2>1. Next BY <1>2 DEF EngineSteps
  <2>2. Inductive' BY <2>1, NextInductive
  <2>3. Advances BY <2>1, NextAdvances
  <2>4. CASE attached = "no"
    <3>1. UNCHANGED observerVars BY <1>2, <2>4 DEF EngineSteps
    <3> QED BY <2>2, <2>3, <2>4, <3>1, UnattachedNext
  <2>5. CASE attached # "no"
    <3>1. PICK report \in CleanupReports \cup {"none"} : Observe(Emitted(report))
      BY <1>2, <2>5 DEF EngineSteps
    <3>2. IsNews(Emitted(report)) BY <2>2, <2>3, EmittedNews
    <3>3. PICK new : new = Emitted(report) OBVIOUS
    <3>4. Observes(new) BY <2>2, <2>3, <2>5, <3>1, <3>2, <3>3 DEF Observes
    <3> QED BY <2>2, <3>4, ObservingNext
  <2> QED BY <2>4, <2>5
<1> QED BY <1>1, <1>2 DEF ObserversNext

\* Whatever the engine does and whenever the observers are attached.
LEMMA ObservingHolds == ObserversSpec => [](Inductive /\ Observing)
<1>1. ObserversInit => Inductive /\ Observing BY InitObserving
<1>2. Inductive /\ Observing /\ [ObserversNext]_<<vars, observerVars>> => (Inductive /\ Observing)'
  BY StepObserving
<1> QED BY <1>1, <1>2, PTL DEF ObserversSpec

\* The engine under observation is the engine.
LEMMA ObservedEngine == ObserversSpec => Spec
<1>1. ObserversInit => Init BY DEF ObserversInit
<1>2. [ObserversNext]_<<vars, observerVars>> => [Next]_vars
  BY DEF ObserversNext, EngineSteps, Attach
<1> QED BY <1>1, <1>2, PTL DEF ObserversSpec, Spec
----------------------------------------------------------------------------
\* A scope of a closed one is closed, or came too late for it.
LEMMA ClosedOrLate ==
  ASSUME Inductive, NEW q \in Below(Watched) \ {Watched}, owner[q] \in Scopes,
         state[owner[q]] = "closed"
  PROVE  state[q] = "closed" \/ \E l \in Below(Watched) \ {Watched} : l \in Late /\ q \in Below(l)
<1> USE Watching
<1>1. q \in Scopes BY BelowClosed
<1>2. CASE q \in Late BY <1>1, <1>2, BelowClosed
<1>3. CASE q \notin Late
  <2>1. born[q] \in {"body", "drain"} BY <1>1, <1>3 DEF Late, Inductive, TypeOK, Traceless
  <2> QED BY <1>1, <2>1 DEF Inductive, Lifecycle, Joining, Ended
<1> QED BY <1>2, <1>3

\* What is below a scope that came late stays so.
LEMMA LateGoesDown ==
  ASSUME NEW q \in Scopes,
         \E l \in Below(Watched) \ {Watched} : l \in Late /\ owner[q] \in Below(l)
  PROVE  \E l \in Below(Watched) \ {Watched} : l \in Late /\ q \in Below(l)
<1>1. PICK l \in Below(Watched) \ {Watched} : l \in Late /\ owner[q] \in Below(l) OBVIOUS
<1>2. l \in Scopes BY Watching, BelowClosed
<1> QED BY <1>1, <1>2, BelowClosed

\* When the scope watched is closed, its tasks are settled but for late ones.
LEMMA ClosedTree ==
  ASSUME Inductive, state[Watched] = "closed", NEW t \in Tasks, owner[t] \in Below(Watched),
         t \notin settled
  PROVE  LateOwned(t)
<1> USE Watching
<1> DEFINE Beside(q) == \E l \in Below(Watched) \ {Watched} : l \in Late /\ q \in Below(l)
           T == {q \in Below(Watched) : state[q] = "closed" \/ Beside(q)}
<1>1. Below(Watched) \subseteq Scopes /\ Watched \in Below(Watched) BY BelowClosed
<1>2. T \in SUBSET Scopes /\ Watched \in T BY <1>1
<1>3. ASSUME NEW q \in Scopes, owner[q] \in T PROVE q \in T
  <2>1. q \in Below(Watched) BY <1>3, BelowClosed
  <2>2. CASE q = Watched BY <1>2, <2>2
  <2>3. CASE Beside(owner[q]) BY <2>1, <2>3, LateGoesDown
  <2>4. CASE q # Watched /\ state[owner[q]] = "closed"
    BY <1>1, <1>3, <2>1, <2>4, ClosedOrLate
  <2> QED BY <1>3, <2>2, <2>3, <2>4
<1>4. owner[t] \in T
  <2> HIDE DEF T
  <2> QED BY <1>2, <1>3, BelowLeast
<1>5. CASE Beside(owner[t]) BY <1>5 DEF LateOwned
<1>6. CASE state[owner[t]] = "closed"
  BY <1>1, <1>6, JoinedSettled DEF LateOwned
<1> QED BY <1>4, <1>5, <1>6

\* What the tree of status() has is closed under childScopes.
LEMMA TreeClosed ==
  ASSUME Inductive
  PROVE  /\ Watched \in Tree(Watched)
         /\ \A q \in Tree(Watched) : childScopes[q] \subseteq Tree(Watched)
  BY Watching DEF Tree, Inductive, TypeOK

\* A running body is in the tree of status(), or it is late, or its scope is open
\* below one that came late.
LEMMA RunningSeen ==
  ASSUME Inductive, Pending = {}, NEW t \in Tasks, owner[t] \in Below(Watched),
         status[t] = "running"
  PROVE  LateOwned(t)
<1> USE Watching
<1> DEFINE Beside(q) == \E l \in Below(Watched) \ {Watched} : l \in Late /\ q \in Below(l)
           T == {q \in Below(Watched) : \/ q \in Tree(Watched) \/ state[q] = "closed"
                                        \/ Beside(q)}
<1>1. Below(Watched) \subseteq Scopes /\ Watched \in Below(Watched) BY BelowClosed
<1>2. T \in SUBSET Scopes /\ Watched \in T BY <1>1, TreeClosed
<1>3. ASSUME NEW q \in Scopes, owner[q] \in T PROVE q \in T
  <2>1. q \in Below(Watched) BY <1>3, BelowClosed
  <2>2. CASE q = Watched BY <1>2, <2>2
  <2>3. CASE Beside(owner[q]) BY <2>1, <2>3, LateGoesDown
  <2>4. CASE q # Watched /\ state[owner[q]] = "closed"
    BY <1>1, <1>3, <2>1, <2>4, ClosedOrLate
  <2>5. CASE owner[q] \in Tree(Watched) /\ state[q] # "closed"
    <3>1. owner[q] # NoOne BY <1>1, <1>3
    <3>2. state[q] # "unopened" BY <3>1 DEF Inductive, Traceless
    <3>3. q \in childScopes[owner[q]] BY <2>5, <3>1, <3>2 DEF Inductive, TypeOK, Tracked
    <3> QED BY <2>1, <2>5, <3>3, TreeClosed
  <2> QED BY <1>3, <2>1, <2>2, <2>3, <2>4, <2>5
<1>4. owner[t] \in T
  <2> HIDE DEF T
  <2> QED BY <1>2, <1>3, BelowLeast
<1>5. CASE Beside(owner[t]) BY <1>5 DEF LateOwned
<1>6. CASE state[owner[t]] = "closed"
  <2>1. t \notin settled BY DEF Inductive, Cleanups
  <2> QED BY <1>1, <1>6, <2>1, JoinedSettled DEF LateOwned
<1>7. CASE owner[t] \in Tree(Watched)
  <2>1. t \in tasks[owner[t]] BY DEF Inductive, Tracked
  <2> QED BY <1>7, <2>1 DEF Pending, SnapshotTasks
<1> QED BY <1>4, <1>5, <1>6, <1>7

\* The outcome a receipt tells follows from the closing, where that is on record.
LEMMA OutcomeTold ==
  ASSUME Inductive, Observing, ClosingTruth,
         ClosingReasons # {} \/ (attached = "early" /\ droppedEvents = 0)
  PROVE  OutcomeTells
<1> USE Watching
<1>1. Evidence BY DEF Observing
<1>2. ASSUME NEW r \in ClosingReasons PROVE r = closing[Watched] /\ r # "none"
  BY <1>1 DEF ClosingReasons, Kept, Evidence
<1>3. ASSUME attached = "early", droppedEvents = 0, closing[Watched] # "none"
      PROVE  closing[Watched] \in ClosingReasons
  <2>1. Event("closing", Watched, closing[Watched]) \in events BY <1>1, <1>3 DEF Evidence
  <2>2. /\ Event("closing", Watched, closing[Watched]).type = "closing"
        /\ Event("closing", Watched, closing[Watched]).of = Watched
        /\ Event("closing", Watched, closing[Watched]).reason = closing[Watched]
    BY DEF Event
  <2> QED BY <2>1, <2>2 DEF ClosingReasons, Kept
<1>4. closing[Watched] \in {"none", "completed", "errored", "cancelled"}
  BY DEF Inductive, TypeOK
<1>5. CASE ClosingReasons = {closing[Watched]} /\ closing[Watched] # "none"
  BY <1>4, <1>5 DEF OutcomeTells, ReceiptOutcome, ClosingTruth
<1>6. CASE ClosingReasons = {} /\ closing[Watched] = "none"
  <2>1. state[Watched] # "closed" BY <1>1, <1>6 DEF Evidence
  <2> QED BY <1>6, <2>1 DEF OutcomeTells, ReceiptOutcome
<1> QED BY <1>2, <1>3, <1>5, <1>6

\* A receipt with a clean bill never stands beside a running body that the closing
\* of its scope should have joined, it tells the outcome as it is once it has the
\* closing on record, and no task speaks after its last word.
THEOREM ReceiptIsTrue == ObserversSpec => []ReceiptTruth
<1>1. Inductive /\ Observing /\ ClosingTruth => ReceiptTruth
  <2> SUFFICES ASSUME Inductive, Observing, ClosingTruth PROVE ReceiptTruth OBVIOUS
  <2>1. afterTerminal = {} BY DEF Observing, Evidence
  <2>2. ASSUME ReceiptStatus # "fail" \/ Diagnosis = "ok",
               NEW t \in Heard \cap Tasks, status[t] = "running"
        PROVE  LateOwned(t)
    <3>1. Pending = {} BY <2>2 DEF ReceiptStatus, ReceiptErrors, Diagnosis
    <3>2. owner[t] \in Below(Watched) BY Watching, BelowClosed DEF Heard
    <3> QED BY <2>2, <3>1, <3>2, RunningSeen
  <2> QED BY <2>1, <2>2, OutcomeTold DEF ReceiptTruth
<1> QED BY <1>1, ObservingHolds, ObservedEngine, ClosingIsTrue, PTL

\* Every scope that was seen to open has one summary once it is closed, which
\* counts the tasks it joined and says "completed" only if it was; every span ends
\* with its task and is counted once.
THEOREM SummariesAreTrue == ObserversSpec => []SummaryTruth
<1>1. Inductive /\ Observing => SummaryTruth
  <2> SUFFICES ASSUME Inductive, Observing PROVE SummaryTruth OBVIOUS
  <2>1. Traced /\ Summarized /\ Sightings BY DEF Observing
  <2>2. ASSUME NEW t \in spans PROVE t \notin settled /\ (state[Watched] = "closed" => LateOwned(t))
    BY <2>1, ClosedTree DEF Traced, SeenTasks, Sightings
  <2>3. (Tasks \cap seen) \ spans \subseteq settled BY <2>1 DEF Traced, SeenTasks
  <2>4. ASSUME NEW res \in Ends
        PROVE  taskTotal[res] = Cardinality({t \in (Tasks \cap seen) \ spans : status[t] = res})
    <3>1. SeenEnded(res) = {t \in (Tasks \cap seen) \ spans : status[t] = res}
      BY <2>1 DEF Traced, SeenTasks, SeenEnded
    <3> QED BY <2>1, <3>1 DEF Traced
  <2> QED BY <2>1, <2>2, <2>3, <2>4 DEF SummaryTruth, Summarized
<1> QED BY <1>1, ObservingHolds, PTL
=============================================================================

----------------------------- MODULE WorkStream -----------------------------
(***************************************************************************)
(* work(source).inParallel(n)....stream() of work/index.ts, over the engine *)
(* of module Scope: an async generator that holds a scope of its own open,  *)
(* Stream, and pulls items from a source only as its consumer takes         *)
(* results.  The generator starts in the scope Outer, whose cancellation    *)
(* aborts the signal of Stream and nothing else of it.                      *)
(*                                                                          *)
(* The generator is one more actor beside the source, the consumer and the  *)
(* items' tasks; pc says what it awaits.  Task i of Items is the task of    *)
(* the i-th item.  Retry, timeout and the transforms are inside its body,   *)
(* which ends as it likes.                                                  *)
(***************************************************************************)
EXTENDS Scope, Sequences, FiniteSets

CONSTANTS
  Outer, Stream,  \* the caller's scope, and the scope of the stream
  Items,          \* the tasks of the items the source can yield, in its order
  Concurrency     \* of inParallel()

ASSUME StreamAssumption ==
  /\ Scopes = {Outer, Stream} /\ Outer # Stream /\ Roots = {Outer} /\ Misconfigured = {}
  /\ Background = {} /\ Silent = {} /\ Keys = {}
  /\ Items \in Seq(Tasks) /\ Len(Items) = Cardinality(Tasks)
  /\ \A t \in Tasks : \E i \in DOMAIN Items : Items[i] = t
  /\ Concurrency \in Nat \ {0}

VARIABLES
  pc,          \* what the generator awaits or where it stands
  filling,     \* it is in the loop that fills the active set
  pulled,      \* nextKey: how many items the source has yielded
  sourceDone,  \* the source said it is done
  active,      \* tasks launched, not yet taken from Promise.race(active)
  value,       \* what the task of an item ended with; "skip" is filtered out
  reported,    \* the statuses of the onItemDone events of an item
  yields,      \* the values the consumer got, as their tasks, in order
  ending       \* how the generator is to end: done, failed or stopped

streamVars == <<pc, filling, pulled, sourceDone, active, value, reported, yields, ending>>
allVars == <<vars, streamVars>>

Values == {"value", "skip", "failed", "cancelled"}
Reports == {"fulfilled", "rejected", "cancelled"}

StreamInit ==
  /\ Init
  /\ pc = "start" /\ filling = TRUE
  /\ pulled = 0 /\ sourceDone = FALSE
  /\ active = {}
  /\ value = [t \in Tasks |-> "none"]
  /\ reported = [t \in Tasks |-> <<>>]
  /\ yields = <<>>
  /\ ending = "none"
----------------------------------------------------------------------------
\* The consumer's first next(): run.scope() opens the stream's scope.
StreamStarts ==
  /\ pc = "start" /\ pc' = "fill"
  /\ Open(Stream, Outer)
  /\ UNCHANGED <<filling, pulled, sourceDone, active, value, reported, yields, ending>>

\* launchNext() up to its await of the source, which it does not reach when the
\* source is done or the signal aborted.
IdleOnceFull == sourceDone \/ SignalAborted(Stream) \/ pulled >= Concurrency
Idle == sourceDone \/ SignalAborted(Stream)
Ask  == pc' = IF Idle THEN "race" ELSE "pull"

\* while (active.size < concurrency && !sourceDone) await launchNext().  When the
\* signal is aborted launchNext() returns at once and the loop repeats: a state
\* that never changes again, with no step here.
MoreRoom == Cardinality(active) <= Concurrency
FillRoom == Cardinality(active) < Concurrency
Fill ==
  /\ pc = "fill"
  /\ IF FillRoom /\ ~sourceDone
       THEN ~SignalAborted(Stream) /\ pc' = "pull" /\ UNCHANGED filling
       ELSE pc' = "race" /\ filling' = FALSE
  /\ UNCHANGED <<vars, pulled, sourceDone, active, value, reported, yields, ending>>

\* The catch block: the scope is cancelled, then its hold is rejected.
Fails ==
  /\ pc' = "closing" /\ ending' = "failed"
  /\ CancelScope(Stream, "manual")
  /\ UNCHANGED <<adoption, records, closeVars, taskVars>>

\* The source answers next(): an item, whose task is spawned on a scope that may
\* have been cancelled meanwhile, the end, or an error.
Pulled ==
  /\ pc = "pull"
  /\ \/ /\ pulled < Len(Items)
        /\ pulled' = pulled + 1
        /\ LET t == Items[pulled + 1]
           IN  \/ /\ Spawn(Stream, t, NoOne)
                  /\ active' = active \cup {t}
                  /\ pc' = IF filling THEN "fill" ELSE "race"
                  /\ UNCHANGED ending
               \/ /\ state[Stream] # "running"
                  /\ Fails
                  /\ UNCHANGED active
        /\ UNCHANGED sourceDone
     \/ /\ sourceDone' = TRUE
        /\ pc' = IF filling THEN "fill" ELSE "race"
        /\ UNCHANGED <<vars, pulled, active, ending>>
     \/ /\ Fails
        /\ UNCHANGED <<pulled, sourceDone, active>>
  /\ UNCHANGED <<filling, value, reported, yields>>

\* The generator takes a settled task from Promise.race(active); when several
\* have settled, any of them.  A rejected one fails the stream, a filtered one
\* lets the next item in, the others are yielded.
Take(t) ==
  /\ pc = "race" /\ t \in active \cap settled
  /\ active' = active \ {t}
  /\ \/ /\ status[t] # "succeeded"
        /\ Fails
        /\ UNCHANGED yields
     \/ /\ value[t] = "skip"
        /\ Ask
        /\ UNCHANGED <<vars, yields, ending>>
     \/ /\ value[t] = "value"
        /\ pc' = "yield"
        /\ yields' = Append(yields, t)
        /\ UNCHANGED <<vars, ending>>
  /\ UNCHANGED <<filling, pulled, sourceDone, value, reported>>

\* The consumer asks for the next value: only then is the next item launched.
Resume ==
  /\ pc = "yield" /\ Ask
  /\ UNCHANGED <<vars, filling, pulled, sourceDone, active, value, reported, yields, ending>>

\* Nothing is active any more: closeScope().
Exhausted ==
  /\ pc = "race" /\ active = {}
  /\ pc' = "closing" /\ ending' = "done"
  /\ UNCHANGED <<vars, filling, pulled, sourceDone, active, value, reported, yields>>

\* The consumer stops (break, return or throw): the finally block.
NotCancelled == UNCHANGED control
CancelRest == CancelScope(Stream, "manual")
ConsumerStops ==
  /\ pc = "yield" /\ pc' = "closing" /\ ending' = "stopped"
  /\ CancelRest
  /\ UNCHANGED <<adoption, records, closeVars, taskVars>>
  /\ UNCHANGED <<filling, pulled, sourceDone, active, value, reported, yields>>

\* The body of the scope ends with the hold, and the scope closes.
HoldEnds ==
  /\ pc = "closing"
  /\ \E res \in {"succeeded", "failed", "cancelled"}, n \in 0..MaxDefers[Stream] :
       /\ (res = "succeeded") <=> (ending # "failed")
       /\ GroupBodyEnds(Stream, res, n)
  /\ UNCHANGED streamVars

\* closeScope() has awaited the scope, and the generator ends.
NotAwaited == TRUE
ScopeJoined == phase[Stream] = "over"
GeneratorEnds ==
  /\ pc = "closing" /\ ScopeJoined
  /\ pc' = "over"
  /\ UNCHANGED <<vars, filling, pulled, sourceDone, active, value, reported, yields, ending>>
----------------------------------------------------------------------------
\* makeTask(): how an item ended is reported to the onItemDone handlers, and a
\* handler that throws on a success is caught as a failure of the item and
\* reported again.
ReportVerbatim(res) == res
ReportOf(res) == CASE res = "value" -> "fulfilled" [] res = "failed" -> "rejected"
                   [] OTHER -> "cancelled"
ItemEnds(t) ==
  \E res \in Values, handlerThrows \in BOOLEAN, n \in 0..MaxDefers[t] :
    LET success == res \in {"value", "skip"}
        final   == IF handlerThrows THEN "failed" ELSE res
    IN  /\ value' = [value EXCEPT ![t] = final]
        /\ reported' = [reported EXCEPT ![t] =
             IF success /\ handlerThrows THEN <<ReportOf(res), "rejected">>
             ELSE <<ReportOf(res)>>]
        /\ TaskBodyEnds(t, IF final \in {"value", "skip"} THEN "succeeded" ELSE final, n)
  /\ UNCHANGED <<pc, filling, pulled, sourceDone, active, yields, ending>>

ItemCleanupEnds(t) == TaskCleanupEnds(t) /\ UNCHANGED streamVars

Engine ==
  /\ \/ Open(Outer, NoOne)
     \/ \E s \in Scopes : Cancel(s, "manual")
     \/ CloseStep(Stream)
  /\ UNCHANGED streamVars

StreamNext ==
  \/ StreamStarts \/ Fill \/ Pulled \/ Resume \/ Exhausted \/ ConsumerStops
  \/ HoldEnds \/ GeneratorEnds \/ Engine
  \/ \E t \in Tasks : Take(t)
  \/ \E t \in Tasks : ItemEnds(t)
  \/ \E t \in Tasks : ItemCleanupEnds(t)

\* The source answers, cleanups end, promise continuations run and an aborted
\* item ends.  Nothing obliges the consumer, or an item that is not aborted.
StreamFairness ==
  /\ WF_allVars(Fill) /\ WF_allVars(Pulled) /\ WF_allVars(Exhausted)
  /\ WF_allVars(\E t \in Tasks : Take(t))
  /\ WF_allVars(HoldEnds) /\ WF_allVars(GeneratorEnds)
  /\ WF_allVars(CloseStep(Stream) /\ UNCHANGED streamVars)
  /\ \A t \in Tasks : /\ WF_allVars(ItemCleanupEnds(t))
                      /\ WF_allVars(TaskSignalAborted(t) /\ ItemEnds(t))

StreamSpec == StreamInit /\ [][StreamNext]_allVars
StreamFairSpec == StreamSpec /\ StreamFairness
----------------------------------------------------------------------------
Launched == {t \in Tasks : status[t] # "unborn"}
Yielded == {yields[i] : i \in DOMAIN yields}

StreamTypeOK ==
  /\ TypeOK
  /\ pc \in {"start", "fill", "pull", "race", "yield", "closing", "over"}
  /\ filling \in BOOLEAN /\ sourceDone \in BOOLEAN
  /\ pulled \in 0..Len(Items)
  /\ active \subseteq Launched
  /\ value \in [Tasks -> {"none"} \cup Values]
  /\ reported \in [Tasks -> Seq(Reports)]
  /\ yields \in Seq(Tasks)
  /\ ending \in {"none", "done", "failed", "stopped"}

\* Backpressure: however slow the consumer is and whatever it skips, the source
\* is never asked for more than Concurrency items beyond those it has taken, so
\* no more than that run or wait to be taken.
Backpressured ==
  Cardinality(active) + (IF pc = "pull" THEN 1 ELSE 0) <= Concurrency

\* However the generator ends, no task of an item is left behind, cleanups
\* included, and the last report of an item says "fulfilled" exactly if its value
\* is one for the consumer, also when handlers throw.  A stream that ends without
\* an error lost nothing: it gave every item it pulled once, but for those filtered
\* out, and stopped before the end of the source only when its signal was aborted.
ItemsJoined ==
  /\ pc = "over" => Launched \subseteq settled
  /\ \A t \in settled : reported[t][Len(reported[t])] = "fulfilled" <=> value[t] = "value"
  /\ Len(yields) = Cardinality(Yielded)
  /\ pc = "over" /\ ending = "done" =>
       /\ Yielded = {t \in Launched : value[t] = "value"}
       /\ Launched = {Items[i] : i \in 1..pulled}
       /\ \A t \in Launched : value[t] \in {"value", "skip"}
       /\ sourceDone \/ SignalAborted(Stream)

\* Once the first items are launched, a stream whose signal is aborted comes to
\* its end or to a value for its consumer, and a stream that stops or fails ends.
AbortedStreamSettles ==
  /\ (SignalAborted(Stream) /\ ~filling) ~> (pc \in {"yield", "over"})
  /\ (pc = "closing" /\ ending # "done") ~> (pc = "over")

\* "R3. Cancel: set state=cancelling -> abort signal -> await children -> ...
\* close" (scope.ts:14): the stream of a cancelled scope comes to an end.
CancelledStreamEnds == SignalAborted(Stream) ~> (pc \in {"yield", "over"})
=============================================================================

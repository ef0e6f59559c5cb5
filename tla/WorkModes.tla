----------------------------- MODULE WorkModes -----------------------------
(***************************************************************************)
(* The work builder, work/index.ts: do() and collect(), and at the end how  *)
(* a builder is made.  The source is read to its end, its items are the     *)
(* tasks of one pool, and the error mode and the cancel mode say what       *)
(* becomes of those that do not succeed.                                    *)
(*                                                                          *)
(* The pool is that of run/index.ts, see module Combinators: its workers    *)
(* take items in turn, an item that fails cancels the group, and a          *)
(* cancelled group spawns nothing more.  Transforms, retry, timeout and     *)
(* rate limit are inside the task of an item, which ends as it likes.       *)
(***************************************************************************)
EXTENDS Integers, Sequences, FiniteSets, SequencesExt

CONSTANTS
  WorkItems,    \* how many items the source has
  WorkLimit     \* inParallel

ASSUME WorkAssumption == WorkItems \in Nat \ {0} /\ WorkLimit \in Nat \ {0}

VARIABLES
  workCall,      \* do or collect
  workMode,      \* fail, continue or collect, of onError
  workCancel,    \* throw or partial, of onCancel
  workRead,      \* how many items were read from the source
  workItem,      \* of each item: unread, queued, running, or how its task ended
  workReports,   \* the statuses of its onItemDone events
  workSpoiled,   \* items whose handler threw when it was told of a cancellation
  workWorkers,   \* the workers of the pool that have not thrown
  workStopped,   \* no, or what cancelled the group: a failure, or code of an item
  workAborted,   \* the caller's signal
  workOutcome    \* pending, thrown, unexpected, or the output

workVars == <<workCall, workMode, workCancel, workRead, workItem, workReports, workSpoiled,
              workWorkers, workStopped, workAborted, workOutcome>>

WorkNumbers == 1..WorkItems
\* A TimeoutError is a CancellationError, but a failure to the engine.
WorkEnds == {"value", "skip", "failed", "timeout", "cancelled"}
ItemsIn(stages) == {i \in WorkNumbers : workItem[i] \in stages}

\* collect() forces the error mode, and keeps the cancel mode.  The outcome is pending,
\* or thrown of a batch whose source has failed at once.
WorkInit(calls, modes, cancels, outcome) ==
  /\ workCall \in calls /\ workCancel \in cancels
  /\ workMode \in IF workCall = "collect" THEN {"fail"} ELSE modes
  /\ workRead = 0
  /\ workItem = [i \in WorkNumbers |-> "unread"]
  /\ workReports = [i \in WorkNumbers |-> <<>>] /\ workSpoiled = {}
  /\ workWorkers = 0 /\ workStopped = "no" /\ workAborted = FALSE /\ workOutcome = outcome
----------------------------------------------------------------------------
\* toArray: nothing runs before the source has ended, nor if it fails.
ReadItem ==
  /\ workOutcome = "pending" /\ ItemsIn({"unread"}) # {}
  /\ \/ workRead < WorkItems /\ workRead' = workRead + 1 /\ UNCHANGED workOutcome
     \/ workOutcome' = "thrown" /\ UNCHANGED workRead
  /\ UNCHANGED <<workCall, workMode, workCancel, workItem, workReports, workSpoiled, workWorkers,
                 workStopped, workAborted>>
SourceEnds ==
  /\ workOutcome = "pending" /\ workRead = WorkItems /\ ItemsIn({"unread"}) # {}
  /\ workItem' = [i \in WorkNumbers |-> "queued"]
  /\ workWorkers' = IF WorkLimit < WorkItems THEN WorkLimit ELSE WorkItems
  /\ UNCHANGED <<workCall, workMode, workCancel, workRead, workReports, workSpoiled, workStopped,
                 workAborted, workOutcome>>

\* An idle worker takes the next item; the spawn throws on a cancelled group.
TakeItem(i) ==
  /\ workOutcome = "pending" /\ workItem[i] = "queued" /\ \A j \in 1..i - 1 : workItem[j] # "queued"
  /\ Cardinality(ItemsIn({"running"})) < workWorkers
  /\ workItem' = [workItem EXCEPT ![i] = IF workStopped = "no" THEN "running" ELSE "refused"]
  /\ workWorkers' = IF workStopped = "no" THEN workWorkers ELSE workWorkers - 1
  /\ UNCHANGED <<workCall, workMode, workCancel, workRead, workReports, workSpoiled, workStopped,
                 workAborted, workOutcome>>

\* do() passes the tasks to the pool as they are, or wraps them so that only
\* errors that must end the batch are thrown.
Unwrapped == workMode = "fail" /\ workCancel = "throw"
EveryErrorThrown(end) == end \notin {"value", "skip"}
Throws(end) ==
  IF Unwrapped THEN end \notin {"value", "skip"} ELSE end = "failed" /\ workMode = "fail"

\* makeTask: onItemDone is told how the item ended.  A handler that throws on a
\* success is told of the failure this makes; one that throws later replaces the
\* error, a cancellation too.
StatusOf(end) == CASE end = "value" -> "fulfilled" [] end = "failed" -> "rejected"
                   [] OTHER -> "cancelled"
ItemEnds(i, end, handlerThrows) ==
  LET final == IF handlerThrows THEN "failed" ELSE end
  IN /\ workOutcome = "pending" /\ workItem[i] = "running"
     /\ workItem' = [workItem EXCEPT ![i] = final]
     /\ workReports' = [workReports EXCEPT ![i] =
          IF handlerThrows /\ end \in {"value", "skip"} THEN <<StatusOf(end), "rejected">>
          ELSE <<StatusOf(end)>>]
     /\ workSpoiled' = IF handlerThrows /\ end \in {"timeout", "cancelled"}
                         THEN workSpoiled \cup {i} ELSE workSpoiled
     /\ workWorkers' = IF Throws(final) THEN workWorkers - 1 ELSE workWorkers
     /\ workStopped' = IF Throws(final) /\ final # "cancelled" /\ workStopped = "no"
                         THEN "failure" ELSE workStopped
  /\ UNCHANGED <<workCall, workMode, workCancel, workRead, workAborted, workOutcome>>

\* The code of an item cancels the group of the pool, its ctx.scope.
ItemCancelsGroup ==
  /\ ItemsIn({"running"}) # {} /\ workStopped = "no" /\ workStopped' = "item"
  /\ UNCHANGED <<workCall, workMode, workCancel, workRead, workItem, workReports, workSpoiled,
                 workWorkers, workAborted, workOutcome>>

\* The caller's cancellation aborts the signals of the items, and the pool goes on.
CallerAborts ==
  /\ workOutcome = "pending" /\ ~workAborted /\ workAborted' = TRUE
  /\ UNCHANGED <<workCall, workMode, workCancel, workRead, workItem, workReports, workSpoiled,
                 workWorkers, workStopped, workOutcome>>

\* The output, lists of the numbers of items in their order.
Those(ends) ==
  LET upTo[i \in 0..WorkItems] ==
        IF i = 0 THEN <<>> ELSE IF workItem[i] \in ends THEN Append(upTo[i - 1], i) ELSE upTo[i - 1]
  IN upTo[WorkItems]
Output ==
  LET cancelled == Those({"skip", "timeout", "cancelled"})
  IN CASE workMode = "collect" ->
            [mode |-> "collect", results |-> [i \in WorkNumbers |-> StatusOf(workItem[i])]]
       [] workMode = "fail" /\ (Unwrapped \/ cancelled = <<>>) ->
            [mode |-> "fail", results |-> Those({"value"})]
       [] workMode = "fail" /\ ~Unwrapped /\ cancelled # <<>> ->
            [mode |-> "partial", results |-> Those({"value"}), errors |-> Those({"failed"}),
             cancelled |-> cancelled]
       [] workMode = "continue" ->
            [mode |-> "continue", results |-> Those({"value"}), errors |-> Those({"failed"})]

\* Nothing runs and no worker has anything left to take: the pool has returned,
\* or rejects if one of its workers has thrown.
PoolThrew == ItemsIn({"refused"}) # {} \/ \E i \in WorkNumbers :
               workItem[i] \in WorkEnds /\ Throws(workItem[i])
PoolReturns ==
  /\ workOutcome = "pending" /\ workRead = WorkItems
  /\ ItemsIn({"unread", "running"}) = {} /\ (workWorkers = 0 \/ ItemsIn({"queued"}) = {})
  /\ workOutcome' = IF PoolThrew THEN "thrown"
                    ELSE IF workCall = "collect" /\ Output.mode # "fail" THEN "unexpected"
                    ELSE "returned"
  /\ UNCHANGED <<workCall, workMode, workCancel, workRead, workItem, workReports, workSpoiled,
                 workWorkers, workStopped, workAborted>>

SomeEnd(i) == \E end \in WorkEnds, throws \in BOOLEAN : ItemEnds(i, end, throws)
WorkNext ==
  \/ ReadItem \/ SourceEnds \/ ItemCancelsGroup \/ CallerAborts \/ PoolReturns
  \/ \E i \in WorkNumbers : TakeItem(i) \/ SomeEnd(i)

\* The source answers, workers go on, and an item whose signal is aborted ends.
Told(i) == workItem[i] = "running" /\ (workAborted \/ workStopped # "no")
WorkFairness ==
  /\ WF_workVars(ReadItem) /\ WF_workVars(SourceEnds) /\ WF_workVars(PoolReturns)
  /\ \A i \in WorkNumbers : WF_workVars(TakeItem(i)) /\ WF_workVars(Told(i) /\ SomeEnd(i))
----------------------------------------------------------------------------
LastReports(status) == {i \in WorkNumbers : workReports[i] # <<>> /\ Last(workReports[i]) = status}

\* The output is what the handlers were told: when do() returns, every item was
\* reported on, its results are the items last reported fulfilled, in their order,
\* and no error is missing: mode fail has none, continue lists the items reported
\* rejected, or cancelled to a handler that threw, and collect says the same of
\* every item; partial lists the cancelled ones.  It throws only for a failure in
\* mode fail, a cancellation under throw, a source that failed, or an item that
\* cancelled the group while others waited.  Nothing runs before the source is
\* read, no more than WorkLimit at a time, and nothing is left running.
WorkTruth ==
  LET rejected == LastReports("rejected") \cup workSpoiled
      cancelled == LastReports("cancelled") \ workSpoiled
  IN /\ Cardinality(ItemsIn({"running"})) <= WorkLimit
     /\ workOutcome # "pending" => ItemsIn({"running"}) = {}
     /\ \A i \in WorkNumbers : workItem[i] # "unread" => workRead = WorkItems
     /\ workOutcome = "returned" =>
          /\ rejected \cup cancelled \cup LastReports("fulfilled") = WorkNumbers
          /\ IF workMode = "collect"
               THEN \A i \in WorkNumbers : Output.results[i] =
                      IF i \in rejected THEN "rejected" ELSE Last(workReports[i])
               ELSE /\ ToSet(Output.results) = LastReports("fulfilled")
                    /\ \A k, l \in DOMAIN Output.results : k < l => Output.results[k] < Output.results[l]
          /\ CASE Output.mode = "fail" -> rejected = {}
               [] Output.mode = "partial" -> rejected = {} /\ ToSet(Output.cancelled) = cancelled
               [] Output.mode = "continue" -> ToSet(Output.errors) = rejected
               [] OTHER -> TRUE
     /\ workOutcome = "thrown" =>
          \/ ItemsIn({"unread"}) # {}
          \/ workMode = "fail" /\ rejected # {}
          \/ Unwrapped /\ LastReports("cancelled") # {}
          \/ workStopped = "item" /\ ItemsIn({"refused"}) # {}

\* Once its items run, a batch whose caller is aborted settles.
AbortedBatchSettles == (workAborted /\ workWorkers > 0) ~> (workOutcome # "pending")

\* "collect() forces fail mode above" (packages/core/src/work/index.ts:214).
CollectReturnsFail == workOutcome # "unexpected"
----------------------------------------------------------------------------
(***************************************************************************)
(* The builders: every call returns a new builder, which shares the source  *)
(* with the one it was called on, and shares with it the arrays of          *)
(* transforms and handlers that the call does not extend.  What a builder   *)
(* then does with an item follows from the calls that led to it.            *)
(***************************************************************************)
CONSTANTS
  PlCalls,   \* bound: calls on builders
  PlItems,   \* the values that items and results may have
  PlMap,     \* what a map makes of a value
  PlPasses   \* the values that pass a filter

ASSUME PipelinesAssumption == PlCalls \in Nat /\ PlMap \in [PlItems -> PlItems] /\ PlPasses \subseteq PlItems

VARIABLES
  plCfg,    \* cfg of each builder: its settings, and the places of its arrays
  plArray,  \* the arrays, one of which may belong to many builders
  plMade    \* history: the calls that led to each builder

plVars == <<plCfg, plArray, plMade>>

Builders == DOMAIN plCfg
Arrays == {"transforms", "progress", "done"}
Settings == {"concurrency", "rate", "retry", "timeout", "deadline", "errorMode", "cancelMode"}
Default == 0

\* work(items): no transforms, and no handlers.
PipelinesInit ==
  /\ plArray = <<<<>>>>
  /\ plCfg = <<[set |-> [s \in Settings |-> Default], at |-> [a \in Arrays |-> 1]]>>
  /\ plMade = <<<<>>>>
----------------------------------------------------------------------------
\* A call gives a value to a setting, or an entry to an array.
Returns(b, call, cfg) ==
  /\ Len(plCfg) <= PlCalls
  /\ plCfg' = Append(plCfg, cfg)
  /\ plMade' = Append(plMade, Append(plMade[b], call))

\* inParallel and the others: a later call replaces an earlier one; a number that is
\* no concurrency and no rate is refused.
Acceptable(setting, value) == setting \in {"concurrency", "rate"} => value > 0
Sets(b, setting, value) ==
  /\ Acceptable(setting, value)
  /\ Returns(b, <<value, setting>>, [plCfg[b] EXCEPT !.set[setting] = value])
  /\ UNCHANGED plArray

\* map, filter, tap, onProgress and onItemDone copy the array that they extend.
PlaceInOldArray(b, array) == plCfg[b].at[array]
PlaceOfCopy(b, array) == Len(plArray) + 1
Extends(b, array, entry) ==
  LET old == plArray[plCfg[b].at[array]]
      place == PlaceOfCopy(b, array)
      longer == Append(old, entry)
  IN /\ plArray' = IF place \in DOMAIN plArray THEN [plArray EXCEPT ![place] = longer] ELSE Append(plArray, longer)
     /\ Returns(b, <<entry, array>>, [plCfg[b] EXCEPT !.at[array] = place])

\* streamWithBackpressure of ai/index.ts: a builder of its own with the settings that
\* are given, four at once unless told otherwise, and the provider's call as its map.
FourAtOnce == 4
StreamWithBackpressure(options) ==
  LET set == [s \in Settings |-> IF s \in DOMAIN options THEN options[s]
                                 ELSE IF s = "concurrency" THEN FourAtOnce ELSE Default]
      Calls(s) == IF set[s] = Default THEN <<>> ELSE <<<<set[s], s>>>>
  IN /\ \A s \in DOMAIN options : Acceptable(s, options[s])
     /\ Len(plCfg) <= PlCalls
     /\ plArray' = Append(plArray, <<"map">>)
     /\ plCfg' = Append(plCfg, [set |-> set, at |-> [plCfg[1].at EXCEPT !["transforms"] = Len(plArray) + 1]])
     /\ plMade' = Append(plMade, Append(Calls("concurrency") \o Calls("retry") \o Calls("timeout"),
                                       <<"map", "transforms">>))

PipelinesNext ==
  \/ \E options \in {<<>>} \cup [{"concurrency"} -> 0..1] \cup [{"retry", "timeout"} -> {1}] :
       StreamWithBackpressure(options)
  \/ \E b \in Builders :
    \/ \E s \in {"concurrency", "errorMode"}, v \in -1..1 : Sets(b, s, v)
    \/ \E t \in {"map", "filter", "tap"} : Extends(b, "transforms", t)
    \/ \E a \in {"progress", "done"}, h \in {"first", "second"} : Extends(b, a, h)
----------------------------------------------------------------------------
\* applyTransforms: the first filter that an item fails ends it; a tap is told.
Applied(transforms, item) ==
  LET after[n \in 0..Len(transforms)] ==
        IF n = 0 THEN [value |-> item, skipped |-> FALSE, told |-> <<>>]
        ELSE LET was == after[n - 1]
             IN IF was.skipped THEN was
                ELSE CASE transforms[n] = "map" -> [was EXCEPT !.value = PlMap[@]]
                       [] transforms[n] = "filter" -> [was EXCEPT !.skipped = was.value \notin PlPasses]
                       [] transforms[n] = "tap" -> [was EXCEPT !.told = Append(@, was.value)]
  IN  after
ApplyTransforms(transforms, item) == Applied(transforms, item)[Len(transforms)]

ArrayOf(b, a) == plArray[plCfg[b].at[a]]

\* What the calls on an array or a setting that led to a builder gave it, in turn.
CallsTo(b, to) ==
  LET upTo[i \in 0..Len(plMade[b])] ==
        IF i = 0 THEN <<>>
        ELSE IF plMade[b][i][2] = to THEN Append(upTo[i - 1], plMade[b][i]) ELSE upTo[i - 1]
  IN upTo[Len(plMade[b])]
Given(b, to) == [k \in DOMAIN CallsTo(b, to) |-> CallsTo(b, to)[k][1]]

\* Of some transforms, after the first n: what the maps among them, one after the other,
\* make of an item; whether a filter fails what was made of it before; and the taps
\* that come before such a filter.
Mapped(transforms, item) ==
  LET by[n \in 0..Len(transforms)] == IF n = 0 THEN item ELSE PlMap[by[n - 1]] IN by
ValueAt(transforms, item, n) ==
  Mapped(transforms, item)[Cardinality({k \in 1..n : transforms[k] = "map"})]
FailsBy(transforms, item, n) ==
  \E k \in 1..n : transforms[k] = "filter" /\ ValueAt(transforms, item, k) \notin PlPasses
Taps(transforms, item, n) == {k \in 1..n : transforms[k] = "tap" /\ ~FailsBy(transforms, item, k)}

\* A builder does what the calls that led to it say, whatever has been called since
\* on it, or on a builder that it comes from: the last of each setting holds, its
\* transforms and handlers are those that were given, in their order, and an item ends
\* with the composition of the maps if no filter fails what the maps before it made of
\* it, while a tap is told that value if no filter before it fails.
PipelineTruth ==
  \A b \in Builders :
    /\ \A s \in Settings :
         plCfg[b].set[s] = IF Given(b, s) = <<>> THEN Default ELSE Last(Given(b, s))
    /\ \A a \in Arrays : ArrayOf(b, a) = Given(b, a)
    /\ \A item \in PlItems :
         LET given == Given(b, "transforms")
             result == ApplyTransforms(ArrayOf(b, "transforms"), item)
             taps == Taps(given, item, Len(given))
         IN /\ result.skipped = FailsBy(given, item, Len(given))
            /\ ~result.skipped => result.value = ValueAt(given, item, Len(given))
            /\ Len(result.told) = Cardinality(taps)
            /\ ToSet(result.told) = {ValueAt(given, item, k) : k \in taps}
=============================================================================

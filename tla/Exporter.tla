------------------------------ MODULE Exporter ------------------------------
(***************************************************************************)
(* The bounded, circuit-broken export queue of observability/index.ts       *)
(* (createExporterCircuitBreaker): export() offers an event, one drain loop *)
(* at a time hands the queued events to the exporter, and the breaker drops *)
(* events while the exporter keeps failing.                                 *)
(*                                                                          *)
(* Events are the numbers 1, 2, ... in the order of export() and drop().  An *)
(* action is the code between two awaits: an export() that finds no drain   *)
(* running goes on into exporter() at once.  The callback of the user's     *)
(* onStateChange option runs inside transition() and may throw out of it.   *)
(***************************************************************************)
EXTENDS Naturals, Sequences, FiniteSets, Functions

CONSTANTS
  SizeOf,                        \* the estimated bytes of each event
  MaxQueueItems, MaxQueueBytes,  \* of the queue option
  FailureThreshold, OpenFor,     \* of the circuitBreaker option
  MaxEvents, MaxTime             \* bounds: events offered, values of the clock

ASSUME ExporterAssumption ==
  /\ MaxEvents \in Nat /\ SizeOf \in [1..MaxEvents -> Nat]
  /\ MaxQueueItems \in Nat /\ MaxQueueBytes \in Nat
  /\ FailureThreshold \in Nat /\ OpenFor \in Nat /\ MaxTime \in Nat

VARIABLES
  offered,      \* how many events export() or drop() was called for
  queue, queuedBytes,
  drain,        \* where the drain loop stands; draining is drain # "idle"
  sending,      \* the event exporter() was called with last
  breaker,      \* the breaker's state
  failures, openedUntil,
  exported, dropped,
  now,          \* the clock
  thrown        \* history: a state-change callback has thrown

counts == <<exported, dropped>>
circuit == <<breaker, failures, openedUntil>>
exporterVars == <<offered, queue, queuedBytes, drain, sending, circuit, counts, now, thrown>>

\* The flag that keeps a second drain loop from starting.  Leaving it set:
DrainingForever == offered > 0
Draining == drain # "idle"

ExporterInit ==
  /\ offered = 0
  /\ queue = <<>> /\ queuedBytes = 0
  /\ drain = "idle" /\ sending = 0
  /\ breaker = "closed" /\ failures = 0 /\ openedUntil = 0
  /\ exported = 0 /\ dropped = 0
  /\ now = 0 /\ thrown = FALSE
----------------------------------------------------------------------------
\* transition(): the new state is set before the callback runs.  Either it
\* returns and the caller goes on to the given place of the loop, or its
\* exception leaves the drain loop.
Transition(to, goOn) ==
  /\ breaker' = to
  /\ \/ drain' = goOn /\ UNCHANGED thrown
     \/ drain' = "throwing" /\ thrown' = TRUE

\* exportOne(event) up to the call of exporter(), after extra events were evicted
\* in the same step: an open breaker drops the event until its time is up.
StillOpen == breaker = "open" /\ now < openedUntil
ExportOne(event, extra) ==
  \/ /\ StillOpen
     /\ dropped' = dropped + extra + 1
     /\ drain' = "loop"
     /\ UNCHANGED <<breaker, sending, thrown>>
  \/ /\ ~StillOpen
     /\ dropped' = dropped + extra
     /\ IF breaker = "open" THEN Transition("half_open", "sending")
        ELSE drain' = "sending" /\ UNCHANGED <<breaker, thrown>>
     /\ sending' = IF drain' = "sending" THEN event ELSE sending

\* The byte count when an event leaves the queue.
BytesLeft(b, event) == b - SizeOf[event]

\* The head of the drain loop, with the queue q of b bytes.
DrainFrom(q, b, extra) ==
  IF q = <<>>
    THEN /\ drain' = "idle" /\ queue' = q /\ queuedBytes' = b
         /\ UNCHANGED <<dropped, sending, breaker, thrown>>
    ELSE /\ queue' = Tail(q)
         /\ queuedBytes' = BytesLeft(b, Head(q))
         /\ ExportOne(Head(q), extra)

BytesOfFirst(k) ==
  LET sum[i \in 0..k] == IF i = 0 THEN 0 ELSE sum[i - 1] + SizeOf[queue[i]] IN sum[k]

\* The oldest events leave until the new one fits, by number and by bytes.
FitsByItems(k, size) == Len(queue) - k < MaxQueueItems
Fits(k, size) ==
  /\ Len(queue) - k < MaxQueueItems
  /\ queuedBytes - BytesOfFirst(k) + size <= MaxQueueBytes
Enough(k, size) == k = Len(queue) \/ Fits(k, size)

Evictions(size) ==
  CHOOSE k \in 0..Len(queue) :
    Enough(k, size) /\ \A j \in 0..Len(queue) : j < k => ~Enough(j, size)

TooBig(size) == MaxQueueItems < 1 \/ MaxQueueBytes < 1 \/ size > MaxQueueBytes

\* Events evicted are dropped events.
Uncounted(k) == 0
Counted(k) == k

\* export(event).
Export ==
  /\ offered < MaxEvents
  /\ offered' = offered + 1
  /\ LET size == SizeOf[offered']
         k    == Evictions(size)
         q    == Append(SubSeq(queue, k + 1, Len(queue)), offered')
         b    == queuedBytes - BytesOfFirst(k) + size
     IN  IF TooBig(size)
           THEN /\ dropped' = dropped + 1
                /\ UNCHANGED <<queue, queuedBytes, drain, sending, breaker, thrown>>
         ELSE IF Draining
           THEN /\ queue' = q /\ queuedBytes' = b /\ dropped' = dropped + Counted(k)
                /\ UNCHANGED <<drain, sending, breaker, thrown>>
         ELSE DrainFrom(q, b, Counted(k))
  /\ UNCHANGED <<failures, openedUntil, exported, now>>

\* drop(): sampling or the sanitizer turned the event away.
Drop ==
  /\ offered < MaxEvents /\ offered' = offered + 1
  /\ dropped' = dropped + 1
  /\ UNCHANGED <<queue, queuedBytes, drain, sending, circuit, exported, now, thrown>>

\* The loop goes on after an event; an exception has left it with whatever is
\* queued, and export() rejects.
DrainGoesOn ==
  /\ drain = "loop"
  /\ DrainFrom(queue, queuedBytes, 0)
  /\ UNCHANGED <<offered, failures, openedUntil, exported, now>>
DrainThrows ==
  /\ drain = "throwing" /\ drain' = "idle"
  /\ UNCHANGED <<offered, queue, queuedBytes, sending, circuit, counts, now, thrown>>
----------------------------------------------------------------------------
\* The catch block of exportOne(), reached with the breaker in state from: the
\* time is set only if the callback returns.
MustOpen(from, n) == from = "half_open" \/ n >= FailureThreshold
Reopened(from, n) == n >= FailureThreshold
Caught(from, n) ==
  /\ dropped' = dropped + 1
  /\ failures' = n
  /\ \/ /\ MustOpen(from, n)
        /\ Transition("open", "loop")
        /\ openedUntil' = IF drain' = "loop" THEN now + OpenFor ELSE openedUntil
     \/ /\ ~MustOpen(from, n)
        /\ breaker' = from /\ drain' = "loop"
        /\ UNCHANGED <<openedUntil, thrown>>

ExporterFails ==
  /\ drain = "sending"
  /\ Caught(breaker, failures + 1)
  /\ UNCHANGED <<offered, queue, queuedBytes, sending, exported, now>>

\* exporter() succeeds.  It closes a half-open breaker inside the try block: a
\* callback that throws there is caught as a failure of the exporter.
ExporterSucceeds ==
  /\ drain = "sending"
  /\ exported' = exported + 1
  /\ \/ /\ failures' = 0 /\ breaker' = "closed" /\ drain' = "loop"
        /\ UNCHANGED <<dropped, openedUntil, thrown>>
     \/ /\ breaker = "half_open"
        /\ Caught("closed", 1)
        /\ thrown' = TRUE
  /\ UNCHANGED <<offered, queue, queuedBytes, sending, now>>

Tick ==
  /\ now < MaxTime /\ now' = now + 1
  /\ UNCHANGED <<offered, queue, queuedBytes, drain, sending, circuit, counts, thrown>>

ExporterStep == ExporterFails \/ ExporterSucceeds \/ DrainGoesOn \/ DrainThrows \/ Tick
ExporterNext == Export \/ Drop \/ ExporterStep

\* The exporter settles, as the queue relies on, and continuations run.
ExporterFairness ==
  WF_exporterVars(ExporterFails \/ ExporterSucceeds \/ DrainGoesOn \/ DrainThrows)
ExporterSpec == ExporterInit /\ [][ExporterNext]_exporterVars /\ ExporterFairness
----------------------------------------------------------------------------
InQueue(e) == \E i \in DOMAIN queue : queue[i] = e
InFlight == IF drain = "sending" THEN 1 ELSE 0

ExporterTypeOK ==
  /\ offered \in 0..MaxEvents
  /\ queue \in Seq(1..offered) /\ queuedBytes \in Nat
  /\ drain \in {"idle", "loop", "sending", "throwing"}
  /\ sending \in 0..offered
  /\ breaker \in {"closed", "open", "half_open"}
  /\ failures \in Nat /\ openedUntil \in Nat
  /\ exported \in Nat /\ dropped \in Nat
  /\ now \in 0..MaxTime
  /\ thrown \in BOOLEAN

\* The queue keeps its limits by items and by bytes, the byte count it maintains
\* is that of the events it holds, and events are handed to the exporter in the
\* order in which they were offered, each at most once.  While callbacks return,
\* every event is counted exactly once: exported, dropped, queued or in the
\* exporter's hands.
QueueTruth ==
  /\ Len(queue) <= MaxQueueItems
  /\ queuedBytes = BytesOfFirst(Len(queue)) /\ queuedBytes <= MaxQueueBytes
  /\ \A i \in DOMAIN queue : /\ sending < queue[i]
                             /\ \A j \in DOMAIN queue : i < j => queue[i] < queue[j]
  /\ ~thrown => exported + dropped + Len(queue) + InFlight = offered

\* While callbacks return, no event is forgotten in the queue, whatever the
\* exporter and the breaker do.
QueueDrains == \A e \in 1..MaxEvents : InQueue(e) ~> (~InQueue(e) \/ thrown)
----------------------------------------------------------------------------
(***************************************************************************)
(* The event buses of a scope tree (engine/event-bus.ts) with the exporter  *)
(* attached to the bus of one scope.  emit() is synchronous: it charges the *)
(* telemetry budget, dispatches to the handlers of the bus and of those     *)
(* above it, and so ends in export() or drop().  What the emitting scopes   *)
(* do is left open: any bus may emit at any time.                           *)
(***************************************************************************)
CONSTANTS
  Buses,     \* one per scope
  Above,     \* the buses an event of a bus bubbles through, its own included
  Attached,  \* the bus the exporter's handler is registered with
  Limit      \* of the telemetry budget, which the scopes share

ASSUME TelemetryAssumption ==
  /\ IsFiniteSet(Buses)
  /\ Above \in [Buses -> SUBSET Buses] /\ \A b \in Buses : b \in Above[b]
  /\ Attached \in Buses
  /\ Limit \in Nat

VARIABLES
  subscribed,    \* the handler is registered
  spent,         \* of the telemetry budget
  droppedCount, overrunWarned,  \* of each bus
  emitted        \* history: how many events that somebody observes a bus emitted

busVars == <<subscribed, spent, droppedCount, overrunWarned, emitted>>
allVars == <<exporterVars, busVars>>

TelemetryInit ==
  /\ ExporterInit
  /\ subscribed = TRUE /\ spent = 0
  /\ droppedCount = [b \in Buses |-> 0]
  /\ overrunWarned = [b \in Buses |-> FALSE]
  /\ emitted = [b \in Buses |-> 0]
----------------------------------------------------------------------------
\* dispatch() calls the handler, which samples and sanitizes.
Handle == Export \/ Drop

\* With the budget spent only the event of a scope's end still passes; the first
\* event dropped by a bus becomes a warning.
Overspent == spent > Limit
Exhausted == spent >= Limit
EmitOver(b, isClosed) ==
  /\ \/ isClosed /\ Handle /\ UNCHANGED <<droppedCount, overrunWarned>>
     \/ /\ ~isClosed
        /\ droppedCount' = [droppedCount EXCEPT ![b] = @ + 1]
        /\ overrunWarned' = [overrunWarned EXCEPT ![b] = TRUE]
        /\ IF overrunWarned[b] THEN UNCHANGED exporterVars ELSE Handle
  /\ UNCHANGED spent

\* emit(): without a handler up the chain nothing happens at all.
Emit(b, isClosed) ==
  /\ subscribed /\ Attached \in Above[b]
  /\ emitted[b] < MaxEvents /\ emitted' = [emitted EXCEPT ![b] = @ + 1]
  /\ IF Exhausted THEN EmitOver(b, isClosed)
     ELSE /\ spent' = spent + 1
          /\ Handle
          /\ UNCHANGED <<droppedCount, overrunWarned>>
  /\ UNCHANGED subscribed

Unsubscribe ==
  /\ subscribed /\ subscribed' = FALSE
  /\ UNCHANGED <<exporterVars, spent, droppedCount, overrunWarned, emitted>>

TelemetryNext ==
  \/ \E b \in Buses, isClosed \in BOOLEAN : Emit(b, isClosed)
  \/ Unsubscribe
  \/ ExporterStep /\ UNCHANGED busVars

TelemetrySpec == TelemetryInit /\ [][TelemetryNext]_allVars
TelemetryFairness ==
  WF_allVars(/\ ExporterFails \/ ExporterSucceeds \/ DrainGoesOn \/ DrainThrows
             /\ UNCHANGED busVars)
TelemetryFairSpec == TelemetrySpec /\ TelemetryFairness
----------------------------------------------------------------------------
SumOver(f) == SumFunctionOnSet(f, Buses)
Warnings == Cardinality({b \in Buses : overrunWarned[b]})

\* Every event that somebody observes is handed to the attached exporter or
\* counted as dropped by the bus that emitted it, and the only events the buses
\* add are one warning each; the budget is never overdrawn.
BusesAccounted ==
  /\ SumOver(emitted) + Warnings = offered + SumOver(droppedCount)
  /\ spent <= Limit
  /\ \A b \in Buses : overrunWarned[b] <=> droppedCount[b] > 0

\* What is exported of a tree's events: the queue and the buses account for them all.
ExportsTruth == QueueTruth /\ BusesAccounted
=============================================================================

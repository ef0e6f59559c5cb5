------------------------------ MODULE Observers ------------------------------
(***************************************************************************)
(* What observers of a scope make of its events: the receipt recorder of    *)
(* replay/index.ts and the checks of analysis/index.ts on its receipts, the *)
(* summaries of observability/index.ts, the spans and metrics of            *)
(* otel/index.ts, and diagnoseSnapshot of diagnostics/index.ts.             *)
(*                                                                          *)
(* The observers are attached to one scope while the engine of Scope runs;  *)
(* the events of the scopes below bubble up to them.  Which events a step   *)
(* of the engine emits follows from what the step changes.                  *)
(***************************************************************************)
EXTENDS Scope, FiniteSets

CONSTANTS
  Watched,      \* the scope whose onEvent() the observers are registered with
  MaxEvents     \* of the receipt recorder

ASSUME ObserversAssumption ==
  Watched \in Scopes /\ Watched \notin Misconfigured /\ MaxEvents \in Nat \ {0}

VARIABLES
  attached,                \* "no"; "early" or "late": before or after scope:closing
  events,                  \* the recorder: the events it kept,
  recorded, droppedEvents, \*   how many these are and how many it dropped
  afterTerminal,           \* verifyScopeProtocol: its findings on the events kept
  spans,                   \* otel: the tasks with an open span
  taskTotal,               \* otel: the counter, by outcome
  summaries,               \* the summaries of the scopes that are open
  exported, exports,       \* the one exported last of a scope, and how many were
  seen                     \* the scopes and tasks whose start was observed

observerVars == <<attached, events, recorded, droppedEvents, afterTerminal, spans, taskTotal,
                  summaries, exported, exports, seen>>

EmptySummary == [outcome |-> "completed", started |-> 0, ended |-> [res \in Ends |-> 0],
                 cleanupFailed |-> 0]

ObserversInit ==
  /\ Init
  /\ attached = "no"
  /\ events = {} /\ recorded = 0 /\ droppedEvents = 0 /\ afterTerminal = {}
  /\ spans = {} /\ taskTotal = [res \in Ends |-> 0]
  /\ summaries = [s \in {} |-> EmptySummary] /\ exported = summaries
  /\ exports = [s \in Scopes |-> 0]
  /\ seen = {}
----------------------------------------------------------------------------
\* The scopes at and below s: their events, and those of their tasks, bubble up to
\* the bus of s.
Below(s) ==
  LET closed == {T \in SUBSET Scopes : s \in T /\ \A q \in Scopes : owner[q] \in T => q \in T}
  IN  {q \in Scopes : \A T \in closed : q \in T}
Heard == LET below == Below(Watched) IN below \cup {t \in Tasks : owner[t] \in below}

CleanupReports == {"cleanup_failed", "cleanup_timeout"}

Event(type, x, reason) == [type |-> type, of |-> x, reason |-> reason]
Each(type, owned) == {Event(type, x, "none") : x \in owned}
CleanupEnded(x) ==
  IF x \in Tasks THEN InCleanup(x) /\ taskDefers'[x] < taskDefers[x]
                 ELSE phase[x] = "defers" /\ defers'[x] < defers[x]

Opening  == {s \in Scopes \ Misconfigured : state[s] = "unopened" /\ state'[s] = "running"}
Starting == {t \in Tasks : status[t] = "unborn" /\ status'[t] # "unborn"}
Announcing == {s \in Scopes : closing[s] = "none" /\ closing'[s] # "none"}
Ending   == settled' \ settled
Closed   == {s \in Scopes : state[s] # "closed" /\ state'[s] = "closed"}

\* The events of a step; a cleanup that ends in it reports how.  A step has one
\* event of a kind at most, and they come in this order: a task's terminal event
\* follows its cleanups, and scope:closing, which cancel() emits, precedes the
\* task:failed of the failure that cancelled the scope.
Emitted(report) ==
  LET heard == Heard'
  IN {e \in Each("opened", Opening) \cup Each("started", Starting)
         \cup {Event("closing", s, closing'[s]) : s \in Announcing}
         \cup (IF report = "none" THEN {} ELSE Each(report, {x \in Owned : CleanupEnded(x)}))
         \cup {Event(status'[t], t, "none") : t \in Ending}
         \cup Each("closed", Closed) :
     e.of \in heard}
Turn(type) ==
  CASE type = "opened" -> 1 [] type = "started" -> 2 [] type = "closing" -> 3
    [] type \in CleanupReports -> 4 [] type \in Ends -> 5 [] OTHER -> 6
----------------------------------------------------------------------------
\* The recorder keeps the first MaxEvents events and counts the others.
\* verifyScopeProtocol goes through those in their order and finds a task with an
\* event after its terminal one; no other check of a receipt looks at the order.
Speaks(e, kept) ==
  /\ e.of \in Tasks
  /\ \E old \in events \cup kept :
       /\ old.of = e.of /\ old.type \in Ends
       /\ old \in events \/ Turn(old.type) < Turn(e.type)
Record(new) ==
  LET kept == {e \in new : recorded + Cardinality({f \in new : Turn(f.type) <= Turn(e.type)})
                             <= MaxEvents}
  IN  /\ events' = events \cup kept
      /\ afterTerminal' = afterTerminal \cup {e.of : e \in {f \in kept : Speaks(f, kept)}}
      /\ recorded' = recorded + Cardinality(kept)
      /\ droppedEvents' = droppedEvents + Cardinality(new \ kept)

\* handleTaskEvent: a span from task:started to the terminal event, which is
\* counted only when the span is known.
StartedIn(new) == {t \in Tasks : Event("started", t, "none") \in new}
EndedAs(res, new) == {t \in Tasks : Event(res, t, "none") \in new}
TraceSpan(new) ==
  spans' = (spans \cup StartedIn(new)) \ UNION {EndedAs(res, new) : res \in Ends}
CountTask(new) ==
  taskTotal' = [res \in Ends |->
    taskTotal[res] + Cardinality((spans \cup StartedIn(new)) \cap EndedAs(res, new))]

\* ingestSummaryEvent: the event is counted in the summary of its scope, if it
\* is known.  A failure decides the outcome for good, else scope:closing does.
ClosingWins(outcomeBefore, reason) == reason
ClosingOutcome(outcomeBefore, reason) ==
  IF outcomeBefore = "errored" THEN "errored" ELSE reason

\* The events counted in the summary of s: its own, and those of its tasks whose
\* start was observed.
OfScope(new, s, types) ==
  {e \in new : e.type \in types /\ \/ e.of = s
                                   \/ e.of \in Tasks /\ owner'[e.of] = s /\ e.of \in seen'}
Summarize(m, new, s) ==
  LET told(types) == OfScope(new, s, types) # {}
      number(types) == Cardinality(OfScope(new, s, types))
      announced == IF told({"closing"}) THEN ClosingOutcome(m.outcome, closing'[s])
                                        ELSE m.outcome
  IN  [outcome |-> IF told({"failed"} \cup CleanupReports) THEN "errored"
                   ELSE IF told({"cancelled"}) THEN ClosingOutcome(announced, "cancelled")
                   ELSE announced,
       started |-> m.started + number({"started"}),
       ended |-> [res \in Ends |-> m.ended[res] + number({res})],
       cleanupFailed |-> m.cleanupFailed + number(CleanupReports)]
Ingest(new, s) == IF Event("opened", s, "none") \in new THEN EmptySummary
                  ELSE Summarize(summaries[s], new, s)

\* scope:closed, always the last event of a step, exports the summary.
ExportSummaries(new) ==
  LET known == DOMAIN summaries \cup {s \in Scopes : Event("opened", s, "none") \in new}
      over  == {s \in known : Event("closed", s, "none") \in new}
  IN  /\ summaries' = [s \in known \ over |-> Ingest(new, s)]
      /\ exported' = [s \in DOMAIN exported \cup over |->
                        IF s \in over THEN Ingest(new, s) ELSE exported[s]]
      /\ exports' = [s \in Scopes |-> IF s \in over THEN exports[s] + 1 ELSE exports[s]]

Observe(new) ==
  /\ seen' = seen \cup {e.of : e \in {f \in new : f.type \in {"opened", "started"}}}
  /\ Record(new) /\ TraceSpan(new) /\ CountTask(new) /\ ExportSummaries(new)
  /\ UNCHANGED attached

\* onEvent() is called by code that has the scope, so after its opening.
Attach ==
  /\ attached = "no" /\ state[Watched] # "unopened"
  /\ attached' = IF closing[Watched] = "none" THEN "early" ELSE "late"
  /\ UNCHANGED <<vars, events, recorded, droppedEvents, afterTerminal, spans, taskTotal,
                 summaries, exported, exports, seen>>

EngineSteps ==
  /\ Next
  /\ IF attached = "no" THEN UNCHANGED observerVars
     ELSE \E report \in IF \E x \in Owned : CleanupEnded(x) THEN CleanupReports \cup {"none"}
                     ELSE {"none"} :
            Observe(Emitted(report))

ObserversNext == Attach \/ EngineSteps

ObserversSpec == ObserversInit /\ [][ObserversNext]_<<vars, observerVars>>
----------------------------------------------------------------------------
\* Scope.status(): the tree of the scopes still attached to their parents.
Tree(s) ==
  LET closed == {T \in SUBSET Scopes : s \in T /\ \A q \in T : childScopes[q] \subseteq T}
  IN  {c \in Scopes : \A T \in closed : c \in T}
SnapshotTasks(s, statuses) == {t \in tasks[s] : status[t] \in statuses}
PendingOfRoot == SnapshotTasks(Watched, {"running"})
Pending == UNION {SnapshotTasks(s, {"running"}) : s \in Tree(Watched)}

\* inferTerminal, of the snapshot and the events the recorder kept.
Kept(types) == {e \in events : e.type \in types}
ClosingReasons == {e.reason : e \in {f \in Kept({"closing"}) : f.of = Watched}}
ReceiptOutcome ==
  IF "cancelled" \in ClosingReasons THEN "cancelled"
  ELSE IF "errored" \in ClosingReasons \/ SnapshotTasks(Watched, {"failed"}) # {} THEN "failed"
  ELSE IF "completed" \in ClosingReasons \/ state[Watched] = "closed" THEN "completed"
  ELSE "running"
HasTerminalCause ==
  CASE ReceiptOutcome = "failed" -> Kept({"failed", "cleanup_failed"}) # {}
    [] ReceiptOutcome = "cancelled" -> Kept({"cancelled"}) # {}
    [] OTHER -> TRUE

\* verifyReceipt, with the defaults of its options.
ReceiptErrors ==
  (IF Pending # {} THEN {"leaked_tasks"} ELSE {})
  \cup (IF ReceiptOutcome = "running" THEN {"receipt_not_terminal"} ELSE {})
  \cup (IF ReceiptOutcome = "failed" THEN {"terminal_failed"} ELSE {})
  \cup (IF HasTerminalCause THEN {} ELSE {"terminal_cause_missing"})
ReceiptWarnings ==
  (IF Kept({"cleanup_timeout"}) # {} THEN {"cleanup_timeout"} ELSE {})
  \cup (IF droppedEvents > 0 THEN {"receipt_truncated"} ELSE {})
ReceiptStatus ==
  IF ReceiptErrors # {} THEN "fail" ELSE IF ReceiptWarnings # {} THEN "warn" ELSE "pass"

\* diagnoseSnapshot when every pending task is older than staleTaskMs.
Diagnosis ==
  IF /\ Pending = {}
     /\ \A s \in Tree(Watched) : /\ state[s] # "cancelling"
                                 /\ s = Watched \/ state[s] = "closed"
     /\ Kept({"cleanup_timeout"}) = {}
  THEN "ok" ELSE "needs_attention"
----------------------------------------------------------------------------
\* Work that came too late for the scope it came to, or that is below such a scope.
LateOwned(t) == t \in Late \/ \E s \in Below(Watched) \ {Watched} : s \in Late /\ owner[t] \in Below(s)

\* What a receipt says of the outcome is so.
OutcomeTells ==
  /\ ReceiptOutcome = "cancelled" <=> closing[Watched] = "cancelled"
  /\ ReceiptOutcome = "running" => closing[Watched] = "none"
  /\ closing[Watched] = "errored" => ReceiptOutcome = "failed"
  /\ ReceiptOutcome = "completed" => /\ Watched \notin aborted
                                     /\ ForegroundFailures(Watched) = {}

\* A clean bill means clean: a receipt that verifyReceipt does not fail, or a
\* diagnosis that finds nothing, never stands beside a running task body that the
\* closing of its scope should have joined.  A receipt that has the closing event,
\* or whose recorder was attached before it and dropped nothing, tells the outcome
\* as it is.  No task speaks after its last word: verifyScopeProtocol finds nothing
\* in what the engine emits, whenever the recorder was attached.
ReceiptTruth ==
  /\ afterTerminal = {}
  /\ state[Watched] # "unopened" /\ (ReceiptStatus # "fail" \/ Diagnosis = "ok") =>
       \A t \in Heard \cap Tasks : status[t] = "running" => LateOwned(t)
  /\ ClosingReasons # {} \/ (attached = "early" /\ droppedEvents = 0) => OutcomeTells

\* One summary for each scope that closed and whose opening was observed, with
\* every task it joined counted under its outcome; a summary says "completed"
\* only if the scope did and no task or cleanup of it failed, background or not.
\* Every span ends with its task and is counted once: the open ones are those of
\* tasks not settled yet, so after the scope has closed only of late ones.
Joined(s, res) == {t \in Tasks : owner[t] = s /\ status[t] = res /\ t \notin Late}
SummaryTells(s, m) ==
  /\ \A res \in Ends : m.ended[res] >= Cardinality(Joined(s, res))
  /\ m.started >= m.ended["succeeded"] + m.ended["failed"] + m.ended["cancelled"]
  /\ m.outcome = "completed" =>
       closing[s] = "completed" /\ Joined(s, "failed") = {} /\ m.cleanupFailed = 0
  /\ m.outcome = "cancelled" => closing[s] = "cancelled"
SummaryTruth ==
  /\ \A s \in Scopes : exports[s] = IF s \in seen /\ state[s] = "closed" THEN 1 ELSE 0
  /\ \A s \in Scopes : exports[s] = 1 => SummaryTells(s, exported[s])
  /\ \A t \in spans : t \notin settled /\ (state[Watched] = "closed" => LateOwned(t))
  /\ (Tasks \cap seen) \ spans \subseteq settled
  /\ \A res \in Ends :
       taskTotal[res] = Cardinality({t \in (Tasks \cap seen) \ spans : status[t] = res})

\* "Terminal lifecycle outcome inferred from scope closing evidence"
\* (packages/core/src/replay/index.ts:28): a receipt says completed only of a scope
\* whose closing does.
TruncatedTellsTruth ==
  ReceiptOutcome = "completed" /\ ClosingReasons = {} => closing[Watched] = "completed"
=============================================================================

----------------------------- MODULE Snapshots -----------------------------
(***************************************************************************)
(* The snapshot of a scope tree, status() of engine/scope.ts, and what is   *)
(* read from it: the rendered tree (engine/tree.ts), the counts of a        *)
(* receipt (replay/index.ts), the pending tasks that verifyReceipt looks    *)
(* for in a redacted receipt (analysis/index.ts), and the diagnosis         *)
(* (diagnostics/index.ts).                                                  *)
(*                                                                          *)
(* A live scope has a status, tasks and the scopes that have not left it; a *)
(* task has a status and is old or not.                                     *)
(***************************************************************************)
EXTENDS Payloads

VARIABLE tree   \* the live scope that is looked at

SnapshotsInit(trees) == tree \in trees

Leaf0 == [pending |-> 0, completed |-> 0, failed |-> 0, cancelled |-> 0]
Buckets == [pending |-> "pending", running |-> "pending", succeeded |-> "completed",
            failed |-> "failed", cancelled |-> "cancelled"]
CountsOf(tasks) == FoldLeft(LAMBDA c, task : [c EXCEPT ![Buckets[task.status]] = @ + 1], Leaf0, tasks)
RECURSIVE Status(_)
Status(scope) ==
  [status |-> scope.status, tasks |-> scope.tasks, counts |-> CountsOf(scope.tasks),
   scopes |-> [i \in DOMAIN scope.scopes |-> Status(scope.scopes[i])]]

\* countSnapshot, both of the renderer and of the receipt.
SumCounts(a, b) == [k \in DOMAIN a |-> a[k] + b[k]]
RECURSIVE CountSnapshot(_), CountScopes(_)
CountSnapshot(s) == FoldLeft(SumCounts, s.counts, [i \in DOMAIN s.scopes |-> CountSnapshot(s.scopes[i])])
CountScopes(s) ==
  FoldLeft(SumCounts, [total |-> 1, pending |-> IF s.status = "closed" THEN 0 ELSE 1],
           [i \in DOMAIN s.scopes |-> CountScopes(s.scopes[i])])
----------------------------------------------------------------------------
\* renderChildren: a line for each child, tasks before scopes; its prefix says for
\* every level above whether more is to come there, its marker whether it is the last.
RECURSIVE Lines(_, _, _)
Lines(s, prefix, maxDepth) ==
  LET children == [i \in DOMAIN s.tasks |-> [is |-> "task", of |-> s.tasks[i]]]
                    \o [i \in DOMAIN s.scopes |-> [is |-> "scope", of |-> s.scopes[i]]]
      LineOf(i) ==
        LET last == i = Len(children)
            line == [prefix |-> prefix, last |-> last, is |-> children[i].is, status |-> children[i].of.status]
        IN <<line>> \o IF children[i].is = "task" THEN <<>>
                       ELSE Lines(children[i].of, Append(prefix, ~last), maxDepth)
  IN IF Len(prefix) >= maxDepth THEN <<>>
     ELSE FlattenSeq([i \in DOMAIN children |-> LineOf(i)])
RenderTree(s, maxDepth) == [lines |-> Lines(s, <<>>, maxDepth), summary |-> CountSnapshot(s)]
----------------------------------------------------------------------------
\* The snapshot as a value, inside a receipt.
RECURSIVE Encoded(_)
Encoded(s) ==
  Record(<<Field("status", Text(s.status)),
           Field("tasks", List([i \in DOMAIN s.tasks |-> Record(<<Field("status", Text(s.tasks[i].status))>>)])),
           Field("scopes", List([i \in DOMAIN s.scopes |-> Encoded(s.scopes[i])]))>>)
Receipt(s) == Record(<<Field("snapshot", Encoded(s))>>)
Get(v, key) == IF v.t # "record" \/ \A i \in DOMAIN v.fields : v.fields[i].key # key THEN Other("undefined")
               ELSE v.fields[CHOOSE i \in DOMAIN v.fields : v.fields[i].key = key].value

\* collectPendingTasks throws, here a count of 1000, if a scope has no list of scopes or tasks.
Thrown == 1000
RECURSIVE CollectPending(_)
CollectPending(v) ==
  LET tasks == Get(v, "tasks")
      scopes == Get(v, "scopes")
      Unfinished(task) == Get(task, "status") \in {Text("pending"), Text("running")}
  IN IF tasks.t # "list" \/ scopes.t # "list" THEN Thrown
     ELSE FoldLeft(+, Len(SelectSeq(tasks.items, Unfinished)),
                   [i \in DOMAIN scopes.items |-> CollectPending(scopes.items[i])])
PendingInReceipt(s) ==
  CollectPending(Get(RedactReceipt(Receipt(s), Redaction({}, {}, DefaultDepth)), "snapshot"))

\* diagnoseSnapshot: findings in the order of the walk, of which the first are kept.
RECURSIVE FindingsOf(_, _)
FindingsOf(s, isRoot) ==
  (IF s.status = "cancelling" THEN <<"scope_cancelling">> ELSE <<>>)
    \o (IF ~isRoot /\ s.status # "closed" THEN <<"pending_child_scope">> ELSE <<>>)
    \o [i \in DOMAIN SelectSeq(s.tasks, LAMBDA t : Buckets[t.status] = "pending" /\ t.old) |-> "old_pending_task"]
    \o FlattenSeq([i \in DOMAIN s.scopes |-> FindingsOf(s.scopes[i], FALSE)])
DiagnoseSnapshot(s, maxFindings) ==
  LET all == FindingsOf(s, TRUE)
      kept == SubSeq(all, 1, IF Len(all) < maxFindings THEN Len(all) ELSE maxFindings)
  IN [findings |-> kept, truncated |-> Len(all) > Len(kept),
      status |-> IF Len(all) = 0 THEN "ok" ELSE "needs_attention"]
----------------------------------------------------------------------------
RECURSIVE DepthOf(_)
DepthOf(s) == FoldLeft(LAMBDA a, b : IF a > b THEN a ELSE b, 0, [i \in DOMAIN s.scopes |-> 1 + DepthOf(s.scopes[i])])
AllTasks(counts) == counts.pending + counts.completed + counts.failed + counts.cancelled

\* Whoever reads a snapshot finds the same work in it.  The counts of the receipt
\* are those of the rendered lines, and its pending tasks are the ones that are
\* found in the redacted receipt, as long as no scope is more than two levels
\* below.  Of the rendered tree the shape can be read back: a line is marked the
\* last, and its level is closed below it, if and only if nothing follows there.
\* A diagnosis is ok only if no scope below is left and nothing old is pending.
SnapshotTruth ==
  LET s == Status(tree)
      counts == CountSnapshot(s)
      lines == RenderTree(s, 10).lines
      Next(i, level) == \E j \in DOMAIN lines :
        /\ i < j /\ Len(lines[j].prefix) = level /\ \A m \in i..j : Len(lines[m].prefix) >= level
      With(is, statuses) == Cardinality({i \in DOMAIN lines : lines[i].is = is /\ lines[i].status \in statuses})
  IN /\ AllTasks(counts) = With("task", DOMAIN Buckets)
     /\ counts.pending = With("task", {"pending", "running"}) /\ counts.failed = With("task", {"failed"})
     /\ CountScopes(s).total = 1 + With("scope", {"running", "cancelling", "closed"})
     /\ DepthOf(s) <= 2 => PendingInReceipt(s) = counts.pending
     /\ \A i \in DOMAIN lines :
          /\ lines[i].last = ~Next(i, Len(lines[i].prefix))
          /\ \A k \in DOMAIN lines[i].prefix : lines[i].prefix[k] = Next(i, k - 1)
     /\ \A n \in 0..2 :
          LET report == DiagnoseSnapshot(s, n)
          IN /\ report.status = "ok" => With("scope", {"running", "cancelling"}) = 0 /\ ~report.truncated
             /\ Len(report.findings) <= n
     /\ Lines(s, <<>>, 1) = SelectSeq(lines, LAMBDA l : l.prefix = <<>>)

\* "a non-terminal receipt with pending tasks fails analysis with leaked_tasks"
\* (packages/core/tests/evidence/correctness/analysis-verifiers.mjs:17): the pending
\* tasks of a receipt are found however deep their scope is.
PendingSurvives == PendingInReceipt(Status(tree)) = CountSnapshot(Status(tree)).pending
=============================================================================

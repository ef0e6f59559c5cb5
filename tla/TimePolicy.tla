---------------------------- MODULE TimePolicy ----------------------------
(***************************************************************************)
(* The planner of time-policy/index.ts computes bounds for a tree of retry, *)
(* hedge, timeout, deadline, series and parallel without running it.  Here  *)
(* it is held against Runs, what the wrappers of run/index.ts may do with   *)
(* such a tree: every attempt takes any time up to its duration and fails   *)
(* or not.                                                                  *)
(*                                                                          *)
(* A policy is a record with its type and the fields of the source, ms for  *)
(* a duration, at for a deadline and inner for attempt or policy.  A run    *)
(* says how long it took and how it ended, how many attempts were started,  *)
(* how long these work in all, how often they were retried on the budget,   *)
(* and whether a timeout or a deadline cut something short.                 *)
(***************************************************************************)
EXTENDS Integers, Sequences, SequencesExt

CONSTANTS
  RetryBudgets,\* names of retry budgets
  MaxDemand    \* Number.MAX_SAFE_INTEGER

VARIABLE timePolicy   \* the policy that is planned, at moment 0

TimePolicyInit(policies) == timePolicy \in policies

Least(a, b) == IF a <= b THEN a ELSE b
Greatest(a, b) == IF a >= b THEN a ELSE b
Total(numbers) == FoldLeft(+, 0, numbers)
Highest(numbers) == FoldLeft(Greatest, 0, numbers)
----------------------------------------------------------------------------
\* engine/retry.ts: the delay after an attempt before jitter, and what jitter may
\* make of it.  A backoff function is up to its author.
RawDelay(retry, attempt) ==
  Least(retry.max, CASE retry.backoff = "linear" -> retry.initial * attempt
                     [] retry.backoff = "exponential" -> retry.initial * 2 ^ (attempt - 1)
                     [] retry.backoff = "fixed" -> retry.initial
                     [] retry.backoff = "dynamic" -> retry.max)
DelaysOf(retry, attempt) ==
  LET raw == RawDelay(retry, attempt)
  IN IF retry.backoff = "dynamic" THEN 0..raw
     ELSE IF retry.jitter THEN ((raw + 1) \div 2)..raw ELSE {raw}

NoTime == [ms |-> 0, ok |-> TRUE, calls |-> 0, work |-> 0, retries |-> [key \in RetryBudgets |-> 0],
           cut |-> FALSE, late |-> FALSE]
Together(a, b) ==
  [a EXCEPT !.ok = @ /\ b.ok, !.calls = @ + b.calls, !.work = @ + b.work,
            !.retries = [key \in RetryBudgets |-> a.retries[key] + b.retries[key]], !.cut = @ \/ b.cut, !.late = @ \/ b.late]
After(a, b) == [Together(a, b) EXCEPT !.ms = a.ms + b.ms, !.ok = b.ok]
Beside(a, b) == [Together(a, b) EXCEPT !.ms = Greatest(a.ms, b.ms)]
Cut(r, ms) == [r EXCEPT !.ms = ms, !.ok = FALSE]

\* Attempts of a hedge, run i started i - 1 times after the first: the first
\* success settles it, or the last failure.  What was started works on.
Hedged(runs, after) ==
  LET ends == [i \in DOMAIN runs |-> (i - 1) * after + runs[i].ms]
      winners == {i \in DOMAIN runs : runs[i].ok}
      settled == IF winners = {} THEN Highest(ends)
                 ELSE ends[CHOOSE i \in winners : \A j \in winners : ends[i] <= ends[j]]
      started == SelectSeq([i \in DOMAIN runs |-> [run |-> runs[i], at |-> (i - 1) * after]],
                           LAMBDA s : s.at <= settled)
  IN [FoldLeft(LAMBDA a, s : Together(a, s.run), NoTime, started)
        EXCEPT !.ms = settled, !.ok = winners # {}]

\* Every way a policy that is started at a moment may run.
RECURSIVE Runs(_, _), RunsInSeries(_, _), RunsInParallel(_, _), RunsOfRetry(_, _, _)
Runs(p, now) ==
  CASE p.type = "attempt" ->
         {[NoTime EXCEPT !.ms = t, !.ok = ok, !.calls = 1, !.work = t] :
            t \in 0..p.ms, ok \in BOOLEAN}
    [] p.type = "series" -> RunsInSeries(p.policies, now)
    [] p.type = "parallel" -> RunsInParallel(p.policies, now)
    [] p.type = "retry" -> RunsOfRetry(p, now, 1)
    [] p.type = "hedge" ->
         {Hedged(runs, p.after) : runs \in {f \in [1..p.max -> UNION {Runs(p.inner, now + i * p.after) :
                                                                   i \in 0..(p.max - 1)}] :
            \A i \in 1..p.max : f[i] \in Runs(p.inner, now + (i - 1) * p.after)}}
    [] p.type = "timeout" ->
         {IF r.ms <= p.ms THEN r ELSE [Cut(r, p.ms) EXCEPT !.cut = TRUE] : r \in Runs(p.inner, now)}
    [] p.type = "deadline" ->
         {IF now + r.ms <= Greatest(now, p.at) THEN r
          ELSE [Cut(r, Greatest(0, p.at - now)) EXCEPT !.late = TRUE] : r \in Runs(p.inner, now)}

RunsInSeries(policies, now) ==
  IF policies = <<>> THEN {NoTime}
  ELSE UNION {IF r.ok THEN {After(r, rest) : rest \in RunsInSeries(Tail(policies), now + r.ms)}
              ELSE {r} : r \in Runs(Head(policies), now)}
RunsInParallel(policies, now) ==
  IF policies = <<>> THEN {NoTime}
  ELSE {Beside(r, rest) : r \in Runs(Head(policies), now),
                          rest \in RunsInParallel(Tail(policies), now)}
RunsOfRetry(p, now, attempt) ==
  LET Retried(r) == [r EXCEPT !.retries = [key \in RetryBudgets |-> @[key] + (IF key = p.retry.budget THEN 1 ELSE 0)]]
      Again(r) == UNION {{After([Retried(r) EXCEPT !.ms = @ + d], next) :
                            next \in RunsOfRetry(p, now + r.ms + d, attempt + 1)} :
                         d \in DelaysOf(p.retry, attempt)}
  IN UNION {IF r.ok \/ attempt = p.retry.times THEN {r} ELSE {r} \cup Again(r) :
            r \in Runs(p.inner, now)}
----------------------------------------------------------------------------
\* What a plan of a leaf, and of nothing, is; a plan lists its warnings by their code.
LeafPlan(ms) == [valid |-> TRUE, upperBoundMs |-> ms, parallelWorkMs |-> ms, attempts |-> 1, warnings |-> {}]
EmptyPlan ==
  [valid |-> TRUE, upperBoundMs |-> 0, parallelWorkMs |-> 0, attempts |-> 0, warnings |-> {"empty_composition"}]

\* combineSeries, combineParallel.
Combined(children, upperBoundMs) ==
  [valid |-> \A i \in DOMAIN children : children[i].valid,
   upperBoundMs |-> upperBoundMs,
   parallelWorkMs |-> Total([i \in DOMAIN children |-> children[i].parallelWorkMs]),
   attempts |-> Total([i \in DOMAIN children |-> children[i].attempts]),
   warnings |-> UNION {children[i].warnings : i \in DOMAIN children}]
BoundsOf(children) == [i \in DOMAIN children |-> children[i].upperBoundMs]
CombineSeries(children) ==
  IF children = <<>> THEN EmptyPlan ELSE Combined(children, Total(BoundsOf(children)))
CombineParallel(children) ==
  IF children = <<>> THEN EmptyPlan ELSE Combined(children, Highest(BoundsOf(children)))

\* estimateRetryDelay, summed over all attempts but the last.
AllDelaysButOne(retry) == Total([a \in 1..(retry.times - 2) |-> RawDelay(retry, a)])
AllDelays(retry) == Total([a \in 1..(retry.times - 1) |-> RawDelay(retry, a)])
EstimateRetry(inner, retry) ==
  [inner EXCEPT !.upperBoundMs = @ * retry.times + AllDelays(retry),
     !.parallelWorkMs = @ * retry.times, !.attempts = @ * retry.times,
     !.warnings = @ \cup (IF retry.jitter THEN {"jitter_upper_bound"} ELSE {})
                    \cup (IF retry.backoff = "dynamic" /\ retry.times > 1
                            THEN {"dynamic_backoff_upper_bound"} ELSE {})]
EstimateHedge(inner, after, max) ==
  [inner EXCEPT !.upperBoundMs = @ + after * (max - 1), !.parallelWorkMs = @ * max, !.attempts = @ * max]

RECURSIVE PolicyTypes(_)
PolicyTypes(p) ==
  {p.type} \cup CASE p.type = "attempt" -> {}
                  [] p.type \in {"series", "parallel"} -> UNION {PolicyTypes(p.policies[i]) : i \in DOMAIN p.policies}
                  [] OTHER -> PolicyTypes(p.inner)
PlanTimeout(inner, p) ==
  LET types == PolicyTypes(p.inner)
      code == IF "retry" \in types THEN "retry_exceeds_timeout"
              ELSE IF "hedge" \in types THEN "hedge_exceeds_timeout" ELSE "time_exceeds_timeout"
  IN IF inner.upperBoundMs <= p.ms THEN inner
     ELSE [inner EXCEPT !.upperBoundMs = p.ms, !.warnings = @ \cup {code}]

\* The time that remains is counted from now, wherever the deadline stands in the tree.
PlanDeadline(inner, p) ==
  LET remaining == Greatest(0, p.at)
  IN IF inner.upperBoundMs <= remaining THEN inner
     ELSE [inner EXCEPT !.upperBoundMs = remaining, !.valid = FALSE, !.warnings = @ \cup {"deadline_infeasible"}]

RECURSIVE Plan(_)
Plan(p) ==
  CASE p.type = "attempt" -> LeafPlan(p.ms)
    [] p.type = "series" -> CombineSeries([i \in DOMAIN p.policies |-> Plan(p.policies[i])])
    [] p.type = "parallel" -> CombineParallel([i \in DOMAIN p.policies |-> Plan(p.policies[i])])
    [] p.type = "retry" -> EstimateRetry(Plan(p.inner), p.retry)
    [] p.type = "hedge" -> EstimateHedge(Plan(p.inner), p.after, p.max)
    [] p.type = "timeout" -> PlanTimeout(Plan(p.inner), p)
    [] p.type = "deadline" -> PlanDeadline(Plan(p.inner), p)
----------------------------------------------------------------------------
\* collectRetryBudgetDemand: the retries that a policy may charge to a budget, at
\* most MaxDemand of them (Number.MAX_SAFE_INTEGER).
BoundedProduct(a, b) == Least(MaxDemand, a * b)
AddDemand(a, b) == Least(MaxDemand, a + b)
RECURSIVE Demand(_, _, _)
Demand(p, key, multiplier) ==
  CASE p.type = "attempt" -> 0
    [] p.type \in {"series", "parallel"} ->
         FoldLeft(AddDemand, 0, [i \in DOMAIN p.policies |-> Demand(p.policies[i], key, multiplier)])
    [] p.type = "retry" ->
         AddDemand(IF p.retry.budget = key THEN BoundedProduct(p.retry.times - 1, multiplier) ELSE 0,
                   Demand(p.inner, key, BoundedProduct(multiplier, p.retry.times)))
    [] p.type = "hedge" -> Demand(p.inner, key, BoundedProduct(multiplier, p.max))
    [] OTHER -> Demand(p.inner, key, multiplier)
RECURSIVE Budgeted(_)
Budgeted(p) ==
  CASE p.type = "attempt" -> {}
    [] p.type \in {"series", "parallel"} -> UNION {Budgeted(p.policies[i]) : i \in DOMAIN p.policies}
    [] p.type = "retry" -> Budgeted(p.inner) \cup (RetryBudgets \cap {p.retry.budget})
    [] OTHER -> Budgeted(p.inner)

\* readRetryBudgetSnapshots refuses any other; a budget of which there is none is missing.
SnapshotValid(state) == 0 <= state.spent /\ state.spent <= state.limit
Snapshots ==
  UNION {[keys -> {s \in [limit : {2}, spent : 0..2] : SnapshotValid(s)}] : keys \in SUBSET RetryBudgets}
Admission(p, snapshots, key) ==
  IF key \notin DOMAIN snapshots THEN "unverified"
  ELSE IF Demand(p, key, 1) <= snapshots[key].limit - snapshots[key].spent THEN "admissible" ELSE "exceeded"
PlanTimePolicy(p, snapshots) ==
  LET admissions == {Admission(p, snapshots, key) : key \in Budgeted(p)}
  IN [Plan(p) EXCEPT !.valid = @ /\ admissions \subseteq {"admissible"},
        !.warnings = @ \cup (IF "unverified" \in admissions THEN {"retry_budget_snapshot_missing"} ELSE {})
                       \cup (IF "exceeded" \in admissions THEN {"retry_budget_exceeded"} ELSE {})]

\* verifyTimePolicy of analysis/index.ts, against a maximum for the upper bound.
VerifyTimePolicy(p, max) ==
  LET plan == PlanTimePolicy(p, <<>>)
  IN IF "deadline_infeasible" \in plan.warnings \/ plan.upperBoundMs > max THEN "fail"
     ELSE IF plan.warnings # {} THEN "warn" ELSE "pass"
----------------------------------------------------------------------------
\* The plan bounds every run: its time, the attempts it starts, their work, and
\* its charges to each retry budget; and a run that a timeout cuts short was
\* warned of.  A plan that is valid for the budgets as they stand leaves none of
\* them overdrawn, and a policy that passes its analysis has no run that takes
\* longer than the maximum, is cut by a timeout, or charges a budget.
PlanBounds ==
  LET plan == Plan(timePolicy)
      runs == Runs(timePolicy, 0)
      demand == [key \in RetryBudgets |-> Demand(timePolicy, key, 1)]
      most == [key \in RetryBudgets |-> CHOOSE n \in {r.retries[key] : r \in runs} : \A r \in runs : r.retries[key] <= n]
  IN /\ \A r \in runs :
          /\ r.ms <= plan.upperBoundMs /\ r.calls <= plan.attempts /\ r.work <= plan.parallelWorkMs
          /\ r.cut => plan.warnings \cap {"retry_exceeds_timeout", "hedge_exceeds_timeout", "time_exceeds_timeout"} # {}
     /\ \A key \in RetryBudgets : most[key] <= demand[key] \/ demand[key] = MaxDemand
     /\ \A snapshots \in Snapshots : PlanTimePolicy(timePolicy, snapshots).valid =>
          \A key \in RetryBudgets : most[key] > 0 =>
            key \in DOMAIN snapshots /\ snapshots[key].spent + most[key] <= snapshots[key].limit
     /\ \A max \in 0..(plan.upperBoundMs + 1) : VerifyTimePolicy(timePolicy, max) = "pass" =>
          \A r \in runs : r.ms <= max /\ ~r.cut /\ \A key \in RetryBudgets : r.retries[key] = 0

\* A valid plan fits before its deadlines.
ValidFits == Plan(timePolicy).valid => \A r \in Runs(timePolicy, 0) : ~r.late
=============================================================================

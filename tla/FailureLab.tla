----------------------------- MODULE FailureLab -----------------------------
(***************************************************************************)
(* examples/ai-failure-lab: an incident scenario, checked by its contract,  *)
(* is previewed by policy/preview-engine.mjs, which computes what each      *)
(* candidate would come to, and run by runtime/run-scenario.mjs through     *)
(* firstAcceptable, with its retries, retry budget and deadline.  The site  *)
(* shows the first and points to the second.                                *)
(*                                                                          *)
(* Time is that of the timers: an attempt takes the latency of its          *)
(* candidate.  Of an outcome the policy sees the type, and of a success     *)
(* the risk, the number of references and the confidence.                   *)
(***************************************************************************)
EXTENDS Integers, Sequences, FiniteSets

VARIABLE labInput   \* the scenario: a policy and candidates

LabInit(inputs) == labInput \in inputs

\* scenario-contract.mjs: SCENARIO_LIMITS, and what a scenario must keep to.
MaxLabCandidates == 12
MaxLabOutcomes == 8
MaxLabReferences == 8
MaxLabAttempts == 32
MaxLabRetries == 4
ValidPolicy(p) ==
  /\ p.minReferences \in 0..MaxLabReferences /\ p.retryLimit \in 0..MaxLabRetries
  /\ p.maxEvidence \in 1..MaxLabAttempts /\ p.minConfidence \in 0..100 /\ p.deadline \in Nat
ValidOutcome(o) ==
  \/ o.type = "failure" /\ o.class \in {"transient", "unavailable", "invalid_request"}
  \/ /\ o.type = "success" /\ o.references \in 0..MaxLabReferences
     /\ o.risk \in {"read_only", "production_write"} /\ o.confidence \in 0..100
ValidLabCandidate(c) ==
  /\ c.latency \in Nat /\ Len(c.outcomes) \in 1..MaxLabOutcomes
  /\ \A k \in 1..Len(c.outcomes) : ValidOutcome(c.outcomes[k])
ValidScenario(s) ==
  /\ ValidPolicy(s.policy) /\ Len(s.candidates) \in 1..MaxLabCandidates
  /\ \A c \in 1..Len(s.candidates) : ValidLabCandidate(s.candidates[c])
  /\ \A c, d \in 1..Len(s.candidates) : c # d => s.candidates[c].id # s.candidates[d].id
----------------------------------------------------------------------------
\* incident-policy.mjs: what an outcome comes to, and why.
FailureDecision(class) ==
  CASE class = "transient" -> [is |-> "retry_same_candidate", why |-> "transient_provider_failure"]
    [] class = "unavailable" -> [is |-> "try_next_candidate", why |-> "provider_unavailable"]
    [] class = "invalid_request" -> [is |-> "terminal", why |-> "provider_request_invalid"]
Assess(o, p) ==
  IF o.risk = "production_write"
    THEN [is |-> "requires_user_input", why |-> "production_change_requires_approval"]
  ELSE IF o.references < p.minReferences
    THEN [is |-> "quality_rejected", why |-> "incident_evidence_missing"]
  ELSE IF o.confidence < p.minConfidence
    THEN [is |-> "quality_rejected", why |-> "incident_confidence_too_low"]
  ELSE [is |-> "accepted", why |-> "none"]
DecisionOn(o, p) == IF o.type = "success" THEN Assess(o, p) ELSE FailureDecision(o.class)
Timeout == [is |-> "terminal", why |-> "workit_timeout"]
BudgetSpent == [is |-> "terminal", why |-> "workit_budget_exhausted"]

\* A course of a scenario: what is spent, and the evidence that is kept.
NoCourse == [elapsed |-> 0, spent |-> 0, evidence |-> <<>>, dropped |-> 0, status |-> "pending",
             why |-> "none", candidate |-> 0, action |-> "none"]
Retain(s, course, c, k, d) ==
  IF Len(course.evidence) < s.policy.maxEvidence
    THEN [course EXCEPT !.evidence =
            Append(@, [candidate |-> c, attempt |-> k, is |-> d.is, why |-> d.why])]
    ELSE [course EXCEPT !.dropped = @ + 1]
Ends(course, status, why) == [course EXCEPT !.status = status, !.why = why]
Selects(course, c, o) ==
  [course EXCEPT !.status = "accepted", !.candidate = c, !.action = o.action]

\* Of both: attempt k of candidate c, with outcome o.  One that would take longer
\* than the deadline allows ends it.
Overruns(s, course, c) == course.elapsed + s.candidates[c].latency > s.policy.deadline
CutShort(s, course, c, k) ==
  Ends([Retain(s, course, c, k, Timeout) EXCEPT !.elapsed = s.policy.deadline],
       Timeout.is, Timeout.why)
Attempted(s, course, c, k, o) ==
  [Retain(s, course, c, k, DecisionOn(o, s.policy)) EXCEPT !.elapsed = @ + s.candidates[c].latency]

\* Where a course stands: before attempt k of candidate c.
Place(c, k, course) == [c |-> c, k |-> k, course |-> course]

\* previewScenario: one turn of its loops; the outcomes of a candidate are its attempts.
PreviewTurn(s, x) ==
  LET c == x.c
      k == x.k
      o == s.candidates[c].outcomes[k]
      d == DecisionOn(o, s.policy)
      next == Attempted(s, x.course, c, k, o)
  IN IF c > Len(s.candidates) THEN Place(c, k, Ends(x.course, "exhausted", "none"))
     ELSE IF k > Len(s.candidates[c].outcomes) THEN Place(c + 1, 1, x.course)
     ELSE IF Overruns(s, x.course, c) THEN Place(c, k, CutShort(s, x.course, c, k))
     ELSE CASE d.is = "accepted" -> Place(c, k, Selects(next, c, o))
            [] d.is \in {"requires_user_input", "terminal"} -> Place(c, k, Ends(next, d.is, d.why))
            [] d.is \in {"try_next_candidate", "quality_rejected"} -> Place(c + 1, 1, next)
            [] d.is = "retry_same_candidate" ->
                 IF next.spent >= s.policy.retryLimit
                   THEN Place(c, k, Ends(Retain(s, next, c, k, BudgetSpent), BudgetSpent.is, BudgetSpent.why))
                   ELSE Place(c, k + 1, [next EXCEPT !.spent = @ + 1])

\* firstAcceptable and retry: the last outcome is that of every later attempt, each
\* candidate has retryLimit + 1 attempts, and all of them one budget.  The charge
\* that exceeds it cancels the group, and firstAcceptable throws.
AttemptShort(s, k) == k >= s.policy.retryLimit
LastAttempt(s, k) == k >= s.policy.retryLimit + 1
RunTurn(s, x) ==
  LET c == x.c
      k == x.k
      outcomes == s.candidates[c].outcomes
      o == outcomes[IF k <= Len(outcomes) THEN k ELSE Len(outcomes)]
      d == DecisionOn(o, s.policy)
      next == Attempted(s, x.course, c, k, o)
  IN IF c > Len(s.candidates) THEN Place(c, k, Ends(x.course, "exhausted", "none"))
     ELSE IF Overruns(s, x.course, c) THEN Place(c, k, CutShort(s, x.course, c, k))
     ELSE CASE d.is = "accepted" -> Place(c, k, Selects(next, c, o))
            [] d.is \in {"requires_user_input", "terminal"} -> Place(c, k, Ends(next, d.is, d.why))
            [] d.is = "retry_same_candidate" /\ ~LastAttempt(s, k) ->
                 IF next.spent + 1 > s.policy.retryLimit THEN Place(c, k, Ends(next, "thrown", "none"))
                 ELSE Place(c, k + 1, [next EXCEPT !.spent = @ + 1])
            [] OTHER -> Place(c + 1, 1, next)

\* A candidate has no more turns than outcomes and one, and no more than attempts.
MostTurns(s) == Len(s.candidates) * (MaxLabOutcomes + 1) + 1
Turn(by, s, x) ==
  IF x.course.status # "pending" THEN x
  ELSE IF by = "preview" THEN PreviewTurn(s, x) ELSE RunTurn(s, x)
Places(by, s) ==
  LET at[n \in 0..MostTurns(s)] ==
        IF n = 0 THEN Place(1, 1, NoCourse) ELSE Turn(by, s, at[n - 1])
  IN  at
Preview(s) == Places("preview", s)[MostTurns(s)].course
RunLab(s) == Places("run", s)[MostTurns(s)].course
----------------------------------------------------------------------------
\* decisionContract of the parity test: all but the time.
Contract(course) == [x \in DOMAIN course \ {"elapsed"} |-> course[x]]

\* Scenarios whose retries are foreseen: after a transient failure the candidate
\* has another outcome, and the retries of all candidates are within the limit.
LabAttempts(s) == {a \in (1..Len(s.candidates)) \X (1..MaxLabOutcomes) :
                  a[2] <= Len(s.candidates[a[1]].outcomes)}
Transient(s, a) == LET o == s.candidates[a[1]].outcomes[a[2]]
                   IN o.type = "failure" /\ o.class = "transient"
RetriesForeseen(s) ==
  /\ Cardinality({a \in LabAttempts(s) : Transient(s, a)}) <= s.policy.retryLimit
  /\ \A c \in 1..Len(s.candidates) : ~Transient(s, <<c, Len(s.candidates[c].outcomes)>>)

\* No attempt of the run can end just when the deadline is due: which timer is first
\* would be open.
Untied(s) ==
  \A n \in 0..MostTurns(s) :
    LET x == Places("run", s)[n]
    IN x.c <= Len(s.candidates) => x.course.elapsed + s.candidates[x.c].latency # s.policy.deadline

\* A course is bounded and stops where it must: no retry beyond the limit, nothing
\* after the deadline, no evidence beyond its bound and none lost unsaid; accepted
\* is only a read-only, grounded and confident recommendation, and no candidate
\* comes after one that asks for a production write.
Sound(s, course) ==
  /\ course.status # "pending" /\ course.spent <= s.policy.retryLimit
  /\ course.elapsed <= s.policy.deadline
  /\ Len(course.evidence) <= s.policy.maxEvidence
  /\ course.dropped > 0 => Len(course.evidence) = s.policy.maxEvidence
  /\ course.status = "accepted" =>
       \E k \in 1..Len(s.candidates[course.candidate].outcomes) :
         LET o == s.candidates[course.candidate].outcomes[k]
         IN /\ o.type = "success" /\ o.risk = "read_only" /\ o.action = course.action
            /\ o.references >= s.policy.minReferences /\ o.confidence >= s.policy.minConfidence
  /\ \A i \in DOMAIN course.evidence : course.evidence[i].is \in {"requires_user_input", "terminal", "accepted"} =>
       i = Len(course.evidence) /\ course.dropped = 0 /\ course.status = course.evidence[i].is

\* The preview is sound, and so is the runtime, unless an attempt ends just at the
\* deadline; where the retries of a scenario are foreseen too, both come to the same
\* decisions, evidence and retries.
LabTruth ==
  ValidScenario(labInput) =>
    /\ Sound(labInput, Preview(labInput))
    /\ Untied(labInput) =>
         /\ Sound(labInput, RunLab(labInput))
         /\ RetriesForeseen(labInput) => Contract(Preview(labInput)) = Contract(RunLab(labInput))

\* "preview and WorkIt runtime preserve decision parity"
\* (examples/ai-failure-lab/test/preview-runtime-parity.test.mjs:23), of any scenario.
AlwaysAtParity ==
  ValidScenario(labInput) => Contract(Preview(labInput)) = Contract(RunLab(labInput))
=============================================================================

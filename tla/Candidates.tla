----------------------------- MODULE Candidates -----------------------------
(***************************************************************************)
(* firstAcceptable of candidates/index.ts: candidates are tried in order,   *)
(* each in a group of its own with retries and under one deadline, until    *)
(* one is accepted or a failure is classified as final.                     *)
(*                                                                          *)
(* What happened is kept twice: the attempt recorder of replay/index.ts     *)
(* notes how every invocation ended, a buffer of decisions what the policy  *)
(* made of it.  The evidence of the result joins the two by their position. *)
(* An attempt that its deadline abandons runs on, and may still decide      *)
(* before the handler of the deadline does.                                 *)
(***************************************************************************)
EXTENDS Naturals, Sequences

CONSTANTS
  CandCount,   \* how many candidates there are
  CandTimes    \* retry.times

ASSUME CandidatesAssumption == CandCount \in Nat \ {0} /\ CandTimes \in Nat \ {0}

VARIABLES
  candLimit,      \* evidence.maxAttempts
  candAt,         \* the candidate and the attempt under way
  candStage,      \* trying; sleeping, before a retry; or done
  candLate,       \* the deadline has passed
  candAttempts,   \* recorder.attempts: candidate, outcome and reasonCode
  candDropped,    \* recorder.droppedAttempts
  candDecisions,  \* the buffer of decisions
  candResult      \* pending, thrown, or the status of the result

candVars == <<candLimit, candAt, candStage, candLate, candAttempts, candDropped, candDecisions,
              candResult>>

\* What a classifier may say of a failure, and accept of a value.
Dispositions == {"retry_same_candidate", "try_next_candidate", "terminal",
                 "requires_user_input"}
Acceptances == {"accepted", "quality_rejected"}
NoReason == "none"

CandidatesInit(limits) ==
  /\ candLimit \in limits
  /\ candAt = [candidate |-> 1, attempt |-> 1] /\ candStage = "trying"
  /\ candLate = FALSE
  /\ candAttempts = <<>> /\ candDropped = 0 /\ candDecisions = <<>>
  /\ candResult = "pending"
----------------------------------------------------------------------------
\* The recorder notes an invocation, unless it is full.
RecordAttempt(outcome, reason) ==
  IF Len(candAttempts) < candLimit
    THEN /\ candAttempts' = Append(candAttempts, [candidate |-> candAt.candidate,
                                                  outcome |-> outcome, reason |-> reason])
         /\ UNCHANGED candDropped
    ELSE candDropped' = candDropped + 1 /\ UNCHANGED candAttempts

\* The buffer after one more decision, which is lost when the buffer is full.
Buffered(buffer, d) ==
  IF Len(buffer) < candLimit
    THEN Append(buffer, [candidate |-> candAt.candidate, decision |-> d]) ELSE buffer

Finish(status) == candResult' = status /\ candStage' = "done" /\ UNCHANGED candAt

\* The next candidate, with its first attempt at once.
NextCandidate ==
  IF candAt.candidate = CandCount THEN Finish("exhausted")
    ELSE /\ candAt' = [candidate |-> candAt.candidate + 1, attempt |-> 1]
         /\ candStage' = "trying" /\ UNCHANGED candResult

\* retryIf: only a failure of that disposition is tried again.
RetriesAll(d) == candAt.attempt < CandTimes
Retries(d) == candAt.attempt < CandTimes /\ d = "retry_same_candidate"

\* How the loops go on after a decision.  The charge to the retry budget may throw.
GoOn(d) ==
  CASE d = "accepted" -> Finish("accepted")
    [] d = "quality_rejected" -> NextCandidate
    [] Retries(d) -> \/ candStage' = "sleeping" /\ UNCHANGED <<candAt, candResult>>
                     \/ Finish("thrown")
    [] d \in {"terminal", "requires_user_input"} -> Finish(d)
    [] OTHER -> NextCandidate

\* execute and accept or classifyFailure came to a decision.
Decide(d) ==
  /\ candStage = "trying"
  /\ candDecisions' = Buffered(candDecisions, d)
  /\ IF d \in Acceptances THEN RecordAttempt("succeeded", NoReason) ELSE RecordAttempt("failed", d)
  /\ GoOn(d) /\ UNCHANGED <<candLimit, candLate>>

\* A callback throws, or the attempt ends with a CancellationError: no decision.
Throw(outcome) ==
  /\ candStage = "trying" /\ RecordAttempt(outcome, NoReason) /\ Finish("thrown")
  /\ UNCHANGED <<candLimit, candLate, candDecisions>>

DeadlinePasses ==
  /\ candStage # "done" /\ ~candLate /\ candLate' = TRUE
  /\ UNCHANGED <<candLimit, candAt, candStage, candAttempts, candDropped, candDecisions,
                 candResult>>

\* The timer of the attempt's deadline rejects it.  The attempt it abandons
\* sees its signal aborted and may decide (d) ahead of the handler.
FirstWord(d) == IF d = NoReason THEN candDecisions ELSE Buffered(candDecisions, d)
TimeoutUndecided(d) == FirstWord(d)
WithTimeout(d) == Buffered(FirstWord(d), "terminal")
TimeOut(d) ==
  /\ candStage = "trying" /\ candLate
  /\ candDecisions' = WithTimeout(d)
  /\ RecordAttempt("failed", "terminal") /\ Finish("terminal")
  /\ UNCHANGED <<candLimit, candLate>>

\* The delay before a retry ends, or is cut short by a cancellation.
Wake ==
  /\ candStage = "sleeping"
  /\ \/ /\ candAt' = [candAt EXCEPT !.attempt = @ + 1] /\ candStage' = "trying"
        /\ UNCHANGED candResult
     \/ Finish("thrown")
  /\ UNCHANGED <<candLimit, candLate, candAttempts, candDropped, candDecisions>>

CandidatesNext ==
  \/ \E d \in Dispositions \cup Acceptances : Decide(d)
  \/ \E outcome \in {"failed", "cancelled"} : Throw(outcome)
  \/ DeadlinePasses
  \/ \E d \in Dispositions \cup Acceptances \cup {NoReason} : TimeOut(d)
  \/ Wake
----------------------------------------------------------------------------
\* The decision that belongs to a recorded attempt.
Explains(decision, attempt) ==
  /\ decision.candidate = attempt.candidate
  /\ IF attempt.outcome = "succeeded" THEN decision.decision \in Acceptances
     ELSE decision.decision = attempt.reason

\* The evidence of a result: every attempt has a decision at its position, its
\* own one, but for an attempt that the deadline ended, which is the last.  And
\* the attempts lead to the result: the same candidate was tried again only
\* after a failure to be retried, the next one only after one that is neither
\* final nor left to be retried, exhausted says that the last had its turn, and
\* accepted that the last attempt was.
SelectionTruth ==
  candResult \notin {"pending", "thrown"} =>
    LET n == Len(candAttempts)
        reason(i) == candDecisions[i].decision
    IN /\ Len(candDecisions) >= n
       /\ \A i \in 1..n : \/ Explains(candDecisions[i], candAttempts[i])
                          \/ candLate /\ i = n /\ candResult = "terminal"
       /\ \A i \in 1..(n - 1) :
            IF candAttempts[i + 1].candidate = candAttempts[i].candidate
              THEN reason(i) = "retry_same_candidate"
              ELSE /\ candAttempts[i + 1].candidate = candAttempts[i].candidate + 1
                   /\ reason(i) \in {"quality_rejected", "try_next_candidate",
                                     "retry_same_candidate"}
       /\ candDropped > 0 => n = candLimit
       /\ candDropped = 0 =>
            /\ candResult = "accepted" <=> candAttempts[n].outcome = "succeeded"
                                             /\ reason(n) = "accepted"
            /\ candResult = "exhausted" => candAttempts[n].candidate = CandCount
            /\ \A i \in 1..n : reason(i) = "retry_same_candidate" /\ i < n =>
                 \/ candAttempts[i + 1].candidate = candAttempts[i].candidate
                 \/ CandTimes <= i /\ \A j \in (i + 1 - CandTimes)..i :
                      candAttempts[j].candidate = candAttempts[i].candidate
=============================================================================

----------------------------- MODULE PublicData -----------------------------
(***************************************************************************)
(* Imports of public data into the scenario studio: the bounded request of  *)
(* boundedFetch.ts, the adapters of githubIssues.ts and openMeteo.ts, and   *)
(* runImport of PublicDataImporters.tsx, which shows what came of it.       *)
(*                                                                          *)
(* An aborted request is rejected at once.  Of a body one sees whether it   *)
(* is too large and what it parses to; of an issue whether it is a pull     *)
(* request, how many labels it has and the first that says it is a bug.     *)
(***************************************************************************)
EXTENDS FailureLab

CONSTANT FetIssues   \* the lists of issues that a body can be

\* An issue; its position stands for its number.
Issue == [pull : BOOLEAN, labels : Nat, bug : Nat]
ASSUME FetchAssumption == FetIssues \subseteq Seq(Issue)

VARIABLES
  fetSource,    \* the adapter that is used
  fetPhase,     \* unsent, requesting, reading or settled
  fetSignal,    \* aborted: the caller's signal is; heard: it is listened to
  fetOutcome,   \* pending, a PublicDataErrorCode, or scenario
  fetShown      \* runImport: the scenario that was handed on, and the error that is shown

fetVars == <<fetSource, fetPhase, fetSignal, fetOutcome, fetShown>>

Unreadable == [is |-> "invalid", value |-> <<>>]
Bodies(source) ==
  {Unreadable} \cup
  (IF source = "weather" THEN {[is |-> "current", value |-> <<>>]}
   ELSE {[is |-> "issues", value |-> i] : i \in FetIssues})
NothingShown == [scenario |-> <<>>, error |-> "none"]

FetchInit(sources, aborted) ==
  /\ fetSource \in sources /\ fetPhase = "unsent" /\ fetOutcome = "pending" /\ fetShown = NothingShown
  /\ fetSignal \in {[aborted |-> a, heard |-> ~a] : a \in aborted}
----------------------------------------------------------------------------
\* toCandidate: three labels are kept, and looked at.
MaxImported == 3
MaxLabels == 3
Fewest(m, n) == IF m < n THEN m ELSE n
Confidence(issue) == IF issue.bug \in 1..Fewest(issue.labels, MaxLabels) THEN 90 ELSE 70
ToCandidate(number, issue) ==
  [id |-> number, latency |-> 0,
   outcomes |-> <<[type |-> "success", risk |-> "read_only", confidence |-> Confidence(issue),
                   references |-> 2 + Fewest(issue.labels, MaxLabels), action |-> "open_incident_review"]>>]
Policy(references, confidence) ==
  [minReferences |-> references, minConfidence |-> confidence, retryLimit |-> 0, maxEvidence |-> 4, deadline |-> 2000]

\* Pull requests are left out before the first three are taken.
NoPulls(issues) ==
  LET kept[n \in 0..Len(issues)] ==
        IF n = 0 THEN <<>>
        ELSE IF issues[n].pull THEN kept[n - 1]
        ELSE Append(kept[n - 1], [number |-> n, issue |-> issues[n]])
  IN  kept
Importable(issues) ==
  LET kept == NoPulls(issues)[Len(issues)]
  IN  SubSeq(kept, 1, Fewest(Len(kept), MaxImported))
GitHubScenario(issues) ==
  [policy |-> Policy(2, 85),
   candidates |-> [k \in DOMAIN Importable(issues) |-> ToCandidate(Importable(issues)[k].number, Importable(issues)[k].issue)]]
WeatherScenario ==
  [policy |-> Policy(3, 95),
   candidates |-> <<[id |-> 1, latency |-> 0,
     outcomes |-> <<[type |-> "success", risk |-> "read_only", confidence |-> 99, references |-> 4,
                     action |-> "record_weather_observation"]>>]>>]

\* What an adapter makes of a body, an error or a scenario that validateScenario takes.
Adapted(body) ==
  CASE body.is = "invalid" -> NothingShown
    [] body.is = "current" -> [NothingShown EXCEPT !.scenario = WeatherScenario]
    [] body.is = "issues" -> IF Importable(body.value) = <<>> THEN NothingShown
                             ELSE [NothingShown EXCEPT !.scenario = GitHubScenario(body.value)]

\* The finally blocks: the timer is cleared and the signal no longer listened to; the
\* page shows an error unless the import was aborted.
Fails(code) ==
  /\ fetPhase' = "settled" /\ fetOutcome' = code
  /\ fetShown' = IF fetSignal'.aborted THEN fetShown ELSE [fetShown EXCEPT !.error = code]
  /\ UNCHANGED fetSource
Delivers(body) ==
  LET adapted == Adapted(body)
  IN IF adapted.scenario = <<>> THEN Fails("invalid_response")
     ELSE /\ fetPhase' = "settled" /\ fetOutcome' = "scenario" /\ fetShown' = adapted
          /\ UNCHANGED fetSource
----------------------------------------------------------------------------
Pending == fetPhase \in {"requesting", "reading"}
Send ==
  /\ fetPhase = "unsent" /\ fetPhase' = "requesting"
  /\ UNCHANGED <<fetSource, fetSignal, fetOutcome, fetShown>>

\* The caller's signal aborts the request that listens to it; a timer aborts any.
CallerGivesUp ==
  /\ Pending /\ ~fetSignal.aborted /\ fetSignal' = [fetSignal EXCEPT !.aborted = TRUE]
  /\ IF fetSignal.heard THEN Fails("aborted") ELSE UNCHANGED <<fetSource, fetPhase, fetOutcome, fetShown>>
FetchTimesOut ==
  /\ Pending /\ UNCHANGED fetSignal
  /\ Fails(IF fetSignal.aborted THEN "aborted" ELSE "timeout")

\* A rejection of the transport, classified by the signals.
NetworkFails ==
  /\ Pending /\ UNCHANGED fetSignal
  /\ Fails(IF fetSignal.aborted THEN "aborted" ELSE "source_unavailable")
Responds(status) ==
  /\ fetPhase = "requesting" /\ UNCHANGED fetSignal
  /\ IF status = 200 THEN fetPhase' = "reading" /\ UNCHANGED <<fetSource, fetOutcome, fetShown>>
     ELSE Fails(IF status \in {403, 429} THEN "rate_limited" ELSE "source_unavailable")
BodyArrives(large, body) ==
  /\ fetPhase = "reading" /\ UNCHANGED fetSignal
  /\ IF large THEN Fails("response_too_large") ELSE Delivers(body)

FetchNext ==
  \/ Send \/ CallerGivesUp \/ FetchTimesOut \/ NetworkFails
  \/ \E status \in {200, 403, 429, 500} : Responds(status)
  \/ \E large \in BOOLEAN, body \in Bodies(fetSource) : BodyArrives(large, body)
FetchFairness == WF_fetVars(FetchTimesOut)
----------------------------------------------------------------------------
\* Whatever is imported keeps to the contract of a scenario, so that the studio can
\* preview it: a weather observation is accepted, and of the issues the first one
\* that is labelled a bug within the labels that are kept, or none.  An import that
\* was aborted while it was listened to brings neither a scenario nor an error, and
\* any other that has ended exactly one of them.
FetchTruth ==
  /\ fetShown.scenario # <<>> =>
       LET s == fetShown.scenario
           bugs == {k \in DOMAIN s.candidates : s.candidates[k].outcomes[1].confidence = 90}
           course == Preview(s)
       IN /\ ValidScenario(s) /\ Sound(s, course) /\ course.dropped = 0
          /\ fetSource = "weather" => course.status = "accepted"
          /\ fetSource = "issues" =>
               IF bugs = {} THEN course.status = "exhausted"
               ELSE course.status = "accepted" /\ course.candidate = CHOOSE k \in bugs : \A j \in bugs : k <= j
  /\ fetPhase = "settled" =>
       IF fetSignal.aborted /\ fetSignal.heard THEN fetOutcome = "aborted" /\ fetShown = NothingShown
       ELSE fetSignal.aborted \/ (fetShown.scenario = <<>>) # (fetShown.error = "none")

\* An import that was sent ends, even if nothing answers.
ImportsEnd == fetPhase = "requesting" ~> fetPhase = "settled"

\* "Fetch JSON with a hard timeout, byte limit, safe status mapping, and cancellation."
\* (apps/use-cases-site/src/labs/public-data/boundedFetch.ts:38): an import under a
\* signal that is aborted brings no scenario.
AbortedBringsNothing == fetSignal.aborted => fetOutcome # "scenario"
=============================================================================

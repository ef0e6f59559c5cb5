---------------------------- MODULE MCCompanions ----------------------------
(* Instances, for TLC, of the modules beside the engine: each behaviour runs *)
(* one of them, its part, while the others stay as they began.               *)
EXTENDS Companions, TimePolicy, Exporter, Snapshots

CONSTANTS u1, u2, u3, u4, root, child
VARIABLE part

\* Three tools whose charges compete for the budgets; the fourth is denied.
Charges == [t \in AgentTools |-> CASE t = u1 -> <<1, 1, 1>> [] t = u2 -> <<1, 2, 0>>
                                   [] OTHER -> <<0, 1, 1>>]
Limits == <<2, 2, 1>>

\* A root scope and a child; events of one or two bytes, and one larger than the queue.
RootAndChild == root :> {root} @@ child :> {root, child}
Sizes == <<1, 2, 4, 2>>

\* Bound: the policies that are planned, trees of up to two levels of wrappers.
Leaf == [type |-> "attempt", ms |-> 1]
Leaves == {Leaf, [type |-> "attempt", ms |-> 2]}
Composed(P, Q) == {[type |-> t, policies |-> q] : t \in {"series", "parallel"},
                                                  q \in {<<>>} \cup {<<a, b>> : a \in P, b \in Q}}
Retried(P, times, backoffs) ==
  {[type |-> "retry", inner |-> p,
    retry |-> [times |-> times, backoff |-> b, initial |-> 1, max |-> 2,
               jitter |-> b = "linear",
              budget |-> CASE b = "fixed" -> "first" [] b = "linear" -> "second" [] OTHER -> "none"]] : p \in P, b \in backoffs}
HedgedBy(P, max) == {[type |-> "hedge", inner |-> p, after |-> 1, max |-> max] : p \in P}
Limited(P) == {[type |-> "timeout", inner |-> p, ms |-> m] : p \in P, m \in {1, 3}}
                \cup {[type |-> "deadline", inner |-> p, at |-> m] : p \in P, m \in {1, 3}}
Simple == Leaves \cup Composed(Leaves, {Leaf}) \cup Limited(Leaves) \cup Retried({Leaf}, 2, {"fixed"})
OneLevel == Simple \cup HedgedBy(Leaves, 3)
              \cup Retried(Leaves, 3, {"fixed", "linear", "exponential", "dynamic"})
TwoLevels == Composed({Leaf}, OneLevel) \cup Limited(OneLevel)
               \cup HedgedBy(Simple, 2) \cup Retried(Simple, 2, {"fixed"})
               \cup Retried(Retried({Leaf}, 3, {"fixed"}), 2, {"fixed"})

\* The scenarios of the fault lab: delays of one unit against two, storms of two or
\* three workers, and windows that are too small and large enough.
Faults ==
  [kind : {"cancellation_storm"}, count : {2, 3}, first : {0, 1}, second : {1, 2}]
    \cup [kind : {"provider_timeout"}, count : {1}, first : {1, 2}, second : {1, 2}]
    \cup [kind : {"retry_exhaustion"}, count : {1, 3}, first : {0}, second : {0}]
    \cup [kind : {"cleanup_hang"}, count : {1}, first : {1}, second : {0}]
Hang == [kind |-> "cleanup_hang", count |-> 1, first |-> 1, second |-> 0]

\* Scenarios of the failure lab: every outcome for the first candidate, one that
\* succeeds, fails or asks for the second.  Deadlines are odd and latencies even,
\* so that no two timers are due together.
Success(risk, references, confidence) ==
  [type |-> "success", risk |-> risk, references |-> references, confidence |-> confidence, action |-> "act"]
Failing == {[type |-> "failure", class |-> c] : c \in {"transient", "unavailable", "invalid_request"}}
FewOutcomes == {Success("read_only", 1, 1), Success("production_write", 1, 1), [type |-> "failure", class |-> "transient"]}
Outcomes == FewOutcomes \cup Failing \cup
  {Success("read_only", 0, 1), Success("read_only", 1, 0), Success("production_write", 0, 1)}
LabCandidates(id, outcomes, latencies) ==
  {[id |-> id, latency |-> l, outcomes |-> o] :
     l \in latencies, o \in {<<a>> : a \in outcomes} \cup {<<a, b>> : a \in outcomes, b \in outcomes}}
FirstCandidates == LabCandidates(1, Outcomes, {0, 2})
LabPolicies == [minReferences : {1}, minConfidence : {1}, retryLimit : 0..2, maxEvidence : {1, 4}, deadline : {3, 9}]
Scenarios ==
  [policy : LabPolicies, candidates : {<<c>> : c \in FirstCandidates}
     \cup {<<c, d>> : c \in FirstCandidates, d \in LabCandidates(2, FewOutcomes, {2})}]
OneScenario ==
  [policy |-> [minReferences |-> 1, minConfidence |-> 1, retryLimit |-> 0, maxEvidence |-> 1, deadline |-> 3],
   candidates |-> <<[id |-> 1, latency |-> 0, outcomes |-> <<Success("read_only", 1, 1)>>]>>]

\* Lists of issues: up to two of any, and five where the second is a pull request.
ImportedIssues == {[pull |-> FALSE, labels |-> n, bug |-> b] : n \in {0, 4}, b \in {0, 1, 4}}
                    \cup {[pull |-> TRUE, labels |-> 0, bug |-> 0]}
Imported == UNION {[1..n -> ImportedIssues] : n \in 0..2}
  \cup {[k \in 1..5 |-> [pull |-> k = 2, labels |-> 4, bug |-> b[k]]] : b \in [1..5 -> {1, 4}]}

\* Declared protocols: one function of each kind that uses up to three operations,
\* and programs of up to two modules of up to two functions against small limits.
Use(op) == [operation |-> op, capability |-> op = "authority.check"]
Used == {"resource.acquire", "ctx.defer", "durable.side_effect", "activity.run", "promise.all", "run.pool",
         "run.retry", "time_policy.plan", "authority.check", "agent.tool"}
Functions == UNION {[kind : {"task", "agent_tool"}, uses : [1..k -> {Use(o) : o \in Used}]] : k \in 0..3}
FewFunctions == {[kind |-> "task", uses |-> u] :
  u \in {<<>>, <<Use("resource.acquire")>>, <<Use("resource.acquire"), Use("ctx.defer")>>}}
Modules == UNION {[1..k -> FewFunctions] : k \in 0..2}
Protocols ==
  [modules : {<<<<f>>>> : f \in Functions}, limits : {ProtocolLimits(1, 1, 3)}]
    \cup [modules : UNION {[1..k -> Modules] : k \in 0..2},
          limits : {ProtocolLimits(m, f, u) : m \in 1..2, f \in 1..3, u \in 1..2}]
NoProtocol == [modules |-> <<>>, limits |-> ProtocolLimits(1, 1, 1)]

\* Values: every kind alone, lists and records of two of them, and some of those
\* inside another, under policies that remove, hide and cut.
Plains == {Text("plain"), Null} \cup
  {Other(k) : k \in {"infinite", "bigint", "function", "undefined", "date", "error", "map"}}
RecordsOf(V, keys) == UNION {{Record([i \in DOMAIN k |-> Field(k[i], w[i])]) : w \in [DOMAIN k -> V]} : k \in keys}
ListsOf(V) == UNION {{List(w) : w \in [1..n -> V]} : n \in 0..2}
FlatValues == ListsOf(Plains) \cup
  RecordsOf(Plains \cup {Other("cycle")}, {<<>>, <<"a">>, <<"token">>, <<"b", "a">>, <<"TOKEN", "a">>, <<"b", "secret">>})
FewValues == ListsOf({Text("plain"), Other("date")}) \cup
  RecordsOf({Text("plain"), Other("cycle"), Other("error")}, {<<"a">>, <<"TOKEN", "b">>})
Values == Plains \cup FlatValues \cup {List(<<x>>) : x \in FlatValues} \cup {List(<<x, y>>) : x, y \in FewValues}
            \cup RecordsOf(FewValues, {<<"a">>, <<"token">>, <<"b", "TOKEN">>})
Redactions == {Redaction(rm, rd, d) : rm \in {{}, {"b"}}, rd \in {{}, {"a"}}, d \in {0, 1, 2, 8}}

\* Trees of scopes: up to two children below the root, and chains of up to five.
TreeOf(status, tasks, scopes) == [status |-> status, tasks |-> tasks, scopes |-> scopes]
OneTask(status, old) == [status |-> status, old |-> old]
ChainOf[n \in 0..4, status \in {"running", "closed"}] ==
  TreeOf(status, <<OneTask("running", FALSE)>>, IF n = 0 THEN <<>> ELSE <<ChainOf[n - 1, status]>>)
FewTasks == {<<>>, <<OneTask("running", TRUE)>>, <<OneTask("pending", FALSE), OneTask("failed", FALSE)>>,
             <<OneTask("succeeded", FALSE), OneTask("cancelled", TRUE)>>}
FlatTrees == {TreeOf(s, t, <<>>) : s \in {"running", "cancelling", "closed"}, t \in FewTasks}
OneChild == {TreeOf("running", t, <<a>>) : t \in FewTasks, a \in FlatTrees}
Trees == FlatTrees \cup OneChild \cup {TreeOf("running", t, <<a, b>>) : t \in FewTasks, a, b \in FlatTrees}
           \cup {ChainOf[n, s] : n \in 0..4, s \in {"running", "closed"}}
           \cup {TreeOf("running", <<OneTask("running", FALSE)>>, <<d, f>>) : d \in OneChild, f \in FlatTrees}
OneTree == TreeOf("running", <<>>, <<>>)

\* Values of the work builder: a map makes the next one, and filters fail one.
NextItem == [v \in PlItems |-> (v + 1) % 4]

\* The first key has no default.
Defaults == [k \in AmbKeys |-> IF k = u1 THEN "missing" ELSE "default"]

\* Cells are alike: the first scope that shows one shows the first.
FirstCellFirst == \A s \in TheScopes : budCell[s] = 2 => \E r \in 1..(s - 1) : budCell[r] = 1

\* Links to the site: one that names an example and a preset, and one whose names
\* are not on the lists.
Home == [example |-> "unknown", scenario |-> "unknown"]
Links == {Home, [example |-> u2, scenario |-> u4]}

Parts == {"candidates", "embedding", "llm", "agent", "budgets", "resource", "rate", "time",
          "wrappers", "telemetry", "work", "source", "fault", "lab",
          "fetch", "site", "deadlines", "protocol", "payload", "snapshot", "ambient", "pipeline"}
CompanionsInit ==
  /\ part \in Parts
  /\ CandidatesInit(IF part = "candidates" THEN {2, 4} ELSE {2})
  /\ EmbeddingInit(IF part = "embedding" THEN {"fail", "continue"} ELSE {"fail"})
  /\ LLMInit /\ AgentInit /\ RateInit /\ TelemetryInit
  /\ BudgetsInit(part = "budgets") /\ FirstCellFirst
  /\ ResourceInit(IF part = "resource" THEN {"shared", "lazy", "bracket"} ELSE {"shared"})
  /\ IF part = "wrappers" THEN WrappersInit(Kinds, {"live", "cancelled", "timeout"})
     ELSE WrappersInit({"retry"}, {"live"})
  /\ IF part = "work" THEN WorkInit({"do", "collect"}, {"fail", "continue", "collect"}, {"throw", "partial"}, "pending")
     ELSE WorkInit({"do"}, {"fail"}, {"throw"}, "thrown")
  /\ IF part = "source" THEN SourceInit({"transcribe", "adapter"}, {"iterator", "generator", "bare"})
     ELSE SourceInit({"adapter"}, {"bare"})
  /\ IF part = "fault" THEN FaultInit(Faults, {2, 4, 9}, BOOLEAN) ELSE FaultInit({Hang}, {2}, {FALSE})
  /\ LabInit(IF part = "lab" THEN Scenarios ELSE {OneScenario})
  /\ IF part = "fetch" THEN FetchInit({"issues", "weather"}, BOOLEAN) ELSE FetchInit({"issues"}, {FALSE})
  /\ SiteInit(IF part = "site" THEN Links ELSE {Home}) /\ DeadlinesInit
  /\ ProtocolInit(IF part = "protocol" THEN Protocols ELSE {NoProtocol})
  /\ IF part = "payload" THEN PayloadsInit(Values, Redactions)
     ELSE PayloadsInit({Null}, {Redaction({}, {}, DefaultDepth)})
  /\ SnapshotsInit(IF part = "snapshot" THEN Trees ELSE {OneTree}) /\ AmbientInit
  /\ PipelinesInit
  /\ TimePolicyInit(IF part = "time" THEN OneLevel \cup TwoLevels ELSE {Leaf})

companionVars == <<candVars, embVars, llmVars, agentVars, budVars, resVars, rateVars, timePolicy, wrapVars, allVars,
                   workVars, srcVars, faultVars, labInput, fetVars, siteVars, dlVars, protocol,
                   payload, tree, ambVars, plVars>>
CompanionsNext ==
  /\ UNCHANGED <<part, timePolicy, labInput, protocol, payload, tree>>
  /\ part # "candidates" => UNCHANGED candVars
  /\ part # "embedding" => UNCHANGED embVars
  /\ part # "llm" => UNCHANGED llmVars
  /\ part # "agent" => UNCHANGED agentVars
  /\ part # "budgets" => UNCHANGED budVars
  /\ part # "resource" => UNCHANGED resVars
  /\ part # "rate" => UNCHANGED rateVars
  /\ part # "wrappers" => UNCHANGED wrapVars
  /\ part # "telemetry" => UNCHANGED allVars
  /\ part # "work" => UNCHANGED workVars
  /\ part # "source" => UNCHANGED srcVars
  /\ part # "fault" => UNCHANGED faultVars
  /\ part # "fetch" => UNCHANGED fetVars
  /\ part # "site" => UNCHANGED siteVars
  /\ part # "deadlines" => UNCHANGED dlVars
  /\ part # "ambient" => UNCHANGED ambVars
  /\ part # "pipeline" => UNCHANGED plVars
  /\ CASE part = "candidates" -> CandidatesNext [] part = "embedding" -> EmbeddingNext
       [] part = "llm" -> LLMNext [] part = "agent" -> AgentNext [] part = "budgets" -> BudgetsNext
       [] part = "resource" -> ResourceNext [] part = "rate" -> RateNext [] part \in {"time", "lab", "protocol", "payload", "snapshot"} -> FALSE
       [] part = "wrappers" -> WrappersNext [] part = "telemetry" -> TelemetryNext
       [] part = "work" -> WorkNext [] part = "source" -> SourceNext [] part = "fault" -> FaultNext
       [] part = "fetch" -> FetchNext [] part = "site" -> SiteNext [] part = "deadlines" -> DeadlinesNext
       [] part = "ambient" -> AmbientNext [] part = "pipeline" -> PipelinesNext

CompanionsSpec ==
  /\ CompanionsInit /\ [][CompanionsNext]_<<part, companionVars>>
  /\ WrappersFairness /\ TelemetryFairness /\ WorkFairness /\ SourceFairness
  /\ FetchFairness /\ SiteFairness

\* What is said of a policy before it runs, or read in the evidence of a run, see
\* TimePolicy, Payloads and Snapshots.
AnalysisTruth == PlanBounds /\ PayloadTruth /\ SnapshotTruth

\* What is told to end does, see Wrappers, Exporter, WorkModes, AIStreams,
\* PublicData and Site.
CompanionsSettle ==
  /\ AbortedSettles /\ QueueDrains /\ AbortedBatchSettles /\ AbortedSourceLeft
  /\ ImportsEnd /\ RunsEnd
=============================================================================

----------------------------- MODULE Companions -----------------------------
(***************************************************************************)
(* The companions of the engine side by side: each module has a state of    *)
(* its own, and the promises of modules that serve one purpose are put       *)
(* together.  The theorems about them are in FlowProofs and CompanionProofs, *)
(* MCCompanions has an instance of each for TLC.                             *)
(***************************************************************************)
EXTENDS
  AgentRun, AIStreams, Ambient, Candidates, Deadlines, Embedding, FaultLab, PublicData,
  RateLimiter, SharedResource, Site, SourceProtocol, WorkModes, Wrappers

\* What comes out of do(), collect() and embedAll is what became of every item that
\* went in, and a builder does with them what its calls said, see WorkModes and Embedding.
BatchesInit ==
  /\ WorkInit({"do", "collect"}, {"fail", "continue", "collect"}, {"throw", "partial"}, "pending")
  /\ EmbeddingInit({"fail", "continue"}) /\ PipelinesInit
BatchesSpec ==
  BatchesInit /\ [][WorkNext]_workVars /\ [][EmbeddingNext]_embVars /\ [][PipelinesNext]_plVars
BatchTruth == WorkTruth /\ EmbeddingTruth /\ PipelineTruth

\* The streams of ai/index.ts end as what they stream from ended, and the events of an
\* agent tell what its tools did, see AIStreams and AgentRun.
AISpec ==
  /\ LLMInit /\ SourceInit({"transcribe", "adapter"}, {"iterator", "generator", "bare"})
  /\ AgentInit
  /\ [][LLMNext]_llmVars /\ [][SourceNext]_srcVars /\ [][AgentNext]_agentVars
AITruth == LLMTruth /\ SourceTruth /\ AgentTruth

\* What scopes share is shared as it was installed and by those who see it: context
\* bags, budgets and resources, see Ambient and SharedResource.
SharingSpec ==
  /\ AmbientInit /\ BudgetsInit(TRUE) /\ ResourceInit({"shared", "lazy", "bracket"})
  /\ [][AmbientNext]_ambVars /\ [][BudgetsNext]_budVars /\ [][ResourceNext]_resVars
SharingTruth == AmbientTruth /\ BudgetTruth /\ ResourceTruth

\* What is to happen by or after a moment does, see Deadlines and RateLimiter.
ClocksSpec ==
  DeadlinesInit /\ [][DeadlinesNext]_dlVars /\ RateSpec
ClockTruth == DeadlineTruth /\ StartsSpaced

\* What is reported of a program or of its runs is what it is and what they came to: by
\* the check of its protocol, the two laboratories and the site that imports for them
\* and shows them, see SourceProtocol, FaultLab, FailureLab, PublicData and Site.
ReportsSpec(faults, inputs, links, programs) ==
  /\ FaultInit(faults, Nat, BOOLEAN) /\ LabInit(inputs)
  /\ FetchInit({"issues", "weather"}, BOOLEAN) /\ SiteInit(links) /\ ProtocolInit(programs)
  /\ [][FaultNext]_faultVars /\ [][UNCHANGED labInput]_labInput
  /\ [][FetchNext]_fetVars /\ [][SiteNext]_siteVars /\ [][UNCHANGED protocol]_protocol
ReportsTruth == FaultTruth /\ LabTruth /\ FetchTruth /\ SiteTruth /\ ProtocolTruth
=============================================================================

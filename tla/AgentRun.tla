----------------------------- MODULE AgentRun -----------------------------
(***************************************************************************)
(* runAgent of ai/index.ts: the body of an agent calls tools, which may     *)
(* overlap, and every step is noted in a list of events.  A tool whose      *)
(* capability is denied is not started.  One that starts is charged to up   *)
(* to three budgets in turn; a refused charge cancels the owner of the      *)
(* budget and ends the tool before its function is called.  Tools are no    *)
(* tasks of a scope: one that the body does not await may outlive the run.  *)
(***************************************************************************)
EXTENDS Naturals, Sequences, FiniteSets, Functions

CONSTANTS
  AgentTools,     \* calls of agent.tool()
  AgentDenied,    \* those whose capability is denied
  AgentCharges,   \* of each tool, the amounts for tokens, cost and calls
  AgentLimits     \* of the three budgets

VARIABLES
  agentStage,     \* running, completed or failed
  agentTool,      \* of each tool: idle, running, or how it ended
  agentSpent,     \* of the budgets
  agentEvents     \* the events: a type and a tool

agentVars == <<agentStage, agentTool, agentSpent, agentEvents>>

BudgetKeys == 1..3
Agent == "agent"   \* in place of a tool, in the events of the agent itself

ASSUME AgentAssumption ==
  /\ IsFiniteSet(AgentTools) /\ Agent \notin AgentTools
  /\ AgentCharges \in [AgentTools -> [BudgetKeys -> Nat]] /\ AgentLimits \in [BudgetKeys -> Nat]

AgentInit ==
  /\ agentStage = "running" /\ agentTool = [t \in AgentTools |-> "idle"]
  /\ agentSpent = [k \in BudgetKeys |-> 0] /\ agentEvents = <<<<"started", Agent>>>>
----------------------------------------------------------------------------
Push(events) == agentEvents' = agentEvents \o events

\* The charges of a tool that are accepted: those before the first that is refused.
FitsBefore(t, k) == AgentCharges[t][k] = 0 \/ agentSpent[k] < AgentLimits[k]
WithinLimits(t, k) == AgentCharges[t][k] = 0 \/ agentSpent[k] + AgentCharges[t][k] <= AgentLimits[k]
Accepted(t) == {k \in BudgetKeys : \A j \in 1..k : WithinLimits(t, j)}

CallTool(t) ==
  /\ agentStage = "running" /\ agentTool[t] = "idle"
  /\ IF t \in AgentDenied
       THEN /\ agentTool' = [agentTool EXCEPT ![t] = "denied"] /\ Push(<<<<"denied", t>>>>)
            /\ UNCHANGED agentSpent
       ELSE /\ agentSpent' = [k \in BudgetKeys |->
                 agentSpent[k] + (IF k \in Accepted(t) THEN AgentCharges[t][k] ELSE 0)]
            /\ IF Accepted(t) = BudgetKeys
                 THEN /\ agentTool' = [agentTool EXCEPT ![t] = "running"]
                      /\ Push(<<<<"started", t>>>>)
                 ELSE /\ agentTool' = [agentTool EXCEPT ![t] = "refused"]
                      /\ Push(<<<<"started", t>>, <<"cancelled", t>>>>)
  /\ UNCHANGED agentStage

\* The function of a tool, with its retries and its timeout, has ended.
ToolEnds(t, end) ==
  /\ agentTool[t] = "running"
  /\ agentTool' = [agentTool EXCEPT ![t] = end] /\ Push(<<<<end, t>>>>)
  /\ UNCHANGED <<agentStage, agentSpent>>

BodyEnds(end) ==
  /\ agentStage = "running" /\ agentStage' = end /\ Push(<<<<end, Agent>>>>)
  /\ UNCHANGED <<agentTool, agentSpent>>

AgentNext ==
  \/ \E t \in AgentTools : CallTool(t)
  \/ \E t \in AgentTools, end \in {"succeeded", "failed", "cancelled"} : ToolEnds(t, end)
  \/ \E end \in {"completed", "failed"} : BodyEnds(end)
----------------------------------------------------------------------------
\* The events of one tool, in order.
Noted(t) ==
  LET notes[i \in 0..Len(agentEvents)] ==
        IF i = 0 THEN <<>>
        ELSE IF agentEvents[i][2] = t THEN Append(notes[i - 1], agentEvents[i]) ELSE notes[i - 1]
  IN  notes[Len(agentEvents)]

\* The events replay the run: a denied tool was not started, a started one has
\* ended at most once and after it started, and ended when it does not run; the
\* budgets hold what the tools that ran were charged, and more only by the
\* charges of tools refused half way.
AgentTruth ==
  /\ \A t \in AgentTools : Noted(t) =
       CASE agentTool[t] = "idle" -> <<>>
         [] agentTool[t] = "denied" -> <<<<"denied", t>>>>
         [] agentTool[t] = "running" -> <<<<"started", t>>>>
         [] agentTool[t] = "refused" -> <<<<"started", t>>, <<"cancelled", t>>>>
         [] OTHER -> <<<<"started", t>>, <<agentTool[t], t>>>>
  /\ \A k \in BudgetKeys :
       LET ran == {t \in AgentTools : agentTool[t] \notin {"idle", "denied", "refused"}}
           refused == {t \in AgentTools : agentTool[t] = "refused"}
           charged(T) == SumFunctionOnSet([t \in AgentTools |-> AgentCharges[t][k]], T)
       IN /\ agentSpent[k] <= AgentLimits[k] /\ agentSpent[k] >= charged(ran)
          /\ agentSpent[k] <= charged(ran \cup refused)
          /\ refused = {} => agentSpent[k] = charged(ran)
=============================================================================

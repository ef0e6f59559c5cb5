--------------------------- MODULE SourceProtocol ---------------------------
(***************************************************************************)
(* verifySourceProtocol of analysis/index.ts: a declared protocol lists the *)
(* modules of a program, their functions, and what each function uses; it   *)
(* is checked within limits on all three.  An operation stands for itself,  *)
(* a capability is declared or not.                                         *)
(***************************************************************************)
EXTENDS Naturals, FiniteSets, Sequences

VARIABLE protocol   \* the input: modules, each a sequence of functions, and the limits

ProtocolInit(inputs) == protocol \in inputs

Cleanups == {"ctx.defer", "resource.bracketLazy", "resource.bracketShared", "run.bracket", "scope.acquire"}
Evidences == {"activity.run", "receipt.append"}
Bounds == {"channel.backpressure", "run.pool", "scope.spawn", "work.parallel"}
TimePolicies == {"run.hedge", "run.retry", "run.timeout"}
Authorities == {"authority.check", "agent.tool"}
Operations == Cleanups \cup Evidences \cup Bounds \cup TimePolicies \cup Authorities
                \cup {"resource.acquire", "durable.side_effect", "promise.all", "time_policy.plan"}
ProtocolLimits(modules, functions, uses) == [modules |-> modules, functions |-> functions, uses |-> uses]
LimitsValid(l) == \A x \in DOMAIN l : l[x] >= 1
----------------------------------------------------------------------------
Operated(uses) == {uses[k].operation : k \in DOMAIN uses}
HasAny(uses, expected) == Operated(uses) \cap expected # {}
DeclaresAuthority(uses) == \E k \in DOMAIN uses : uses[k].operation \in Authorities /\ uses[k].capability

\* analyzeSourceFunction, of the uses that are looked at.
Gaps(kind, uses) ==
  (IF HasAny(uses, {"resource.acquire"}) /\ ~HasAny(uses, Cleanups)
     THEN {"resource_without_cleanup"} ELSE {})
  \cup (IF HasAny(uses, {"durable.side_effect"}) /\ ~HasAny(uses, Evidences)
          THEN {"side_effect_without_evidence"} ELSE {})
  \cup (IF HasAny(uses, {"promise.all"}) /\ ~HasAny(uses, Bounds) THEN {"parallel_without_bound"} ELSE {})
  \cup (IF HasAny(uses, TimePolicies) /\ ~HasAny(uses, {"time_policy.plan"})
          THEN {"time_policy_unplanned"} ELSE {})
  \cup (IF kind = "agent_tool" /\ HasAny(uses, {"durable.side_effect"}) /\ ~DeclaresAuthority(uses)
          THEN {"tool_without_authority"} ELSE {})

Finding(code, m, f) == [code |-> code, module |-> m, function |-> f]
Exceeded(m, f) == Finding("limit_exceeded", m, f)
FirstOf(s, n) == SubSeq(s, 1, IF Len(s) < n THEN Len(s) ELSE n)

\* The loops: the modules and functions beyond the limits are not looked at, and
\* one finding says so of each limit that is met.
NothingChecked == [modules |-> 0, functions |-> 0, uses |-> 0, findings |-> {}]
CheckFunction(limits, done, f, function) ==
  LET uses == FirstOf(function.uses, limits.uses)
  IN [done EXCEPT !.functions = @ + 1, !.uses = @ + Len(uses),
        !.findings = @ \cup {Finding(code, done.modules, f) : code \in Gaps(function.kind, uses)}
                       \cup (IF Len(function.uses) > limits.uses THEN {Exceeded(done.modules, f)} ELSE {})]
FunctionsOfEach(limits, done) == limits.functions
FunctionsLeft(limits, done) == IF done.functions > limits.functions THEN 0 ELSE limits.functions - done.functions
BeginModule(limits, done, module) ==
  [done EXCEPT !.modules = @ + 1,
     !.findings = @ \cup (IF done.functions + Len(module) > limits.functions
                            THEN {Exceeded(done.modules + 1, 0)} ELSE {})]
CheckFunctions(limits, begun, looked) ==
  LET after[f \in 0..Len(looked)] ==
        IF f = 0 THEN begun ELSE CheckFunction(limits, after[f - 1], f, looked[f])
  IN  after
CheckModule(limits, done, module) ==
  LET looked == FirstOf(module, FunctionsLeft(limits, done))
  IN  CheckFunctions(limits, BeginModule(limits, done, module), looked)[Len(looked)]
CheckModules(limits, begun, looked) ==
  LET after[m \in 0..Len(looked)] ==
        IF m = 0 THEN begun ELSE CheckModule(limits, after[m - 1], looked[m])
  IN  after
VerifySourceProtocol(modules, limits) ==
  LET first == [NothingChecked EXCEPT !.findings = IF Len(modules) > limits.modules THEN {Exceeded(0, 0)} ELSE {}]
      looked == FirstOf(modules, limits.modules)
  IN  CheckModules(limits, first, looked)[Len(looked)]
ProtocolStatus(report) == IF report.findings = {} THEN "pass" ELSE "fail"
----------------------------------------------------------------------------
\* The functions of the first m modules: how many there are.
FunctionsIn(modules) ==
  LET upTo[m \in 0..Len(modules)] == IF m = 0 THEN 0 ELSE upTo[m - 1] + Len(modules[m]) IN upTo
FitsLimits(modules, l) ==
  /\ Len(modules) <= l.modules /\ FunctionsIn(modules)[Len(modules)] <= l.functions
  /\ \A m \in DOMAIN modules : \A f \in DOMAIN modules[m] : Len(modules[m][f].uses) <= l.uses

\* A protocol passes if and only if it is within the limits and no function of any
\* module has a gap, so that what was not looked at never passes.  However large it
\* is, no more is looked at than the limits say, each function once, and a gap that
\* is reported of a function whose uses were all looked at is one.
ProtocolTruth ==
  LimitsValid(protocol.limits) =>
    LET modules == protocol.modules
        limits == protocol.limits
        report == VerifySourceProtocol(modules, limits)
    IN /\ ProtocolStatus(report) = "pass" <=>
            /\ FitsLimits(modules, limits)
            /\ \A m \in DOMAIN modules : \A f \in DOMAIN modules[m] :
                 Gaps(modules[m][f].kind, modules[m][f].uses) = {}
       /\ report.modules <= limits.modules /\ report.functions <= limits.functions
       /\ report.uses <= report.functions * limits.uses
       /\ ProtocolStatus(report) = "pass" =>
            report.modules = Len(modules) /\ report.functions = FunctionsIn(modules)[Len(modules)]
       /\ \A x \in report.findings :
            x.code # "limit_exceeded" /\ Len(modules[x.module][x.function].uses) <= limits.uses =>
              x.code \in Gaps(modules[x.module][x.function].kind, modules[x.module][x.function].uses)
=============================================================================

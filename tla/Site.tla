-------------------------------- MODULE Site --------------------------------
(***************************************************************************)
(* The examples site: the shell that runs an example (App.tsx), the local   *)
(* server it asks (runtimeApi.ts, runtime-server.mjs), the scenario studio  *)
(* (ScenarioStudio.tsx), and the history of the tab, which both listen to.  *)
(*                                                                          *)
(* An event handler of the page runs to its end.  What an import fetches is *)
(* in module PublicData, what a preview computes in module FailureLab: here *)
(* a preview is named by the text it is of.                                 *)
(***************************************************************************)
EXTENDS Naturals, FiniteSets, Sequences

CONSTANTS
  SiteCases,     \* ids of the examples
  SitePresets,   \* ids of the studio's presets
  SiteClicks,    \* bound: runs, aborts and resets of the example
  SiteVisits     \* bound: entries of the tab's history

ASSUME SiteAssumption ==
  /\ SiteCases # {} /\ SitePresets # {} /\ SiteCases \cap SitePresets = {} /\ SiteVisits \in Nat \ {0}
  /\ SitePresets \cap {"edited", "imported", "invalid"} = {}

VARIABLES
  siteShown,   \* selectedId, phase, runStep, runResult
  siteTimers,  \* runTimersRef: the steps whose timers are armed
  siteGen,     \* runGenerationRef
  siteCalls,   \* calls of resolveLiveRun that have not returned
  siteTab,     \* history: its entries and which one the tab is at
  stu,         \* presetId, draft, the text whose preview is shown, whether an error is
  stuTyped,    \* history: the draft was edited by hand since it was last previewed
  stuImport    \* an import is loading

siteVars == <<siteShown, siteTimers, siteGen, siteCalls, siteTab, stu, stuTyped, stuImport>>

NoResult == [source |-> "none", of |-> "none", phase |-> "none"]
DefaultCase == CHOOSE c \in SiteCases : TRUE
DefaultPreset == CHOOSE p \in SitePresets : TRUE

\* Texts of the studio: presets, one that was edited, one imported, and one refused.
Texts == SitePresets \cup {"edited", "imported", "invalid"}
Valid(text) == text # "invalid"

\* resolveUseCaseId, resolveScenarioId: an id that is not on the list is the default's.
ResolveCase(entry) == IF entry.example \in SiteCases THEN entry.example ELSE DefaultCase
ResolvePreset(entry) == IF entry.scenario \in SitePresets THEN entry.scenario ELSE DefaultPreset
Here == siteTab.entries[siteTab.at]

SiteInit(links) ==
  \E link \in links :
    /\ siteTab = [entries |-> <<link>>, at |-> 1]
    /\ siteShown = [case |-> ResolveCase(link), phase |-> "idle", step |-> 0, result |-> NoResult]
    /\ siteTimers = {} /\ siteGen = 0 /\ siteCalls = {}
    /\ stu = [preset |-> ResolvePreset(link), draft |-> ResolvePreset(link),
              preview |-> ResolvePreset(link), error |-> FALSE]
    /\ stuTyped = FALSE /\ stuImport = FALSE
----------------------------------------------------------------------------
\* history.pushState: drops the entries ahead and tells nobody.
Pushed(entry) ==
  [entries |-> Append(SubSeq(siteTab.entries, 1, siteTab.at), entry), at |-> siteTab.at + 1]

\* resetRunState, and a reset to the use case that is shown.
ResetTo(case) ==
  /\ siteGen < SiteClicks
  /\ siteTimers' = {} /\ siteGen' = siteGen + 1 /\ UNCHANGED siteCalls
  /\ siteShown' = [case |-> case, phase |-> "idle", step |-> 0, result |-> NoResult]

\* preview: a text that is refused leaves the result of the one before.
PreviewOf(s, text) ==
  IF Valid(text) THEN [s EXCEPT !.preview = text, !.error = FALSE] ELSE [s EXCEPT !.error = TRUE]
SelectedPreset(p) == PreviewOf([stu EXCEPT !.preset = p, !.draft = p], p)

SelectUseCase(c) ==
  /\ c # siteShown.case /\ siteTab.at < SiteVisits
  /\ ResetTo(c) /\ siteTab' = Pushed([Here EXCEPT !.example = c])
  /\ UNCHANGED <<stu, stuTyped, stuImport>>
ResetScenario == ResetTo(siteShown.case) /\ UNCHANGED <<siteTab, stu, stuTyped, stuImport>>

\* Run and abort both ask the server, under a generation of their own.
Ask(phase, fallback, timers) ==
  /\ siteGen < SiteClicks
  /\ siteTimers' = timers /\ siteGen' = siteGen + 1
  /\ siteShown' = [siteShown EXCEPT !.phase = phase, !.step = 0, !.result = NoResult]
  /\ siteCalls' = siteCalls \cup {[gen |-> siteGen + 1, case |-> siteShown.case, fallback |-> fallback]}
  /\ UNCHANGED <<siteTab, stu, stuTyped, stuImport>>
RunScenario == Ask("running", "completed", 1..5)
AbortScenario == Ask("aborted", "aborted", {})

\* The timers of a run are due in their order; the last one ends it.
TimerFires(t) ==
  /\ t \in siteTimers /\ \A u \in siteTimers : t <= u
  /\ siteTimers' = siteTimers \ {t}
  /\ siteShown' = IF t < 5 THEN [siteShown EXCEPT !.step = t]
                  ELSE [siteShown EXCEPT !.phase = IF @ = "running" THEN "completed" ELSE @, !.step = 0]
  /\ UNCHANGED <<siteGen, siteCalls, siteTab, stu, stuTyped, stuImport>>

\* What the server's route answers, and what runLiveExample makes of it.
Route(request) ==
  IF request.method # "GET" THEN IF request.method = "OPTIONS" THEN 204 ELSE 405
  ELSE IF request.path = "health" THEN 200
  ELSE IF request.path # "run" \/ ~request.known THEN 404
  ELSE IF request.throws THEN 500 ELSE 200
Requests(case) == [method : {"GET"}, path : {"run"}, known : BOOLEAN, throws : BOOLEAN]
Live(case, reached) ==
  IF reached # {} /\ Route(CHOOSE r \in reached : TRUE) = 200
  THEN [source |-> "live-node", of |-> case, phase |-> "completed"] ELSE NoResult

\* resolveLiveRun: the answer of an older generation is dropped, and without one
\* that is live the captured result of the phase is shown.
Current(call) == call.gen = siteGen
CallReturns(call, reached) ==
  /\ call \in siteCalls /\ siteCalls' = siteCalls \ {call}
  /\ LET live == Live(call.case, reached)
         captured == [source |-> "captured-build", of |-> call.case, phase |-> call.fallback]
     IN siteShown' = IF ~Current(call) THEN siteShown
                     ELSE [siteShown EXCEPT !.result = IF live = NoResult THEN captured ELSE live]
  /\ UNCHANGED <<siteTimers, siteGen, siteTab, stu, stuTyped, stuImport>>
----------------------------------------------------------------------------
SelectPreset(p) ==
  /\ siteTab.at < SiteVisits
  /\ stu' = SelectedPreset(p) /\ stuTyped' = FALSE
  /\ siteTab' = Pushed([Here EXCEPT !.scenario = p])
  /\ UNCHANGED <<siteShown, siteTimers, siteGen, siteCalls, stuImport>>
Reset ==
  /\ stu' = SelectedPreset(stu.preset) /\ stuTyped' = FALSE
  /\ UNCHANGED <<siteShown, siteTimers, siteGen, siteCalls, siteTab, stuImport>>

\* A control of the policy writes a draft of its own, if the one shown is valid.
UpdatePolicy(text) ==
  /\ Valid(stu.draft) /\ text \in {"edited", "invalid"}
  /\ stu' = PreviewOf([stu EXCEPT !.draft = text], text) /\ stuTyped' = FALSE
  /\ UNCHANGED <<siteShown, siteTimers, siteGen, siteCalls, siteTab, stuImport>>
Type(text) ==
  /\ text \in {"edited", "invalid"} /\ stu' = [stu EXCEPT !.draft = text] /\ stuTyped' = TRUE
  /\ UNCHANGED <<siteShown, siteTimers, siteGen, siteCalls, siteTab, stuImport>>
ValidateAndPreview ==
  /\ stu' = PreviewOf(stu, stu.draft) /\ stuTyped' = FALSE
  /\ UNCHANGED <<siteShown, siteTimers, siteGen, siteCalls, siteTab, stuImport>>

\* The buttons are disabled while an import loads; the editor is not.
BeginImport ==
  /\ ~stuImport /\ stuImport' = TRUE
  /\ UNCHANGED <<siteShown, siteTimers, siteGen, siteCalls, siteTab, stu, stuTyped>>
ImportEnds(succeeds) ==
  /\ stuImport /\ stuImport' = FALSE
  /\ IF succeeds THEN /\ stu' = [stu EXCEPT !.draft = "imported", !.preview = "imported", !.error = FALSE]
                      /\ stuTyped' = FALSE
     ELSE UNCHANGED <<stu, stuTyped>>
  /\ UNCHANGED <<siteShown, siteTimers, siteGen, siteCalls, siteTab>>
----------------------------------------------------------------------------
\* popstate reaches both listeners: the studio and the shell start afresh from the
\* entry, whichever of the two it is about.
PopState(entry) ==
  /\ ResetTo(ResolveCase(entry)) /\ stu' = SelectedPreset(ResolvePreset(entry)) /\ stuTyped' = FALSE
  /\ UNCHANGED stuImport
Traverse(i) ==
  /\ i \in DOMAIN siteTab.entries /\ i # siteTab.at
  /\ siteTab' = [siteTab EXCEPT !.at = i] /\ PopState(siteTab.entries[i])

\* The header's link is a navigation to a fragment of the page.
FollowFragment ==
  /\ siteTab.at < SiteVisits /\ siteTab' = Pushed(Here) /\ PopState(Here)

SiteNext ==
  \/ \E c \in SiteCases : SelectUseCase(c)
  \/ ResetScenario \/ RunScenario \/ AbortScenario
  \/ \E t \in 1..5 : TimerFires(t)
  \/ \E call \in siteCalls : \E reached \in {{}} \cup {{r} : r \in Requests(call.case)} : CallReturns(call, reached)
  \/ \E p \in SitePresets : SelectPreset(p)
  \/ Reset \/ ValidateAndPreview \/ BeginImport
  \/ \E text \in Texts : UpdatePolicy(text) \/ Type(text)
  \/ \E b \in BOOLEAN : ImportEnds(b)
  \/ \E i \in 1..SiteVisits : Traverse(i)
  \/ FollowFragment
SiteFairness == \A t \in 1..5 : WF_siteVars(TimerFires(t))
----------------------------------------------------------------------------
\* What is shown is what the address names, so that a link shared at any moment
\* opens on the same example and preset.  A result is of the example that is
\* selected and was asked for by the last press: it, or the call that will bring
\* it, is there unless the example is idle.  The timers that are left are those
\* of the steps after the one shown, of one run, and there are none without one.
\* The studio shows the preview of its draft, unless that was refused or has been
\* typed since, and never the preview of a text that is not valid.
SiteTruth ==
  /\ siteShown.case = ResolveCase(Here) /\ stu.preset = ResolvePreset(Here)
  /\ siteShown.result # NoResult =>
       /\ siteShown.result.of = siteShown.case /\ siteShown.phase # "idle"
       /\ siteShown.result.source = "captured-build" =>
            (siteShown.result.phase = "aborted") = (siteShown.phase = "aborted")
  /\ Cardinality({c \in siteCalls : c.gen = siteGen}) =
       IF siteShown.phase = "idle" \/ siteShown.result # NoResult THEN 0 ELSE 1
  /\ siteTimers = IF siteShown.phase = "running" THEN (siteShown.step + 1)..5 ELSE {}
  /\ Valid(stu.preview)
  /\ ~stuTyped /\ ~stu.error => stu.preview = stu.draft
  /\ ~stuTyped /\ stu.error => ~Valid(stu.draft)

\* A run that was begun ends.
RunsEnd == siteShown.phase = "running" ~> siteShown.phase # "running"
=============================================================================

--------------------------- MODULE ActivityProofs ---------------------------
(***************************************************************************)
(* Theorems about Activity, for every set of runs, ids and inputs, and for *)
(* both stores: all that its run checks.                                   *)
(*                                                                         *)
(* The invariant says where a run can be (Sound) and what a record can be  *)
(* (Founded).  At its heart is that a run whose body began holds the       *)
(* record of its id as long as no eviction took it away: two runs cannot   *)
(* hold one record, so that two bodies cannot have begun.                  *)
(***************************************************************************)
EXTENDS Activity, TLAPS

\* What excuses a run from returning its result.
Accident(r) == r \in hampered \/ IdOf[r] \in evicted

\* A run has the body its phase says, holds its record since the body began, and
\* answers what it may.
Sound(r) ==
  /\ phase[r] \in {"ready", "creating", "reading"} => body[r] = "unstarted"
  /\ phase[r] = "running" => body[r] = "begun"
  /\ phase[r] \in {"recording", "replacing"} => body[r] = "completed"
  /\ phase[r] \in {"reporting", "overwriting"} =>
       body[r] \in Ends /\ (body[r] = "completed" => Accident(r))
  /\ phase[r] \in {"creating", "reading", "replacing", "overwriting"} => store = "file"
  /\ phase[r] = "creating" => status[IdOf[r]] = "torn" /\ claimant[IdOf[r]] = r
  /\ Begun(r) /\ IdOf[r] \notin evicted =>
       claimant[IdOf[r]] = r /\ status[IdOf[r]] \in {"started"} \cup Ends
  /\ answer[r] # "none" => phase[r] = "over"
  /\ answer[r] = "own" => body[r] = "completed"
  /\ answer[r] = "replayed" => ~Begun(r)
  /\ body[r] = "completed" /\ phase[r] = "over" /\ answer[r] # "own" => Accident(r)

\* A record belongs to a run that claimed it and says what became of it.
Founded(i) ==
  /\ status[i] = "none" <=> claimant[i] = NoRun
  /\ \A r \in Runs : claimant[i] = r =>
       /\ IdOf[r] = i
       /\ phase[r] \notin {"ready", "reading"}
       /\ status[i] \in Ends => phase[r] = "over"
       /\ status[i] \in {"completed", "cancelled"} => body[r] = status[i]
       /\ status[i] = "failed" => body[r] = "failed" \/ (body[r] = "completed" /\ Accident(r))
       /\ status[i] = "started" /\ phase[r] = "over" => Accident(r)

\* A result is replayed only after a body with the same id and input completed.
Replays(r) ==
  answer[r] = "replayed" =>
    \E q \in Runs : IdOf[q] = IdOf[r] /\ InputOf[q] = InputOf[r] /\ body[q] = "completed"

Inductive ==
  /\ TypeOK
  /\ store = "file" => evicted = {}
  /\ \A r \in Runs : Sound(r)
  /\ \A i \in Ids : Founded(i)
  /\ \A r \in Runs : Replays(r)
----------------------------------------------------------------------------
(* Type correctness.                                                       *)

\* A memory store drops its oldest record exactly when there is no room.
LEMMA KeptBounded ==
  ASSUME NEW i \in Ids, kept \in Seq(Ids), Len(kept) <= MaxRecords, MaxRecords \in Nat \ {0}
  PROVE  LET k == Append(IF Oldest = {} THEN kept ELSE Tail(kept), i)
         IN  k \in Seq(Ids) /\ Len(k) <= MaxRecords /\ Oldest \subseteq Ids
<1>1. CASE Len(kept) >= MaxRecords
  <2>1. Oldest = {Head(kept)} BY <1>1 DEF Oldest
  <2>2. kept # <<>> BY <1>1
  <2>3. Head(kept) \in Ids /\ Tail(kept) \in Seq(Ids) /\ Len(Tail(kept)) = Len(kept) - 1
    BY <2>2
  <2> QED BY <2>1, <2>3
<1>2. CASE ~(Len(kept) >= MaxRecords)
  BY <1>2 DEF Oldest
<1> QED BY <1>1, <1>2

\* Statuses of records, and writing one.
Statuses == {"none", "torn", "started"} \cup Ends
\* Rewriting one record keeps the types of both functions.
LEMMA RecordTypes ==
  ASSUME TypeOK, NEW r \in Runs, NEW s \in Statuses, Record(r, s)
  PROVE  status' \in [Ids -> Statuses] /\ claimant' \in [Ids -> Runs \cup {NoRun}]
<1>1. status \in [Ids -> Statuses] /\ claimant \in [Ids -> Runs \cup {NoRun}]
  BY DEF TypeOK, Statuses
<1>2. status' = [status EXCEPT ![IdOf[r]] = s] /\ claimant' = [claimant EXCEPT ![IdOf[r]] = r]
  BY DEF Record
<1> QED BY <1>1, <1>2

\* The variables keep their types: every step of every run.
LEMMA TypeStep == ASSUME TypeOK, NEW r \in Runs, Step(r) PROVE TypeOK'
<1> USE ActivityAssumption
<1>i. IdOf[r] \in Ids OBVIOUS
<1>1. CASE MemoryClaim(r)
  <2>1. CASE status[IdOf[r]] # "none"
    BY <1>1, <1>i, <2>1 DEF MemoryClaim, Answer, Go, AnswerFromRecord, records, TypeOK, Ends
  <2>2. CASE status[IdOf[r]] = "none"
    <3>1. kept' \in Seq(Ids) /\ Len(kept') <= MaxRecords /\ Oldest \subseteq Ids
      <4>1. kept' = Append(IF Oldest = {} THEN kept ELSE Tail(kept), IdOf[r])
        BY <1>1, <2>2 DEF MemoryClaim
      <4> QED BY <4>1, <1>i, KeptBounded DEF TypeOK
    <3>2. status' \in [Ids -> Statuses]
      BY <1>1, <2>2, ZenonT(30) DEF MemoryClaim, TypeOK, Statuses
    <3>3. claimant' \in [Ids -> Runs \cup {NoRun}]
      BY <1>1, <2>2 DEF MemoryClaim, TypeOK
    <3>4. evicted' \subseteq Ids
      BY <1>1, <2>2, <3>1 DEF MemoryClaim, TypeOK
    <3> QED BY <1>1, <2>2, <3>1, <3>2, <3>3, <3>4 DEF MemoryClaim, Begin, Go, TypeOK, Statuses
  <2> QED BY <2>1, <2>2
<1>2. CASE FileClaim(r)
  <2>1. CASE Free(IdOf[r])
    <3>1. status' \in [Ids -> Statuses] /\ claimant' \in [Ids -> Runs \cup {NoRun}]
      BY <1>2, <2>1, RecordTypes DEF FileClaim, Statuses
    <3> QED BY <1>2, <2>1, <3>1 DEF FileClaim, Go, TypeOK, Statuses
  <2>2. CASE ~Free(IdOf[r])
    BY <1>2, <1>i, <2>2 DEF FileClaim, Go, TypeOK, Ends
  <2> QED BY <2>1, <2>2
<1>3. CASE WriteClaim(r)
  BY <1>3, <1>i DEF WriteClaim, Record, Begin, Go, TypeOK, Ends
<1>4. CASE ReadClaim(r)
  BY <1>4 DEF ReadClaim, Answer, AnswerFromRecord, Go, records, TypeOK, Ends
<1>5. CASE BodyEnds(r)
  <2>1. PICK how \in Ends : /\ body' = [body EXCEPT ![r] = how]
                           /\ Go(r, IF how = "completed" THEN "recording" ELSE "reporting")
    BY <1>5 DEF BodyEnds
  <2> QED BY <1>5, <2>1 DEF BodyEnds, Go, records, TypeOK, Ends
<1>6. CASE MemoryFinish(r)
  <2>1. CASE Mine(r)
    <3>1. Evidence(r) \in Statuses BY DEF Evidence, Statuses, Ends
    <3>2. status' \in [Ids -> Statuses] /\ claimant' \in [Ids -> Runs \cup {NoRun}]
      BY <1>6, <2>1, <3>1, RecordTypes DEF MemoryFinish, Finished
    <3> QED BY <1>6, <2>1, <3>2 DEF MemoryFinish, Finished, Answer, Outcome, Go, TypeOK, Statuses
  <2>2. CASE ~Mine(r)
    BY <1>6, <1>i, <2>2 DEF MemoryFinish, FinishThrows, Answer, Go, TypeOK, Ends
  <2> QED BY <2>1, <2>2
<1>7. CASE FileFinishReads(r)
  BY <1>7 DEF FileFinishReads, FinishThrows, Answer, Go, records, TypeOK, Ends
<1>8. CASE FileFinishRenames(r)
  BY <1>8, <1>i DEF FileFinishRenames, Finished, Record, Answer, Outcome, Evidence, Go, TypeOK, Ends
<1>9. CASE StoreFails(r)
  BY <1>9 DEF StoreFails, FinishThrows, Answer, Go, records, TypeOK, Ends
<1>10. CASE Crash(r)
  BY <1>10 DEF Crash, Go, records, TypeOK, Ends
<1> QED BY <1>1, <1>2, <1>3, <1>4, <1>5, <1>6, <1>7, <1>8, <1>9, <1>10 DEF Step

\* The first state is of the right types.
LEMMA TypeInit == Init => TypeOK
BY ActivityAssumption DEF Init, TypeOK, Ends

\* The variables keep their types, and a memory store never keeps more than
\* maxRecords.
THEOREM TypeCorrect == Spec => []TypeOK
<1>1. TypeOK /\ [Next]_vars => TypeOK'
  <2>1. TypeOK /\ Next => TypeOK' BY TypeStep DEF Next
  <2>2. TypeOK /\ UNCHANGED vars => TypeOK' BY DEF TypeOK, vars, records
  <2> QED BY <2>1, <2>2
<1> QED BY <1>1, TypeInit, PTL DEF Spec
----------------------------------------------------------------------------
(* The inductive invariant.                                                *)

\* The invariant holds before anything has run.
LEMMA Initially == Init => Inductive
<1> SUFFICES ASSUME Init PROVE Inductive OBVIOUS
<1>1. TypeOK BY TypeInit
<1> QED
  BY <1>1, ActivityAssumption DEF Inductive, Init, Sound, Founded, Replays, Begun, Accident, Ends

\* A run that takes no step stays sound, if the record it needs stays.
LEMMA SoundKept ==
  ASSUME NEW q \in Runs, Sound(q),
         phase'[q] = phase[q], body'[q] = body[q], answer'[q] = answer[q],
         store' = store, evicted \subseteq evicted', hampered \subseteq hampered',
         phase[q] = "creating" => status'[IdOf[q]] = "torn" /\ claimant'[IdOf[q]] = q,
         Begun(q) /\ IdOf[q] \notin evicted' =>
           claimant'[IdOf[q]] = q /\ status'[IdOf[q]] \in {"started"} \cup Ends
  PROVE  Sound(q)'
BY DEF Sound, Begun, Accident

\* A result once replayed stays justified: a body that completed has completed.
LEMMA ReplaysKept ==
  ASSUME NEW q \in Runs, Replays(q), answer'[q] = answer[q],
         \A p \in Runs : body[p] = "completed" => body'[p] = "completed"
  PROVE  Replays(q)'
BY DEF Replays

\* A record that nobody touches stays founded, if its claimant does not move.
LEMMA FoundedKept ==
  ASSUME NEW i \in Ids, Founded(i), status'[i] = status[i], claimant'[i] = claimant[i],
         evicted \subseteq evicted', hampered \subseteq hampered',
         \A p \in Runs : claimant[i] = p => phase'[p] = phase[p] /\ body'[p] = body[p]
  PROVE  Founded(i)'
BY DEF Founded, Accident

\* What a step of run r leaves alone in the other runs.
OnlyRun(r) ==
  \A q \in Runs \ {r} : phase'[q] = phase[q] /\ body'[q] = body[q] /\ answer'[q] = answer[q]

\* A step of a run that leaves the records alone.
LEMMA QuietStep ==
  ASSUME Inductive, NEW r \in Runs, TypeOK', OnlyRun(r),
         UNCHANGED <<store, records>>, hampered \subseteq hampered',
         body[r] = "completed" => body'[r] = "completed",
         Sound(r)', Replays(r)',
         claimant[IdOf[r]] = r => Founded(IdOf[r])'
  PROVE  Inductive'
<1>1. ASSUME NEW q \in Runs PROVE Sound(q)'
  BY SoundKept DEF Inductive, Sound, records, OnlyRun
<1>2. ASSUME NEW i \in Ids PROVE Founded(i)'
  <2>1. CASE claimant[i] = r
    BY <2>1 DEF Inductive, Founded
  <2>2. CASE claimant[i] # r
    BY <2>2, FoundedKept DEF Inductive, records, OnlyRun
  <2> QED BY <2>1, <2>2
<1>3. ASSUME NEW q \in Runs PROVE Replays(q)'
  <2>1. CASE q = r BY <2>1
  <2>2. CASE q # r
    BY <2>2, ReplaysKept DEF Inductive, OnlyRun
  <2> QED BY <2>1, <2>2
<1> QED BY <1>1, <1>2, <1>3 DEF Inductive, records

\* The task of a run ends.
LEMMA BodyEndsStep == ASSUME Inductive, NEW r \in Runs, BodyEnds(r) PROVE Inductive'
<1>1. TypeOK' BY TypeStep DEF Inductive, Step
<1>2. PICK how \in Ends : /\ body' = [body EXCEPT ![r] = how]
                          /\ Go(r, IF how = "completed" THEN "recording" ELSE "reporting")
  BY DEF BodyEnds
<1>3. phase[r] = "running" /\ UNCHANGED <<store, records, answer, hampered>>
  BY DEF BodyEnds
<1>4. /\ body'[r] = how /\ phase'[r] = IF how = "completed" THEN "recording" ELSE "reporting"
      /\ OnlyRun(r)
  BY <1>2, <1>3 DEF Go, Inductive, TypeOK, OnlyRun
<1>5. body[r] = "begun" BY <1>3 DEF Inductive, Sound
<1>6. Sound(r)'
  BY <1>3, <1>4, <1>5 DEF Inductive, Sound, Begun, Ends, records
<1>7. claimant[IdOf[r]] = r => Founded(IdOf[r])'
  BY <1>3, <1>4, <1>5, ActivityAssumption DEF Inductive, Founded, Accident, records, Ends
<1>8. Replays(r)'
  BY <1>3, <1>4, <1>5 DEF Inductive, Sound, Replays
<1> QED BY <1>1, <1>3, <1>4, <1>5, <1>6, <1>7, <1>8, QuietStep

\* A process crashes.
LEMMA CrashStep == ASSUME Inductive, NEW r \in Runs, Crash(r) PROVE Inductive'
<1>1. TypeOK' BY TypeStep DEF Inductive, Step
<1>2. /\ phase[r] \notin {"ready", "over", "crashed"}
      /\ UNCHANGED <<store, records, body, answer, hampered>>
  BY DEF Crash
<1>3. phase'[r] = "crashed" /\ OnlyRun(r)
  BY <1>2 DEF Crash, Go, Inductive, TypeOK, OnlyRun
<1>4. Sound(r)'
  BY <1>2, <1>3 DEF Inductive, Sound, Begun, Accident, records
<1>5. claimant[IdOf[r]] = r => Founded(IdOf[r])'
  BY <1>2, <1>3, ActivityAssumption DEF Inductive, Founded, Accident, records
<1>6. Replays(r)'
  BY <1>2 DEF Inductive, Replays
<1> QED BY <1>1, <1>2, <1>3, <1>4, <1>5, <1>6, QuietStep

\* A record with another status is not over a terminal one: what a run whose body
\* began finds under its id.
LEMMA HoldsRecord ==
  ASSUME Inductive, NEW r \in Runs, Begun(r), IdOf[r] \notin evicted, phase[r] # "over"
  PROVE  status[IdOf[r]] = "started" /\ claimant[IdOf[r]] = r /\ Mine(r)
<1>1. claimant[IdOf[r]] = r /\ status[IdOf[r]] \in {"started"} \cup Ends
  BY DEF Inductive, Sound
<1>2. status[IdOf[r]] \notin Ends
  BY <1>1, ActivityAssumption DEF Inductive, Founded
<1> QED BY <1>1, <1>2 DEF Mine, SameInput

\* finish() throws in the try block: the run goes on in the catch block; or there:
\* the run is over.  Either way by accident.
LEMMA ThrowsStep ==
  ASSUME Inductive, NEW r \in Runs, TypeOK', FinishThrows(r),
         phase[r] \in {"recording", "replacing", "reporting", "overwriting"},
         UNCHANGED <<store, records, body>>, hampered \subseteq hampered', Accident(r)'
  PROVE  Inductive'
<1>1. CASE phase[r] \in {"recording", "replacing"}
  <2>1. phase'[r] = "reporting" /\ UNCHANGED answer /\ OnlyRun(r)
    BY <1>1 DEF FinishThrows, Go, Inductive, TypeOK, OnlyRun
  <2>2. Sound(r)'
    BY <1>1, <2>1 DEF Inductive, Sound, Begun, Ends, records
  <2>3. claimant[IdOf[r]] = r => Founded(IdOf[r])'
    BY <1>1, <2>1, ActivityAssumption DEF Inductive, Founded, Accident, records
  <2>4. Replays(r)'
    BY <2>1 DEF Inductive, Replays
  <2> QED BY <2>1, <2>2, <2>3, <2>4, QuietStep
<1>2. CASE phase[r] \in {"reporting", "overwriting"}
  <2>1. phase'[r] = "over" /\ answer'[r] = "failure" /\ OnlyRun(r)
    BY <1>2 DEF FinishThrows, Answer, Go, Inductive, TypeOK, OnlyRun
  <2>2. Sound(r)'
    BY <1>2, <2>1 DEF Inductive, Sound, Begun, records
  <2>3. claimant[IdOf[r]] = r => Founded(IdOf[r])'
    BY <1>2, <2>1, ActivityAssumption DEF Inductive, Founded, Accident, records
  <2>4. Replays(r)'
    BY <2>1 DEF Replays
  <2> QED BY <2>1, <2>2, <2>3, <2>4, QuietStep
<1> QED BY <1>1, <1>2

\* An operation on the file system fails.
LEMMA StoreFailsStep == ASSUME Inductive, NEW r \in Runs, StoreFails(r) PROVE Inductive'
<1>1. TypeOK' BY TypeStep DEF Inductive, Step
<1>2. /\ UNCHANGED <<store, records, body>> /\ hampered' = hampered \cup {r}
      /\ store = "file" /\ Accident(r)'
  BY DEF StoreFails, Accident
<1>3. CASE phase[r] \in {"ready", "creating", "reading"}
  <2>1. phase'[r] = "over" /\ answer'[r] = "failure" /\ OnlyRun(r)
    BY <1>2, <1>3 DEF StoreFails, Answer, Go, Inductive, TypeOK, OnlyRun
  <2>2. Sound(r)'
    BY <1>2, <1>3, <2>1 DEF Inductive, Sound, Begun, records
  <2>3. claimant[IdOf[r]] = r => Founded(IdOf[r])'
    BY <1>2, <1>3, <2>1, ActivityAssumption DEF Inductive, Founded, records, Accident
  <2>4. Replays(r)'
    BY <2>1 DEF Replays
  <2> QED BY <1>1, <1>2, <2>1, <2>2, <2>3, <2>4, QuietStep
<1>4. CASE phase[r] \notin {"ready", "creating", "reading"}
  <2>1. FinishThrows(r) /\ phase[r] \in {"recording", "replacing", "reporting", "overwriting"}
    BY <1>4 DEF StoreFails
  <2> QED BY <1>1, <1>2, <2>1, ThrowsStep
<1> QED BY <1>3, <1>4

\* finish() of the file store reads the record: it is the run's own, nothing is
\* evicted from files.
LEMMA FinishReadsStep == ASSUME Inductive, NEW r \in Runs, FileFinishReads(r) PROVE Inductive'
<1>1. TypeOK' BY TypeStep DEF Inductive, Step
<1>2. /\ UNCHANGED <<store, records, body, hampered>> /\ store = "file"
      /\ phase[r] \in {"recording", "reporting"}
  BY DEF FileFinishReads
<1>3. Mine(r)
  BY <1>2, HoldsRecord DEF Inductive, Sound, Begun, Ends
<1>4. /\ phase'[r] = IF phase[r] = "recording" THEN "replacing" ELSE "overwriting"
      /\ UNCHANGED answer /\ OnlyRun(r)
  BY <1>2, <1>3 DEF FileFinishReads, Go, Inductive, TypeOK, OnlyRun
<1>5. Sound(r)'
  BY <1>2, <1>4 DEF Inductive, Sound, Begun, records, Ends, Accident
<1>6. claimant[IdOf[r]] = r => Founded(IdOf[r])'
  BY <1>2, <1>4, ActivityAssumption DEF Inductive, Founded, Accident, records
<1>7. Replays(r)' BY <1>2, <1>4 DEF Inductive, Replays
<1> QED BY <1>1, <1>2, <1>4, <1>5, <1>6, <1>7, QuietStep

\* A run answers from a record that is there and can be parsed.
LEMMA AnswersFromRecord ==
  ASSUME Inductive, NEW r \in Runs, TypeOK', phase[r] \in {"ready", "reading"},
         status[IdOf[r]] \notin {"none", "torn"}, Answer(r, AnswerFromRecord(r)),
         UNCHANGED <<store, records, body, hampered>>
  PROVE  Inductive'
<1>1. phase'[r] = "over" /\ answer'[r] = AnswerFromRecord(r) /\ OnlyRun(r)
  BY DEF Answer, Go, Inductive, TypeOK, OnlyRun
<1>2. Sound(r)'
  BY <1>1 DEF Inductive, Sound, Begun, AnswerFromRecord, records
<1>3. claimant[IdOf[r]] # r
  BY ActivityAssumption DEF Inductive, Founded
<1>4. Replays(r)'
  <2>1. SUFFICES ASSUME answer'[r] = "replayed"
                 PROVE  \E q \in Runs : /\ IdOf[q] = IdOf[r] /\ InputOf[q] = InputOf[r]
                                       /\ body'[q] = "completed"
    BY DEF Replays
  <2>2. status[IdOf[r]] = "completed" /\ SameInput(r)
    BY <1>1, <2>1 DEF AnswerFromRecord
  <2>3. claimant[IdOf[r]] \in Runs
    <3>1. IdOf[r] \in Ids BY ActivityAssumption
    <3>2. claimant[IdOf[r]] \in Runs \cup {NoRun} BY <3>1 DEF Inductive, TypeOK
    <3>3. claimant[IdOf[r]] # NoRun BY <2>2, <3>1 DEF Inductive, Founded
    <3> QED BY <3>2, <3>3
  <2>4. IdOf[claimant[IdOf[r]]] = IdOf[r] /\ body[claimant[IdOf[r]]] = "completed"
    BY <2>2, <2>3, ActivityAssumption DEF Inductive, Founded
  <2> QED BY <2>2, <2>3, <2>4 DEF SameInput
<1> QED BY <1>1, <1>2, <1>3, <1>4, QuietStep

\* start() of the file store reads what is there.
LEMMA ReadClaimStep == ASSUME Inductive, NEW r \in Runs, ReadClaim(r) PROVE Inductive'
<1>1. TypeOK' BY TypeStep DEF Inductive, Step
<1>2. phase[r] = "reading" /\ UNCHANGED <<store, records, body, hampered>>
  BY DEF ReadClaim
<1>3. CASE status[IdOf[r]] \in {"none", "torn"}
  <2>1. /\ phase'[r] = "over" /\ answer'[r] \in {"failure", "conflict", "not runnable"}
        /\ OnlyRun(r)
    BY <1>2, <1>3 DEF ReadClaim, Answer, AnswerFromRecord, Go, Inductive, TypeOK, OnlyRun
  <2>2. Sound(r)'
    BY <1>2, <2>1 DEF Inductive, Sound, Begun, records
  <2>3. claimant[IdOf[r]] # r
    BY <1>2, ActivityAssumption DEF Inductive, Founded
  <2>4. Replays(r)' BY <2>1 DEF Replays
  <2> QED BY <1>1, <1>2, <2>1, <2>2, <2>3, <2>4, QuietStep
<1>4. CASE status[IdOf[r]] \notin {"none", "torn"}
  BY <1>1, <1>2, <1>4, AnswersFromRecord DEF ReadClaim
<1> QED BY <1>3, <1>4

\* A run writes the record it finished: over its own, or in a memory store that
\* evicted it over that of a later run.
LEMMA FinishedStep ==
  ASSUME Inductive, NEW r \in Runs, TypeOK', Finished(r), UNCHANGED <<store, kept, evicted, body, hampered>>,
         phase[r] \in {"recording", "replacing", "reporting", "overwriting"}
  PROVE  Inductive'
<1> USE ActivityAssumption
<1>1. IdOf[r] \in Ids OBVIOUS
<1>2. /\ status'[IdOf[r]] = Evidence(r) /\ claimant'[IdOf[r]] = r
      /\ \A i \in Ids \ {IdOf[r]} : status'[i] = status[i] /\ claimant'[i] = claimant[i]
  BY <1>1 DEF Finished, Record, Inductive, TypeOK
<1>3. phase'[r] = "over" /\ answer'[r] = Outcome(r) /\ OnlyRun(r)
  BY DEF Finished, Answer, Go, Inductive, TypeOK, OnlyRun
<1>4. ASSUME NEW q \in Runs PROVE Sound(q)'
  <2>1. CASE q = r
    BY <1>2, <1>3, <2>1 DEF Inductive, Sound, Begun, Accident, Evidence, Outcome, Ends
  <2>2. CASE q # r
    <3>1. IdOf[q] = IdOf[r] => IdOf[q] \in evicted \/ (~Begun(q) /\ phase[q] # "creating")
      BY <2>2 DEF Inductive, Sound, Begun, Ends
    <3>2. phase[q] = "creating" => IdOf[q] # IdOf[r]
      BY <2>2, <3>1 DEF Inductive, Sound, Begun
    <3>3. IdOf[q] \in Ids OBVIOUS
    <3> QED BY <1>2, <1>3, <2>2, <3>1, <3>2, <3>3, SoundKept DEF Inductive, Sound, OnlyRun
  <2> QED BY <2>1, <2>2
<1>5. ASSUME NEW i \in Ids PROVE Founded(i)'
  <2>1. CASE i = IdOf[r]
    BY <1>2, <1>3, <2>1 DEF Inductive, Sound, Founded, Accident, Evidence, Ends
  <2>2. CASE i # IdOf[r]
    BY <1>2, <1>3, <2>2, FoundedKept DEF Inductive, Founded, OnlyRun
  <2> QED BY <2>1, <2>2
<1>6. ASSUME NEW q \in Runs PROVE Replays(q)'
  <2>1. CASE q = r
    BY <1>3, <2>1 DEF Replays, Outcome
  <2>2. CASE q # r
    BY <1>3, <2>2, ReplaysKept DEF Inductive, OnlyRun
  <2> QED BY <2>1, <2>2
<1> QED BY <1>4, <1>5, <1>6 DEF Inductive

\* finish() of the memory store.
LEMMA MemoryFinishStep == ASSUME Inductive, NEW r \in Runs, MemoryFinish(r) PROVE Inductive'
<1>1. TypeOK' BY TypeStep DEF Inductive, Step
<1>2. CASE Mine(r)
  BY <1>1, <1>2, FinishedStep DEF MemoryFinish
<1>3. CASE ~Mine(r)
  <2>1. Accident(r)
    BY <1>3, HoldsRecord DEF MemoryFinish, Inductive, Sound, Begun, Ends, Accident
  <2> QED BY <1>1, <1>3, <2>1, ThrowsStep DEF MemoryFinish, Accident, records
<1> QED BY <1>2, <1>3

\* finish() of the file store renames.
LEMMA FinishRenamesStep == ASSUME Inductive, NEW r \in Runs, FileFinishRenames(r) PROVE Inductive'
<1>1. TypeOK' BY TypeStep DEF Inductive, Step
<1> QED BY <1>1, FinishedStep DEF FileFinishRenames

\* A file is created: nobody can have begun under its id, or the file existed.
LEMMA FileClaimStep == ASSUME Inductive, NEW r \in Runs, FileClaim(r) PROVE Inductive'
<1> USE ActivityAssumption
<1>1. TypeOK' BY TypeStep DEF Inductive, Step
<1>2. /\ UNCHANGED <<store, kept, evicted, body, answer, hampered>>
      /\ store = "file" /\ phase[r] = "ready" /\ evicted = {} /\ IdOf[r] \in Ids
      /\ body[r] = "unstarted" /\ answer[r] = "none"
  <2>1. UNCHANGED <<store, kept, evicted, body, answer, hampered>> /\ store = "file" /\ phase[r] = "ready"
    BY DEF FileClaim
  <2>2. body[r] = "unstarted" /\ answer[r] = "none" BY <2>1 DEF Inductive, Sound
  <2> QED BY <2>1, <2>2 DEF Inductive
<1>3. CASE Free(IdOf[r])
  <2>1. status[IdOf[r]] = "none" /\ claimant[IdOf[r]] = NoRun
    BY <1>2, <1>3 DEF Free, Inductive, Founded
  <2>2. /\ status'[IdOf[r]] = "torn" /\ claimant'[IdOf[r]] = r
        /\ \A i \in Ids \ {IdOf[r]} : status'[i] = status[i] /\ claimant'[i] = claimant[i]
        /\ phase'[r] = "creating" /\ OnlyRun(r)
    BY <1>2, <1>3 DEF FileClaim, Record, Go, Inductive, TypeOK, OnlyRun
  <2>3. ASSUME NEW q \in Runs PROVE Sound(q)'
    <3>1. CASE q = r
      BY <1>2, <2>2, <3>1 DEF Inductive, Sound, Begun
    <3>2. CASE q # r
      <4>1. IdOf[q] = IdOf[r] => ~Begun(q) /\ phase[q] # "creating"
        BY <1>2, <2>1, <3>2 DEF Inductive, Sound, Ends
      <4>2. IdOf[q] \in Ids OBVIOUS
      <4> QED BY <1>2, <2>2, <3>2, <4>1, <4>2, SoundKept DEF Inductive, Sound, OnlyRun
    <3> QED BY <3>1, <3>2
  <2>4. ASSUME NEW i \in Ids PROVE Founded(i)'
    <3>1. CASE i = IdOf[r]
      BY <2>2, <3>1 DEF Founded, Ends
    <3>2. CASE i # IdOf[r]
      BY <1>2, <2>2, <3>2, FoundedKept DEF Inductive, Founded, OnlyRun
    <3> QED BY <3>1, <3>2
  <2>5. ASSUME NEW q \in Runs PROVE Replays(q)'
    BY <1>2, ReplaysKept DEF Inductive
  <2> QED BY <1>1, <1>2, <2>3, <2>4, <2>5 DEF Inductive
<1>4. CASE ~Free(IdOf[r])
  <2>1. /\ UNCHANGED records /\ phase'[r] = "reading" /\ OnlyRun(r)
    BY <1>2, <1>4 DEF FileClaim, Go, Inductive, TypeOK, OnlyRun, records
  <2>2. Sound(r)'
    BY <1>2, <2>1 DEF Sound, Begun, records
  <2>3. claimant[IdOf[r]] # r
    BY <1>2 DEF Inductive, Founded
  <2>4. Replays(r)' BY <1>2 DEF Replays
  <2> QED BY <1>1, <1>2, <2>1, <2>2, <2>3, <2>4, QuietStep
<1> QED BY <1>3, <1>4

\* The creator of a file writes its claim and begins.
LEMMA WriteClaimStep == ASSUME Inductive, NEW r \in Runs, WriteClaim(r) PROVE Inductive'
<1> USE ActivityAssumption
<1>1. TypeOK' BY TypeStep DEF Inductive, Step
<1>2. /\ UNCHANGED <<store, kept, evicted, answer, hampered>> /\ phase[r] = "creating"
      /\ store = "file" /\ evicted = {} /\ IdOf[r] \in Ids
      /\ body[r] = "unstarted" /\ answer[r] = "none"
      /\ status[IdOf[r]] = "torn" /\ claimant[IdOf[r]] = r
  <2>1. UNCHANGED <<store, kept, evicted, answer, hampered>> /\ phase[r] = "creating"
    BY DEF WriteClaim
  <2>2. /\ store = "file" /\ body[r] = "unstarted" /\ answer[r] = "none"
        /\ status[IdOf[r]] = "torn" /\ claimant[IdOf[r]] = r
    BY <2>1 DEF Inductive, Sound
  <2> QED BY <2>1, <2>2 DEF Inductive
<1>3. /\ status'[IdOf[r]] = "started" /\ claimant'[IdOf[r]] = r
      /\ \A i \in Ids \ {IdOf[r]} : status'[i] = status[i] /\ claimant'[i] = claimant[i]
  BY <1>2 DEF WriteClaim, Record, Inductive, TypeOK
<1>4. phase'[r] = "running" /\ body'[r] = "begun" /\ OnlyRun(r)
  BY <1>2 DEF WriteClaim, Begin, Go, Inductive, TypeOK, OnlyRun
<1>5. ASSUME NEW q \in Runs PROVE Sound(q)'
  <2>1. CASE q = r
    BY <1>2, <1>3, <1>4, <2>1 DEF Sound, Begun
  <2>2. CASE q # r
    <3>1. IdOf[q] = IdOf[r] => ~Begun(q) /\ phase[q] # "creating"
      BY <1>2, <2>2 DEF Inductive, Sound, Ends
    <3>2. IdOf[q] \in Ids OBVIOUS
    <3> QED BY <1>2, <1>3, <1>4, <2>2, <3>1, <3>2, SoundKept DEF Inductive, Sound, OnlyRun
  <2> QED BY <2>1, <2>2
<1>6. ASSUME NEW i \in Ids PROVE Founded(i)'
  <2>1. CASE i = IdOf[r]
    BY <1>3, <1>4, <2>1 DEF Founded, Ends
  <2>2. CASE i # IdOf[r]
    BY <1>2, <1>3, <1>4, <2>2, FoundedKept DEF Inductive, Founded, OnlyRun
  <2> QED BY <2>1, <2>2
<1>7. ASSUME NEW q \in Runs PROVE Replays(q)'
  BY <1>2, <1>4, ReplaysKept DEF Inductive, OnlyRun
<1> QED BY <1>1, <1>2, <1>5, <1>6, <1>7 DEF Inductive

\* start() of the memory store, with the eviction that makes room for the record.
LEMMA MemoryClaimStep == ASSUME Inductive, NEW r \in Runs, MemoryClaim(r) PROVE Inductive'
<1> USE ActivityAssumption
<1>1. TypeOK' BY TypeStep DEF Inductive, Step
<1>2. /\ UNCHANGED <<store, hampered>> /\ store = "memory" /\ phase[r] = "ready"
      /\ IdOf[r] \in Ids /\ body[r] = "unstarted" /\ answer[r] = "none"
  <2>1. UNCHANGED <<store, hampered>> /\ store = "memory" /\ phase[r] = "ready"
    BY DEF MemoryClaim
  <2>2. body[r] = "unstarted" /\ answer[r] = "none" BY <2>1 DEF Inductive, Sound
  <2> QED BY <2>1, <2>2
<1>3. CASE status[IdOf[r]] = "none"
  <2>1. /\ status' = [i \in Ids |-> IF i = IdOf[r] THEN "started"
                                    ELSE IF i \in Oldest THEN "none" ELSE status[i]]
        /\ claimant' = [i \in Ids |-> IF i = IdOf[r] THEN r
                                      ELSE IF i \in Oldest THEN NoRun ELSE claimant[i]]
        /\ evicted' = evicted \cup Oldest /\ UNCHANGED answer
    BY <1>3 DEF MemoryClaim
  <2>2. phase'[r] = "running" /\ body'[r] = "begun" /\ OnlyRun(r)
    BY <1>2, <1>3 DEF MemoryClaim, Begin, Go, Inductive, TypeOK, OnlyRun
  <2>3. ASSUME NEW q \in Runs PROVE Sound(q)'
    <3>1. CASE q = r
      BY <1>2, <2>1, <2>2, <3>1 DEF Sound, Begun
    <3>2. CASE q # r
      <4>1. phase[q] # "creating" BY <1>2 DEF Inductive, Sound
      <4>2. Begun(q) /\ IdOf[q] \notin evicted => IdOf[q] # IdOf[r]
        BY <1>3 DEF Inductive, Sound, Ends
      <4>3. IdOf[q] \in Ids OBVIOUS
      <4> QED BY <1>2, <2>1, <2>2, <3>2, <4>1, <4>2, <4>3, SoundKept DEF Inductive, Sound, OnlyRun
    <3> QED BY <3>1, <3>2
  <2>4. ASSUME NEW i \in Ids PROVE Founded(i)'
    <3>1. CASE i = IdOf[r]
      BY <2>1, <2>2, <3>1 DEF Founded, Ends
    <3>2. CASE i # IdOf[r] /\ i \in Oldest
      BY <2>1, <3>2 DEF Founded
    <3>3. CASE i # IdOf[r] /\ i \notin Oldest
      BY <1>2, <2>1, <2>2, <3>3, FoundedKept DEF Inductive, Founded, OnlyRun
    <3> QED BY <3>1, <3>2, <3>3
  <2>5. ASSUME NEW q \in Runs PROVE Replays(q)'
    BY <1>2, <2>1, <2>2, ReplaysKept DEF Inductive, OnlyRun
  <2> QED BY <1>1, <1>2, <2>3, <2>4, <2>5 DEF Inductive
<1>4. CASE status[IdOf[r]] # "none"
  <2>1. Answer(r, AnswerFromRecord(r)) /\ UNCHANGED <<records, body>>
    BY <1>4 DEF MemoryClaim
  <2>2. CASE status[IdOf[r]] # "torn"
    BY <1>1, <1>2, <1>4, <2>1, <2>2, AnswersFromRecord
  <2>3. CASE status[IdOf[r]] = "torn"
    <3>1. /\ phase'[r] = "over" /\ answer'[r] \in {"conflict", "not runnable"}
          /\ OnlyRun(r)
      BY <1>2, <2>1, <2>3 DEF Answer, AnswerFromRecord, Go, Inductive, TypeOK, OnlyRun
    <3>2. Sound(r)'
      BY <1>2, <2>1, <3>1 DEF Inductive, Sound, Begun, records
    <3>3. claimant[IdOf[r]] # r
      BY <1>2 DEF Inductive, Founded
    <3>4. Replays(r)' BY <3>1 DEF Replays
    <3> QED BY <1>1, <1>2, <2>1, <3>1, <3>2, <3>3, <3>4, QuietStep
  <2> QED BY <2>2, <2>3
<1> QED BY <1>3, <1>4

\* Every step keeps the invariant.
LEMMA InductiveStep == Inductive /\ [Next]_vars => Inductive'
<1>1. ASSUME Inductive, NEW r \in Runs, Step(r) PROVE Inductive'
  BY <1>1, MemoryClaimStep, FileClaimStep, WriteClaimStep, ReadClaimStep, BodyEndsStep,
     MemoryFinishStep, FinishReadsStep, FinishRenamesStep, StoreFailsStep, CrashStep DEF Step
<1>2. ASSUME Inductive, UNCHANGED vars PROVE Inductive'
  <2>1. UNCHANGED <<store, status, claimant, kept, evicted, phase, body, answer, hampered>>
    BY <1>2 DEF vars, records
  <2>2. TypeOK' /\ (store = "file" => evicted = {})' BY <1>2, <2>1 DEF Inductive, TypeOK
  <2>3. ASSUME NEW q \in Runs PROVE Sound(q)' /\ Replays(q)'
    BY <1>2, <2>1, SoundKept, ReplaysKept DEF Inductive, Sound
  <2>4. ASSUME NEW i \in Ids PROVE Founded(i)'
    BY <1>2, <2>1, FoundedKept DEF Inductive
  <2> QED BY <2>2, <2>3, <2>4 DEF Inductive
<1> QED BY <1>1, <1>2 DEF Next

\* The invariant, put together from the lemmas on the actions above.
LEMMA AlwaysInductive == Spec => []Inductive
BY Initially, InductiveStep, PTL DEF Spec
----------------------------------------------------------------------------
\* However many runs, processes and crashes: no body runs twice for an id whose
\* record was never evicted.
THEOREM AtMostOnce == Spec => []RunsOnce
<1>1. Inductive => RunsOnce
  BY DEF Inductive, Sound, RunsOnce
<1> QED BY <1>1, AlwaysInductive, PTL

\* Records say what happened.
THEOREM EvidenceIsTrue == Spec => []EvidenceTruth
<1>1. Inductive => EvidenceTruth
  BY DEF Inductive, Founded, EvidenceTruth, Accident
<1> QED BY <1>1, AlwaysInductive, PTL

\* Results are the run's own or replayed from a completed body of the same input,
\* and a completed body returns its result but by accident.
THEOREM ResultsAreTrue == Spec => []ResultTruth
<1>1. Inductive => ReplayTruth
  BY DEF Inductive, Sound, Replays, ReplayTruth
<1>2. Inductive => CompletedIsReturned
  BY DEF Inductive, Sound, CompletedIsReturned, Accident
<1>3. Inductive => ResultTruth
  BY <1>1, <1>2 DEF ResultTruth
<1> QED BY <1>3, AlwaysInductive, PTL

\* No step replaces a terminal record.
THEOREM TerminalStays == Spec => TerminalForever
<1> DEFINE Kept == \A i \in Ids : status[i] \in Ends =>
                     \/ status'[i] = status[i] /\ claimant'[i] = claimant[i]
                     \/ store = "memory" /\ status'[i] = "none"
<1> USE ActivityAssumption
<1>1. ASSUME Inductive, NEW r \in Runs, Step(r) PROVE Kept
  <2>1. CASE MemoryClaim(r)
    <3>1. CASE status[IdOf[r]] # "none"
      BY <2>1, <3>1 DEF MemoryClaim, records
    <3>2. CASE status[IdOf[r]] = "none"
      <4>1. /\ store = "memory"
            /\ status' = [i \in Ids |-> IF i = IdOf[r] THEN "started"
                                        ELSE IF i \in Oldest THEN "none" ELSE status[i]]
            /\ claimant' = [i \in Ids |-> IF i = IdOf[r] THEN r
                                          ELSE IF i \in Oldest THEN NoRun ELSE claimant[i]]
        BY <2>1, <3>2 DEF MemoryClaim
      <4> QED BY <3>2, <4>1 DEF Ends
    <3> QED BY <3>1, <3>2
  <2>2. CASE FileClaim(r)
    BY <1>1, <2>2 DEF FileClaim, Free, Record, Inductive, TypeOK, Ends
  <2>3. CASE WriteClaim(r)
    <3>1. status[IdOf[r]] = "torn"
      BY <1>1, <2>3 DEF WriteClaim, Inductive, Sound
    <3> QED BY <1>1, <2>3, <3>1 DEF WriteClaim, Record, Inductive, TypeOK, Ends
  <2>4. CASE MemoryFinish(r)
    BY <1>1, <2>4 DEF MemoryFinish, Mine, Finished, Record, Inductive, TypeOK, Ends
  <2>5. CASE FileFinishRenames(r)
    <3>1. status[IdOf[r]] = "started"
      BY <1>1, <2>5, HoldsRecord DEF FileFinishRenames, Inductive, Sound, Begun, Ends
    <3> QED BY <1>1, <2>5, <3>1 DEF FileFinishRenames, Finished, Record, Inductive, TypeOK, Ends
  <2>6. CASE ReadClaim(r) \/ BodyEnds(r) \/ FileFinishReads(r) \/ StoreFails(r) \/ Crash(r)
    BY <2>6 DEF ReadClaim, BodyEnds, FileFinishReads, StoreFails, Crash, records
  <2> QED BY <1>1, <2>1, <2>2, <2>3, <2>4, <2>5, <2>6 DEF Step
<1>2. Inductive /\ [Next]_vars => [Kept]_vars
  BY <1>1 DEF Next
<1> QED BY <1>2, AlwaysInductive, PTL DEF Spec, TerminalForever
=============================================================================

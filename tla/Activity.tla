------------------------------ MODULE Activity ------------------------------
(***************************************************************************)
(* runActivity() and its two stores (activity/index.ts): an activity id    *)
(* has one record, which says that somebody claimed it and how that ended. *)
(*                                                                         *)
(* A run is one execution of a wrapped task body, with the activity id and *)
(* the input it was wrapped with.  Runs share the store: those of one      *)
(* process, and with files those of several processes and of a process     *)
(* that starts again.  A step is what happens between two awaits; an       *)
(* operation on the file system is a step of its own, may fail, and the    *)
(* process may crash before and after it.  A memory store dies with its    *)
(* process, so its runs do not crash.                                      *)
(***************************************************************************)
EXTENDS Naturals, Sequences

CONSTANTS
  Ids, Inputs,     \* activity ids; inputs, up to their hash
  Runs,            \* executions, each with its id and input
  IdOf, InputOf,
  Stores,          \* the kinds of store: "memory", "file" or both
  MaxRecords,      \* how many records a memory store keeps
  NoRun            \* whom an absent record belongs to

ASSUME ActivityAssumption ==
  /\ IdOf \in [Runs -> Ids] /\ InputOf \in [Runs -> Inputs]
  /\ Stores \subseteq {"memory", "file"} /\ MaxRecords \in Nat \ {0}
  /\ NoRun \notin Runs

VARIABLES
  store,     \* which of the stores it is
  status,    \* status[i]: of the record of i; "none" without one, "torn" while its
             \* file exists and cannot be parsed
  claimant,  \* claimant[i]: the run whose record it is
  kept,      \* the ids of a memory store, oldest first
  phase,     \* phase[r]: where run r is
  body,      \* body[r]: whether the task began, and how it ended
  answer,    \* answer[r]: what the run returned or threw
  evicted,   \* history: ids a memory store has ever forgotten
  hampered   \* history: runs that met an I/O error

records == <<status, claimant, kept, evicted>>
vars == <<store, records, phase, body, answer, hampered>>

Ends == {"completed", "failed", "cancelled"}

TypeOK ==
  /\ store \in Stores
  /\ status \in [Ids -> {"none", "torn", "started"} \cup Ends]
  /\ claimant \in [Ids -> Runs \cup {NoRun}]
  /\ kept \in Seq(Ids) /\ Len(kept) <= MaxRecords
  /\ phase \in [Runs -> {"ready", "creating", "reading", "running", "recording",
                         "replacing", "reporting", "overwriting", "over", "crashed"}]
  /\ body \in [Runs -> {"unstarted", "begun"} \cup Ends]
  /\ answer \in [Runs -> {"none", "own", "replayed", "conflict", "not runnable", "failure"}]
  /\ evicted \subseteq Ids
  /\ hampered \subseteq Runs

Init ==
  /\ store \in Stores
  /\ status = [i \in Ids |-> "none"] /\ claimant = [i \in Ids |-> NoRun]
  /\ kept = <<>> /\ evicted = {}
  /\ phase = [r \in Runs |-> "ready"] /\ body = [r \in Runs |-> "unstarted"]
  /\ answer = [r \in Runs |-> "none"]
  /\ hampered = {}
----------------------------------------------------------------------------
Record(r, s) ==
  /\ status' = [status EXCEPT ![IdOf[r]] = s]
  /\ claimant' = [claimant EXCEPT ![IdOf[r]] = r]

Go(r, p) == phase' = [phase EXCEPT ![r] = p]

Answer(r, a) ==
  /\ Go(r, "over")
  /\ answer' = [answer EXCEPT ![r] = a]

Begin(r) ==
  /\ Go(r, "running")
  /\ body' = [body EXCEPT ![r] = "begun"]

SameInput(r) == InputOf[claimant[IdOf[r]]] = InputOf[r]

\* The id has a record: it decides what the run returns or throws.
AnswerWhatever(r) == IF status[IdOf[r]] = "completed" THEN "replayed" ELSE "not runnable"
AnswerFromRecord(r) ==
  IF ~SameInput(r) THEN "conflict"
  ELSE IF status[IdOf[r]] = "completed" THEN "replayed" ELSE "not runnable"

\* start() of the memory store: a full one forgets its oldest record first.
OldestTooLate == IF Len(kept) > MaxRecords THEN {Head(kept)} ELSE {}
Oldest == IF Len(kept) >= MaxRecords THEN {Head(kept)} ELSE {}
MemoryClaim(r) ==
  /\ store = "memory" /\ phase[r] = "ready"
  /\ IF status[IdOf[r]] # "none"
       THEN Answer(r, AnswerFromRecord(r)) /\ UNCHANGED <<records, body>>
       ELSE /\ evicted' = evicted \cup Oldest
            /\ kept' = Append(IF Oldest = {} THEN kept ELSE Tail(kept), IdOf[r])
            /\ status' = [i \in Ids |-> IF i = IdOf[r] THEN "started"
                                        ELSE IF i \in Oldest THEN "none" ELSE status[i]]
            /\ claimant' = [i \in Ids |-> IF i = IdOf[r] THEN r
                                          ELSE IF i \in Oldest THEN NoRun ELSE claimant[i]]
            /\ Begin(r) /\ UNCHANGED answer
  /\ UNCHANGED <<store, hampered>>

\* start() of the file store: the file is created exclusively and written after
\* that, or else it exists and is read.
FreeUnlessWritten(i) == status[i] \in {"none", "torn"}
Free(i) == status[i] = "none"
FileClaim(r) ==
  /\ store = "file" /\ phase[r] = "ready"
  /\ IF Free(IdOf[r]) THEN Record(r, "torn") /\ Go(r, "creating")
     ELSE Go(r, "reading") /\ UNCHANGED <<status, claimant>>
  /\ UNCHANGED <<store, kept, evicted, body, answer, hampered>>

WriteClaim(r) ==
  /\ phase[r] = "creating"
  /\ Record(r, "started") /\ Begin(r)
  /\ UNCHANGED <<store, kept, evicted, answer, hampered>>

\* A file that cannot be parsed is an error that run and record say nothing about.
ReadClaim(r) ==
  /\ phase[r] = "reading"
  /\ Answer(r, IF status[IdOf[r]] = "torn" THEN "failure" ELSE AnswerFromRecord(r))
  /\ UNCHANGED <<store, records, body, hampered>>

\* The task ends; a result that cannot be serialized counts as failed.
BodyEnds(r) ==
  /\ phase[r] = "running"
  /\ \E how \in Ends :
       /\ body' = [body EXCEPT ![r] = how]
       /\ Go(r, IF how = "completed" THEN "recording" ELSE "reporting")
  /\ UNCHANGED <<store, records, answer, hampered>>

\* finish() accepts a record only over one that is started, with the same input.
MineWhateverStatus(r) == status[IdOf[r]] # "none" /\ SameInput(r)
Mine(r) == status[IdOf[r]] = "started" /\ SameInput(r)

\* What finish() is called with: in the try block completed, in the catch block by
\* the class of the error; an error of the first finish() is no cancellation.
AllFailed(r) == IF phase[r] \in {"recording", "replacing"} THEN "completed" ELSE "failed"
Evidence(r) ==
  IF phase[r] \in {"recording", "replacing"} THEN "completed"
  ELSE IF body[r] = "cancelled" THEN "cancelled" ELSE "failed"

\* A finish() that throws in the try block leads to the catch block, and there out
\* of the run.
FinishThrows(r) ==
  IF phase[r] \in {"recording", "replacing"} THEN Go(r, "reporting") /\ UNCHANGED answer
  ELSE Answer(r, "failure")

\* The catch block throws again, the try block returns.
OutcomeRethrown(r) == "failure"
Outcome(r) == IF phase[r] \in {"recording", "replacing"} THEN "own" ELSE "failure"
Finished(r) == Record(r, Evidence(r)) /\ Answer(r, Outcome(r))

MemoryFinish(r) ==
  /\ store = "memory" /\ phase[r] \in {"recording", "reporting"}
  /\ IF Mine(r) THEN Finished(r) ELSE FinishThrows(r) /\ UNCHANGED <<status, claimant>>
  /\ UNCHANGED <<store, kept, evicted, body, hampered>>

\* finish() of the file store reads, awaits, and renames a new file over the old one.
FileFinishReads(r) ==
  /\ store = "file" /\ phase[r] \in {"recording", "reporting"}
  /\ IF Mine(r)
       THEN Go(r, IF phase[r] = "recording" THEN "replacing" ELSE "overwriting")
            /\ UNCHANGED answer
       ELSE FinishThrows(r)
  /\ UNCHANGED <<store, records, body, hampered>>

FileFinishRenames(r) ==
  /\ phase[r] \in {"replacing", "overwriting"}
  /\ Finished(r)
  /\ UNCHANGED <<store, kept, evicted, body, hampered>>

\* An operation on the file system fails. What was created stays as it is.
StoreFails(r) ==
  /\ store = "file"
  /\ IF phase[r] \in {"ready", "creating", "reading"} THEN Answer(r, "failure")
     ELSE /\ phase[r] \in {"recording", "replacing", "reporting", "overwriting"}
          /\ FinishThrows(r)
  /\ hampered' = hampered \cup {r}
  /\ UNCHANGED <<store, records, body>>

Crash(r) ==
  /\ store = "file" /\ phase[r] \notin {"ready", "over", "crashed"}
  /\ Go(r, "crashed")
  /\ UNCHANGED <<store, records, body, answer, hampered>>

Step(r) ==
  \/ MemoryClaim(r) \/ FileClaim(r) \/ WriteClaim(r) \/ ReadClaim(r)
  \/ BodyEnds(r)
  \/ MemoryFinish(r) \/ FileFinishReads(r) \/ FileFinishRenames(r)
  \/ StoreFails(r) \/ Crash(r)

Next == \E r \in Runs : Step(r)
Spec == Init /\ [][Next]_vars
----------------------------------------------------------------------------
Begun(r) == body[r] # "unstarted"

\* The body of an activity runs at most once for its id, whatever crashes, fails or
\* starts again in between: completed, failed, cancelled and uncertain records are
\* never run again ("fail closed"). Only a memory store that forgot the record may
\* run it again.
RunsOnce ==
  \A p, q \in Runs :
    p # q /\ IdOf[p] = IdOf[q] /\ Begun(p) /\ Begun(q) => IdOf[p] \in evicted

\* A run returns a result without its own body only if a run with the same id and
\* input completed; and a run whose body began never answers with another's.
ReplayTruth ==
  \A r \in Runs :
    /\ answer[r] = "own" => body[r] = "completed"
    /\ answer[r] = "replayed" =>
         /\ ~Begun(r)
         /\ \E q \in Runs : /\ IdOf[q] = IdOf[r] /\ InputOf[q] = InputOf[r]
                            /\ body[q] = "completed"

\* The evidence is of what happened: a record says completed or cancelled only of a
\* body that ended so. It says failed of one that completed only after an I/O error
\* or an eviction, and it stays started only while its claimant is at work, after a
\* crash, or after such an accident.
EvidenceTruth ==
  \A i \in Ids : \A r \in Runs : claimant[i] = r =>
    LET accident == r \in hampered \/ i \in evicted
    IN  /\ status[i] \in {"completed", "cancelled"} => body[r] = status[i]
        /\ status[i] = "failed" => body[r] = "failed" \/ (body[r] = "completed" /\ accident)
        /\ status[i] = "started" /\ phase[r] = "over" => accident

\* No completed work is lost on the caller: a run whose body completed returns its
\* result, unless it met an I/O error, crashed, or its record was evicted.
CompletedIsReturned ==
  \A r \in Runs :
    body[r] = "completed" /\ phase[r] = "over" /\ answer[r] # "own" =>
      r \in hampered \/ IdOf[r] \in evicted

\* What a run answers is true of the bodies that ran, and none that completed is
\* lost on its caller.
ResultTruth == ReplayTruth /\ CompletedIsReturned

\* A terminal record is never replaced; a memory store may forget it.
TerminalForever ==
  [][\A i \in Ids : status[i] \in Ends =>
       \/ status'[i] = status[i] /\ claimant'[i] = claimant[i]
       \/ store = "memory" /\ status'[i] = "none"]_vars
=============================================================================

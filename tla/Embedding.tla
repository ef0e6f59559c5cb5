----------------------------- MODULE Embedding -----------------------------
(***************************************************************************)
(* embedAllBisection of ai/index.ts: the inputs are cut into chunks, which  *)
(* a pool of workers embeds; a batch that the provider rejects is split,    *)
(* down to single items, whose errors are collected.  A chunk has retries   *)
(* and a timeout, and every attempt starts from the whole chunk.            *)
(***************************************************************************)
EXTENDS Naturals, Sequences, FiniteSets, FiniteSetsExt

CONSTANTS
  EmbItems,    \* how many inputs
  EmbBatch,    \* batchSize
  EmbWorkers,  \* concurrency of the pool
  EmbTimes     \* attempts for a chunk

ASSUME EmbeddingAssumption ==
  {EmbItems, EmbBatch, EmbWorkers, EmbTimes} \subseteq Nat \ {0}

VARIABLES
  embMode,     \* onError: fail or continue
  embChunk,    \* of each chunk: batches to embed, results, errors, attempt, stage
  embAborted,  \* the signal of the chunks' tasks
  embOutcome   \* pending, returned, or thrown

embVars == <<embMode, embChunk, embAborted, embOutcome>>

ChunkCount == (EmbItems + EmbBatch - 1) \div EmbBatch
Chunks == 1..ChunkCount
\* chunkIndexed: the items of a chunk; a batch is the set of its items.
Whole(c) == ((c - 1) * EmbBatch + 1)..(IF c * EmbBatch < EmbItems THEN c * EmbBatch ELSE EmbItems)

FreshChunk(c, attempt, stage) ==
  [todo |-> <<Whole(c)>>, results |-> {}, errors |-> {}, attempt |-> attempt, stage |-> stage]

EmbeddingInit(modes) ==
  /\ embMode \in modes
  /\ embChunk = [c \in Chunks |-> FreshChunk(c, 1, "queued")]
  /\ embAborted = FALSE /\ embOutcome = "pending"

RunningChunks == {c \in Chunks : embChunk[c].stage = "running"}
----------------------------------------------------------------------------
\* batch.slice at ceil(length / 2).
Midpoint(batch) == Min(batch) + (Cardinality(batch) + 1) \div 2
HalvesWithGap(batch) == <<{i \in batch : i < Midpoint(batch)}, {i \in batch : i > Midpoint(batch)}>>
Halves(batch) == <<{i \in batch : i < Midpoint(batch)}, {i \in batch : i >= Midpoint(batch)}>>

\* A worker takes the next chunk.
TakeChunk(c) ==
  /\ embOutcome = "pending" /\ ~embAborted
  /\ embChunk[c].stage = "queued" /\ \A d \in 1..(c - 1) : embChunk[d].stage # "queued"
  /\ Cardinality(RunningChunks) < EmbWorkers
  /\ embChunk' = [embChunk EXCEPT ![c].stage = "running"]
  /\ UNCHANGED <<embMode, embAborted, embOutcome>>

\* The chunk with its current batch done and these results and errors.
Advance(chunk, todo, results, errors) ==
  [chunk EXCEPT !.todo = todo, !.results = @ \cup results, !.errors = @ \cup errors,
                !.stage = IF todo = <<>> THEN "done" ELSE "running"]

\* An attempt at chunk c failed for good: the task throws, or in mode continue
\* returns one error for the chunk, under its first item.
GiveUp(c) ==
  IF embMode = "fail" THEN embOutcome' = "thrown" /\ UNCHANGED embChunk
    ELSE /\ embChunk' = [embChunk EXCEPT ![c] =
              [FreshChunk(c, @.attempt, "failed") EXCEPT !.todo = <<>>, !.errors = {Min(Whole(c))}]]
         /\ UNCHANGED embOutcome

\* What an attempt starts from.
AttemptFromHere(c) == [embChunk[c] EXCEPT !.todo = <<Whole(c)>>, !.attempt = @ + 1]
NextAttempt(c) == FreshChunk(c, embChunk[c].attempt + 1, "running")

\* Under an aborted signal the delay before the next attempt rejects.
AttemptFails(c) ==
  CASE embChunk[c].attempt = EmbTimes -> GiveUp(c)
    [] embChunk[c].attempt < EmbTimes /\ embAborted -> embOutcome' = "thrown" /\ UNCHANGED embChunk
    [] OTHER -> embChunk' = [embChunk EXCEPT ![c] = NextAttempt(c)] /\ UNCHANGED embOutcome

\* The provider answers for the current batch: with vectors, with an error that
\* is classified as split, or with any other error or a wrong number of vectors.
\* The signal is looked at before the next batch.
Batch(c) == Head(embChunk[c].todo)
Single(c) == Cardinality(Batch(c)) = 1
GoOnWith(c, todo, results, errors) ==
  IF embAborted /\ todo # <<>> THEN embOutcome' = "thrown" /\ UNCHANGED embChunk
    ELSE /\ embChunk' = [embChunk EXCEPT ![c] = Advance(@, todo, results, errors)]
         /\ UNCHANGED embOutcome
Answer(c, answer) ==
  LET rest == Tail(embChunk[c].todo)
  IN /\ embOutcome = "pending" /\ embChunk[c].stage = "running"
     /\ CASE answer = "vectors" -> GoOnWith(c, rest, Batch(c), {})
          [] answer # "vectors" /\ Single(c) -> GoOnWith(c, rest, {}, Batch(c))
          [] answer = "split" /\ ~Single(c) -> GoOnWith(c, Halves(Batch(c)) \o rest, {}, {})
          [] answer = "fail" /\ ~Single(c) -> AttemptFails(c)
     /\ UNCHANGED <<embMode, embAborted>>

\* The chunk's timeout, outside its retries.  The charge for its tokens, which
\* may be refused, and a cancellation end the whole pool.
ChunkTimesOut(c) ==
  /\ embOutcome = "pending" /\ embChunk[c].stage = "running" /\ GiveUp(c)
  /\ UNCHANGED <<embMode, embAborted>>
ChunkCancelled ==
  /\ embOutcome = "pending" /\ RunningChunks # {} /\ embOutcome' = "thrown"
  /\ UNCHANGED <<embMode, embChunk, embAborted>>
EmbeddingAborts ==
  /\ embOutcome = "pending" /\ ~embAborted /\ embAborted' = TRUE
  /\ UNCHANGED <<embMode, embChunk, embOutcome>>

\* The pool has returned: errors are thrown in mode fail.
Gather ==
  /\ embOutcome = "pending" /\ \A c \in Chunks : embChunk[c].stage \in {"done", "failed"}
  /\ embOutcome' = IF embMode = "fail" /\ \E c \in Chunks : embChunk[c].errors # {}
                     THEN "thrown" ELSE "returned"
  /\ UNCHANGED <<embMode, embChunk, embAborted>>

EmbeddingNext ==
  \/ \E c \in Chunks : TakeChunk(c) \/ ChunkTimesOut(c)
  \/ \E c \in Chunks, a \in {"vectors", "split", "fail"} : Answer(c, a)
  \/ ChunkCancelled \/ EmbeddingAborts \/ Gather
----------------------------------------------------------------------------
\* A result vouches for every input: it has a vector or an error of its own, and
\* not both.  The exception is a chunk that failed as a whole in mode continue:
\* its one error, at its first item, stands for all its items.  In mode fail a
\* result has every vector.
EmbeddingTruth ==
  embOutcome = "returned" => \A c \in Chunks :
    LET chunk == embChunk[c]
    IN /\ chunk.results \cap chunk.errors = {}
       /\ \/ chunk.results \cup chunk.errors = Whole(c)
          \/ /\ chunk.stage = "failed" /\ embMode = "continue"
             /\ chunk.results = {} /\ chunk.errors = {Min(Whole(c))}
       /\ embMode = "fail" => chunk.results = Whole(c)
=============================================================================

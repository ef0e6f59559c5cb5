----------------------------- MODULE AIStreams -----------------------------
(***************************************************************************)
(* The streams of ai/index.ts: first streamLLM, then transcribeStream and   *)
(* abortableIterable.                                                       *)
(*                                                                          *)
(* streamLLM of ai/index.ts: a task in a group of its own pulls chunks from *)
(* a provider and sends them to a bounded channel; the generator that the   *)
(* caller iterates receives from it, and when it is left it closes the      *)
(* channel and awaits the group.  The channel is that of module Channel     *)
(* with one sender and one receiver; chunks are numbered as they come.      *)
(***************************************************************************)
EXTENDS Naturals

CONSTANTS
  LLMChunks,   \* bound: the chunks of the provider
  LLMBuffer    \* opts.buffer

ASSUME LLMAssumption == LLMChunks \in Nat /\ LLMBuffer \in Nat \ {0}

VARIABLES
  llmPulled,     \* chunks the provider yielded
  llmSent,       \* of these, accepted by the channel
  llmGot,        \* of these, received by the consumer
  llmClosed,     \* the channel: open, or the reason it was closed with
  llmProducer,   \* pulling, sending, finished or rejected: the group's promise
  llmConsumer,   \* reading, paused at a yield, closing, or how the generator ended
  llmEnd,        \* how the generator will end once the group has
  llmAborted     \* opts.signal, or the signal of the group

llmVars == <<llmPulled, llmSent, llmGot, llmClosed, llmProducer, llmConsumer, llmEnd, llmAborted>>

LLMInit ==
  /\ llmPulled = 0 /\ llmSent = 0 /\ llmGot = 0
  /\ llmClosed = "open" /\ llmProducer = "pulling"
  /\ llmConsumer = "reading" /\ llmEnd = "completed" /\ llmAborted = "no"

\* Room in the buffer, or a receiver that waits for the next chunk.
Room == llmSent - llmGot < LLMBuffer + (IF llmConsumer = "reading" THEN 1 ELSE 0)
----------------------------------------------------------------------------
CloseAs(reason) == llmClosed' = IF llmClosed = "open" THEN reason ELSE llmClosed

\* The producer's catch: it closes the channel and rejects, but for the error of
\* a closed channel.
ProducerFails(reason) == llmProducer' = "rejected" /\ CloseAs(reason)

\* The provider yields a chunk, and the producer sends it.
Pull ==
  /\ llmProducer = "pulling" /\ llmPulled < LLMChunks
  /\ llmPulled' = llmPulled + 1
  /\ CASE llmClosed # "open" -> llmProducer' = "finished" /\ UNCHANGED <<llmSent, llmClosed>>
       [] llmClosed = "open" /\ llmAborted # "no" ->
            ProducerFails("aborted") /\ UNCHANGED llmSent
       [] OTHER -> /\ IF Room THEN llmSent' = llmSent + 1 /\ UNCHANGED llmProducer
                        ELSE llmProducer' = "sending" /\ UNCHANGED llmSent
                   /\ UNCHANGED llmClosed
  /\ UNCHANGED <<llmGot, llmConsumer, llmEnd, llmAborted>>

\* A place becomes free for the chunk that waits.
Accept ==
  /\ llmProducer = "sending" /\ Room
  /\ llmSent' = llmSent + 1 /\ llmProducer' = "pulling"
  /\ UNCHANGED <<llmPulled, llmGot, llmClosed, llmConsumer, llmEnd, llmAborted>>

\* The provider's iteration ends, or throws.
ReasonLost == "ended"
FailureReason == "failed"
ProviderEnds ==
  /\ llmProducer = "pulling"
  /\ \/ llmProducer' = "finished" /\ CloseAs("ended")
     \/ ProducerFails(FailureReason)
  /\ UNCHANGED <<llmPulled, llmSent, llmGot, llmConsumer, llmEnd, llmAborted>>

\* The generator's finally: the channel is closed, which turns a waiting sender
\* away, and the group is awaited.
Leave(end) ==
  /\ llmConsumer' = "closing" /\ llmEnd' = end /\ CloseAs("left")
  /\ llmProducer' = IF llmProducer = "sending" THEN "finished" ELSE llmProducer

\* The consumer receives a chunk, or learns that there are no more.
Receive ==
  /\ llmConsumer = "reading"
  /\ \/ llmSent > llmGot /\ llmGot' = llmGot + 1 /\ llmConsumer' = "paused"
        /\ UNCHANGED <<llmClosed, llmProducer, llmEnd>>
     \/ /\ llmSent = llmGot /\ llmClosed # "open" /\ UNCHANGED llmGot
        /\ Leave(IF llmClosed = "ended" THEN "completed" ELSE llmClosed)
  /\ UNCHANGED <<llmPulled, llmSent, llmAborted>>

\* The caller asks for the next chunk, or leaves the loop.
AskNext ==
  /\ llmConsumer = "paused"
  /\ IF llmAborted = "caller" THEN Leave("aborted")
     ELSE llmConsumer' = "reading" /\ UNCHANGED <<llmEnd, llmClosed, llmProducer>>
  /\ UNCHANGED <<llmPulled, llmSent, llmGot, llmAborted>>
LeaveEarly ==
  /\ llmConsumer = "paused" /\ Leave("returned")
  /\ UNCHANGED <<llmPulled, llmSent, llmGot, llmAborted>>

\* The caller's signal aborts a waiting receive and a waiting send, the group's a
\* waiting send.  A chunk that is already in the buffer has been received.
LLMAborts(who) ==
  /\ llmAborted = "no" /\ llmConsumer \in {"reading", "paused", "closing"} /\ llmAborted' = who
  /\ (llmConsumer = "reading") => llmSent = llmGot /\ llmClosed = "open"
  /\ IF llmConsumer = "reading" /\ who = "caller" THEN Leave("aborted")
     ELSE IF llmProducer = "sending" THEN ProducerFails("aborted") /\ UNCHANGED <<llmConsumer, llmEnd>>
     ELSE UNCHANGED <<llmProducer, llmClosed, llmConsumer, llmEnd>>
  /\ UNCHANGED <<llmPulled, llmSent, llmGot>>

\* The group has ended, and with it the generator.
Joined == llmProducer \in {"finished", "rejected"}
GeneratorEnds ==
  /\ llmConsumer = "closing" /\ Joined /\ llmConsumer' = llmEnd
  /\ UNCHANGED <<llmPulled, llmSent, llmGot, llmClosed, llmProducer, llmEnd, llmAborted>>

LLMNext ==
  \/ Pull \/ Accept \/ ProviderEnds \/ Receive \/ AskNext \/ LeaveEarly
  \/ \E who \in {"caller", "group"} : LLMAborts(who)
  \/ GeneratorEnds
----------------------------------------------------------------------------
\* The generator completes only when the provider's iteration ended and every
\* chunk it yielded was received; it fails with the provider's error only after
\* all the chunks before it; and it ends only when the producer has.
LLMTruth ==
  LET over == llmConsumer \in {"completed", "failed", "aborted", "returned"}
  IN /\ over => llmProducer \in {"finished", "rejected"}
     /\ over /\ llmConsumer \in {"completed", "failed"} => llmGot = llmPulled
     /\ llmConsumer = "completed" => llmProducer = "finished" /\ llmClosed = "ended"
     /\ llmConsumer = "aborted" => llmAborted # "no"

\* "streamLLM surfaces provider failures and closes cleanly when consumer stops
\* early", says packages/core/tests/unit/ai.test.js:703: a rejection of the group
\* has somebody to handle it.
FailureIsHandled == llmProducer = "rejected" => llmConsumer # "paused"
----------------------------------------------------------------------------
(***************************************************************************)
(* transcribeStream and abortableIterable of ai/index.ts: generators that   *)
(* pull from a source, one value at a time, and that a signal can end while *)
(* they wait for it.  The first transcribes each value in a task of its     *)
(* own; the second hands the values to work().stream(), module WorkStream.  *)
(*                                                                          *)
(* The source is the caller's.  Its return() may end it at once, as that of *)
(* a hand-written iterator does, or only when the value asked for has come: *)
(* the requests to an async generator wait in a queue.                      *)
(***************************************************************************)
CONSTANT SrcValues   \* bound: the values of the source

ASSUME SourceAssumption == SrcValues \in Nat

VARIABLES
  srcKind,      \* transcribe, or adapter for abortableIterable
  srcForm,      \* the source: iterator, generator, or bare, without return()
  srcAsked,     \* its next() has not settled
  srcYielded,   \* values it produced
  srcGot,       \* values, or their texts, that the caller got
  srcDropped,   \* values that nobody got: the transcription failed, or nobody waited
  srcStage,     \* idle, pulling, transcribing, paused at a yield, returning or over
  srcEnd,       \* how the generator ends: done, failed, aborted or left
  srcReturns,   \* calls of return()
  srcAborted,   \* the signal
  srcLate       \* history: the source was asked under an aborted signal

srcVars == <<srcKind, srcForm, srcAsked, srcYielded, srcGot, srcDropped, srcStage, srcEnd,
             srcReturns, srcAborted, srcLate>>

SourceInit(kinds, forms) ==
  /\ srcKind \in kinds /\ srcForm \in forms
  /\ srcAsked = FALSE /\ srcYielded = 0 /\ srcGot = 0 /\ srcDropped = 0
  /\ srcStage = "idle" /\ srcEnd = "none" /\ srcReturns = 0
  /\ srcAborted = FALSE /\ srcLate = FALSE
----------------------------------------------------------------------------
\* The finally block: await iterator.return?.(), whether the source has ended or not.
ReturnUnlessDone(end) ==
  /\ srcStage' = "returning" /\ srcEnd' = end
  /\ srcReturns' = IF srcForm = "bare" \/ end \in {"done", "failed"} THEN srcReturns ELSE srcReturns + 1
ReturnSource(end) ==
  /\ srcStage' = "returning" /\ srcEnd' = end
  /\ srcReturns' = IF srcForm = "bare" THEN srcReturns ELSE srcReturns + 1

\* The caller asks for a value.  The signal is looked at before the source is
\* asked; the adapter looks before it has opened the source.
CallerAsks ==
  /\ srcStage \in {"idle", "paused"}
  /\ CASE srcAborted /\ srcStage = "idle" /\ srcKind = "adapter" ->
            srcStage' = "over" /\ srcEnd' = "aborted" /\ UNCHANGED <<srcReturns, srcAsked, srcLate>>
       [] srcAborted /\ (srcStage = "paused" \/ srcKind = "transcribe") ->
            ReturnSource("aborted") /\ UNCHANGED <<srcAsked, srcLate>>
       [] OTHER -> /\ srcStage' = "pulling" /\ srcAsked' = TRUE /\ srcLate' = (srcLate \/ srcAborted)
                   /\ UNCHANGED <<srcEnd, srcReturns>>
  /\ UNCHANGED <<srcKind, srcForm, srcYielded, srcGot, srcDropped, srcAborted>>

\* nextWithAbort: the source answers, with a value, its end or an error.
SourceAnswers ==
  /\ srcAsked /\ srcAsked' = FALSE
  /\ \/ /\ srcYielded < SrcValues /\ srcYielded' = srcYielded + 1
        /\ CASE srcStage = "pulling" /\ srcKind = "transcribe" ->
                  srcStage' = "transcribing" /\ UNCHANGED <<srcGot, srcDropped>>
             [] srcStage = "pulling" /\ srcKind = "adapter" ->
                  srcStage' = "paused" /\ srcGot' = srcGot + 1 /\ UNCHANGED srcDropped
             [] OTHER -> srcDropped' = srcDropped + 1 /\ UNCHANGED <<srcStage, srcGot>>
        /\ UNCHANGED <<srcEnd, srcReturns>>
     \/ /\ IF srcStage = "pulling" THEN \E end \in {"done", "failed"} : ReturnSource(end)
           ELSE UNCHANGED <<srcStage, srcEnd, srcReturns>>
        /\ UNCHANGED <<srcYielded, srcGot, srcDropped>>
  /\ UNCHANGED <<srcKind, srcForm, srcAborted, srcLate>>

\* The task of a value ends: the provider's text is yielded, its error thrown.
TranscribeEnds ==
  /\ srcStage = "transcribing"
  /\ \/ srcStage' = "paused" /\ srcGot' = srcGot + 1 /\ UNCHANGED <<srcDropped, srcEnd, srcReturns>>
     \/ /\ srcDropped' = srcDropped + 1 /\ UNCHANGED srcGot
        /\ ReturnSource("failed") \/ (srcAborted /\ ReturnSource("aborted"))
  /\ UNCHANGED <<srcKind, srcForm, srcAsked, srcYielded, srcAborted, srcLate>>

\* The signal: it rejects a wait for the source, and reaches the provider.
SourceAborts ==
  /\ ~srcAborted /\ srcAborted' = TRUE
  /\ IF srcStage = "pulling" THEN ReturnSource("aborted") ELSE UNCHANGED <<srcStage, srcEnd, srcReturns>>
  /\ UNCHANGED <<srcKind, srcForm, srcAsked, srcYielded, srcGot, srcDropped, srcLate>>

\* The caller leaves its loop.  A generator that was never asked has not begun.
CallerLeaves ==
  /\ srcStage \in {"idle", "paused"}
  /\ IF srcStage = "idle" THEN srcStage' = "over" /\ srcEnd' = "left" /\ UNCHANGED srcReturns
     ELSE ReturnSource("left")
  /\ UNCHANGED <<srcKind, srcForm, srcAsked, srcYielded, srcGot, srcDropped, srcAborted, srcLate>>

\* return() settles; an error of it becomes the error of the generator.
ReturnSettles ==
  /\ srcStage = "returning" /\ (srcForm = "generator" => ~srcAsked)
  /\ srcStage' = "over"
  /\ srcEnd' \in {srcEnd} \cup (IF srcForm = "bare" THEN {} ELSE {"failed"})
  /\ UNCHANGED <<srcKind, srcForm, srcAsked, srcYielded, srcGot, srcDropped, srcReturns,
                 srcAborted, srcLate>>

SourceNext ==
  \/ CallerAsks \/ SourceAnswers \/ TranscribeEnds \/ SourceAborts \/ CallerLeaves
  \/ ReturnSettles

\* return() settles when it can, and a provider whose signal is aborted ends.  The
\* source may never answer, and the caller need not ask.
SourceFairness == WF_srcVars(ReturnSettles) /\ WF_srcVars(srcAborted /\ TranscribeEnds)
----------------------------------------------------------------------------
\* However the generator ends, it has closed the source exactly once, if it had
\* begun and the source can be closed; it never asks under an aborted signal; and
\* every value that the source produced was got, but at most the last one, which
\* was being transcribed or came when nobody waited any more.  A generator that
\* ends without an error lost none, and only the signal makes it end as aborted.
SourceTruth ==
  /\ srcStage \in {"returning", "over"} /\ srcForm # "bare" =>
       srcReturns = 1 \/ (srcReturns = 0 /\ srcYielded = 0 /\ ~srcAsked
                            /\ srcEnd \in (IF srcKind = "adapter" THEN {"aborted", "left"} ELSE {"left"}))
  /\ srcStage \notin {"returning", "over"} => srcReturns = 0
  /\ ~srcLate
  /\ srcYielded = srcGot + srcDropped + (IF srcStage = "transcribing" THEN 1 ELSE 0)
  /\ srcDropped <= 1 /\ (srcDropped = 1 => srcEnd \in {"failed", "aborted"})
  /\ srcEnd = "done" => srcGot = srcYielded
  /\ srcEnd = "aborted" => srcAborted

\* An aborted generator ends, or waits for its caller, whatever the source does,
\* unless the source is an async generator.
AbortedSourceLeft ==
  (srcAborted /\ srcForm # "generator") ~> (srcStage \in {"idle", "paused", "over"})

\* "transcribeStream aborts while waiting for the next source chunk"
\* (packages/core/tests/unit/ai.test.js:389), whatever the source.
DisconnectEnds == srcAborted ~> (srcStage \in {"idle", "paused", "over"})
=============================================================================

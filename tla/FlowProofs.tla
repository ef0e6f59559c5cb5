----------------------------- MODULE FlowProofs -----------------------------
(***************************************************************************)
(* What is handed on is accounted for, for every value of the constants: a  *)
(* stream of ai/index.ts says truly how it ended, and returns its source    *)
(* once (AIStreams), and the events of an agent tell its run (AgentRun); the*)
(* export queue keeps its limits and counts every event, and the buses count*)
(* what they drop (Exporter); every input that is embedded has a vector or  *)
(* an error (Embedding), and every item of a batch is in its output as its  *)
(* handlers were told (WorkModes); a budget is charged once, where it was   *)
(* installed, and cancels those who share it (Ambient); a shared resource is*)
(* acquired once and released once (SharedResource).  The last theorems put *)
(* together what Companions does.                                           *)
(***************************************************************************)
EXTENDS
  Companions, Exporter, FiniteSetTheorems, SequenceTheorems, WellFoundedInduction, TLAPS

(***************************************************************************)
(* Minima of sets of natural numbers, and induction by sets.                *)
(***************************************************************************)
\* A set of natural numbers that is not empty has its least element.
LEMMA Least ==
  ASSUME NEW S \in SUBSET Nat, S # {}
  PROVE  Min(S) \in S /\ \A y \in S : Min(S) <= y
<1>1. \E x \in S : \A y \in S : ~(<<y, x>> \in OpToRel(<, Nat))
  BY NatLessThanWellFounded, WFMin
<1>2. \E x \in S : \A y \in S : ~(y < x) BY <1>1 DEF OpToRel
<1>3. PICK x \in S : \A y \in S : ~(y < x) BY <1>2
<1>4. \A y \in S : x <= y
  <2> TAKE y \in S
  <2>1. ~(y < x) /\ x \in Nat /\ y \in Nat BY <1>3
  <2> QED BY <2>1
<1> QED BY <1>3, <1>4 DEF Min


\* Induction up to a bound, and over all natural numbers, by sets.
LEMMA UpTo ==
  ASSUME NEW N \in Nat, NEW T, \A s \in 0..N : (\A r \in 0..N : r < s => r \in T) => s \in T
  PROVE  \A s \in 0..N : s \in T
<1> DEFINE S == (0..N) \ T
<1>1. SUFFICES ASSUME S # {} PROVE FALSE OBVIOUS
<1>2. S \in SUBSET Nat OBVIOUS
<1>3. \E x \in S : \A y \in S : x <= y BY <1>1, <1>2, Least
<1>4. PICK x \in S : \A y \in S : x <= y BY <1>3
<1>5. \A r \in 0..N : r < x => r \in T BY <1>4
<1> QED BY <1>4, <1>5

\* Induction over the naturals in the form of a set, from a least counterexample.
LEMMA AllNat ==
  ASSUME NEW T \in SUBSET Nat, 0 \in T, \A n \in T : n + 1 \in T
  PROVE  T = Nat
<1> DEFINE S == Nat \ T
<1>1. SUFFICES ASSUME S # {} PROVE FALSE OBVIOUS
<1>2. S \in SUBSET Nat OBVIOUS
<1>3. PICK x \in S : \A y \in S : x <= y BY <1>1, <1>2, Least
<1>4. x # 0 /\ x - 1 \in Nat /\ ~(x <= x - 1) BY <1>2
<1>5. x - 1 \in T BY <1>3, <1>4
<1> QED BY <1>4, <1>5


(***************************************************************************)
(* A model stream (AIStreams): who closed the channel, and with what reason*)
(* tells how the consumer may end.                                          *)
(***************************************************************************)
\* The producer holds one chunk at most that the channel has not accepted, and it is
\* the producer, or the consumer that has left, who closes the channel, with the reason.
LLMTyped ==
  /\ llmPulled \in Nat /\ llmSent \in Nat /\ llmGot \in Nat
  /\ llmClosed \in {"open", "ended", "failed", "aborted", "left"}
  /\ llmProducer \in {"pulling", "sending", "finished", "rejected"}
  /\ llmConsumer \in {"reading", "paused", "closing", "completed", "failed", "aborted", "returned"}
  /\ llmEnd \in {"completed", "failed", "aborted", "returned"}
  /\ llmAborted \in {"no", "caller", "group"}
ClosedBy ==
  /\ llmProducer = "pulling" => llmSent = llmPulled
  /\ llmProducer = "sending" => llmClosed = "open" /\ llmSent + 1 = llmPulled
  /\ llmClosed \in {"ended", "failed"} => llmSent = llmPulled
  /\ llmClosed = "ended" => llmProducer = "finished"
  /\ llmClosed \in {"failed", "aborted"} => llmProducer = "rejected"
  /\ llmClosed = "aborted" => llmAborted # "no"
  /\ llmClosed = "left" => llmConsumer \notin {"reading", "paused"}
\* How a generator that leaves its loop will end, and does when the group has.
Leaving ==
  llmConsumer \notin {"reading", "paused"} =>
    /\ llmConsumer \in {"closing", llmEnd}
    /\ llmConsumer # "closing" => Joined
    /\ llmClosed # "open"
    /\ llmEnd = "completed" => llmClosed = "ended" /\ llmGot = llmSent
    /\ llmEnd = "failed" => llmClosed = "failed" /\ llmGot = llmSent
    /\ llmEnd = "aborted" => llmAborted # "no"
Streaming == LLMTyped /\ ClosedBy /\ Leaving

\* The channel of a stream is empty at first.
LEMMA LLMInitStreaming == LLMInit => Streaming
  BY DEF LLMInit, Streaming, LLMTyped, ClosedBy, Leaving

\* Every step of provider, channel and consumer keeps the invariant.
LEMMA LLMStepStreaming == Streaming /\ [LLMNext]_llmVars => Streaming'
<1> SUFFICES ASSUME Streaming, [LLMNext]_llmVars PROVE Streaming'
  OBVIOUS
<1> USE DEF Streaming, LLMTyped, ClosedBy, Leaving, Joined, CloseAs
<1>1. CASE Pull BY <1>1 DEF Pull, ProducerFails
<1>2. CASE Accept BY <1>2 DEF Accept
<1>3. CASE ProviderEnds BY <1>3 DEF ProviderEnds, ProducerFails, FailureReason
<1>4. CASE Receive BY <1>4 DEF Receive, Leave
<1>5. CASE AskNext BY <1>5 DEF AskNext, Leave
<1>6. CASE LeaveEarly BY <1>6 DEF LeaveEarly, Leave
<1>7. ASSUME NEW who \in {"caller", "group"}, LLMAborts(who) PROVE Streaming'
  BY <1>7 DEF LLMAborts, Leave, ProducerFails
<1>8. CASE GeneratorEnds BY <1>8 DEF GeneratorEnds
<1>9. CASE UNCHANGED llmVars BY <1>9 DEF llmVars
<1> QED BY <1>1, <1>2, <1>3, <1>4, <1>5, <1>6, <1>7, <1>8, <1>9 DEF LLMNext

\* For any number of chunks and any buffer, streamLLM of ai/index.ts completes with
\* all that the provider yielded, fails after all that came before, and never ends
\* before its producer.
THEOREM StreamsAreTrue == LLMInit /\ [][LLMNext]_llmVars => []LLMTruth
<1>1. Streaming => LLMTruth
  BY DEF Streaming, LLMTyped, ClosedBy, Leaving, Joined, LLMTruth
<1> QED BY <1>1, LLMInitStreaming, LLMStepStreaming, PTL

(***************************************************************************)
(* A wrapped source (AIStreams): what was asked of it, and how often it    *)
(* was returned, follow from where the generator stands.                    *)
(***************************************************************************)
\* A generator returns its source when it leaves its loop, once, and until then no
\* value that came is lost.
SrcTyped ==
  /\ srcYielded \in Nat /\ srcGot \in Nat /\ srcDropped \in Nat /\ srcReturns \in Nat
  /\ srcKind \in {"transcribe", "adapter"} /\ srcForm \in {"iterator", "generator", "bare"}
  /\ srcAsked \in BOOLEAN /\ srcAborted \in BOOLEAN
  /\ srcStage \in {"idle", "pulling", "transcribing", "paused", "returning", "over"}
  /\ srcEnd \in {"none", "done", "failed", "aborted", "left"}
SrcLooping == srcStage \notin {"returning", "over"}
Pulling ==
  /\ IF SrcLooping THEN srcEnd = "none" /\ srcDropped = 0 ELSE srcEnd # "none"
  /\ srcStage \in {"idle", "transcribing", "paused"} => ~srcAsked
  /\ srcStage = "idle" => srcYielded = 0
  /\ srcStage = "transcribing" => srcKind = "transcribe"
  /\ srcStage = "pulling" => srcAsked /\ ~srcAborted
  /\ srcStage = "returning" /\ srcForm # "bare" => srcReturns = 1
  /\ srcDropped = 1 => ~srcAsked
  /\ srcAsked => srcEnd \in {"none", "failed", "aborted"}
Sourced == SrcTyped /\ Pulling /\ SourceTruth

\* SourceTruth by its parts.
ReturnedOnce ==
  srcStage \in {"returning", "over"} /\ srcForm # "bare" =>
       srcReturns = 1 \/ (srcReturns = 0 /\ srcYielded = 0 /\ ~srcAsked
                            /\ srcEnd \in (IF srcKind = "adapter" THEN {"aborted", "left"} ELSE {"left"}))
NotReturned == SrcLooping => srcReturns = 0
NoneLost ==
  /\ srcYielded = srcGot + srcDropped + (IF srcStage = "transcribing" THEN 1 ELSE 0)
  /\ srcDropped <= 1 /\ (srcDropped = 1 => srcEnd \in {"failed", "aborted"})
  /\ srcEnd = "done" => srcGot = srcYielded
OnlyAborted == ~srcLate /\ (srcEnd = "aborted" => srcAborted)
SourceParts == ReturnedOnce /\ NotReturned /\ NoneLost /\ OnlyAborted

\* SourceTruth, part by part.
LEMMA PartsOfSourceTruth == SourceParts <=> SourceTruth
  BY DEF SourceParts, ReturnedOnce, NotReturned, NoneLost, OnlyAborted, SourceTruth, SrcLooping

\* Nothing is pulled at first, whatever the kind and form of the source.
LEMMA SourceInitSourced ==
  ASSUME NEW kinds \in SUBSET {"transcribe", "adapter"},
         NEW forms \in SUBSET {"iterator", "generator", "bare"}, SourceInit(kinds, forms)
  PROVE  Sourced
<1> USE DEF SourceInit
<1>1. SrcTyped
  <2>1. srcKind \in {"transcribe", "adapter"} OBVIOUS
  <2>2. srcForm \in {"iterator", "generator", "bare"} OBVIOUS
  <2> QED BY <2>1, <2>2 DEF SrcTyped
<1>2. Pulling BY DEF Pulling, SrcLooping
<1>3. SourceParts BY DEF SourceParts, ReturnedOnce, NotReturned, NoneLost, OnlyAborted
<1> QED BY <1>1, <1>2, <1>3, PartsOfSourceTruth DEF Sourced

\* Every step of the generator and its source keeps the invariant.
LEMMA SourceStepSourced == Sourced /\ [SourceNext]_srcVars => Sourced'
<1> SUFFICES ASSUME Sourced, [SourceNext]_srcVars PROVE Sourced'
  OBVIOUS
<1>0. SrcTyped /\ Pulling /\ SourceParts BY PartsOfSourceTruth DEF Sourced
<1> SUFFICES SrcTyped' /\ Pulling' /\ ReturnedOnce' /\ NotReturned' /\ NoneLost' /\ OnlyAborted'
  <2>1. SourceParts' => SourceTruth'
    BY DEF SourceParts, ReturnedOnce, NotReturned, NoneLost, OnlyAborted, SourceTruth, SrcLooping
  <2> QED BY <2>1 DEF Sourced, SourceParts
<1>1. CASE CallerAsks
  <2>0. \/ srcStage' = "over" /\ srcEnd' = "aborted" /\ UNCHANGED <<srcReturns, srcAsked, srcLate>>
        \/ ReturnSource("aborted") /\ UNCHANGED <<srcAsked, srcLate>>
        \/ /\ srcStage' = "pulling" /\ srcAsked' = TRUE /\ srcLate' = (srcLate \/ srcAborted)
           /\ UNCHANGED <<srcEnd, srcReturns>>
    BY <1>1 DEF CallerAsks
  <2>1. SrcTyped'
    <3>1. UNCHANGED <<srcKind, srcForm, srcYielded, srcGot, srcDropped, srcAborted>>
      BY <1>1 DEF CallerAsks
    <3>2. /\ srcStage' \in {"over", "returning", "pulling"} /\ srcAsked' \in {srcAsked, TRUE}
          /\ srcReturns' \in {srcReturns, srcReturns + 1} /\ srcEnd' \in {"aborted", srcEnd}
      BY <2>0 DEF ReturnSource
    <3>3. srcReturns' \in Nat BY <1>0, <3>2 DEF SrcTyped
    <3>4. srcAsked' \in BOOLEAN BY <1>0, <3>2, Zenon DEF SrcTyped
    <3> QED BY <1>0, <3>1, <3>2, <3>3, <3>4 DEF SrcTyped
  <2>2. Pulling' BY <1>0, <1>1 DEF CallerAsks, ReturnSource, SrcTyped, Pulling, SrcLooping, SourceParts, NotReturned
  <2>3. ReturnedOnce' BY <1>0, <1>1 DEF CallerAsks, ReturnSource, SrcTyped, Pulling, SrcLooping, SourceParts, ReturnedOnce, NotReturned
  <2>4. NotReturned' BY <1>0, <1>1 DEF CallerAsks, ReturnSource, SrcTyped, Pulling, SrcLooping, SourceParts, NotReturned
  <2>5. NoneLost' BY <1>0, <1>1 DEF CallerAsks, ReturnSource, SrcTyped, Pulling, SrcLooping, SourceParts, NoneLost
  <2>6. OnlyAborted' BY <1>0, <1>1 DEF CallerAsks, ReturnSource, SrcTyped, Pulling, SrcLooping, SourceParts, OnlyAborted
  <2> QED BY <2>1, <2>2, <2>3, <2>4, <2>5, <2>6
<1>2. CASE SourceAnswers
  <2>0. /\ srcAsked /\ srcAsked' = FALSE /\ UNCHANGED <<srcKind, srcForm, srcAborted, srcLate>>
        /\ \/ /\ srcYielded' = srcYielded + 1 /\ UNCHANGED <<srcEnd, srcReturns>>
              /\ \/ /\ srcStage = "pulling" /\ srcKind = "transcribe"
                    /\ srcStage' = "transcribing" /\ UNCHANGED <<srcGot, srcDropped>>
                 \/ /\ srcStage = "pulling" /\ srcKind = "adapter"
                    /\ srcStage' = "paused" /\ srcGot' = srcGot + 1 /\ UNCHANGED srcDropped
                 \/ /\ srcStage # "pulling"
                    /\ srcDropped' = srcDropped + 1 /\ UNCHANGED <<srcStage, srcGot>>
           \/ /\ UNCHANGED <<srcYielded, srcGot, srcDropped>>
              /\ \/ srcStage = "pulling" /\ \E end \in {"done", "failed"} : ReturnSource(end)
                 \/ srcStage # "pulling" /\ UNCHANGED <<srcStage, srcEnd, srcReturns>>
    BY <1>0, <1>2 DEF SourceAnswers, SrcTyped
  <2>1. SrcTyped'
    <3>1. /\ srcStage' \in {"transcribing", "paused", "returning", srcStage}
          /\ srcEnd' \in {"done", "failed", srcEnd}
          /\ srcYielded' \in {srcYielded, srcYielded + 1} /\ srcGot' \in {srcGot, srcGot + 1}
          /\ srcDropped' \in {srcDropped, srcDropped + 1} /\ srcReturns' \in {srcReturns, srcReturns + 1}
      BY <2>0 DEF ReturnSource
    <3>2. \A n \in Nat : n + 1 \in Nat OBVIOUS
    <3>3. srcYielded' \in Nat /\ srcGot' \in Nat /\ srcDropped' \in Nat /\ srcReturns' \in Nat
      BY <1>0, <3>1, <3>2 DEF SrcTyped
    <3> QED BY <1>0, <2>0, <3>1, <3>3 DEF SrcTyped
  <2>2. Pulling' BY <1>0, <2>0 DEF ReturnSource, SrcTyped, Pulling, SrcLooping, SourceParts, NotReturned
  <2>3. ReturnedOnce' BY <1>0, <2>0 DEF ReturnSource, SrcTyped, Pulling, SrcLooping, SourceParts, ReturnedOnce, NotReturned
  <2>4. NotReturned' BY <1>0, <2>0 DEF ReturnSource, SrcTyped, Pulling, SrcLooping, SourceParts, NotReturned
  <2>5. NoneLost'
    <3>1. srcYielded \in Nat /\ srcGot \in Nat /\ srcDropped \in Nat BY <1>0 DEF SrcTyped
    <3>2. /\ srcStage \in {"pulling", "returning", "over"} /\ srcDropped # 1
          /\ srcEnd \in {"none", "failed", "aborted"}
          /\ srcStage = "pulling" => srcEnd = "none"
      BY <1>0, <2>0 DEF SrcTyped, Pulling, SrcLooping
    <3>3. /\ srcDropped = 0 /\ srcYielded = srcGot + srcDropped
      BY <1>0, <3>1, <3>2 DEF SourceParts, NoneLost
    <3>4. srcStage # "pulling" => srcEnd \in {"failed", "aborted"}
      BY <1>0, <2>0, <3>2 DEF Pulling, SrcLooping
    <3> QED BY <2>0, <3>1, <3>2, <3>3, <3>4 DEF ReturnSource, NoneLost
  <2>6. OnlyAborted' BY <1>0, <2>0 DEF ReturnSource, SrcTyped, Pulling, SrcLooping, SourceParts, OnlyAborted
  <2> QED BY <2>1, <2>2, <2>3, <2>4, <2>5, <2>6
<1>3. CASE TranscribeEnds
  <2>1. SrcTyped' BY <1>0, <1>3 DEF TranscribeEnds, ReturnSource, SrcTyped
  <2>2. Pulling' BY <1>0, <1>3 DEF TranscribeEnds, ReturnSource, SrcTyped, Pulling, SrcLooping, SourceParts, NotReturned
  <2>3. ReturnedOnce' BY <1>0, <1>3 DEF TranscribeEnds, ReturnSource, SrcTyped, Pulling, SrcLooping, SourceParts, ReturnedOnce, NotReturned
  <2>4. NotReturned' BY <1>0, <1>3 DEF TranscribeEnds, ReturnSource, SrcTyped, Pulling, SrcLooping, SourceParts, NotReturned
  <2>5. NoneLost' BY <1>0, <1>3 DEF TranscribeEnds, ReturnSource, SrcTyped, Pulling, SrcLooping, SourceParts, NoneLost
  <2>6. OnlyAborted' BY <1>0, <1>3 DEF TranscribeEnds, ReturnSource, SrcTyped, Pulling, SrcLooping, SourceParts, OnlyAborted
  <2> QED BY <2>1, <2>2, <2>3, <2>4, <2>5, <2>6
<1>4. CASE SourceAborts
  <2>1. SrcTyped' BY <1>0, <1>4 DEF SourceAborts, ReturnSource, SrcTyped
  <2>2. Pulling' BY <1>0, <1>4 DEF SourceAborts, ReturnSource, SrcTyped, Pulling, SrcLooping, SourceParts, NotReturned
  <2>3. ReturnedOnce' BY <1>0, <1>4 DEF SourceAborts, ReturnSource, SrcTyped, Pulling, SrcLooping, SourceParts, ReturnedOnce, NotReturned
  <2>4. NotReturned' BY <1>0, <1>4 DEF SourceAborts, ReturnSource, SrcTyped, Pulling, SrcLooping, SourceParts, NotReturned
  <2>5. NoneLost' BY <1>0, <1>4 DEF SourceAborts, ReturnSource, SrcTyped, Pulling, SrcLooping, SourceParts, NoneLost
  <2>6. OnlyAborted' BY <1>0, <1>4 DEF SourceAborts, ReturnSource, SrcTyped, Pulling, SrcLooping, SourceParts, OnlyAborted
  <2> QED BY <2>1, <2>2, <2>3, <2>4, <2>5, <2>6
<1>5. CASE CallerLeaves
  <2>1. SrcTyped' BY <1>0, <1>5 DEF CallerLeaves, ReturnSource, SrcTyped
  <2>2. Pulling' BY <1>0, <1>5 DEF CallerLeaves, ReturnSource, SrcTyped, Pulling, SrcLooping, SourceParts, NotReturned
  <2>3. ReturnedOnce' BY <1>0, <1>5 DEF CallerLeaves, ReturnSource, SrcTyped, Pulling, SrcLooping, SourceParts, ReturnedOnce, NotReturned
  <2>4. NotReturned' BY <1>0, <1>5 DEF CallerLeaves, ReturnSource, SrcTyped, Pulling, SrcLooping, SourceParts, NotReturned
  <2>5. NoneLost' BY <1>0, <1>5 DEF CallerLeaves, ReturnSource, SrcTyped, Pulling, SrcLooping, SourceParts, NoneLost
  <2>6. OnlyAborted' BY <1>0, <1>5 DEF CallerLeaves, ReturnSource, SrcTyped, Pulling, SrcLooping, SourceParts, OnlyAborted
  <2> QED BY <2>1, <2>2, <2>3, <2>4, <2>5, <2>6
<1>6. CASE ReturnSettles
  <2>1. SrcTyped' BY <1>0, <1>6 DEF ReturnSettles, ReturnSource, SrcTyped
  <2>2. Pulling' BY <1>0, <1>6 DEF ReturnSettles, ReturnSource, SrcTyped, Pulling, SrcLooping, SourceParts, NotReturned
  <2>3. ReturnedOnce' BY <1>0, <1>6 DEF ReturnSettles, ReturnSource, SrcTyped, Pulling, SrcLooping, SourceParts, ReturnedOnce, NotReturned
  <2>4. NotReturned' BY <1>0, <1>6 DEF ReturnSettles, ReturnSource, SrcTyped, Pulling, SrcLooping, SourceParts, NotReturned
  <2>5. NoneLost' BY <1>0, <1>6 DEF ReturnSettles, ReturnSource, SrcTyped, Pulling, SrcLooping, SourceParts, NoneLost
  <2>6. OnlyAborted' BY <1>0, <1>6 DEF ReturnSettles, ReturnSource, SrcTyped, Pulling, SrcLooping, SourceParts, OnlyAborted
  <2> QED BY <2>1, <2>2, <2>3, <2>4, <2>5, <2>6
<1>7. CASE UNCHANGED srcVars
  BY <1>0, <1>7 DEF srcVars, SrcTyped, Pulling, SrcLooping, SourceParts, ReturnedOnce, NotReturned, NoneLost, OnlyAborted
<1> QED BY <1>1, <1>2, <1>3, <1>4, <1>5, <1>6, <1>7 DEF SourceNext

\* However a generator of ai/index.ts that pulls from a source ends, it has returned
\* the source once, asked it nothing under an aborted signal, and lost one value at most.
THEOREM SourcesAreTrue ==
  ASSUME NEW CONSTANT kinds \in SUBSET {"transcribe", "adapter"},
         NEW CONSTANT forms \in SUBSET {"iterator", "generator", "bare"}
  PROVE  SourceInit(kinds, forms) /\ [][SourceNext]_srcVars => []SourceTruth
<1>1. SourceInit(kinds, forms) => Sourced BY SourceInitSourced
<1>2. Sourced => SourceTruth BY DEF Sourced
<1> QED BY <1>1, <1>2, SourceStepSourced, PTL

(***************************************************************************)
(* The export queue (Exporter): the bytes of the queue are a sum over a     *)
(* prefix of it, which an event that enters or leaves changes by its own.   *)
(***************************************************************************)
\* Of the first k events of q, and a function that sums them up to m.
Summed(f, q, n) == IF n = 0 THEN 0 ELSE f[n - 1] + SizeOf[q[n]]
SumsTo(f, q, m) == f = [n \in 0..m |-> Summed(f, q, n)]
BytesOf(q, k) == LET sum[i \in 0..k] == IF i = 0 THEN 0 ELSE sum[i - 1] + SizeOf[q[i]] IN sum[k]

\* The recursive sum is defined up to every length.
LEMMA SumDefined ==
  ASSUME NEW q, NEW m \in Nat
  PROVE  \E f : SumsTo(f, q, m)
<1> DEFINE T == {k \in Nat : \E f : SumsTo(f, q, k)}
<1>1. 0 \in T
  <2>1. SumsTo([n \in 0..0 |-> 0], q, 0) BY DEF SumsTo, Summed
  <2> QED BY <2>1
<1>2. ASSUME NEW k \in T PROVE k + 1 \in T
  <2>1. PICK f : SumsTo(f, q, k) OBVIOUS
  <2> DEFINE g == [n \in 0..(k + 1) |-> IF n <= k THEN f[n] ELSE Summed(f, q, k + 1)]
  <2>2. ASSUME NEW n \in 0..(k + 1) PROVE g[n] = Summed(g, q, n)
    <3>0. k \in Nat OBVIOUS
    <3>1. n # 0 => n - 1 \in 0..k /\ g[n - 1] = f[n - 1] BY <3>0
    <3>2. CASE n <= k
      <4>1. g[n] = f[n] BY <3>0, <3>2
      <4>2. f[n] = Summed(f, q, n) BY <2>1, <3>0, <3>2 DEF SumsTo
      <4> HIDE DEF g
      <4> QED BY <3>1, <4>1, <4>2 DEF Summed
    <3>3. CASE n = k + 1
      <4>1. g[n] = Summed(f, q, n) BY <3>0, <3>3
      <4> HIDE DEF g
      <4> QED BY <3>1, <4>1 DEF Summed
    <3> QED BY <3>0, <3>2, <3>3
  <2>3. g = [n \in 0..(k + 1) |-> g[n]]
    OBVIOUS
  <2> HIDE DEF g
  <2>4. SumsTo(g, q, k + 1)
    BY <2>2, <2>3 DEF SumsTo
  <2> QED BY <2>4
<1> HIDE DEF T
<1>3. T = Nat
  <2>1. T \in SUBSET Nat BY DEF T
  <2> QED BY <1>1, <1>2, <2>1, AllNat
<1> QED BY <1>3 DEF T

\* BytesOf is such a sum.
LEMMA BytesAreSums ==
  ASSUME NEW q, NEW m \in Nat
  PROVE  \E f : SumsTo(f, q, m) /\ BytesOf(q, m) = f[m]
<1> DEFINE F == CHOOSE f : SumsTo(f, q, m)
<1>1. SumsTo(F, q, m) BY SumDefined
<1>2. BytesOf(q, m) = F[m] BY DEF BytesOf, SumsTo, Summed
<1> HIDE DEF F
<1> QED BY <1>1, <1>2

\* The first m events of r are those of q after the first k: so are their bytes.
After(q, k, r, m) ==
  /\ \A i \in 1..(k + m) : SizeOf[q[i]] \in Nat
  /\ \A i \in 1..m : r[i] = q[k + i]
\* The bytes of two queues, one behind the other, add up.
LEMMA BytesAfter ==
  ASSUME NEW q, NEW r, NEW k \in Nat, NEW m \in Nat, After(q, k, r, m)
  PROVE  /\ BytesOf(q, k) \in Nat /\ BytesOf(r, m) \in Nat
         /\ BytesOf(q, k + m) = BytesOf(q, k) + BytesOf(r, m)
<1> USE DEF After
<1>0. k + m \in Nat OBVIOUS
<1>1. PICK f : SumsTo(f, q, k + m) /\ BytesOf(q, k + m) = f[k + m] BY <1>0, BytesAreSums
<1>2. PICK g : SumsTo(g, r, m) /\ BytesOf(r, m) = g[m] BY BytesAreSums
<1>3. PICK h : SumsTo(h, q, k) /\ BytesOf(q, k) = h[k] BY BytesAreSums
<1>4. /\ \A n \in 0..(k + m) : f[n] = IF n = 0 THEN 0 ELSE f[n - 1] + SizeOf[q[n]]
      /\ \A n \in 0..m : g[n] = IF n = 0 THEN 0 ELSE g[n - 1] + SizeOf[r[n]]
      /\ \A n \in 0..k : h[n] = IF n = 0 THEN 0 ELSE h[n - 1] + SizeOf[q[n]]
  BY <1>1, <1>2, <1>3 DEF SumsTo, Summed
<1>5. \A n \in Nat : n <= k => h[n] \in Nat /\ f[n] = h[n]
  <2> DEFINE T == {n \in Nat : n <= k => h[n] \in Nat /\ f[n] = h[n]}
  <2>1. 0 \in T BY <1>4
  <2>2. ASSUME NEW n \in T PROVE n + 1 \in T
    <3>1. SUFFICES ASSUME n + 1 <= k PROVE h[n + 1] \in Nat /\ f[n + 1] = h[n + 1]
      OBVIOUS
    <3>2. n \in Nat /\ n + 1 \in 0..k /\ n + 1 \in 0..(k + m) /\ n + 1 \in 1..(k + m)
          /\ (n + 1) - 1 = n /\ n + 1 # 0 /\ n <= k
      BY <3>1
    <3>3. h[n] \in Nat /\ f[n] = h[n] BY <3>2
    <3>4. h[n + 1] = h[n] + SizeOf[q[n + 1]] /\ f[n + 1] = f[n] + SizeOf[q[n + 1]]
      BY <1>4, <3>2
    <3>5. SizeOf[q[n + 1]] \in Nat BY <3>2
    <3> QED BY <3>3, <3>4, <3>5
  <2> HIDE DEF T
  <2>3. T = Nat
    <3>1. T \in SUBSET Nat BY DEF T
    <3> QED BY <2>1, <2>2, <3>1, AllNat
  <2> QED BY <2>3 DEF T
<1>6. \A n \in Nat : n <= m => g[n] \in Nat /\ f[k + n] = f[k] + g[n]
  <2> DEFINE T == {n \in Nat : n <= m => g[n] \in Nat /\ f[k + n] = f[k] + g[n]}
  <2>0. f[k] \in Nat BY <1>5
  <2>1. 0 \in T
    <3>1. g[0] = 0 /\ k + 0 = k BY <1>4
    <3> QED BY <2>0, <3>1
  <2>2. ASSUME NEW n \in T PROVE n + 1 \in T
    <3>1. SUFFICES ASSUME n + 1 <= m PROVE g[n + 1] \in Nat /\ f[k + (n + 1)] = f[k] + g[n + 1]
      OBVIOUS
    <3>2. n \in Nat /\ n + 1 \in 0..m /\ k + (n + 1) \in 0..(k + m) /\ k + (n + 1) \in 1..(k + m)
          /\ (n + 1) - 1 = n /\ n + 1 # 0 /\ n <= m /\ n + 1 \in 1..m
          /\ k + (n + 1) - 1 = k + n /\ k + (n + 1) # 0
      BY <3>1
    <3>3. g[n] \in Nat /\ f[k + n] = f[k] + g[n] BY <3>2
    <3>4. g[n + 1] = g[n] + SizeOf[r[n + 1]] BY <1>4, <3>2
    <3>5. f[k + (n + 1)] = f[k + n] + SizeOf[q[k + (n + 1)]] BY <1>4, <3>2
    <3>6. SizeOf[q[k + (n + 1)]] \in Nat /\ r[n + 1] = q[k + (n + 1)] BY <3>2
    <3> HIDE DEF T
    <3> QED BY <2>0, <3>3, <3>4, <3>5, <3>6
  <2> HIDE DEF T
  <2>3. T = Nat
    <3>1. T \in SUBSET Nat BY DEF T
    <3> QED BY <2>1, <2>2, <3>1, AllNat
  <2> QED BY <2>3 DEF T
<1> QED BY <1>1, <1>2, <1>3, <1>5, <1>6

\* An empty queue has no bytes.
LEMMA NoBytes == ASSUME NEW q PROVE BytesOf(q, 0) = 0
<1>1. PICK f : SumsTo(f, q, 0) /\ BytesOf(q, 0) = f[0] BY BytesAreSums
<1> QED BY <1>1 DEF SumsTo, Summed
\* A queue of one event has the bytes of that event.
LEMMA BytesOfOne ==
  ASSUME NEW q, SizeOf[q[1]] \in Nat
  PROVE  BytesOf(q, 1) = SizeOf[q[1]]
<1>1. PICK f : SumsTo(f, q, 1) /\ BytesOf(q, 1) = f[1] BY BytesAreSums
<1>2. f[0] = 0 /\ f[1] = f[0] + SizeOf[q[1]] BY <1>1 DEF SumsTo, Summed
<1> QED BY <1>1, <1>2

\* What the queue is, apart from the counts.  A drain that throws has a callback that
\* has thrown.
Line(q, b, last) ==
  /\ Len(q) <= MaxQueueItems /\ b = BytesOf(q, Len(q)) /\ b <= MaxQueueBytes
  /\ \A i \in 1..Len(q) : last < q[i]
  /\ \A i, j \in 1..Len(q) : i < j => q[i] < q[j]
Accounted == ~thrown => exported + dropped + Len(queue) + InFlight = offered
Queueing ==
  /\ ExporterTypeOK /\ Line(queue, queuedBytes, sending) /\ Accounted
  /\ drain = "throwing" => thrown

\* Every event of a queue has a size.
LEMMA SizesTyped ==
  ASSUME NEW n \in Nat, n <= MaxEvents, NEW q \in Seq(1..n)
  PROVE  \A i \in 1..Len(q) : SizeOf[q[i]] \in Nat
<1>1. \A i \in 1..Len(q) : q[i] \in 1..n OBVIOUS
<1>2. \A e \in 1..n : e \in 1..MaxEvents BY ExporterAssumption
<1> QED BY <1>1, <1>2, ExporterAssumption

\* The invariant says what QueueTruth says.
LEMMA QueueingIsTrue == Queueing => QueueTruth
<1> SUFFICES ASSUME Queueing PROVE QueueTruth
  OBVIOUS
<1>1. DOMAIN queue = 1..Len(queue) BY DEF Queueing, ExporterTypeOK
<1>2. BytesOfFirst(Len(queue)) = BytesOf(queue, Len(queue)) BY DEF BytesOfFirst, BytesOf
<1> QED BY <1>1, <1>2 DEF Queueing, Line, Accounted, QueueTruth

\* There is a least number of events that leaves room.
LEMMA EnoughLeave ==
  ASSUME Queueing, NEW size \in Nat
  PROVE  Evictions(size) \in 0..Len(queue) /\ Enough(Evictions(size), size)
<1> DEFINE T == {k \in 0..Len(queue) : Enough(k, size)}
<1>0. Len(queue) \in Nat BY DEF Queueing, ExporterTypeOK
<1>1. Len(queue) \in T BY <1>0 DEF Enough
<1>2. \E x \in T : \A y \in T : ~(<<y, x>> \in OpToRel(<, Nat))
  <2>1. T \subseteq Nat /\ T # {} BY <1>0, <1>1
  <2> HIDE DEF T
  <2> QED BY <2>1, NatLessThanWellFounded, WFMin
<1>3. \E x \in T : \A y \in T : ~(y < x)
  <2>1. T \subseteq Nat BY <1>0
  <2> HIDE DEF T
  <2> QED BY <1>2, <2>1 DEF OpToRel
<1>4. \E k \in 0..Len(queue) :
        Enough(k, size) /\ \A j \in 0..Len(queue) : j < k => ~Enough(j, size)
  BY <1>3
<1> QED BY <1>4 DEF Evictions

\* q is what follows the first k of s, and e behind it.
Behind(s, k, e, q, r) ==
  /\ r + k = Len(s) /\ q \in Seq(1..e) /\ Len(q) = r + 1 /\ q[r + 1] = e
  /\ \A i \in 1..r : q[i] = s[k + i] /\ k + i \in 1..Len(s)
\* An event that is offered goes behind what is left of the queue.
LEMMA BehindTheRest ==
  ASSUME NEW m \in Nat, NEW s \in Seq(1..m), NEW k \in 0..Len(s)
  PROVE  \E r \in Nat : Behind(s, k, m + 1, Append(SubSeq(s, k + 1, Len(s)), m + 1), r)
<1> PICK n : n = Len(s) OBVIOUS
<1> PICK r : r = n - k OBVIOUS
<1> PICK rest : rest = SubSeq(s, k + 1, n) OBVIOUS
<1> PICK e : e = m + 1 OBVIOUS
<1>1. n \in Nat /\ r \in Nat /\ r + k = n /\ k \in Nat /\ k + 1 \in Int /\ n \in Int
      /\ 1..m \subseteq 1..e /\ e \in 1..e
  BY LenProperties
<1>2. \A i \in (k + 1)..n : i \in 1..n BY <1>1
<1>3. \A i \in (k + 1)..n : s[i] \in 1..e BY <1>1, <1>2, ElementOfSeq
<1>4. n - (k + 1) + 1 = r /\ (~(k + 1 <= n) => r = 0) BY <1>1
<1>5. /\ rest \in Seq(1..e) /\ Len(rest) = IF k + 1 <= n THEN n - (k + 1) + 1 ELSE 0
      /\ \A i \in 1..n - (k + 1) + 1 : rest[i] = s[k + 1 + i - 1]
  BY <1>1, <1>3, SubSeqProperties
<1>6. Len(rest) = r /\ \A i \in 1..r : rest[i] = s[k + 1 + i - 1] BY <1>4, <1>5
<1>7. \A i \in 1..r : k + 1 + i - 1 = k + i /\ k + i \in 1..n BY <1>1
<1> PICK q : q = Append(rest, e) OBVIOUS
<1>8. /\ q \in Seq(1..e) /\ Len(q) = r + 1 /\ q[r + 1] = e
      /\ \A i \in 1..r : q[i] = rest[i]
  <2>1. rest \in Seq(1..e) /\ e \in 1..e BY <1>1, <1>5
  <2>2. /\ q \in Seq(1..e) /\ Len(q) = Len(rest) + 1
        /\ \A i \in 1..Len(rest) : q[i] = rest[i]
        /\ q[Len(rest) + 1] = e
    BY <2>1, AppendProperties
  <2> QED BY <1>6, <2>2
<1>9. Behind(s, k, e, q, r) BY <1>1, <1>6, <1>7, <1>8 DEF Behind
<1> QED BY <1>1, <1>9

\* The queue with a new event behind those that stay.
LEMMA Queued ==
  ASSUME Queueing, offered < MaxEvents, ~TooBig(SizeOf[offered + 1]),
         NEW k, k = Evictions(SizeOf[offered + 1]),
         NEW q, q = Append(SubSeq(queue, k + 1, Len(queue)), offered + 1),
         NEW b, b = queuedBytes - BytesOfFirst(k) + SizeOf[offered + 1]
  PROVE  /\ k \in 0..Len(queue) /\ q \in Seq(1..(offered + 1)) /\ Len(q) # 0
         /\ Len(q) + k = Len(queue) + 1
         /\ b \in Nat /\ Line(q, b, sending)
<1> PICK e : e = offered + 1 OBVIOUS
<1> PICK n : n = Len(queue) OBVIOUS
<1> PICK size : size = SizeOf[e] OBVIOUS
<1>1. /\ offered \in Nat /\ e \in Nat /\ e \in 1..MaxEvents /\ n \in Nat /\ size \in Nat
      /\ queue \in Seq(1..offered) /\ queuedBytes \in Nat /\ sending \in 0..offered
      /\ MaxEvents \in Nat /\ offered <= MaxEvents /\ e <= MaxEvents
  <2>1. MaxEvents \in Nat /\ offered \in 0..MaxEvents BY ExporterAssumption DEF Queueing, ExporterTypeOK
  <2>2. e \in 1..MaxEvents BY <2>1
  <2>3. size \in Nat BY <2>2, ExporterAssumption
  <2>4. queue \in Seq(1..offered) BY DEF Queueing, ExporterTypeOK
  <2>5. n \in Nat BY <2>4, LenProperties
  <2> QED BY <2>1, <2>2, <2>3, <2>4, <2>5 DEF Queueing, ExporterTypeOK
<1>2. k \in 0..n /\ Enough(k, size) BY <1>1, EnoughLeave
<1>3. PICK r \in Nat : /\ r + k = n /\ q \in Seq(1..e) /\ Len(q) = r + 1 /\ q[r + 1] = e
                       /\ \A i \in 1..r : q[i] = queue[k + i] /\ k + i \in 1..n
  <2>1. queue \in Seq(1..offered) /\ k \in 0..Len(queue) BY <1>1, <1>2
  <2>2. \E r \in Nat : Behind(queue, k, e, q, r)
    BY <1>1, <2>1, BehindTheRest
  <2> QED BY <2>2 DEF Behind
<1>4. \A i \in 1..n : queue[i] \in 1..offered BY <1>1, ElementOfSeq
<1>5. \A i \in 1..(r + 1) : i \in 1..r \/ i = r + 1 BY <1>3
<1>6. /\ \A i \in 1..Len(q) : sending < q[i]
      /\ \A i, j \in 1..Len(q) : i < j => q[i] < q[j]
  <2>1. \A i \in 1..n : sending < queue[i] BY DEF Queueing, Line
  <2>2. \A i, j \in 1..n : i < j => queue[i] < queue[j] BY DEF Queueing, Line
  <2>3. sending < e /\ \A m \in 1..offered : m < e BY <1>1
  <2>4. ASSUME NEW i \in 1..(r + 1) PROVE sending < q[i]
    BY <1>3, <1>5, <2>1, <2>3
  <2>5. ASSUME NEW i \in 1..(r + 1), NEW j \in 1..(r + 1), i < j PROVE q[i] < q[j]
    <3>1. i \in 1..r BY <2>5
    <3>2. CASE j \in 1..r
      <4>1. k + i < k + j BY <1>2, <2>5
      <4> QED BY <1>3, <2>2, <3>1, <3>2, <4>1
    <3>3. CASE j = r + 1
      <4>1. q[i] \in 1..offered /\ q[j] = e BY <1>3, <1>4, <3>1, <3>3
      <4> QED BY <2>3, <4>1
    <3> QED BY <1>5, <3>2, <3>3
  <2> QED BY <1>3, <2>4, <2>5
<1>7. b \in Nat /\ b = BytesOf(q, Len(q)) /\ (Fits(k, size) => b <= MaxQueueBytes)
      /\ (k = n => b = size)
  <2>1. \A i \in 1..(k + r) : SizeOf[queue[i]] \in Nat
    <3>1. \A i \in 1..n : SizeOf[queue[i]] \in Nat BY <1>1, SizesTyped
    <3>2. k + r = n BY <1>2, <1>3
    <3> QED BY <3>1, <3>2
  <2>2. k \in Nat /\ k + r = n BY <1>2, <1>3
  <2>3. /\ BytesOf(queue, k) \in Nat /\ BytesOf(q, r) \in Nat
        /\ BytesOf(queue, n) = BytesOf(queue, k) + BytesOf(q, r)
    <3>1. \A i \in 1..r : q[i] = queue[k + i] BY <1>3
    <3>2. BytesOf(queue, k + r) = BytesOf(queue, n) BY <2>2
    <3>a. After(queue, k, q, r) BY <2>1, <3>1 DEF After
    <3>3. /\ BytesOf(queue, k) \in Nat /\ BytesOf(q, r) \in Nat
          /\ BytesOf(queue, k + r) = BytesOf(queue, k) + BytesOf(q, r)
      BY <2>2, <3>a, BytesAfter
    <3> QED BY <3>2, <3>3
  <2>4. \A i \in 1..(r + 1) : SizeOf[q[i]] \in Nat
    <3>1. \A i \in 1..Len(q) : SizeOf[q[i]] \in Nat BY <1>1, <1>3, SizesTyped
    <3> QED BY <1>3, <3>1
  <2> PICK one : one = <<e>> OBVIOUS
  <2>5. /\ BytesOf(one, 1) \in Nat
        /\ BytesOf(q, r + 1) = BytesOf(q, r) + BytesOf(one, 1)
    <3>1. \A i \in 1..1 : one[i] = q[r + i]
      <4>1. one[1] = e /\ \A i \in 1..1 : i = 1 OBVIOUS
      <4> QED BY <1>3, <4>1
    <3>2. 1 \in Nat OBVIOUS
    <3>3. After(q, r, one, 1) BY <2>4, <3>1 DEF After
    <3> QED BY <3>2, <3>3, BytesAfter
  <2>6. BytesOf(one, 1) = size
    <3>1. one[1] = e /\ SizeOf[one[1]] \in Nat BY <1>1
    <3> QED BY <3>1, BytesOfOne
  <2>7. BytesOfFirst(k) = BytesOf(queue, k) BY DEF BytesOfFirst, BytesOf
  <2>8. queuedBytes = BytesOf(queue, n) BY DEF Queueing, Line
  <2>9. b = queuedBytes - BytesOf(queue, k) + size BY <2>7
  <2>10. b = BytesOf(q, r) + size /\ b \in Nat
    <3>1. \A x, y, z, w \in Nat : x = y + z => x - y + w = z + w /\ z + w \in Nat OBVIOUS
    <3> PICK x, y, z : x = queuedBytes /\ y = BytesOf(queue, k) /\ z = BytesOf(q, r) OBVIOUS
    <3>2. x \in Nat /\ y \in Nat /\ z \in Nat /\ size \in Nat /\ x = y + z BY <1>1, <2>3, <2>8
    <3>3. x - y + size = z + size /\ z + size \in Nat BY <3>1, <3>2, SMTT(60)
    <3> QED BY <2>9, <3>3
  <2>11. b = BytesOf(q, Len(q)) BY <1>3, <2>5, <2>6, <2>10
  <2>12. k = n => b = size
    <3>1. k = n => r = 0 BY <1>2, <1>3
    <3>2. BytesOf(q, 0) = 0 BY NoBytes
    <3>3. 0 + size = size BY <1>1
    <3> QED BY <2>10, <3>1, <3>2, <3>3
  <2>13. Fits(k, size) => b <= MaxQueueBytes BY <2>7, <2>9 DEF Fits
  <2> QED BY <2>10, <2>11, <2>12, <2>13
<1>8. Len(q) <= MaxQueueItems /\ b <= MaxQueueBytes
  <2>1. MaxQueueItems >= 1 /\ size <= MaxQueueBytes
    BY <1>1, ExporterAssumption DEF TooBig
  <2>2. CASE k = n
    <3>1. r + 1 = 1 BY <1>2, <1>3, <2>2
    <3> QED BY <1>3, <1>7, <2>1, <2>2, <3>1
  <2>3. CASE Fits(k, size)
    <3>1. n - k < MaxQueueItems BY <2>3 DEF Fits
    <3>2. r + 1 <= MaxQueueItems BY <1>2, <1>3, <3>1, ExporterAssumption
    <3> QED BY <1>3, <1>7, <2>3, <3>2
  <2> QED BY <1>2, <2>2, <2>3 DEF Enough
<1>9. r + 1 + k = n + 1 /\ r + 1 # 0 BY <1>2, <1>3
<1> QED BY <1>2, <1>3, <1>6, <1>7, <1>8, <1>9 DEF Line

\* The queue without its head, before and after the head is sent.
LEMMA HeadLeaves ==
  ASSUME NEW m \in Nat, m <= MaxEvents, NEW q \in Seq(1..m), NEW b \in Nat, q # <<>>,
         NEW last \in 0..m, Line(q, b, last)
  PROVE  /\ Head(q) \in 1..m /\ Tail(q) \in Seq(1..m) /\ Len(Tail(q)) + 1 = Len(q)
         /\ Len(Tail(q)) \in Nat
         /\ BytesLeft(b, Head(q)) \in Nat
         /\ Line(Tail(q), BytesLeft(b, Head(q)), last)
         /\ Line(Tail(q), BytesLeft(b, Head(q)), Head(q))
<1> PICK n : n = Len(q) OBVIOUS
<1> PICK t : t = Tail(q) OBVIOUS
<1> PICK h : h = Head(q) OBVIOUS
<1> PICK r : r = n - 1 OBVIOUS
<1>1. n \in Nat /\ n # 0 BY LenProperties, EmptySeq
<1>2. r \in Nat /\ 1 + r = n /\ r + 1 = n /\ 1 \in 1..n BY <1>1
<1>3. h = q[1] /\ t \in Seq(1..m) /\ Len(t) = r
  <2>1. q \in Seq(1..m) /\ q # <<>> OBVIOUS
  <2>2. Head(q) = q[1] /\ Tail(q) \in Seq(1..m) /\ Len(Tail(q)) = Len(q) - 1
    BY <2>1, HeadTailProperties
  <2> QED BY <2>2
<1>4. \A i \in 1..r : t[i] = q[1 + i] /\ 1 + i \in 1..n
  <2>1. q \in Seq(1..m) /\ q # <<>> OBVIOUS
  <2>2. \A i \in 1..Len(Tail(q)) : Tail(q)[i] = q[i + 1] BY <2>1, HeadTailProperties
  <2>3. \A i \in 1..r : i + 1 = 1 + i /\ 1 + i \in 1..n BY <1>2
  <2> QED BY <1>3, <2>2, <2>3
<1>5. h \in 1..m BY <1>1, <1>2, <1>3, ElementOfSeq
<1>6. b - SizeOf[h] \in Nat /\ b - SizeOf[h] = BytesOf(t, r) /\ b - SizeOf[h] <= b
  <2>1. \A i \in 1..(1 + r) : SizeOf[q[i]] \in Nat
    <3>1. \A i \in 1..n : SizeOf[q[i]] \in Nat BY SizesTyped
    <3> QED BY <1>2, <3>1
  <2>2. After(q, 1, t, r) BY <1>4, <2>1 DEF After
  <2>3. 1 \in Nat OBVIOUS
  <2>4. /\ BytesOf(q, 1) \in Nat /\ BytesOf(t, r) \in Nat
        /\ BytesOf(q, 1 + r) = BytesOf(q, 1) + BytesOf(t, r)
    BY <1>2, <2>2, <2>3, BytesAfter
  <2>5. SizeOf[q[1]] \in Nat BY <1>2, <2>1
  <2>6. BytesOf(q, 1) = SizeOf[h] BY <1>3, <2>5, BytesOfOne
  <2>7. b = BytesOf(q, n) BY DEF Line
  <2>8. \A x, y, z \in Nat : x = y + z => x - y = z /\ x - y <= x OBVIOUS
  <2> QED BY <1>2, <2>4, <2>6, <2>7, <2>8
<1>7. Len(t) <= MaxQueueItems /\ b - SizeOf[h] <= MaxQueueBytes
  <2>1. n <= MaxQueueItems /\ b <= MaxQueueBytes BY DEF Line
  <2>2. r <= MaxQueueItems BY <1>2, <2>1, ExporterAssumption
  <2> QED BY <1>3, <1>6, <2>1, <2>2, ExporterAssumption, SMTT(30)
<1>8. \A i, j \in 1..n : last < q[i] /\ (i < j => q[i] < q[j]) BY DEF Line
<1>9. \A i \in 1..r : last < t[i] /\ h < t[i]
  <2>1. \A i \in 1..r : 1 < 1 + i OBVIOUS
  <2> QED BY <1>2, <1>3, <1>4, <1>8, <2>1
<1>10. \A i, j \in 1..r : i < j => t[i] < t[j]
  <2>1. \A i, j \in 1..r : i < j => 1 + i < 1 + j OBVIOUS
  <2> QED BY <1>4, <1>8, <2>1
<1> QED BY <1>2, <1>3, <1>5, <1>6, <1>7, <1>9, <1>10 DEF Line, BytesLeft

\* What the head of the drain loop makes of a queue of m events offered.
Handed(m, n, extra) ==
  /\ queue' \in Seq(1..m) /\ queuedBytes' \in Nat /\ Line(queue, queuedBytes, sending)'
  /\ drain' \in {"idle", "loop", "sending", "throwing"} /\ sending' \in 0..m
  /\ breaker' \in {"closed", "open", "half_open"}
  /\ dropped' \in Nat /\ thrown' \in BOOLEAN /\ (~thrown' => ~thrown)
  /\ drain' = "throwing" => thrown'
  /\ ~thrown' => dropped' + Len(queue') + InFlight' = dropped + extra + n
\* One round of the drain, on a queue that starts with the event under way.
LEMMA Drained ==
  ASSUME NEW m \in Nat, m <= MaxEvents, NEW q \in Seq(1..m), NEW b \in Nat,
         NEW extra \in Nat, NEW n \in Nat, n = Len(q),
         sending \in 0..m, Line(q, b, sending), DrainFrom(q, b, extra),
         drain \in {"idle", "loop"}, dropped \in Nat, thrown \in BOOLEAN,
         breaker \in {"closed", "open", "half_open"}, q = <<>> => extra = 0
  PROVE  Handed(m, n, extra)
<1>1. CASE q = <<>>
  <2>1. /\ drain' = "idle" /\ queue' = q /\ queuedBytes' = b /\ dropped' = dropped
        /\ sending' = sending /\ breaker' = breaker /\ thrown' = thrown
    BY <1>1 DEF DrainFrom
  <2>2. n = 0 /\ Len(queue') = 0 /\ extra = 0 BY <1>1, <2>1
  <2>3. InFlight' = 0 BY <2>1 DEF InFlight
  <2>4. Line(queue', queuedBytes', sending') BY <2>1
  <2> QED BY <2>1, <2>2, <2>3, <2>4 DEF Handed
<1>2. CASE q # <<>>
  <2> PICK h : h = Head(q) OBVIOUS
  <2>1. /\ queue' = Tail(q) /\ queuedBytes' = BytesLeft(b, h) /\ ExportOne(h, extra)
    BY <1>2 DEF DrainFrom
  <2>2. /\ h \in 1..m /\ queue' \in Seq(1..m) /\ Len(queue') + 1 = n /\ Len(queue') \in Nat
        /\ queuedBytes' \in Nat
        /\ Line(queue', queuedBytes', sending) /\ Line(queue', queuedBytes', h)
    BY <1>2, <2>1, HeadLeaves
  <2>3. h \in 0..m BY <2>2
  <2> PICK l : l = Len(queue') OBVIOUS
  <2>4. l \in Nat /\ l + 1 = n BY <2>2
  <2>5. CASE /\ dropped' = dropped + extra + 1 /\ drain' = "loop"
             /\ breaker' = breaker /\ sending' = sending /\ thrown' = thrown
    <3>1. InFlight' = 0 BY <2>5 DEF InFlight
    <3>2. dropped' \in Nat /\ dropped' + l + 0 = dropped + extra + n BY <2>4, <2>5
    <3>3. Line(queue', queuedBytes', sending') BY <2>2, <2>5
    <3> QED BY <2>2, <2>5, <3>1, <3>2, <3>3 DEF Handed
  <2>6. CASE /\ dropped' = dropped + extra /\ drain' = "sending" /\ sending' = h
             /\ breaker' \in {"closed", "open", "half_open"} /\ thrown' = thrown
    <3>1. InFlight' = 1 BY <2>6 DEF InFlight
    <3>2. dropped' \in Nat /\ dropped' + l + 1 = dropped + extra + n BY <2>4, <2>6
    <3>3. Line(queue', queuedBytes', sending') BY <2>2, <2>6
    <3> QED BY <2>2, <2>3, <2>6, <3>1, <3>2, <3>3 DEF Handed
  <2>7. CASE /\ dropped' = dropped + extra /\ drain' = "throwing" /\ sending' = sending
             /\ breaker' = "half_open" /\ thrown' = TRUE
    <3>1. dropped' \in Nat BY <2>7
    <3>2. Line(queue', queuedBytes', sending') BY <2>2, <2>7
    <3> QED BY <2>2, <2>7, <3>1, <3>2 DEF Handed
  <2>8. CASE StillOpen BY <2>1, <2>5, <2>8 DEF ExportOne
  <2>9. CASE ~StillOpen BY <2>1, <2>6, <2>7, <2>9 DEF ExportOne, Transition
  <2> QED BY <2>8, <2>9
<1> QED BY <1>1, <1>2

\* The queue is empty at first and nothing was offered.
LEMMA QueueingInit == ExporterInit => Queueing
<1> SUFFICES ASSUME ExporterInit PROVE Queueing
  OBVIOUS
<1>1. BytesOf(<<>>, 0) = 0 BY NoBytes
<1>2. ExporterTypeOK
  <2>1. offered = 0 /\ queue = <<>> BY DEF ExporterInit
  <2>2. queue \in Seq(1..offered) BY <2>1, EmptySeq
  <2>3. offered \in 0..MaxEvents /\ now \in 0..MaxTime /\ sending \in 0..offered
    BY ExporterAssumption DEF ExporterInit
  <2>4. thrown \in BOOLEAN BY DEF ExporterInit
  <2>5. /\ queuedBytes \in Nat /\ failures \in Nat /\ openedUntil \in Nat
        /\ exported \in Nat /\ dropped \in Nat
    BY DEF ExporterInit
  <2>6. /\ drain \in {"idle", "loop", "sending", "throwing"}
        /\ breaker \in {"closed", "open", "half_open"}
    BY DEF ExporterInit
  <2> QED BY <2>2, <2>3, <2>4, <2>5, <2>6 DEF ExporterTypeOK
<1>3. Line(queue, queuedBytes, sending)
  BY <1>1, ExporterAssumption DEF ExporterInit, Line
<1>4. InFlight = 0 BY DEF ExporterInit, InFlight
<1> QED BY <1>2, <1>3, <1>4 DEF ExporterInit, Queueing, Accounted

\* Before and after k events left a queue of l events and one joined it.
Balance(x, p, l, f, o, e, k, n, d, m, g) ==
  /\ x \in Nat /\ p \in Nat /\ l \in Nat /\ f \in Nat /\ o \in Nat /\ e \in Nat
  /\ k \in Nat /\ n \in Nat /\ d \in Nat /\ m \in Nat /\ g \in Nat
  /\ e = o + 1 /\ n + k = l + 1
  /\ x + p + l + f = o /\ d + m + g = p + k + n + f
\* The parts of the accounting are natural numbers, so they may be reordered.
LEMMA Sums ==
  ASSUME NEW x, NEW p, NEW l, NEW f, NEW o, NEW e, NEW k, NEW n, NEW d, NEW m, NEW g,
         Balance(x, p, l, f, o, e, k, n, d, m, g)
  PROVE  x + d + m + g = e
  BY DEF Balance

\* export() and drop().
LEMMA ExportQueues == ASSUME Queueing, Export PROVE Queueing'
<1> PICK e : e = offered + 1 OBVIOUS
<1> PICK k : k = Evictions(SizeOf[e]) OBVIOUS
<1>q. PICK q : q = Append(SubSeq(queue, k + 1, Len(queue)), e) OBVIOUS
<1> PICK b : b = queuedBytes - BytesOfFirst(k) + SizeOf[e] OBVIOUS
<1> PICK l : l = Len(queue) OBVIOUS
<1>1. /\ offered' = e /\ offered < MaxEvents
      /\ failures' = failures /\ openedUntil' = openedUntil /\ exported' = exported /\ now' = now
  BY DEF Export
<1>2. /\ offered \in 0..MaxEvents /\ e \in 0..MaxEvents /\ e \in Nat /\ e <= MaxEvents /\ l \in Nat
      /\ queue \in Seq(1..offered) /\ queue \in Seq(1..e) /\ sending \in 0..offered /\ sending \in 0..e
      /\ dropped \in Nat /\ exported \in Nat /\ thrown \in BOOLEAN /\ e = offered + 1
  <2>1. ExporterTypeOK BY DEF Queueing
  <2>2. offered \in 0..MaxEvents /\ queue \in Seq(1..offered) /\ sending \in 0..offered
        /\ dropped \in Nat /\ exported \in Nat /\ thrown \in BOOLEAN
    BY <2>1 DEF ExporterTypeOK
  <2>3. MaxEvents \in Nat BY ExporterAssumption
  <2>4. 1..offered \subseteq 1..e BY <2>2, <2>3
  <2>5. queue \in Seq(1..e) BY <2>2, <2>4
  <2>6. e \in 0..MaxEvents /\ e \in Nat /\ e <= MaxEvents /\ sending \in 0..e
    BY <1>1, <2>2, <2>3
  <2>7. l \in Nat BY <2>2, LenProperties
  <2> QED BY <2>2, <2>5, <2>6, <2>7
<1>N. /\ e \in Nat /\ offered \in Nat /\ l \in Nat /\ dropped \in Nat /\ exported \in Nat
      /\ e = offered + 1
  <2>1. MaxEvents \in Nat BY ExporterAssumption
  <2> QED BY <1>2, <2>1
<1>3. CASE TooBig(SizeOf[e])
  <2>1. /\ dropped' = dropped + 1
        /\ UNCHANGED <<queue, queuedBytes, drain, sending, breaker, thrown>>
    BY <1>1, <1>3 DEF Export
  <2>2. ExporterTypeOK'
    BY <1>1, <1>2, <2>1 DEF ExporterTypeOK, Queueing
  <2>3. Line(queue', queuedBytes', sending') BY <2>1 DEF Queueing
  <2>4. Accounted'
    <3>1. InFlight \in Nat /\ InFlight' = InFlight /\ Len(queue') = l BY <2>1 DEF InFlight
    <3>2. ASSUME NEW f \in Nat, exported + dropped + l + f = offered
          PROVE  exported + (dropped + 1) + l + f = e
      BY <1>N, <3>2
    <3>3. ~thrown => exported + dropped + l + InFlight = offered BY DEF Queueing, Accounted
    <3>4. ~thrown => exported' + dropped' + Len(queue') + InFlight' = offered'
      BY <1>1, <2>1, <3>1, <3>2, <3>3
    <3> QED BY <2>1, <3>4 DEF Accounted
  <2> QED BY <2>1, <2>2, <2>3, <2>4 DEF Queueing
<1>4. CASE ~TooBig(SizeOf[e])
  <2>1. /\ k \in 0..l /\ q \in Seq(1..e) /\ Len(q) # 0 /\ Len(q) + k = l + 1
        /\ b \in Nat /\ Line(q, b, sending)
    BY <1>1, <1>4, <1>q, Queued
  <2> PICK n : n = Len(q) OBVIOUS
  <2>2. n \in Nat /\ n + k = l + 1 /\ k \in Nat
    <3>1. n \in Nat BY <2>1, LenProperties
    <3>2. k \in Nat BY <1>N, <2>1
    <3>3. n + k = l + 1 BY <2>1
    <3> QED BY <3>1, <3>2, <3>3
  <2>3. q # <<>> BY <2>1
  <2>5. ~thrown => exported + dropped + l + InFlight = offered BY DEF Queueing, Accounted
  <2>6. CASE Draining
    <3>1. /\ queue' = q /\ queuedBytes' = b /\ dropped' = dropped + k
          /\ UNCHANGED <<drain, sending, breaker, thrown>>
      BY <1>1, <1>4, <1>q, <2>6 DEF Export, Counted
    <3>2. dropped' \in Nat
      <4>1. dropped + k \in Nat BY <1>N, <2>2
      <4> QED BY <3>1, <4>1
    <3>3. ExporterTypeOK'
      BY <1>1, <1>2, <2>1, <3>1, <3>2 DEF ExporterTypeOK, Queueing
    <3>4. Line(queue', queuedBytes', sending') BY <2>1, <3>1
    <3>5. Accounted'
      <4>1. InFlight \in Nat /\ InFlight' = InFlight BY <3>1 DEF InFlight
      <4>2. dropped' + n + InFlight = dropped + k + n + InFlight BY <3>1
      <4>a. InFlight \in Nat /\ n \in Nat /\ dropped' \in Nat BY <2>2, <3>2, <4>1
      <4>3. ASSUME ~thrown PROVE exported + dropped' + n + InFlight = e
        <5>1. exported + dropped + l + InFlight = offered BY <2>5, <4>3
        <5>2. Balance(exported, dropped, l, InFlight, offered, e, k, n, dropped', n, InFlight)
          BY <1>N, <2>2, <4>a, <4>2, <5>1, Zenon DEF Balance
        <5> QED BY <5>2, Sums
      <4> QED BY <1>1, <3>1, <4>1, <4>3 DEF Accounted
    <3> QED BY <3>1, <3>3, <3>4, <3>5 DEF Queueing
  <2>7. CASE ~Draining
    <3>1. DrainFrom(q, b, k) BY <1>1, <1>4, <1>q, <2>7 DEF Export, Counted
    <3>2. Handed(e, n, k)
      <4>1. breaker \in {"closed", "open", "half_open"} /\ drain \in {"idle", "loop"}
        BY <2>7 DEF Queueing, ExporterTypeOK, Draining
      <4> QED BY <1>2, <2>1, <2>2, <2>3, <3>1, <4>1, Drained
    <3> USE DEF Handed
    <3>3. ExporterTypeOK'
      BY <1>1, <1>2, <3>2 DEF ExporterTypeOK, Queueing
    <3>4. Accounted'
      <4>1. InFlight = 0 BY <2>7 DEF InFlight, Draining
      <4>2. InFlight' \in Nat /\ Len(queue') \in Nat BY <3>2, LenProperties DEF InFlight
      <4>a. ~thrown' => dropped' + Len(queue') + InFlight' = dropped + k + n BY <3>2
      <4>b. dropped + k + n = dropped + k + n + 0 BY <1>N, <2>2
      <4>c. dropped' \in Nat BY <3>2
      <4>3. ~thrown' => dropped' + Len(queue') + InFlight' = dropped + k + n + 0
        BY <4>a, <4>b
      <4>4. ~thrown' => exported + dropped' + Len(queue') + InFlight' = e
        <5>1. ~thrown' => ~thrown BY <3>2
        <5>2. ~thrown => exported + dropped + l + 0 = offered BY <2>5, <4>1
        <5>3. 0 \in Nat OBVIOUS
        <5>4. SUFFICES ASSUME ~thrown' PROVE exported + dropped' + Len(queue') + InFlight' = e
          OBVIOUS
        <5>5. exported + dropped + l + 0 = offered BY <5>1, <5>2, <5>4
        <5>6. dropped' + Len(queue') + InFlight' = dropped + k + n + 0 BY <4>3, <5>4
        <5>7. Balance(exported, dropped, l, 0, offered, e, k, n, dropped', Len(queue'), InFlight')
          BY <1>N, <2>2, <4>2, <4>c, <5>3, <5>5, <5>6, Zenon DEF Balance
        <5> QED BY <5>7, Sums
      <4> QED BY <1>1, <4>4 DEF Accounted
    <3> QED BY <3>2, <3>3, <3>4 DEF Queueing
  <2> QED BY <2>6, <2>7
<1> QED BY <1>3, <1>4

\* A drop counts the event once and leaves the queue alone.
LEMMA DropQueues == ASSUME Queueing, Drop PROVE Queueing'
<1> PICK e : e = offered + 1 OBVIOUS
<1> PICK l : l = Len(queue) OBVIOUS
<1>1. /\ offered' = e /\ offered < MaxEvents /\ dropped' = dropped + 1
      /\ UNCHANGED <<queue, queuedBytes, drain, sending, breaker, failures, openedUntil,
                     exported, now, thrown>>
  BY DEF Drop, circuit
<1>2. /\ offered \in Nat /\ e \in 0..MaxEvents /\ queue \in Seq(1..e) /\ sending \in 0..e
      /\ l \in Nat /\ dropped \in Nat /\ exported \in Nat
  <2>1. ExporterTypeOK BY DEF Queueing
  <2>2. offered \in 0..MaxEvents /\ queue \in Seq(1..offered) /\ sending \in 0..offered
        /\ dropped \in Nat /\ exported \in Nat
    BY <2>1 DEF ExporterTypeOK
  <2>3. MaxEvents \in Nat BY ExporterAssumption
  <2>4. 1..offered \subseteq 1..e /\ e \in 0..MaxEvents /\ sending \in 0..e BY <1>1, <2>2, <2>3
  <2>5. l \in Nat BY <2>2, LenProperties
  <2> QED BY <2>2, <2>4, <2>5
<1>3. ExporterTypeOK' BY <1>1, <1>2 DEF ExporterTypeOK, Queueing
<1>4. Line(queue', queuedBytes', sending') BY <1>1 DEF Queueing
<1>5. InFlight \in Nat /\ InFlight' = InFlight BY <1>1 DEF InFlight
<1>6. ASSUME NEW f \in Nat, exported + dropped + l + f = offered
      PROVE  exported + (dropped + 1) + l + f = e
  BY <1>2, <1>6
<1>7. ~thrown => exported + dropped + l + InFlight = offered BY DEF Queueing, Accounted
<1>8. ~thrown => exported + (dropped + 1) + l + InFlight = e BY <1>5, <1>6, <1>7
<1>9. Accounted' BY <1>1, <1>5, <1>8 DEF Accounted
<1> QED BY <1>1, <1>3, <1>4, <1>9 DEF Queueing

\* The drain loop, and what the exporter does with the event in its hands.
LEMMA LoopQueues == ASSUME Queueing, DrainGoesOn PROVE Queueing'
<1> PICK l : l = Len(queue) OBVIOUS
<1>1. /\ drain = "loop" /\ DrainFrom(queue, queuedBytes, 0)
      /\ UNCHANGED <<offered, failures, openedUntil, exported, now>>
  BY DEF DrainGoesOn
<1>2. /\ offered \in Nat /\ offered <= MaxEvents /\ queue \in Seq(1..offered) /\ l \in Nat
      /\ sending \in 0..offered /\ dropped \in Nat /\ exported \in Nat
  <2>1. offered \in 0..MaxEvents /\ queue \in Seq(1..offered) /\ sending \in 0..offered
        /\ dropped \in Nat /\ exported \in Nat
    BY DEF Queueing, ExporterTypeOK
  <2>2. l \in Nat BY <2>1, LenProperties
  <2> QED BY <2>1, <2>2, ExporterAssumption
<1>3. Handed(offered, l, 0)
  <2>1. /\ breaker \in {"closed", "open", "half_open"} /\ queuedBytes \in Nat
        /\ Line(queue, queuedBytes, sending) /\ thrown \in BOOLEAN
    BY DEF Queueing, ExporterTypeOK
  <2>2. 0 \in Nat OBVIOUS
  <2> QED BY <1>1, <1>2, <2>1, <2>2, Drained
<1> USE DEF Handed
<1>4. ExporterTypeOK' BY <1>1, <1>2, <1>3 DEF ExporterTypeOK, Queueing
<1>5. Accounted'
  <2>1. InFlight = 0 BY <1>1 DEF InFlight
  <2>2. InFlight' \in Nat /\ Len(queue') \in Nat BY <1>3, LenProperties DEF InFlight
  <2>3. ~thrown => exported + dropped + l + 0 = offered BY <2>1 DEF Queueing, Accounted
  <2>4. ASSUME NEW d \in Nat, NEW m \in Nat, NEW g \in Nat, d + m + g = dropped + 0 + l,
               exported + dropped + l + 0 = offered
        PROVE  exported + d + m + g = offered
    BY <1>2, <2>4
  <2>5. ~thrown' => exported + dropped' + Len(queue') + InFlight' = offered
    BY <1>3, <2>2, <2>3, <2>4
  <2> QED BY <1>1, <2>5 DEF Accounted
<1> QED BY <1>3, <1>4, <1>5 DEF Queueing

\* A failed export counts its event as dropped, and opens the breaker or not.
LEMMA CaughtQueues ==
  ASSUME Queueing, drain = "sending", NEW from \in {"closed", "open", "half_open"},
         NEW n \in Nat, Caught(from, n), UNCHANGED <<offered, queue, queuedBytes, sending, now>>,
         exported' \in Nat, thrown' \in BOOLEAN, exported' = exported \/ thrown'
  PROVE  Queueing'
<1> PICK l : l = Len(queue) OBVIOUS
<1>1. /\ dropped' = dropped + 1 /\ failures' = n
      /\ breaker' \in {"closed", "open", "half_open"} /\ drain' \in {"loop", "throwing"}
      /\ drain' = "throwing" => thrown'
      /\ (drain' = "loop" /\ thrown' = thrown) \/ thrown'
      /\ openedUntil' = openedUntil \/ openedUntil' = now + OpenFor
  <2>1. CASE MustOpen(from, n)
    <3>1. (drain' = "loop" /\ thrown' = thrown) \/ (drain' = "throwing" /\ thrown' = TRUE)
      BY <2>1 DEF Caught, Transition
    <3> QED BY <2>1, <3>1 DEF Caught, Transition
  <2>2. CASE ~MustOpen(from, n) BY <2>2 DEF Caught
  <2> QED BY <2>1, <2>2
<1>2. /\ offered \in Nat /\ l \in Nat /\ dropped \in Nat /\ exported \in Nat /\ openedUntil' \in Nat
  <2>1. offered \in 0..MaxEvents /\ queue \in Seq(1..offered) /\ openedUntil \in Nat
        /\ dropped \in Nat /\ exported \in Nat /\ now \in 0..MaxTime
    BY DEF Queueing, ExporterTypeOK
  <2>2. l \in Nat BY <2>1, LenProperties
  <2>3. now + OpenFor \in Nat BY <2>1, ExporterAssumption
  <2> QED BY <1>1, <2>1, <2>2, <2>3, ExporterAssumption
<1>3. ExporterTypeOK' BY <1>1, <1>2 DEF ExporterTypeOK, Queueing
<1>4. Line(queue', queuedBytes', sending') BY DEF Queueing
<1>5. Accounted'
  <2>1. InFlight = 1 /\ InFlight' = 0 BY <1>1 DEF InFlight
  <2>2. ~thrown => exported + dropped + l + 1 = offered BY <2>1 DEF Queueing, Accounted
  <2>3. exported + dropped + l + 1 = offered => exported + (dropped + 1) + l + 0 = offered BY <1>2
  <2>4. ~thrown' => ~thrown /\ exported' = exported BY <1>1
  <2> QED BY <1>1, <2>1, <2>2, <2>3, <2>4 DEF Accounted
<1> QED BY <1>1, <1>3, <1>4, <1>5 DEF Queueing

\* However the exporter settles, the accounting stays right.
LEMMA SettledQueues == ASSUME Queueing, ExporterFails \/ ExporterSucceeds PROVE Queueing'
<1>1. /\ breaker \in {"closed", "open", "half_open"} /\ failures \in Nat /\ exported \in Nat
      /\ thrown \in BOOLEAN
  BY DEF Queueing, ExporterTypeOK
<1>2. CASE ExporterFails
  <2>1. thrown' \in BOOLEAN
    <3>1. thrown' = thrown \/ thrown' = TRUE BY <1>2 DEF ExporterFails, Caught, Transition
    <3> QED BY <1>1, <3>1
  <2>2. failures + 1 \in Nat BY <1>1
  <2> QED BY <1>1, <1>2, <2>1, <2>2, CaughtQueues DEF ExporterFails
<1>3. CASE /\ drain = "sending" /\ exported' = exported + 1
           /\ failures' = 0 /\ breaker' = "closed" /\ drain' = "loop"
           /\ UNCHANGED <<dropped, openedUntil, thrown, offered, queue, queuedBytes, sending, now>>
  <2> PICK l : l = Len(queue) OBVIOUS
  <2>1. offered \in Nat /\ l \in Nat /\ dropped \in Nat
    <3>1. offered \in 0..MaxEvents /\ queue \in Seq(1..offered) /\ dropped \in Nat
      BY DEF Queueing, ExporterTypeOK
    <3> QED BY <3>1, LenProperties, ExporterAssumption
  <2>2. ExporterTypeOK' BY <1>1, <1>3 DEF ExporterTypeOK, Queueing
  <2>3. Line(queue', queuedBytes', sending') BY <1>3 DEF Queueing
  <2>4. Accounted'
    <3>1. InFlight = 1 /\ InFlight' = 0 BY <1>3 DEF InFlight
    <3>2. ~thrown => exported + dropped + l + 1 = offered BY <3>1 DEF Queueing, Accounted
    <3>3. exported + dropped + l + 1 = offered => (exported + 1) + dropped + l + 0 = offered
      BY <1>1, <2>1
    <3> QED BY <1>3, <3>1, <3>2, <3>3 DEF Accounted
  <2> QED BY <1>3, <2>2, <2>3, <2>4 DEF Queueing
<1>4. CASE /\ drain = "sending" /\ exported' = exported + 1 /\ Caught("closed", 1)
           /\ thrown' = TRUE /\ UNCHANGED <<offered, queue, queuedBytes, sending, now>>
  <2>1. 1 \in Nat /\ exported' \in Nat BY <1>1, <1>4
  <2> QED BY <1>4, <2>1, CaughtQueues
<1> QED BY <1>2, <1>3, <1>4 DEF ExporterSucceeds

\* Every step of the queue keeps the invariant.
LEMMA ExporterQueues ==
  ASSUME Queueing, ExporterNext \/ UNCHANGED exporterVars
  PROVE  Queueing'
<1>1. CASE DrainThrows
  <2>1. /\ drain = "throwing" /\ drain' = "idle"
        /\ UNCHANGED <<offered, queue, queuedBytes, sending, breaker, failures, openedUntil,
                       exported, dropped, now, thrown>>
    BY <1>1 DEF DrainThrows, circuit, counts
  <2>2. ExporterTypeOK' BY <2>1 DEF ExporterTypeOK, Queueing
  <2>3. Line(queue', queuedBytes', sending') BY <2>1 DEF Queueing
  <2>4. Accounted' BY <2>1 DEF Accounted, InFlight, Queueing
  <2> QED BY <2>1, <2>2, <2>3, <2>4 DEF Queueing
<1>2. CASE Tick
  <2>1. /\ now < MaxTime /\ now' = now + 1
        /\ UNCHANGED <<offered, queue, queuedBytes, drain, sending, breaker, failures, openedUntil,
                       exported, dropped, thrown>>
    BY <1>2 DEF Tick, circuit, counts
  <2>2. now' \in 0..MaxTime
    <3>1. now \in 0..MaxTime BY DEF Queueing, ExporterTypeOK
    <3> QED BY <2>1, <3>1, ExporterAssumption
  <2>3. ExporterTypeOK' BY <2>1, <2>2 DEF ExporterTypeOK, Queueing
  <2>4. Line(queue', queuedBytes', sending') BY <2>1 DEF Queueing
  <2>5. Accounted' BY <2>1 DEF Accounted, InFlight, Queueing
  <2> QED BY <2>1, <2>3, <2>4, <2>5 DEF Queueing
<1>3. CASE UNCHANGED exporterVars
  <2>1. UNCHANGED <<offered, queue, queuedBytes, drain, sending, breaker, failures, openedUntil,
                    exported, dropped, now, thrown>>
    BY <1>3 DEF exporterVars, circuit, counts
  <2>2. ExporterTypeOK' BY <2>1 DEF ExporterTypeOK, Queueing
  <2>3. Line(queue', queuedBytes', sending') BY <2>1 DEF Queueing
  <2>4. Accounted' BY <2>1 DEF Accounted, InFlight, Queueing
  <2> QED BY <2>1, <2>2, <2>3, <2>4 DEF Queueing
<1> QED
  BY <1>1, <1>2, <1>3, ExportQueues, DropQueues, LoopQueues, SettledQueues
  DEF ExporterNext, ExporterStep

\* The queue keeps its limits and its byte count, hands events on in order, and while
\* callbacks return counts every event once (observability/index.ts), beside any buses.
THEOREM QueueIsTrue == TelemetryInit /\ [][TelemetryNext]_allVars => []QueueTruth
<1>1. TelemetryInit => Queueing BY QueueingInit DEF TelemetryInit
<1>2. Queueing /\ [TelemetryNext]_allVars => Queueing'
  <2> SUFFICES ASSUME Queueing, [TelemetryNext]_allVars PROVE Queueing'
    OBVIOUS
  <2>1. CASE \E b \in Buses, isClosed \in BOOLEAN : Emit(b, isClosed)
    <3>1. Export \/ Drop \/ UNCHANGED exporterVars
      BY <2>1 DEF Emit, EmitOver, Handle
    <3> QED BY <3>1, ExporterQueues DEF ExporterNext
  <2>2. CASE Unsubscribe BY <2>2, ExporterQueues DEF Unsubscribe
  <2>3. CASE ExporterStep /\ UNCHANGED busVars BY <2>3, ExporterQueues DEF ExporterNext
  <2>4. CASE UNCHANGED allVars BY <2>4, ExporterQueues DEF allVars
  <2> QED BY <2>1, <2>2, <2>3, <2>4 DEF TelemetryNext
<1>3. Queueing => QueueTruth BY QueueingIsTrue
<1> QED BY <1>1, <1>2, <1>3, PTL

(***************************************************************************)
(* Embedding.  What a chunk has left, its vectors and its errors are disjoint *)
(* parts of the whole chunk, at every step of the bisection.                *)
(***************************************************************************)
\* A chunk: what is left to embed, what has a vector and what has an error are the
\* whole chunk, and no item is in two of them.
Items(todo) == UNION {todo[k] : k \in DOMAIN todo}
Apart(todo) == \A k, l \in DOMAIN todo : k # l => todo[k] \cap todo[l] = {}
Partitioned(chunk, c) ==
  /\ chunk.todo \in Seq(SUBSET Whole(c)) /\ Apart(chunk.todo)
  /\ chunk.results \cap chunk.errors = {}
  /\ Items(chunk.todo) \cap (chunk.results \cup chunk.errors) = {}
  /\ chunk.results \cup chunk.errors \cup Items(chunk.todo) = Whole(c)

FirstItems == {Min(Whole(c)) : c \in Chunks}
ChunkRecords ==
  [todo : Seq(SUBSET Nat), results : SUBSET Nat, errors : SUBSET (Nat \cup FirstItems), attempt : Nat,
   stage : {"queued", "running", "done", "failed"}]

\* A chunk that failed as a whole has one error, and only where errors are collected.
ChunkSound(c) ==
  LET chunk == embChunk[c]
  IN /\ chunk.stage # "failed" => Partitioned(chunk, c)
     /\ chunk.stage \in {"queued", "running"} => chunk.todo # <<>>
     /\ chunk.stage = "done" => chunk.todo = <<>>
     /\ chunk.stage = "failed" => /\ embMode # "fail" /\ chunk.results = {} /\ chunk.errors = {Min(Whole(c))}

Embedded ==
  /\ embChunk \in [Chunks -> ChunkRecords] /\ embMode \in {"fail", "continue"}
  /\ \A c \in Chunks : ChunkSound(c)
  /\ embOutcome = "returned" => \A c \in Chunks :
       /\ embChunk[c].stage \in {"done", "failed"}
       /\ embMode = "fail" => embChunk[c].errors = {}
----------------------------------------------------------------------------
\* The items of a chunk are numbers, and so is any part of them.
LEMMA WholeNat == \A c \in Chunks : Whole(c) \subseteq Nat
<1> SUFFICES ASSUME NEW c \in Chunks PROVE Whole(c) \subseteq Nat OBVIOUS
<1>1. c \in Nat /\ EmbBatch \in Nat /\ EmbItems \in Nat /\ c >= 1
  BY EmbeddingAssumption DEF Chunks
<1>2. (c - 1) * EmbBatch + 1 \in Nat
  <2>1. c - 1 \in Nat BY <1>1
  <2> DEFINE d == c - 1
  <2>2. d * EmbBatch \in Nat BY <1>1, <2>1
  <2> QED BY <2>2
<1> DEFINE low == (c - 1) * EmbBatch + 1
           high == IF c * EmbBatch < EmbItems THEN c * EmbBatch ELSE EmbItems
<1>3. Whole(c) = low..high BY DEF Whole
<1>4. low \in Nat BY <1>2
<1> HIDE DEF low, high
<1> QED BY <1>3, <1>4

\* One chunk on its own.
LEMMA FreshPartitioned ==
  ASSUME NEW c \in Chunks, NEW attempt \in Nat, NEW stage \in {"queued", "running", "failed"}
  PROVE  /\ FreshChunk(c, attempt, stage) \in ChunkRecords
         /\ Partitioned(FreshChunk(c, attempt, stage), c)
         /\ FreshChunk(c, attempt, stage).todo # <<>> /\ FreshChunk(c, attempt, stage).stage = stage
<1> DEFINE chunk == FreshChunk(c, attempt, stage)
<1>1. chunk.todo = <<Whole(c)>> /\ chunk.results = {} /\ chunk.errors = {} /\ chunk.stage = stage
  BY DEF FreshChunk
<1>2. <<Whole(c)>> \in Seq(SUBSET Whole(c)) /\ <<Whole(c)>> # <<>> /\ <<Whole(c)>> \in Seq(SUBSET Nat)
  BY WholeNat
<1>3. DOMAIN <<Whole(c)>> = {1} /\ <<Whole(c)>>[1] = Whole(c) OBVIOUS
<1>4. Items(<<Whole(c)>>) = Whole(c) /\ Apart(<<Whole(c)>>) BY <1>3 DEF Items, Apart
<1>5. chunk \in ChunkRecords BY <1>2 DEF FreshChunk, ChunkRecords
<1> HIDE DEF chunk
<1>6. Partitioned(chunk, c) BY <1>1, <1>2, <1>4, SMTT(30) DEF Partitioned
<1> QED BY <1>1, <1>2, <1>5, <1>6 DEF chunk

\* The items of a list, taken apart at its head, and put together again.
LEMMA ItemsOfTail ==
  ASSUME NEW S, NEW todo \in Seq(SUBSET S), todo # <<>>, Apart(todo)
  PROVE  /\ Head(todo) \in SUBSET S /\ Tail(todo) \in Seq(SUBSET S) /\ Apart(Tail(todo))
         /\ Items(todo) = Head(todo) \cup Items(Tail(todo))
         /\ Head(todo) \cap Items(Tail(todo)) = {}
<1>1. /\ Head(todo) \in SUBSET S /\ Tail(todo) \in Seq(SUBSET S) /\ Len(todo) \in Nat /\ Len(todo) >= 1
      /\ Len(Tail(todo)) = Len(todo) - 1 /\ \A k \in 1..Len(Tail(todo)) : Tail(todo)[k] = todo[k + 1]
      /\ Head(todo) = todo[1] /\ DOMAIN todo = 1..Len(todo) /\ DOMAIN Tail(todo) = 1..(Len(todo) - 1)
  BY HeadTailProperties, LenProperties
<1> DEFINE n == Len(todo)
           rest == Tail(todo)
<1>2. n \in Nat /\ n >= 1 /\ DOMAIN todo = 1..n /\ DOMAIN rest = 1..(n - 1)
      /\ (\A k \in 1..(n - 1) : rest[k] = todo[k + 1]) /\ Head(todo) = todo[1]
  BY <1>1
<1> HIDE DEF n, rest
<1>3. Apart(rest)
  <2> SUFFICES ASSUME NEW k \in DOMAIN rest, NEW l \in DOMAIN rest, k # l PROVE rest[k] \cap rest[l] = {}
    BY DEF Apart
  <2>1. k + 1 \in 1..n /\ l + 1 \in 1..n /\ k + 1 # l + 1 BY <1>2
  <2>2. todo[k + 1] \cap todo[l + 1] = {} BY <1>2, <2>1 DEF Apart
  <2> QED BY <1>2, <2>2
<1>4. todo[1] \cap Items(rest) = {}
  <2> SUFFICES ASSUME NEW k \in DOMAIN rest PROVE todo[1] \cap rest[k] = {}
    BY DEF Items
  <2>1. k + 1 \in 1..n /\ 1 \in 1..n /\ k + 1 # 1 BY <1>2
  <2>2. todo[1] \cap todo[k + 1] = {} BY <1>2, <2>1 DEF Apart
  <2> QED BY <1>2, <2>2
<1>5. Items(todo) \subseteq todo[1] \cup Items(rest)
  <2> SUFFICES ASSUME NEW k \in DOMAIN todo PROVE todo[k] \subseteq todo[1] \cup Items(rest)
    BY DEF Items
  <2>1. k = 1 \/ (k - 1 \in 1..(n - 1) /\ (k - 1) + 1 = k) BY <1>2
  <2>2. k # 1 => k - 1 \in DOMAIN rest /\ rest[k - 1] = todo[k] BY <1>2, <2>1
  <2> QED BY <2>2 DEF Items
<1>6. todo[1] \cup Items(rest) \subseteq Items(todo)
  <2>1. 1 \in DOMAIN todo BY <1>2
  <2>2. todo[1] \subseteq Items(todo) BY <2>1 DEF Items
  <2>3. ASSUME NEW k \in DOMAIN rest PROVE rest[k] \subseteq Items(todo)
    <3>1. k + 1 \in DOMAIN todo /\ rest[k] = todo[k + 1] BY <1>2
    <3> QED BY <3>1 DEF Items
  <2>4. Items(rest) \subseteq Items(todo) BY <2>3 DEF Items
  <2> QED BY <2>2, <2>4
<1> QED BY <1>1, <1>2, <1>3, <1>4, <1>5, <1>6 DEF rest

\* A batch that is split: its halves, before the rest.
Splits(S, a, b, rest) ==
  /\ a \in SUBSET S /\ b \in SUBSET S /\ rest \in Seq(SUBSET S) /\ Apart(rest)
  /\ a \cap b = {} /\ (a \cup b) \cap Items(rest) = {}
Longer(a, b, rest) == <<a, b>> \o rest
\* Splitting a range into halves neither loses nor repeats an item.
LEMMA ItemsOfHalves ==
  ASSUME NEW S, NEW a, NEW b, NEW rest, Splits(S, a, b, rest)
  PROVE  /\ Longer(a, b, rest) \in Seq(SUBSET S) /\ Apart(Longer(a, b, rest))
         /\ Items(Longer(a, b, rest)) = a \cup b \cup Items(rest)
<1>0. /\ a \in SUBSET S /\ b \in SUBSET S /\ rest \in Seq(SUBSET S) /\ Apart(rest)
      /\ a \cap b = {} /\ (a \cup b) \cap Items(rest) = {}
  BY DEF Splits
<1> DEFINE todo == <<a, b>> \o rest
           n == Len(rest)
<1>1. <<a, b>> \in Seq(SUBSET S) /\ Len(<<a, b>>) = 2 /\ <<a, b>>[1] = a /\ <<a, b>>[2] = b BY <1>0
<1>2. /\ todo \in Seq(SUBSET S) /\ Len(todo) = 2 + Len(rest)
      /\ \A i \in 1..(2 + Len(rest)) : todo[i] = IF i <= 2 THEN <<a, b>>[i] ELSE rest[i - 2]
  BY <1>0, <1>1, ConcatProperties
<1>3. /\ n \in Nat /\ DOMAIN rest = 1..n /\ DOMAIN todo = 1..(2 + n) /\ todo # <<>>
      /\ todo[1] = a /\ todo[2] = b
  BY <1>0, <1>1, <1>2, LenProperties
<1>4. \A i \in 1..n : i + 2 \in 1..(2 + n) /\ todo[i + 2] = rest[i]
  <2> TAKE i \in 1..n
  <2>1. i + 2 \in 1..(2 + n) /\ ~(i + 2 <= 2) /\ (i + 2) - 2 = i BY <1>0, <1>3
  <2> QED BY <1>0, <1>2, <2>1
<1>5. \A i \in DOMAIN todo : i = 1 \/ i = 2 \/ (i - 2 \in 1..n /\ todo[i] = rest[i - 2])
  <2> TAKE i \in DOMAIN todo
  <2>1. i = 1 \/ i = 2 \/ (i - 2 \in 1..n /\ ~(i <= 2)) BY <1>0, <1>3
  <2> QED BY <1>0, <1>2, <1>3, <2>1
<1>6. todo \in Seq(SUBSET S) BY <1>0, <1>2
<1> HIDE DEF todo, n
<1>7. \A i \in 1..n : rest[i] \subseteq Items(rest) BY <1>0, <1>3 DEF Items
<1>8. Apart(todo)
  <2> SUFFICES ASSUME NEW k \in DOMAIN todo, NEW l \in DOMAIN todo, k # l PROVE todo[k] \cap todo[l] = {}
    BY DEF Apart
  <2>1. CASE k \in {1, 2} /\ l \in {1, 2} BY <1>0, <1>3, <2>1
  <2>2. CASE k \in {1, 2} /\ l \notin {1, 2}
    <3>1. todo[k] \subseteq a \cup b /\ todo[l] \subseteq Items(rest) BY <1>0, <1>3, <1>5, <1>7, <2>2
    <3> QED BY <1>0, <3>1
  <2>3. CASE k \notin {1, 2} /\ l \in {1, 2}
    <3>1. todo[l] \subseteq a \cup b /\ todo[k] \subseteq Items(rest) BY <1>0, <1>3, <1>5, <1>7, <2>3
    <3> QED BY <1>0, <3>1
  <2>4. CASE k \notin {1, 2} /\ l \notin {1, 2}
    <3>1. k - 2 \in 1..n /\ l - 2 \in 1..n /\ todo[k] = rest[k - 2] /\ todo[l] = rest[l - 2] BY <1>0, <1>5, <2>4
    <3>2. k - 2 # l - 2 BY <1>0, <1>3, <2>4
    <3> QED BY <1>0, <1>3, <3>1, <3>2 DEF Apart
  <2> QED BY <1>0, <2>1, <2>2, <2>3, <2>4
<1>9. Items(todo) \subseteq a \cup b \cup Items(rest)
  <2> SUFFICES ASSUME NEW k \in DOMAIN todo PROVE todo[k] \subseteq a \cup b \cup Items(rest)
    BY DEF Items
  <2> QED BY <1>0, <1>3, <1>5, <1>7
<1>10. a \cup b \cup Items(rest) \subseteq Items(todo)
  <2>1. 1 \in DOMAIN todo /\ 2 \in DOMAIN todo BY <1>0, <1>3
  <2>2. a \subseteq Items(todo) /\ b \subseteq Items(todo) BY <1>0, <1>3, <2>1 DEF Items
  <2>3. ASSUME NEW k \in DOMAIN rest PROVE rest[k] \subseteq Items(todo)
    <3>1. k + 2 \in DOMAIN todo /\ rest[k] = todo[k + 2] BY <1>0, <1>3, <1>4
    <3> QED BY <1>0, <3>1 DEF Items
  <2>4. Items(rest) \subseteq Items(todo) BY <1>0, <2>3 DEF Items
  <2> QED BY <1>0, <2>2, <2>4
<1> QED BY <1>0, <1>3, <1>6, <1>8, <1>9, <1>10 DEF todo, Longer

\* A worker goes on with a chunk, its batch done or split.
GoesOn(c, chunk, todo, results, errors) ==
  /\ todo \in Seq(SUBSET Whole(c)) /\ Apart(todo)
  /\ results \in SUBSET Whole(c) /\ errors \in SUBSET Whole(c) /\ results \cap errors = {}
  /\ Items(todo) \cap (results \cup errors) = {}
  /\ Items(todo) \cup results \cup errors = Items(chunk.todo)
\* Going on to the next range of a chunk keeps its items apart and complete.
LEMMA AdvanceSound ==
  ASSUME NEW c \in Chunks, NEW chunk, NEW todo, NEW results, NEW errors,
         chunk \in ChunkRecords, Partitioned(chunk, c), GoesOn(c, chunk, todo, results, errors)
  PROVE  /\ Advance(chunk, todo, results, errors) \in ChunkRecords
         /\ Partitioned(Advance(chunk, todo, results, errors), c)
         /\ Advance(chunk, todo, results, errors).stage = IF todo = <<>> THEN "done" ELSE "running"
         /\ Advance(chunk, todo, results, errors).todo = todo
<1>0. /\ todo \in Seq(SUBSET Whole(c)) /\ Apart(todo)
      /\ results \in SUBSET Whole(c) /\ errors \in SUBSET Whole(c) /\ results \cap errors = {}
      /\ Items(todo) \cap (results \cup errors) = {}
      /\ Items(todo) \cup results \cup errors = Items(chunk.todo)
  BY DEF GoesOn
<1> DEFINE next == Advance(chunk, todo, results, errors)
<1>1. /\ next.todo = todo /\ next.results = chunk.results \cup results
      /\ next.errors = chunk.errors \cup errors
      /\ next.stage = IF todo = <<>> THEN "done" ELSE "running"
  BY DEF Advance, ChunkRecords
<1>2. Whole(c) \subseteq Nat BY WholeNat
<1>3. todo \in Seq(SUBSET Nat) BY <1>0, <1>2
<1>4. next \in ChunkRecords BY <1>0, <1>2, <1>3 DEF Advance, ChunkRecords
<1> HIDE DEF next
<1>5. Partitioned(next, c)
  <2>1. /\ chunk.results \cap chunk.errors = {}
        /\ Items(chunk.todo) \cap (chunk.results \cup chunk.errors) = {}
        /\ chunk.results \cup chunk.errors \cup Items(chunk.todo) = Whole(c)
    BY DEF Partitioned
  <2>2. next.results \cap next.errors = {} BY <1>0, <1>1, <2>1
  <2>3. Items(todo) \cap (next.results \cup next.errors) = {} BY <1>0, <1>1, <2>1
  <2>4. next.results \cup next.errors \cup Items(todo) = Whole(c) BY <1>0, <1>1, <2>1
  <2> QED BY <1>0, <1>1, <2>2, <2>3, <2>4 DEF Partitioned
<1> QED BY <1>1, <1>4, <1>5 DEF next

\* No ranges hold no items.
LEMMA EmptyItems == Items(<<>>) = {} BY DEF Items
----------------------------------------------------------------------------
\* At first every chunk is one range, still to be embedded.
LEMMA EmbeddingInitSound == EmbeddingInit({"fail", "continue"}) => Embedded
<1> SUFFICES ASSUME EmbeddingInit({"fail", "continue"}) PROVE Embedded OBVIOUS
<1>1. embChunk = [c \in Chunks |-> FreshChunk(c, 1, "queued")] /\ embOutcome = "pending"
      /\ embMode \in {"fail", "continue"}
  BY DEF EmbeddingInit
<1>2. embChunk \in [Chunks -> ChunkRecords] BY <1>1, FreshPartitioned
<1>3. \A c \in Chunks : ChunkSound(c) BY <1>1, FreshPartitioned DEF ChunkSound
<1> QED BY <1>1, <1>2, <1>3 DEF Embedded

\* A step that changes one chunk while the call goes on.
LEMMA ChunkChanged ==
  ASSUME Embedded, NEW c \in Chunks, NEW chunk \in ChunkRecords,
         embChunk' = [embChunk EXCEPT ![c] = chunk], embMode' = embMode, embOutcome' = "pending",
         chunk.stage # "failed" => Partitioned(chunk, c),
         chunk.stage \in {"queued", "running"} => chunk.todo # <<>>,
         chunk.stage = "done" => chunk.todo = <<>>,
         chunk.stage = "failed" => embMode # "fail" /\ chunk.results = {} /\ chunk.errors = {Min(Whole(c))}
  PROVE  Embedded'
<1>1. embChunk' \in [Chunks -> ChunkRecords] /\ embChunk'[c] = chunk
      /\ \A d \in Chunks : d # c => embChunk'[d] = embChunk[d]
  BY DEF Embedded
<1>2. ASSUME NEW d \in Chunks PROVE ChunkSound(d)'
  <2>1. CASE d = c BY <1>1, <2>1 DEF ChunkSound
  <2>2. CASE d # c BY <1>1, <2>2 DEF ChunkSound, Embedded
  <2> QED BY <2>1, <2>2
<1> QED BY <1>1, <1>2 DEF Embedded

\* A step that only ends the call, with an error.
LEMMA CallThrew ==
  ASSUME Embedded, embChunk' = embChunk, embMode' = embMode, embOutcome' # "returned"
  PROVE  Embedded'
BY DEF Embedded, ChunkSound

\* A chunk that is given up turns into errors, or ends the batch.
LEMMA GiveUpSound ==
  ASSUME Embedded, NEW c \in Chunks, embOutcome = "pending", GiveUp(c), embMode' = embMode
  PROVE  Embedded'
<1>1. CASE embMode = "fail" BY <1>1, CallThrew DEF GiveUp
<1>2. CASE embMode # "fail"
  <2> DEFINE chunk == [FreshChunk(c, embChunk[c].attempt, "failed") EXCEPT !.todo = <<>>, !.errors = {Min(Whole(c))}]
  <2>1. embChunk' = [embChunk EXCEPT ![c] = chunk] /\ embOutcome' = "pending" BY <1>2 DEF GiveUp
  <2>2. embChunk[c].attempt \in Nat BY DEF Embedded, ChunkRecords
  <2>3. chunk.todo = <<>> /\ chunk.results = {} /\ chunk.errors = {Min(Whole(c))} /\ chunk.stage = "failed"
    BY DEF FreshChunk
  <2>4. {Min(Whole(c))} \in SUBSET (Nat \cup FirstItems) /\ {} \in SUBSET Nat /\ <<>> \in Seq(SUBSET Nat)
    BY DEF FirstItems
  <2>5. chunk \in ChunkRecords
    <3> DEFINE fresh == FreshChunk(c, embChunk[c].attempt, "failed")
    <3>1. fresh \in ChunkRecords BY <2>2, FreshPartitioned
    <3>2. chunk = [fresh EXCEPT !.todo = <<>>, !.errors = {Min(Whole(c))}] OBVIOUS
    <3> HIDE DEF fresh, chunk
    <3> QED BY <2>4, <3>1, <3>2 DEF ChunkRecords
  <2> HIDE DEF chunk
  <2> QED BY <1>2, <2>1, <2>3, <2>5, ChunkChanged
<1> QED BY <1>1, <1>2

\* The two halves of a batch are the batch.
LEMMA HalvesAreBatch ==
  ASSUME NEW c \in Chunks, NEW batch \in SUBSET Whole(c)
  PROVE  \E a, b \in SUBSET Whole(c) : Halves(batch) = <<a, b>> /\ a \cap b = {} /\ a \cup b = batch
<1> DEFINE a == {i \in batch : i < Midpoint(batch)}
           b == {i \in batch : i >= Midpoint(batch)}
<1>1. Halves(batch) = <<a, b>> BY DEF Halves
<1>2. a \in SUBSET Whole(c) /\ b \in SUBSET Whole(c) OBVIOUS
<1>3. a \cap b = {} /\ a \cup b = batch
  <2>1. CASE batch = {} BY <2>1
  <2>2. CASE batch # {}
    <3>1. batch \subseteq Nat BY WholeNat
    <3>2. Min(batch) \in Nat BY <2>2, <3>1, Least
    <3>3. IsFiniteSet(batch)
      <4>1. c \in Nat /\ EmbBatch \in Nat /\ EmbItems \in Nat BY EmbeddingAssumption DEF Chunks
      <4>2. (c - 1) * EmbBatch + 1 \in Int /\ c * EmbBatch \in Int
        <5>1. c - 1 \in Int BY <4>1
        <5> DEFINE d == c - 1
        <5>2. d * EmbBatch \in Int BY <4>1, <5>1
        <5> QED BY <4>1, <5>2
      <4>3. IsFiniteSet(Whole(c))
        <5> DEFINE low == (c - 1) * EmbBatch + 1
                   high == IF c * EmbBatch < EmbItems THEN c * EmbBatch ELSE EmbItems
        <5>1. low \in Int /\ high \in Int BY <4>1, <4>2
        <5>2. Whole(c) = low..high BY DEF Whole
        <5> HIDE DEF low, high
        <5> QED BY <5>1, <5>2, FS_Interval
      <4> QED BY <4>3, FS_Subset
    <3>4. Cardinality(batch) \in Nat BY <3>3, FS_CardinalityType
    <3>5. Midpoint(batch) \in Nat
      <4> DEFINE m == Min(batch)
                 n == Cardinality(batch)
      <4>1. m \in Nat /\ n \in Nat BY <3>2, <3>4
      <4> HIDE DEF m, n
      <4>2. m + (n + 1) \div 2 \in Nat BY <4>1
      <4> QED BY <4>2 DEF Midpoint, m, n
    <3> DEFINE p == Midpoint(batch)
    <3>6. \A i \in batch : (i < p) = ~(i >= p)
      <4> TAKE i \in batch
      <4>1. i \in Nat /\ p \in Nat BY <3>1, <3>5
      <4> HIDE DEF p
      <4> QED BY <4>1
    <3> QED BY <3>6
  <2> QED BY <2>1, <2>2
<1> HIDE DEF a, b
<1> QED BY <1>1, <1>2, <1>3

\* The chunk with the rest of its batches, or the call ends.
LEMMA GoOnSound ==
  ASSUME Embedded, NEW c \in Chunks, embOutcome = "pending", embMode' = embMode,
         embChunk[c].stage = "running", NEW todo, NEW results, NEW errors,
         GoOnWith(c, todo, results, errors), GoesOn(c, embChunk[c], todo, results, errors)
  PROVE  Embedded'
<1>1. CASE embAborted /\ todo # <<>> BY <1>1, CallThrew DEF GoOnWith
<1>2. CASE ~(embAborted /\ todo # <<>>)
  <2> DEFINE next == Advance(embChunk[c], todo, results, errors)
  <2>1. embChunk' = [embChunk EXCEPT ![c] = next] /\ embOutcome' = "pending" BY <1>2 DEF GoOnWith
  <2>2. embChunk[c] \in ChunkRecords /\ Partitioned(embChunk[c], c) BY DEF Embedded, ChunkSound
  <2>3. /\ next \in ChunkRecords /\ Partitioned(next, c)
        /\ next.stage = (IF todo = <<>> THEN "done" ELSE "running") /\ next.todo = todo
    BY <2>2, AdvanceSound
  <2> HIDE DEF next
  <2> QED BY <2>1, <2>3, ChunkChanged
<1> QED BY <1>1, <1>2

\* An answer gives vectors, halves the range, or fails it.
LEMMA AnswerSound ==
  ASSUME Embedded, NEW c \in Chunks, NEW answer \in {"vectors", "split", "fail"}, Answer(c, answer)
  PROVE  Embedded'
<1> DEFINE todo == embChunk[c].todo
           batch == Head(todo)
           rest == Tail(todo)
<1>1. embOutcome = "pending" /\ embChunk[c].stage = "running" /\ embMode' = embMode BY DEF Answer
<1>2. Partitioned(embChunk[c], c) /\ todo # <<>> BY <1>1 DEF Embedded, ChunkSound
<1>3. todo \in Seq(SUBSET Whole(c)) /\ Apart(todo) BY <1>2 DEF Partitioned
<1> HIDE DEF todo
<1>4. /\ batch \in SUBSET Whole(c) /\ rest \in Seq(SUBSET Whole(c)) /\ Apart(rest)
      /\ Items(todo) = batch \cup Items(rest) /\ batch \cap Items(rest) = {}
  BY <1>2, <1>3, ItemsOfTail
<1>5. Batch(c) = batch BY DEF Batch, todo
<1>6. \/ GoOnWith(c, rest, batch, {})
      \/ GoOnWith(c, rest, {}, batch)
      \/ GoOnWith(c, Halves(batch) \o rest, {}, {})
      \/ AttemptFails(c)
  <2>1. CASE answer = "vectors" BY <1>5, <2>1 DEF Answer, todo
  <2>2. CASE answer # "vectors" /\ Single(c) BY <1>5, <2>2 DEF Answer, todo
  <2>3. CASE answer = "split" /\ ~Single(c) BY <1>5, <2>3 DEF Answer, todo
  <2>4. CASE answer = "fail" /\ ~Single(c) BY <1>5, <2>4 DEF Answer, todo
  <2> QED BY <2>1, <2>2, <2>3, <2>4
<1>7. Items(todo) = Items(embChunk[c].todo) BY DEF todo
<1> HIDE DEF batch, rest
<1>8. CASE GoOnWith(c, rest, batch, {})
  <2>1. GoesOn(c, embChunk[c], rest, batch, {}) BY <1>4, <1>7 DEF GoesOn
  <2> QED BY <1>1, <1>8, <2>1, GoOnSound
<1>9. CASE GoOnWith(c, rest, {}, batch)
  <2>1. GoesOn(c, embChunk[c], rest, {}, batch) BY <1>4, <1>7 DEF GoesOn
  <2> QED BY <1>1, <1>9, <2>1, GoOnSound
<1>10. CASE GoOnWith(c, Halves(batch) \o rest, {}, {})
  <2>1. PICK a \in SUBSET Whole(c), b \in SUBSET Whole(c) :
          Halves(batch) = <<a, b>> /\ a \cap b = {} /\ a \cup b = batch
    BY <1>4, HalvesAreBatch
  <2> DEFINE split == Longer(a, b, rest)
  <2>2. split \in Seq(SUBSET Whole(c)) /\ Apart(split) /\ Items(split) = a \cup b \cup Items(rest)
    <3>1. Splits(Whole(c), a, b, rest) BY <1>4, <2>1 DEF Splits
    <3> QED BY <3>1, ItemsOfHalves
  <2>3. GoOnWith(c, split, {}, {}) BY <1>10, <2>1 DEF Longer
  <2> HIDE DEF split
  <2>4. GoesOn(c, embChunk[c], split, {}, {}) BY <1>4, <1>7, <2>1, <2>2 DEF GoesOn
  <2> QED BY <1>1, <2>3, <2>4, GoOnSound
<1>11. CASE AttemptFails(c)
  <2>1. CASE embChunk[c].attempt = EmbTimes 
    <3>1. GiveUp(c)
      <4>1. ~(embChunk[c].attempt < EmbTimes)
        <5>1. EmbTimes \in Nat BY EmbeddingAssumption
        <5> QED BY <2>1, <5>1
      <4> QED BY <1>11, <2>1, <4>1 DEF AttemptFails
    <3> QED BY <1>1, <3>1, GiveUpSound
  <2>2. CASE embChunk[c].attempt < EmbTimes /\ embAborted /\ embChunk[c].attempt # EmbTimes
    BY <1>1, <1>11, <2>2, CallThrew DEF AttemptFails
  <2>3. CASE ~(embChunk[c].attempt = EmbTimes) /\ ~(embChunk[c].attempt < EmbTimes /\ embAborted)
    <3> DEFINE next == FreshChunk(c, embChunk[c].attempt + 1, "running")
    <3>1. embChunk' = [embChunk EXCEPT ![c] = next] /\ embOutcome' = "pending"
      BY <1>1, <1>11, <2>3 DEF AttemptFails, NextAttempt
    <3>2. embChunk[c].attempt + 1 \in Nat BY DEF Embedded, ChunkRecords
    <3>3. next \in ChunkRecords /\ Partitioned(next, c) /\ next.todo # <<>> /\ next.stage = "running"
      BY <3>2, FreshPartitioned
    <3> HIDE DEF next
    <3> QED BY <1>1, <3>1, <3>3, ChunkChanged
  <2> QED BY <2>1, <2>2, <2>3
<1> QED BY <1>6, <1>8, <1>9, <1>10, <1>11

\* A worker takes a chunk that nobody has.
LEMMA TakeChunkSound ==
  ASSUME Embedded, NEW c \in Chunks, TakeChunk(c)
  PROVE  Embedded'
<1> DEFINE next == [embChunk[c] EXCEPT !.stage = "running"]
<1>1. embOutcome' = "pending" /\ embMode' = embMode /\ embChunk[c].stage = "queued"
      /\ embChunk' = [embChunk EXCEPT ![c] = next]
  BY DEF TakeChunk
<1>2. embChunk[c] \in ChunkRecords /\ Partitioned(embChunk[c], c) /\ embChunk[c].todo # <<>>
  BY <1>1 DEF Embedded, ChunkSound
<1>3. /\ next \in ChunkRecords /\ next.stage = "running" /\ next.todo = embChunk[c].todo
      /\ next.results = embChunk[c].results /\ next.errors = embChunk[c].errors
  BY <1>2 DEF ChunkRecords
<1> HIDE DEF next
<1>4. Partitioned(next, c) BY <1>2, <1>3 DEF Partitioned
<1> QED BY <1>1, <1>2, <1>3, <1>4, ChunkChanged

\* The batch ends when every chunk is done.
LEMMA GatherSound ==
  ASSUME Embedded, Gather
  PROVE  Embedded'
<1>1. embChunk' = embChunk /\ embMode' = embMode /\ \A c \in Chunks : embChunk[c].stage \in {"done", "failed"}
  BY DEF Gather
<1>2. embOutcome' = "returned" /\ embMode = "fail" => \A c \in Chunks : embChunk[c].errors = {}
  BY DEF Gather
<1> QED BY <1>1, <1>2 DEF Embedded, ChunkSound

\* A result of a bisected batch has a vector or an error for every input, and not both,
\* unless the whole chunk failed (ai/index.ts:262-613).
THEOREM EmbeddingsAreTrue ==
  EmbeddingInit({"fail", "continue"}) /\ [][EmbeddingNext]_embVars => []EmbeddingTruth
<1>1. EmbeddingInit({"fail", "continue"}) => Embedded BY EmbeddingInitSound
<1>2. Embedded /\ [EmbeddingNext]_embVars => Embedded'
  <2> SUFFICES ASSUME Embedded, [EmbeddingNext]_embVars PROVE Embedded' OBVIOUS
  <2>1. ASSUME NEW c \in Chunks, TakeChunk(c) PROVE Embedded' BY <2>1, TakeChunkSound
  <2>2. ASSUME NEW c \in Chunks, ChunkTimesOut(c) PROVE Embedded'
    BY <2>2, GiveUpSound DEF ChunkTimesOut
  <2>3. ASSUME NEW c \in Chunks, NEW a \in {"vectors", "split", "fail"}, Answer(c, a) PROVE Embedded'
    BY <2>3, AnswerSound
  <2>4. CASE ChunkCancelled BY <2>4, CallThrew DEF ChunkCancelled
  <2>5. CASE EmbeddingAborts BY <2>5, CallThrew DEF EmbeddingAborts
  <2>6. CASE Gather BY <2>6, GatherSound
  <2>7. CASE UNCHANGED embVars BY <2>7 DEF embVars, Embedded, ChunkSound
  <2> QED BY <2>1, <2>2, <2>3, <2>4, <2>5, <2>6, <2>7 DEF EmbeddingNext
<1>3. Embedded => EmbeddingTruth
  <2> SUFFICES ASSUME Embedded, embOutcome = "returned", NEW c \in Chunks
               PROVE  LET chunk == embChunk[c]
                      IN /\ chunk.results \cap chunk.errors = {}
                         /\ \/ chunk.results \cup chunk.errors = Whole(c)
                            \/ /\ chunk.stage = "failed" /\ embMode = "continue"
                               /\ chunk.results = {} /\ chunk.errors = {Min(Whole(c))}
                         /\ embMode = "fail" => chunk.results = Whole(c)
    BY DEF EmbeddingTruth
  <2>1. ChunkSound(c) /\ embChunk[c].stage \in {"done", "failed"} /\ (embMode = "fail" => embChunk[c].errors = {})
        /\ embMode \in {"fail", "continue"}
    BY DEF Embedded
  <2>2. CASE embChunk[c].stage = "failed" BY <2>1, <2>2 DEF ChunkSound
  <2>3. CASE embChunk[c].stage = "done"
    <3>1. Partitioned(embChunk[c], c) /\ embChunk[c].todo = <<>> BY <2>1, <2>3 DEF ChunkSound
    <3>2. Items(embChunk[c].todo) = {} BY <3>1, EmptyItems
    <3> QED BY <2>1, <3>1, <3>2 DEF Partitioned
  <2> QED BY <2>1, <2>2, <2>3
<1> QED BY <1>1, <1>2, <1>3, PTL

(***************************************************************************)
(* The lists of a batch's output: the numbers of the items that ended in    *)
(* some way, in their order (WorkModes).                                    *)
(***************************************************************************)
\* q lists the numbers of S in their order.
Lists(q, S) ==
  /\ q \in Seq(Nat) /\ ToSet(q) = S
  /\ \A k, l \in DOMAIN q : k < l => q[k] < q[l]
\* A list goes on being one when a larger number is appended.
LEMMA ListsMore ==
  ASSUME NEW q, NEW S, Lists(q, S), NEW n \in Nat, \A s \in S : s < n
  PROVE  Lists(Append(q, n), S \cup {n})
<1>1. q \in Seq(Nat) /\ S = {q[k] : k \in DOMAIN q} /\ DOMAIN q = 1..Len(q) /\ Len(q) \in Nat
  BY DEF Lists, ToSet
<1> DEFINE r == Append(q, n)
<1>2. /\ r \in Seq(Nat) /\ DOMAIN r = 1..(Len(q) + 1) /\ r[Len(q) + 1] = n
      /\ \A k \in 1..Len(q) : r[k] = q[k]
  BY <1>1
<1> HIDE DEF r
<1>3. ToSet(r) = S \cup {n}
  <2>1. ToSet(r) = {r[k] : k \in 1..(Len(q) + 1)} BY <1>2 DEF ToSet
  <2>2. ASSUME NEW x \in S PROVE x \in {r[k] : k \in 1..(Len(q) + 1)}
    <3>1. PICK k \in 1..Len(q) : x = q[k] BY <1>1, <2>2
    <3>2. k \in 1..(Len(q) + 1) /\ r[k] = x BY <1>1, <1>2, <3>1
    <3> QED BY <3>2
  <2>3. n \in {r[k] : k \in 1..(Len(q) + 1)}
    <3>1. Len(q) + 1 \in 1..(Len(q) + 1) BY <1>1
    <3> QED BY <1>2, <3>1
  <2>4. ASSUME NEW k \in 1..(Len(q) + 1) PROVE r[k] \in S \cup {n}
    <3>1. k = Len(q) + 1 \/ k \in 1..Len(q) BY <1>1
    <3> QED BY <1>1, <1>2, <3>1
  <2> QED BY <2>1, <2>2, <2>3, <2>4
<1>4. ASSUME NEW k \in DOMAIN r, NEW l \in DOMAIN r, k < l PROVE r[k] < r[l]
  <2>1. k \in 1..Len(q) /\ (l = Len(q) + 1 \/ l \in 1..Len(q)) BY <1>1, <1>2, <1>4
  <2>2. r[k] = q[k] /\ q[k] \in S BY <1>1, <1>2, <2>1
  <2>3. CASE l = Len(q) + 1 BY <1>2, <2>2, <2>3
  <2>4. CASE l \in 1..Len(q)
    <3>1. r[l] = q[l] BY <1>2, <2>4
    <3> QED BY <1>1, <1>4, <2>1, <2>2, <2>4, <3>1 DEF Lists
  <2> QED BY <2>1, <2>3, <2>4
<1> QED BY <1>2, <1>3, <1>4 DEF Lists, r

\* A function that lists, up to each number, the items that ended in one of some ways.
Listed(g, items, ends, n) ==
  IF n = 0 THEN <<>> ELSE IF items[n] \in ends THEN Append(g[n - 1], n) ELSE g[n - 1]
ListsTo(g, items, ends, m) == g = [n \in 0..m |-> Listed(g, items, ends, n)]
\* The recursive list is defined up to every length.
LEMMA ListDefined ==
  ASSUME NEW items, NEW ends, NEW m \in Nat
  PROVE  \E g : ListsTo(g, items, ends, m)
<1> DEFINE T == {k \in Nat : \E g : ListsTo(g, items, ends, k)}
<1>1. 0 \in T
  <2>1. ListsTo([n \in 0..0 |-> <<>>], items, ends, 0) BY DEF ListsTo, Listed
  <2> QED BY <2>1
<1>2. ASSUME NEW k \in T PROVE k + 1 \in T
  <2>1. PICK f : ListsTo(f, items, ends, k) OBVIOUS
  <2> DEFINE g == [n \in 0..(k + 1) |-> IF n <= k THEN f[n] ELSE Listed(f, items, ends, k + 1)]
  <2>2. ASSUME NEW n \in 0..(k + 1) PROVE g[n] = Listed(g, items, ends, n)
    <3>0. k \in Nat OBVIOUS
    <3>1. n # 0 => n - 1 \in 0..k /\ g[n - 1] = f[n - 1] BY <3>0
    <3>2. CASE n <= k
      <4>1. g[n] = f[n] BY <3>0, <3>2
      <4>2. f[n] = Listed(f, items, ends, n) BY <2>1, <3>0, <3>2 DEF ListsTo
      <4> HIDE DEF g
      <4> QED BY <3>1, <4>1, <4>2 DEF Listed
    <3>3. CASE n = k + 1
      <4>1. g[n] = Listed(f, items, ends, n) BY <3>0, <3>3
      <4> HIDE DEF g
      <4> QED BY <3>1, <4>1 DEF Listed
    <3> QED BY <3>0, <3>2, <3>3
  <2>3. g = [n \in 0..(k + 1) |-> g[n]]
    OBVIOUS
  <2> HIDE DEF g
  <2>4. ListsTo(g, items, ends, k + 1)
    BY <2>2, <2>3 DEF ListsTo
  <2> QED BY <2>4
<1> HIDE DEF T
<1>3. T = Nat
  <2>1. T \in SUBSET Nat BY DEF T
  <2> QED BY <1>1, <1>2, <2>1, AllNat
<1> QED BY <1>3 DEF T

\* Those(ends) lists the items that ended so.
LEMMA ThoseList ==
  ASSUME NEW ends
  PROVE  Lists(Those(ends), ItemsIn(ends))
<1>0. WorkItems \in Nat BY WorkAssumption
<1> DEFINE g == CHOOSE g : ListsTo(g, workItem, ends, WorkItems)
           Some(n) == {i \in 1..n : workItem[i] \in ends}
<1>1. ListsTo(g, workItem, ends, WorkItems) BY <1>0, ListDefined
<1>2. Those(ends) = g[WorkItems] BY DEF Those, ListsTo, Listed
<1> HIDE DEF g
<1>3. \A n \in 0..WorkItems : g[n] = Listed(g, workItem, ends, n) BY <1>1 DEF ListsTo
<1> DEFINE T == {n \in Nat : n <= WorkItems => Lists(g[n], Some(n))}
<1>4. 0 \in T
  <2>0. 0 \in 0..WorkItems BY <1>0
  <2>1. g[0] = <<>> BY <1>3, <2>0 DEF Listed
  <2>2. Some(0) = {} OBVIOUS
  <2>3. ToSet(<<>>) = {} BY DEF ToSet
  <2>4. Lists(<<>>, {}) BY <2>3 DEF Lists
  <2> HIDE DEF Some
  <2> QED BY <2>1, <2>2, <2>4
<1>5. ASSUME NEW n \in T PROVE n + 1 \in T
  <2>1. SUFFICES ASSUME n + 1 <= WorkItems PROVE Lists(g[n + 1], Some(n + 1)) OBVIOUS
  <2>2. n \in Nat /\ n <= WorkItems /\ n + 1 \in 0..WorkItems /\ n + 1 # 0 /\ (n + 1) - 1 = n
    BY <1>0, <2>1
  <2>3. Lists(g[n], Some(n)) BY <2>2
  <2>4. g[n + 1] = IF workItem[n + 1] \in ends THEN Append(g[n], n + 1) ELSE g[n]
    BY <1>3, <2>2 DEF Listed
  <2>5. \A i : i \in 1..(n + 1) <=> i \in 1..n \/ i = n + 1 BY <2>2
  <2>6. Some(n + 1) = IF workItem[n + 1] \in ends THEN Some(n) \cup {n + 1} ELSE Some(n)
    BY <2>5
  <2>7. \A s \in Some(n) : s < n + 1 BY <2>2
  <2> HIDE DEF Some, T
  <2>8. CASE workItem[n + 1] \in ends
    <3>1. n + 1 \in Nat BY <2>2
    <3>2. Lists(Append(g[n], n + 1), Some(n) \cup {n + 1}) BY <2>3, <2>7, <3>1, ListsMore
    <3> QED BY <2>4, <2>6, <2>8, <3>2
  <2>9. CASE workItem[n + 1] \notin ends BY <2>3, <2>4, <2>6, <2>9
  <2> QED BY <2>8, <2>9
<1> HIDE DEF T
<1>6. T = Nat
  <2>1. T \in SUBSET Nat BY DEF T
  <2> QED BY <1>4, <1>5, <2>1, AllNat
<1>7. Lists(g[WorkItems], Some(WorkItems)) BY <1>0, <1>6 DEF T
<1>8. Some(WorkItems) = ItemsIn(ends) BY DEF ItemsIn, WorkNumbers
<1> QED BY <1>2, <1>7, <1>8

(***************************************************************************)
(* A batch accounts for its items (WorkModes).                              *)
(***************************************************************************)
Stages == {"unread", "queued", "running", "refused"} \cup WorkEnds
Statuses == {"fulfilled", "rejected", "cancelled"}
WorkTyped ==
  /\ workMode \in {"fail", "continue", "collect"} /\ workCancel \in {"throw", "partial"}
  /\ workRead \in 0..WorkItems
  /\ workItem \in [WorkNumbers -> Stages]
  /\ workReports \in [WorkNumbers -> Seq(Statuses)] /\ workSpoiled \subseteq WorkNumbers
  /\ workWorkers \in 0..WorkLimit /\ workStopped \in {"no", "failure", "item"}
  /\ workOutcome \in {"pending", "thrown", "unexpected", "returned"}

\* What the handlers were told of an item says how it ended.  Spoiled is one whose
\* handler threw when it was told of a cancellation.
Agrees(item, reports, spoiled) ==
  IF item \notin WorkEnds THEN reports = <<>> /\ ~spoiled
  ELSE /\ reports # <<>>
       /\ CASE item = "value" -> Last(reports) = "fulfilled" /\ ~spoiled
            [] item = "failed" -> Last(reports) = IF spoiled THEN "cancelled" ELSE "rejected"
            [] item \in {"skip", "timeout", "cancelled"} -> Last(reports) = "cancelled" /\ ~spoiled
ReportsAgree == \A i \in WorkNumbers : Agrees(workItem[i], workReports[i], i \in workSpoiled)

\* The source is read before anything runs.
ReadFirst ==
  /\ ItemsIn({"unread"}) = {} \/ ItemsIn({"unread"}) = WorkNumbers
  /\ ItemsIn({"unread"}) # WorkNumbers => workRead = WorkItems

\* Every running item has a worker of its own, all workers stay while none has thrown,
\* and nobody is refused before the group was cancelled.
Threw(i) == workItem[i] \in WorkEnds /\ Throws(workItem[i])
Manned ==
  /\ Cardinality(ItemsIn({"running"})) <= workWorkers
  /\ ItemsIn({"unread"}) = {} /\ ~PoolThrew => workWorkers > 0
  /\ ItemsIn({"refused"}) # {} => workStopped # "no"
  /\ workStopped = "failure" => \E i \in WorkNumbers : Threw(i)

\* What the outcome rests on.
Outcome ==
  /\ workOutcome # "pending" => ItemsIn({"running"}) = {}
  /\ workOutcome = "returned" => (\A i \in WorkNumbers : workItem[i] \in WorkEnds) /\ ~PoolThrew
  /\ workOutcome = "thrown" => ItemsIn({"unread"}) # {} \/ PoolThrew
Batched == WorkTyped /\ ReportsAgree /\ ReadFirst /\ Manned /\ Outcome

\* There are finitely many items, so that they may be counted.
LEMMA NumbersFinite ==
  /\ WorkItems \in Nat \ {0} /\ WorkLimit \in Nat \ {0} /\ IsFiniteSet(WorkNumbers)
  /\ \A stages : IsFiniteSet(ItemsIn(stages)) /\ Cardinality(ItemsIn(stages)) \in Nat
<1>1. WorkItems \in Nat \ {0} /\ WorkLimit \in Nat \ {0} BY WorkAssumption
<1>2. IsFiniteSet(WorkNumbers) BY <1>1, FS_Interval DEF WorkNumbers
<1>3. ASSUME NEW stages PROVE IsFiniteSet(ItemsIn(stages)) /\ Cardinality(ItemsIn(stages)) \in Nat
  <2>1. ItemsIn(stages) \subseteq WorkNumbers BY DEF ItemsIn
  <2>2. IsFiniteSet(ItemsIn(stages)) BY <1>2, <2>1, FS_Subset
  <2> QED BY <2>2, FS_CardinalityType
<1> QED BY <1>1, <1>2, <1>3

\* At first no item has been read.
LEMMA WorkInitBatched ==
  WorkInit({"do", "collect"}, {"fail", "continue", "collect"}, {"throw", "partial"}, "pending") => Batched
<1> SUFFICES ASSUME WorkInit({"do", "collect"}, {"fail", "continue", "collect"}, {"throw", "partial"}, "pending")
             PROVE  Batched
  OBVIOUS
<1> USE DEF WorkInit
<1>1. WorkTyped
  <2>1. workMode \in {"fail", "continue", "collect"} OBVIOUS
  <2> QED BY <2>1, NumbersFinite DEF WorkTyped, Stages
<1>2. ReportsAgree BY DEF ReportsAgree, Agrees, WorkEnds
<1>3. \A i \in WorkNumbers : workItem[i] = "unread" OBVIOUS
<1>4. ItemsIn({"unread"}) = WorkNumbers /\ ItemsIn({"running"}) = {} /\ ItemsIn({"refused"}) = {}
  BY <1>3 DEF ItemsIn
<1>5. 1 \in WorkNumbers BY NumbersFinite DEF WorkNumbers
<1>6. ReadFirst BY <1>4 DEF ReadFirst
<1>7. Manned
  <2>1. Cardinality(ItemsIn({"running"})) = 0 BY <1>4, FS_EmptySet
  <2> QED BY <1>4, <1>5, <2>1 DEF Manned
<1> QED BY <1>1, <1>2, <1>4, <1>6, <1>7 DEF Batched, Outcome

\* The settled facts of a batch: what its state says of the reports.
LEMMA ReportsOfEnds ==
  ASSUME WorkTyped, ReportsAgree
  PROVE  /\ LastReports("rejected") \cup workSpoiled = ItemsIn({"failed"})
         /\ LastReports("cancelled") \ workSpoiled = ItemsIn({"skip", "timeout", "cancelled"})
         /\ LastReports("fulfilled") = ItemsIn({"value"})
<1>1. ASSUME NEW i \in WorkNumbers
      PROVE  /\ i \in LastReports("rejected") \cup workSpoiled <=> workItem[i] = "failed"
             /\ i \in LastReports("cancelled") \ workSpoiled <=> workItem[i] \in {"skip", "timeout", "cancelled"}
             /\ i \in LastReports("fulfilled") <=> workItem[i] = "value"
  <2>1. Agrees(workItem[i], workReports[i], i \in workSpoiled) BY DEF ReportsAgree
  <2>2. \A s : i \in LastReports(s) <=> workReports[i] # <<>> /\ Last(workReports[i]) = s
    BY DEF LastReports
  <2>3. CASE workItem[i] \notin WorkEnds BY <2>1, <2>2, <2>3 DEF Agrees, WorkEnds
  <2>4. CASE workItem[i] = "value" BY <2>1, <2>2, <2>4 DEF Agrees, WorkEnds
  <2>5. CASE workItem[i] = "failed" /\ i \in workSpoiled BY <2>1, <2>2, <2>5 DEF Agrees, WorkEnds
  <2>6. CASE workItem[i] = "failed" /\ i \notin workSpoiled BY <2>1, <2>2, <2>6 DEF Agrees, WorkEnds
  <2>7. CASE workItem[i] \in {"skip", "timeout", "cancelled"}
    <3>1. workReports[i] # <<>> /\ Last(workReports[i]) = "cancelled" /\ i \notin workSpoiled
      BY <2>1, <2>7 DEF Agrees, WorkEnds
    <3>2. workItem[i] \notin {"value", "failed"} BY <2>7
    <3>3. i \in LastReports("cancelled") /\ i \notin LastReports("rejected") /\ i \notin LastReports("fulfilled")
      BY <2>2, <3>1
    <3> QED BY <2>7, <3>1, <3>2, <3>3
  <2> QED BY <2>3, <2>4, <2>5, <2>6, <2>7 DEF WorkEnds
<1>2. workSpoiled \subseteq WorkNumbers BY DEF WorkTyped
<1>3. \A s : LastReports(s) \subseteq WorkNumbers BY DEF LastReports
<1> QED BY <1>1, <1>2, <1>3 DEF ItemsIn

\* The invariant says what WorkTruth says.
LEMMA BatchedIsTrue == Batched => WorkTruth
<1> SUFFICES ASSUME Batched PROVE WorkTruth OBVIOUS
<1> DEFINE rejected == LastReports("rejected") \cup workSpoiled
           cancelled == LastReports("cancelled") \ workSpoiled
           fulfilled == LastReports("fulfilled")
           skipped == {"skip", "timeout", "cancelled"}
<1>1. WorkTyped /\ ReportsAgree /\ ReadFirst /\ Manned /\ Outcome BY DEF Batched
<1>2. rejected = ItemsIn({"failed"}) /\ cancelled = ItemsIn(skipped) /\ fulfilled = ItemsIn({"value"})
  BY <1>1, ReportsOfEnds
<1>3. Cardinality(ItemsIn({"running"})) <= WorkLimit
  <2>1. Cardinality(ItemsIn({"running"})) <= workWorkers /\ workWorkers \in 0..WorkLimit
    BY <1>1 DEF Manned, WorkTyped
  <2> QED BY <2>1, NumbersFinite
<1>4. \A i \in WorkNumbers : workItem[i] # "unread" => workRead = WorkItems
  BY <1>1 DEF ReadFirst, ItemsIn
<1>5. ASSUME workOutcome = "returned"
      PROVE  /\ rejected \cup cancelled \cup fulfilled = WorkNumbers
             /\ IF workMode = "collect"
                  THEN \A i \in WorkNumbers : Output.results[i] =
                         IF i \in rejected THEN "rejected" ELSE Last(workReports[i])
                  ELSE /\ ToSet(Output.results) = fulfilled
                       /\ \A k, l \in DOMAIN Output.results : k < l => Output.results[k] < Output.results[l]
             /\ CASE Output.mode = "fail" -> rejected = {}
                  [] Output.mode = "partial" -> rejected = {} /\ ToSet(Output.cancelled) = cancelled
                  [] Output.mode = "continue" -> ToSet(Output.errors) = rejected
                  [] OTHER -> TRUE
  <2>1. (\A i \in WorkNumbers : workItem[i] \in WorkEnds) /\ ~PoolThrew BY <1>1, <1>5 DEF Outcome
  <2>2. rejected \cup cancelled \cup fulfilled = WorkNumbers
    <3>1. \A i \in WorkNumbers : i \in ItemsIn({"failed"}) \cup ItemsIn(skipped) \cup ItemsIn({"value"})
      BY <2>1 DEF ItemsIn, WorkEnds
    <3>2. \A s : ItemsIn(s) \subseteq WorkNumbers BY DEF ItemsIn
    <3> QED BY <1>2, <3>1, <3>2
  <2>3. \A s : Lists(Those(s), ItemsIn(s)) BY ThoseList
  <2>4. workMode = "fail" => rejected = {}
    <3>1. SUFFICES ASSUME workMode = "fail", NEW i \in ItemsIn({"failed"}) PROVE FALSE BY <1>2
    <3>2. i \in WorkNumbers /\ workItem[i] = "failed" BY <3>1 DEF ItemsIn
    <3>3. Throws("failed") BY <3>1 DEF Throws
    <3> QED BY <2>1, <3>2, <3>3 DEF PoolThrew
  <2>5. /\ Those({"value"}) \in Seq(Nat) /\ ToSet(Those({"value"})) = fulfilled
        /\ \A k, l \in DOMAIN Those({"value"}) : k < l => Those({"value"})[k] < Those({"value"})[l]
    BY <1>2, <2>3 DEF Lists
  <2>6. ToSet(Those({"failed"})) = rejected /\ ToSet(Those(skipped)) = cancelled
    BY <1>2, <2>3 DEF Lists
  <2>7. CASE workMode = "collect"
    <3>1. Output = [mode |-> "collect", results |-> [i \in WorkNumbers |-> StatusOf(workItem[i])]]
      BY <2>7 DEF Output
    <3>2. ASSUME NEW i \in WorkNumbers
          PROVE  StatusOf(workItem[i]) = IF i \in rejected THEN "rejected" ELSE Last(workReports[i])
      <4>1. Agrees(workItem[i], workReports[i], i \in workSpoiled) BY <1>1 DEF ReportsAgree
      <4>2. i \in rejected <=> workItem[i] = "failed" BY <1>2 DEF ItemsIn
      <4>3. CASE workItem[i] = "value" BY <4>1, <4>2, <4>3 DEF Agrees, WorkEnds, StatusOf
      <4>4. CASE workItem[i] = "failed" BY <4>2, <4>4 DEF StatusOf
      <4>5. CASE workItem[i] \in skipped BY <4>1, <4>2, <4>5 DEF Agrees, WorkEnds, StatusOf
      <4> QED BY <2>1, <4>3, <4>4, <4>5 DEF WorkEnds
    <3>3. Output.mode = "collect" BY <3>1
    <3>4. \A i \in WorkNumbers : Output.results[i] = StatusOf(workItem[i]) BY <3>1
    <3> HIDE DEF rejected, cancelled, fulfilled
    <3> QED BY <2>2, <2>7, <3>2, <3>3, <3>4
  <2>8. CASE workMode = "fail" /\ (Unwrapped \/ Those(skipped) = <<>>)
    <3>1. Output = [mode |-> "fail", results |-> Those({"value"})] BY <2>8 DEF Output
    <3>2. Output.mode = "fail" /\ Output.results = Those({"value"}) BY <3>1
    <3> HIDE DEF rejected, cancelled, fulfilled
    <3> QED BY <2>2, <2>4, <2>5, <2>8, <3>2
  <2>9. CASE workMode = "fail" /\ ~(Unwrapped \/ Those(skipped) = <<>>)
    <3>1. Output = [mode |-> "partial", results |-> Those({"value"}), errors |-> Those({"failed"}),
                    cancelled |-> Those(skipped)]
      BY <2>9 DEF Output
    <3>2. Output.mode = "partial" /\ Output.results = Those({"value"}) /\ Output.cancelled = Those(skipped)
      BY <3>1
    <3> HIDE DEF rejected, cancelled, fulfilled
    <3> QED BY <2>2, <2>4, <2>5, <2>6, <2>9, <3>2
  <2>10. CASE workMode = "continue"
    <3>1. Output = [mode |-> "continue", results |-> Those({"value"}), errors |-> Those({"failed"})]
      BY <2>10 DEF Output
    <3>2. Output.mode = "continue" /\ Output.results = Those({"value"}) /\ Output.errors = Those({"failed"})
      BY <3>1
    <3> HIDE DEF rejected, cancelled, fulfilled
    <3> QED BY <2>2, <2>5, <2>6, <2>10, <3>2
  <2>11. workMode \in {"fail", "continue", "collect"} BY <1>1 DEF WorkTyped
  <2> QED BY <2>7, <2>8, <2>9, <2>10, <2>11
<1>6. ASSUME workOutcome = "thrown"
      PROVE  \/ ItemsIn({"unread"}) # {}
             \/ workMode = "fail" /\ rejected # {}
             \/ Unwrapped /\ LastReports("cancelled") # {}
             \/ workStopped = "item" /\ ItemsIn({"refused"}) # {}
  <2>1. ItemsIn({"unread"}) # {} \/ PoolThrew BY <1>1, <1>6 DEF Outcome
  <2>2. ASSUME NEW i \in WorkNumbers, Threw(i)
        PROVE  (workMode = "fail" /\ rejected # {}) \/ (Unwrapped /\ LastReports("cancelled") # {})
    <3>1. workItem[i] \in WorkEnds /\ Throws(workItem[i]) BY <2>2 DEF Threw
    <3>2. CASE workItem[i] = "failed"
      <4>1. workMode = "fail" BY <3>1, <3>2 DEF Throws, Unwrapped
      <4>2. i \in ItemsIn({"failed"}) BY <3>2 DEF ItemsIn
      <4> QED BY <1>2, <4>1, <4>2
    <3>3. CASE workItem[i] # "failed"
      <4>1. Unwrapped /\ workItem[i] \in skipped BY <3>1, <3>3 DEF Throws, WorkEnds
      <4>2. i \in ItemsIn(skipped) BY <4>1 DEF ItemsIn
      <4>3. i \in cancelled BY <1>2, <4>2
      <4> QED BY <4>1, <4>3
    <3> QED BY <3>2, <3>3
  <2>3. CASE ItemsIn({"refused"}) # {}
    <3>1. workStopped \in {"failure", "item"} BY <1>1, <2>3 DEF Manned, WorkTyped
    <3>2. workStopped = "failure" => \E i \in WorkNumbers : Threw(i) BY <1>1 DEF Manned
    <3> HIDE DEF rejected
    <3> QED BY <2>2, <2>3, <3>1, <3>2
  <2>4. CASE \E i \in WorkNumbers : Threw(i)
    <3> HIDE DEF rejected
    <3> QED BY <2>2, <2>4
  <2> HIDE DEF rejected
  <2> QED BY <2>1, <2>3, <2>4 DEF PoolThrew, Threw
<1>7. workOutcome # "pending" => ItemsIn({"running"}) = {} BY <1>1 DEF Outcome
<1> QED BY <1>3, <1>4, <1>5, <1>6, <1>7 DEF WorkTruth

\* What every step but the first keeps: the modes, and so what is thrown.
SameModes == workMode' = workMode /\ workCancel' = workCancel
\* Whether an end throws depends on the modes only, which never change.
LEMMA ModesThrow ==
  ASSUME SameModes
  PROVE  \A end : Throws(end)' <=> Throws(end)
BY DEF SameModes, Throws, Unwrapped

\* An item alone changes its stage.
ItemBecomes(i, stage) == workItem' = [workItem EXCEPT ![i] = stage]
\* An item that changes its stage joins or leaves each set of stages, and no other item does.
LEMMA StagesAfter ==
  ASSUME WorkTyped, NEW i \in WorkNumbers, NEW stage \in Stages, ItemBecomes(i, stage), NEW stages
  PROVE  ItemsIn(stages)' = IF stage \in stages THEN ItemsIn(stages) \cup {i} ELSE ItemsIn(stages) \ {i}
<1>1. workItem'[i] = stage /\ \A j \in WorkNumbers : j # i => workItem'[j] = workItem[j]
  BY DEF WorkTyped, ItemBecomes
<1>2. \A j \in WorkNumbers : j \in ItemsIn(stages)' <=> workItem'[j] \in stages BY DEF ItemsIn
<1>3. \A j \in WorkNumbers : j \in ItemsIn(stages) <=> workItem[j] \in stages BY DEF ItemsIn
<1>4. ItemsIn(stages) \subseteq WorkNumbers /\ ItemsIn(stages)' \subseteq WorkNumbers BY DEF ItemsIn
<1>5. ASSUME NEW j \in WorkNumbers
      PROVE  j \in ItemsIn(stages)' <=>
               j \in IF stage \in stages THEN ItemsIn(stages) \cup {i} ELSE ItemsIn(stages) \ {i}
  <2>1. CASE j = i BY <1>1, <1>2, <2>1
  <2>2. CASE j # i BY <1>1, <1>2, <1>3, <2>2
  <2> QED BY <2>1, <2>2
<1> QED BY <1>4, <1>5

\* Items are read one by one; a source that throws ends the call.
LEMMA ReadKeeps == ASSUME Batched, ReadItem PROVE Batched'
<1>1. WorkTyped /\ ReportsAgree /\ ReadFirst /\ Manned /\ Outcome BY DEF Batched
<1>2. UNCHANGED <<workMode, workCancel, workItem, workReports, workSpoiled, workWorkers, workStopped>>
      /\ workOutcome = "pending" /\ ItemsIn({"unread"}) # {}
  BY DEF ReadItem
<1>3. /\ workRead' \in 0..WorkItems /\ workOutcome' \in {"pending", "thrown"}
      /\ (workRead < WorkItems \/ workRead' = workRead)
  BY <1>1, NumbersFinite DEF ReadItem, WorkTyped
<1>4. \A s : ItemsIn(s)' = ItemsIn(s) BY <1>2 DEF ItemsIn
<1>5. \A i : Threw(i)' <=> Threw(i) BY <1>2, ModesThrow DEF Threw, SameModes
<1>6. PoolThrew' <=> PoolThrew
  <2>1. PoolThrew <=> ItemsIn({"refused"}) # {} \/ \E i \in WorkNumbers : Threw(i) BY DEF PoolThrew, Threw
  <2>2. PoolThrew' <=> ItemsIn({"refused"})' # {} \/ \E i \in WorkNumbers : Threw(i)'
    BY DEF PoolThrew, Threw
  <2> QED BY <1>4, <1>5, <2>1, <2>2
<1>7. WorkTyped' BY <1>1, <1>2, <1>3 DEF WorkTyped
<1>8. ReportsAgree' BY <1>1, <1>2 DEF ReportsAgree
<1>9. ReadFirst'
  <2>1. workRead' = WorkItems \/ ItemsIn({"unread"}) = WorkNumbers
    <3>1. CASE workRead' = workRead BY <1>1, <3>1 DEF ReadFirst
    <3>2. CASE workRead < WorkItems
      <4>1. workRead # WorkItems BY <3>2, NumbersFinite
      <4> QED BY <1>1, <4>1 DEF ReadFirst
    <3> QED BY <1>3, <3>1, <3>2
  <2> QED BY <1>1, <1>4, <2>1 DEF ReadFirst
<1>10. Manned' BY <1>1, <1>2, <1>4, <1>5, <1>6 DEF Manned
<1>11. Outcome'
  <2>1. ItemsIn({"unread"}) = WorkNumbers BY <1>1, <1>2 DEF ReadFirst
  <2>2. ItemsIn({"running"}) = {} BY <2>1 DEF ItemsIn
  <2> QED BY <1>2, <1>3, <1>4, <2>2 DEF Outcome
<1> QED BY <1>7, <1>8, <1>9, <1>10, <1>11 DEF Batched

\* At the end of the source the items are queued and the workers start.
LEMMA SourceEndKeeps == ASSUME Batched, SourceEnds PROVE Batched'
<1>1. WorkTyped /\ ReportsAgree /\ ReadFirst /\ Manned /\ Outcome BY DEF Batched
<1>2. /\ UNCHANGED <<workMode, workCancel, workRead, workReports, workSpoiled, workStopped, workOutcome>>
      /\ workOutcome = "pending" /\ workRead = WorkItems /\ ItemsIn({"unread"}) # {}
      /\ workItem' = [i \in WorkNumbers |-> "queued"]
      /\ workWorkers' = IF WorkLimit < WorkItems THEN WorkLimit ELSE WorkItems
  BY DEF SourceEnds
<1>3. workWorkers' \in 0..WorkLimit /\ workWorkers' > 0 BY <1>2, NumbersFinite
<1>4. \A i \in WorkNumbers : workItem[i] = "unread" /\ workItem'[i] = "queued"
  BY <1>1, <1>2 DEF ReadFirst, ItemsIn
<1>5. ItemsIn({"unread"})' = {} /\ ItemsIn({"running"})' = {} /\ ItemsIn({"refused"})' = {}
      /\ ItemsIn({"refused"}) = {}
  BY <1>4 DEF ItemsIn
<1>6. WorkTyped' BY <1>1, <1>2, <1>3 DEF WorkTyped, Stages
<1>7. ReportsAgree'
  <2>1. ASSUME NEW i \in WorkNumbers PROVE Agrees(workItem'[i], workReports'[i], i \in workSpoiled')
    <3>1. Agrees(workItem[i], workReports[i], i \in workSpoiled) BY <1>1 DEF ReportsAgree
    <3> QED BY <1>2, <1>4, <3>1 DEF Agrees, WorkEnds
  <2> QED BY <2>1 DEF ReportsAgree
<1>8. ReadFirst' BY <1>2, <1>5 DEF ReadFirst
<1>9. Manned'
  <2>1. Cardinality(ItemsIn({"running"})') = 0 BY <1>5, FS_EmptySet
  <2>2. Cardinality(ItemsIn({"running"}))' = 0 BY <2>1
  <2>3. workStopped # "failure"
    <3>1. SUFFICES ASSUME NEW i \in WorkNumbers, Threw(i) PROVE FALSE BY <1>1 DEF Manned
    <3> QED BY <1>4, <3>1 DEF Threw, WorkEnds
  <2> QED BY <1>2, <1>3, <1>5, <2>2, <2>3 DEF Manned
<1>10. Outcome' BY <1>2 DEF Outcome
<1> QED BY <1>6, <1>7, <1>8, <1>9, <1>10 DEF Batched

\* What threw so far, after one item changed its stage.
LEMMA ThrewAfter ==
  ASSUME WorkTyped, NEW i \in WorkNumbers, NEW stage \in Stages, ItemBecomes(i, stage), SameModes
  PROVE  \A j \in WorkNumbers :
           Threw(j)' <=> IF j = i THEN stage \in WorkEnds /\ Throws(stage) ELSE Threw(j)
<1>1. workItem'[i] = stage /\ \A j \in WorkNumbers : j # i => workItem'[j] = workItem[j]
  BY DEF WorkTyped, ItemBecomes
<1>2. \A end : Throws(end)' <=> Throws(end) BY ModesThrow
<1>3. \A j : Threw(j)' <=> workItem'[j] \in WorkEnds /\ Throws(workItem'[j])
  <2> TAKE j
  <2>1. Threw(j)' <=> workItem'[j] \in WorkEnds /\ Throws(workItem[j])' BY DEF Threw, WorkEnds
  <2>2. Throws(workItem[j])' <=> Throws(workItem'[j]) BY DEF Throws, Unwrapped, SameModes
  <2> QED BY <2>1, <2>2
<1> TAKE j \in WorkNumbers
<1>4. CASE j = i BY <1>1, <1>3, <1>4
<1>5. CASE j # i BY <1>1, <1>3, <1>5 DEF Threw
<1> QED BY <1>4, <1>5

\* A pool threw if an item was refused or ended with a throw, before and after a step.
LEMMA PoolThrewIs ==
  /\ PoolThrew <=> ItemsIn({"refused"}) # {} \/ \E i \in WorkNumbers : Threw(i)
  /\ PoolThrew' <=> ItemsIn({"refused"})' # {} \/ \E i \in WorkNumbers : Threw(i)'
<1>1. PoolThrew <=> ItemsIn({"refused"}) # {} \/ \E i \in WorkNumbers : Threw(i) BY DEF PoolThrew, Threw
<1>2. PoolThrew' <=> ItemsIn({"refused"})' # {} \/ \E i \in WorkNumbers : Threw(i)' BY DEF PoolThrew, Threw
<1> QED BY <1>1, <1>2

\* A worker takes the next item, or ends because the spawn throws.
LEMMA TakeKeeps == ASSUME Batched, NEW i \in WorkNumbers, TakeItem(i) PROVE Batched'
<1> DEFINE stage == IF workStopped = "no" THEN "running" ELSE "refused"
           n == Cardinality(ItemsIn({"running"}))
<1>1. WorkTyped /\ ReportsAgree /\ ReadFirst /\ Manned /\ Outcome BY DEF Batched
<1>2. /\ UNCHANGED <<workMode, workCancel, workRead, workReports, workSpoiled, workStopped, workOutcome>>
      /\ workOutcome = "pending" /\ workItem[i] = "queued" /\ ItemBecomes(i, stage)
      /\ n < workWorkers
      /\ workWorkers' = IF workStopped = "no" THEN workWorkers ELSE workWorkers - 1
  BY DEF TakeItem, ItemBecomes
<1>3. stage \in Stages /\ stage \notin WorkEnds /\ stage # "unread" BY DEF Stages, WorkEnds
<1>4. \A s : ItemsIn(s)' = IF stage \in s THEN ItemsIn(s) \cup {i} ELSE ItemsIn(s) \ {i}
  BY <1>1, <1>2, <1>3, StagesAfter
<1>5. \A s : "queued" \notin s => i \notin ItemsIn(s) BY <1>2 DEF ItemsIn
<1>6. SameModes BY <1>2 DEF SameModes
<1>7. \A j \in WorkNumbers : Threw(j)' <=> Threw(j)
  <2>1. ~Threw(i) BY <1>2 DEF Threw, WorkEnds
  <2> HIDE DEF stage
  <2> QED BY <1>1, <1>2, <1>3, <1>6, <2>1, ThrewAfter
<1>8. ItemsIn({"unread"})' = ItemsIn({"unread"}) BY <1>3, <1>4, <1>5
<1>9. n \in Nat /\ workWorkers \in Nat /\ workWorkers <= WorkLimit /\ WorkLimit \in Nat
  BY <1>1, NumbersFinite DEF WorkTyped
<1>10. WorkTyped'
  <2>1. workItem' \in [WorkNumbers -> Stages] BY <1>1, <1>2, <1>3 DEF WorkTyped, ItemBecomes
  <2>2. workWorkers' \in 0..WorkLimit BY <1>2, <1>9
  <2> QED BY <1>1, <1>2, <2>1, <2>2 DEF WorkTyped
<1>11. ReportsAgree'
  <2>1. ASSUME NEW j \in WorkNumbers PROVE Agrees(workItem'[j], workReports'[j], j \in workSpoiled')
    <3>1. Agrees(workItem[j], workReports[j], j \in workSpoiled) BY <1>1 DEF ReportsAgree
    <3>2. workItem'[j] = IF j = i THEN stage ELSE workItem[j] BY <1>1, <1>2 DEF WorkTyped, ItemBecomes
    <3>3. CASE j = i
      <4>1. workReports[j] = <<>> /\ j \notin workSpoiled
        BY <1>2, <3>1, <3>3 DEF Agrees, WorkEnds
      <4>2. workItem'[j] \notin WorkEnds BY <1>3, <3>2, <3>3
      <4> QED BY <1>2, <4>1, <4>2 DEF Agrees
    <3>4. CASE j # i BY <1>2, <3>1, <3>2, <3>4
    <3> QED BY <3>3, <3>4
  <2> QED BY <2>1 DEF ReportsAgree
<1>12. ReadFirst' BY <1>1, <1>2, <1>8 DEF ReadFirst
<1>13. CASE workStopped = "no"
  <2>1. ItemsIn({"refused"})' = ItemsIn({"refused"}) BY <1>4, <1>5, <1>13
  <2>2. ItemsIn({"running"})' = ItemsIn({"running"}) \cup {i} /\ i \notin ItemsIn({"running"})
    BY <1>4, <1>5, <1>13
  <2>3. Cardinality(ItemsIn({"running"})') = n + 1 BY <2>2, NumbersFinite, FS_AddElement
  <2>4. Cardinality(ItemsIn({"running"}))' = n + 1 BY <2>3
  <2>5. PoolThrew' <=> PoolThrew BY <1>7, <2>1, PoolThrewIs
  <2>6. workWorkers' = workWorkers BY <1>2, <1>13
  <2>7. n + 1 <= workWorkers BY <1>2, <1>9
  <2>8. Manned' BY <1>1, <1>2, <1>7, <1>8, <2>1, <2>4, <2>5, <2>6, <2>7 DEF Manned
  <2>9. Outcome' BY <1>2 DEF Outcome
  <2> QED BY <1>10, <1>11, <1>12, <2>8, <2>9 DEF Batched
<1>14. CASE workStopped # "no"
  <2>1. ItemsIn({"running"})' = ItemsIn({"running"}) /\ ItemsIn({"refused"})' # {}
    BY <1>4, <1>5, <1>14
  <2>2. Cardinality(ItemsIn({"running"}))' = n BY <2>1
  <2>3. PoolThrew' BY <2>1, PoolThrewIs
  <2>4. n <= workWorkers' BY <1>2, <1>9, <1>14
  <2>5. Manned' BY <1>1, <1>2, <1>7, <1>14, <2>2, <2>3, <2>4 DEF Manned
  <2>6. Outcome' BY <1>2 DEF Outcome
  <2> QED BY <1>10, <1>11, <1>12, <2>5, <2>6 DEF Batched
<1> QED BY <1>13, <1>14

\* The end of an item reports it, and settles the call with the last one.
LEMMA EndKeeps ==
  ASSUME Batched, NEW i \in WorkNumbers, NEW end \in WorkEnds, NEW throws \in BOOLEAN, ItemEnds(i, end, throws)
  PROVE  Batched'
<1> DEFINE final == IF throws THEN "failed" ELSE end
           n == Cardinality(ItemsIn({"running"}))
<1>1. WorkTyped /\ ReportsAgree /\ ReadFirst /\ Manned /\ Outcome BY DEF Batched
<1>2. /\ UNCHANGED <<workMode, workCancel, workRead, workOutcome>>
      /\ workOutcome = "pending" /\ workItem[i] = "running" /\ ItemBecomes(i, final)
      /\ workReports' = [workReports EXCEPT ![i] =
           IF throws /\ end \in {"value", "skip"} THEN <<StatusOf(end), "rejected">> ELSE <<StatusOf(end)>>]
      /\ workSpoiled' = IF throws /\ end \in {"timeout", "cancelled"} THEN workSpoiled \cup {i} ELSE workSpoiled
      /\ workWorkers' = IF Throws(final) THEN workWorkers - 1 ELSE workWorkers
      /\ workStopped' = IF Throws(final) /\ final # "cancelled" /\ workStopped = "no" THEN "failure" ELSE workStopped
  BY DEF ItemEnds, ItemBecomes
<1>3. final \in Stages /\ final \in WorkEnds BY DEF Stages, WorkEnds
<1>4. \A s : ItemsIn(s)' = IF final \in s THEN ItemsIn(s) \cup {i} ELSE ItemsIn(s) \ {i}
  <2> HIDE DEF final
  <2> QED BY <1>1, <1>2, <1>3, StagesAfter
<1>5. \A s : ("running" \in s <=> i \in ItemsIn(s)) BY <1>2 DEF ItemsIn
<1>6. SameModes BY <1>2 DEF SameModes
<1>7. \A j \in WorkNumbers : Threw(j)' <=> IF j = i THEN Throws(final) ELSE Threw(j)
  <2> HIDE DEF final
  <2> QED BY <1>1, <1>2, <1>3, <1>6, ThrewAfter
<1>8. ~Threw(i) BY <1>2 DEF Threw, WorkEnds
<1>9. ItemsIn({"unread"})' = ItemsIn({"unread"}) /\ ItemsIn({"refused"})' = ItemsIn({"refused"})
      /\ ItemsIn({"running"})' = ItemsIn({"running"}) \ {i} /\ i \in ItemsIn({"running"})
  <2>1. final \notin {"unread"} /\ final \notin {"refused"} /\ final \notin {"running"} BY <1>3 DEF WorkEnds
  <2> HIDE DEF final
  <2> QED BY <1>4, <1>5, <2>1
<1>10. Cardinality(ItemsIn({"running"}))' = n - 1 /\ n \in Nat /\ n > 0
  <2>1. Cardinality(ItemsIn({"running"}) \ {i}) = n - 1 BY <1>9, NumbersFinite, FS_RemoveElement
  <2>2. Cardinality(ItemsIn({"running"}) \ {i}) \in Nat /\ n \in Nat
    BY NumbersFinite, FS_RemoveElement, FS_CardinalityType
  <2>3. Cardinality(ItemsIn({"running"})') = n - 1 BY <1>9, <2>1
  <2> QED BY <2>1, <2>2, <2>3
<1>11. n <= workWorkers /\ workWorkers \in Nat /\ workWorkers <= WorkLimit /\ WorkLimit \in Nat
  BY <1>1, NumbersFinite DEF WorkTyped, Manned
<1> HIDE DEF n
<1>12. workWorkers' \in 0..WorkLimit /\ n - 1 <= workWorkers' BY <1>2, <1>10, <1>11
<1>13. workStopped' \in {"no", "failure", "item"} BY <1>1, <1>2 DEF WorkTyped
<1>14. StatusOf(end) \in Statuses BY DEF StatusOf, Statuses
<1>15. WorkTyped'
  <2>1. workItem' \in [WorkNumbers -> Stages]
    <3> HIDE DEF final
    <3> QED BY <1>1, <1>2, <1>3 DEF WorkTyped, ItemBecomes
  <2>2. workReports' \in [WorkNumbers -> Seq(Statuses)]
    <3>1. <<StatusOf(end), "rejected">> \in Seq(Statuses) /\ <<StatusOf(end)>> \in Seq(Statuses)
      BY <1>14 DEF Statuses
    <3> QED BY <1>1, <1>2, <3>1 DEF WorkTyped
  <2>3. workSpoiled' \subseteq WorkNumbers BY <1>1, <1>2 DEF WorkTyped
  <2> HIDE DEF final
  <2> QED BY <1>1, <1>2, <1>12, <1>13, <2>1, <2>2, <2>3 DEF WorkTyped
<1>16. ReportsAgree'
  <2>1. ASSUME NEW j \in WorkNumbers PROVE Agrees(workItem'[j], workReports'[j], j \in workSpoiled')
    <3>1. Agrees(workItem[j], workReports[j], j \in workSpoiled) BY <1>1 DEF ReportsAgree
    <3>2. CASE j # i
      <4>1. workItem'[j] = workItem[j] BY <1>1, <1>2, <3>2 DEF WorkTyped, ItemBecomes
      <4>2. workReports'[j] = workReports[j] BY <1>1, <1>2, <3>2 DEF WorkTyped
      <4>3. j \in workSpoiled' <=> j \in workSpoiled BY <1>2, <3>2
      <4> QED BY <3>1, <4>1, <4>2, <4>3 DEF Agrees
    <3>3. CASE j = i
      <4>1. workItem'[i] = final BY <1>1, <1>2 DEF WorkTyped, ItemBecomes
      <4>2. i \notin workSpoiled BY <1>2, <3>1, <3>3 DEF Agrees, WorkEnds
      <4>3. workReports'[i] = IF throws /\ end \in {"value", "skip"} THEN <<StatusOf(end), "rejected">>
                              ELSE <<StatusOf(end)>>
        BY <1>1, <1>2 DEF WorkTyped
      <4>4. i \in workSpoiled' <=> throws /\ end \in {"timeout", "cancelled"} BY <1>2, <4>2
      <4>5. \A a, b : /\ <<a, b>> # <<>> /\ Last(<<a, b>>) = b /\ <<a>> # <<>> /\ Last(<<a>>) = a
        BY DEF Last
      <4>6. CASE ~throws /\ end = "value"
        <5>1. StatusOf(end) = "fulfilled" BY <4>6 DEF StatusOf
        <5> QED BY <3>3, <4>1, <4>3, <4>4, <4>5, <4>6, <5>1 DEF Agrees, WorkEnds
      <4>7. CASE ~throws /\ end = "failed"
        <5>1. StatusOf(end) = "rejected" BY <4>7 DEF StatusOf
        <5> QED BY <3>3, <4>1, <4>3, <4>4, <4>5, <4>7, <5>1 DEF Agrees, WorkEnds
      <4>8. CASE ~throws /\ end \in {"skip", "timeout", "cancelled"}
        <5>1. StatusOf(end) = "cancelled" BY <4>8 DEF StatusOf
        <5>2. workReports'[i] = <<"cancelled">> /\ workItem'[i] = end /\ i \notin workSpoiled'
          BY <4>1, <4>3, <4>4, <4>8, <5>1
        <5>3. end \in WorkEnds /\ end # "value" /\ end # "failed" BY <4>8
        <5> QED BY <3>3, <4>5, <4>8, <5>2, <5>3 DEF Agrees
      <4>9. CASE throws /\ end \in {"value", "skip"}
        <5>1. workReports'[i] = <<StatusOf(end), "rejected">> /\ workItem'[i] = "failed" /\ i \notin workSpoiled'
          BY <4>1, <4>3, <4>4, <4>9
        <5> QED BY <3>3, <4>5, <5>1 DEF Agrees, WorkEnds
      <4>10. CASE throws /\ end \in {"timeout", "cancelled"}
        <5>1. StatusOf(end) = "cancelled" BY <4>10 DEF StatusOf
        <5>2. workReports'[i] = <<"cancelled">> /\ workItem'[i] = "failed" /\ i \in workSpoiled'
          BY <4>1, <4>3, <4>4, <4>10, <5>1
        <5> QED BY <3>3, <4>5, <5>2 DEF Agrees, WorkEnds
      <4>11. CASE throws /\ end = "failed"
        <5>1. StatusOf(end) = "rejected" BY <4>11 DEF StatusOf
        <5>2. workReports'[i] = <<"rejected">> /\ workItem'[i] = "failed" /\ i \notin workSpoiled'
          BY <4>1, <4>3, <4>4, <4>11, <5>1
        <5> QED BY <3>3, <4>5, <5>2 DEF Agrees, WorkEnds
      <4>12. throws = TRUE \/ throws = FALSE OBVIOUS
      <4> QED BY <4>6, <4>7, <4>8, <4>9, <4>10, <4>11, <4>12 DEF WorkEnds
    <3> QED BY <3>2, <3>3
  <2> QED BY <2>1 DEF ReportsAgree
<1> HIDE DEF final
<1>17. ReadFirst' BY <1>1, <1>2, <1>9 DEF ReadFirst
<1>18. Manned'
  <2>1. ~PoolThrew' => ~PoolThrew /\ ~Throws(final)
    <3>1. SUFFICES ASSUME ~PoolThrew' PROVE ~PoolThrew /\ ~Throws(final) OBVIOUS
    <3>2. ItemsIn({"refused"}) = {} /\ \A j \in WorkNumbers : ~Threw(j)' BY <1>9, <3>1, PoolThrewIs
    <3>3. ~Throws(final) /\ \A j \in WorkNumbers : ~Threw(j) BY <1>7, <1>8, <3>2
    <3> QED BY <3>2, <3>3, PoolThrewIs
  <2>2. ItemsIn({"unread"})' = {} /\ ~PoolThrew' => workWorkers' > 0
    BY <1>1, <1>2, <1>9, <2>1 DEF Manned
  <2>3. workStopped' = "failure" => \E j \in WorkNumbers : Threw(j)'
    <3>1. CASE workStopped = "failure"
      <4>1. PICK j \in WorkNumbers : Threw(j) BY <1>1, <3>1 DEF Manned
      <4> QED BY <1>7, <1>8, <4>1
    <3>2. CASE Throws(final) BY <1>7, <3>2
    <3> QED BY <1>2, <3>1, <3>2
  <2>4. ItemsIn({"refused"})' # {} => workStopped' # "no" BY <1>1, <1>2, <1>9 DEF Manned
  <2>5. Cardinality(ItemsIn({"running"}))' <= workWorkers' BY <1>10, <1>12
  <2> QED BY <2>2, <2>3, <2>4, <2>5 DEF Manned
<1>19. Outcome' BY <1>2 DEF Outcome
<1> QED BY <1>15, <1>16, <1>17, <1>18, <1>19 DEF Batched

\* The steps that leave the items alone.
LEMMA StillKeeps ==
  ASSUME Batched, ItemCancelsGroup \/ CallerAborts \/ PoolReturns \/ UNCHANGED workVars
  PROVE  Batched'
<1>1. WorkTyped /\ ReportsAgree /\ ReadFirst /\ Manned /\ Outcome BY DEF Batched
<1>2. /\ UNCHANGED <<workMode, workCancel, workRead, workItem, workReports, workSpoiled, workWorkers>>
      /\ workStopped' = workStopped \/ (workStopped = "no" /\ workStopped' = "item")
      /\ workOutcome' = workOutcome \/ PoolReturns
  BY DEF ItemCancelsGroup, CallerAborts, PoolReturns, workVars
<1>3. \A s : ItemsIn(s)' = ItemsIn(s) BY <1>2 DEF ItemsIn
<1>4. \A i : Threw(i)' <=> Threw(i) BY <1>2, ModesThrow DEF Threw, SameModes
<1>5. PoolThrew' <=> PoolThrew BY <1>3, <1>4, PoolThrewIs
<1>6. WorkTyped'
  <2>1. workOutcome' \in {"pending", "thrown", "unexpected", "returned"} BY <1>1, <1>2 DEF PoolReturns, WorkTyped
  <2>2. workStopped' \in {"no", "failure", "item"} BY <1>1, <1>2 DEF WorkTyped
  <2> QED BY <1>1, <1>2, <2>1, <2>2 DEF WorkTyped
<1>7. ReportsAgree' BY <1>1, <1>2 DEF ReportsAgree
<1>8. ReadFirst' BY <1>1, <1>2, <1>3 DEF ReadFirst
<1>9. Manned' BY <1>1, <1>2, <1>3, <1>4, <1>5 DEF Manned
<1>10. Outcome'
  <2>1. CASE PoolReturns
    <3>1. ItemsIn({"unread", "running"}) = {} /\ (workWorkers = 0 \/ ItemsIn({"queued"}) = {})
          /\ workOutcome' \in {"thrown", "unexpected", "returned"} /\ (workOutcome' = "thrown" <=> PoolThrew)
      BY <2>1 DEF PoolReturns
    <3>2. ItemsIn({"unread"}) = {} /\ ItemsIn({"running"}) = {} BY <3>1 DEF ItemsIn
    <3>3. ASSUME ~PoolThrew, NEW i \in WorkNumbers PROVE workItem[i] \in WorkEnds
      <4>1. workWorkers > 0 /\ workWorkers # 0 BY <1>1, <3>2, <3>3 DEF Manned
      <4>2. ItemsIn({"queued"}) = {} /\ ItemsIn({"refused"}) = {} BY <3>1, <3>3, <4>1, PoolThrewIs
      <4>3. workItem[i] \notin {"unread", "running", "queued", "refused"} BY <3>2, <4>2 DEF ItemsIn
      <4> QED BY <1>1, <4>3 DEF WorkTyped, Stages
    <3> QED BY <1>2, <1>3, <1>5, <3>1, <3>2, <3>3 DEF Outcome
  <2>2. CASE workOutcome' = workOutcome BY <1>1, <1>2, <1>3, <1>5, <2>2 DEF Outcome
  <2> QED BY <1>2, <2>1, <2>2
<1> QED BY <1>6, <1>7, <1>8, <1>9, <1>10 DEF Batched

\* For any number of items and any parallelism, what a batch returns is what its items
\* did: work(...).do() and collect(), work/index.ts.
THEOREM BatchesAreTrue ==
  WorkInit({"do", "collect"}, {"fail", "continue", "collect"}, {"throw", "partial"}, "pending")
    /\ [][WorkNext]_workVars => []WorkTruth
<1>1. Batched /\ [WorkNext]_workVars => Batched'
  <2> SUFFICES ASSUME Batched, [WorkNext]_workVars PROVE Batched' OBVIOUS
  <2>1. CASE ReadItem BY <2>1, ReadKeeps
  <2>2. CASE SourceEnds BY <2>2, SourceEndKeeps
  <2>3. ASSUME NEW i \in WorkNumbers, TakeItem(i) PROVE Batched' BY <2>3, TakeKeeps
  <2>4. ASSUME NEW i \in WorkNumbers, SomeEnd(i) PROVE Batched'
    <3>1. PICK end \in WorkEnds, throws \in BOOLEAN : ItemEnds(i, end, throws) BY <2>4 DEF SomeEnd
    <3> QED BY <3>1, EndKeeps
  <2>5. CASE ItemCancelsGroup \/ CallerAborts \/ PoolReturns \/ UNCHANGED workVars BY <2>5, StillKeeps
  <2> QED BY <2>1, <2>2, <2>3, <2>4, <2>5 DEF WorkNext
<1> QED BY <1>1, WorkInitBatched, BatchedIsTrue, PTL


(***************************************************************************)
(* Budgets (Ambient).  The walk up from a charge ends at the highest ancestor *)
(* that shows the cell; what is below it are those that share the cell from *)
(* parent to child, and all below them.                                     *)
(***************************************************************************)
\* Every scope has its parent before it, so that a lineage is defined.
Forest == budParent \in [TheScopes -> 0..BudScopes] /\ \A s \in TheScopes : budParent[s] < s

LineOf(g, p, s) == IF s = 0 THEN {} ELSE {s} \cup g[p[s]]
Lines(g, p, n) == g = [s \in 0..n |-> LineOf(g, p, s)]

\* The recursive lineage is defined for every number of scopes.
LEMMA LinesDefined ==
  ASSUME NEW N \in Nat, NEW p \in [1..N -> Nat], \A s \in 1..N : p[s] < s
  PROVE  \E g : Lines(g, p, N)
<1> DEFINE T == {n \in Nat : n <= N => \E g : Lines(g, p, n)}
<1>1. 0 \in T
  <2> DEFINE g == [s \in 0..0 |-> {}]
  <2>1. Lines(g, p, 0) BY DEF Lines, LineOf
  <2> QED BY <2>1
<1>2. ASSUME NEW n \in T PROVE n + 1 \in T
  <2>1. SUFFICES ASSUME n + 1 <= N PROVE \E h : Lines(h, p, n + 1) OBVIOUS
  <2>2. n \in Nat /\ n <= N BY <2>1
  <2>3. PICK g : Lines(g, p, n) BY <2>2
  <2> DEFINE m == n + 1
             h == [s \in 0..m |-> IF s = m THEN {m} \cup g[p[m]] ELSE g[s]]
  <2>4. m \in 1..N /\ p[m] \in 0..n BY <2>1, <2>2
  <2>5. \A s \in 0..m : h[s] = LineOf(h, p, s)
    <3> TAKE s \in 0..m
    <3>1. CASE s = m
      <4>1. h[s] = {m} \cup g[p[m]] /\ p[m] # m /\ p[m] \in 0..m /\ s # 0 BY <2>2, <2>4, <3>1
      <4>2. h[p[m]] = g[p[m]] BY <4>1
      <4> QED BY <3>1, <4>1, <4>2 DEF LineOf
    <3>2. CASE s = 0
      <4>1. 0 \in 0..n /\ h[s] = g[0] BY <2>2, <3>2
      <4>2. g[0] = LineOf(g, p, 0) BY <2>3, <4>1 DEF Lines
      <4> QED BY <3>2, <4>1, <4>2 DEF LineOf
    <3>3. CASE s # m /\ s # 0
      <4>1. s \in 1..n /\ s \in 0..n /\ s \in 1..N BY <2>2, <3>3
      <4>2. p[s] \in 0..n /\ p[s] # m /\ p[s] \in 0..m BY <2>2, <4>1
      <4>3. h[s] = g[s] /\ h[p[s]] = g[p[s]] BY <3>3, <4>1, <4>2
      <4>4. g[s] = LineOf(g, p, s) BY <2>3, <4>1 DEF Lines
      <4> QED BY <4>3, <4>4 DEF LineOf
    <3> QED BY <3>1, <3>2, <3>3
  <2>6. h = [s \in 0..m |-> h[s]] OBVIOUS
  <2> HIDE DEF h
  <2>7. Lines(h, p, m) BY <2>5, <2>6 DEF Lines
  <2> QED BY <2>7
<1>3. T \in SUBSET Nat OBVIOUS
<1> HIDE DEF T
<1>4. T = Nat BY <1>1, <1>2, <1>3, AllNat
<1>5. N \in T BY <1>4
<1> QED BY <1>5 DEF T

\* The line of a scope is the scope and the line of its parent.
LEMMA LineageDefined ==
  ASSUME Forest
  PROVE  /\ Lineage[0] = {}
         /\ \A s \in TheScopes : Lineage[s] = {s} \cup Lineage[budParent[s]]
<1>1. BudScopes \in Nat /\ budParent \in [1..BudScopes -> Nat] /\ \A s \in 1..BudScopes : budParent[s] < s
  BY BudgetsAssumption DEF Forest, TheScopes
<1>2. \E g : Lines(g, budParent, BudScopes) BY <1>1, LinesDefined
<1> DEFINE F == CHOOSE g : Lines(g, budParent, BudScopes)
<1>3. Lines(F, budParent, BudScopes) BY <1>2
<1>4. Lineage = F BY DEF Lineage, Lines, LineOf
<1>5. Lines(Lineage, budParent, BudScopes) BY <1>3, <1>4
<1> HIDE DEF F
<1>6. \A s \in 0..BudScopes : Lineage[s] = LineOf(Lineage, budParent, s) BY <1>5 DEF Lines
<1>7. 0 \in 0..BudScopes /\ \A s \in TheScopes : s \in 0..BudScopes /\ s # 0 BY <1>1 DEF TheScopes
<1> QED BY <1>6, <1>7 DEF LineOf
----------------------------------------------------------------------------
\* A scope is in its lineage, and the others in it were opened before it.
LEMMA LineageBefore ==
  ASSUME Forest
  PROVE  \A s \in 0..BudScopes : /\ Lineage[s] \subseteq 1..s /\ Lineage[s] \subseteq TheScopes
                                 /\ s # 0 => s \in Lineage[s]
<1> DEFINE T == {s \in 0..BudScopes : Lineage[s] \subseteq 1..s}
<1>1. BudScopes \in Nat BY BudgetsAssumption
<1>2. ASSUME NEW s \in 0..BudScopes, \A r \in 0..BudScopes : r < s => r \in T PROVE s \in T
  <2>1. CASE s = 0 BY <2>1, LineageDefined
  <2>2. CASE s # 0
    <3>1. s \in TheScopes BY <1>1, <2>2 DEF TheScopes
    <3>2. budParent[s] \in 0..BudScopes /\ budParent[s] < s BY <3>1 DEF Forest
    <3>3. Lineage[budParent[s]] \subseteq 1..budParent[s] BY <1>2, <3>2
    <3>4. 1..budParent[s] \subseteq 1..s /\ s \in 1..s BY <1>1, <2>2, <3>2
    <3>5. Lineage[s] = {s} \cup Lineage[budParent[s]] BY <3>1, LineageDefined
    <3> QED BY <3>3, <3>4, <3>5
  <2> QED BY <2>1, <2>2
<1> HIDE DEF T
<1>3. \A s \in 0..BudScopes : s \in T BY <1>1, <1>2, UpTo
<1>4. ASSUME NEW s \in 0..BudScopes PROVE 1..s \subseteq TheScopes /\ (s # 0 => s \in TheScopes)
  BY <1>1 DEF TheScopes
<1>5. ASSUME NEW s \in 0..BudScopes, s # 0 PROVE s \in Lineage[s] BY <1>4, <1>5, LineageDefined
<1> QED BY <1>3, <1>4, <1>5 DEF T

\* The lineage of an ancestor is a part, the part up to it, and every other
\* ancestor has a child in the lineage.
LEMMA LineageNested ==
  ASSUME Forest
  PROVE  \A s \in 0..BudScopes : \A a \in Lineage[s] :
           /\ Lineage[a] \subseteq Lineage[s]
           /\ \A b \in Lineage[s] : b <= a => b \in Lineage[a]
           /\ a # s => \E c \in Lineage[s] : budParent[c] = a
<1> DEFINE Holds(s) == \A a \in Lineage[s] :
             /\ Lineage[a] \subseteq Lineage[s]
             /\ \A b \in Lineage[s] : b <= a => b \in Lineage[a]
             /\ a # s => \E c \in Lineage[s] : budParent[c] = a
           T == {s \in 0..BudScopes : Holds(s)}
<1>1. BudScopes \in Nat BY BudgetsAssumption
<1>2. ASSUME NEW s \in 0..BudScopes, \A r \in 0..BudScopes : r < s => r \in T PROVE Holds(s)
  <2>1. CASE s = 0
    <3>1. Lineage[s] = {} BY <2>1, LineageDefined
    <3> QED BY <3>1
  <2>2. CASE s # 0
    <3> DEFINE p == budParent[s]
    <3>1. s \in TheScopes BY <1>1, <2>2 DEF TheScopes
    <3>2. p \in 0..BudScopes /\ p < s BY <3>1 DEF Forest
    <3>3. Holds(p) BY <1>2, <3>2
    <3>4. Lineage[s] = {s} \cup Lineage[p] BY <3>1, LineageDefined
    <3>5. Lineage[p] \subseteq 1..p BY <3>2, LineageBefore
    <3> SUFFICES ASSUME NEW a \in Lineage[s]
                 PROVE  /\ Lineage[a] \subseteq Lineage[s]
                        /\ \A b \in Lineage[s] : b <= a => b \in Lineage[a]
                        /\ a # s => \E c \in Lineage[s] : budParent[c] = a
      OBVIOUS
    <3>6. CASE a = s BY <3>6
    <3>7. CASE a # s
      <4>1. a \in Lineage[p] BY <3>4, <3>7
      <4>2. /\ Lineage[a] \subseteq Lineage[p]
            /\ \A b \in Lineage[p] : b <= a => b \in Lineage[a]
            /\ a # p => \E c \in Lineage[p] : budParent[c] = a
        BY <3>3, <4>1
      <4>3. Lineage[a] \subseteq Lineage[s] BY <3>4, <4>2
      <4>4. ASSUME NEW b \in Lineage[s], b <= a PROVE b \in Lineage[a]
        <5>1. b # s
          <6>1. a \in 1..p BY <3>5, <4>1
          <6>2. p \in Nat /\ s \in Nat BY <1>1, <3>2
          <6> QED BY <3>2, <4>4, <6>1, <6>2
        <5> QED BY <3>4, <4>2, <4>4, <5>1
      <4>5. \E c \in Lineage[s] : budParent[c] = a
        <5>1. CASE a = p
          <6>1. s \in Lineage[s] /\ budParent[s] = a BY <3>4, <5>1
          <6> QED BY <6>1
        <5>2. CASE a # p BY <3>4, <4>2, <5>2
        <5> QED BY <5>1, <5>2
      <4> QED BY <4>3, <4>4, <4>5
    <3> QED BY <3>6, <3>7
  <2> QED BY <2>1, <2>2
<1> HIDE DEF Holds
<1>3. \A s \in 0..BudScopes : (\A r \in 0..BudScopes : r < s => r \in T) => s \in T BY <1>2
<1> HIDE DEF T
<1>4. \A s \in 0..BudScopes : s \in T BY <1>1, <1>3, UpTo
<1> QED BY <1>4 DEF T, Holds

\* The walk ends at the highest ancestor that shows the cell.
Owns(s, o) ==
  /\ o \in Lineage[s] /\ SameCellUpTo(s, o)
  /\ budParent[o] = 0 \/ budCell[budParent[o]] # budCell[s]
\* The walk of findBudgetOwner() ends at the scope that made the cell.
LEMMA OwnerOwns ==
  ASSUME Forest, NEW s \in TheScopes
  PROVE  Owns(s, Owner(s))
<1> DEFINE A == {a \in Lineage[s] : SameCellUpTo(s, a)}
<1>1. BudScopes \in Nat /\ s \in 0..BudScopes /\ s # 0 /\ s \in Nat BY BudgetsAssumption DEF TheScopes
<1>2. Lineage[s] \subseteq 1..s /\ Lineage[s] \subseteq TheScopes /\ s \in Lineage[s] BY <1>1, LineageBefore
<1>3. A \in SUBSET Nat BY <1>1, <1>2
<1>4. s \in A
  <2>1. ASSUME NEW b \in Lineage[s], b >= s PROVE b = s BY <1>1, <1>2, <2>1
  <2> QED BY <1>2, <2>1 DEF SameCellUpTo
<1>5. PICK m \in A : \A y \in A : m <= y BY <1>3, <1>4, Least
<1>6. m \in Lineage[s] /\ SameCellUpTo(s, m) /\ m \in TheScopes BY <1>2, <1>5
<1>7. budParent[m] = 0 \/ budCell[budParent[m]] # budCell[s]
  <2> DEFINE p == budParent[m]
  <2> SUFFICES ASSUME p # 0, budCell[p] = budCell[s] PROVE FALSE OBVIOUS
  <2>1. p \in TheScopes /\ p < m /\ p \in Nat /\ m \in Nat
    BY <1>1, <1>6 DEF Forest, TheScopes
  <2>2. Lineage[m] = {m} \cup Lineage[p] /\ p \in Lineage[p] /\ Lineage[p] \subseteq 1..p
    <3>1. p \in 0..BudScopes BY <2>1 DEF TheScopes
    <3> QED BY <1>6, <3>1, LineageDefined, LineageBefore
  <2>3. Lineage[m] \subseteq Lineage[s] BY <1>1, <1>6, LineageNested
  <2>4. p \in Lineage[s] BY <2>2, <2>3
  <2>5. ASSUME NEW b \in Lineage[s], b >= p PROVE budCell[b] = budCell[s]
    <3>1. b \in Nat BY <1>2
    <3>2. CASE b >= m BY <1>6, <3>2 DEF SameCellUpTo
    <3>3. CASE ~(b >= m)
      <4>1. b <= m /\ b # m BY <2>1, <3>1, <3>3
      <4>2. b \in Lineage[m] BY <1>1, <1>6, <4>1, LineageNested
      <4>3. b \in 1..p BY <2>2, <4>1, <4>2
      <4>4. b = p BY <2>1, <2>5, <4>3
      <4> QED BY <4>4
    <3> QED BY <3>2, <3>3
  <2>6. p \in A BY <2>4, <2>5 DEF SameCellUpTo
  <2> QED BY <1>5, <2>1, <2>6
<1>8. \E a \in Lineage[s] : SameCellUpTo(s, a) /\ (budParent[a] = 0 \/ budCell[budParent[a]] # budCell[s])
  BY <1>6, <1>7
<1> HIDE DEF A
<1> QED BY <1>8 DEF Owner, Owns

\* What is below the owner holds together all that shows its cell and hangs together
\* with the scope that was refused.
LEMMA OwnersFamily ==
  ASSUME Forest, NEW s \in TheScopes, NEW o, Owns(s, o)
  PROVE  \E S \in SUBSET Below(o) : s \in S /\ HangTogether(S) /\ UNION {Below(d) : d \in S} \subseteq Below(o)
<1> DEFINE S == {d \in Below(o) : SameCellUpTo(d, o) /\ budCell[d] = budCell[s]}
<1>1. BudScopes \in Nat /\ \A d \in TheScopes : d \in 0..BudScopes /\ d # 0 BY BudgetsAssumption DEF TheScopes
<1>2. o \in Lineage[s] /\ SameCellUpTo(s, o) /\ (budParent[o] = 0 \/ budCell[budParent[o]] # budCell[s])
  BY DEF Owns
<1>3. \A d \in TheScopes : d \in Lineage[d] /\ Lineage[d] \subseteq 1..d /\ Lineage[d] \subseteq TheScopes
  BY <1>1, LineageBefore
<1>4. o \in TheScopes BY <1>2, <1>3
<1>5. s \in S BY <1>2 DEF Below
<1>6. ASSUME NEW d \in S, NEW e \in TheScopes, Neighbours(d, e) PROVE e \in S
  <2>1. d \in TheScopes /\ o \in Lineage[d] /\ SameCellUpTo(d, o) /\ budCell[d] = budCell[s] /\ budCell[e] = budCell[s]
    BY <1>6 DEF Below, Neighbours
  <2>2. CASE budParent[d] = e
    <3>1. d # o
      <4>1. e # 0 BY <1>1
      <4> QED BY <1>2, <2>1, <2>2, <4>1
    <3>2. Lineage[d] = {d} \cup Lineage[e] BY <2>1, <2>2, LineageDefined
    <3>3. o \in Lineage[e] BY <2>1, <3>1, <3>2
    <3>4. SameCellUpTo(e, o) BY <2>1, <3>2 DEF SameCellUpTo
    <3> QED BY <2>1, <3>3, <3>4 DEF Below
  <2>3. CASE budParent[e] = d
    <3>1. Lineage[e] = {e} \cup Lineage[d] BY <2>3, LineageDefined
    <3>2. o \in Lineage[e] BY <2>1, <3>1
    <3>3. SameCellUpTo(e, o) BY <2>1, <3>1 DEF SameCellUpTo
    <3> QED BY <2>1, <3>2, <3>3 DEF Below
  <2> QED BY <1>6, <2>2, <2>3 DEF Neighbours
<1>7. HangTogether(S) BY <1>6 DEF HangTogether
<1>8. ASSUME NEW d \in S PROVE Below(d) \subseteq Below(o)
  <2> SUFFICES ASSUME NEW e \in TheScopes, d \in Lineage[e] PROVE o \in Lineage[e] BY DEF Below
  <2>1. Lineage[d] \subseteq Lineage[e] BY <1>1, LineageNested
  <2> QED BY <2>1 DEF Below
<1>9. S \in SUBSET Below(o) OBVIOUS
<1> HIDE DEF S
<1> QED BY <1>5, <1>7, <1>8, <1>9

\* And the owner is in every such family.
LEMMA OwnerInFamily ==
  ASSUME Forest, NEW s \in TheScopes, NEW o, Owns(s, o),
         NEW S \in SUBSET TheScopes, s \in S, HangTogether(S)
  PROVE  o \in S
<1> DEFINE B == {b \in Lineage[s] : b >= o /\ b \notin S}
           D == {s - b : b \in B}
<1>1. BudScopes \in Nat /\ s \in 0..BudScopes /\ s # 0 /\ s \in Nat BY BudgetsAssumption DEF TheScopes
<1>2. Lineage[s] \subseteq 1..s /\ Lineage[s] \subseteq TheScopes /\ s \in Lineage[s] BY <1>1, LineageBefore
<1>3. o \in Lineage[s] /\ SameCellUpTo(s, o) BY DEF Owns
<1>4. SUFFICES ASSUME B # {} PROVE FALSE
  <2>1. o >= o BY <1>2, <1>3
  <2> QED BY <1>3, <1>4, <2>1
<1>5. D \in SUBSET Nat
  <2>1. \A b \in Lineage[s] : s - b \in Nat BY <1>1, <1>2
  <2> QED BY <2>1
<1>6. D # {} BY <1>4
<1>7. PICK n \in D : \A y \in D : n <= y BY <1>5, <1>6, Least
<1>8. PICK b \in B : n = s - b BY <1>7
<1>9. b \in Lineage[s] /\ b >= o /\ b \notin S /\ b # s OBVIOUS
<1>10. PICK c \in Lineage[s] : budParent[c] = b BY <1>1, <1>9, LineageNested
<1>11. c \in TheScopes /\ c \in Nat /\ b \in Nat /\ o \in Nat /\ b < c /\ b \in TheScopes
  BY <1>2, <1>3, <1>9, <1>10 DEF Forest
<1>12. c >= o BY <1>9, <1>11
<1>13. c \in S
  <2>1. SUFFICES ASSUME c \in B PROVE FALSE BY <1>12
  <2>2. n <= s - c BY <1>7, <2>1
  <2> QED BY <1>1, <1>8, <1>11, <2>2
<1>14. budCell[c] = budCell[s] /\ budCell[b] = budCell[s] BY <1>3, <1>9, <1>12 DEF SameCellUpTo
<1>15. Neighbours(c, b) BY <1>10, <1>14 DEF Neighbours
<1>16. b \in S BY <1>11, <1>13, <1>15 DEF HangTogether
<1> QED BY <1>9, <1>16
----------------------------------------------------------------------------
\* A refused charge aborted all below the owner, and nothing else was.
Charged ==
  /\ Forest
  /\ budCell \in [TheScopes -> 0..BudCells]
  /\ budSpent \in [Cells -> Nat] /\ \A c \in Cells : budSpent[c] <= BudLimit
  /\ budRefused \subseteq TheScopes /\ budAborted \subseteq TheScopes
  /\ \A s \in budRefused : Below(Owner(s)) \subseteq budAborted
  /\ \A d \in budAborted : \E s \in budRefused : Owner(s) \in Lineage[d]

\* A charge goes to one cell; a refused one cancels the scope that owns the cell.
LEMMA ChargeCharged ==
  ASSUME Charged, NEW s \in TheScopes, NEW amount \in 1..(BudLimit + 1), Charge(s, amount)
  PROVE  Charged'
<1> DEFINE c == budCell[s]
<1>1. budParent' = budParent /\ budCell' = budCell /\ c # 0 BY DEF Charge
<1>2. Lineage' = Lineage BY <1>1 DEF Lineage
<1>3. \A a, b : SameCellUpTo(a, b)' = SameCellUpTo(a, b) BY <1>1, <1>2 DEF SameCellUpTo
<1>4. \A a \in TheScopes : Owner(a)' = Owner(a) BY <1>1, <1>2 DEF Owner, SameCellUpTo
<1>5. \A a : Below(a)' = Below(a) BY <1>2 DEF Below
<1>6. c \in Cells /\ budSpent[c] \in Nat /\ amount \in Nat /\ BudLimit \in Nat
  BY <1>1, BudgetsAssumption DEF Charged, Cells
<1>7. Forest' BY <1>1 DEF Forest, Charged
<1>8. CASE budSpent[c] + amount > BudLimit
  <2>1. budSpent' = budSpent /\ budRefused' = budRefused \cup {s} /\ budAborted' = budAborted \cup Below(Owner(s))
    BY <1>8 DEF Charge
  <2>2. \A a \in TheScopes : Below(Owner(a))' = Below(Owner(a)) BY <1>4, <1>5
  <2>3. \A a \in budRefused' : Below(Owner(a))' \subseteq budAborted' BY <2>1, <2>2 DEF Charged
  <2>4. \A d \in budAborted' : \E a \in budRefused' : Owner(a)' \in Lineage'[d]
    BY <1>2, <1>4, <2>1 DEF Charged, Below
  <2> QED BY <1>1, <1>7, <2>1, <2>3, <2>4 DEF Charged, Below
<1>9. CASE ~(budSpent[c] + amount > BudLimit)
  <2>1. budSpent' = [budSpent EXCEPT ![c] = @ + amount] /\ budRefused' = budRefused /\ budAborted' = budAborted
    BY <1>9 DEF Charge
  <2>2. budSpent[c] + amount \in Nat /\ budSpent[c] + amount <= BudLimit BY <1>6, <1>9
  <2>3. budSpent' \in [Cells -> Nat] /\ \A x \in Cells : budSpent'[x] <= BudLimit
    BY <1>6, <2>1, <2>2 DEF Charged
  <2>4. \A a \in budRefused' : Below(Owner(a))' \subseteq budAborted' BY <1>4, <1>5, <2>1 DEF Charged
  <2>5. \A d \in budAborted' : \E a \in budRefused' : Owner(a)' \in Lineage'[d]
    BY <1>2, <1>4, <2>1 DEF Charged
  <2> QED BY <1>1, <1>7, <2>1, <2>3, <2>4, <2>5 DEF Charged
<1> QED BY <1>8, <1>9

\* No cell is overspent; a refused charge aborts the scopes that share the cell from parent
\* to child with all below them, and no other (engine/scope.ts), in any forest of scopes.
THEOREM BudgetsAreTrue ==
  ASSUME NEW CONSTANT all \in BOOLEAN
  PROVE  BudgetsInit(all) /\ [][BudgetsNext]_budVars => []BudgetTruth
<1>1. BudgetsInit(all) => Charged
  <2> SUFFICES ASSUME BudgetsInit(all) PROVE Charged OBVIOUS
  <2>1. budParent \in [TheScopes -> 0..BudScopes] /\ (\A s \in TheScopes : budParent[s] < s)
        /\ budCell \in [TheScopes -> 0..BudCells] /\ budSpent = [c \in Cells |-> 0]
        /\ budAborted = {} /\ budRefused = {}
    <3>1. \A s \in TheScopes : 0 < s /\ 0 \in 0..BudScopes /\ 0 \in 0..BudCells
      BY BudgetsAssumption DEF TheScopes
    <3>2. CASE all BY <3>2 DEF BudgetsInit
    <3>3. CASE ~all
      <4>1. budParent = [s \in TheScopes |-> 0] /\ budCell = [s \in TheScopes |-> 0] BY <3>3 DEF BudgetsInit
      <4> QED BY <3>1, <4>1 DEF BudgetsInit
    <3> QED BY <3>2, <3>3
  <2> QED BY <2>1, BudgetsAssumption DEF Charged, Forest
<1>2. Charged /\ [BudgetsNext]_budVars => Charged'
  <2> SUFFICES ASSUME Charged, [BudgetsNext]_budVars PROVE Charged' OBVIOUS
  <2>1. ASSUME NEW s \in TheScopes, NEW amount \in 1..(BudLimit + 1), Charge(s, amount) PROVE Charged'
    BY <2>1, ChargeCharged
  <2>2. CASE UNCHANGED budVars
    <3>1. UNCHANGED <<budParent, budCell, budSpent, budAborted, budRefused>> BY <2>2 DEF budVars
    <3>2. Lineage' = Lineage BY <3>1 DEF Lineage
    <3>3. \A a \in TheScopes : Owner(a)' = Owner(a) BY <3>1, <3>2 DEF Owner, SameCellUpTo
    <3>4. \A a \in TheScopes : Below(Owner(a))' = Below(Owner(a)) BY <3>2, <3>3 DEF Below
    <3>5. Forest' BY <3>1 DEF Forest, Charged
    <3>6. \A a \in budRefused' : Below(Owner(a))' \subseteq budAborted' BY <3>1, <3>4 DEF Charged
    <3>7. \A d \in budAborted' : \E a \in budRefused' : Owner(a)' \in Lineage'[d]
      BY <3>1, <3>2, <3>3 DEF Charged
    <3> QED BY <3>1, <3>5, <3>6, <3>7 DEF Charged
  <2> QED BY <2>1, <2>2 DEF BudgetsNext
<1>3. Charged => BudgetTruth
  <2> SUFFICES ASSUME Charged PROVE BudgetTruth OBVIOUS
  <2>1. Forest /\ budRefused \subseteq TheScopes /\ budAborted \subseteq TheScopes BY DEF Charged
  <2>2. ASSUME NEW s \in budRefused
        PROVE  \E S \in SUBSET budAborted :
                 s \in S /\ HangTogether(S) /\ UNION {Below(d) : d \in S} \subseteq budAborted
    <3>1. Owns(s, Owner(s)) BY <2>1, OwnerOwns
    <3>2. Below(Owner(s)) \subseteq budAborted BY DEF Charged
    <3>3. PICK S \in SUBSET Below(Owner(s)) :
            s \in S /\ HangTogether(S) /\ UNION {Below(d) : d \in S} \subseteq Below(Owner(s))
      BY <2>1, <3>1, OwnersFamily
    <3> QED BY <3>2, <3>3
  <2>3. ASSUME NEW d \in budAborted
        PROVE  \E s \in budRefused, a \in Lineage[d] :
                 \A S \in SUBSET TheScopes : s \in S /\ HangTogether(S) => a \in S
    <3>1. PICK s \in budRefused : Owner(s) \in Lineage[d] BY DEF Charged
    <3>2. Owns(s, Owner(s)) BY <2>1, OwnerOwns
    <3>3. \A S \in SUBSET TheScopes : s \in S /\ HangTogether(S) => Owner(s) \in S
      BY <2>1, <3>2, OwnerInFamily
    <3> QED BY <3>1, <3>3
  <2> QED BY <2>2, <2>3 DEF BudgetTruth, Charged
<1> QED BY <1>1, <1>2, <1>3, PTL

(***************************************************************************)
(* Bags (Ambient).  What a bag shows is defined by the bags below it, which *)
(* never change; budgets that bags hold are cells, which no caller has.     *)
(***************************************************************************)
\* The bags: each is an entry over an earlier bag.
Values == Nat \cup {Unset}
Entries == [key : AmbKeys, value : Values, below : Nat]
Store(B) == B \in Seq(Entries) /\ \A b \in 1..Len(B) : B[b].below < b

\* What each bag of a store shows, of all keys and of one.
Shows(f, B, b) == IF b = 0 THEN [k \in AmbKeys |-> Missing]
                  ELSE [f[B[b].below] EXCEPT ![B[b].key] = B[b].value]
Shown(B) == CHOOSE f : f = [b \in 0..Len(B) |-> Shows(f, B, b)]
FindsIn(f, B, key, b) == IF b = 0 THEN Missing ELSE IF B[b].key = key THEN B[b].value ELSE f[B[b].below]
Found(B, key) == CHOOSE f : f = [b \in 0..Len(B) |-> FindsIn(f, B, key, b)]

\* Such functions are defined.
LEMMA ShownDefined ==
  ASSUME NEW B, Store(B)
  PROVE  \A b \in 0..Len(B) : Shown(B)[b] = Shows(Shown(B), B, b)
<1> DEFINE N == Len(B)
           T == {n \in Nat : n <= N => \E f : f = [b \in 0..n |-> Shows(f, B, b)]}
<1>1. N \in Nat /\ \A b \in 1..N : B[b].below \in Nat /\ B[b].below < b
  <2>1. \A b \in 1..N : B[b] \in Entries BY ElementOfSeq DEF Store
  <2>2. N \in Nat BY LenProperties DEF Store
  <2> QED BY <2>1, <2>2 DEF Store, Entries
<1> HIDE DEF N
<1>2. 0 \in T
  <2> DEFINE f == [b \in 0..0 |-> [k \in AmbKeys |-> Missing]]
  <2>1. f = [b \in 0..0 |-> Shows(f, B, b)] BY DEF Shows
  <2> QED BY <2>1
<1>3. ASSUME NEW n \in T PROVE n + 1 \in T
  <2>1. SUFFICES ASSUME n + 1 <= N PROVE \E h : h = [b \in 0..(n + 1) |-> Shows(h, B, b)] OBVIOUS
  <2>2. n \in Nat /\ n <= N BY <1>1, <2>1
  <2>3. PICK f : f = [b \in 0..n |-> Shows(f, B, b)] BY <2>2
  <2> DEFINE m == n + 1
             h == [b \in 0..m |-> IF b = m THEN Shows(f, B, m) ELSE f[b]]
  <2>4. ASSUME NEW b \in 0..m PROVE h[b] = Shows(h, B, b)
    <3>1. CASE b = 0
      <4>1. 0 \in 0..n /\ h[b] = f[0] BY <2>2, <3>1
      <4>2. f[0] = Shows(f, B, 0) BY <2>3, <4>1
      <4> QED BY <3>1, <4>1, <4>2 DEF Shows
    <3>2. CASE b # 0
      <4> DEFINE d == B[b].below
      <4>1. b \in 1..N /\ d \in Nat /\ d < b BY <1>1, <2>1, <2>2, <3>2
      <4>2. d \in 0..n /\ d # m /\ d \in 0..m BY <2>2, <4>1
      <4>3. h[d] = f[d] BY <4>2
      <4>4. h[b] = Shows(f, B, b)
        <5>1. CASE b = m BY <5>1
        <5>2. CASE b # m
          <6>1. b \in 0..n /\ h[b] = f[b] BY <2>2, <5>2
          <6> QED BY <2>3, <6>1
        <5> QED BY <5>1, <5>2
      <4> QED BY <3>2, <4>3, <4>4 DEF Shows
    <3> QED BY <3>1, <3>2
  <2>5. h = [b \in 0..m |-> h[b]] OBVIOUS
  <2> HIDE DEF h
  <2>6. h = [b \in 0..m |-> Shows(h, B, b)] BY <2>4, <2>5
  <2> QED BY <2>6
<1>4. T \in SUBSET Nat OBVIOUS
<1> HIDE DEF T
<1>5. N \in T BY <1>1, <1>2, <1>3, <1>4, AllNat
<1>6. \E f : f = [b \in 0..N |-> Shows(f, B, b)] BY <1>1, <1>5 DEF T
<1>7. Shown(B) = [b \in 0..N |-> Shows(Shown(B), B, b)] BY <1>6 DEF Shown, N
<1> QED BY <1>7 DEF N

\* The recursive lookup is defined for every stored bag.
LEMMA FoundDefined ==
  ASSUME NEW B, Store(B), NEW key \in AmbKeys
  PROVE  \A b \in 0..Len(B) : Found(B, key)[b] = FindsIn(Found(B, key), B, key, b)
<1> DEFINE N == Len(B)
           T == {n \in Nat : n <= N => \E f : f = [b \in 0..n |-> FindsIn(f, B, key, b)]}
<1>1. N \in Nat /\ \A b \in 1..N : B[b].below \in Nat /\ B[b].below < b
  <2>1. \A b \in 1..N : B[b] \in Entries BY ElementOfSeq DEF Store
  <2>2. N \in Nat BY LenProperties DEF Store
  <2> QED BY <2>1, <2>2 DEF Store, Entries
<1> HIDE DEF N
<1>2. 0 \in T
  <2> DEFINE f == [b \in 0..0 |-> Missing]
  <2>1. f = [b \in 0..0 |-> FindsIn(f, B, key, b)] BY DEF FindsIn
  <2> QED BY <2>1
<1>3. ASSUME NEW n \in T PROVE n + 1 \in T
  <2>1. SUFFICES ASSUME n + 1 <= N PROVE \E h : h = [b \in 0..(n + 1) |-> FindsIn(h, B, key, b)] OBVIOUS
  <2>2. n \in Nat /\ n <= N BY <1>1, <2>1
  <2>3. PICK f : f = [b \in 0..n |-> FindsIn(f, B, key, b)] BY <2>2
  <2> DEFINE m == n + 1
             h == [b \in 0..m |-> IF b = m THEN FindsIn(f, B, key, m) ELSE f[b]]
  <2>4. ASSUME NEW b \in 0..m PROVE h[b] = FindsIn(h, B, key, b)
    <3>1. CASE b = 0
      <4>1. 0 \in 0..n /\ h[b] = f[0] BY <2>2, <3>1
      <4>2. f[0] = FindsIn(f, B, key, 0) BY <2>3, <4>1
      <4> QED BY <3>1, <4>1, <4>2 DEF FindsIn
    <3>2. CASE b # 0
      <4> DEFINE d == B[b].below
      <4>1. b \in 1..N /\ d \in Nat /\ d < b BY <1>1, <2>1, <2>2, <3>2
      <4>2. d \in 0..n /\ d # m /\ d \in 0..m BY <2>2, <4>1
      <4>3. h[d] = f[d] BY <4>2
      <4>4. h[b] = FindsIn(f, B, key, b)
        <5>1. CASE b = m BY <5>1
        <5>2. CASE b # m
          <6>1. b \in 0..n /\ h[b] = f[b] BY <2>2, <5>2
          <6> QED BY <2>3, <6>1
        <5> QED BY <5>1, <5>2
      <4> QED BY <3>2, <4>3, <4>4 DEF FindsIn
    <3> QED BY <3>1, <3>2
  <2>5. h = [b \in 0..m |-> h[b]] OBVIOUS
  <2> HIDE DEF h
  <2>6. h = [b \in 0..m |-> FindsIn(h, B, key, b)] BY <2>4, <2>5
  <2> QED BY <2>6
<1>4. T \in SUBSET Nat OBVIOUS
<1> HIDE DEF T
<1>5. N \in T BY <1>1, <1>2, <1>3, <1>4, AllNat
<1>6. \E f : f = [b \in 0..N |-> FindsIn(f, B, key, b)] BY <1>1, <1>5 DEF T
<1>7. Found(B, key) = [b \in 0..N |-> FindsIn(Found(B, key), B, key, b)] BY <1>6 DEF Found, N
<1> QED BY <1>7 DEF N

\* A bag shows values of all keys, and of each the one that a search finds.
LEMMA ShownIsFound ==
  ASSUME NEW B, Store(B)
  PROVE  \A b \in 0..Len(B) : /\ Shown(B)[b] \in [AmbKeys -> Values]
                              /\ \A k \in AmbKeys : Shown(B)[b][k] = Found(B, k)[b]
<1> DEFINE T == {b \in 0..Len(B) : /\ Shown(B)[b] \in [AmbKeys -> Values]
                                   /\ \A k \in AmbKeys : Shown(B)[b][k] = Found(B, k)[b]}
<1>1. Len(B) \in Nat BY LenProperties DEF Store
<1>2. ASSUME NEW b \in 0..Len(B), \A r \in 0..Len(B) : r < b => r \in T PROVE b \in T
  <2>1. Shown(B)[b] = Shows(Shown(B), B, b) BY ShownDefined
  <2>2. \A k \in AmbKeys : Found(B, k)[b] = FindsIn(Found(B, k), B, k, b) BY FoundDefined
  <2>3. CASE b = 0
    <3>1. Shown(B)[b] = [k \in AmbKeys |-> Missing] BY <2>1, <2>3 DEF Shows
    <3>2. \A k \in AmbKeys : Found(B, k)[b] = Missing BY <2>2, <2>3 DEF FindsIn
    <3> QED BY <3>1, <3>2 DEF Values, Missing
  <2>4. CASE b # 0
    <3> DEFINE d == B[b].below
               was == Shown(B)[d]
    <3>1. b \in 1..Len(B) BY <1>1, <2>4
    <3>2. B[b] \in Entries /\ d < b BY <3>1, ElementOfSeq DEF Store
    <3>3. B[b].key \in AmbKeys /\ B[b].value \in Values /\ d \in Nat BY <3>2 DEF Entries
    <3>4. d \in 0..Len(B) BY <1>1, <3>1, <3>2, <3>3
    <3>5. was \in [AmbKeys -> Values] /\ \A k \in AmbKeys : was[k] = Found(B, k)[d] BY <1>2, <3>2, <3>4
    <3>6. Shown(B)[b] = [was EXCEPT ![B[b].key] = B[b].value] BY <2>1, <2>4 DEF Shows
    <3>7. \A k \in AmbKeys : Found(B, k)[b] = IF B[b].key = k THEN B[b].value ELSE Found(B, k)[d]
      BY <2>2, <2>4 DEF FindsIn
    <3> HIDE DEF was, d
    <3> QED BY <3>3, <3>5, <3>6, <3>7
  <2> QED BY <2>3, <2>4
<1> HIDE DEF T
<1>3. \A b \in 0..Len(B) : b \in T BY <1>1, <1>2, UpTo
<1> QED BY <1>3 DEF T

\* What a bag shows stays as it is when bags are added, and the new one shows its
\* entry over the bag below.
LEMMA ShownStays ==
  ASSUME NEW B, NEW e, Store(B), Store(Append(B, e))
  PROVE  /\ \A b \in 0..Len(B) : Shown(Append(B, e))[b] = Shown(B)[b]
         /\ Shown(Append(B, e))[Len(B) + 1] = [Shown(B)[e.below] EXCEPT ![e.key] = e.value]
<1> DEFINE C == Append(B, e)
           T == {b \in 0..Len(B) : Shown(C)[b] = Shown(B)[b]}
           N == Len(B)
<1>1. N \in Nat BY LenProperties DEF Store
<1>2. e \in Entries
  <2>1. Len(C) \in Nat /\ \A b \in 1..Len(C) : C[b] \in Entries BY ElementOfSeq, LenProperties DEF Store
  <2>2. Len(C) = N + 1 /\ C[N + 1] = e BY AppendProperties DEF Store
  <2>3. N + 1 \in 1..Len(C) BY <1>1, <2>2
  <2> QED BY <2>1, <2>2, <2>3
<1>3. Len(C) = N + 1 /\ C[N + 1] = e /\ \A b \in 1..N : C[b] = B[b]
  BY <1>2, AppendProperties DEF Store
<1>4. Store(C) OBVIOUS
<1>5. \A b \in 1..N : B[b] \in Entries /\ B[b].below < b BY ElementOfSeq DEF Store
<1>6. e.below < N + 1 /\ e.below \in Nat
  <2>1. N + 1 \in 1..Len(C) BY <1>1, <1>3
  <2>2. C[N + 1].below < N + 1 BY <1>4, <2>1 DEF Store
  <2> QED BY <1>2, <1>3, <2>2 DEF Entries
<1> HIDE DEF C
<1>7. ASSUME NEW b \in 0..N, \A r \in 0..N : r < b => r \in T PROVE b \in T
  <2>1. Shown(B)[b] = Shows(Shown(B), B, b) BY ShownDefined
  <2>2. Shown(C)[b] = Shows(Shown(C), C, b)
    <3>1. b \in 0..Len(C) BY <1>1, <1>3
    <3> QED BY <1>4, <3>1, ShownDefined
  <2>3. CASE b = 0 BY <2>1, <2>2, <2>3 DEF Shows
  <2>4. CASE b # 0
    <3>1. b \in 1..N BY <1>1, <2>4
    <3>2. C[b] = B[b] /\ B[b].below < b /\ B[b].below \in Nat BY <1>3, <1>5, <3>1 DEF Entries
    <3>3. B[b].below \in 0..N BY <1>1, <3>1, <3>2
    <3>4. Shown(C)[B[b].below] = Shown(B)[B[b].below] BY <1>7, <3>2, <3>3
    <3> QED BY <2>1, <2>2, <2>4, <3>2, <3>4 DEF Shows
  <2> QED BY <2>3, <2>4
<1> HIDE DEF T
<1>8. \A b \in 0..N : b \in T BY <1>1, <1>7, UpTo
<1>9. \A b \in 0..N : Shown(C)[b] = Shown(B)[b] BY <1>8 DEF T
<1>10. Shown(C)[N + 1] = [Shown(B)[e.below] EXCEPT ![e.key] = e.value]
  <2>1. N + 1 \in 0..Len(C) /\ N + 1 # 0 /\ e.below \in 0..N BY <1>1, <1>3, <1>6
  <2>2. Shown(C)[N + 1] = Shows(Shown(C), C, N + 1) BY <1>4, <2>1, ShownDefined
  <2>3. Shown(C)[e.below] = Shown(B)[e.below] BY <1>9, <2>1
  <2> QED BY <1>3, <2>1, <2>2, <2>3 DEF Shows
<1> QED BY <1>9, <1>10 DEF C

\* The operators of the module are these functions.
LEMMA FindIsFound == \A bag, key : Find(bag, key) = Found(ambBag, key)[bag]
  BY DEF Find, Found, FindsIn
\* The entries of a bag are what a lookup of each key shows.
LEMMA SnapshotIsShown == \A bag : EntriesSnapshot(bag) = Shown(ambBag)[bag]
  BY DEF EntriesSnapshot, Shown, Shows

\* Scopes show what they were told; cells are paid for; what is installed is a cell.
Showing(B, scope, asTold) ==
  /\ scope \in Seq(Nat) /\ asTold \in Seq([AmbKeys -> Values]) /\ Len(scope) = Len(asTold)
  /\ \A s \in 1..Len(scope) : scope[s] \in 0..Len(B) /\ asTold[s] = Shown(B)[scope[s]]
Heap(held, paid) ==
  /\ held \in Seq(Nat) /\ paid \in Seq(Nat \cup {-1}) /\ Len(held) = Len(paid)
  /\ Len(paid) >= 1 /\ paid[1] = -1
  /\ \A o \in 1..Len(paid) : paid[o] # -1 => held[o] = paid[o] /\ held[o] <= AmbLimit
IsCell(v, paid) == v \in 1..Len(paid) /\ paid[v] # -1
Installed(B, paid) == \A b \in 1..Len(B) : B[b].value = Unset \/ IsCell(B[b].value, paid)

AmbientSound ==
  Store(ambBag) /\ Showing(ambBag, ambScope, ambTold) /\ Heap(ambSpent, ambPaid) /\ Installed(ambBag, ambPaid)

\* The limit is a natural number.
LEMMA LimitNat == AmbLimit \in Nat BY AmbientAssumption

\* A scope more, a bag more, a budget more.
LEMMA ScopeMore ==
  ASSUME NEW B, NEW scope, NEW asTold, NEW c \in 0..Len(B), Store(B), Showing(B, scope, asTold)
  PROVE  Showing(B, Append(scope, c), Append(asTold, Shown(B)[c]))
<1>1. scope \in Seq(Nat) /\ asTold \in Seq([AmbKeys -> Values]) /\ Len(scope) = Len(asTold) /\ Len(scope) \in Nat
      /\ c \in Nat /\ Shown(B)[c] \in [AmbKeys -> Values]
  BY ShownIsFound, LenProperties DEF Showing, Store
<1> DEFINE n == Len(scope)
           sc == Append(scope, c)
           t == Append(asTold, Shown(B)[c])
<1>2. /\ sc \in Seq(Nat) /\ Len(sc) = n + 1 /\ sc[n + 1] = c /\ \A i \in 1..n : sc[i] = scope[i]
  BY <1>1, AppendProperties
<1>3. /\ t \in Seq([AmbKeys -> Values]) /\ Len(t) = n + 1 /\ t[n + 1] = Shown(B)[c] /\ \A i \in 1..n : t[i] = asTold[i]
  BY <1>1, AppendProperties
<1>4. n \in Nat BY <1>1
<1>5. \A s \in 1..n : scope[s] \in 0..Len(B) /\ asTold[s] = Shown(B)[scope[s]] BY DEF Showing
<1> HIDE DEF n, sc, t
<1>6. ASSUME NEW s \in 1..(n + 1) PROVE sc[s] \in 0..Len(B) /\ t[s] = Shown(B)[sc[s]]
  <2>1. s = n + 1 \/ s \in 1..n BY <1>4
  <2> QED BY <1>2, <1>3, <1>5, <2>1
<1>7. Showing(B, sc, t) BY <1>2, <1>3, <1>6 DEF Showing
<1> QED BY <1>7 DEF sc, t

\* A bag made from a stored one may be stored behind the others.
LEMMA StoreMore ==
  ASSUME NEW B, NEW e \in Entries, Store(B), e.below \in 0..Len(B)
  PROVE  Store(Append(B, e)) /\ Len(Append(B, e)) = Len(B) + 1
<1>1. B \in Seq(Entries) /\ Len(B) \in Nat BY LenProperties DEF Store
<1> DEFINE C == Append(B, e)
           n == Len(B)
<1>2. C \in Seq(Entries) /\ Len(C) = n + 1 /\ C[n + 1] = e /\ \A i \in 1..n : C[i] = B[i]
  BY <1>1, AppendProperties
<1>3. n \in Nat /\ e.below \in 0..n /\ \A b \in 1..n : B[b].below < b BY <1>1 DEF Store
<1> HIDE DEF C, n
<1>4. ASSUME NEW b \in 1..(n + 1) PROVE C[b].below < b
  <2>1. CASE b = n + 1
    <3>1. e.below < n + 1 BY <1>3
    <3> QED BY <1>2, <2>1, <3>1
  <2>2. CASE b # n + 1
    <3>1. b \in 1..n BY <1>3, <2>2
    <3> QED BY <1>2, <1>3, <3>1
  <2> QED BY <2>1, <2>2
<1>5. Store(C) BY <1>2, <1>4 DEF Store
<1> QED BY <1>2, <1>5 DEF C, n

\* What scopes show does not change when another bag is stored.
LEMMA ShowingLonger ==
  ASSUME NEW B, NEW e \in Entries, NEW scope, NEW asTold, Store(B), e.below \in 0..Len(B),
         Showing(B, scope, asTold)
  PROVE  Showing(Append(B, e), scope, asTold)
<1> DEFINE C == Append(B, e)
<1>1. Store(C) /\ Len(C) = Len(B) + 1 /\ Len(B) \in Nat BY StoreMore, LenProperties DEF Store
<1>2. \A b \in 0..Len(B) : Shown(C)[b] = Shown(B)[b] BY <1>1, ShownStays
<1>3. \A b \in 0..Len(B) : b \in 0..Len(C) BY <1>1
<1> HIDE DEF C
<1>4. Showing(C, scope, asTold) BY <1>2, <1>3 DEF Showing
<1> QED BY <1>4 DEF C

\* Neither does what the cells in the bags stand for.
LEMMA InstalledMore ==
  ASSUME NEW B, NEW e \in Entries, NEW paid, Store(B), Installed(B, paid),
         e.value = Unset \/ IsCell(e.value, paid)
  PROVE  Installed(Append(B, e), paid)
<1> DEFINE C == Append(B, e)
           n == Len(B)
<1>1. B \in Seq(Entries) /\ n \in Nat BY LenProperties DEF Store
<1>2. Len(C) = n + 1 /\ C[n + 1] = e /\ \A i \in 1..n : C[i] = B[i]
  BY <1>1, AppendProperties
<1>3. \A b \in 1..n : B[b].value = Unset \/ IsCell(B[b].value, paid) BY DEF Installed
<1> HIDE DEF C, n
<1>4. ASSUME NEW b \in 1..(n + 1) PROVE C[b].value = Unset \/ IsCell(C[b].value, paid)
  <2>1. b = n + 1 \/ b \in 1..n BY <1>1
  <2> QED BY <1>2, <1>3, <2>1
<1>5. Installed(C, paid) BY <1>2, <1>4 DEF Installed
<1> QED BY <1>5 DEF C

\* A budget that is made: a copy that a caller holds, or a cell.
LEMMA HeapMore ==
  ASSUME NEW held, NEW paid, Heap(held, paid), NEW v \in Nat, NEW p \in Nat \cup {-1},
         p # -1 => p = v /\ v <= AmbLimit
  PROVE  /\ Heap(Append(held, v), Append(paid, p))
         /\ \A c : IsCell(c, paid) => IsCell(c, Append(paid, p))
         /\ p # -1 => IsCell(Len(held) + 1, Append(paid, p))
<1> DEFINE n == Len(paid)
           sp == Append(held, v)
           pd == Append(paid, p)
<1>1. held \in Seq(Nat) /\ paid \in Seq(Nat \cup {-1}) /\ Len(held) = n /\ n \in Nat /\ n >= 1 /\ paid[1] = -1
  BY LenProperties DEF Heap
<1>2. /\ sp \in Seq(Nat) /\ Len(sp) = n + 1 /\ sp[n + 1] = v /\ \A i \in 1..n : sp[i] = held[i]
  BY <1>1, AppendProperties
<1>3. /\ pd \in Seq(Nat \cup {-1}) /\ Len(pd) = n + 1 /\ pd[n + 1] = p /\ \A i \in 1..n : pd[i] = paid[i]
  BY <1>1, AppendProperties
<1>4. \A o \in 1..n : paid[o] # -1 => held[o] = paid[o] /\ held[o] <= AmbLimit BY DEF Heap
<1>5. Len(held) = n /\ n = Len(paid) BY <1>1
<1> HIDE DEF n, sp, pd
<1>6. ASSUME NEW o \in 1..(n + 1), pd[o] # -1 PROVE sp[o] = pd[o] /\ sp[o] <= AmbLimit
  <2>1. o = n + 1 \/ o \in 1..n BY <1>1
  <2> QED BY <1>2, <1>3, <1>4, <1>6, <2>1
<1>7. pd[1] = -1 /\ n + 1 >= 1
  <2>1. 1 \in 1..n /\ n + 1 >= 1 BY <1>1
  <2> QED BY <1>1, <1>3, <2>1
<1>8. Heap(sp, pd) BY <1>2, <1>3, <1>6, <1>7 DEF Heap
<1>9. ASSUME NEW c, IsCell(c, paid) PROVE IsCell(c, pd)
  <2>1. c \in 1..n /\ paid[c] # -1 BY <1>5, <1>9 DEF IsCell
  <2>2. c \in 1..(n + 1) BY <1>1, <2>1
  <2> QED BY <1>3, <2>1, <2>2 DEF IsCell
<1>10. p # -1 => IsCell(n + 1, pd)
  <2>1. n + 1 \in 1..(n + 1) BY <1>1
  <2> QED BY <1>3, <2>1 DEF IsCell
<1> QED BY <1>5, <1>8, <1>9, <1>10 DEF sp, pd

\* A cell is charged: both what it holds and what it was paid.
LEMMA HeapCharged ==
  ASSUME NEW held, NEW paid, Heap(held, paid), NEW c, IsCell(c, paid), NEW amount \in Nat,
         held[c] + amount <= AmbLimit
  PROVE  /\ Heap([held EXCEPT ![c] = @ + amount], [paid EXCEPT ![c] = @ + amount])
         /\ \A d : IsCell(d, paid) => IsCell(d, [paid EXCEPT ![c] = @ + amount])
<1> DEFINE n == Len(paid)
           sp == [held EXCEPT ![c] = @ + amount]
           pd == [paid EXCEPT ![c] = @ + amount]
<1>1. /\ held \in [1..n -> Nat] /\ paid \in [1..n -> Nat \cup {-1}] /\ n \in Nat /\ n >= 1 /\ paid[1] = -1
      /\ c \in 1..n /\ paid[c] # -1
  BY LenProperties DEF Heap, IsCell
<1>2. \A o \in 1..n : paid[o] # -1 => held[o] = paid[o] /\ held[o] <= AmbLimit BY DEF Heap
<1>3. n = Len(paid) OBVIOUS
<1>4. held[c] \in Nat /\ paid[c] = held[c] BY <1>1, <1>2
<1>5. held[c] + amount \in Nat /\ held[c] + amount # -1 BY <1>4
<1>6. /\ sp \in [1..n -> Nat] /\ sp[c] = held[c] + amount /\ \A o \in 1..n : o # c => sp[o] = held[o]
  BY <1>1, <1>5
<1>7. /\ pd \in [1..n -> Nat \cup {-1}] /\ pd[c] = held[c] + amount /\ \A o \in 1..n : o # c => pd[o] = paid[o]
  BY <1>1, <1>4, <1>5
<1> HIDE DEF n, sp, pd
<1>8. /\ sp \in Seq(Nat) /\ Len(sp) = n
  <2>1. DOMAIN sp = 1..n BY <1>6
  <2> QED BY <1>1, <1>6, <2>1, SeqDef, LenProperties
<1>9. /\ pd \in Seq(Nat \cup {-1}) /\ Len(pd) = n
  <2>1. DOMAIN pd = 1..n BY <1>7
  <2> QED BY <1>1, <1>7, <2>1, SeqDef, LenProperties
<1>10. ASSUME NEW o \in 1..n, pd[o] # -1 PROVE sp[o] = pd[o] /\ sp[o] <= AmbLimit
  <2>1. CASE o = c BY <1>6, <1>7, <2>1
  <2>2. CASE o # c BY <1>2, <1>6, <1>7, <1>10, <2>2
  <2> QED BY <2>1, <2>2
<1>11. pd[1] = -1
  <2>1. 1 \in 1..n /\ c # 1 BY <1>1
  <2> QED BY <1>1, <1>7, <2>1
<1>12. Heap(sp, pd) BY <1>1, <1>8, <1>9, <1>10, <1>11 DEF Heap
<1>13. ASSUME NEW d, IsCell(d, paid) PROVE IsCell(d, pd)
  <2>1. d \in 1..n /\ paid[d] # -1 BY <1>3, <1>13 DEF IsCell
  <2>2. pd[d] # -1 BY <1>5, <1>7, <2>1
  <2> QED BY <1>9, <2>1, <2>2 DEF IsCell
<1> QED BY <1>12, <1>13 DEF sp, pd

\* A caller writes to a budget of its own.
LEMMA HeapWritten ==
  ASSUME NEW held, NEW paid, Heap(held, paid), NEW o \in 1..Len(paid), paid[o] = -1, NEW v \in Nat
  PROVE  Heap([held EXCEPT ![o] = v], paid)
<1> DEFINE n == Len(paid)
           sp == [held EXCEPT ![o] = v]
<1>1. /\ held \in [1..n -> Nat] /\ n \in Nat
  BY LenProperties DEF Heap
<1>2. sp \in [1..n -> Nat] /\ \A x \in 1..n : x # o => sp[x] = held[x] BY <1>1
<1>3. \A x \in 1..n : paid[x] # -1 => sp[x] = paid[x] /\ sp[x] <= AmbLimit BY <1>2 DEF Heap
<1> HIDE DEF sp
<1>4. /\ sp \in Seq(Nat) /\ Len(sp) = n
  <2>1. DOMAIN sp = 1..n BY <1>2
  <2> HIDE DEF n
  <2> QED BY <1>1, <1>2, <2>1, SeqDef, LenProperties
<1>5. Heap(sp, paid) BY <1>3, <1>4 DEF Heap
<1> QED BY <1>5 DEF sp

\* What a bag shows is nothing, undefined, or a cell.
LEMMA ShownCells ==
  ASSUME NEW B, NEW paid, Store(B), Installed(B, paid)
  PROVE  \A b \in 0..Len(B) : \A k \in AmbKeys :
           Shown(B)[b][k] \in {Missing, Unset} \/ IsCell(Shown(B)[b][k], paid)
<1> DEFINE Fine(v) == v \in {Missing, Unset} \/ IsCell(v, paid)
           T == {b \in 0..Len(B) : \A k \in AmbKeys : Fine(Shown(B)[b][k])}
<1>1. Len(B) \in Nat BY LenProperties DEF Store
<1>2. ASSUME NEW b \in 0..Len(B), \A r \in 0..Len(B) : r < b => r \in T PROVE b \in T
  <2>1. Shown(B)[b] = Shows(Shown(B), B, b) BY ShownDefined
  <2>2. CASE b = 0 BY <2>1, <2>2 DEF Shows
  <2>3. CASE b # 0
    <3> DEFINE d == B[b].below
               was == Shown(B)[d]
    <3>1. b \in 1..Len(B) BY <1>1, <2>3
    <3>2. B[b] \in Entries /\ d < b BY <3>1, ElementOfSeq DEF Store
    <3>3. B[b].key \in AmbKeys /\ d \in Nat /\ Fine(B[b].value) BY <3>1, <3>2 DEF Entries, Installed
    <3>4. d \in 0..Len(B) BY <1>1, <3>1, <3>2, <3>3
    <3>5. was \in [AmbKeys -> Values] BY <3>4, ShownIsFound
    <3>6. \A k \in AmbKeys : Fine(was[k]) BY <1>2, <3>2, <3>4
    <3>7. Shown(B)[b] = [was EXCEPT ![B[b].key] = B[b].value] BY <2>1, <2>3 DEF Shows
    <3> HIDE DEF was, d, Fine
    <3>8. \A k \in AmbKeys : Shown(B)[b][k] = IF k = B[b].key THEN B[b].value ELSE was[k]
      BY <3>3, <3>5, <3>7
    <3> QED BY <3>3, <3>6, <3>8
  <2> QED BY <2>2, <2>3
<1> HIDE DEF T
<1>3. \A b \in 0..Len(B) : b \in T BY <1>1, <1>2, UpTo
<1> QED BY <1>3 DEF T

\* Where code runs: its bag, and what it was told.
LEMMA ContextShows ==
  ASSUME AmbientSound, NEW s \in Currents
  PROVE  Context(s) \in 0..Len(ambBag) /\ ToldTo(s) = Shown(ambBag)[Context(s)]
<1>1. Store(ambBag) /\ Showing(ambBag, ambScope, ambTold) BY DEF AmbientSound
<1>2. Len(ambBag) \in Nat /\ Len(ambScope) \in Nat BY <1>1, LenProperties DEF Store, Showing
<1>3. CASE s = 0
  <2>1. Context(s) = 0 /\ 0 \in 0..Len(ambBag) BY <1>2, <1>3 DEF Context
  <2>2. Shown(ambBag)[0] = [k \in AmbKeys |-> Missing] BY <1>1, <2>1, ShownDefined DEF Shows
  <2> QED BY <1>3, <2>1, <2>2 DEF ToldTo
<1>4. CASE s # 0
  <2>1. s \in 1..Len(ambScope) BY <1>2, <1>4 DEF Currents
  <2> QED BY <1>1, <1>4, <2>1 DEF Context, ToldTo, Showing
<1> QED BY <1>3, <1>4

\* group() and detached(): a scope with the bag that is given to it.
LEMMA OpenSound ==
  ASSUME AmbientSound, NEW context \in 0..Len(ambBag), NEW asTold, asTold = Shown(ambBag)[context],
         OpenScope(context, asTold), UNCHANGED <<ambBag, ambSpent, ambPaid>>
  PROVE  AmbientSound'
<1>1. ambScope' = Append(ambScope, context) /\ ambTold' = Append(ambTold, Shown(ambBag)[context])
  BY DEF OpenScope
<1>2. Store(ambBag) /\ Showing(ambBag, ambScope, ambTold) BY DEF AmbientSound
<1>3. Showing(ambBag, Append(ambScope, context), Append(ambTold, Shown(ambBag)[context])) BY <1>2, ScopeMore
<1>4. Showing(ambBag', ambScope', ambTold') BY <1>1, <1>3
<1>5. Store(ambBag') /\ Heap(ambSpent', ambPaid') /\ Installed(ambBag', ambPaid') BY DEF AmbientSound
<1> QED BY <1>4, <1>5 DEF AmbientSound

\* An entry with a copied budget makes a new bag and leaves the others alone.
LEMMA WithSound ==
  ASSUME AmbientSound, NEW s \in Currents, NEW key \in AmbKeys, NEW value \in Objects \cup {Unset},
         With(s, key, value)
  PROVE  AmbientSound'
<1> DEFINE stored == IF value \in Objects THEN StoredAs(value) ELSE value
           e == [key |-> key, value |-> stored, below |-> Context(s)]
           asTold == [ToldTo(s) EXCEPT ![key] = stored]
           n == Len(ambBag)
<1>1. Store(ambBag) /\ Showing(ambBag, ambScope, ambTold) /\ Heap(ambSpent, ambPaid) /\ Installed(ambBag, ambPaid)
  BY DEF AmbientSound
<1>2. Context(s) \in 0..n /\ ToldTo(s) = Shown(ambBag)[Context(s)] BY ContextShows
<1>3. n \in Nat /\ Len(ambSpent) \in Nat /\ Len(ambSpent) = Len(ambPaid) BY <1>1, LenProperties DEF Store, Heap
<1>4. /\ ambBag' = Append(ambBag, e) /\ ambScope' = Append(ambScope, n + 1)
      /\ ambTold' = Append(ambTold, asTold) /\ ValidBudget(value)
  BY DEF With, Extended, OpenScope
<1>5. Heap(ambSpent', ambPaid') /\ (stored = Unset \/ IsCell(stored, ambPaid'))
      /\ (\A c : IsCell(c, ambPaid) => IsCell(c, ambPaid')) /\ stored \in Values
  <2>1. CASE value \in Objects
    <3> DEFINE v == ambSpent[value]
               m == Len(ambSpent) + 1
    <3>1. stored = m /\ ambSpent' = Append(ambSpent, v) /\ ambPaid' = [Append(ambPaid, -1) EXCEPT ![m] = v]
      BY <2>1 DEF With, StoredAs, Cloned
    <3>2. v \in Nat /\ v <= AmbLimit
      <4>1. ambSpent \in Seq(Nat) /\ value \in 1..Len(ambSpent) BY <1>1, <2>1, LenProperties DEF Heap, Objects
      <4>2. v \in Nat BY <4>1, ElementOfSeq
      <4> QED BY <1>4, <2>1, <4>2 DEF ValidBudget
    <3>3. [Append(ambPaid, -1) EXCEPT ![m] = v] = Append(ambPaid, v)
      <4> DEFINE a == Append(ambPaid, -1)
                 b == Append(ambPaid, v)
      <4>1. ambPaid \in Seq(Nat \cup {-1}) /\ m = Len(ambPaid) + 1 BY <1>1, <1>3 DEF Heap
      <4>2. /\ a \in Seq(Nat \cup {-1}) /\ Len(a) = m /\ a[m] = -1 /\ \A i \in 1..Len(ambPaid) : a[i] = ambPaid[i]
        BY <4>1, AppendProperties
      <4>3. /\ b \in Seq(Nat \cup {-1}) /\ Len(b) = m /\ b[m] = v /\ \A i \in 1..Len(ambPaid) : b[i] = ambPaid[i]
        BY <3>2, <4>1, AppendProperties
      <4>4. a \in [1..m -> Nat \cup {-1}] /\ b \in [1..m -> Nat \cup {-1}] BY <4>2, <4>3, LenProperties
      <4>5. \A i \in 1..m : i = m \/ i \in 1..Len(ambPaid) BY <1>3, <4>1
      <4> HIDE DEF a, b, m, v
      <4>6. \A i \in 1..m : [a EXCEPT ![m] = v][i] = b[i] BY <4>2, <4>3, <4>4, <4>5
      <4>7. [a EXCEPT ![m] = v] \in [1..m -> Nat \cup {-1}] BY <3>2, <4>4
      <4>8. [a EXCEPT ![m] = v] = b BY <4>4, <4>6, <4>7
      <4> QED BY <4>8 DEF a, b
    <3>4. v \in Nat \cup {-1} /\ v # -1 BY <3>2
    <3> HIDE DEF v, stored
    <3>5. /\ Heap(Append(ambSpent, v), Append(ambPaid, v))
          /\ \A c : IsCell(c, ambPaid) => IsCell(c, Append(ambPaid, v))
          /\ IsCell(m, Append(ambPaid, v))
      BY <1>1, <3>2, <3>4, HeapMore
    <3>6. m \in Values BY <1>3 DEF Values
    <3> HIDE DEF m
    <3> QED BY <3>1, <3>3, <3>5, <3>6
  <2>2. CASE value \notin Objects
    <3>1. stored = Unset /\ ambSpent' = ambSpent /\ ambPaid' = ambPaid BY <2>2 DEF With
    <3> QED BY <1>1, <3>1 DEF Values
  <2> QED BY <2>1, <2>2
<1> HIDE DEF stored
<1>6. e \in Entries /\ e.below = Context(s) /\ e.key = key /\ e.value = stored
  BY <1>2, <1>3, <1>5 DEF Entries
<1> HIDE DEF e
<1>7. Store(ambBag') /\ Len(ambBag') = n + 1 BY <1>1, <1>2, <1>4, <1>6, StoreMore
<1>8. Installed(ambBag, ambPaid') BY <1>1, <1>5 DEF Installed
<1>9. Installed(ambBag', ambPaid') BY <1>1, <1>4, <1>5, <1>6, <1>8, InstalledMore
<1>10. Showing(ambBag', ambScope, ambTold) BY <1>1, <1>2, <1>4, <1>6, ShowingLonger
<1>11. Shown(ambBag')[n + 1] = asTold
  <2>1. Shown(Append(ambBag, e))[n + 1] = [Shown(ambBag)[e.below] EXCEPT ![e.key] = e.value]
    BY <1>1, <1>4, <1>7, ShownStays
  <2> QED BY <1>2, <1>4, <1>6, <2>1
<1>12. n + 1 \in 0..Len(ambBag') BY <1>3, <1>7
<1>13. Showing(ambBag', Append(ambScope, n + 1), Append(ambTold, Shown(ambBag')[n + 1]))
  BY <1>7, <1>10, <1>12, ScopeMore
<1>14. Showing(ambBag', ambScope', ambTold') BY <1>4, <1>11, <1>13
<1> QED BY <1>5, <1>7, <1>9, <1>14 DEF AmbientSound

\* A read hands out a copy.
LEMMA ReadSound ==
  ASSUME AmbientSound, NEW s \in Currents, NEW key \in AmbKeys, Read(s, key)
  PROVE  AmbientSound'
<1> DEFINE o == Find(Context(s), key)
           v == ambSpent[o]
<1>1. /\ o \in Objects /\ ambSpent' = Append(ambSpent, v) /\ ambPaid' = Append(ambPaid, -1)
      /\ UNCHANGED <<ambScope, ambBag, ambTold>>
  BY DEF Read, Cloned
<1>2. Store(ambBag) /\ Showing(ambBag, ambScope, ambTold) /\ Heap(ambSpent, ambPaid) /\ Installed(ambBag, ambPaid)
  BY DEF AmbientSound
<1>3. v \in Nat
  <2>1. ambSpent \in Seq(Nat) /\ o \in 1..Len(ambSpent) BY <1>1, <1>2, LenProperties DEF Heap, Objects
  <2> QED BY <2>1, ElementOfSeq
<1> HIDE DEF v, o
<1>4. Heap(ambSpent', ambPaid') /\ \A c : IsCell(c, ambPaid) => IsCell(c, ambPaid')
  <2>1. -1 \in Nat \cup {-1} OBVIOUS
  <2> QED BY <1>1, <1>2, <1>3, <2>1, HeapMore
<1>5. Installed(ambBag', ambPaid') BY <1>1, <1>2, <1>4 DEF Installed
<1> QED BY <1>1, <1>2, <1>4, <1>5 DEF AmbientSound

\* A caller can write only to objects that are no cells.
LEMMA WriteSound ==
  ASSUME AmbientSound, NEW o \in Objects, Write(o, AmbLimit + 1)
  PROVE  AmbientSound'
<1>1. /\ o = 1 \/ ambPaid[o] = -1
      /\ ambSpent' = [ambSpent EXCEPT ![o] = AmbLimit + 1] /\ UNCHANGED <<ambScope, ambBag, ambTold, ambPaid>>
  BY DEF Write
<1>2. Store(ambBag) /\ Showing(ambBag, ambScope, ambTold) /\ Heap(ambSpent, ambPaid) /\ Installed(ambBag, ambPaid)
  BY DEF AmbientSound
<1>3. o \in 1..Len(ambPaid) /\ ambPaid[o] = -1
  <2>1. ambSpent \in Seq(Nat) /\ Len(ambSpent) = Len(ambPaid) /\ ambPaid[1] = -1 BY <1>2 DEF Heap
  <2>2. Objects = 1..Len(ambPaid) BY <2>1, LenProperties DEF Objects
  <2> QED BY <1>1, <2>1, <2>2
<1>4. AmbLimit + 1 \in Nat BY LimitNat
<1>5. Heap(ambSpent', ambPaid') BY <1>1, <1>2, <1>3, <1>4, HeapWritten
<1> QED BY <1>1, <1>2, <1>5 DEF AmbientSound

\* A charge is visible in every bag that shares the cell, and nowhere else.
LEMMA ConsumeSound ==
  ASSUME AmbientSound, NEW s \in Currents, s # 0, NEW key \in AmbKeys, Consume(s, key, 1)
  PROVE  AmbientSound'
<1> DEFINE c == Find(Context(s), key)
<1>1. /\ c \in Objects /\ ambSpent[c] + 1 <= AmbLimit
      /\ ambSpent' = [ambSpent EXCEPT ![c] = @ + 1]
      /\ ambPaid' = [ambPaid EXCEPT ![ToldTo(s)[key]] = @ + 1]
      /\ UNCHANGED <<ambScope, ambBag, ambTold>>
  BY DEF Consume, MutableBudget
<1>2. Store(ambBag) /\ Showing(ambBag, ambScope, ambTold) /\ Heap(ambSpent, ambPaid) /\ Installed(ambBag, ambPaid)
  BY DEF AmbientSound
<1>3. Context(s) \in 0..Len(ambBag) /\ ToldTo(s) = Shown(ambBag)[Context(s)] BY ContextShows
<1>4. c = Shown(ambBag)[Context(s)][key]
  <2>1. c = Found(ambBag, key)[Context(s)] BY FindIsFound
  <2> QED BY <1>2, <1>3, <2>1, ShownIsFound
<1>5. c \in {Missing, Unset} \/ IsCell(c, ambPaid) BY <1>2, <1>3, <1>4, ShownCells
<1> HIDE DEF c
<1>6. c \in 1..Len(ambSpent) /\ Len(ambSpent) \in Nat
  BY <1>1, <1>2, LenProperties DEF Heap, Objects
<1>7. IsCell(c, ambPaid) BY <1>5, <1>6 DEF Missing, Unset
<1>8. ambPaid' = [ambPaid EXCEPT ![c] = @ + 1] BY <1>1, <1>3, <1>4
<1>9. /\ Heap([ambSpent EXCEPT ![c] = @ + 1], [ambPaid EXCEPT ![c] = @ + 1])
      /\ \A d : IsCell(d, ambPaid) => IsCell(d, [ambPaid EXCEPT ![c] = @ + 1])
  BY <1>1, <1>2, <1>7, HeapCharged
<1>10. Heap(ambSpent', ambPaid') /\ \A d : IsCell(d, ambPaid) => IsCell(d, ambPaid') BY <1>1, <1>8, <1>9
<1>11. Installed(ambBag', ambPaid') BY <1>1, <1>2, <1>10 DEF Installed
<1> QED BY <1>1, <1>2, <1>10, <1>11 DEF AmbientSound

\* Scopes show what was installed around them, and cells hold what was installed and
\* charged, whatever callers write to the objects they hold (engine/context.ts).
THEOREM AmbientIsTrue == AmbientInit /\ [][AmbientNext]_ambVars => []AmbientTruth
<1>1. AmbientInit => AmbientSound
  <2> SUFFICES ASSUME AmbientInit PROVE AmbientSound OBVIOUS
  <2>1. ambScope = <<>> /\ ambBag = <<>> /\ ambTold = <<>> /\ ambSpent = <<0>> /\ ambPaid = <<-1>>
    BY DEF AmbientInit
  <2>2. Store(ambBag) BY <2>1 DEF Store
  <2>3. Showing(ambBag, ambScope, ambTold) BY <2>1 DEF Showing
  <2>4. Heap(ambSpent, ambPaid)
    <3>1. ambSpent \in Seq(Nat) /\ ambPaid \in Seq(Nat \cup {-1}) /\ Len(ambSpent) = 1 /\ Len(ambPaid) = 1
          /\ ambPaid[1] = -1
      BY <2>1
    <3> QED BY <3>1 DEF Heap
  <2>5. Installed(ambBag, ambPaid) BY <2>1 DEF Installed
  <2> QED BY <2>2, <2>3, <2>4, <2>5 DEF AmbientSound
<1>2. AmbientSound /\ [AmbientNext]_ambVars => AmbientSound'
  <2> SUFFICES ASSUME AmbientSound, [AmbientNext]_ambVars PROVE AmbientSound' OBVIOUS
  <2>1. ASSUME NEW s \in Currents, NEW k \in AmbKeys, NEW v \in Objects \cup {Unset}, With(s, k, v)
        PROVE  AmbientSound'
    BY <2>1, WithSound
  <2>2. ASSUME NEW s \in Currents, NEW k \in AmbKeys, Read(s, k) PROVE AmbientSound'
    BY <2>2, ReadSound
  <2>3. ASSUME NEW s \in Currents, NEW k \in AmbKeys, s # 0, Consume(s, k, 1) PROVE AmbientSound'
    BY <2>3, ConsumeSound
  <2>4. ASSUME NEW s \in Currents, Group(s) PROVE AmbientSound'
    <3>1. Context(s) \in 0..Len(ambBag) /\ ToldTo(s) = Shown(ambBag)[Context(s)] BY ContextShows
    <3> QED BY <2>4, <3>1, OpenSound DEF Group
  <2>5. CASE Detach
    <3>1. 0 \in Currents /\ Context(0) = 0
      <4>1. Len(ambScope) \in Nat BY LenProperties DEF AmbientSound, Showing
      <4> QED BY <4>1 DEF Currents, Context
    <3>2. 0 \in 0..Len(ambBag) /\ ToldTo(0) = Shown(ambBag)[0] BY <3>1, ContextShows
    <3> QED BY <2>5, <3>2, OpenSound DEF Detach
  <2>6. ASSUME NEW o \in Objects, Write(o, AmbLimit + 1) PROVE AmbientSound' BY <2>6, WriteSound
  <2>7. CASE UNCHANGED ambVars BY <2>7 DEF ambVars, AmbientSound
  <2> QED BY <2>1, <2>2, <2>3, <2>4, <2>5, <2>6, <2>7 DEF AmbientNext
<1>3. AmbientSound => AmbientTruth
  <2> SUFFICES ASSUME AmbientSound PROVE AmbientTruth OBVIOUS
  <2>1. Store(ambBag) /\ Showing(ambBag, ambScope, ambTold) /\ Heap(ambSpent, ambPaid)
    BY DEF AmbientSound
  <2>2. ScopesShowTheirs
    <3> SUFFICES ASSUME NEW s \in DOMAIN ambScope
                 PROVE  LET b == ambScope[s]
                        IN /\ \A k \in AmbKeys : Find(b, k) = ambTold[s][k] /\ (Has(b, k) => GetThrows(b, k) = (ambTold[s][k] = Unset))
                           /\ EntriesSnapshot(b) = ambTold[s]
      BY DEF ScopesShowTheirs
    <3> DEFINE b == ambScope[s]
    <3>1. s \in 1..Len(ambScope) BY <2>1, LenProperties DEF Showing
    <3>2. b \in 0..Len(ambBag) /\ ambTold[s] = Shown(ambBag)[b] BY <2>1, <3>1 DEF Showing
    <3>3. EntriesSnapshot(b) = ambTold[s] BY <3>2, SnapshotIsShown
    <3>4. \A k \in AmbKeys : Find(b, k) = ambTold[s][k] BY <2>1, <3>2, FindIsFound, ShownIsFound
    <3> HIDE DEF b
    <3>5. ASSUME NEW k \in AmbKeys, Has(b, k) PROVE GetThrows(b, k) = (ambTold[s][k] = Unset)
      BY <3>4, <3>5 DEF GetThrows, Reads
    <3> QED BY <3>3, <3>4, <3>5 DEF b
  <2>3. CellsHoldCharges
    <3>1. Objects = 1..Len(ambPaid) BY <2>1, LenProperties DEF Heap, Objects
    <3> QED BY <2>1, <3>1 DEF CellsHoldCharges, Heap
  <2> QED BY <2>2, <2>3 DEF AmbientTruth
<1> QED BY <1>1, <1>2, <1>3, PTL

(***************************************************************************)
(* SharedResource.  One use at a time acquires; the owner closes only when  *)
(* the uses it awaits are over, and holds a release exactly while the       *)
(* resource is held.                                                        *)
(***************************************************************************)
\* An acquisition is under way exactly while it is pending and there is no resource,
\* there is one by one acquisition, and its release is registered until it has run.
Asking == {"acquiring", "waiting"}
ResTyped ==
  /\ resOwner \in {"running", "cleaning", "closed"}
  /\ resUse \in [ResUses -> {"idle", "acquiring", "waiting", "using", "ended"}]
  /\ resStray \subseteq ResUses /\ resAcquirers \subseteq ResUses
  /\ resState \in {"none", "held", "released"} /\ resPending \in BOOLEAN
OneAcquires ==
  /\ \A u, v \in ResUses : resUse[u] = "acquiring" /\ resUse[v] = "acquiring" => u = v
  /\ resPending /\ resState = "none" => \E u \in ResUses : resUse[u] = "acquiring"
  /\ \A u \in ResUses : resUse[u] \in Asking => resPending /\ resState = "none"
  /\ resState = "none" => resAcquirers = {}
  /\ \A u, v \in resAcquirers : u = v
Released ==
  /\ resOwner # "running" => \A u \in ResUses : resUse[u] \in Asking \cup {"using"} => u \in resStray
  /\ resState = "released" => resOwner # "running"
  /\ resOwner # "closed" => resCleanups = IF resState = "held" THEN 1 ELSE 0
  /\ resOwner = "closed" /\ resState = "held" => resAcquirers \subseteq resStray
Shared == ResTyped /\ OneAcquires /\ Released

\* Nothing is acquired at first.
LEMMA ResourceInitShared ==
  ASSUME NEW kinds, ResourceInit(kinds)
  PROVE  Shared
  BY DEF ResourceInit, Shared, ResTyped, OneAcquires, Released, Asking

\* Every step of the uses and their owner keeps the invariant.
LEMMA ResourceStepShared == Shared /\ [ResourceNext]_resVars => Shared'
<1> SUFFICES ASSUME Shared, [ResourceNext]_resVars PROVE Shared'
  OBVIOUS
<1> USE DEF Shared, Asking
<1>1. ASSUME NEW u \in ResUses, BeginUse(u) PROVE Shared'
  <2>1. /\ resUse[u] = "idle"
        /\ resUse' = [resUse EXCEPT ![u] = IF resState # "none" THEN "using"
                        ELSE IF resPending THEN "waiting" ELSE "acquiring"]
        /\ resPending' = (resPending \/ resState = "none")
        /\ resStray' = IF resOwner = "running" THEN resStray ELSE resStray \cup {u}
        /\ UNCHANGED <<resKind, resOwner, resState, resCleanups, resAcquirers>>
    BY <1>1 DEF BeginUse, FirstUse, ResTyped
  <2>2. ResTyped' BY <2>1 DEF ResTyped
  <2>3. OneAcquires' BY <2>1 DEF ResTyped, OneAcquires
  <2>4. Released' BY <2>1 DEF ResTyped, Released
  <2> QED BY <2>2, <2>3, <2>4
<1>2. ASSUME NEW u \in ResUses, Acquire(u) PROVE Shared'
  <2>1. ResTyped' BY <1>2 DEF ResTyped, Acquire
  <2>2. OneAcquires' BY <1>2 DEF ResTyped, OneAcquires, Acquire
  <2>3. Released' BY <1>2 DEF ResTyped, OneAcquires, Released, Acquire
  <2> QED BY <2>1, <2>2, <2>3
<1>3. ASSUME NEW u \in ResUses, AcquisitionFails(u) PROVE Shared'
  <2>1. ResTyped' BY <1>3 DEF ResTyped, AcquisitionFails, NotPending
  <2>2. OneAcquires' BY <1>3 DEF ResTyped, OneAcquires, AcquisitionFails, NotPending
  <2>3. Released' BY <1>3 DEF ResTyped, Released, AcquisitionFails
  <2> QED BY <2>1, <2>2, <2>3
<1>4. ASSUME NEW u \in ResUses, EndUse(u) PROVE Shared'
  <2>1. ResTyped' BY <1>4 DEF ResTyped, EndUse
  <2>2. OneAcquires' BY <1>4 DEF ResTyped, OneAcquires, EndUse
  <2>3. Released' BY <1>4 DEF ResTyped, Released, EndUse
  <2> QED BY <2>1, <2>2, <2>3
<1>5. ASSUME NEW u \in ResUses, Abandon(u) PROVE Shared'
  BY <1>5 DEF Abandon, ResTyped, OneAcquires, Released
<1>6. CASE StartCleanups
  BY <1>6 DEF StartCleanups, Awaited, Uses, ResTyped, OneAcquires, Released
<1>7. CASE Release
  BY <1>7 DEF Release, ResTyped, OneAcquires, Released
<1>8. CASE OwnerCloses
  BY <1>8 DEF OwnerCloses, ResTyped, OneAcquires, Released
<1>9. CASE UNCHANGED resVars
  BY <1>9 DEF resVars, ResTyped, OneAcquires, Released
<1> QED BY <1>1, <1>2, <1>3, <1>4, <1>5, <1>6, <1>7, <1>8, <1>9 DEF ResourceNext

\* A set whose members are all the same counts at most one.
LEMMA AtMostOne ==
  ASSUME NEW S, \A u, v \in S : u = v
  PROVE  Cardinality(S) <= 1
<1>1. CASE S = {} BY <1>1, FS_EmptySet
<1>2. CASE S # {}
  <2> PICK u \in S : TRUE BY <1>2
  <2>1. S = {u} OBVIOUS
  <2>2. Cardinality({u}) = 1 BY FS_Singleton
  <2> QED BY <2>1, <2>2
<1> QED BY <1>1, <1>2

\* However uses overlap, fail, are abandoned or come too late, a resource of
\* resources/index.ts is acquired once, and released after the uses that are awaited.
THEOREM ResourcesAreTrue ==
  ASSUME NEW CONSTANT kinds
  PROVE  ResourceInit(kinds) /\ [][ResourceNext]_resVars => []ResourceTruth
<1>1. Shared => ResourceTruth
  <2> SUFFICES ASSUME Shared PROVE ResourceTruth
    OBVIOUS
  <2>1. Cardinality(resAcquirers) <= 1 BY AtMostOne DEF Shared, OneAcquires
  <2>2. Cardinality(Uses({"acquiring"})) <= 1 BY AtMostOne DEF Shared, OneAcquires, Uses
  <2>3. Uses({"waiting"}) # {} => Uses({"acquiring"}) # {}
    BY DEF Shared, OneAcquires, Uses, Asking
  <2>4. resState = "released" => Uses({"using"}) \subseteq resStray
    BY DEF Shared, Released, Uses
  <2> QED BY <2>1, <2>2, <2>3, <2>4 DEF ResourceTruth, Shared, Released
<1> QED BY <1>1, ResourceInitShared, ResourceStepShared, PTL

(***************************************************************************)
(* Sums over finite sets: an element that is added adds what it weighs.     *)
(***************************************************************************)
\* A function that sums w over the subsets of S, in the order in which CHOOSE takes
\* their elements, and the sum over all of S.
AnyOf(s) == CHOOSE x \in s : TRUE
SumsOver(f, S, w) ==
  f = [s \in SUBSET S |-> IF s = {} THEN 0 ELSE w[AnyOf(s)] + f[s \ {AnyOf(s)}]]

\* The fold of the Functions module is such a function.
LEMMA FoldIsSum ==
  ASSUME NEW w, NEW S, \E f : SumsOver(f, S, w)
  PROVE  \E f : SumsOver(f, S, w) /\ SumFunctionOnSet(w, S) = f[S]
<1> DEFINE F == CHOOSE f : SumsOver(f, S, w)
<1>1. SumsOver(F, S, w) OBVIOUS
<1>2. SumFunctionOnSet(w, S) = F[S]
  BY DEF SumFunctionOnSet, FoldFunctionOnSet, MapThenFoldSet, SumsOver, AnyOf
<1> HIDE DEF F
<1> QED BY <1>1, <1>2

\* Two such functions, over different sets, agree on the finite sets both sum.
LEMMA SumsAgree ==
  ASSUME NEW w, NEW S, NEW U, NEW f, NEW g, SumsOver(f, S, w), SumsOver(g, U, w)
  PROVE  \A s \in SUBSET (S \cap U) : IsFiniteSet(s) => f[s] = g[s]
<1> DEFINE T == {n \in Nat : \A s \in SUBSET (S \cap U) :
                   IsFiniteSet(s) /\ Cardinality(s) = n => f[s] = g[s]}
<1>1. \A s \in SUBSET S : f[s] = IF s = {} THEN 0 ELSE w[AnyOf(s)] + f[s \ {AnyOf(s)}]
  BY DEF SumsOver
<1>2. \A s \in SUBSET U : g[s] = IF s = {} THEN 0 ELSE w[AnyOf(s)] + g[s \ {AnyOf(s)}]
  BY DEF SumsOver
<1>3. 0 \in T BY <1>1, <1>2, FS_EmptySet
<1>4. ASSUME NEW n \in T PROVE n + 1 \in T
  <2>1. SUFFICES ASSUME NEW s \in SUBSET (S \cap U), IsFiniteSet(s), Cardinality(s) = n + 1
                 PROVE  f[s] = g[s]
    OBVIOUS
  <2>2. s # {} BY <2>1, FS_EmptySet
  <2>3. AnyOf(s) \in s BY <2>2 DEF AnyOf
  <2>4. IsFiniteSet(s \ {AnyOf(s)}) /\ Cardinality(s \ {AnyOf(s)}) = n
    BY <2>1, <2>3, FS_RemoveElement
  <2>5. f[s \ {AnyOf(s)}] = g[s \ {AnyOf(s)}] BY <2>4
  <2> QED BY <1>1, <1>2, <2>2, <2>5
<1>5. T = Nat
  <2> HIDE DEF T
  <2>1. T \subseteq Nat BY DEF T
  <2> QED BY <1>3, <1>4, <2>1, AllNat
<1>6. TAKE s \in SUBSET (S \cap U)
<1>7. ASSUME IsFiniteSet(s) PROVE f[s] = g[s]
  BY <1>5, <1>7, FS_CardinalityType
<1> QED BY <1>7

\* What the function that sums over all of s says of s.
SumOf(w, s) == (CHOOSE g : SumsOver(g, s, w))[s]

\* Where the subsets of s have such functions, they say the same of s step by step.
LEMMA SumOfStep ==
  ASSUME NEW w, NEW s, IsFiniteSet(s), s # {},
         \E g : SumsOver(g, s, w), \E g : SumsOver(g, s \ {AnyOf(s)}, w)
  PROVE  SumOf(w, s) = w[AnyOf(s)] + SumOf(w, s \ {AnyOf(s)})
<1> DEFINE t == s \ {AnyOf(s)}
<1>1. PICK g : SumsOver(g, s, w) /\ g = CHOOSE k : SumsOver(k, s, w) OBVIOUS
<1>2. PICK h : SumsOver(h, t, w) /\ h = CHOOSE k : SumsOver(k, t, w) OBVIOUS
<1>3. g[s] = w[AnyOf(s)] + g[t]
  <2>1. s \in SUBSET s OBVIOUS
  <2> QED BY <1>1, <2>1 DEF SumsOver
<1>4. IsFiniteSet(t) BY FS_Subset
<1>5. g[t] = h[t]
  <2>1. t \in SUBSET (s \cap t) OBVIOUS
  <2> HIDE DEF t
  <2> QED BY <1>1, <1>2, <1>4, <2>1, SumsAgree
<1> QED BY <1>1, <1>2, <1>3, <1>5 DEF SumOf

\* Every finite set has such a function.
LEMMA SumsDefined ==
  ASSUME NEW w, NEW S, IsFiniteSet(S)
  PROVE  \E f : SumsOver(f, S, w)
<1> DEFINE T == {n \in Nat : \A s \in SUBSET S :
                   IsFiniteSet(s) /\ Cardinality(s) <= n => \E f : SumsOver(f, s, w)}
<1>1. 0 \in T
  <2>1. SUFFICES ASSUME NEW s \in SUBSET S, IsFiniteSet(s), Cardinality(s) <= 0
                 PROVE  \E f : SumsOver(f, s, w)
    OBVIOUS
  <2>2. s = {} BY <2>1, FS_EmptySet, FS_CardinalityType
  <2>3. SUBSET s = {{}} BY <2>2
  <2>4. SumsOver([r \in SUBSET s |-> 0], s, w) BY <2>2, <2>3 DEF SumsOver
  <2> QED BY <2>4
<1>2. ASSUME NEW n \in T PROVE n + 1 \in T
  <2>1. SUFFICES ASSUME NEW s \in SUBSET S, IsFiniteSet(s), Cardinality(s) <= n + 1
                 PROVE  \E f : SumsOver(f, s, w)
    OBVIOUS
  <2> DEFINE f == [r \in SUBSET s |-> IF r = {} THEN 0 ELSE w[AnyOf(r)] + SumOf(w, r \ {AnyOf(r)})]
  <2>2. ASSUME NEW r \in SUBSET s, r # {} PROVE f[r] = w[AnyOf(r)] + f[r \ {AnyOf(r)}]
    <3> DEFINE t == r \ {AnyOf(r)}
    <3>1. AnyOf(r) \in r BY <2>2 DEF AnyOf
    <3>2. IsFiniteSet(r) /\ Cardinality(r) <= n + 1 /\ Cardinality(r) \in Nat
      BY <2>1, FS_Subset, FS_CardinalityType
    <3>3. IsFiniteSet(t) /\ Cardinality(t) <= n /\ t \in SUBSET S /\ t \in SUBSET s
      <4>1. IsFiniteSet(t) /\ Cardinality(t) = Cardinality(r) - 1
        BY <3>1, <3>2, FS_RemoveElement
      <4>2. t \subseteq r /\ r \subseteq S OBVIOUS
      <4> HIDE DEF t
      <4> QED BY <3>2, <4>1, <4>2
    <3>4. \E g : SumsOver(g, t, w) BY <3>3
    <3>5. f[t] = SumOf(w, t)
      <4>1. CASE t = {}
        <5>1. PICK g : SumsOver(g, t, w) /\ g = CHOOSE k : SumsOver(k, t, w) BY <3>4
        <5>2. t \in SUBSET t OBVIOUS
        <5>3. g[t] = 0 BY <5>1, <5>2, <4>1 DEF SumsOver
        <5> QED BY <5>1, <5>3, <4>1 DEF SumOf
      <4>2. CASE t # {}
        <5>1. AnyOf(t) \in t BY <4>2 DEF AnyOf
        <5>2. IsFiniteSet(t \ {AnyOf(t)}) /\ Cardinality(t \ {AnyOf(t)}) <= n
          <6>1. Cardinality(t) \in Nat BY <3>3, FS_CardinalityType
          <6> HIDE DEF t
          <6>2. /\ IsFiniteSet(t \ {AnyOf(t)})
                /\ Cardinality(t \ {AnyOf(t)}) = Cardinality(t) - 1
            BY <3>3, <5>1, FS_RemoveElement
          <6> QED BY <3>3, <6>1, <6>2
        <5>3. \E g : SumsOver(g, t \ {AnyOf(t)}, w) BY <3>3, <5>2
        <5>4. SumOf(w, t) = w[AnyOf(t)] + SumOf(w, t \ {AnyOf(t)})
          <6> HIDE DEF t
          <6> QED BY <3>3, <3>4, <4>2, <5>3, SumOfStep
        <5>5. f[t] = w[AnyOf(t)] + SumOf(w, t \ {AnyOf(t)})
          <6> HIDE DEF t
          <6> QED BY <3>3, <4>2
        <5> QED BY <5>4, <5>5
      <4> QED BY <4>1, <4>2
    <3>6. f[r] = w[AnyOf(r)] + SumOf(w, t) BY <2>2
    <3> QED BY <3>5, <3>6
  <2>3. f[{}] = 0 OBVIOUS
  <2>4. f = [r \in SUBSET s |-> IF r = {} THEN 0 ELSE w[AnyOf(r)] + f[r \ {AnyOf(r)}]]
    <3>1. \A r \in SUBSET s : f[r] = IF r = {} THEN 0 ELSE w[AnyOf(r)] + f[r \ {AnyOf(r)}]
      <4> TAKE r \in SUBSET s
      <4> HIDE DEF f
      <4> QED BY <2>2, <2>3
    <3>2. f = [r \in SUBSET s |-> f[r]] OBVIOUS
    <3> HIDE DEF f
    <3> QED BY <3>1, <3>2
  <2>5. SumsOver(f, s, w)
    <3> HIDE DEF f
    <3> QED BY <2>4 DEF SumsOver
  <2> QED BY <2>5
<1>3. T = Nat
  <2> HIDE DEF T
  <2>1. T \subseteq Nat BY DEF T
  <2> QED BY <1>1, <1>2, <2>1, AllNat
<1>4. Cardinality(S) \in Nat BY FS_CardinalityType
<1> QED BY <1>3, <1>4

\* Such a function has natural values where the weights do, and an element that a
\* set gains adds its weight, whichever one CHOOSE takes first.
LEMMA SumsStep ==
  ASSUME NEW w, NEW S, IsFiniteSet(S), \A x \in S : w[x] \in Nat, NEW f, SumsOver(f, S, w)
  PROVE  /\ \A s \in SUBSET S : f[s] \in Nat
         /\ \A s \in SUBSET S, x \in S : x \notin s => f[s \cup {x}] = w[x] + f[s]
<1>1. \A s \in SUBSET S : f[s] = IF s = {} THEN 0 ELSE w[AnyOf(s)] + f[s \ {AnyOf(s)}]
  BY DEF SumsOver
<1>2. \A s \in SUBSET S : IsFiniteSet(s) /\ Cardinality(s) \in Nat BY FS_Subset, FS_CardinalityType
<1>3. \A s \in SUBSET S : s # {} => AnyOf(s) \in s /\ AnyOf(s) \in S BY DEF AnyOf
<1>4. \A s \in SUBSET S, y \in S : y \in s => Cardinality(s \ {y}) = Cardinality(s) - 1
  BY <1>2, FS_RemoveElement
<1>5. \A s \in SUBSET S : Cardinality(s) = 0 <=> s = {} BY <1>2, FS_EmptySet
<1> DEFINE T == {n \in Nat : \A s \in SUBSET S : Cardinality(s) = n => f[s] \in Nat}
<1>6. 0 \in T
  <2>1. \A s \in SUBSET S : Cardinality(s) = 0 => f[s] = 0 BY <1>1, <1>5
  <2> QED BY <2>1
<1>7. ASSUME NEW n \in T PROVE n + 1 \in T
  <2>1. SUFFICES ASSUME NEW s \in SUBSET S, Cardinality(s) = n + 1 PROVE f[s] \in Nat OBVIOUS
  <2>2. s # {} BY <2>1, <1>5
  <2>3. AnyOf(s) \in s /\ AnyOf(s) \in S BY <2>2, <1>3
  <2>4. Cardinality(s \ {AnyOf(s)}) = n BY <2>1, <2>3, <1>4
  <2>5. f[s \ {AnyOf(s)}] \in Nat BY <2>4
  <2>6. w[AnyOf(s)] \in Nat BY <2>3
  <2>7. f[s] = w[AnyOf(s)] + f[s \ {AnyOf(s)}] BY <1>1, <2>2
  <2> QED BY <2>5, <2>6, <2>7
<1>8. T = Nat
  <2> HIDE DEF T
  <2>1. T \subseteq Nat BY DEF T
  <2> QED BY <1>6, <1>7, <2>1, AllNat
<1>9. \A s \in SUBSET S : f[s] \in Nat BY <1>8, <1>2
<1> DEFINE U == {n \in Nat : \A s \in SUBSET S, x \in S :
                   Cardinality(s) = n /\ x \notin s => f[s \cup {x}] = w[x] + f[s]}
<1>10. 0 \in U
  <2>1. SUFFICES ASSUME NEW s \in SUBSET S, NEW x \in S, s = {} PROVE f[s \cup {x}] = w[x] + f[s]
    BY <1>5
  <2>2. AnyOf({x}) = x BY DEF AnyOf
  <2>3. f[{x}] = w[x] + f[{x} \ {x}] BY <1>1, <2>2
  <2> QED BY <2>1, <2>3
<1>11. ASSUME NEW n \in U PROVE n + 1 \in U
  <2>1. SUFFICES ASSUME NEW s \in SUBSET S, NEW x \in S, Cardinality(s) = n + 1, x \notin s
                 PROVE  f[s \cup {x}] = w[x] + f[s]
    OBVIOUS
  <2> DEFINE r == s \cup {x}
             y == AnyOf(r)
  <2>2. y \in r /\ y \in S /\ r # {} /\ r \in SUBSET S BY <1>3
  <2>3. f[r] = w[y] + f[r \ {y}] BY <2>2, <1>1
  <2>4. CASE y = x
    <3>1. r \ {y} = s BY <2>4, <2>1
    <3> QED BY <2>3, <2>4, <3>1
  <2>5. CASE y # x
    <3>1. y \in s BY <2>2, <2>5
    <3>3. r \ {y} = (s \ {y}) \cup {x} BY <2>5
    <3>4. s = (s \ {y}) \cup {y} BY <3>1
    <3> HIDE DEF y, r
    <3>2. Cardinality(s \ {y}) = n
      <4>1. Cardinality(s \ {y}) = Cardinality(s) - 1 BY <3>1, <2>2, <1>4
      <4>2. n \in Nat OBVIOUS
      <4> QED BY <4>1, <4>2, <2>1
    <3>5. f[r \ {y}] = w[x] + f[s \ {y}]
      <4>1. x \notin s \ {y} /\ s \ {y} \in SUBSET S BY <2>1
      <4> QED BY <3>2, <3>3, <4>1
    <3>6. f[s] = w[y] + f[s \ {y}]
      <4>1. y \notin s \ {y} /\ s \ {y} \in SUBSET S BY <2>1
      <4> QED BY <3>2, <3>4, <4>1, <2>2
    <3>7. f[s \ {y}] \in Nat /\ w[x] \in Nat /\ w[y] \in Nat BY <1>9, <2>2
    <3> QED BY <2>3, <3>5, <3>6, <3>7 DEF r
  <2> QED BY <2>4, <2>5
<1>12. U = Nat
  <2> HIDE DEF U
  <2>1. U \subseteq Nat BY DEF U
  <2> QED BY <1>10, <1>11, <2>1, AllNat
<1>13. \A s \in SUBSET S, x \in S : x \notin s => f[s \cup {x}] = w[x] + f[s] BY <1>12, <1>2
<1> QED BY <1>9, <1>13

\* The sum over a finite set of natural weights: nothing is zero, an element adds what
\* it weighs.
LEMMA SumAdds ==
  ASSUME NEW w, NEW S, IsFiniteSet(S), \A x \in S : w[x] \in Nat
  PROVE  /\ SumFunctionOnSet(w, {}) = 0
         /\ SumFunctionOnSet(w, S) \in Nat
         /\ \A x \in S : SumFunctionOnSet(w, S) = w[x] + SumFunctionOnSet(w, S \ {x})
<1>1. PICK f : SumsOver(f, S, w) /\ SumFunctionOnSet(w, S) = f[S] BY SumsDefined, FoldIsSum
<1>2. f[{}] = 0
  <2>1. {} \in SUBSET S OBVIOUS
  <2> QED BY <1>1, <2>1 DEF SumsOver
<1>3. SumFunctionOnSet(w, {}) = 0
  <2>1. IsFiniteSet({}) BY FS_EmptySet
  <2>2. PICK g : SumsOver(g, {}, w) /\ SumFunctionOnSet(w, {}) = g[{}]
    BY <2>1, SumsDefined, FoldIsSum
  <2> QED BY <2>2 DEF SumsOver
<1>4. f[S] \in Nat BY <1>1, SumsStep
<1>5. ASSUME NEW x \in S PROVE f[S] = w[x] + SumFunctionOnSet(w, S \ {x})
  <2> DEFINE t == S \ {x}
  <2>1. IsFiniteSet(t) BY FS_Subset
  <2>2. PICK g : SumsOver(g, t, w) /\ SumFunctionOnSet(w, t) = g[t]
    <3> HIDE DEF t
    <3> QED BY <2>1, SumsDefined, FoldIsSum
  <2>3. f[t] = g[t]
    <3>1. t \in SUBSET (S \cap t) OBVIOUS
    <3> HIDE DEF t
    <3> QED BY <1>1, <2>1, <2>2, <3>1, SumsAgree
  <2>4. f[t \cup {x}] = w[x] + f[t]
    <3>1. t \in SUBSET S /\ x \notin t OBVIOUS
    <3> HIDE DEF t
    <3> QED BY <1>1, <3>1, SumsStep
  <2>5. t \cup {x} = S OBVIOUS
  <2> HIDE DEF t
  <2>6. f[S] = w[x] + f[t] BY <2>4, <2>5
  <2>7. f[S] = w[x] + SumFunctionOnSet(w, t) BY <2>2, <2>3, <2>6
  <2> QED BY <2>7 DEF t
<1> QED BY <1>1, <1>3, <1>4, <1>5

\* A sum depends on the weights of its set alone.
LEMMA SumCongruent ==
  ASSUME NEW w, NEW v, NEW S, IsFiniteSet(S), \A x \in S : w[x] = v[x]
  PROVE  SumFunctionOnSet(w, S) = SumFunctionOnSet(v, S)
<1>1. PICK f : SumsOver(f, S, w) /\ SumFunctionOnSet(w, S) = f[S] BY SumsDefined, FoldIsSum
<1>2. PICK g : SumsOver(g, S, v) /\ SumFunctionOnSet(v, S) = g[S] BY SumsDefined, FoldIsSum
<1>3. \A s \in SUBSET S : s # {} => w[AnyOf(s)] = v[AnyOf(s)] BY DEF AnyOf
<1>4. SumsOver(g, S, w)
  <2>1. [s \in SUBSET S |-> IF s = {} THEN 0 ELSE v[AnyOf(s)] + g[s \ {AnyOf(s)}]]
          = [s \in SUBSET S |-> IF s = {} THEN 0 ELSE w[AnyOf(s)] + g[s \ {AnyOf(s)}]]
    BY <1>3
  <2> QED BY <1>2, <2>1 DEF SumsOver
<1>5. f[S] = g[S]
  <2>1. S \in SUBSET (S \cap S) OBVIOUS
  <2> QED BY <1>1, <1>4, <2>1, SumsAgree
<1> QED BY <1>1, <1>2, <1>5

\* One more in one place is one more in all.
LEMMA SumGrows ==
  ASSUME NEW S, IsFiniteSet(S), NEW w \in [S -> Nat], NEW y \in S
  PROVE  LET v == [w EXCEPT ![y] = @ + 1]
         IN  SumFunctionOnSet(v, S) = SumFunctionOnSet(w, S) + 1
<1> DEFINE v == [w EXCEPT ![y] = @ + 1]
           t == S \ {y}
<1>1. /\ \A x \in S : v[x] \in Nat /\ w[x] \in Nat
      /\ \A x \in t : v[x] = w[x]
      /\ v[y] = w[y] + 1
  OBVIOUS
<1>2. IsFiniteSet(t) /\ \A x \in t : w[x] \in Nat BY FS_Subset
<1> HIDE DEF v
<1>3. SumFunctionOnSet(v, S) = v[y] + SumFunctionOnSet(v, t) BY <1>1, SumAdds
<1>4. SumFunctionOnSet(w, S) = w[y] + SumFunctionOnSet(w, t) BY <1>1, SumAdds
<1> HIDE DEF t
<1>5. SumFunctionOnSet(v, t) = SumFunctionOnSet(w, t)
  <2>1. \A x \in t : v[x] = w[x] BY <1>1
  <2> QED BY <1>2, <2>1, SumCongruent
<1>6. SumFunctionOnSet(w, t) \in Nat BY <1>2, SumAdds
<1>7. w[y] \in Nat OBVIOUS
<1>8. SumFunctionOnSet(v, S) = SumFunctionOnSet(w, S) + 1
  BY <1>1, <1>3, <1>4, <1>5, <1>6, <1>7
<1> QED BY <1>8 DEF v

\* A sum over more is no less.
LEMMA SumMonotone ==
  ASSUME NEW S, IsFiniteSet(S), NEW w, \A x \in S : w[x] \in Nat, NEW s \in SUBSET S
  PROVE  SumFunctionOnSet(w, s) <= SumFunctionOnSet(w, S)
<1> DEFINE Of(k) == SumFunctionOnSet(w, k)
           T == {n \in Nat : \A r \in SUBSET S : Cardinality(r \ s) = n => Of(r \cap s) <= Of(r)}
<1>1. \A r \in SUBSET S : IsFiniteSet(r) /\ IsFiniteSet(r \ s) /\ Cardinality(r \ s) \in Nat
  BY FS_Subset, FS_CardinalityType
<1>2. \A r \in SUBSET S : Of(r) \in Nat BY <1>1, SumAdds
<1>3. 0 \in T
  <2>1. \A r \in SUBSET S : Cardinality(r \ s) = 0 => r \cap s = r
    <3> TAKE r \in SUBSET S
    <3>1. Cardinality(r \ s) = 0 => r \ s = {} BY <1>1, FS_EmptySet
    <3> QED BY <3>1
  <2>2. \A r \in SUBSET S : Of(r) <= Of(r)
    <3> HIDE DEF Of
    <3> QED BY <1>2
  <2> HIDE DEF Of
  <2> QED BY <2>1, <2>2
<1>4. ASSUME NEW n \in T PROVE n + 1 \in T
  <2>1. SUFFICES ASSUME NEW r \in SUBSET S, Cardinality(r \ s) = n + 1
                 PROVE  Of(r \cap s) <= Of(r)
    OBVIOUS
  <2>2. n \in Nat OBVIOUS
  <2>3. r \ s # {}
    <3>1. Cardinality({}) = 0 BY FS_EmptySet
    <3> QED BY <2>1, <2>2, <3>1
  <2>4. PICK x \in r : x \notin s BY <2>3
  <2> DEFINE q == r \ {x}
  <2>5. Cardinality(q \ s) = n
    <3>1. q \ s = (r \ s) \ {x} OBVIOUS
    <3>2. x \in r \ s BY <2>4
    <3>3. Cardinality((r \ s) \ {x}) = Cardinality(r \ s) - 1 BY <1>1, <3>2, FS_RemoveElement
    <3> HIDE DEF q
    <3> QED BY <2>1, <2>2, <3>1, <3>3
  <2>6. q \cap s = r \cap s /\ q \in SUBSET S BY <2>4
  <2>7. Of(r) = w[x] + Of(q)
    <3>1. IsFiniteSet(r) /\ x \in r /\ \A y \in r : w[y] \in Nat BY <1>1, <2>4
    <3>2. Of(r) = w[x] + Of(r \ {x}) BY <3>1, SumAdds
    <3> QED BY <3>2
  <2>8. w[x] \in Nat BY <2>4
  <2> HIDE DEF q
  <2>9. Of(q \cap s) <= Of(q) BY <2>5, <2>6
  <2>10. Of(q) \in Nat /\ Of(r) \in Nat /\ Of(r \cap s) \in Nat
    <3>1. r \cap s \in SUBSET S OBVIOUS
    <3> HIDE DEF Of
    <3> QED BY <1>2, <2>6, <3>1
  <2>11. Of(q) <= Of(r)
    <3> HIDE DEF Of
    <3> QED BY <2>7, <2>8, <2>10
  <2>12. Of(r \cap s) <= Of(q) BY <2>6, <2>9
  <2> HIDE DEF Of
  <2> QED BY <2>10, <2>11, <2>12
<1>5. T = Nat
  <2> HIDE DEF T
  <2>1. T \subseteq Nat BY DEF T
  <2> QED BY <1>3, <1>4, <2>1, AllNat
<1>6. S \cap s = s /\ S \in SUBSET S OBVIOUS
<1>7. Cardinality(S \ s) \in T BY <1>1, <1>5
<1> QED BY <1>6, <1>7

(***************************************************************************)
(* The buses (Exporter): who emitted, against what the exporter was given.  *)
(***************************************************************************)
BusTyped ==
  /\ offered \in Nat /\ spent \in Nat
  /\ emitted \in [Buses -> Nat] /\ droppedCount \in [Buses -> Nat]
  /\ overrunWarned \in [Buses -> BOOLEAN]
Bused == BusTyped /\ BusesAccounted

\* The warned buses: one more when a bus is warned for the first time, the same number
\* when it was warned before.
LEMMA WarningsCount ==
  ASSUME BusTyped, NEW b \in Buses
  PROVE  LET warned == [overrunWarned EXCEPT ![b] = TRUE]
         IN  /\ Warnings \in Nat
             /\ Cardinality({c \in Buses : warned[c]})
                  = IF overrunWarned[b] THEN Warnings ELSE Warnings + 1
<1> DEFINE warned == [overrunWarned EXCEPT ![b] = TRUE]
           W == {c \in Buses : overrunWarned[c]}
           V == {c \in Buses : warned[c]}
<1>1. IsFiniteSet(W) BY TelemetryAssumption, FS_Subset
<1>2. Cardinality(W) \in Nat BY <1>1, FS_CardinalityType
<1>3. V = W \cup {b} BY DEF BusTyped
<1>4. overrunWarned[b] <=> b \in W OBVIOUS
<1>5. Cardinality(W \cup {b}) = IF b \in W THEN Cardinality(W) ELSE Cardinality(W) + 1
  BY <1>1, FS_AddElement
<1> HIDE DEF W, V
<1>6. Cardinality(V) = IF overrunWarned[b] THEN Cardinality(W) ELSE Cardinality(W) + 1
  BY <1>3, <1>4, <1>5
<1> QED BY <1>2, <1>6 DEF Warnings, W, V

\* Nothing has been emitted, offered or dropped.
LEMMA BusedInit == TelemetryInit => Bused
<1> SUFFICES ASSUME TelemetryInit PROVE Bused
  OBVIOUS
<1>1. BusTyped BY DEF TelemetryInit, ExporterInit, BusTyped
<1> DEFINE z == [b \in Buses |-> 0]
<1>2. SumFunctionOnSet(z, Buses) \in Nat
  <2>1. \A b \in Buses : z[b] \in Nat OBVIOUS
  <2> HIDE DEF z
  <2> QED BY <2>1, TelemetryAssumption, SumAdds
<1>3. SumOver(emitted) = SumOver(droppedCount) /\ SumOver(emitted) \in Nat
  BY <1>2 DEF TelemetryInit, SumOver
<1>4. Warnings = 0
  <2>1. {b \in Buses : overrunWarned[b]} = {} BY DEF TelemetryInit
  <2> QED BY <2>1, FS_EmptySet DEF Warnings
<1>5. SumOver(emitted) + Warnings = offered + SumOver(droppedCount)
  BY <1>3, <1>4 DEF TelemetryInit, ExporterInit
<1>6. spent <= Limit BY TelemetryAssumption DEF TelemetryInit
<1>7. \A b \in Buses : overrunWarned[b] <=> droppedCount[b] > 0 BY DEF TelemetryInit
<1> QED BY <1>1, <1>5, <1>6, <1>7 DEF Bused, BusesAccounted

\* An event is handed on, or dropped by its bus, which then adds a warning once.
LEMMA EmitBused ==
  ASSUME Bused, NEW b \in Buses, NEW isClosed \in BOOLEAN, Emit(b, isClosed)
  PROVE  Bused'
<1>1. BusTyped /\ BusesAccounted BY DEF Bused
<1>2. emitted' = [emitted EXCEPT ![b] = @ + 1] BY DEF Emit
<1>3. Handle => offered' = offered + 1 BY DEF Handle, Export, Drop
<1>4. SumOver(emitted') = SumOver(emitted) + 1
  BY <1>1, <1>2, TelemetryAssumption, SumGrows DEF BusTyped, SumOver
<1>5. emitted' \in [Buses -> Nat] BY <1>1, <1>2 DEF BusTyped
<1>6. /\ SumOver(emitted) \in Nat /\ SumOver(droppedCount) \in Nat
      /\ Warnings \in Nat /\ offered \in Nat
  <2>1. \A c \in Buses : emitted[c] \in Nat /\ droppedCount[c] \in Nat BY <1>1 DEF BusTyped
  <2> QED BY <1>1, <2>1, TelemetryAssumption, SumAdds, WarningsCount DEF SumOver, BusTyped
<1>7. SumOver(emitted) + Warnings = offered + SumOver(droppedCount) BY <1>1 DEF BusesAccounted
<1>8. CASE ~Exhausted
  <2>1. /\ spent' = spent + 1 /\ offered' = offered + 1
        /\ droppedCount' = droppedCount /\ overrunWarned' = overrunWarned
    BY <1>3, <1>8 DEF Emit
  <2>2. spent' \in Nat /\ spent' <= Limit BY <1>1, <1>8, <2>1, TelemetryAssumption DEF BusTyped, Exhausted
  <2>3. SumOver(emitted)' + Warnings' = offered' + SumOver(droppedCount)'
    <3>1. Warnings' = Warnings /\ SumOver(droppedCount)' = SumOver(droppedCount)
      BY <2>1 DEF Warnings, SumOver
    <3>2. SumOver(emitted)' = SumOver(emitted) + 1 BY <1>4 DEF SumOver
    <3> QED BY <1>6, <1>7, <2>1, <3>1, <3>2
  <2>4. BusTyped' BY <1>1, <1>5, <1>6, <2>1, <2>2 DEF BusTyped
  <2>5. \A c \in Buses : overrunWarned'[c] <=> droppedCount'[c] > 0
    BY <1>1, <2>1 DEF BusesAccounted
  <2> QED BY <2>2, <2>3, <2>4, <2>5 DEF Bused, BusesAccounted
<1>9. CASE Exhausted /\ Handle /\ UNCHANGED <<droppedCount, overrunWarned, spent>>
  <2>1. /\ spent' = spent /\ offered' = offered + 1
        /\ droppedCount' = droppedCount /\ overrunWarned' = overrunWarned
    BY <1>3, <1>9
  <2>2. spent' \in Nat /\ spent' <= Limit BY <1>1, <2>1 DEF BusTyped, BusesAccounted
  <2>3. SumOver(emitted)' + Warnings' = offered' + SumOver(droppedCount)'
    <3>1. Warnings' = Warnings /\ SumOver(droppedCount)' = SumOver(droppedCount)
      BY <2>1 DEF Warnings, SumOver
    <3>2. SumOver(emitted)' = SumOver(emitted) + 1 BY <1>4 DEF SumOver
    <3> QED BY <1>6, <1>7, <2>1, <3>1, <3>2
  <2>4. BusTyped' BY <1>1, <1>5, <1>6, <2>1, <2>2 DEF BusTyped
  <2>5. \A c \in Buses : overrunWarned'[c] <=> droppedCount'[c] > 0
    BY <1>1, <2>1 DEF BusesAccounted
  <2> QED BY <2>2, <2>3, <2>4, <2>5 DEF Bused, BusesAccounted
<1>10. CASE /\ Exhausted /\ spent' = spent
            /\ droppedCount' = [droppedCount EXCEPT ![b] = @ + 1]
            /\ overrunWarned' = [overrunWarned EXCEPT ![b] = TRUE]
            /\ IF overrunWarned[b] THEN UNCHANGED exporterVars ELSE Handle
  <2>1. offered' = IF overrunWarned[b] THEN offered ELSE offered + 1
    BY <1>3, <1>10 DEF exporterVars
  <2>2. spent' \in Nat /\ spent' <= Limit BY <1>1, <1>10 DEF BusTyped, BusesAccounted
  <2>3. SumOver(droppedCount)' = SumOver(droppedCount) + 1
    BY <1>1, <1>10, TelemetryAssumption, SumGrows DEF BusTyped, SumOver
  <2>4. Warnings' = IF overrunWarned[b] THEN Warnings ELSE Warnings + 1
    <3>1. Warnings' = Cardinality({c \in Buses : [overrunWarned EXCEPT ![b] = TRUE][c]})
      BY <1>10 DEF Warnings
    <3> QED BY <1>1, <3>1, WarningsCount
  <2>5. SumOver(emitted)' = SumOver(emitted) + 1 BY <1>4 DEF SumOver
  <2>6. SumOver(emitted)' + Warnings' = offered' + SumOver(droppedCount)'
    BY <1>6, <1>7, <2>1, <2>3, <2>4, <2>5
  <2>7. droppedCount' \in [Buses -> Nat] BY <1>1, <1>10 DEF BusTyped
  <2>8. overrunWarned' \in [Buses -> BOOLEAN] BY <1>1, <1>10 DEF BusTyped
  <2>9. offered' \in Nat BY <1>6, <2>1
  <2>10. BusTyped' BY <1>5, <2>2, <2>7, <2>8, <2>9 DEF BusTyped
  <2>11. ASSUME NEW c \in Buses PROVE overrunWarned'[c] <=> droppedCount'[c] > 0
    <3>1. droppedCount[c] \in Nat /\ (overrunWarned[c] <=> droppedCount[c] > 0)
      BY <1>1 DEF BusTyped, BusesAccounted
    <3>2. CASE c = b
      <4>1. overrunWarned'[c] = TRUE BY <1>1, <1>10, <3>2 DEF BusTyped
      <4>2. droppedCount'[c] = droppedCount[c] + 1 BY <1>1, <1>10, <3>2 DEF BusTyped
      <4> QED BY <3>1, <4>1, <4>2
    <3>3. CASE c # b
      <4>1. overrunWarned'[c] = overrunWarned[c] BY <1>1, <1>10, <3>3 DEF BusTyped
      <4>2. droppedCount'[c] = droppedCount[c] BY <1>1, <1>10, <3>3 DEF BusTyped
      <4> QED BY <3>1, <4>1, <4>2
    <3> QED BY <3>2, <3>3
  <2> QED BY <2>2, <2>6, <2>10, <2>11 DEF Bused, BusesAccounted
<1> QED BY <1>8, <1>9, <1>10 DEF Emit, EmitOver

\* What the queue does by itself, and unsubscribing, leave the counts alone.
LEMMA RestBused ==
  ASSUME Bused, Unsubscribe \/ (ExporterStep /\ UNCHANGED busVars) \/ UNCHANGED allVars
  PROVE  Bused'
<1>1. UNCHANGED <<offered, spent, droppedCount, overrunWarned, emitted>>
  BY DEF Unsubscribe, ExporterStep, busVars, allVars, exporterVars, ExporterFails,
         ExporterSucceeds, DrainGoesOn, DrainThrows, Tick
<1> QED BY <1>1 DEF Bused, BusTyped, BusesAccounted, SumOver, Warnings

\* Every event somebody observes is exported, or counted by its bus, and each bus that
\* drops is warned of once, within the budget (engine/event-bus.ts), at every step.
THEOREM BusesAreAccounted == TelemetryInit /\ [][TelemetryNext]_allVars => []BusesAccounted
<1>1. Bused /\ [TelemetryNext]_allVars => Bused'
  BY EmitBused, RestBused DEF TelemetryNext
<1>2. Bused => BusesAccounted BY DEF Bused
<1> QED BY <1>1, <1>2, BusedInit, PTL

(***************************************************************************)
(* An agent's run (AgentRun): the events against the tools, and the budgets  *)
(* against what the tools were charged.                                     *)
(***************************************************************************)
ToolStages == {"idle", "denied", "running", "refused", "succeeded", "failed", "cancelled"}
ToolEvents == {"denied", "started", "succeeded", "failed", "cancelled", "completed"}
AgentTyped ==
  /\ agentTool \in [AgentTools -> ToolStages]
  /\ agentEvents \in Seq(ToolEvents \X (AgentTools \cup {Agent}))
  /\ agentSpent \in [BudgetKeys -> Nat]

\* The notes of one tool, in a list of events.
NotesIn(f, s, t) ==
  f = [i \in 0..Len(s) |-> IF i = 0 THEN <<>>
                           ELSE IF s[i][2] = t THEN Append(f[i - 1], s[i]) ELSE f[i - 1]]
Tells(s, t, list) ==
  /\ \E f : NotesIn(f, s, t)
  /\ \A f : NotesIn(f, s, t) => f[Len(s)] = list

\* What the list of events tells of a tool is what is noted of it.
LEMMA TellsNoted ==
  ASSUME NEW t, NEW list, Tells(agentEvents, t, list)
  PROVE  Noted(t) = list
<1> DEFINE F == CHOOSE f : NotesIn(f, agentEvents, t)
<1>1. NotesIn(F, agentEvents, t) BY DEF Tells
<1>2. Noted(t) = F[Len(agentEvents)] BY DEF Noted, NotesIn
<1> HIDE DEF F
<1>3. F[Len(agentEvents)] = list BY <1>1 DEF Tells
<1> QED BY <1>2, <1>3

\* An event more is told of its tool, and of no other.
LEMMA TellsMore ==
  ASSUME NEW E, NEW s \in Seq(E), NEW e \in E, NEW t, NEW list, Tells(s, t, list)
  PROVE  Tells(Append(s, e), t, IF e[2] = t THEN Append(list, e) ELSE list)
<1> DEFINE n == Len(s)
           r == Append(s, e)
           more == IF e[2] = t THEN Append(list, e) ELSE list
           Note(f, q) == [i \in 0..Len(q) |->
             IF i = 0 THEN <<>> ELSE IF q[i][2] = t THEN Append(f[i - 1], q[i]) ELSE f[i - 1]]
<1>1. /\ n \in Nat /\ Len(r) = n + 1 /\ r[n + 1] = e
      /\ \A i \in 1..n : r[i] = s[i]
      /\ 0..n \subseteq 0..(n + 1)
  OBVIOUS
<1> HIDE DEF r
<1>2. ASSUME NEW f, NotesIn(f, r, t) PROVE f[n + 1] = more
  <2> DEFINE g == [i \in 0..n |-> f[i]]
  <2>1. f = Note(f, r) BY <1>2 DEF NotesIn
  <2>2. \A i \in 0..(n + 1) : f[i] =
          IF i = 0 THEN <<>> ELSE IF r[i][2] = t THEN Append(f[i - 1], r[i]) ELSE f[i - 1]
    BY <1>1, <2>1
  <2>3. ASSUME NEW i \in 0..n
        PROVE  g[i] = IF i = 0 THEN <<>> ELSE IF s[i][2] = t THEN Append(g[i - 1], s[i]) ELSE g[i - 1]
    <3>1. CASE i = 0 BY <1>1, <2>2, <3>1
    <3>2. CASE i # 0
      <4>1. i \in 1..n /\ i - 1 \in 0..n /\ i \in 0..(n + 1) BY <1>1, <3>2
      <4>2. g[i] = f[i] /\ g[i - 1] = f[i - 1] /\ r[i] = s[i] BY <1>1, <4>1
      <4> QED BY <2>2, <3>2, <4>1, <4>2
    <3> QED BY <3>1, <3>2
  <2>4. NotesIn(g, s, t)
    <3>1. g = [i \in 0..n |-> g[i]] OBVIOUS
    <3> HIDE DEF g
    <3>2. g = Note(g, s) BY <2>3, <3>1
    <3> QED BY <3>2 DEF NotesIn
  <2>5. g[n] = list
    <3> HIDE DEF g
    <3> QED BY <2>4 DEF Tells
  <2>6. f[n] = list BY <1>1, <2>5
  <2> QED BY <1>1, <2>2, <2>6
<1>3. \E f : NotesIn(f, r, t)
  <2>1. PICK g : NotesIn(g, s, t) BY DEF Tells
  <2>2. g = Note(g, s) BY <2>1 DEF NotesIn
  <2> DEFINE f == [i \in 0..(n + 1) |-> IF i = n + 1 THEN more ELSE g[i]]
  <2>3. \A i \in 0..n : g[i] =
          IF i = 0 THEN <<>> ELSE IF s[i][2] = t THEN Append(g[i - 1], s[i]) ELSE g[i - 1]
    BY <2>2
  <2>4. g[n] = list BY <2>1 DEF Tells
  <2>5. ASSUME NEW i \in 0..(n + 1)
        PROVE  f[i] = IF i = 0 THEN <<>> ELSE IF r[i][2] = t THEN Append(f[i - 1], r[i]) ELSE f[i - 1]
    <3>1. CASE i = 0
      <4>1. i \in 0..n /\ i # n + 1 BY <1>1, <3>1
      <4> HIDE DEF n
      <4>2. f[i] = g[i] BY <4>1
      <4> HIDE DEF f
      <4> QED BY <2>3, <3>1, <4>1, <4>2
    <3>2. CASE i \in 1..n
      <4>1. i - 1 \in 0..n /\ i # n + 1 /\ i - 1 # n + 1 /\ i # 0 /\ i \in 0..n BY <1>1, <3>2
      <4>2. f[i] = g[i] /\ f[i - 1] = g[i - 1]
        <5> HIDE DEF n
        <5>1. i - 1 \in 0..(n + 1) BY <1>1, <4>1
        <5> QED BY <4>1, <5>1
      <4>3. r[i] = s[i] BY <1>1, <3>2
      <4> HIDE DEF f
      <4> QED BY <2>3, <4>1, <4>2, <4>3
    <3>3. CASE i = n + 1
      <4>1. n \in 0..(n + 1) /\ n # n + 1 /\ i # 0 /\ i - 1 = n BY <1>1, <3>3
      <4> HIDE DEF n
      <4>2. f[n] = g[n] /\ f[i] = more BY <4>1, <3>3
      <4> HIDE DEF f
      <4> QED BY <1>1, <2>4, <3>3, <4>1, <4>2
    <3> QED BY <1>1, <3>1, <3>2, <3>3
  <2>6. f = [i \in 0..(n + 1) |-> f[i]] OBVIOUS
  <2> HIDE DEF f
  <2>7. f = Note(f, r) BY <1>1, <2>5, <2>6
  <2>8. NotesIn(f, r, t) BY <2>7 DEF NotesIn
  <2> QED BY <2>8
<1>4. Tells(r, t, more) BY <1>1, <1>2, <1>3 DEF Tells
<1> QED BY <1>4 DEF r

\* What an agent's events say of a tool in a given stage, as AgentTruth has it.
ToldBy(stage, t) ==
  CASE stage = "idle" -> <<>>
    [] stage = "denied" -> <<<<"denied", t>>>>
    [] stage = "running" -> <<<<"started", t>>>>
    [] stage = "refused" -> <<<<"started", t>>, <<"cancelled", t>>>>
    [] OTHER -> <<<<"started", t>>, <<stage, t>>>>
Replayed == \A t \in AgentTools : Tells(agentEvents, t, ToldBy(agentTool[t], t))

\* The budgets against the charges of the tools that ran or were refused.
Ran == {t \in AgentTools : agentTool[t] \notin {"idle", "denied", "refused"}}
RefusedTools == {t \in AgentTools : agentTool[t] = "refused"}
ChargesOf(k) == [t \in AgentTools |-> AgentCharges[t][k]]
ChargedTo(k, T) == SumFunctionOnSet(ChargesOf(k), T)
PaidFor(k, paid, ran, refused) ==
  /\ paid <= AgentLimits[k] /\ paid >= ChargedTo(k, ran)
  /\ paid <= ChargedTo(k, ran \cup refused)
  /\ refused = {} => paid = ChargedTo(k, ran)
Paid == \A k \in BudgetKeys : PaidFor(k, agentSpent[k], Ran, RefusedTools)

AgentSound == AgentTyped /\ Replayed /\ Paid

\* The invariant says what AgentTruth says.
LEMMA AgentSoundIsTrue == AgentSound => AgentTruth
<1> SUFFICES ASSUME AgentSound PROVE AgentTruth
  OBVIOUS
<1>1. \A t \in AgentTools : Noted(t) = ToldBy(agentTool[t], t)
  BY TellsNoted DEF AgentSound, Replayed
<1>2. \A k \in BudgetKeys : PaidFor(k, agentSpent[k], Ran, RefusedTools) BY DEF AgentSound, Paid
<1> QED BY <1>1, <1>2 DEF AgentTruth, ToldBy, PaidFor, ChargedTo, ChargesOf, Ran, RefusedTools

\* A tool more adds its charge.
LEMMA ChargedMore ==
  ASSUME NEW k \in BudgetKeys, NEW T \in SUBSET AgentTools
  PROVE  /\ ChargedTo(k, {}) = 0 /\ ChargedTo(k, T) \in Nat
         /\ \A t \in AgentTools : /\ AgentCharges[t][k] \in Nat
                                  /\ t \notin T => ChargedTo(k, T \cup {t}) = AgentCharges[t][k] + ChargedTo(k, T)
<1> DEFINE w == ChargesOf(k)
<1>1. \A t \in AgentTools : w[t] = AgentCharges[t][k] /\ w[t] \in Nat
  BY AgentAssumption DEF ChargesOf
<1>2. \A U \in SUBSET AgentTools : IsFiniteSet(U) /\ \A t \in U : w[t] \in Nat
  BY <1>1, AgentAssumption, FS_Subset
<1> HIDE DEF w
<1>3. SumFunctionOnSet(w, {}) = 0 /\ SumFunctionOnSet(w, T) \in Nat BY <1>2, SumAdds
<1>4. ASSUME NEW t \in AgentTools, t \notin T
      PROVE  SumFunctionOnSet(w, T \cup {t}) = w[t] + SumFunctionOnSet(w, T)
  <2> DEFINE U == T \cup {t}
  <2>1. U \ {t} = T /\ t \in U /\ U \in SUBSET AgentTools BY <1>4
  <2> HIDE DEF U
  <2>2. SumFunctionOnSet(w, U) = w[t] + SumFunctionOnSet(w, U \ {t}) BY <1>2, <2>1, SumAdds
  <2> QED BY <2>1, <2>2 DEF U
<1> QED BY <1>1, <1>3, <1>4 DEF ChargedTo, w

\* Nothing was called yet.
LEMMA AgentSoundInit == AgentInit => AgentSound
<1> SUFFICES ASSUME AgentInit PROVE AgentSound
  OBVIOUS
<1> DEFINE first == <<"started", Agent>>
           none == << >>
<1>1. first \in ToolEvents \X (AgentTools \cup {Agent}) BY DEF ToolEvents
<1>2. agentEvents = Append(none, first) /\ agentEvents \in Seq(ToolEvents \X (AgentTools \cup {Agent}))
  BY <1>1 DEF AgentInit
<1>3. AgentTyped BY <1>2 DEF AgentInit, AgentTyped, ToolStages, BudgetKeys
<1>4. ASSUME NEW t \in AgentTools PROVE Tells(agentEvents, t, <<>>)
  <2>1. Tells(none, t, <<>>)
    <3> DEFINE f == [i \in {0} |-> <<>>]
    <3>1. Len(none) = 0 /\ 0..0 = {0} OBVIOUS
    <3>2. NotesIn(f, none, t) BY <3>1 DEF NotesIn
    <3>3. \A g : NotesIn(g, none, t) => g[0] = <<>> BY <3>1 DEF NotesIn
    <3> QED BY <3>1, <3>2, <3>3 DEF Tells
  <2>2. none \in Seq(ToolEvents \X (AgentTools \cup {Agent})) OBVIOUS
  <2>3. first[2] # t BY AgentAssumption
  <2> HIDE DEF none, first
  <2> QED BY <1>1, <1>2, <2>1, <2>2, <2>3, TellsMore
<1>5. Replayed BY <1>4 DEF AgentInit, Replayed, ToldBy
<1>6. Ran = {} /\ RefusedTools = {} BY DEF AgentInit, Ran, RefusedTools
<1>7. Paid
  <2> SUFFICES ASSUME NEW k \in BudgetKeys PROVE PaidFor(k, agentSpent[k], {}, {})
    BY <1>6 DEF Paid
  <2>1. agentSpent[k] = 0 /\ AgentLimits[k] \in Nat BY AgentAssumption DEF AgentInit
  <2>2. ChargedTo(k, {}) = 0 BY ChargedMore
  <2>3. {} \cup {} = {} OBVIOUS
  <2> QED BY <2>1, <2>2, <2>3 DEF PaidFor
<1> QED BY <1>3, <1>5, <1>7 DEF AgentSound

\* One event is pushed, or two.
LEMMA PushOne ==
  ASSUME NEW E, NEW s \in Seq(E), NEW e \in E
  PROVE  s \o <<e>> = Append(s, e) /\ Append(s, e) \in Seq(E)
OBVIOUS

\* An event after one is two.
LEMMA AppendPair ==
  ASSUME NEW E, NEW e \in E, NEW d \in E
  PROVE  Append(<<e>>, d) = <<e, d>>
<1> DEFINE s == Append(<<e>>, d)
           t == <<e, d>>
<1>1. <<e>> \in Seq(E) /\ Len(<<e>>) = 1 OBVIOUS
<1>2. s \in Seq(E) /\ Len(s) = 2 /\ s[1] = e /\ s[2] = d BY <1>1
<1>3. t \in Seq(E) /\ Len(t) = 2 /\ t[1] = e /\ t[2] = d OBVIOUS
<1>4. 1..2 = {1, 2} OBVIOUS
<1> HIDE DEF s, t
<1>5. \A i \in 1..Len(s) : s[i] = t[i] BY <1>2, <1>3, <1>4
<1>6. s = t BY <1>2, <1>3, <1>5, SeqEqual
<1> QED BY <1>6 DEF s, t

\* Two events of one tool.
LEMMA PushTwo ==
  ASSUME NEW E, NEW s \in Seq(E), NEW e \in E, NEW d \in E
  PROVE  s \o <<e, d>> = Append(Append(s, e), d) /\ Append(Append(s, e), d) \in Seq(E)
<1>1. Append(s, e) \in Seq(E) /\ Append(Append(s, e), d) \in Seq(E) OBVIOUS
<1>2. Append(s, e) = s \o <<e>> BY PushOne
<1>3. Append(Append(s, e), d) = Append(s, e) \o <<d>> BY <1>1, PushOne
<1>4. <<e, d>> = <<e>> \o <<d>>
  <2>1. <<e>> \in Seq(E) OBVIOUS
  <2>2. Append(<<e>>, d) = <<e>> \o <<d>> BY <2>1, PushOne
  <2>3. Append(<<e>>, d) = <<e, d>> BY AppendPair
  <2> QED BY <2>2, <2>3
<1>5. (s \o <<e>>) \o <<d>> = s \o (<<e>> \o <<d>>) OBVIOUS
<1> QED BY <1>1, <1>2, <1>3, <1>4, <1>5

\* A tool that gets a stage, and the events it is noted with.
LEMMA ToolNoted ==
  ASSUME AgentTyped, Replayed, NEW t \in AgentTools, NEW stage \in ToolStages,
         agentTool' = [agentTool EXCEPT ![t] = stage],
         \/ \E x \in ToolEvents : /\ Push(<<<<x, t>>>>)
                                  /\ ToldBy(stage, t) = Append(ToldBy(agentTool[t], t), <<x, t>>)
         \/ \E x, y \in ToolEvents :
              /\ Push(<<<<x, t>>, <<y, t>>>>)
              /\ ToldBy(stage, t) = Append(Append(ToldBy(agentTool[t], t), <<x, t>>), <<y, t>>)
  PROVE  /\ agentTool' \in [AgentTools -> ToolStages]
         /\ agentEvents' \in Seq(ToolEvents \X (AgentTools \cup {Agent}))
         /\ Replayed'
<1> DEFINE E == ToolEvents \X (AgentTools \cup {Agent})
           Event(x) == <<x, t>>
<1>1. agentEvents \in Seq(E) /\ agentTool \in [AgentTools -> ToolStages] BY DEF AgentTyped
<1>2. agentTool' \in [AgentTools -> ToolStages] BY <1>1
<1>3. \A x \in ToolEvents : Event(x) \in E /\ Event(x)[2] = t OBVIOUS
<1>4. agentTool'[t] = stage /\ \A u \in AgentTools : u # t => agentTool'[u] = agentTool[u]
  BY <1>1
<1>5. \A u \in AgentTools : Tells(agentEvents, u, ToldBy(agentTool[u], u)) BY DEF Replayed
<1> HIDE DEF E, Event
<1>6. CASE \E x \in ToolEvents : /\ agentEvents' = agentEvents \o <<Event(x)>>
                                /\ ToldBy(stage, t) = Append(ToldBy(agentTool[t], t), Event(x))
  <2>1. PICK x \in ToolEvents : /\ agentEvents' = agentEvents \o <<Event(x)>>
                                /\ ToldBy(stage, t) = Append(ToldBy(agentTool[t], t), Event(x))
    BY <1>6
  <2>2. agentEvents' = Append(agentEvents, Event(x)) /\ agentEvents' \in Seq(E)
    BY <1>1, <1>3, <2>1, PushOne
  <2>3. ASSUME NEW u \in AgentTools PROVE Tells(agentEvents', u, ToldBy(agentTool'[u], u))
    <3>1. Tells(Append(agentEvents, Event(x)), u,
                IF Event(x)[2] = u THEN Append(ToldBy(agentTool[u], u), Event(x)) ELSE ToldBy(agentTool[u], u))
      BY <1>1, <1>3, <1>5, TellsMore
    <3> QED BY <1>3, <1>4, <2>1, <2>2, <3>1
  <2> QED BY <1>2, <2>2, <2>3 DEF Replayed, E
<1>7. CASE \E x, y \in ToolEvents :
             /\ agentEvents' = agentEvents \o <<Event(x), Event(y)>>
             /\ ToldBy(stage, t) = Append(Append(ToldBy(agentTool[t], t), Event(x)), Event(y))
  <2>1. PICK x, y \in ToolEvents :
             /\ agentEvents' = agentEvents \o <<Event(x), Event(y)>>
             /\ ToldBy(stage, t) = Append(Append(ToldBy(agentTool[t], t), Event(x)), Event(y))
    BY <1>7
  <2>2. /\ agentEvents' = Append(Append(agentEvents, Event(x)), Event(y)) /\ agentEvents' \in Seq(E)
        /\ Append(agentEvents, Event(x)) \in Seq(E)
    <3>1. Event(x) \in E /\ Event(y) \in E BY <1>3, <2>1
    <3>2. Append(agentEvents, Event(x)) \in Seq(E) BY <1>1, <3>1, PushOne
    <3>3. /\ agentEvents \o <<Event(x), Event(y)>> = Append(Append(agentEvents, Event(x)), Event(y))
          /\ Append(Append(agentEvents, Event(x)), Event(y)) \in Seq(E)
      BY <1>1, <3>1, PushTwo
    <3> QED BY <2>1, <3>2, <3>3
  <2>3. ASSUME NEW u \in AgentTools PROVE Tells(agentEvents', u, ToldBy(agentTool'[u], u))
    <3> DEFINE one == IF Event(x)[2] = u THEN Append(ToldBy(agentTool[u], u), Event(x)) ELSE ToldBy(agentTool[u], u)
    <3>1. Tells(Append(agentEvents, Event(x)), u, one) BY <1>1, <1>3, <1>5, TellsMore
    <3> HIDE DEF one
    <3>2. Tells(Append(Append(agentEvents, Event(x)), Event(y)), u,
                IF Event(y)[2] = u THEN Append(one, Event(y)) ELSE one)
      BY <1>3, <2>2, <3>1, TellsMore
    <3> QED BY <1>3, <1>4, <2>1, <2>2, <3>2 DEF one
  <2> QED BY <1>2, <2>2, <2>3 DEF Replayed, E
<1> QED BY <1>6, <1>7 DEF Push, Event

\* A called tool: denied, refused with part of its charges taken, or running with all.
LEMMA CallSound ==
  ASSUME AgentSound, NEW t \in AgentTools, CallTool(t)
  PROVE  AgentSound'
<1>1. /\ AgentTyped /\ Replayed /\ Paid /\ agentTool[t] = "idle"
      /\ agentTool \in [AgentTools -> ToolStages] /\ agentSpent \in [BudgetKeys -> Nat]
  BY DEF AgentSound, CallTool, AgentTyped
<1>2. ToldBy("idle", t) = <<>> BY DEF ToldBy
<1>3. t \notin Ran /\ t \notin RefusedTools /\ Ran \in SUBSET AgentTools /\ RefusedTools \in SUBSET AgentTools
      /\ Ran \cup RefusedTools \in SUBSET AgentTools
  BY <1>1 DEF Ran, RefusedTools
<1>4. CASE t \in AgentDenied
  <2>1. /\ agentTool' = [agentTool EXCEPT ![t] = "denied"]
        /\ Push(<<<<"denied", t>>>>) /\ agentSpent' = agentSpent
    BY <1>4 DEF CallTool
  <2>2. ToldBy("denied", t) = Append(ToldBy(agentTool[t], t), <<"denied", t>>)
    <3>1. ToldBy("denied", t) = <<<<"denied", t>>>> BY DEF ToldBy
    <3>2. Append(<<>>, <<"denied", t>>) = <<<<"denied", t>>>> OBVIOUS
    <3> QED BY <1>1, <1>2, <3>1, <3>2
  <2>3. /\ agentTool' \in [AgentTools -> ToolStages]
        /\ agentEvents' \in Seq(ToolEvents \X (AgentTools \cup {Agent}))
        /\ Replayed'
    <3>1. "denied" \in ToolStages /\ "denied" \in ToolEvents BY DEF ToolStages, ToolEvents
    <3> QED BY <1>1, <2>1, <2>2, <3>1, ToolNoted
  <2>4. Ran' = Ran /\ RefusedTools' = RefusedTools BY <1>1, <2>1 DEF Ran, RefusedTools
  <2>5. Paid' BY <1>1, <2>1, <2>4 DEF Paid, PaidFor, ChargedTo, ChargesOf
  <2> QED BY <1>1, <2>1, <2>3, <2>5 DEF AgentSound, AgentTyped
<1>5. CASE t \notin AgentDenied
  <2>1. agentSpent' = [k \in BudgetKeys |->
          agentSpent[k] + (IF k \in Accepted(t) THEN AgentCharges[t][k] ELSE 0)]
    BY <1>5 DEF CallTool
  <2>2. ASSUME NEW k \in BudgetKeys
        PROVE  /\ agentSpent[k] \in Nat /\ AgentCharges[t][k] \in Nat /\ AgentLimits[k] \in Nat
               /\ agentSpent'[k] = agentSpent[k] + (IF k \in Accepted(t) THEN AgentCharges[t][k] ELSE 0)
               /\ agentSpent'[k] \in Nat /\ agentSpent'[k] <= AgentLimits[k]
               /\ PaidFor(k, agentSpent[k], Ran, RefusedTools)
    <3>1. agentSpent[k] \in Nat /\ AgentCharges[t][k] \in Nat /\ AgentLimits[k] \in Nat
      BY <1>1, AgentAssumption
    <3>2. PaidFor(k, agentSpent[k], Ran, RefusedTools) /\ agentSpent[k] <= AgentLimits[k]
      BY <1>1 DEF Paid, PaidFor
    <3>3. k \in Accepted(t) => WithinLimits(t, k)
      <4>1. k \in 1..k BY DEF BudgetKeys
      <4> QED BY <4>1 DEF Accepted
    <3>4. k \in Accepted(t) => agentSpent[k] + AgentCharges[t][k] <= AgentLimits[k]
      BY <3>1, <3>2, <3>3 DEF WithinLimits
    <3>5. agentSpent'[k] = agentSpent[k] + (IF k \in Accepted(t) THEN AgentCharges[t][k] ELSE 0)
      BY <2>1
    <3> QED BY <3>1, <3>2, <3>4, <3>5
  <2>3. agentSpent' \in [BudgetKeys -> Nat]
    <3>1. \A k \in BudgetKeys : agentSpent'[k] \in Nat BY <2>2
    <3> QED BY <2>1, <3>1
  <2>4. CASE Accepted(t) = BudgetKeys
    <3>1. agentTool' = [agentTool EXCEPT ![t] = "running"] /\ Push(<<<<"started", t>>>>)
      BY <1>5, <2>4 DEF CallTool
    <3>2. ToldBy("running", t) = Append(ToldBy(agentTool[t], t), <<"started", t>>)
      <4>1. ToldBy("running", t) = <<<<"started", t>>>> BY DEF ToldBy
      <4>2. Append(<<>>, <<"started", t>>) = <<<<"started", t>>>> OBVIOUS
      <4> QED BY <1>1, <1>2, <4>1, <4>2
    <3>3. /\ agentTool' \in [AgentTools -> ToolStages]
          /\ agentEvents' \in Seq(ToolEvents \X (AgentTools \cup {Agent}))
          /\ Replayed'
      <4>1. "running" \in ToolStages /\ "started" \in ToolEvents BY DEF ToolStages, ToolEvents
      <4> QED BY <1>1, <3>1, <3>2, <4>1, ToolNoted
    <3>4. Ran' = Ran \cup {t} /\ RefusedTools' = RefusedTools BY <1>1, <3>1 DEF Ran, RefusedTools
    <3>5. ASSUME NEW k \in BudgetKeys
          PROVE  PaidFor(k, agentSpent'[k], Ran \cup {t}, RefusedTools)
      <4>1. agentSpent'[k] = agentSpent[k] + AgentCharges[t][k] BY <2>2, <2>4
      <4>2. ChargedTo(k, Ran \cup {t}) = AgentCharges[t][k] + ChargedTo(k, Ran)
        BY <1>3, ChargedMore
      <4>3. ChargedTo(k, (Ran \cup RefusedTools) \cup {t}) = AgentCharges[t][k] + ChargedTo(k, Ran \cup RefusedTools)
        <5>1. t \notin Ran \cup RefusedTools BY <1>3
        <5> QED BY <1>3, <5>1, ChargedMore
      <4>4. (Ran \cup {t}) \cup RefusedTools = (Ran \cup RefusedTools) \cup {t} OBVIOUS
      <4>5. ChargedTo(k, Ran) \in Nat /\ ChargedTo(k, Ran \cup RefusedTools) \in Nat BY <1>3, ChargedMore
      <4>6. /\ agentSpent[k] >= ChargedTo(k, Ran) /\ agentSpent[k] <= ChargedTo(k, Ran \cup RefusedTools)
            /\ RefusedTools = {} => agentSpent[k] = ChargedTo(k, Ran)
        BY <2>2 DEF PaidFor
      <4>7. agentSpent'[k] <= AgentLimits[k] /\ agentSpent[k] \in Nat /\ AgentCharges[t][k] \in Nat BY <2>2
      <4>8. ChargedTo(k, (Ran \cup {t}) \cup RefusedTools) = AgentCharges[t][k] + ChargedTo(k, Ran \cup RefusedTools)
        BY <4>3, <4>4
      <4> QED BY <4>1, <4>2, <4>5, <4>6, <4>7, <4>8 DEF PaidFor
    <3>6. Paid' BY <3>4, <3>5 DEF Paid, PaidFor, ChargedTo, ChargesOf
    <3> QED BY <2>3, <3>3, <3>6 DEF AgentSound, AgentTyped
  <2>5. CASE Accepted(t) # BudgetKeys
    <3>1. /\ agentTool' = [agentTool EXCEPT ![t] = "refused"]
          /\ Push(<<<<"started", t>>, <<"cancelled", t>>>>)
      BY <1>5, <2>5 DEF CallTool
    <3>2. ToldBy("refused", t) = Append(Append(ToldBy(agentTool[t], t), <<"started", t>>), <<"cancelled", t>>)
      <4>1. ToldBy("refused", t) = <<<<"started", t>>, <<"cancelled", t>>>> BY DEF ToldBy
      <4>2. Append(<<>>, <<"started", t>>) = <<<<"started", t>>>> OBVIOUS
      <4>3. Append(<<<<"started", t>>>>, <<"cancelled", t>>) = <<<<"started", t>>, <<"cancelled", t>>>>
        <5> DEFINE e == <<"started", t>>
                   d == <<"cancelled", t>>
        <5>1. e \in {e, d} /\ d \in {e, d} OBVIOUS
        <5> HIDE DEF e, d
        <5>2. Append(<<e>>, d) = <<e, d>> BY <5>1, AppendPair
        <5> QED BY <5>2 DEF e, d
      <4> QED BY <1>1, <1>2, <4>1, <4>2, <4>3
    <3>3. /\ agentTool' \in [AgentTools -> ToolStages]
          /\ agentEvents' \in Seq(ToolEvents \X (AgentTools \cup {Agent}))
          /\ Replayed'
      <4>1. "refused" \in ToolStages /\ "started" \in ToolEvents /\ "cancelled" \in ToolEvents
        BY DEF ToolStages, ToolEvents
      <4> QED BY <1>1, <3>1, <3>2, <4>1, ToolNoted
    <3>4. Ran' = Ran /\ RefusedTools' = RefusedTools \cup {t} BY <1>1, <3>1 DEF Ran, RefusedTools
    <3>5. ASSUME NEW k \in BudgetKeys
          PROVE  PaidFor(k, agentSpent'[k], Ran, RefusedTools \cup {t})
      <4>1. agentSpent'[k] \in {agentSpent[k], agentSpent[k] + AgentCharges[t][k]} BY <2>2
      <4>2. ChargedTo(k, (Ran \cup RefusedTools) \cup {t}) = AgentCharges[t][k] + ChargedTo(k, Ran \cup RefusedTools)
        <5>1. t \notin Ran \cup RefusedTools BY <1>3
        <5> QED BY <1>3, <5>1, ChargedMore
      <4>3. Ran \cup (RefusedTools \cup {t}) = (Ran \cup RefusedTools) \cup {t} OBVIOUS
      <4>4. ChargedTo(k, Ran \cup (RefusedTools \cup {t})) = AgentCharges[t][k] + ChargedTo(k, Ran \cup RefusedTools)
        BY <4>2, <4>3
      <4>5. ChargedTo(k, Ran) \in Nat /\ ChargedTo(k, Ran \cup RefusedTools) \in Nat BY <1>3, ChargedMore
      <4>6. agentSpent[k] >= ChargedTo(k, Ran) /\ agentSpent[k] <= ChargedTo(k, Ran \cup RefusedTools)
        BY <2>2 DEF PaidFor
      <4>7. agentSpent'[k] <= AgentLimits[k] /\ agentSpent[k] \in Nat /\ AgentCharges[t][k] \in Nat BY <2>2
      <4>8. RefusedTools \cup {t} # {} OBVIOUS
      <4> QED BY <4>1, <4>4, <4>5, <4>6, <4>7, <4>8 DEF PaidFor
    <3>6. Paid' BY <3>4, <3>5 DEF Paid, PaidFor, ChargedTo, ChargesOf
    <3> QED BY <2>3, <3>3, <3>6 DEF AgentSound, AgentTyped
  <2> QED BY <2>4, <2>5
<1> QED BY <1>4, <1>5

\* A tool that ends was running, and keeps what it was charged.
LEMMA ToolEndSound ==
  ASSUME AgentSound, NEW t \in AgentTools, NEW end \in {"succeeded", "failed", "cancelled"}, ToolEnds(t, end)
  PROVE  AgentSound'
<1>1. /\ AgentTyped /\ Replayed /\ Paid /\ agentTool[t] = "running"
      /\ agentTool \in [AgentTools -> ToolStages]
      /\ agentTool' = [agentTool EXCEPT ![t] = end] /\ Push(<<<<end, t>>>>) /\ agentSpent' = agentSpent
  BY DEF AgentSound, ToolEnds, AgentTyped
<1>2. ToldBy(end, t) = Append(ToldBy(agentTool[t], t), <<end, t>>)
  <2>1. ToldBy("running", t) = <<<<"started", t>>>> BY DEF ToldBy
  <2>2. Append(<<<<"started", t>>>>, <<end, t>>) = <<<<"started", t>>, <<end, t>>>>
    <3> DEFINE e == <<"started", t>>
               d == <<end, t>>
    <3>1. e \in {e, d} /\ d \in {e, d} OBVIOUS
    <3> HIDE DEF e, d
    <3>2. Append(<<e>>, d) = <<e, d>> BY <3>1, AppendPair
    <3> QED BY <3>2 DEF e, d
  <2>3. ToldBy(end, t) = <<<<"started", t>>, <<end, t>>>> BY DEF ToldBy
  <2> QED BY <1>1, <2>1, <2>2, <2>3
<1>3. /\ agentTool' \in [AgentTools -> ToolStages]
      /\ agentEvents' \in Seq(ToolEvents \X (AgentTools \cup {Agent}))
      /\ Replayed'
  <2>1. end \in ToolStages /\ end \in ToolEvents BY DEF ToolStages, ToolEvents
  <2> QED BY <1>1, <1>2, <2>1, ToolNoted
<1>4. Ran' = Ran /\ RefusedTools' = RefusedTools BY <1>1 DEF Ran, RefusedTools
<1>5. Paid' BY <1>1, <1>4 DEF Paid, PaidFor, ChargedTo, ChargesOf
<1> QED BY <1>1, <1>3, <1>5 DEF AgentSound, AgentTyped

\* The end of the body is noted of no tool.
LEMMA BodySound ==
  ASSUME AgentSound, NEW end \in {"completed", "failed"}, BodyEnds(end)
  PROVE  AgentSound'
<1> DEFINE E == ToolEvents \X (AgentTools \cup {Agent})
           last == <<end, Agent>>
<1>1. /\ AgentTyped /\ Replayed /\ Paid /\ agentEvents \in Seq(E)
      /\ agentEvents' = agentEvents \o <<last>> /\ agentTool' = agentTool /\ agentSpent' = agentSpent
  BY DEF AgentSound, BodyEnds, Push, AgentTyped
<1>2. last \in E /\ \A t \in AgentTools : last[2] # t
  BY AgentAssumption DEF ToolEvents
<1> HIDE DEF E, last
<1>3. agentEvents' = Append(agentEvents, last) /\ agentEvents' \in Seq(E) BY <1>1, <1>2, PushOne
<1>4. ASSUME NEW t \in AgentTools PROVE Tells(agentEvents', t, ToldBy(agentTool'[t], t))
  <2>1. Tells(agentEvents, t, ToldBy(agentTool[t], t)) BY <1>1 DEF Replayed
  <2> QED BY <1>1, <1>2, <1>3, <2>1, TellsMore
<1>5. Replayed' BY <1>4 DEF Replayed
<1>6. Paid' BY <1>1 DEF Paid, PaidFor, ChargedTo, ChargesOf, Ran, RefusedTools
<1> QED BY <1>1, <1>3, <1>5, <1>6 DEF AgentSound, AgentTyped, E

\* The events of an agent replay its run, and its budgets hold what its tools were
\* charged (runAgent in ai/index.ts), for all tools, charges and limits.
THEOREM AgentsAreTrue == AgentInit /\ [][AgentNext]_agentVars => []AgentTruth
<1>1. AgentSound /\ [AgentNext]_agentVars => AgentSound'
  <2> SUFFICES ASSUME AgentSound, [AgentNext]_agentVars PROVE AgentSound'
    OBVIOUS
  <2>1. CASE UNCHANGED agentVars
    BY <2>1 DEF agentVars, AgentSound, AgentTyped, Replayed, Paid, PaidFor, ChargedTo, ChargesOf, Ran, RefusedTools
  <2> QED BY <2>1, CallSound, ToolEndSound, BodySound DEF AgentNext
<1> QED BY <1>1, AgentSoundInit, AgentSoundIsTrue, PTL

\* A function of the numbers up to m that is given by its first value and by a step from
\* each value to the next exists.
StepsOn(S, m, G) == G \in [1..m -> [S -> S]]
Unrolls(f, S, b, m, G) == f \in [0..m -> S] /\ f[0] = b /\ \A n \in 1..m : f[n] = G[n][f[n - 1]]
\* Such a function exists, if each step stays among the values.
LEMMA Unrolled ==
  ASSUME NEW S, NEW b \in S, NEW m \in Nat, NEW G, StepsOn(S, m, G)
  PROVE  \E f : Unrolls(f, S, b, m, G)
<1> USE DEF StepsOn
<1> DEFINE Upto(f, k) == f[0] = b /\ \A n \in 1..k : f[n] = G[n][f[n - 1]]
           T == {k \in 0..m : \E f \in [0..k -> S] : Upto(f, k)}
<1>1. 0 \in T
  <2> DEFINE f == [n \in 0..0 |-> b]
  <2>1. f \in [0..0 -> S] /\ f[0] = b OBVIOUS
  <2>2. \A n \in 1..0 : FALSE OBVIOUS
  <2> HIDE DEF f
  <2> QED BY <2>1, <2>2
<1>2. ASSUME NEW k \in T, k + 1 \in 0..m PROVE k + 1 \in T
  <2>1. k \in 0..m /\ k \in Nat /\ k + 1 \in 1..m BY <1>2
  <2>2. PICK f \in [0..k -> S] : Upto(f, k) BY <2>1
  <2> DEFINE g == [n \in 0..(k + 1) |-> IF n = k + 1 THEN G[k + 1][f[k]] ELSE f[n]]
  <2>3. f[k] \in S /\ G[k + 1] \in [S -> S] BY <2>1, <2>2
  <2>4. G[k + 1][f[k]] \in S BY <2>3
  <2>5. ASSUME NEW n \in 0..(k + 1) PROVE g[n] \in S /\ (n # k + 1 => g[n] = f[n] /\ n \in 0..k)
    <3>1. n # k + 1 => n \in 0..k BY <2>1
    <3> QED BY <2>2, <2>4, <3>1
  <2>6. g \in [0..(k + 1) -> S] BY <2>5
  <2>7. g[k + 1] = G[k + 1][f[k]]
    <3>1. k + 1 \in 0..(k + 1) BY <2>1
    <3> QED BY <3>1
  <2> HIDE DEF g
  <2>8. g[0] = b
    <3>1. 0 \in 0..(k + 1) /\ 0 # k + 1 BY <2>1
    <3> QED BY <2>2, <2>5, <3>1
  <2>9. ASSUME NEW n \in 1..(k + 1) PROVE g[n] = G[n][g[n - 1]]
    <3>1. n \in 0..(k + 1) /\ n - 1 \in 0..(k + 1) /\ n - 1 # k + 1 BY <2>1
    <3>2. g[n - 1] = f[n - 1] BY <2>5, <3>1
    <3>3. CASE n = k + 1
      <4>1. n - 1 = k BY <2>1, <3>3
      <4> QED BY <2>7, <3>2, <3>3, <4>1
    <3>4. CASE n # k + 1
      <4>1. n \in 1..k BY <2>1, <3>4
      <4>2. f[n] = G[n][f[n - 1]] BY <2>2, <4>1
      <4> QED BY <2>5, <3>1, <3>2, <3>4, <4>2
    <3> QED BY <3>3, <3>4
  <2> QED BY <1>2, <2>6, <2>8, <2>9
<1>3. \A s \in 0..m : s \in T
  <2>1. ASSUME NEW s \in 0..m, \A r \in 0..m : r < s => r \in T PROVE s \in T
    <3>1. CASE s = 0 BY <1>1, <3>1
    <3>2. CASE s # 0
      <4>1. s - 1 \in 0..m /\ s - 1 < s /\ (s - 1) + 1 = s BY <3>2
      <4>2. s - 1 \in T BY <2>1, <4>1
      <4> HIDE DEF T
      <4> QED BY <1>2, <4>1, <4>2
    <3> QED BY <3>1, <3>2
  <2> HIDE DEF T
  <2> QED BY <2>1, UpTo
<1>4. m \in T BY <1>3
<1> QED BY <1>4 DEF Unrolls

\* The transforms of an item, one after the other.
Transforms == {"map", "filter", "tap"}
Passages == [value : PlItems, skipped : BOOLEAN, told : Seq(PlItems)]
PassageOf(f, transforms, item) ==
  f = [n \in 0..Len(transforms) |->
        IF n = 0 THEN [value |-> item, skipped |-> FALSE, told |-> <<>>]
        ELSE LET was == f[n - 1]
             IN IF was.skipped THEN was
                ELSE CASE transforms[n] = "map" -> [was EXCEPT !.value = PlMap[@]]
                       [] transforms[n] = "filter" -> [was EXCEPT !.skipped = was.value \notin PlPasses]
                       [] transforms[n] = "tap" -> [was EXCEPT !.told = Append(@, was.value)]]
Passed(was, transform) ==
  IF was.skipped THEN was
  ELSE CASE transform = "map" -> [was EXCEPT !.value = PlMap[@]]
         [] transform = "filter" -> [was EXCEPT !.skipped = was.value \notin PlPasses]
         [] transform = "tap" -> [was EXCEPT !.told = Append(@, was.value)]

\* A transform leads from a passage to a passage.
LEMMA PassedTyped ==
  ASSUME NEW was \in Passages, NEW transform \in Transforms
  PROVE  /\ Passed(was, transform) \in Passages
         /\ was.skipped => Passed(was, transform) = was
         /\ ~was.skipped /\ transform = "map" => Passed(was, transform) = [was EXCEPT !.value = PlMap[@]]
         /\ ~was.skipped /\ transform = "filter" =>
              Passed(was, transform) = [was EXCEPT !.skipped = was.value \notin PlPasses]
         /\ ~was.skipped /\ transform = "tap" => Passed(was, transform) = [was EXCEPT !.told = Append(@, was.value)]
<1>1. was.value \in PlItems /\ was.skipped \in BOOLEAN /\ was.told \in Seq(PlItems) BY DEF Passages
<1>2. PlMap[was.value] \in PlItems BY <1>1, PipelinesAssumption
<1>3. Append(was.told, was.value) \in Seq(PlItems) BY <1>1
<1>4. CASE was.skipped BY <1>4 DEF Passed
<1>5. CASE ~was.skipped /\ transform = "map" BY <1>2, <1>5 DEF Passed, Passages
<1>6. CASE ~was.skipped /\ transform = "filter" BY <1>6 DEF Passed, Passages
<1>7. CASE ~was.skipped /\ transform = "tap" BY <1>3, <1>7 DEF Passed, Passages
<1> QED BY <1>4, <1>5, <1>6, <1>7 DEF Transforms

\* There is a passage of every item.
LEMMA AppliedSteps ==
  ASSUME NEW T \in Seq(Transforms), NEW item \in PlItems
  PROVE  /\ Applied(T, item)[0] = [value |-> item, skipped |-> FALSE, told |-> <<>>]
         /\ \A n \in 1..Len(T) : Applied(T, item)[n] = Passed(Applied(T, item)[n - 1], T[n])
<1> DEFINE m == Len(T)
           first == [value |-> item, skipped |-> FALSE, told |-> <<>>]
           G == [n \in 1..m |-> [w \in Passages |-> Passed(w, T[n])]]
           A == Applied(T, item)
<1>1. m \in Nat /\ \A n \in 1..m : T[n] \in Transforms OBVIOUS
<1>2. first \in Passages
  <2>1. <<>> \in Seq(PlItems) OBVIOUS
  <2> QED BY <2>1 DEF Passages
<1>3. G \in [1..m -> [Passages -> Passages]]
  <2>1. \A n \in 1..m, w \in Passages : Passed(w, T[n]) \in Passages BY <1>1, PassedTyped
  <2> QED BY <2>1
<1>4. \A n \in 1..m, w \in Passages : G[n][w] = Passed(w, T[n]) OBVIOUS
<1> HIDE DEF m, G, first
<1>5. PICK f : Unrolls(f, Passages, first, m, G) BY <1>1, <1>2, <1>3, Unrolled DEF StepsOn
<1>6. ASSUME NEW n \in 0..m PROVE f[n] = IF n = 0 THEN first ELSE Passed(f[n - 1], T[n])
  <2>1. CASE n = 0 BY <1>5, <2>1 DEF Unrolls
  <2>2. CASE n # 0
    <3>1. n \in 1..m /\ n - 1 \in 0..m BY <1>1, <2>2
    <3>2. f[n - 1] \in Passages BY <1>5, <3>1 DEF Unrolls
    <3> QED BY <1>4, <1>5, <2>2, <3>1, <3>2 DEF Unrolls
  <2> QED BY <2>1, <2>2
<1>7. PassageOf(f, T, item)
  <2>1. f = [n \in 0..m |-> f[n]] BY <1>5 DEF Unrolls
  <2>2. f = [n \in 0..m |-> IF n = 0 THEN first ELSE Passed(f[n - 1], T[n])] BY <1>6, <2>1
  <2> QED BY <2>2 DEF PassageOf, Passed, m, first
<1>8. PassageOf(A, T, item) BY <1>7 DEF Applied, PassageOf
<1>9. A = [n \in 0..m |-> IF n = 0 THEN first ELSE Passed(A[n - 1], T[n])]
  BY <1>8 DEF PassageOf, Passed, m, first
<1> HIDE DEF A
<1>10. \A n \in 0..m : A[n] = IF n = 0 THEN first ELSE Passed(A[n - 1], T[n]) BY <1>9
<1>11. A[0] = first
  <2>1. 0 \in 0..m BY <1>1
  <2> QED BY <1>10, <2>1
<1>12. \A n \in 1..m : A[n] = Passed(A[n - 1], T[n])
  <2>1. \A n \in 1..m : n \in 0..m /\ n # 0 BY <1>1
  <2> QED BY <1>10, <2>1
<1> QED BY <1>11, <1>12 DEF A, m, first

\* Of a set of numbers, what is in it up to n is what was up to n - 1, and n if it is in it.
Until(Q, n) == {k \in 1..n : k \in Q}
\* So one more number adds at most one to the count.
LEMMA CountedUntil ==
  ASSUME NEW Q, NEW n \in Nat \ {0}
  PROVE  /\ Until(Q, n) = Until(Q, n - 1) \cup (IF n \in Q THEN {n} ELSE {})
         /\ Cardinality(Until(Q, n - 1)) \in 0..(n - 1)
         /\ Cardinality(Until(Q, n)) = Cardinality(Until(Q, n - 1)) + (IF n \in Q THEN 1 ELSE 0)
<1> DEFINE A == {k \in 1..(n - 1) : k \in Q}
           B == {k \in 1..n : k \in Q}
<1>1. B = A \cup (IF n \in Q THEN {n} ELSE {})
  <2>1. \A k : k \in 1..n <=> k \in 1..(n - 1) \/ k = n OBVIOUS
  <2> QED BY <2>1
<1>2. IsFiniteSet(1..(n - 1)) /\ Cardinality(1..(n - 1)) = n - 1
  <2>1. 1 \in Int /\ n - 1 \in Int /\ (1 > n - 1 => n - 1 = 0) /\ (n - 1) - 1 + 1 = n - 1 OBVIOUS
  <2>2. IsFiniteSet(1..(n - 1)) /\ Cardinality(1..(n - 1)) = IF 1 > n - 1 THEN 0 ELSE (n - 1) - 1 + 1
    BY <2>1, FS_Interval
  <2> QED BY <2>1, <2>2
<1>3. A \subseteq 1..(n - 1) /\ n \notin A OBVIOUS
<1> HIDE DEF A, B
<1>4. IsFiniteSet(A) /\ Cardinality(A) \in Nat /\ Cardinality(A) <= n - 1
  BY <1>2, <1>3, FS_Subset, FS_CardinalityType
<1>5. Cardinality(A) \in 0..(n - 1)
  <2> DEFINE c == Cardinality(A)
  <2>1. c \in Nat /\ c <= n - 1 BY <1>4
  <2> HIDE DEF c
  <2>2. c \in 0..(n - 1) BY <2>1
  <2> QED BY <2>2 DEF c
<1>6. n \in Q => B = A \cup {n} BY <1>1
<1>7. n \in Q => Cardinality(B) = Cardinality(A) + 1 BY <1>3, <1>4, <1>6, FS_AddElement
<1>8. n \notin Q => Cardinality(B) = Cardinality(A) + 0
  <2>1. n \notin Q => B = A BY <1>1
  <2>2. Cardinality(A) + 0 = Cardinality(A) BY <1>4
  <2> QED BY <2>1, <2>2
<1>9. Cardinality(B) = Cardinality(A) + (IF n \in Q THEN 1 ELSE 0) BY <1>7, <1>8
<1> QED BY <1>1, <1>5, <1>9 DEF A, B, Until

\* And up to nothing there is nothing.
LEMMA NothingUntil == \A Q : Until(Q, 0) = {} /\ Cardinality(Until(Q, 0)) = 0
<1>1. \A Q : Until(Q, 0) = {} BY DEF Until
<1> QED BY <1>1, FS_EmptySet

\* What so many maps make of an item.
LEMMA MappedSteps ==
  ASSUME NEW T \in Seq(Transforms), NEW item \in PlItems
  PROVE  /\ Mapped(T, item)[0] = item
         /\ \A n \in 1..Len(T) : Mapped(T, item)[n] = PlMap[Mapped(T, item)[n - 1]]
<1> DEFINE m == Len(T)
           G == [n \in 1..m |-> [v \in PlItems |-> PlMap[v]]]
           By(f) == [n \in 0..m |-> IF n = 0 THEN item ELSE PlMap[f[n - 1]]]
           A == Mapped(T, item)
<1>1. m \in Nat OBVIOUS
<1>2. StepsOn(PlItems, m, G) BY PipelinesAssumption DEF StepsOn
<1>3. \A n \in 1..m, v \in PlItems : G[n][v] = PlMap[v] OBVIOUS
<1>4. A = CHOOSE f : f = By(f) BY DEF Mapped
<1> HIDE DEF m, G, A
<1>5. PICK f : Unrolls(f, PlItems, item, m, G) BY <1>1, <1>2, Unrolled
<1>6. ASSUME NEW n \in 0..m PROVE f[n] = IF n = 0 THEN item ELSE PlMap[f[n - 1]]
  <2>1. CASE n = 0 BY <1>5, <2>1 DEF Unrolls
  <2>2. CASE n # 0
    <3>1. n \in 1..m /\ n - 1 \in 0..m BY <1>1, <2>2
    <3>2. f[n - 1] \in PlItems BY <1>5, <3>1 DEF Unrolls
    <3> QED BY <1>3, <1>5, <2>2, <3>1, <3>2 DEF Unrolls
  <2> QED BY <2>1, <2>2
<1>7. f = By(f)
  <2>1. f = [n \in 0..m |-> f[n]] BY <1>5 DEF Unrolls
  <2> QED BY <1>6, <2>1
<1>8. A = By(A) BY <1>4, <1>7
<1>9. \A n \in 0..m : A[n] = IF n = 0 THEN item ELSE PlMap[A[n - 1]] BY <1>8
<1>10. A[0] = item
  <2>1. 0 \in 0..m BY <1>1
  <2> QED BY <1>9, <2>1
<1>11. \A n \in 1..m : A[n] = PlMap[A[n - 1]]
  <2>1. \A n \in 1..m : n \in 0..m /\ n # 0 BY <1>1
  <2> QED BY <1>9, <2>1
<1> QED BY <1>10, <1>11 DEF A, m

\* The value after n transforms: an item at first, and then what a map makes of it.
LEMMA ValueSteps ==
  ASSUME NEW T \in Seq(Transforms), NEW item \in PlItems
  PROVE  /\ ValueAt(T, item, 0) = item
         /\ \A n \in 1..Len(T) : ValueAt(T, item, n) =
              IF T[n] = "map" THEN PlMap[ValueAt(T, item, n - 1)] ELSE ValueAt(T, item, n - 1)
<1> DEFINE Q == {k \in 1..Len(T) : T[k] = "map"}
           V == Mapped(T, item)
<1>1. V[0] = item /\ \A n \in 1..Len(T) : V[n] = PlMap[V[n - 1]] BY MappedSteps
<1>2. ASSUME NEW n \in 0..Len(T) PROVE ValueAt(T, item, n) = V[Cardinality(Until(Q, n))]
  <2>1. {k \in 1..n : T[k] = "map"} = Until(Q, n) BY DEF Until
  <2> QED BY <2>1 DEF ValueAt
<1>3. Len(T) \in Nat OBVIOUS
<1> HIDE DEF V
<1>4. ValueAt(T, item, 0) = item
  <2>1. Cardinality(Until(Q, 0)) = 0 BY NothingUntil
  <2>2. 0 \in 0..Len(T) BY <1>3
  <2> QED BY <1>1, <1>2, <2>1, <2>2
<1>5. ASSUME NEW n \in 1..Len(T)
      PROVE  ValueAt(T, item, n) =
               IF T[n] = "map" THEN PlMap[ValueAt(T, item, n - 1)] ELSE ValueAt(T, item, n - 1)
  <2> DEFINE c == Cardinality(Until(Q, n - 1))
             d == Cardinality(Until(Q, n))
  <2>1. n \in Nat \ {0} /\ n \in 0..Len(T) /\ n - 1 \in 0..Len(T) BY <1>3
  <2>2. c \in 0..(n - 1) /\ d = c + (IF n \in Q THEN 1 ELSE 0) BY <2>1, CountedUntil
  <2>3. n \in Q <=> T[n] = "map" OBVIOUS
  <2>4. ValueAt(T, item, n) = V[d] /\ ValueAt(T, item, n - 1) = V[c] BY <1>2, <2>1
  <2> HIDE DEF c, d, Q
  <2>5. CASE T[n] = "map"
    <3>1. d = c + 1 BY <2>2, <2>3, <2>5
    <3>2. d \in 1..Len(T) /\ d - 1 = c BY <1>3, <2>1, <2>2, <3>1
    <3>3. V[d] = PlMap[V[c]] BY <1>1, <3>2
    <3> QED BY <2>4, <2>5, <3>3
  <2>6. CASE T[n] # "map"
    <3>1. d = c BY <2>2, <2>3, <2>6
    <3> QED BY <2>4, <2>6, <3>1
  <2> QED BY <2>5, <2>6
<1> QED BY <1>4, <1>5

\* Where the passage of an item stands after n transforms.
PassageFits(T, item, n, w) ==
  /\ w \in Passages /\ w.skipped = FailsBy(T, item, n)
  /\ ~w.skipped => w.value = ValueAt(T, item, n)
  /\ Len(w.told) = Cardinality(Taps(T, item, n))
  /\ ToSet(w.told) = {ValueAt(T, item, k) : k \in Taps(T, item, n)}

\* One transform more takes it to where it stands next.
LEMMA PassageFitsOn ==
  ASSUME NEW T \in Seq(Transforms), NEW item \in PlItems, NEW n \in 1..Len(T), NEW w,
         PassageFits(T, item, n - 1, w)
  PROVE  PassageFits(T, item, n, Passed(w, T[n]))
<1> DEFINE V(k) == ValueAt(T, item, k)
           F(k) == FailsBy(T, item, k)
           H(k) == Taps(T, item, k)
           x == Passed(w, T[n])
<1>1. /\ w \in Passages /\ w.skipped = F(n - 1) /\ (~w.skipped => w.value = V(n - 1))
      /\ Len(w.told) = Cardinality(H(n - 1)) /\ ToSet(w.told) = {V(k) : k \in H(n - 1)}
  BY DEF PassageFits
<1>2. V(n) = IF T[n] = "map" THEN PlMap[V(n - 1)] ELSE V(n - 1) BY ValueSteps
<1>3. n \in Nat \ {0} /\ T[n] \in Transforms OBVIOUS
<1>4. F(n) <=> F(n - 1) \/ (T[n] = "filter" /\ V(n) \notin PlPasses)
  <2>1. \A k : k \in 1..n <=> k \in 1..(n - 1) \/ k = n BY <1>3
  <2> QED BY <2>1 DEF FailsBy
<1>5. /\ H(n) = H(n - 1) \cup (IF T[n] = "tap" /\ ~F(n) THEN {n} ELSE {})
      /\ Cardinality(H(n - 1)) \in Nat
      /\ Cardinality(H(n)) = Cardinality(H(n - 1)) + (IF T[n] = "tap" /\ ~F(n) THEN 1 ELSE 0)
  <2> DEFINE Q == {k \in 1..n : T[k] = "tap" /\ ~F(k)}
  <2>1. H(n) = Until(Q, n) BY DEF Taps, Until
  <2>2. H(n - 1) = Until(Q, n - 1)
    <3>1. \A k \in 1..(n - 1) : k \in 1..n BY <1>3
    <3> QED BY <3>1 DEF Taps, Until
  <2>3. n \in Q <=> T[n] = "tap" /\ ~F(n) BY <1>3
  <2> HIDE DEF Q, F, H
  <2>4. /\ H(n) = H(n - 1) \cup (IF n \in Q THEN {n} ELSE {})
        /\ Cardinality(H(n - 1)) \in 0..(n - 1)
        /\ Cardinality(H(n)) = Cardinality(H(n - 1)) + (IF n \in Q THEN 1 ELSE 0)
    BY <1>3, <2>1, <2>2, CountedUntil
  <2>5. Cardinality(H(n - 1)) \in Nat BY <1>3, <2>4
  <2> QED BY <2>3, <2>4, <2>5
<1>6. /\ x \in Passages
      /\ w.skipped => x = w
      /\ ~w.skipped /\ T[n] = "map" => x = [w EXCEPT !.value = PlMap[@]]
      /\ ~w.skipped /\ T[n] = "filter" => x = [w EXCEPT !.skipped = w.value \notin PlPasses]
      /\ ~w.skipped /\ T[n] = "tap" => x = [w EXCEPT !.told = Append(@, w.value)]
  BY <1>1, <1>3, PassedTyped
<1>7. F(n) \in BOOLEAN /\ F(n - 1) \in BOOLEAN BY DEF FailsBy
<1>8. w.told \in Seq(PlItems) /\ w.skipped \in BOOLEAN /\ w.value \in PlItems BY <1>1 DEF Passages
<1> HIDE DEF V, F, H, x
<1>9. Cardinality(H(n - 1)) + 0 = Cardinality(H(n - 1)) BY <1>5
<1>10. CASE w.skipped
  <2>1. F(n) /\ F(n - 1) /\ x = w BY <1>1, <1>4, <1>6, <1>10
  <2>2. H(n) = H(n - 1) /\ Cardinality(H(n)) = Cardinality(H(n - 1)) BY <1>5, <1>9, <2>1
  <2> QED BY <1>1, <1>10, <2>1, <2>2 DEF PassageFits, V, F, H, x
<1>11. CASE ~w.skipped /\ T[n] = "map"
  <2>1. ~F(n - 1) /\ ~F(n) BY <1>1, <1>4, <1>11
  <2>2. H(n) = H(n - 1) /\ Cardinality(H(n)) = Cardinality(H(n - 1)) BY <1>5, <1>9, <1>11
  <2>3. x.skipped = w.skipped /\ x.told = w.told /\ x.value = PlMap[w.value] BY <1>6, <1>11, <1>1 DEF Passages
  <2>4. x.value = V(n) /\ x.skipped = F(n) BY <1>1, <1>2, <1>7, <1>11, <2>1, <2>3
  <2> QED BY <1>1, <1>6, <2>2, <2>3, <2>4 DEF PassageFits, V, F, H, x
<1>12. CASE ~w.skipped /\ T[n] = "filter"
  <2>1. H(n) = H(n - 1) /\ Cardinality(H(n)) = Cardinality(H(n - 1)) BY <1>5, <1>9, <1>12
  <2>2. x.value = w.value /\ x.told = w.told /\ x.skipped = (w.value \notin PlPasses) BY <1>6, <1>12, <1>1 DEF Passages
  <2>3. V(n) = w.value BY <1>1, <1>2, <1>12
  <2>4. x.skipped = F(n) BY <1>1, <1>4, <1>7, <1>12, <2>2, <2>3
  <2> QED BY <1>1, <1>6, <2>1, <2>2, <2>3, <2>4 DEF PassageFits, V, F, H, x
<1>13. CASE ~w.skipped /\ T[n] = "tap"
  <2>1. ~F(n - 1) /\ ~F(n) BY <1>1, <1>4, <1>13
  <2>2. H(n) = H(n - 1) \cup {n} /\ Cardinality(H(n)) = Cardinality(H(n - 1)) + 1 BY <1>5, <1>13, <2>1
  <2>3. x.skipped = w.skipped /\ x.value = w.value /\ x.told = Append(w.told, w.value) BY <1>6, <1>13, <1>1 DEF Passages
  <2>4. V(n) = w.value BY <1>1, <1>2, <1>13
  <2>5. Len(x.told) = Len(w.told) + 1 /\ ToSet(x.told) = ToSet(w.told) \cup {w.value}
    <3> DEFINE t == w.told
               v == w.value
    <3>1. t \in Seq(PlItems) BY <1>8
    <3> HIDE DEF t, v
    <3>2. Len(Append(t, v)) = Len(t) + 1 /\ \A i \in 1..(Len(t) + 1) : Append(t, v)[i] = IF i = Len(t) + 1 THEN v ELSE t[i]
      BY <3>1
    <3>3. DOMAIN Append(t, v) = 1..(Len(t) + 1) /\ DOMAIN t = 1..Len(t) /\ Len(t) \in Nat BY <3>1
    <3>4. \A i : i \in 1..(Len(t) + 1) <=> i \in 1..Len(t) \/ i = Len(t) + 1 BY <3>3
    <3>5. \A i \in 1..Len(t) : i # Len(t) + 1 BY <3>3
    <3>6. ToSet(Append(t, v)) = ToSet(t) \cup {v}
      <4> HIDE DEF t
      <4> QED BY <3>2, <3>3, <3>4, <3>5 DEF ToSet
    <3> QED BY <2>3, <3>2, <3>6 DEF t, v
  <2>6. Len(x.told) = Cardinality(H(n)) BY <1>1, <2>2, <2>5
  <2>7. ToSet(x.told) = {V(k) : k \in H(n)} BY <1>1, <2>2, <2>4, <2>5
  <2>8. x.skipped = F(n) BY <1>1, <1>7, <1>13, <2>1, <2>3
  <2> QED BY <1>6, <2>3, <2>4, <2>6, <2>7, <2>8 DEF PassageFits, V, F, H, x
<1> QED BY <1>3, <1>8, <1>10, <1>11, <1>12, <1>13 DEF Transforms, x

\* What applyTransforms makes of an item is what its transforms say.
LEMMA PassageEnds ==
  ASSUME NEW T \in Seq(Transforms), NEW item \in PlItems
  PROVE  PassageFits(T, item, Len(T), ApplyTransforms(T, item))
<1> DEFINE A == Applied(T, item)
           m == Len(T)
           S == {n \in 0..m : PassageFits(T, item, n, A[n])}
<1>1. m \in Nat OBVIOUS
<1>2. /\ A[0] = [value |-> item, skipped |-> FALSE, told |-> <<>>]
      /\ \A n \in 1..m : A[n] = Passed(A[n - 1], T[n])
  BY AppliedSteps
<1>3. PassageFits(T, item, 0, A[0])
  <2>1. Taps(T, item, 0) = {} /\ FailsBy(T, item, 0) = FALSE
    <3>1. 1..0 = {} OBVIOUS
    <3> QED BY <3>1 DEF Taps, FailsBy
  <2>2. <<>> \in Seq(PlItems) /\ Len(<<>>) = 0 OBVIOUS
  <2>3. ToSet(<<>>) = {} BY DEF ToSet
  <2>4. A[0] \in Passages /\ A[0].skipped = FALSE /\ A[0].value = item /\ A[0].told = <<>>
    <3> HIDE DEF A
    <3> QED BY <1>2, <2>2 DEF Passages
  <2>5. Cardinality({}) = 0 BY FS_EmptySet
  <2>6. {ValueAt(T, item, k) : k \in {}} = {} OBVIOUS
  <2> HIDE DEF A
  <2> QED BY <2>1, <2>2, <2>3, <2>4, <2>5, <2>6, ValueSteps DEF PassageFits
<1> HIDE DEF A
<1>4. \A n \in 1..m : PassageFits(T, item, n - 1, A[n - 1]) => PassageFits(T, item, n, A[n])
  BY <1>2, PassageFitsOn
<1> HIDE DEF m
<1>5. \A s \in 0..m : s \in S
  <2>1. ASSUME NEW s \in 0..m, \A r \in 0..m : r < s => r \in S PROVE s \in S
    <3>1. CASE s = 0 BY <1>3, <3>1
    <3>2. CASE s # 0
      <4>1. s \in 1..m /\ s - 1 \in 0..m /\ s - 1 < s BY <1>1, <3>2
      <4>2. s - 1 \in S BY <2>1, <4>1
      <4> QED BY <1>4, <4>1, <4>2
    <3> QED BY <3>1, <3>2
  <2> HIDE DEF S
  <2> QED BY <1>1, <2>1, UpTo
<1>6. m \in S
  <2>1. m \in 0..m BY <1>1
  <2> QED BY <1>5, <2>1
<1> QED BY <1>6 DEF ApplyTransforms, A, m

\* Of nothing there is nothing to tell.
LEMMA TellsNothing == \A t : Tells(<<>>, t, <<>>)
<1> SUFFICES ASSUME NEW t PROVE Tells(<<>>, t, <<>>) OBVIOUS
<1> DEFINE Note(f) == [i \in 0..0 |-> IF i = 0 THEN <<>> ELSE IF <<>>[i][2] = t THEN Append(f[i - 1], <<>>[i]) ELSE f[i - 1]]
           g == [i \in 0..0 |-> <<>>]
<1>1. Len(<<>>) = 0 OBVIOUS
<1>2. \A f : NotesIn(f, <<>>, t) <=> f = Note(f) BY <1>1 DEF NotesIn
<1>3. \A i \in 0..0 : i = 0 OBVIOUS
<1>4. \A f : Note(f) = g BY <1>3
<1>5. g[0] = <<>> OBVIOUS
<1> HIDE DEF Note, g
<1>6. NotesIn(g, <<>>, t) BY <1>2, <1>4
<1>7. \A f : NotesIn(f, <<>>, t) => f = g BY <1>2, <1>4
<1> QED BY <1>1, <1>5, <1>6, <1>7 DEF Tells

\* The calls that led to a builder, in their order.
CallValues == Int \cup Transforms \cup {"first", "second"}
Calls == CallValues \X (Settings \cup Arrays)
SetAs(made, s, value) ==
  \E list \in Seq(Calls) : Tells(made, s, list) /\ value = IF list = <<>> THEN Default ELSE list[Len(list)][1]
FilledAs(made, a, entries) ==
  \E list \in Seq(Calls) : Tells(made, a, list) /\ entries = [k \in DOMAIN list |-> list[k][1]]

\* No call has led to the builder of work(), whose settings and arrays are empty.
LEMMA NoCallMade == \A to : SetAs(<<>>, to, Default) /\ FilledAs(<<>>, to, <<>>)
<1>1. <<>> \in Seq(Calls) /\ <<>> = [k \in DOMAIN <<>> |-> <<>>[k][1]] OBVIOUS
<1> QED BY <1>1, TellsNothing DEF SetAs, FilledAs

\* A call sets its setting, or extends its array, and nothing else.
LEMMA CallMade ==
  ASSUME NEW made \in Seq(Calls), NEW call \in Calls, NEW to
  PROVE  /\ \A v : SetAs(made, to, v) => SetAs(Append(made, call), to, IF call[2] = to THEN call[1] ELSE v)
         /\ \A e : FilledAs(made, to, e) =>
              FilledAs(Append(made, call), to, IF call[2] = to THEN Append(e, call[1]) ELSE e)
<1>1. ASSUME NEW list \in Seq(Calls), Tells(made, to, list)
      PROVE  Tells(Append(made, call), to, IF call[2] = to THEN Append(list, call) ELSE list)
  BY <1>1, TellsMore
<1>2. ASSUME NEW list \in Seq(Calls)
      PROVE  /\ Append(list, call) \in Seq(Calls) /\ Append(list, call) # <<>>
             /\ Append(list, call)[Len(Append(list, call))] = call
             /\ [k \in DOMAIN Append(list, call) |-> Append(list, call)[k][1]]
                  = Append([k \in DOMAIN list |-> list[k][1]], call[1])
  <2> DEFINE r == Append(list, call)
             e == [k \in DOMAIN list |-> list[k][1]]
             n == Len(list)
  <2>1. r \in Seq(Calls) /\ Len(r) = n + 1 /\ n \in Nat /\ r[n + 1] = call /\ \A k \in 1..n : r[k] = list[k]
    OBVIOUS
  <2>2. DOMAIN r = 1..(n + 1) /\ DOMAIN list = 1..n OBVIOUS
  <2>3. \A k \in 1..n : list[k] \in Calls /\ list[k][1] \in CallValues BY DEF Calls
  <2>4. e \in Seq(CallValues) /\ Len(e) = n /\ \A k \in 1..n : e[k] = list[k][1]
    <3>1. e \in [1..n -> CallValues] BY <2>2, <2>3
    <3>2. n \in Nat BY <2>1
    <3> HIDE DEF n
    <3>3. e \in Seq(CallValues) /\ Len(e) = n BY <3>1, <3>2
    <3> QED BY <2>2, <3>3
  <2>5. call[1] \in CallValues BY DEF Calls
  <2> DEFINE q == Append(e, call[1])
  <2> HIDE DEF e, n, r
  <2>6. q \in Seq(CallValues) /\ Len(q) = n + 1 /\ q[n + 1] = call[1] /\ \A k \in 1..n : q[k] = e[k]
    BY <2>4, <2>5
  <2> HIDE DEF q
  <2>7. q = [k \in 1..(n + 1) |-> q[k]] BY <2>6
  <2>8. \A k \in 1..(n + 1) : r[k][1] = q[k]
    <3> TAKE k \in 1..(n + 1)
    <3>1. CASE k = n + 1 BY <2>1, <2>6, <3>1
    <3>2. CASE k # n + 1
      <4>1. k \in 1..n BY <2>1, <3>2
      <4> QED BY <2>1, <2>4, <2>6, <4>1
    <3> QED BY <3>1, <3>2
  <2>9. [k \in 1..(n + 1) |-> r[k][1]] = q BY <2>7, <2>8
  <2>10. r # <<>> /\ r[Len(r)] = call BY <2>1
  <2> QED BY <2>1, <2>2, <2>9, <2>10 DEF e, r, q
<1>3. ASSUME NEW v, SetAs(made, to, v)
      PROVE  SetAs(Append(made, call), to, IF call[2] = to THEN call[1] ELSE v)
  <2>1. PICK list \in Seq(Calls) : Tells(made, to, list) /\ v = IF list = <<>> THEN Default ELSE list[Len(list)][1]
    BY <1>3 DEF SetAs
  <2>2. CASE call[2] = to
    <3> DEFINE r == Append(list, call)
    <3>1. Tells(Append(made, call), to, r) BY <1>1, <2>1, <2>2
    <3>2. r \in Seq(Calls) /\ r # <<>> /\ r[Len(r)] = call BY <1>2
    <3> HIDE DEF r
    <3>3. call[1] = IF r = <<>> THEN Default ELSE r[Len(r)][1] BY <3>2
    <3> QED BY <2>2, <3>1, <3>2, <3>3 DEF SetAs
  <2>3. CASE call[2] # to
    <3>1. Tells(Append(made, call), to, list) BY <1>1, <2>1, <2>3
    <3> QED BY <2>1, <2>3, <3>1 DEF SetAs
  <2> QED BY <2>2, <2>3
<1>4. ASSUME NEW e, FilledAs(made, to, e)
      PROVE  FilledAs(Append(made, call), to, IF call[2] = to THEN Append(e, call[1]) ELSE e)
  <2>1. PICK list \in Seq(Calls) : Tells(made, to, list) /\ e = [k \in DOMAIN list |-> list[k][1]]
    BY <1>4 DEF FilledAs
  <2>2. CASE call[2] = to
    <3> DEFINE r == Append(list, call)
    <3>1. Tells(Append(made, call), to, r) BY <1>1, <2>1, <2>2
    <3>2. r \in Seq(Calls) /\ [k \in DOMAIN r |-> r[k][1]] = Append(e, call[1]) BY <1>2, <2>1
    <3> HIDE DEF r
    <3> QED BY <2>2, <3>1, <3>2 DEF FilledAs
  <2>3. CASE call[2] # to
    <3>1. Tells(Append(made, call), to, list) BY <1>1, <2>1, <2>3
    <3> QED BY <2>1, <2>3, <3>1 DEF FilledAs
  <2> QED BY <2>2, <2>3
<1> QED BY <1>3, <1>4

\* A builder against the calls that led to it.
PipesTyped ==
  /\ plCfg \in Seq([set : [Settings -> Int], at : [Arrays -> Nat]])
  /\ plMade \in Seq(Seq(Calls)) /\ plArray \in Seq(Seq(CallValues))
  /\ Len(plMade) = Len(plCfg) /\ Len(plCfg) >= 1 /\ Len(plArray) >= 1
FirstBuilder == plArray[1] = <<>> /\ plCfg[1].at = [a \in Arrays |-> 1]
BuiltAs(cfg, made, arrays) ==
  /\ \A s \in Settings : SetAs(made, s, cfg.set[s])
  /\ \A a \in Arrays : cfg.at[a] \in 1..Len(arrays) /\ FilledAs(made, a, arrays[cfg.at[a]])
  /\ arrays[cfg.at["transforms"]] \in Seq(Transforms)
Piped == PipesTyped /\ FirstBuilder /\ \A b \in 1..Len(plCfg) : BuiltAs(plCfg[b], plMade[b], plArray)

\* Of one builder.
LEMMA BuilderTyped ==
  ASSUME Piped, NEW b \in Builders
  PROVE  /\ b \in 1..Len(plCfg) /\ plCfg[b] \in [set : [Settings -> Int], at : [Arrays -> Nat]]
         /\ plMade[b] \in Seq(Calls) /\ BuiltAs(plCfg[b], plMade[b], plArray)
         /\ plArray \in Seq(Seq(CallValues)) /\ Len(plArray) \in Nat
<1> DEFINE C == [set : [Settings -> Int], at : [Arrays -> Nat]]
           D == Seq(Calls)
           E == Seq(CallValues)
<1>1. plCfg \in Seq(C) /\ plMade \in Seq(D) /\ plArray \in Seq(E) /\ Len(plMade) = Len(plCfg)
  BY DEF Piped, PipesTyped
<1> HIDE DEF C, D, E
<1>2. b \in 1..Len(plCfg) BY <1>1 DEF Builders
<1>3. plCfg[b] \in C /\ plMade[b] \in D /\ Len(plArray) \in Nat BY <1>1, <1>2
<1>4. BuiltAs(plCfg[b], plMade[b], plArray) BY <1>2 DEF Piped
<1> QED BY <1>1, <1>2, <1>3, <1>4 DEF C, D, E

\* At first there is the builder that work() returns.
LEMMA PipelinesInitSound == PipelinesInit => Piped
<1> SUFFICES ASSUME PipelinesInit PROVE Piped OBVIOUS
<1> DEFINE c == [set |-> [s \in Settings |-> Default], at |-> [a \in Arrays |-> 1]]
<1>1. plCfg = <<c>> /\ plMade = <<<<>>>> /\ plArray = <<<<>>>> BY DEF PipelinesInit
<1>2. c \in [set : [Settings -> Int], at : [Arrays -> Nat]]
  <2>1. [s \in Settings |-> Default] \in [Settings -> Int] BY DEF Default
  <2>2. [a \in Arrays |-> 1] \in [Arrays -> Nat] OBVIOUS
  <2> QED BY <2>1, <2>2
<1>3. /\ \A s \in Settings : c.set[s] = Default
      /\ \A a \in Arrays : c.at[a] = 1
      /\ c.at = [a \in Arrays |-> 1]
  OBVIOUS
<1> HIDE DEF c
<1>4. /\ plCfg \in Seq([set : [Settings -> Int], at : [Arrays -> Nat]]) /\ Len(plCfg) = 1 /\ plCfg[1] = c
  BY <1>1, <1>2
<1>5. plMade \in Seq(Seq(Calls)) /\ Len(plMade) = 1 /\ plMade[1] = <<>>
  <2>1. <<>> \in Seq(Calls) OBVIOUS
  <2> QED BY <1>1, <2>1
<1>6. plArray \in Seq(Seq(CallValues)) /\ Len(plArray) = 1 /\ plArray[1] = <<>> /\ <<>> \in Seq(Transforms)
  <2>1. <<>> \in Seq(CallValues) /\ <<>> \in Seq(Transforms) OBVIOUS
  <2> QED BY <1>1, <2>1
<1>7. BuiltAs(c, <<>>, plArray)
  <2>1. "transforms" \in Arrays BY DEF Arrays
  <2> QED BY <1>3, <1>6, <2>1, NoCallMade DEF BuiltAs
<1>8. ASSUME NEW b \in 1..Len(plCfg) PROVE BuiltAs(plCfg[b], plMade[b], plArray)
  <2>1. b = 1 BY <1>4
  <2> QED BY <1>4, <1>5, <1>7, <2>1
<1> QED BY <1>3, <1>4, <1>5, <1>6, <1>8 DEF Piped, PipesTyped, FirstBuilder

\* A builder more leaves the others alone, if arrays are only added.
LEMMA BuilderMore ==
  ASSUME Piped, NEW c \in [set : [Settings -> Int], at : [Arrays -> Nat]], NEW made \in Seq(Calls),
         plCfg' = Append(plCfg, c), plMade' = Append(plMade, made),
         \/ plArray' = plArray
         \/ \E longer \in Seq(CallValues) : plArray' = Append(plArray, longer),
         BuiltAs(c, made, plArray')
  PROVE  Piped'
<1> DEFINE n == Len(plCfg)
           C == [set : [Settings -> Int], at : [Arrays -> Nat]]
<1>1. /\ plCfg \in Seq(C) /\ plMade \in Seq(Seq(Calls)) /\ plArray \in Seq(Seq(CallValues))
      /\ n \in Nat /\ n >= 1 /\ Len(plMade) = n /\ Len(plArray) \in Nat /\ Len(plArray) >= 1
  BY DEF Piped, PipesTyped
<1> HIDE DEF C
<1>2. c \in C BY DEF C
<1>3. /\ plCfg' \in Seq(C) /\ Len(plCfg') = n + 1 /\ plCfg'[n + 1] = c
      /\ \A b \in 1..n : plCfg'[b] = plCfg[b]
  BY <1>1, <1>2
<1>4. /\ plMade' \in Seq(Seq(Calls)) /\ Len(plMade') = n + 1 /\ plMade'[n + 1] = made
      /\ \A b \in 1..n : plMade'[b] = plMade[b]
  <2> DEFINE D == Seq(Calls)
  <2>1. made \in D /\ plMade \in Seq(D) /\ plMade' = Append(plMade, made) /\ Len(plMade) = n BY <1>1
  <2> HIDE DEF D, n
  <2>2. /\ plMade' \in Seq(D) /\ Len(plMade') = n + 1 /\ plMade'[n + 1] = made
        /\ \A b \in 1..n : plMade'[b] = plMade[b]
    BY <2>1
  <2> QED BY <2>2 DEF D
<1>5. /\ plArray' \in Seq(Seq(CallValues)) /\ Len(plArray') \in Nat /\ Len(plArray') >= Len(plArray)
      /\ \A k \in 1..Len(plArray) : plArray'[k] = plArray[k]
  <2> DEFINE D == Seq(CallValues)
  <2>1. plArray' = plArray \/ \E longer \in D : plArray' = Append(plArray, longer) OBVIOUS
  <2>2. plArray \in Seq(D) BY <1>1
  <2> HIDE DEF D
  <2>3. ASSUME plArray' = plArray
        PROVE  /\ plArray' \in Seq(D) /\ Len(plArray') \in Nat /\ Len(plArray') >= Len(plArray)
               /\ \A k \in 1..Len(plArray) : plArray'[k] = plArray[k]
    <3>1. Len(plArray) \in Nat BY <1>1
    <3>2. Len(plArray') = Len(plArray) /\ Len(plArray') \in Nat /\ plArray' \in Seq(D) BY <2>2, <2>3, <3>1
    <3>3. Len(plArray') >= Len(plArray) BY <3>1, <3>2
    <3> QED BY <2>3, <3>2, <3>3
  <2>4. ASSUME NEW longer \in D, plArray' = Append(plArray, longer)
        PROVE  /\ plArray' \in Seq(D) /\ Len(plArray') \in Nat /\ Len(plArray') >= Len(plArray)
               /\ \A k \in 1..Len(plArray) : plArray'[k] = plArray[k]
    BY <2>2, <2>4
  <2>5. /\ plArray' \in Seq(D) /\ Len(plArray') \in Nat /\ Len(plArray') >= Len(plArray)
        /\ \A k \in 1..Len(plArray) : plArray'[k] = plArray[k]
    <3>1. CASE \E longer \in D : plArray' = Append(plArray, longer) BY <2>4, <3>1
    <3> QED BY <2>1, <2>3, <3>1
  <2> QED BY <2>5 DEF D
<1> HIDE DEF n
<1>6. FirstBuilder'
  <2>1. 1 \in 1..n /\ 1 \in 1..Len(plArray) BY <1>1
  <2> QED BY <1>3, <1>5, <2>1 DEF Piped, FirstBuilder
<1>7. ASSUME NEW b \in 1..(n + 1) PROVE BuiltAs(plCfg'[b], plMade'[b], plArray')
  <2>1. CASE b = n + 1 BY <1>3, <1>4, <2>1
  <2>2. CASE b # n + 1
    <3>1. b \in 1..n BY <1>1, <2>2
    <3>2. BuiltAs(plCfg[b], plMade[b], plArray) BY <3>1 DEF Piped, n
    <3>3. "transforms" \in Arrays BY DEF Arrays
    <3>4. \A k \in 1..Len(plArray) : k \in 1..Len(plArray') /\ plArray'[k] = plArray[k] BY <1>1, <1>5
    <3>5. BuiltAs(plCfg[b], plMade[b], plArray') BY <3>2, <3>3, <3>4 DEF BuiltAs
    <3> QED BY <1>3, <1>4, <3>1, <3>5
  <2> QED BY <2>1, <2>2
<1> QED BY <1>1, <1>3, <1>4, <1>5, <1>6, <1>7 DEF Piped, PipesTyped, C

\* A call of a setting.
LEMMA SetsSound ==
  ASSUME Piped, NEW b \in Builders, NEW s \in Settings, NEW v \in Int, Sets(b, s, v)
  PROVE  Piped'
<1> DEFINE C == [set : [Settings -> Int], at : [Arrays -> Nat]]
           c == plCfg[b]
           d == [c EXCEPT !.set[s] = v]
           call == <<v, s>>
           made == Append(plMade[b], call)
<1>1. /\ plCfg' = Append(plCfg, d) /\ plMade' = Append(plMade, made) /\ plArray' = plArray
  BY DEF Sets, Returns
<1>2. /\ b \in 1..Len(plCfg) /\ c \in C /\ plMade[b] \in Seq(Calls) /\ BuiltAs(c, plMade[b], plArray)
  BY BuilderTyped DEF C
<1>3. d \in C /\ d.at = c.at /\ \A x \in Settings : d.set[x] = IF x = s THEN v ELSE c.set[x]
  BY <1>2
<1>4. call \in Calls BY DEF Calls, CallValues
<1>5. made \in Seq(Calls) BY <1>2, <1>4
<1>6. s \notin Arrays BY DEF Settings, Arrays
<1>7. call[1] = v /\ call[2] = s OBVIOUS
<1> HIDE DEF c, d, call, C
<1>8. ASSUME NEW x \in Settings PROVE SetAs(made, x, d.set[x])
  <2>1. SetAs(plMade[b], x, c.set[x]) BY <1>2 DEF BuiltAs
  <2>2. SetAs(made, x, IF call[2] = x THEN call[1] ELSE c.set[x]) BY <1>2, <1>4, <2>1, CallMade
  <2>3. d.set[x] = IF call[2] = x THEN call[1] ELSE c.set[x] BY <1>3, <1>7
  <2> QED BY <2>2, <2>3
<1>9. ASSUME NEW a \in Arrays PROVE FilledAs(made, a, plArray[d.at[a]]) /\ d.at[a] \in 1..Len(plArray)
  <2>1. FilledAs(plMade[b], a, plArray[c.at[a]]) /\ c.at[a] \in 1..Len(plArray) BY <1>2 DEF BuiltAs
  <2>2. call[2] # a BY <1>6, <1>7
  <2>3. FilledAs(made, a, plArray[c.at[a]]) BY <1>2, <1>4, <2>1, <2>2, CallMade
  <2> QED BY <1>3, <2>1, <2>3
<1>10. plArray[d.at["transforms"]] \in Seq(Transforms) BY <1>2, <1>3 DEF BuiltAs
<1> HIDE DEF made
<1>11. BuiltAs(d, made, plArray') BY <1>1, <1>8, <1>9, <1>10 DEF BuiltAs
<1> QED BY <1>1, <1>3, <1>5, <1>11, BuilderMore DEF C

\* A call of an array.
LEMMA ExtendsSound ==
  ASSUME Piped, NEW b \in Builders, NEW a \in Arrays, NEW entry \in CallValues,
         a = "transforms" => entry \in Transforms, Extends(b, a, entry)
  PROVE  Piped'
<1> DEFINE C == [set : [Settings -> Int], at : [Arrays -> Nat]]
           c == plCfg[b]
           place == Len(plArray) + 1
           d == [c EXCEPT !.at[a] = place]
           call == <<entry, a>>
           made == Append(plMade[b], call)
           old == plArray[c.at[a]]
           longer == Append(old, entry)
<1>1. /\ plCfg' = Append(plCfg, d) /\ plMade' = Append(plMade, made)
      /\ plArray' = IF place \in DOMAIN plArray THEN [plArray EXCEPT ![place] = longer] ELSE Append(plArray, longer)
  BY DEF Extends, Returns, PlaceOfCopy
<1>2. /\ b \in 1..Len(plCfg) /\ c \in C /\ plMade[b] \in Seq(Calls) /\ BuiltAs(c, plMade[b], plArray)
      /\ plArray \in Seq(Seq(CallValues)) /\ Len(plArray) \in Nat
  BY BuilderTyped DEF C
<1>3. place \in Nat /\ place \notin DOMAIN plArray BY <1>2
<1>4. d \in C /\ d.set = c.set /\ \A x \in Arrays : d.at[x] = IF x = a THEN place ELSE c.at[x]
  BY <1>2, <1>3
<1>5. call \in Calls /\ call[1] = entry /\ call[2] = a BY DEF Calls
<1>6. made \in Seq(Calls) BY <1>2, <1>5
<1>7. a \notin Settings BY DEF Settings, Arrays
<1>8. c.at[a] \in 1..Len(plArray) /\ FilledAs(plMade[b], a, old) BY <1>2 DEF BuiltAs
<1>9. old \in Seq(CallValues) BY <1>2, <1>8
<1>10. longer \in Seq(CallValues) BY <1>9
<1> HIDE DEF c, d, call, C, old, longer
<1>11. /\ plArray' = Append(plArray, longer) /\ Len(plArray') = place /\ plArray'[place] = longer
       /\ \A k \in 1..Len(plArray) : k \in 1..Len(plArray') /\ k # place /\ plArray'[k] = plArray[k]
  <2> DEFINE D == Seq(CallValues)
  <2>1. plArray \in Seq(D) /\ longer \in D BY <1>2, <1>10
  <2>2. plArray' = Append(plArray, longer) BY <1>1, <1>3
  <2> HIDE DEF D
  <2> QED BY <1>2, <2>1, <2>2
<1> HIDE DEF place
<1>12. ASSUME NEW x \in Settings PROVE SetAs(made, x, d.set[x])
  <2>1. SetAs(plMade[b], x, c.set[x]) BY <1>2 DEF BuiltAs
  <2>2. call[2] # x BY <1>5, <1>7
  <2>3. SetAs(made, x, c.set[x]) BY <1>2, <1>5, <2>1, <2>2, CallMade
  <2> QED BY <1>4, <2>3
<1>13. ASSUME NEW x \in Arrays
       PROVE  /\ d.at[x] \in 1..Len(plArray')
              /\ FilledAs(made, x, plArray'[d.at[x]])
  <2>1. CASE x = a
    <3>1. d.at[x] = place BY <1>4, <2>1
    <3>2. FilledAs(made, a, IF call[2] = a THEN Append(old, call[1]) ELSE old) BY <1>2, <1>5, <1>8, CallMade
    <3>3. FilledAs(made, a, longer) BY <1>5, <3>2 DEF longer
    <3>4. place \in 1..place
      <4>1. place = Len(plArray) + 1 BY DEF place
      <4>2. 1 <= place BY <1>2, <4>1
      <4> QED BY <1>3, <4>2
    <3> QED BY <1>11, <2>1, <3>1, <3>3, <3>4
  <2>2. CASE x # a
    <3>1. d.at[x] = c.at[x] BY <1>4, <2>2
    <3>2. FilledAs(plMade[b], x, plArray[c.at[x]]) /\ c.at[x] \in 1..Len(plArray) BY <1>2 DEF BuiltAs
    <3>3. call[2] # x BY <1>5, <2>2
    <3>4. FilledAs(made, x, plArray[c.at[x]]) BY <1>2, <1>5, <3>2, <3>3, CallMade
    <3> QED BY <1>11, <3>1, <3>2, <3>4
  <2> QED BY <2>1, <2>2
<1>14. plArray'[d.at["transforms"]] \in Seq(Transforms)
  <2>1. "transforms" \in Arrays /\ plArray[c.at["transforms"]] \in Seq(Transforms)
        /\ c.at["transforms"] \in 1..Len(plArray)
    BY <1>2 DEF BuiltAs, Arrays
  <2>2. CASE a = "transforms"
    <3>1. old \in Seq(Transforms) /\ entry \in Transforms BY <2>1, <2>2 DEF old
    <3>2. longer \in Seq(Transforms) BY <3>1 DEF longer
    <3> QED BY <1>4, <1>11, <2>1, <2>2, <3>2
  <2>3. CASE a # "transforms"
    <3>1. d.at["transforms"] = c.at["transforms"] BY <1>4, <2>1, <2>3
    <3> QED BY <1>11, <2>1, <3>1
  <2> QED BY <2>2, <2>3
<1> HIDE DEF made
<1>15. BuiltAs(d, made, plArray') BY <1>12, <1>13, <1>14 DEF BuiltAs
<1> QED BY <1>1, <1>4, <1>6, <1>10, <1>11, <1>15, BuilderMore DEF C

\* One call or none: what was set is what the call sets, or what it was.
LEMMA PerhapsMade ==
  ASSUME NEW made \in Seq(Calls), NEW v \in Int, NEW s \in Settings, NEW more,
         more = IF v = Default THEN <<>> ELSE <<<<v, s>>>>
  PROVE  /\ made \o more \in Seq(Calls)
         /\ SetAs(made, s, Default) => SetAs(made \o more, s, v)
         /\ \A x, w : x # s /\ SetAs(made, x, w) => SetAs(made \o more, x, w)
         /\ \A a \in Arrays : \A e : FilledAs(made, a, e) => FilledAs(made \o more, a, e)
<1> DEFINE call == <<v, s>>
<1>1. call \in Calls /\ call[1] = v /\ call[2] = s BY DEF Calls, CallValues
<1>2. s \notin Arrays BY DEF Settings, Arrays
<1> HIDE DEF call
<1>3. CASE v = Default
  <2>1. made \o more = made BY <1>3
  <2> QED BY <1>3, <2>1
<1>4. CASE v # Default
  <2>1. more = <<call>> BY <1>4 DEF call
  <2> DEFINE D == Calls
  <2>2. made \in Seq(D) /\ call \in D BY <1>1
  <2> HIDE DEF D
  <2>3. made \o <<call>> = Append(made, call) /\ Append(made, call) \in Seq(D) BY <2>2
  <2>4. \A x, w : SetAs(made, x, w) => SetAs(Append(made, call), x, IF call[2] = x THEN call[1] ELSE w)
    BY <1>1, CallMade
  <2>5. \A x, e : FilledAs(made, x, e) => FilledAs(Append(made, call), x, IF call[2] = x THEN Append(e, call[1]) ELSE e)
    BY <1>1, CallMade
  <2>6. \A a \in Arrays : call[2] # a BY <1>1, <1>2
  <2>7. \A a \in Arrays : \A e : FilledAs(made, a, e) => FilledAs(Append(made, call), a, e) BY <2>5, <2>6
  <2>8. SetAs(made, s, Default) => SetAs(Append(made, call), s, v) BY <1>1, <2>4
  <2>9. \A x, w : x # s /\ SetAs(made, x, w) => SetAs(Append(made, call), x, w) BY <1>1, <2>4
  <2> QED BY <2>1, <2>3, <2>7, <2>8, <2>9 DEF D
<1> QED BY <1>3, <1>4

\* streamWithBackpressure makes a builder of its own.
LEMMA StreamSound ==
  ASSUME Piped, NEW options,
         options \in {<<>>} \cup [{"concurrency"} -> 0..1] \cup [{"retry", "timeout"} -> {1}],
         StreamWithBackpressure(options)
  PROVE  Piped'
<1> DEFINE C == [set : [Settings -> Int], at : [Arrays -> Nat]]
           set == [s \in Settings |-> IF s \in DOMAIN options THEN options[s]
                                      ELSE IF s = "concurrency" THEN FourAtOnce ELSE Default]
           One(s) == IF set[s] = Default THEN <<>> ELSE <<<<set[s], s>>>>
           c == [set |-> set, at |-> [plCfg[1].at EXCEPT !["transforms"] = Len(plArray) + 1]]
           call == <<"map", "transforms">>
           few == One("concurrency") \o One("retry") \o One("timeout")
           made == Append(few, call)
           longer == <<"map">>
<1>1. plArray' = Append(plArray, longer) /\ plCfg' = Append(plCfg, c) /\ plMade' = Append(plMade, made)
  BY DEF StreamWithBackpressure
<1>2. /\ DOMAIN options \subseteq {"concurrency", "retry", "timeout"}
      /\ \A s \in DOMAIN options : options[s] \in Int
  <2>1. CASE options = <<>> BY <2>1
  <2>2. CASE options \in [{"concurrency"} -> 0..1] BY <2>2
  <2>3. CASE options \in [{"retry", "timeout"} -> {1}] BY <2>3
  <2> QED BY <2>1, <2>2, <2>3
<1>3. /\ set \in [Settings -> Int]
      /\ \A s \in Settings : s \notin {"concurrency", "retry", "timeout"} => set[s] = Default
  BY <1>2 DEF FourAtOnce, Default
<1>4. {"concurrency", "retry", "timeout"} \subseteq Settings BY DEF Settings
<1>5. plCfg[1].at = [a \in Arrays |-> 1] /\ plArray[1] = <<>> BY DEF Piped, FirstBuilder
<1>6. Len(plArray) \in Nat /\ Len(plArray) >= 1 /\ plArray \in Seq(Seq(CallValues)) BY DEF Piped, PipesTyped
<1>7. /\ c.set = set
      /\ \A a \in Arrays : c.at[a] = IF a = "transforms" THEN Len(plArray) + 1 ELSE 1
      /\ c.at \in [Arrays -> Nat]
  <2>1. [plCfg[1].at EXCEPT !["transforms"] = Len(plArray) + 1]
          = [a \in Arrays |-> IF a = "transforms" THEN Len(plArray) + 1 ELSE 1]
    BY <1>5
  <2>2. c.at = [a \in Arrays |-> IF a = "transforms" THEN Len(plArray) + 1 ELSE 1] /\ c.set = set BY <2>1
  <2> HIDE DEF c, set
  <2> QED BY <1>6, <2>2
<1>8. c \in C BY <1>3, <1>7
<1>9. call \in Calls /\ call[1] = "map" /\ call[2] = "transforms" BY DEF Calls, CallValues, Transforms, Arrays
<1>10. "transforms" \in Arrays /\ \A s \in Settings : s # "transforms" BY DEF Arrays, Settings
<1>11. longer \in Seq(CallValues) /\ longer \in Seq(Transforms) /\ longer = Append(<<>>, "map")
  BY DEF CallValues, Transforms
<1> HIDE DEF set, c, call, longer, C
<1>12. /\ few \in Seq(Calls) /\ \A s \in Settings : SetAs(few, s, set[s])
       /\ \A a \in Arrays : FilledAs(few, a, <<>>)
  <2> DEFINE c0 == One("concurrency")
             c1 == c0 \o One("retry")
  <2>1. <<>> \in Seq(Calls) /\ \A s : SetAs(<<>>, s, Default) /\ FilledAs(<<>>, s, <<>>) BY NoCallMade
  <2>2. \A s \in {"concurrency", "retry", "timeout"} : s \in Settings /\ set[s] \in Int BY <1>3, <1>4
  <2>3. \A s \in {"concurrency", "retry", "timeout"} :
          One(s) = IF set[s] = Default THEN <<>> ELSE <<<<set[s], s>>>>
    OBVIOUS
  <2> HIDE DEF One
  <2>4. /\ <<>> \o One("concurrency") \in Seq(Calls)
        /\ SetAs(<<>> \o One("concurrency"), "concurrency", set["concurrency"])
        /\ \A x : x # "concurrency" => SetAs(<<>> \o One("concurrency"), x, Default)
        /\ \A a \in Arrays : FilledAs(<<>> \o One("concurrency"), a, <<>>)
    BY <2>1, <2>2, <2>3, PerhapsMade
  <2>5. <<>> \o One("concurrency") = c0
    <3>1. One("concurrency") = <<>> \/ One("concurrency") = <<<<set["concurrency"], "concurrency">>>> BY <2>3
    <3>2. \A x : <<>> \o <<x>> = <<x>> OBVIOUS
    <3>3. <<>> \o <<>> = <<>> OBVIOUS
    <3> QED BY <3>1, <3>2, <3>3
  <2> HIDE DEF c0
  <2>6. /\ c0 \in Seq(Calls) /\ SetAs(c0, "concurrency", set["concurrency"])
        /\ \A x : x # "concurrency" => SetAs(c0, x, Default)
        /\ \A a \in Arrays : FilledAs(c0, a, <<>>)
    BY <2>4, <2>5
  <2>7. /\ c1 \in Seq(Calls) /\ SetAs(c1, "retry", set["retry"])
        /\ SetAs(c1, "concurrency", set["concurrency"])
        /\ \A x : x \notin {"concurrency", "retry"} => SetAs(c1, x, Default)
        /\ \A a \in Arrays : FilledAs(c1, a, <<>>)
    BY <2>2, <2>3, <2>6, PerhapsMade
  <2>8. few = c1 \o One("timeout") BY DEF c0
  <2> HIDE DEF c1, few
  <2>9. /\ few \in Seq(Calls) /\ SetAs(few, "timeout", set["timeout"])
        /\ SetAs(few, "retry", set["retry"]) /\ SetAs(few, "concurrency", set["concurrency"])
        /\ \A x : x \notin {"concurrency", "retry", "timeout"} => SetAs(few, x, Default)
        /\ \A a \in Arrays : FilledAs(few, a, <<>>)
    BY <2>2, <2>3, <2>7, <2>8, PerhapsMade
  <2>10. ASSUME NEW s \in Settings PROVE SetAs(few, s, set[s])
    <3>1. CASE s \in {"concurrency", "retry", "timeout"} BY <2>9, <3>1
    <3>2. CASE s \notin {"concurrency", "retry", "timeout"} BY <1>3, <2>9, <3>2
    <3> QED BY <3>1, <3>2
  <2> QED BY <2>9, <2>10
<1> HIDE DEF few
<1>13. made \in Seq(Calls) BY <1>9, <1>12
<1>14. /\ Len(plArray') = Len(plArray) + 1 /\ plArray'[Len(plArray) + 1] = longer /\ plArray'[1] = <<>>
  <2> DEFINE D == Seq(CallValues)
  <2>1. plArray \in Seq(D) /\ longer \in D BY <1>6, <1>11
  <2> HIDE DEF D
  <2> QED BY <1>1, <1>5, <1>6, <2>1
<1>15. ASSUME NEW s \in Settings PROVE SetAs(made, s, c.set[s])
  <2>1. SetAs(few, s, set[s]) /\ call[2] # s BY <1>9, <1>10, <1>12
  <2>2. SetAs(made, s, set[s]) BY <1>9, <1>12, <2>1, CallMade
  <2> QED BY <1>7, <2>2
<1>16. ASSUME NEW a \in Arrays PROVE c.at[a] \in 1..Len(plArray') /\ FilledAs(made, a, plArray'[c.at[a]])
  <2>1. FilledAs(few, a, <<>>) BY <1>12
  <2>2. FilledAs(made, a, IF call[2] = a THEN Append(<<>>, call[1]) ELSE <<>>) BY <1>9, <1>12, <2>1, CallMade
  <2>3. CASE a = "transforms"
    <3>1. c.at[a] = Len(plArray) + 1 BY <1>7, <2>3
    <3>2. FilledAs(made, a, longer) BY <1>9, <1>11, <2>2, <2>3
    <3>3. Len(plArray) + 1 \in 1..(Len(plArray) + 1) BY <1>6
    <3> QED BY <1>14, <3>1, <3>2, <3>3
  <2>4. CASE a # "transforms"
    <3>1. c.at[a] = 1 BY <1>7, <2>4
    <3>2. FilledAs(made, a, <<>>) BY <1>9, <2>2, <2>4
    <3>3. 1 \in 1..(Len(plArray) + 1) BY <1>6
    <3> QED BY <1>14, <3>1, <3>2, <3>3
  <2> QED BY <2>3, <2>4
<1>17. plArray'[c.at["transforms"]] \in Seq(Transforms)
  BY <1>7, <1>10, <1>11, <1>14
<1> HIDE DEF made
<1>18. BuiltAs(c, made, plArray') BY <1>15, <1>16, <1>17 DEF BuiltAs
<1> QED BY <1>1, <1>8, <1>11, <1>13, <1>18, BuilderMore DEF C

\* What is told of a builder's calls is what the calls to it are.
LEMMA CallsTold ==
  ASSUME NEW b, NEW to, NEW list, Tells(plMade[b], to, list)
  PROVE  CallsTo(b, to) = list
<1> DEFINE F == CHOOSE f : NotesIn(f, plMade[b], to)
<1>1. NotesIn(F, plMade[b], to) BY DEF Tells
<1>2. CallsTo(b, to) = F[Len(plMade[b])] BY DEF CallsTo, NotesIn
<1> HIDE DEF F
<1>3. F[Len(plMade[b])] = list BY <1>1 DEF Tells
<1> QED BY <1>2, <1>3

\* What holds of every builder is what it promises of every item.
LEMMA PipedIsTrue == Piped => PipelineTruth
<1> SUFFICES ASSUME Piped, NEW b \in Builders
    PROVE /\ \A s \in Settings :
               plCfg[b].set[s] = IF Given(b, s) = <<>> THEN Default ELSE Last(Given(b, s))
          /\ \A a \in Arrays : ArrayOf(b, a) = Given(b, a)
          /\ \A item \in PlItems :
               LET given == Given(b, "transforms")
                   result == ApplyTransforms(ArrayOf(b, "transforms"), item)
                   taps == Taps(given, item, Len(given))
               IN /\ result.skipped = FailsBy(given, item, Len(given))
                  /\ ~result.skipped => result.value = ValueAt(given, item, Len(given))
                  /\ Len(result.told) = Cardinality(taps)
                  /\ ToSet(result.told) = {ValueAt(given, item, k) : k \in taps}
  BY DEF PipelineTruth
<1>1. BuiltAs(plCfg[b], plMade[b], plArray) BY BuilderTyped
<1>2. ASSUME NEW s \in Settings
      PROVE  plCfg[b].set[s] = IF Given(b, s) = <<>> THEN Default ELSE Last(Given(b, s))
  <2>1. PICK list \in Seq(Calls) : /\ Tells(plMade[b], s, list)
                                   /\ plCfg[b].set[s] = IF list = <<>> THEN Default ELSE list[Len(list)][1]
    BY <1>1 DEF BuiltAs, SetAs
  <2> DEFINE g == [k \in DOMAIN list |-> list[k][1]]
             n == Len(list)
  <2>2. Given(b, s) = g BY <2>1, CallsTold DEF Given
  <2>3. n \in Nat /\ DOMAIN list = 1..n OBVIOUS
  <2>4. g \in Seq(CallValues) /\ Len(g) = n
    <3>1. \A k \in 1..n : list[k][1] \in CallValues
      <4>1. \A k \in 1..n : list[k] \in Calls OBVIOUS
      <4> QED BY <4>1 DEF Calls
    <3>2. g \in [1..n -> CallValues] BY <2>3, <3>1
    <3> HIDE DEF g, n
    <3> QED BY <2>3, <3>2
  <2>5. CASE list = <<>>
    <3>1. n = 0 BY <2>5
    <3> HIDE DEF g
    <3>2. g = <<>> BY <2>4, <3>1
    <3> QED BY <2>1, <2>2, <2>5, <3>2
  <2>6. CASE list # <<>>
    <3>1. n \in 1..n BY <2>3, <2>6
    <3>2. g[n] = list[n][1] BY <2>3, <3>1
    <3> HIDE DEF g
    <3>3. g # <<>> BY <2>4, <3>1
    <3>4. Last(g) = list[Len(list)][1] BY <2>4, <3>2 DEF Last, n
    <3> QED BY <2>1, <2>2, <2>6, <3>3, <3>4
  <2> QED BY <2>5, <2>6
<1>3. ASSUME NEW a \in Arrays PROVE ArrayOf(b, a) = Given(b, a)
  <2>1. PICK list \in Seq(Calls) : /\ Tells(plMade[b], a, list)
                                   /\ plArray[plCfg[b].at[a]] = [k \in DOMAIN list |-> list[k][1]]
    BY <1>1 DEF BuiltAs, FilledAs
  <2>2. CallsTo(b, a) = list BY <2>1, CallsTold
  <2> QED BY <2>1, <2>2 DEF ArrayOf, Given
<1>4. ASSUME NEW item \in PlItems
      PROVE  PassageFits(Given(b, "transforms"), item, Len(Given(b, "transforms")),
                         ApplyTransforms(ArrayOf(b, "transforms"), item))
  <2>1. "transforms" \in Arrays BY DEF Arrays
  <2>2. ArrayOf(b, "transforms") = Given(b, "transforms") BY <1>3, <2>1
  <2>3. ArrayOf(b, "transforms") \in Seq(Transforms) BY <1>1 DEF BuiltAs, ArrayOf
  <2> QED BY <2>2, <2>3, PassageEnds
<1> QED BY <1>2, <1>3, <1>4 DEF PassageFits

\* A builder of work/index.ts does what the calls that led to it say, whatever has been
\* called since on it or on those it comes from, for all functions of maps and filters.
THEOREM PipelinesAreTrue == PipelinesInit /\ [][PipelinesNext]_plVars => []PipelineTruth
<1>1. Piped /\ [PipelinesNext]_plVars => Piped'
  <2> SUFFICES ASSUME Piped, [PipelinesNext]_plVars PROVE Piped' OBVIOUS
  <2>1. CASE UNCHANGED plVars BY <2>1 DEF plVars, Piped, PipesTyped, FirstBuilder
  <2>2. ASSUME NEW options \in {<<>>} \cup [{"concurrency"} -> 0..1] \cup [{"retry", "timeout"} -> {1}],
               StreamWithBackpressure(options)
        PROVE  Piped'
    BY <2>2, StreamSound
  <2>3. ASSUME NEW b \in Builders, NEW s \in {"concurrency", "errorMode"}, NEW v \in -1..1, Sets(b, s, v)
        PROVE  Piped'
    <3>1. s \in Settings /\ v \in Int BY DEF Settings
    <3> QED BY <2>3, <3>1, SetsSound
  <2>4. ASSUME NEW b \in Builders, NEW t \in {"map", "filter", "tap"}, Extends(b, "transforms", t)
        PROVE  Piped'
    <3>1. "transforms" \in Arrays /\ t \in Transforms /\ t \in CallValues BY DEF Arrays, Transforms, CallValues
    <3> QED BY <2>4, <3>1, ExtendsSound
  <2>5. ASSUME NEW b \in Builders, NEW a \in {"progress", "done"}, NEW h \in {"first", "second"}, Extends(b, a, h)
        PROVE  Piped'
    <3>1. a \in Arrays /\ a # "transforms" /\ h \in CallValues BY DEF Arrays, CallValues
    <3> QED BY <2>5, <3>1, ExtendsSound
  <2> QED BY <2>1, <2>2, <2>3, <2>4, <2>5 DEF PipelinesNext
<1> QED BY <1>1, PipelinesInitSound, PipedIsTrue, PTL

(***************************************************************************)
(* Side by side (Companions): every part takes its own steps, and those of  *)
(* the others leave its promise alone.                                      *)
(***************************************************************************)
\* The streams of ai/index.ts, of a provider or of a source, complete only when what
\* they stream from did, lose nothing on the way to a regular end, and leave neither a
\* producer nor an open source behind.
THEOREM AIIsTrue == AISpec => []AITruth
<1>1. SourceInit({"transcribe", "adapter"}, {"iterator", "generator", "bare"})
        /\ [][SourceNext]_srcVars => []SourceTruth
  BY SourcesAreTrue
<1> QED BY <1>1, StreamsAreTrue, AgentsAreTrue, PTL DEF AISpec, AITruth

\* What do(), collect() and embedAll() give back for a batch is what became of every
\* item of it, in every error and cancel mode, and a builder does with the items what
\* the calls that made it said, however many builders were made from each other.
THEOREM AllBatchesAreTrue == BatchesSpec => []BatchTruth
  BY BatchesAreTrue, EmbeddingsAreTrue, PipelinesAreTrue, PTL DEF BatchesSpec, BatchesInit, BatchTruth

\* Scopes see the bag entries, budgets and resources that were installed around them,
\* no budget is overspent, a refusal cancels those who share the budget, and a
\* resource has one acquisition and one release.
THEOREM SharingIsTrue == SharingSpec => []SharingTruth
<1>1. BudgetsInit(TRUE) /\ [][BudgetsNext]_budVars => []BudgetTruth
  BY BudgetsAreTrue
<1>2. ResourceInit({"shared", "lazy", "bracket"}) /\ [][ResourceNext]_resVars => []ResourceTruth
  BY ResourcesAreTrue
<1> QED BY <1>1, <1>2, AmbientIsTrue, PTL DEF SharingSpec, SharingTruth

\* For any tree of buses, any budget, limits and sizes: the queue keeps its limits and
\* accounts for every event it was offered, and the buses for every event they dropped.
THEOREM ExportsAreTrue == TelemetryInit /\ [][TelemetryNext]_allVars => []ExportsTruth
<1>1. QueueTruth /\ BusesAccounted => ExportsTruth BY DEF ExportsTruth
<1> QED BY <1>1, QueueIsTrue, BusesAreAccounted, PTL
=============================================================================

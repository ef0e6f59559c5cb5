------------------------------ MODULE Channel ------------------------------
(***************************************************************************)
(* The bounded channel of @workit/core/channel (channel/index.ts):         *)
(* BoundedChannel with its buffer, its waiting senders and receivers, and  *)
(* the abort listeners of operations that carry a signal.                  *)
(*                                                                         *)
(* Every operation is one synchronous segment ending in pump(), so it is   *)
(* one action; the promises it settles are settled in it.  A send is       *)
(* identified with the value it carries.  Iterating over the channel is a  *)
(* sequence of receives without a signal.  The loops of pump() are written *)
(* as the numbers of rounds they make.                                     *)
(***************************************************************************)
EXTENDS Naturals, Sequences, SequencesExt

CONSTANTS
  Sends,      \* the calls of send(), each with its own value
  Receives,   \* the calls of receive()
  Signals,    \* abort signals
  NoSignal,   \* the signal of an operation called without one
  SignalOf,   \* the signal each operation carries
  Capacity    \* createChannel({ capacity })

Ops == Sends \cup Receives

ASSUME ChannelAssumption ==
  /\ Sends \cap Receives = {}
  /\ NoSignal \notin Signals
  /\ SignalOf \in [Ops -> Signals \cup {NoSignal}]
  /\ Capacity \in Nat \ {0}

VARIABLES
  buffer, senders, receivers, isClosed,
  aborted,   \* the signals that were aborted
  promise,   \* how the promise of an operation stands; "none": not yet called
  accepted,  \* history: the values whose send was resolved, in that order
  handed     \* history: the receive and the value of each delivery, in order

queues  == <<buffer, senders, receivers>>
history == <<accepted, handed>>
vars == <<queues, isClosed, aborted, promise, history>>

TypeOK ==
  /\ buffer \in Seq(Sends) /\ Len(buffer) <= Capacity
  /\ senders \in Seq(Sends) /\ receivers \in Seq(Receives)
  /\ isClosed \in BOOLEAN /\ aborted \in SUBSET Signals
  /\ promise \in [Ops -> {"none", "pending", "sent", "received", "done", "closed", "aborted"}]
  /\ accepted \in Seq(Sends) /\ handed \in Seq(Receives \X Sends)

Init ==
  /\ buffer = <<>> /\ senders = <<>> /\ receivers = <<>>
  /\ isClosed = FALSE /\ aborted = {}
  /\ promise = [x \in Ops |-> "none"]
  /\ accepted = <<>> /\ handed = <<>>
----------------------------------------------------------------------------
Least(m, n) == IF m < n THEN m ELSE n
First(seq, n) == SubSeq(seq, 1, n)
After(seq, n) == SubSeq(seq, n + 1, Len(seq))

\* The rounds of pump()'s loops: buffered values to receivers, then values of
\* waiting senders straight to receivers, then into the free room of the buffer.
NothingBuffered(rs) == 0
FromBuffer(rs) == Least(Len(rs), Len(buffer))

NoHandOff(ss, waiting) == 0
HandOff(ss, waiting) == Least(Len(ss), waiting)

RoomForOneMore(kept) == (Capacity + 1) - kept
FreeRoom(kept) == Capacity - kept

\* pump() over the senders ss and receivers rs; ps are the promises before it.
Pump(ss, rs, closed, ps) ==
  LET n1 == FromBuffer(rs)
      n2 == IF closed THEN 0 ELSE HandOff(ss, Len(rs) - n1)
      n3 == IF closed THEN 0 ELSE Least(Len(ss) - n2, FreeRoom(Len(buffer) - n1))
      given   == First(buffer, n1) \o First(ss, n2)
      drained == closed /\ After(buffer, n1) = <<>>
      rest    == After(rs, n1 + n2)
  IN  /\ buffer' = After(buffer, n1) \o SubSeq(ss, n2 + 1, n2 + n3)
      /\ senders' = After(ss, n2 + n3)
      /\ receivers' = IF drained THEN <<>> ELSE rest
      /\ handed' = handed \o [i \in 1..(n1 + n2) |-> <<rs[i], given[i]>>]
      /\ accepted' = accepted \o First(ss, n2 + n3)
      /\ promise' = [x \in Ops |->
           IF x \in ToSet(First(ss, n2 + n3)) THEN "sent"
           ELSE IF x \in ToSet(First(rs, n1 + n2)) THEN "received"
           ELSE IF drained /\ x \in ToSet(rest) THEN "done" ELSE ps[x]]

With(x, outcome) == [promise EXCEPT ![x] = outcome]

\* send(): a closed channel is reported before an aborted signal.
Send(v) ==
  /\ promise[v] = "none"
  /\ IF isClosed \/ SignalOf[v] \in aborted
       THEN /\ promise' = With(v, IF isClosed THEN "closed" ELSE "aborted")
            /\ UNCHANGED <<queues, history>>
       ELSE Pump(Append(senders, v), receivers, isClosed, With(v, "pending"))
  /\ UNCHANGED <<isClosed, aborted>>

\* receive(): works on a closed channel as long as values remain.
Receive(r) ==
  /\ promise[r] = "none"
  /\ IF SignalOf[r] \in aborted
       THEN promise' = With(r, "aborted") /\ UNCHANGED <<queues, history>>
       ELSE Pump(senders, Append(receivers, r), isClosed, With(r, "pending"))
  /\ UNCHANGED <<isClosed, aborted>>

\* close(): turns the waiting senders away, then pumps.
TurnAway(ps) == [x \in Ops |-> IF x \in ToSet(senders) THEN "closed" ELSE ps[x]]
Close ==
  /\ ~isClosed
  /\ isClosed' = TRUE
  /\ Pump(<<>>, receivers, TRUE, TurnAway(promise))
  /\ UNCHANGED aborted

\* A signal fires the listeners of the operations that still wait with it: each
\* leaves its queue and its promise is rejected.  Nothing is pumped.
NoneLeave(queue, sig) == queue
LeaveQueue(queue, sig) ==
  LET left[n \in 0..Len(queue)] ==
        IF n = 0 THEN <<>>
        ELSE IF SignalOf[queue[n]] = sig THEN left[n - 1] ELSE Append(left[n - 1], queue[n])
  IN  left[Len(queue)]
Abort(sig) ==
  /\ sig \notin aborted
  /\ aborted' = aborted \cup {sig}
  /\ senders' = LeaveQueue(senders, sig)
  /\ receivers' = LeaveQueue(receivers, sig)
  /\ promise' = [x \in Ops |->
       IF x \in ToSet(senders \o receivers) /\ SignalOf[x] = sig THEN "aborted" ELSE promise[x]]
  /\ UNCHANGED <<buffer, isClosed, history>>

Next ==
  \/ \E v \in Sends : Send(v)
  \/ \E r \in Receives : Receive(r)
  \/ \E sig \in Signals : Abort(sig)
  \/ Close

Spec == Init /\ [][Next]_vars
----------------------------------------------------------------------------
\* Nobody waits without need: senders wait only at a full open channel that no
\* receiver waits for, receivers only at an empty open one.
NobodyWaitsInVain ==
  /\ senders # <<>> => ~isClosed /\ receivers = <<>> /\ Len(buffer) = Capacity
  /\ receivers # <<>> => ~isClosed /\ buffer = <<>>

\* A promise tells the truth: a send is resolved exactly if its value was
\* accepted, a receive with a value exactly if one was handed to it, and an
\* operation is pending exactly if it is in a queue and its signal not aborted.
\* Accepted values are delivered once each, in the order they were accepted: what
\* was handed over followed by the buffer is what was accepted.
PromiseTruth ==
  /\ accepted = [i \in 1..Len(handed) |-> handed[i][2]] \o buffer
  /\ \A v \in Sends : promise[v] = "sent" <=> v \in ToSet(accepted)
  /\ \A r \in Receives : promise[r] = "received" <=> \E i \in 1..Len(handed) : handed[i][1] = r
  /\ \A x \in Ops : promise[x] = "pending" <=> x \in ToSet(senders \o receivers)
  /\ \A x \in Ops : promise[x] = "pending" => SignalOf[x] \notin aborted

\* The channel is one line: buffer and waiting senders together behave as the
\* single queue of Line, in spite of hand-offs, aborts and close.
Promised == INSTANCE Line WITH Values <- Sends, Takers <- Receives, Room <- Capacity,
                               line <- buffer \o senders, takers <- receivers,
                               open <- ~isClosed
ImplementsLine == Promised!Spec
=============================================================================

--------------------------- MODULE ChannelProofs ---------------------------
(***************************************************************************)
(* Theorems about Channel, for every set of calls and signals and every    *)
(* capacity: all that its run checks, the refinement of Line included.     *)
(*                                                                         *)
(* Under NobodyWaitsInVain the loops of pump() make at most one round for  *)
(* one operation, so the first half says of every operation what it does   *)
(* to each variable.  The invariant adds to the three checked ones that no *)
(* operation stands in a queue twice.  Who stays in a queue after an abort *)
(* is a recursive function; what it returns is shown by induction over the *)
(* length of the queue, stated over sets of numbers.                       *)
(***************************************************************************)
EXTENDS Channel, SequenceTheorems, WellFoundedInduction, TLAPS

----------------------------------------------------------------------------
(* The effect of every operation.                                          *)

\* The beginning and the rest of a sequence.
LEMMA Parts ==
  ASSUME NEW S, NEW s \in Seq(S)
  PROVE  /\ First(s, 0) = <<>> /\ After(s, 0) = s
         /\ First(s, Len(s)) = s /\ After(s, Len(s)) = <<>>
         /\ s # <<>> => First(s, 1) = <<Head(s)>> /\ After(s, 1) = Tail(s) 
<1>1. First(s, 0) = <<>> /\ After(s, Len(s)) = <<>>
  BY SubSeqEmpty DEF First, After
<1>2. After(s, 0) = s /\ First(s, Len(s)) = s
  BY SubSeqFull DEF First, After
<1>3. ASSUME s # <<>> PROVE First(s, 1) = <<Head(s)>> /\ After(s, 1) = Tail(s) 
  <2>1. After(s, 1) = Tail(s) BY <1>3, TailIsSubSeq DEF After
  <2>2. First(s, 1) = <<s[1]>> \o SubSeq(s, 2, 1)
    BY <1>3, SubSeqRecursiveFirst DEF First
  <2>3. SubSeq(s, 2, 1) = <<>> BY SubSeqEmpty
  <2>4. Head(s) = s[1] /\ Head(s) \in S BY <1>3
  <2> QED BY <2>1, <2>2, <2>3, <2>4
<1> QED BY <1>1, <1>2, <1>3

\* The members of a sequence.
LEMMA Places ==
  ASSUME NEW S, NEW s \in Seq(S), NEW e \in S
  PROVE  /\ ToSet(Append(s, e)) = ToSet(s) \cup {e}
         /\ s # <<>> => ToSet(s) = ToSet(Tail(s)) \cup {Head(s)}
         /\ ToSet(s) = {s[i] : i \in 1..Len(s)}
<1>3. ToSet(Append(s, e)) = ToSet(s) \cup {e}
  <2> DEFINE t == Append(s, e)
  <2>1. /\ Len(t) = Len(s) + 1 /\ t[Len(s) + 1] = e /\ DOMAIN t = 1..Len(t) /\ DOMAIN s = 1..Len(s)
        /\ \A i \in 1..Len(s) : t[i] = s[i]
    OBVIOUS
  <2> HIDE DEF t
  <2>2. ASSUME NEW x \in ToSet(t) PROVE x \in ToSet(s) \cup {e}
    BY <2>1, <2>2 DEF ToSet
  <2>3. ASSUME NEW x \in ToSet(s) PROVE x \in ToSet(t)
    BY <2>1, <2>3 DEF ToSet
  <2>4. e \in ToSet(t) BY <2>1 DEF ToSet
  <2> QED BY <2>2, <2>3, <2>4 DEF t
<1>4. ASSUME s # <<>> PROVE ToSet(s) = ToSet(Tail(s)) \cup {Head(s)}
  <2> DEFINE t == Tail(s)
  <2>1. /\ Len(s) = Len(t) + 1 /\ s[1] = Head(s) /\ DOMAIN t = 1..Len(t) /\ DOMAIN s = 1..Len(s)
        /\ \A i \in 1..Len(t) : t[i] = s[i + 1]
        /\ Len(t) \in Nat
    BY <1>4
  <2> HIDE DEF t
  <2>2. ASSUME NEW x \in ToSet(s) PROVE x \in ToSet(t) \cup {Head(s)}
    <3>1. PICK i \in 1..Len(s) : s[i] = x BY <2>1, <2>2 DEF ToSet
    <3>2. i # 1 => i - 1 \in 1..Len(t) /\ t[i - 1] = x BY <2>1, <3>1
    <3> QED BY <2>1, <3>1, <3>2 DEF ToSet
  <2>3. ASSUME NEW x \in ToSet(t) PROVE x \in ToSet(s)
    <3>1. PICK i \in 1..Len(t) : t[i] = x BY <2>1, <2>3 DEF ToSet
    <3>2. i + 1 \in 1..Len(s) /\ s[i + 1] = x BY <2>1, <3>1
    <3> QED BY <2>1, <3>2 DEF ToSet
  <2>4. Head(s) \in ToSet(s) BY <2>1 DEF ToSet
  <2> QED BY <2>2, <2>3, <2>4 DEF t
<1>5.  ToSet(s) = {s[i] : i \in 1..Len(s)} BY DEF ToSet
<1> QED BY <1>3, <1>4, <1>5

\* Sets of the two shortest queues.
LEMMA Place ==
  /\ ToSet(<<>>) = {}
  /\ \A e : ToSet(<<e>>) = {e}
BY DEF ToSet
----------------------------------------------------------------------------
\* pump() when its loops make n1, n2 and n3 rounds.
Pumped(ss, rs, closed, ps, n1, n2, n3) ==
  /\ buffer' = After(buffer, n1) \o SubSeq(ss, n2 + 1, n2 + n3)
  /\ senders' = After(ss, n2 + n3)
  /\ receivers' = IF closed /\ After(buffer, n1) = <<>> THEN <<>> ELSE After(rs, n1 + n2)
  /\ handed' = handed \o [i \in 1..(n1 + n2) |-> <<rs[i], (First(buffer, n1) \o First(ss, n2))[i]>>]
  /\ accepted' = accepted \o First(ss, n2 + n3)
  /\ promise' = [x \in Ops |->
       IF x \in ToSet(First(ss, n2 + n3)) THEN "sent"
       ELSE IF x \in ToSet(First(rs, n1 + n2)) THEN "received"
       ELSE IF closed /\ After(buffer, n1) = <<>> /\ x \in ToSet(After(rs, n1 + n2)) THEN "done"
       ELSE ps[x]]

\* The rounds for b buffered values, s senders and r receivers of an open channel.
Numbers(b, s, r, n1, n2, n3) ==
  n1 = Least(r, b) /\ n2 = Least(s, r - n1) /\ n3 = Least(s - n2, Capacity - (b - n1))

\* The numbers of rounds are those of pump().
LEMMA Rounds ==
  ASSUME NEW ss, NEW rs, NEW closed, NEW ps, NEW n1, NEW n2, NEW n3,
         Pump(ss, rs, closed, ps),
         \/ ~closed /\ Numbers(Len(buffer), Len(ss), Len(rs), n1, n2, n3)
         \/ closed /\ n1 = Least(Len(rs), Len(buffer)) /\ n2 = 0 /\ n3 = 0
  PROVE  Pumped(ss, rs, closed, ps, n1, n2, n3)
<1> DEFINE m1 == FromBuffer(rs)
           m2 == IF closed THEN 0 ELSE HandOff(ss, Len(rs) - m1)
           m3 == IF closed THEN 0 ELSE Least(Len(ss) - m2, FreeRoom(Len(buffer) - m1))
<1>1. Pumped(ss, rs, closed, ps, m1, m2, m3)
  BY Zenon DEF Pump, Pumped
<1>2. m1 = n1 /\ m2 = n2 /\ m3 = n3
  BY Zenon DEF Numbers, FromBuffer, HandOff, FreeRoom
<1> HIDE DEF m1, m2, m3
<1> QED BY <1>1, <1>2

\* The cases that arise: a hand-off, a free place, a full buffer; a receiver that
\* waits, that takes a value, and one whose place in the buffer a sender fills.
LEMMA Counts ==
  /\ \A r \in Nat : r >= 1 => Numbers(0, 1, r, 0, 1, 0)
  /\ \A b \in Nat : b < Capacity => Numbers(b, 1, 0, 0, 0, 1)
  /\ \A s \in Nat : Numbers(Capacity, s, 0, 0, 0, 0)
  /\ \A r \in Nat : Numbers(0, 0, r, 0, 0, 0)
  /\ \A b \in Nat : b >= 1 /\ b <= Capacity => Numbers(b, 0, 1, 1, 0, 0)
  /\ \A s \in Nat : s >= 1 => Numbers(Capacity, s, 1, 1, 0, 1)
BY ChannelAssumption DEF Numbers, Least

\* ... and what that does: kept stays buffered, joined joins it, the senders left
\* remain, taken are accepted, the receivers served get what is given, and the rest wait.
Moved(rs, closed, ps, kept, joined, left, taken, n, served, rest, given) ==
  /\ buffer' = kept \o joined
  /\ senders' = left
  /\ receivers' = IF closed /\ kept = <<>> THEN <<>> ELSE rest
  /\ handed' = handed \o [i \in 1..n |-> <<rs[i], given[i]>>]
  /\ accepted' = accepted \o taken
  /\ promise' = [x \in Ops |->
       IF x \in ToSet(taken) THEN "sent"
       ELSE IF x \in ToSet(served) THEN "received"
       ELSE IF closed /\ kept = <<>> /\ x \in ToSet(rest) THEN "done" ELSE ps[x]]

\* Pumped, with names for the parts of the sequences.
LEMMA Effect ==
  ASSUME NEW ss, NEW rs, NEW closed, NEW ps, NEW n1, NEW n2, NEW n3,
         Pumped(ss, rs, closed, ps, n1, n2, n3),
         NEW kept, kept = After(buffer, n1),
         NEW joined, joined = SubSeq(ss, n2 + 1, n2 + n3),
         NEW left, left = After(ss, n2 + n3),
         NEW taken, taken = First(ss, n2 + n3),
         NEW n, n = n1 + n2,
         NEW served, served = First(rs, n),
         NEW rest, rest = After(rs, n),
         NEW given, given = First(buffer, n1) \o First(ss, n2)
  PROVE  Moved(rs, closed, ps, kept, joined, left, taken, n, served, rest, given)
<1> DEFINE m == n1 + n2
<1>1. Moved(rs, closed, ps, After(buffer, n1), SubSeq(ss, n2 + 1, n2 + n3), After(ss, n2 + n3),
            First(ss, n2 + n3), m, First(rs, m), After(rs, m), First(buffer, n1) \o First(ss, n2))
  BY Zenon DEF Pumped, Moved
<1> QED BY <1>1

\* A value that finds a receiver waiting goes straight to the first.
LEMMA SendTaken ==
  ASSUME TypeOK, NobodyWaitsInVain, NEW v \in Sends, receivers # <<>>, 
         Pump(Append(senders, v), receivers, isClosed, With(v, "pending"))
  PROVE  /\ buffer = <<>> /\ buffer' = <<>> /\ senders = <<>> /\ senders' = <<>> 
         /\ receivers' = Tail(receivers)
         /\ handed' = Append(handed, <<Head(receivers), v>>)
         /\ accepted' = Append(accepted, v)
         /\ promise' = [x \in Ops |-> IF x = v THEN "sent" ELSE
                                      IF x = Head(receivers) THEN "received" ELSE promise[x]]
<1>1. isClosed = FALSE /\ buffer = <<>> /\ senders = <<>>
  BY DEF NobodyWaitsInVain, TypeOK
<1>2. receivers \in Seq(Receives) /\ handed \in Seq(Receives \X Sends) /\ accepted \in Seq(Sends)
  BY DEF TypeOK
<1>3. PICK ss : ss = <<v>> OBVIOUS
<1>4. ss \in Seq(Sends) /\ Len(ss) = 1 /\ Append(senders, v) = ss
  BY <1>1, <1>3
<1>6. Pumped(ss, receivers, FALSE, With(v, "pending"), 0, 1, 0)
  <2>1. Len(receivers) \in Nat /\ Len(receivers) >= 1 /\ Len(buffer) = 0
    BY <1>1, <1>2
  <2>2. Numbers(Len(buffer), Len(ss), Len(receivers), 0, 1, 0)
    BY <1>4, <2>1, Counts, Zenon
  <2> QED BY <1>1, <1>4, <2>2, Rounds, Zenon
<1>8. Moved(receivers, FALSE, With(v, "pending"), <<>>, <<>>, <<>>, ss, 1,
            <<Head(receivers)>>, Tail(receivers), <<>> \o ss)
  <2>1. SubSeq(ss, 1 + 1, 1 + 0) = <<>> BY SubSeqEmpty
  <2>2. First(ss, 1 + 0) = ss /\ First(ss, 1) = ss /\ After(ss, 1 + 0) = <<>> BY <1>4, Parts
  <2>3. First(buffer, 0) = <<>> /\ After(buffer, 0) = <<>>
    BY <1>1, SubSeqEmpty DEF First, After
  <2>4. First(receivers, 1) = <<Head(receivers)>> /\ After(receivers, 1) = Tail(receivers)
    BY <1>2, Parts
  <2>5. 1 = 0 + 1 OBVIOUS
  <2> QED BY <1>6, <2>1, <2>2, <2>3, <2>4, <2>5, Effect
<1>9. buffer' = <<>> /\ senders' = <<>> /\ receivers' = Tail(receivers)
  BY <1>8 DEF Moved
<1>10. accepted' = Append(accepted, v)
  BY <1>2, <1>3, <1>8 DEF Moved
<1>11. handed' = Append(handed, <<Head(receivers), v>>)
  <2>1. [i \in 1..1 |-> <<receivers[i], (<<>> \o ss)[i]>>] = << <<Head(receivers), v>> >>
    BY <1>2, <1>3
  <2>2. handed' = handed \o [i \in 1..1 |-> <<receivers[i], (<<>> \o ss)[i]>>]
    BY <1>8 DEF Moved
  <2> QED BY <1>2, <2>1, <2>2
<1>12. promise' = [x \in Ops |-> IF x = v THEN "sent" ELSE
                                 IF x = Head(receivers) THEN "received" ELSE promise[x]]
  BY <1>3, <1>8, Place DEF Moved, With, TypeOK
<1> QED BY <1>1, <1>9, <1>10, <1>11, <1>12

\* A value that finds room and nobody waiting is buffered.
LEMMA SendBuffered ==
  ASSUME TypeOK, NobodyWaitsInVain, NEW v \in Sends, ~isClosed, receivers = <<>>, Len(buffer) < Capacity,
         Pump(Append(senders, v), receivers, isClosed, With(v, "pending"))
  PROVE  /\ senders = <<>> /\ senders' = <<>> /\ receivers' = <<>>
         /\ buffer' = Append(buffer, v)
         /\ handed' = handed
         /\ accepted' = Append(accepted, v)
         /\ promise' = [x \in Ops |-> IF x = v THEN "sent" ELSE promise[x]]
<1>1. isClosed = FALSE /\ senders = <<>>
  BY ChannelAssumption DEF NobodyWaitsInVain, TypeOK
<1>2. buffer \in Seq(Sends) /\ handed \in Seq(Receives \X Sends) /\ accepted \in Seq(Sends)
  BY DEF TypeOK
<1>3. PICK ss : ss = <<v>> OBVIOUS
<1>4. ss \in Seq(Sends) /\ Len(ss) = 1 /\ Append(senders, v) = ss
  BY <1>1, <1>3
<1>5. Pumped(ss, <<>>, FALSE, With(v, "pending"), 0, 0, 1)
  <2>1. Len(buffer) \in Nat /\ Len(<<>>) = 0
    BY <1>2
  <2>2. Numbers(Len(buffer), Len(ss), Len(<<>>), 0, 0, 1)
    BY <1>4, <2>1, Counts, Zenon
  <2> QED BY <1>1, <1>4, <2>2, Rounds, Zenon
<1>6. Moved(<<>>, FALSE, With(v, "pending"), buffer, ss, <<>>, ss, 0, <<>>, <<>>, <<>> \o <<>>)
  <2>1. First(ss, 1) = ss /\ After(ss, 1) = <<>> /\ First(ss, 0) = <<>> BY <1>4, Parts
  <2>2. SubSeq(ss, 1, 1) = ss BY <2>1 DEF First
  <2>3. First(buffer, 0) = <<>> /\ After(buffer, 0) = buffer BY <1>2, Parts
  <2>4. First(<<>>, 0) = <<>> /\ After(<<>>, 0) = <<>> BY SubSeqEmpty DEF First, After
  <2>5. 0 + 1 = 1 /\ 0 + 0 = 0 OBVIOUS
  <2> QED BY <1>5, <2>1, <2>2, <2>3, <2>4, <2>5, Effect
<1>7. buffer' = buffer \o ss /\ senders' = <<>> /\ receivers' = <<>> /\ accepted' = accepted \o ss
  BY <1>6 DEF Moved
<1>8. handed' = handed
  BY <1>2, <1>6 DEF Moved
<1>9. promise' = [x \in Ops |-> IF x = v THEN "sent" ELSE promise[x]]
  BY <1>3, <1>6, Place DEF Moved, With, TypeOK
<1> QED BY <1>1, <1>2, <1>3, <1>7, <1>8, <1>9

\* A value that finds the buffer full waits.
LEMMA SendWaits ==
  ASSUME TypeOK, NobodyWaitsInVain, NEW v \in Sends, ~isClosed, receivers = <<>>, Len(buffer) = Capacity,
         Pump(Append(senders, v), receivers, isClosed, With(v, "pending"))
  PROVE  /\ senders' = Append(senders, v)
         /\ UNCHANGED <<buffer, receivers, history>>
         /\ promise' = With(v, "pending")
<1>1. isClosed = FALSE
  BY DEF TypeOK
<1>2. buffer \in Seq(Sends) /\ handed \in Seq(Receives \X Sends) /\ accepted \in Seq(Sends)
  BY DEF TypeOK
<1>3. PICK ss : ss = Append(senders, v) OBVIOUS
<1>s. ss \in Seq(Sends) BY <1>3 DEF TypeOK
<1>4. Pumped(ss, <<>>, FALSE, With(v, "pending"), 0, 0, 0)
  <2>1. Len(ss) \in Nat /\ Len(<<>>) = 0
    BY <1>s
  <2>2. Numbers(Len(buffer), Len(ss), Len(<<>>), 0, 0, 0)
    BY <2>1, Counts, Zenon
  <2> QED BY <1>1, <1>3, <2>2, Rounds, Zenon
<1>5. Moved(<<>>, FALSE, With(v, "pending"), buffer, <<>>, ss, <<>>, 0, <<>>, <<>>, <<>> \o <<>>)
  <2>1. First(ss, 0) = <<>> /\ After(ss, 0) = ss BY <1>s, Parts
  <2>2. SubSeq(ss, 1, 0) = <<>> BY SubSeqEmpty
  <2>3. First(buffer, 0) = <<>> /\ After(buffer, 0) = buffer BY <1>2, Parts
  <2>4. First(<<>>, 0) = <<>> /\ After(<<>>, 0) = <<>> BY SubSeqEmpty DEF First, After
  <2>5. 0 + 1 = 1 /\ 0 + 0 = 0 OBVIOUS
  <2> QED BY <1>4, <2>1, <2>2, <2>3, <2>4, <2>5, Effect
<1>6. buffer' = buffer /\ senders' = ss /\ receivers' = <<>> /\ accepted' = accepted /\ handed' = handed
  BY <1>2, <1>5 DEF Moved
<1>7. promise' = With(v, "pending")
  BY <1>5, Place DEF Moved, With, TypeOK
<1> QED BY <1>3, <1>6, <1>7 DEF history

\* A receiver waits at an empty open channel.
LEMMA ReceiveWaits ==
  ASSUME TypeOK, NobodyWaitsInVain, NEW r \in Receives, ~isClosed, buffer = <<>>,
         Pump(senders, Append(receivers, r), isClosed, With(r, "pending"))
  PROVE  /\ senders = <<>>
         /\ receivers' = Append(receivers, r)
         /\ UNCHANGED <<buffer, senders, history>>
         /\ promise' = With(r, "pending")
<1>1. isClosed = FALSE /\ senders = <<>> /\ Len(buffer) = 0
  BY ChannelAssumption DEF NobodyWaitsInVain, TypeOK
<1>2. handed \in Seq(Receives \X Sends) /\ accepted \in Seq(Sends)
  BY DEF TypeOK
<1>3. PICK rs : rs = Append(receivers, r) OBVIOUS
<1>s. rs \in Seq(Receives) BY <1>3 DEF TypeOK
<1>4. Pumped(<<>>, rs, FALSE, With(r, "pending"), 0, 0, 0)
  <2>1. Len(rs) \in Nat /\ Len(<<>>) = 0
    BY <1>s
  <2>2. Numbers(Len(buffer), Len(<<>>), Len(rs), 0, 0, 0)
    BY <1>1, <2>1, Counts, Zenon
  <2> QED BY <1>1, <1>3, <2>2, Rounds, Zenon
<1>5. Moved(rs, FALSE, With(r, "pending"), <<>>, <<>>, <<>>, <<>>, 0, <<>>, rs, <<>> \o <<>>)
  <2>1. First(rs, 0) = <<>> /\ After(rs, 0) = rs BY <1>s, Parts
  <2>2. SubSeq(<<>>, 1, 0) = <<>> BY SubSeqEmpty
  <2>3. First(<<>>, 0) = <<>> /\ After(<<>>, 0) = <<>> BY SubSeqEmpty DEF First, After
  <2>4. 0 + 1 = 1 /\ 0 + 0 = 0 OBVIOUS
  <2> QED BY <1>4, <2>1, <2>2, <2>3, <2>4, Effect
<1>6. buffer' = <<>> /\ senders' = <<>> /\ receivers' = rs /\ accepted' = accepted /\ handed' = handed
  BY <1>2, <1>5 DEF Moved
<1>7. promise' = With(r, "pending")
  BY <1>5, Place DEF Moved, With, TypeOK
<1> QED BY <1>1, <1>3, <1>6, <1>7 DEF history

\* A receiver learns that nothing will come any more.
LEMMA ReceiveDone ==
  ASSUME TypeOK, NobodyWaitsInVain, NEW r \in Receives, isClosed, buffer = <<>>,
         Pump(senders, Append(receivers, r), isClosed, With(r, "pending"))
  PROVE  /\ UNCHANGED <<queues, history>>
         /\ promise' = With(r, "done")
<1>1. isClosed = TRUE /\ senders = <<>> /\ receivers = <<>> /\ Len(buffer) = 0
  BY DEF NobodyWaitsInVain, TypeOK
<1>2. handed \in Seq(Receives \X Sends) /\ accepted \in Seq(Sends)
  BY DEF TypeOK
<1>3. PICK rs : rs = <<r>> OBVIOUS
<1>4. rs \in Seq(Receives) /\ Len(rs) = 1 /\ Append(receivers, r) = rs BY <1>1, <1>3
<1>5. Pumped(<<>>, rs, TRUE, With(r, "pending"), 0, 0, 0)
  <2>1. 0 = Least(Len(rs), Len(buffer)) BY <1>1, <1>4 DEF Least
  <2> QED BY <1>1, <1>4, <2>1, Rounds, Zenon
<1>6. Moved(rs, TRUE, With(r, "pending"), <<>>, <<>>, <<>>, <<>>, 0, <<>>, rs, <<>> \o <<>>)
  <2>1. First(rs, 0) = <<>> /\ After(rs, 0) = rs BY <1>4, Parts
  <2>2. SubSeq(<<>>, 1, 0) = <<>> BY SubSeqEmpty
  <2>3. First(<<>>, 0) = <<>> /\ After(<<>>, 0) = <<>> BY SubSeqEmpty DEF First, After
  <2>4. 0 + 1 = 1 /\ 0 + 0 = 0 OBVIOUS
  <2> QED BY <1>5, <2>1, <2>2, <2>3, <2>4, Effect
<1>7. buffer' = <<>> /\ senders' = <<>> /\ receivers' = <<>> /\ accepted' = accepted /\ handed' = handed
  BY <1>2, <1>6 DEF Moved
<1>8. promise' = With(r, "done")
  BY <1>3, <1>6, Place DEF Moved, With, TypeOK
<1> QED BY <1>1, <1>7, <1>8 DEF queues, history

\* A receiver takes the first buffered value; no sender waits.
LEMMA ReceiveTakes ==
  ASSUME TypeOK, NobodyWaitsInVain, NEW r \in Receives, buffer # <<>>, senders = <<>>,
         Pump(senders, Append(receivers, r), isClosed, With(r, "pending"))
  PROVE  /\ UNCHANGED <<senders, receivers, accepted>> /\ receivers = <<>>
         /\ buffer' = Tail(buffer)
         /\ handed' = Append(handed, <<r, Head(buffer)>>)
         /\ promise' = With(r, "received")
<1>1. receivers = <<>> /\ isClosed \in BOOLEAN
  BY DEF NobodyWaitsInVain, TypeOK
<1>2. /\ handed \in Seq(Receives \X Sends) /\ accepted \in Seq(Sends)
      /\ buffer \in Seq(Sends) /\ Len(buffer) <= Capacity
  BY DEF TypeOK
<1>3. PICK rs : rs = <<r>> OBVIOUS
<1>4. rs \in Seq(Receives) /\ Len(rs) = 1 /\ Append(receivers, r) = rs BY <1>1, <1>3
<1>5. Pumped(<<>>, rs, isClosed, With(r, "pending"), 1, 0, 0)
  <2>1. Len(buffer) \in Nat /\ Len(buffer) >= 1 /\ Len(buffer) <= Capacity /\ Len(<<>>) = 0
    BY <1>2
  <2>2. Numbers(Len(buffer), Len(<<>>), Len(rs), 1, 0, 0)
    BY <1>4, <2>1, Counts, Zenon
  <2>3. 1 = Least(Len(rs), Len(buffer))
    BY <1>4, <2>2, Zenon DEF Numbers
  <2> QED BY <1>1, <1>4, <2>2, <2>3, Rounds, Zenon
<1>6. Moved(rs, isClosed, With(r, "pending"), Tail(buffer), <<>>, <<>>, <<>>, 1, rs, <<>>,
            <<Head(buffer)>> \o <<>>)
  <2>1. First(rs, 1) = rs /\ After(rs, 1) = <<>> BY <1>4, Parts
  <2>2. SubSeq(<<>>, 1, 0) = <<>> BY SubSeqEmpty
  <2>3. First(<<>>, 0) = <<>> /\ After(<<>>, 0) = <<>> BY SubSeqEmpty DEF First, After
  <2>4. First(buffer, 1) = <<Head(buffer)>> /\ After(buffer, 1) = Tail(buffer) BY <1>2, Parts
  <2>5. 0 + 1 = 1 /\ 0 + 0 = 0 /\ 1 + 0 = 1 OBVIOUS
  <2> QED BY <1>5, <2>1, <2>2, <2>3, <2>4, <2>5, Effect
<1>7. buffer' = Tail(buffer) /\ senders' = <<>> /\ receivers' = <<>> /\ accepted' = accepted
  BY <1>2, <1>6 DEF Moved
<1>8. handed' = Append(handed, <<r, Head(buffer)>>)
  <2>1. Head(buffer) \in Sends BY <1>2
  <2>2. [i \in 1..1 |-> <<rs[i], (<<Head(buffer)>> \o <<>>)[i]>>] = << <<r, Head(buffer)>> >>
    BY <1>3, <2>1
  <2>3. handed' = handed \o [i \in 1..1 |-> <<rs[i], (<<Head(buffer)>> \o <<>>)[i]>>]
    BY <1>6 DEF Moved
  <2> QED BY <1>2, <2>1, <2>2, <2>3
<1>9. promise' = With(r, "received")
  BY <1>3, <1>6, Place DEF Moved, With, TypeOK
<1> QED BY <1>1, <1>7, <1>8, <1>9

\* ... and the first waiting sender takes the place that is free now.
LEMMA ReceiveFills ==
  ASSUME TypeOK, NobodyWaitsInVain, NEW r \in Receives, senders # <<>>,
         Pump(senders, Append(receivers, r), isClosed, With(r, "pending"))
  PROVE  /\ receivers = <<>> /\ receivers' = <<>> /\ Len(buffer) = Capacity /\ buffer # <<>> /\ ~isClosed
         /\ buffer' = Append(Tail(buffer), Head(senders))
         /\ senders' = Tail(senders)
         /\ handed' = Append(handed, <<r, Head(buffer)>>)
         /\ accepted' = Append(accepted, Head(senders))
         /\ promise' = [x \in Ops |-> IF x = Head(senders) THEN "sent" ELSE
                                      IF x = r THEN "received" ELSE promise[x]]
<1>1. receivers = <<>> /\ isClosed = FALSE /\ Len(buffer) = Capacity /\ buffer # <<>>
  BY ChannelAssumption DEF NobodyWaitsInVain, TypeOK
<1>2. /\ handed \in Seq(Receives \X Sends) /\ accepted \in Seq(Sends)
      /\ buffer \in Seq(Sends) /\ senders \in Seq(Sends)
  BY DEF TypeOK
<1>3. PICK rs : rs = <<r>> OBVIOUS
<1>4. rs \in Seq(Receives) /\ Len(rs) = 1 /\ Append(receivers, r) = rs BY <1>1, <1>3
<1>5. Pumped(senders, rs, FALSE, With(r, "pending"), 1, 0, 1)
  <2>1. Len(senders) \in Nat /\ Len(senders) >= 1
    BY <1>2
  <2>2. Numbers(Len(buffer), Len(senders), Len(rs), 1, 0, 1)
    BY <1>1, <1>4, <2>1, Counts, Zenon
  <2> QED BY <1>1, <1>4, <2>2, Rounds, Zenon
<1>6. Moved(rs, FALSE, With(r, "pending"), Tail(buffer), <<Head(senders)>>, Tail(senders),
            <<Head(senders)>>, 1, rs, <<>>, <<Head(buffer)>> \o <<>>)
  <2>1. First(rs, 1) = rs /\ After(rs, 1) = <<>> BY <1>4, Parts
  <2>2. /\ First(senders, 1) = <<Head(senders)>> /\ After(senders, 1) = Tail(senders)
        /\ First(senders, 0) = <<>>
    BY <1>2, Parts
  <2>3. SubSeq(senders, 1, 1) = <<Head(senders)>> BY <2>2 DEF First
  <2>4. First(buffer, 1) = <<Head(buffer)>> /\ After(buffer, 1) = Tail(buffer) BY <1>1, <1>2, Parts
  <2>5. 0 + 1 = 1 /\ 1 + 0 = 1 OBVIOUS
  <2> QED BY <1>5, <2>1, <2>2, <2>3, <2>4, <2>5, Effect
<1>7. Head(buffer) \in Sends /\ Head(senders) \in Sends /\ Tail(buffer) \in Seq(Sends)
  BY <1>1, <1>2
<1>8. /\ buffer' = Tail(buffer) \o <<Head(senders)>> /\ senders' = Tail(senders) /\ receivers' = <<>>
      /\ accepted' = accepted \o <<Head(senders)>>
  BY <1>6 DEF Moved
<1>9. buffer' = Append(Tail(buffer), Head(senders)) /\ accepted' = Append(accepted, Head(senders))
  BY <1>2, <1>7, <1>8
<1>10. handed' = Append(handed, <<r, Head(buffer)>>)
  <2>1. [i \in 1..1 |-> <<rs[i], (<<Head(buffer)>> \o <<>>)[i]>>] = << <<r, Head(buffer)>> >>
    BY <1>3, <1>7
  <2>2. handed' = handed \o [i \in 1..1 |-> <<rs[i], (<<Head(buffer)>> \o <<>>)[i]>>]
    BY <1>6 DEF Moved
  <2> QED BY <1>2, <1>7, <2>1, <2>2
<1>11. promise' = [x \in Ops |-> IF x = Head(senders) THEN "sent" ELSE
                                 IF x = r THEN "received" ELSE promise[x]]
  BY <1>3, <1>6, Place DEF Moved, With, TypeOK
<1> QED BY <1>1, <1>8, <1>9, <1>10, <1>11

\* Closing keeps the buffer, turns the senders away and tells the receivers.
LEMMA Closing ==
  ASSUME TypeOK, NobodyWaitsInVain, ~isClosed, Pump(<<>>, receivers, TRUE, TurnAway(promise))
  PROVE  /\ UNCHANGED <<buffer, history>>
         /\ senders' = <<>> /\ receivers' = <<>>
         /\ promise' = [x \in Ops |-> IF x \in ToSet(receivers) THEN "done" ELSE
                                      IF x \in ToSet(senders) THEN "closed" ELSE promise[x]]
<1>1. receivers # <<>> => buffer = <<>>
  BY DEF NobodyWaitsInVain
<1>2. /\ handed \in Seq(Receives \X Sends) /\ accepted \in Seq(Sends)
      /\ buffer \in Seq(Sends) /\ receivers \in Seq(Receives)
  BY DEF TypeOK
<1>3. Pumped(<<>>, receivers, TRUE, TurnAway(promise), 0, 0, 0)
  <2>1. Len(buffer) \in Nat /\ Len(receivers) \in Nat /\ (Len(receivers) = 0 \/ Len(buffer) = 0)
    BY <1>1, <1>2
  <2>2. 0 = Least(Len(receivers), Len(buffer)) BY <2>1 DEF Least
  <2> QED BY <2>2, Rounds, Zenon
<1>4. Moved(receivers, TRUE, TurnAway(promise), buffer, <<>>, <<>>, <<>>, 0, <<>>, receivers,
            <<>> \o <<>>)
  <2>1. First(receivers, 0) = <<>> /\ After(receivers, 0) = receivers BY <1>2, Parts
  <2>2. SubSeq(<<>>, 1, 0) = <<>> BY SubSeqEmpty
  <2>3. First(<<>>, 0) = <<>> /\ After(<<>>, 0) = <<>> BY SubSeqEmpty DEF First, After
  <2>4. First(buffer, 0) = <<>> /\ After(buffer, 0) = buffer BY <1>2, Parts
  <2>5. 0 + 1 = 1 /\ 0 + 0 = 0 OBVIOUS
  <2> QED BY <1>3, <2>1, <2>2, <2>3, <2>4, <2>5, Effect
<1>5. buffer' = buffer /\ senders' = <<>> /\ receivers' = <<>> /\ accepted' = accepted /\ handed' = handed
  BY <1>1, <1>2, <1>4 DEF Moved
<1>6. promise' = [x \in Ops |-> IF x \in ToSet(receivers) THEN "done" ELSE
                                IF x \in ToSet(senders) THEN "closed" ELSE promise[x]]
  BY <1>1, <1>4, Place DEF Moved, TurnAway
<1> QED BY <1>5, <1>6 DEF history
----------------------------------------------------------------------------
(* Who leaves a queue.                                                     *)

\* Induction over the natural numbers.
LEMMA AllNat ==
  ASSUME NEW T \in SUBSET Nat, 0 \in T, \A n \in T : n + 1 \in T
  PROVE  T = Nat
<1>1. SUFFICES ASSUME Nat \ T # {} PROVE FALSE
  OBVIOUS
<1>2. \E x \in Nat \ T : \A y \in Nat \ T : ~(<<y, x>> \in OpToRel(<, Nat))
  BY <1>1, NatLessThanWellFounded, WFMin
<1>3. PICK x \in Nat \ T : \A y \in Nat \ T : ~(y < x)
  BY <1>2 DEF OpToRel
<1>4. x # 0 /\ x - 1 \in Nat
  OBVIOUS
<1>5. x - 1 \in T
  BY <1>3, <1>4
<1> QED BY <1>4, <1>5

\* The recursion of LeaveQueue, and a function that follows it up to m.
Leaving(f, q, sig, n) ==
  IF n = 0 THEN <<>> ELSE IF SignalOf[q[n]] = sig THEN f[n - 1] ELSE Append(f[n - 1], q[n])
Follows(f, q, sig, m) == f = [n \in 0..m |-> Leaving(f, q, sig, n)]

\* Such a function exists, whatever m.
LEMMA LeavingDefined ==
  ASSUME NEW q, NEW sig, NEW m \in Nat
  PROVE  \E f : Follows(f, q, sig, m)
<1> DEFINE T == {k \in Nat : \E f : Follows(f, q, sig, k)}
<1>1. 0 \in T
  <2>1. Follows([n \in 0..0 |-> <<>>], q, sig, 0) BY DEF Follows, Leaving
  <2> QED BY <2>1
<1>2. ASSUME NEW k \in T PROVE k + 1 \in T
  <2>1. PICK f : Follows(f, q, sig, k) OBVIOUS
  <2> DEFINE g == [n \in 0..(k + 1) |-> IF n <= k THEN f[n] ELSE Leaving(f, q, sig, k + 1)]
  <2>2. ASSUME NEW n \in 0..(k + 1) PROVE g[n] = Leaving(g, q, sig, n)
    <3>0. k \in Nat OBVIOUS
    <3>1. n # 0 => n - 1 \in 0..k /\ g[n - 1] = f[n - 1] BY <3>0
    <3>2. CASE n <= k
      <4>1. g[n] = f[n] BY <3>0, <3>2
      <4>2. f[n] = Leaving(f, q, sig, n) BY <2>1, <3>0, <3>2 DEF Follows
      <4> HIDE DEF g
      <4> QED BY <3>1, <4>1, <4>2 DEF Leaving
    <3>3. CASE n = k + 1
      <4>1. g[n] = Leaving(f, q, sig, n) BY <3>0, <3>3
      <4> HIDE DEF g
      <4> QED BY <3>1, <4>1 DEF Leaving
    <3> QED BY <3>0, <3>2, <3>3
  <2>3. g = [n \in 0..(k + 1) |-> g[n]]
    OBVIOUS
  <2> HIDE DEF g
  <2>4. Follows(g, q, sig, k + 1)
    BY <2>2, <2>3 DEF Follows
  <2> QED BY <2>4
<1> HIDE DEF T
<1>3. T = Nat
  <2>1. T \in SUBSET Nat BY DEF T
  <2> QED BY <1>1, <1>2, <2>1, AllNat
<1> QED BY <1>3 DEF T

\* Who leaves a queue: those with the signal.  The others keep their order.
Kept(new, q, sig, n, p) ==
  /\ p \in [1..Len(new) -> 1..n]
  /\ \A i, j \in 1..Len(new) : i < j => p[i] < p[j]
  /\ \A i \in 1..Len(new) : new[i] = q[p[i]] /\ SignalOf[new[i]] # sig
  /\ \A k \in 1..n : SignalOf[q[k]] # sig => \E i \in 1..Len(new) : p[i] = k

\* LeaveQueue keeps exactly those without the signal, in their order.
LEMMA Leaves ==
  ASSUME NEW S, NEW q \in Seq(S), NEW sig
  PROVE  /\ LeaveQueue(q, sig) \in Seq(S)
         /\ \E p : Kept(LeaveQueue(q, sig), q, sig, Len(q), p)
<1>1. PICK f : Follows(f, q, sig, Len(q)) /\ LeaveQueue(q, sig) = f[Len(q)]
  <2> DEFINE F == CHOOSE f : Follows(f, q, sig, Len(q))
  <2>1. Follows(F, q, sig, Len(q)) BY LeavingDefined
  <2>2. LeaveQueue(q, sig) = F[Len(q)] BY DEF LeaveQueue, Follows, Leaving
  <2> HIDE DEF F
  <2> QED BY <2>1, <2>2
<1> DEFINE P(n) == f[n] \in Seq(S) /\ \E p : Kept(f[n], q, sig, n, p)
           T == {n \in Nat : n <= Len(q) => P(n)}
<1>2. ASSUME NEW n \in 0..Len(q) PROVE f[n] = Leaving(f, q, sig, n)
  BY <1>1 DEF Follows
<1>3. 0 \in T
  <2>1. f[0] = <<>> BY <1>2 DEF Leaving
  <2>2. Kept(<<>>, q, sig, 0, [i \in 1..0 |-> i]) BY DEF Kept
  <2>3. f[0] \in Seq(S) BY <2>1
  <2>4. \E p : Kept(f[0], q, sig, 0, p) BY <2>1, <2>2
  <2> QED BY <2>3, <2>4
<1>4. ASSUME NEW n \in T PROVE n + 1 \in T
  <2>1. SUFFICES ASSUME n + 1 <= Len(q) PROVE P(n + 1) OBVIOUS
  <2>2. n \in Nat /\ n + 1 \in 1..Len(q) /\ P(n) BY <2>1
  <2> DEFINE l == f[n]
             m == f[n + 1]
  <2>3. l \in Seq(S) BY <2>2
  <2>4. PICK p : Kept(l, q, sig, n, p) BY <2>2
  <2>5. m = IF SignalOf[q[n + 1]] = sig THEN l ELSE Append(l, q[n + 1])
    BY <1>2, <2>2 DEF Leaving
  <2>6. q[n + 1] \in S BY <2>2
  <2> HIDE DEF l, m
  <2>7. CASE SignalOf[q[n + 1]] = sig
    <3>1. Kept(l, q, sig, n + 1, p) BY <2>2, <2>4, <2>7 DEF Kept
    <3> QED BY <2>3, <2>5, <2>7, <3>1 DEF m
  <2>8. CASE SignalOf[q[n + 1]] # sig
    <3> DEFINE r == [i \in 1..Len(m) |-> IF i <= Len(l) THEN p[i] ELSE n + 1]
    <3>1. /\ m \in Seq(S) /\ Len(m) = Len(l) + 1 /\ m[Len(m)] = q[n + 1] /\ Len(l) \in Nat
          /\ \A i \in 1..Len(l) : m[i] = l[i]
      BY <2>3, <2>5, <2>6, <2>8
    <3>a. \A i \in 1..Len(m) : i \in 1..Len(l) \/ i = Len(m) BY <3>1
    <3>b. \A i \in 1..Len(l) : i \in 1..Len(m) /\ i # Len(m) /\ i <= Len(l) BY <3>1
    <3>c. Len(m) \in 1..Len(m) /\ ~(Len(m) <= Len(l)) BY <3>1
    <3>d. \A i \in 1..Len(l) : p[i] \in 1..n BY <2>4 DEF Kept
    <3>2. /\ \A i \in 1..Len(l) : p[i] \in 1..n /\ r[i] = p[i]
          /\ r[Len(m)] = n + 1
          /\ \A i \in 1..Len(m) : i \in 1..Len(l) \/ i = Len(m)
      BY <3>a, <3>b, <3>c, <3>d
    <3>3. r \in [1..Len(m) -> 1..(n + 1)]
      <4>0. n + 1 \in 1..(n + 1) /\ 1..n \subseteq 1..(n + 1) BY <2>2
      <4>1. \A i \in 1..Len(m) : r[i] \in 1..(n + 1) BY <3>2, <4>0, Zenon
      <4>2. r = [i \in 1..Len(m) |-> r[i]] OBVIOUS
      <4> HIDE DEF r
      <4> QED BY <4>1, <4>2
    <3> HIDE DEF r
    <3>4. ASSUME NEW i \in 1..Len(m), NEW j \in 1..Len(m), i < j PROVE r[i] < r[j]
      <4>1. i \in 1..Len(l) /\ r[i] = p[i] /\ p[i] \in 1..n BY <3>1, <3>2, <3>4
      <4>2. CASE j = Len(m) BY <2>2, <3>2, <4>1, <4>2
      <4>3. CASE j \in 1..Len(l)
        <5>1. p[i] < p[j] BY <2>4, <3>4, <4>1, <4>3 DEF Kept
        <5> QED BY <3>2, <4>1, <4>3, <5>1
      <4> QED BY <3>2, <4>2, <4>3
    <3>5. ASSUME NEW i \in 1..Len(m) PROVE m[i] = q[r[i]] /\ SignalOf[m[i]] # sig
      BY <2>4, <2>8, <3>1, <3>2 DEF Kept
    <3>6. ASSUME NEW k \in 1..(n + 1), SignalOf[q[k]] # sig PROVE \E i \in 1..Len(m) : r[i] = k
      <4>1. CASE k = n + 1 BY <3>1, <3>2, <4>1
      <4>2. CASE k # n + 1
        <5>1. k \in 1..n BY <2>2, <4>2
        <5>2. PICK i \in 1..Len(l) : p[i] = k BY <2>4, <3>6, <5>1 DEF Kept
        <5> QED BY <3>1, <3>2, <5>2
      <4> QED BY <4>1, <4>2
    <3>7. Kept(m, q, sig, n + 1, r)
      BY <3>3, <3>4, <3>5, <3>6 DEF Kept
    <3> QED BY <3>1, <3>7 DEF m
  <2> QED BY <2>7, <2>8
<1>5. T = Nat
  <2> HIDE DEF P
  <2>1. T \in SUBSET Nat OBVIOUS
  <2> HIDE DEF T
  <2> QED BY <1>3, <1>4, <2>1, AllNat
<1>6. Len(q) \in T BY <1>5
<1> QED BY <1>1, <1>6
----------------------------------------------------------------------------
(* The invariant.                                                          *)

Distinct(q) == \A i, j \in 1..Len(q) : q[i] = q[j] => i = j

\* Joining and leaving a queue keeps its members distinct.
LEMMA DistinctQueues ==
  ASSUME NEW S, NEW q \in Seq(S), Distinct(q)
  PROVE  /\ \A x \in S : x \notin ToSet(q) => Distinct(Append(q, x))
         /\ q # <<>> => Distinct(Tail(q)) /\ Head(q) \notin ToSet(Tail(q))
<1>1. ASSUME NEW x \in S, x \notin ToSet(q) PROVE Distinct(Append(q, x))
  <2> DEFINE t == Append(q, x)
  <2>1. /\ Len(t) = Len(q) + 1 /\ t[Len(q) + 1] = x /\ Len(q) \in Nat
        /\ \A i \in 1..Len(q) : t[i] = q[i] /\ q[i] # x
    BY <1>1 DEF ToSet
  <2> HIDE DEF t
  <2> QED BY <2>1 DEF Distinct, t
<1>2. ASSUME q # <<>> PROVE Distinct(Tail(q)) /\ Head(q) \notin ToSet(Tail(q))
  <2> DEFINE t == Tail(q)
  <2>1. /\ Len(q) = Len(t) + 1 /\ q[1] = Head(q) /\ Len(t) \in Nat /\ DOMAIN t = 1..Len(t)
        /\ \A i \in 1..Len(t) : t[i] = q[i + 1]
    BY <1>2
  <2> HIDE DEF t
  <2>2. Distinct(t) BY <2>1 DEF Distinct
  <2>3. ASSUME Head(q) \in ToSet(t) PROVE FALSE
    <3>1. PICK i \in 1..Len(t) : t[i] = Head(q) BY <2>1, <2>3 DEF ToSet
    <3>2. q[i + 1] = q[1] /\ i + 1 \in 1..Len(q) /\ 1 \in 1..Len(q) BY <2>1, <3>1
    <3> QED BY <3>2 DEF Distinct
  <2> QED BY <2>2, <2>3 DEF t
<1> QED BY <1>1, <1>2

\* The values handed over, and to whom they were.
Given(h) == [i \in 1..Len(h) |-> h[i][2]]
Served(h) == {r \in Receives : \E i \in 1..Len(h) : h[i][1] = r}

\* What was handed over are values.
LEMMA GivenType ==
  ASSUME NEW h \in Seq(Receives \X Sends) PROVE Given(h) \in Seq(Sends)
<1>1. \A i \in 1..Len(h) : h[i] \in Receives \X Sends /\ h[i][2] \in Sends
  OBVIOUS
<1> QED BY <1>1 DEF Given

\* One delivery more.
LEMMA HandedOver ==
  ASSUME NEW h \in Seq(Receives \X Sends), NEW r \in Receives, NEW v \in Sends
  PROVE  /\ Given(h) \in Seq(Sends)
         /\ Given(Append(h, <<r, v>>)) = Append(Given(h), v)
         /\ Served(Append(h, <<r, v>>)) = Served(h) \cup {r}
<1> DEFINE e == <<r, v>>
           k == Append(h, e)
<1>0. e \in Receives \X Sends /\ e[1] = r /\ e[2] = v OBVIOUS
<1> HIDE DEF e
<1>1. /\ Len(k) = Len(h) + 1 /\ k[Len(h) + 1] = e /\ Len(h) \in Nat
      /\ \A i \in 1..Len(h) : k[i] = h[i] /\ h[i] \in Receives \X Sends
  BY <1>0
<1> HIDE DEF k
<1>2. \A i \in 1..Len(h) : h[i][2] \in Sends BY <1>1
<1>3. Given(h) \in Seq(Sends) /\ Len(Given(h)) = Len(h)
  BY <1>1, <1>2 DEF Given
<1>4. Given(k) = Append(Given(h), v)
  <2> DEFINE a == Append(Given(h), v)
  <2>1. a \in Seq(Sends) /\ Len(a) = Len(h) + 1 /\ a[Len(h) + 1] = v /\ \A i \in 1..Len(h) : a[i] = Given(h)[i]
    BY <1>3
  <2>2. Given(k) \in Seq(Sends) /\ Len(Given(k)) = Len(h) + 1
    <3>1. \A i \in 1..(Len(h) + 1) : k[i][2] \in Sends BY <1>0, <1>1, <1>2
    <3> QED BY <1>1, <3>1 DEF Given
  <2> HIDE DEF a
  <2>3. \A i \in 1..(Len(h) + 1) : Given(k)[i] = a[i]
    BY <1>0, <1>1, <2>1 DEF Given
  <2>4. Given(k) = a BY <2>1, <2>2, <2>3, SeqEqual
  <2> QED BY <2>4 DEF a
<1>5. Served(k) = Served(h) \cup {r}
  BY <1>0, <1>1, SMTT(30) DEF Served
<1> QED BY <1>3, <1>4, <1>5 DEF k, e

\* Moving the head of the second of two sequences to the end of the first.
LEMMA HeadMoves ==
  ASSUME NEW S, NEW s \in Seq(S), NEW t \in Seq(S), t # <<>>
  PROVE  s \o t = Append(s, Head(t)) \o Tail(t)
<1>1. Head(t) \in S /\ Tail(t) \in Seq(S) /\ <<Head(t)>> \in Seq(S) OBVIOUS
<1>2. t = <<Head(t)>> \o Tail(t)
  BY HeadTailProperties
<1>3. Append(s, Head(t)) = s \o <<Head(t)>> BY <1>1
<1> QED BY <1>1, <1>2, <1>3, ConcatAssociative

\* Appending to two sequences is appending to the second.
LEMMA AppendMoves ==
  ASSUME NEW S, NEW s \in Seq(S), NEW t \in Seq(S), NEW e \in S
  PROVE  \A a : a = Append(s \o t, e) => a = s \o Append(t, e)
<1>1. <<e>> \in Seq(S) /\ s \o t \in Seq(S) OBVIOUS
<1>2. Append(s \o t, e) = (s \o t) \o <<e>> /\ Append(t, e) = t \o <<e>>
  BY <1>1, AppendIsConcat
<1> QED BY <1>1, <1>2, ConcatAssociative

\* The head of two sequences is that of the first.
LEMMA HeadOfJoined ==
  ASSUME NEW S, NEW s \in Seq(S), NEW t \in Seq(S), s # <<>>
  PROVE  s \o t # <<>> /\ Head(s \o t) = Head(s) /\ Tail(s \o t) = Tail(s) \o t
<1>1. /\ s \o t \in Seq(S) /\ Len(s \o t) = Len(s) + Len(t) /\ Len(s) \in Nat /\ Len(s) >= 1 /\ Len(t) \in Nat
      /\ \A i \in 1..(Len(s) + Len(t)) : (s \o t)[i] = IF i <= Len(s) THEN s[i] ELSE t[i - Len(s)]
  OBVIOUS
<1>2. /\ Tail(s) \in Seq(S) /\ Len(Tail(s)) = Len(s) - 1
      /\ \A i \in 1..(Len(s) - 1) : Tail(s)[i] = s[i + 1]
  OBVIOUS
<1>3. PICK c : c = s \o t OBVIOUS
<1>4. c \in Seq(S) /\ c # <<>> /\ Len(c) = Len(s) + Len(t) /\ c[1] = s[1] BY <1>1, <1>3
<1>5. Head(c) = Head(s) BY <1>4
<1>6. PICK u : u = Tail(c) OBVIOUS
<1>7. /\ u \in Seq(S) /\ Len(u) = Len(s) + Len(t) - 1
      /\ \A i \in 1..(Len(s) + Len(t) - 1) : u[i] = c[i + 1]
  BY <1>1, <1>4, <1>6
<1>8. PICK w : w = Tail(s) \o t OBVIOUS
<1>9. /\ w \in Seq(S) /\ Len(w) = Len(s) + Len(t) - 1
      /\ \A i \in 1..(Len(s) + Len(t) - 1) :
           w[i] = IF i <= Len(s) - 1 THEN Tail(s)[i] ELSE t[i - (Len(s) - 1)]
  BY <1>1, <1>2, <1>8
<1>10. \A i \in 1..(Len(s) + Len(t) - 1) : u[i] = w[i]
  <2> SUFFICES ASSUME NEW i \in 1..(Len(s) + Len(t) - 1) PROVE u[i] = w[i] OBVIOUS
  <2>1. i + 1 \in 1..(Len(s) + Len(t)) /\ u[i] = IF i + 1 <= Len(s) THEN s[i + 1] ELSE t[i + 1 - Len(s)]
    BY <1>1, <1>3, <1>7
  <2>2. i <= Len(s) - 1 => i \in 1..(Len(s) - 1) BY <1>1
  <2>3. i + 1 <= Len(s) <=> i <= Len(s) - 1 BY <1>1
  <2>4. i + 1 - Len(s) = i - (Len(s) - 1) BY <1>1
  <2> QED BY <1>2, <1>9, <2>1, <2>2, <2>3, <2>4
<1>11. u = w BY <1>7, <1>9, <1>10, SeqEqual
<1> QED BY <1>3, <1>4, <1>5, <1>6, <1>8, <1>11

\* The members of two sequences.
LEMMA Joined ==
  ASSUME NEW S, NEW s \in Seq(S), NEW T, NEW t \in Seq(T)
  PROVE  ToSet(s \o t) = ToSet(s) \cup ToSet(t)
<1> DEFINE c == s \o t
<1>1. /\ Len(c) = Len(s) + Len(t) /\ Len(s) \in Nat /\ Len(t) \in Nat
      /\ DOMAIN c = 1..Len(c) /\ DOMAIN s = 1..Len(s) /\ DOMAIN t = 1..Len(t)
      /\ \A i \in 1..Len(c) : c[i] = IF i <= Len(s) THEN s[i] ELSE t[i - Len(s)]
  <2>1. s \in Seq(S \cup T) /\ t \in Seq(S \cup T) BY SeqMonotonic
  <2> QED BY <2>1, ConcatProperties, LenProperties
<1> HIDE DEF c
<1>2. ASSUME NEW x \in ToSet(c) PROVE x \in ToSet(s) \cup ToSet(t)
  <2>1. PICK i \in 1..Len(c) : c[i] = x BY <1>1, <1>2 DEF ToSet
  <2>2. i <= Len(s) => i \in 1..Len(s) /\ s[i] = x BY <1>1, <2>1
  <2>3. ~(i <= Len(s)) => i - Len(s) \in 1..Len(t) /\ t[i - Len(s)] = x BY <1>1, <2>1
  <2> QED BY <1>1, <2>2, <2>3 DEF ToSet
<1>3. ASSUME NEW x \in ToSet(s) PROVE x \in ToSet(c)
  <2>1. PICK i \in 1..Len(s) : s[i] = x BY <1>1, <1>3 DEF ToSet
  <2>2. i \in 1..Len(c) /\ c[i] = x BY <1>1, <2>1
  <2> QED BY <1>1, <2>2 DEF ToSet
<1>4. ASSUME NEW x \in ToSet(t) PROVE x \in ToSet(c)
  <2>1. PICK i \in 1..Len(t) : t[i] = x BY <1>1, <1>4 DEF ToSet
  <2>2. Len(s) + i \in 1..Len(c) /\ c[Len(s) + i] = x BY <1>1, <2>1
  <2> QED BY <1>1, <2>2 DEF ToSet
<1> QED BY <1>2, <1>3, <1>4 DEF c
----------------------------------------------------------------------------
\* The parts of PromiseTruth.
Delivered == accepted = Given(handed) \o buffer
SentTruth == \A v \in Sends : promise[v] = "sent" <=> v \in ToSet(accepted)
ReceivedTruth == \A r \in Receives : promise[r] = "received" <=> r \in Served(handed)
PendingTruth == \A x \in Ops : promise[x] = "pending" <=> x \in ToSet(senders) \cup ToSet(receivers)
SignalTruth == \A x \in Ops : promise[x] = "pending" => SignalOf[x] \notin aborted

\* PromiseTruth is its parts.
LEMMA Parted ==
  ASSUME senders \in Seq(Sends), receivers \in Seq(Receives)
  PROVE  PromiseTruth <=> Delivered /\ SentTruth /\ ReceivedTruth /\ PendingTruth /\ SignalTruth
<1>1. ToSet(senders \o receivers) = ToSet(senders) \cup ToSet(receivers)
  BY Joined
<1> QED BY <1>1 DEF PromiseTruth, Delivered, SentTruth, ReceivedTruth, PendingTruth, SignalTruth, Given, Served

Inductive ==
  /\ TypeOK
  /\ NobodyWaitsInVain
  /\ Delivered /\ SentTruth /\ ReceivedTruth /\ PendingTruth /\ SignalTruth
  /\ Distinct(senders) /\ Distinct(receivers)

\* The invariant holds at first, and every operation keeps it.
LEMMA InitInductive == Init => Inductive
<1> SUFFICES ASSUME Init PROVE Inductive OBVIOUS
<1> USE ChannelAssumption DEF Init
<1>1. TypeOK
  <2>1. \A S : <<>> \in Seq(S) OBVIOUS
  <2>2. Len(<<>>) <= Capacity OBVIOUS
  <2>3. promise \in [Ops -> {"none", "pending", "sent", "received", "done", "closed", "aborted"}] OBVIOUS
  <2> QED BY <2>1, <2>2, <2>3 DEF TypeOK
<1>2. NobodyWaitsInVain BY DEF NobodyWaitsInVain
<1>3. Delivered BY DEF Delivered, Given
<1>4. SentTruth /\ ReceivedTruth /\ PendingTruth /\ SignalTruth
  BY Place DEF SentTruth, ReceivedTruth, PendingTruth, SignalTruth, Served, Ops
<1>5. Distinct(senders) /\ Distinct(receivers) BY DEF Distinct
<1> QED BY <1>1, <1>2, <1>3, <1>4, <1>5 DEF Inductive

\* An operation that is refused at once changes nothing but its promise.
LEMMA Turned ==
  ASSUME Inductive, NEW y \in Ops, promise[y] = "none", NEW o \in {"closed", "aborted", "done"},
         promise' = With(y, o), UNCHANGED <<queues, history, isClosed, aborted>>
  PROVE  Inductive'
<1>0. /\ TypeOK /\ NobodyWaitsInVain /\ Delivered /\ SentTruth /\ ReceivedTruth /\ PendingTruth /\ SignalTruth
      /\ Distinct(senders) /\ Distinct(receivers)
  BY DEF Inductive
<1>1. TypeOK' BY <1>0 DEF TypeOK, queues, history, With
<1>2. (NobodyWaitsInVain /\ Delivered /\ Distinct(senders) /\ Distinct(receivers))'
  BY <1>0 DEF NobodyWaitsInVain, Delivered, queues, history
<1>3. (SentTruth /\ ReceivedTruth /\ PendingTruth /\ SignalTruth)'
  BY <1>0 DEF SentTruth, ReceivedTruth, PendingTruth, SignalTruth, queues, history, With, TypeOK, Ops
<1> QED BY <1>1, <1>2, <1>3 DEF Inductive

\* A send keeps the invariant: it is refused, queued, or goes through one round of the pump.
LEMMA SendStep ==
  ASSUME Inductive, NEW v \in Sends, Send(v) PROVE Inductive'
<1> USE ChannelAssumption
<1>0. /\ TypeOK /\ NobodyWaitsInVain /\ Delivered /\ SentTruth /\ ReceivedTruth /\ PendingTruth /\ SignalTruth
      /\ Distinct(senders) /\ Distinct(receivers)
  BY DEF Inductive
<1>1. /\ buffer \in Seq(Sends) /\ Len(buffer) <= Capacity /\ senders \in Seq(Sends) /\ receivers \in Seq(Receives)
      /\ accepted \in Seq(Sends) /\ handed \in Seq(Receives \X Sends) /\ isClosed \in BOOLEAN
      /\ v \in Ops /\ v \notin Receives
  BY <1>0 DEF TypeOK, Ops
<1>2. promise[v] = "none" /\ UNCHANGED <<isClosed, aborted>> BY DEF Send
<1>3. v \notin ToSet(senders) BY <1>0, <1>1, <1>2 DEF PendingTruth
<1>4. CASE isClosed \/ SignalOf[v] \in aborted
  <2>1. promise' = With(v, IF isClosed THEN "closed" ELSE "aborted") /\ UNCHANGED <<queues, history>>
    BY <1>4 DEF Send
  <2>2. PICK o \in {"closed", "aborted"} : promise' = With(v, o) BY <2>1
  <2> QED BY <1>1, <1>2, <2>1, <2>2, Turned
<1>5. CASE ~(isClosed \/ SignalOf[v] \in aborted)
  <2>1. Pump(Append(senders, v), receivers, isClosed, With(v, "pending")) BY <1>5 DEF Send
  <2>2. CASE receivers # <<>>
    <3>1. /\ buffer = <<>> /\ buffer' = <<>> /\ senders = <<>> /\ senders' = <<>> 
          /\ receivers' = Tail(receivers)
          /\ handed' = Append(handed, <<Head(receivers), v>>)
          /\ accepted' = Append(accepted, v)
          /\ promise' = [x \in Ops |-> IF x = v THEN "sent" ELSE
                                      IF x = Head(receivers) THEN "received" ELSE promise[x]]
      BY <1>0, <2>1, <2>2, SendTaken
    <3>2. Head(receivers) \in Receives /\ Tail(receivers) \in Seq(Receives) BY <1>1, <2>2
    <3>3. TypeOK' BY <1>0, <1>1, <1>2, <3>1, <3>2 DEF TypeOK
    <3>4. NobodyWaitsInVain' BY <1>0, <1>2, <2>2, <3>1 DEF NobodyWaitsInVain
    <3>5. Delivered'
      <4>1. Given(handed') = Append(Given(handed), v) /\ Given(handed) \in Seq(Sends)
        BY <1>1, <3>1, <3>2, HandedOver, GivenType
      <4>2. accepted = Given(handed) BY <1>0, <3>1, <4>1 DEF Delivered
      <4>3. accepted' = Given(handed') BY <3>1, <4>1, <4>2, Zenon
      <4>4. accepted' \in Seq(Sends) BY <1>1, <3>1
      <4> QED BY <3>1, <4>3, <4>4, ConcatEmptySeq DEF Delivered
    <3>6. SentTruth' 
      <4>1. ToSet(accepted') = ToSet(accepted) \cup {v} BY <1>1, <3>1, Places
      <4> QED BY <1>0, <1>1, <3>1, <3>2, <4>1 DEF SentTruth, Ops
    <3>7. ReceivedTruth'
      <4>1. Served(handed') = Served(handed) \cup {Head(receivers)} BY <1>1, <3>1, <3>2, HandedOver
      <4> QED BY <1>0, <1>1, <3>1, <3>2, <4>1 DEF ReceivedTruth, Ops
    <3>8. PendingTruth' 
      <4>1. Head(receivers) \notin ToSet(receivers') /\ ToSet(receivers) = ToSet(receivers') \cup {Head(receivers)}
        BY <1>0, <1>1, <2>2, <3>1, <3>2, DistinctQueues, Places
      <4> QED BY <1>0, <1>1, <1>2, <3>1, <3>2, <4>1, Place DEF PendingTruth, Ops
    <3>9. SignalTruth' BY <1>0, <1>1, <1>2, <3>1 DEF SignalTruth, Ops
    <3>10. (Distinct(senders) /\ Distinct(receivers))' BY <1>0, <1>1, <2>2, <3>1, DistinctQueues
    <3> QED BY <3>3, <3>4, <3>5, <3>6, <3>7, <3>8, <3>9, <3>10 DEF Inductive
  <2>3. CASE receivers = <<>> /\ Len(buffer) < Capacity
    <3>1. /\ senders = <<>> /\ senders' = <<>> /\ receivers' = <<>>
          /\ buffer' = Append(buffer, v)
          /\ handed' = handed
          /\ accepted' = Append(accepted, v)
          /\ promise' = [x \in Ops |-> IF x = v THEN "sent" ELSE promise[x]]
      BY <1>0, <1>5, <2>1, <2>3, SendBuffered
    <3>3. TypeOK' BY <1>0, <1>1, <1>2, <2>3, <3>1 DEF TypeOK
    <3>4. NobodyWaitsInVain' BY <3>1 DEF NobodyWaitsInVain
    <3>5. Delivered'
      <4>1. Given(handed) \in Seq(Sends)
        BY <1>1, GivenType
      <4>2. accepted' = Append(Given(handed) \o buffer, v) BY <1>0, <3>1 DEF Delivered
      <4>3. buffer \in Seq(Sends) /\ v \in Sends BY <1>1
      <4>4. accepted' = Given(handed) \o Append(buffer, v) BY <4>1, <4>2, <4>3, AppendMoves, ZenonT(30)
      <4> QED BY <3>1, <4>4 DEF Delivered
    <3>6. SentTruth' 
      <4>1. ToSet(accepted') = ToSet(accepted) \cup {v} BY <1>1, <3>1, Places
      <4> QED BY <1>0, <1>1, <3>1, <4>1 DEF SentTruth, Ops
    <3>7. ReceivedTruth' BY <1>0, <1>1, <3>1 DEF ReceivedTruth, Ops
    <3>8. PendingTruth' BY <1>0, <1>1, <1>2, <2>3, <3>1, Place DEF PendingTruth, Ops
    <3>9. SignalTruth' BY <1>0, <1>1, <1>2, <3>1 DEF SignalTruth, Ops
    <3>10. (Distinct(senders) /\ Distinct(receivers))' BY <3>1 DEF Distinct
    <3> QED BY <3>3, <3>4, <3>5, <3>6, <3>7, <3>8, <3>9, <3>10 DEF Inductive
  <2>4. CASE receivers = <<>> /\ Len(buffer) = Capacity
    <3>1. /\ senders' = Append(senders, v)
          /\ UNCHANGED <<buffer, receivers, history>>
          /\ promise' = With(v, "pending")
      BY <1>0, <1>5, <2>1, <2>4, SendWaits
    <3>3. TypeOK' BY <1>0, <1>1, <1>2, <3>1 DEF TypeOK, With, history
    <3>4. NobodyWaitsInVain' BY <1>2, <1>5, <2>4, <3>1 DEF NobodyWaitsInVain
    <3>5. Delivered' BY <1>0, <3>1 DEF Delivered, history
    <3>6. SentTruth' BY <1>0, <1>1, <1>2, <3>1 DEF SentTruth, Ops, With, TypeOK, history
    <3>7. ReceivedTruth' BY <1>0, <1>1, <3>1 DEF ReceivedTruth, Ops, With, TypeOK, history
    <3>8. PendingTruth'
      <4>1. ToSet(senders') = ToSet(senders) \cup {v} BY <1>1, <3>1, Places
      <4> QED BY <1>0, <1>1, <3>1, <4>1 DEF PendingTruth, Ops, With, TypeOK
    <3>9. SignalTruth' BY <1>0, <1>1, <1>2, <1>5, <3>1 DEF SignalTruth, Ops, With, TypeOK
    <3>10. (Distinct(senders) /\ Distinct(receivers))' BY <1>0, <1>1, <1>3, <3>1, DistinctQueues
    <3> QED BY <3>3, <3>4, <3>5, <3>6, <3>7, <3>8, <3>9, <3>10 DEF Inductive
  <2>5. Len(buffer) < Capacity \/ Len(buffer) = Capacity BY <1>1
  <2> QED BY <2>2, <2>3, <2>4, <2>5
<1> QED BY <1>4, <1>5

\* A receive keeps the invariant, in the same three ways.
LEMMA ReceiveStep ==
  ASSUME Inductive, NEW r \in Receives, Receive(r) PROVE Inductive'
<1> USE ChannelAssumption
<1>0. /\ TypeOK /\ NobodyWaitsInVain /\ Delivered /\ SentTruth /\ ReceivedTruth /\ PendingTruth /\ SignalTruth
      /\ Distinct(senders) /\ Distinct(receivers)
  BY DEF Inductive
<1>1. /\ buffer \in Seq(Sends) /\ Len(buffer) <= Capacity /\ senders \in Seq(Sends) /\ receivers \in Seq(Receives)
      /\ accepted \in Seq(Sends) /\ handed \in Seq(Receives \X Sends) /\ isClosed \in BOOLEAN
      /\ r \in Ops /\ r \notin Sends
  BY <1>0 DEF TypeOK, Ops
<1>2. promise[r] = "none" /\ UNCHANGED <<isClosed, aborted>> BY DEF Receive
<1>3. r \notin ToSet(receivers) BY <1>0, <1>1, <1>2 DEF PendingTruth
<1>t. ToSet(senders) \subseteq Sends /\ ToSet(receivers) \subseteq Receives /\ ToSet(accepted) \subseteq Sends
  BY <1>1 DEF ToSet
<1>4. CASE SignalOf[r] \in aborted
  <2>1. promise' = With(r, "aborted") /\ UNCHANGED <<queues, history>>
    BY <1>4 DEF Receive
  <2> QED BY <1>1, <1>2, <2>1, Turned
<1>5. CASE SignalOf[r] \notin aborted
  <2>1. Pump(senders, Append(receivers, r), isClosed, With(r, "pending")) BY <1>5 DEF Receive
  <2>2. CASE buffer = <<>> /\ ~isClosed
    <3>1. /\ senders = <<>>
          /\ receivers' = Append(receivers, r)
          /\ UNCHANGED <<buffer, senders, history>>
          /\ promise' = With(r, "pending")
      BY <1>0, <2>1, <2>2, ReceiveWaits
    <3>3. TypeOK' BY <1>0, <1>1, <1>2, <3>1 DEF TypeOK, With, history
    <3>4. NobodyWaitsInVain' BY <1>2, <2>2, <3>1 DEF NobodyWaitsInVain
    <3>5. Delivered' BY <1>0, <3>1 DEF Delivered, history
    <3>6. SentTruth' BY <1>0, <1>1, <1>2, <3>1 DEF SentTruth, Ops, With, TypeOK, history
    <3>7. ReceivedTruth' BY <1>0, <1>1, <1>2, <3>1 DEF ReceivedTruth, Ops, With, TypeOK, history
    <3>8. PendingTruth'
      <4>1. ToSet(receivers') = ToSet(receivers) \cup {r} BY <1>1, <3>1, Places
      <4> QED BY <1>0, <1>1, <3>1, <4>1 DEF PendingTruth, Ops, With, TypeOK
    <3>9. SignalTruth' BY <1>0, <1>1, <1>2, <1>5, <3>1 DEF SignalTruth, Ops, With, TypeOK
    <3>10. (Distinct(senders) /\ Distinct(receivers))' BY <1>0, <1>1, <1>3, <3>1, DistinctQueues
    <3> QED BY <3>3, <3>4, <3>5, <3>6, <3>7, <3>8, <3>9, <3>10 DEF Inductive
  <2>3. CASE buffer = <<>> /\ isClosed
    <3>1. UNCHANGED <<queues, history>> /\ promise' = With(r, "done")
      BY <1>0, <2>1, <2>3, ReceiveDone
    <3> QED BY <1>1, <1>2, <3>1, Turned
  <2>4. CASE buffer # <<>> /\ senders = <<>>
    <3>1. /\ UNCHANGED <<senders, receivers, accepted>> /\ receivers = <<>>
          /\ buffer' = Tail(buffer)
          /\ handed' = Append(handed, <<r, Head(buffer)>>)
          /\ promise' = With(r, "received")
      BY <1>0, <2>1, <2>4, ReceiveTakes
    <3>2. Head(buffer) \in Sends /\ Tail(buffer) \in Seq(Sends) /\ Len(Tail(buffer)) <= Len(buffer)
      BY <1>1, <2>4
    <3>3. TypeOK' BY <1>0, <1>1, <1>2, <3>1, <3>2 DEF TypeOK, With
    <3>4. NobodyWaitsInVain' BY <2>4, <3>1 DEF NobodyWaitsInVain
    <3>5. Delivered'
      <4>1. Given(handed') = Append(Given(handed), Head(buffer)) BY <1>1, <3>1, <3>2, HandedOver
      <4>2. Given(handed) \o buffer = Append(Given(handed), Head(buffer)) \o Tail(buffer)
        BY <1>1, <2>4, GivenType, HeadMoves
      <4> QED BY <1>0, <3>1, <4>1, <4>2, Zenon DEF Delivered
    <3>6. SentTruth' BY <1>0, <1>1, <1>2, <3>1 DEF SentTruth, Ops, With, TypeOK
    <3>7. ReceivedTruth'
      <4>1. Served(handed') = Served(handed) \cup {r} BY <1>1, <3>1, <3>2, HandedOver
      <4> QED BY <1>0, <1>1, <3>1, <4>1 DEF ReceivedTruth, Ops, With, TypeOK
    <3>8. PendingTruth' BY <1>0, <1>1, <1>2, <2>4, <3>1, Place DEF PendingTruth, Ops, With, TypeOK
    <3>9. SignalTruth' BY <1>0, <1>1, <1>2, <3>1 DEF SignalTruth, Ops, With, TypeOK
    <3>10. (Distinct(senders) /\ Distinct(receivers))' BY <1>0, <3>1
    <3> QED BY <3>3, <3>4, <3>5, <3>6, <3>7, <3>8, <3>9, <3>10 DEF Inductive
  <2>5. CASE senders # <<>>
    <3>1. /\ receivers = <<>> /\ receivers' = <<>> /\ Len(buffer) = Capacity /\ buffer # <<>> /\ ~isClosed
          /\ buffer' = Append(Tail(buffer), Head(senders))
          /\ senders' = Tail(senders)
          /\ handed' = Append(handed, <<r, Head(buffer)>>)
          /\ accepted' = Append(accepted, Head(senders))
          /\ promise' = [x \in Ops |-> IF x = Head(senders) THEN "sent" ELSE
                                       IF x = r THEN "received" ELSE promise[x]]
      BY <1>0, <2>1, <2>5, ReceiveFills
    <3>2. /\ Head(buffer) \in Sends /\ Tail(buffer) \in Seq(Sends) /\ Len(Tail(buffer)) = Capacity - 1
          /\ Head(senders) \in Sends /\ Tail(senders) \in Seq(Sends)
      BY <1>1, <2>5, <3>1
    <3>b. buffer' \in Seq(Sends) /\ Len(buffer') = Capacity
      BY <3>1, <3>2
    <3>3. TypeOK' BY <1>0, <1>1, <1>2, <3>1, <3>2, <3>b DEF TypeOK
    <3>4. NobodyWaitsInVain' BY <1>2, <3>1, <3>b DEF NobodyWaitsInVain
    <3>5. Delivered'
      <4>0. handed' \in Seq(Receives \X Sends) BY <3>3 DEF TypeOK
      <4>1. Given(handed') = Append(Given(handed), Head(buffer)) /\ Given(handed') \in Seq(Sends)
        BY <1>1, <3>1, <3>2, <4>0, HandedOver, GivenType
      <4>2. Given(handed) \o buffer = Append(Given(handed), Head(buffer)) \o Tail(buffer)
        BY <1>1, <3>1, GivenType, HeadMoves
      <4>3. accepted = Given(handed') \o Tail(buffer)
        BY <1>0, <4>1, <4>2, Zenon DEF Delivered
      <4>4. accepted' = Append(Given(handed') \o Tail(buffer), Head(senders)) BY <3>1, <4>3
      <4>5. Given(handed') \in Seq(Sends) BY <4>1
      <4>6. accepted' = Given(handed') \o Append(Tail(buffer), Head(senders))
        <5>1. PICK g, t, e : g = Given(handed') /\ t = Tail(buffer) /\ e = Head(senders) OBVIOUS
        <5>2. g \in Seq(Sends) /\ t \in Seq(Sends) /\ e \in Sends BY <3>2, <4>5, <5>1
        <5>3. accepted' = Append(g \o t, e) BY <4>4, <5>1
        <5>4. accepted' = g \o Append(t, e) BY ONLY <5>2, <5>3, AppendMoves
        <5> QED BY <5>1, <5>4
      <4> QED BY <3>1, <4>6 DEF Delivered
    <3>6. SentTruth'
      <4>1. ToSet(accepted') = ToSet(accepted) \cup {Head(senders)} BY <1>1, <3>1, <3>2, Places
      <4> QED BY <1>0, <1>1, <3>1, <4>1 DEF SentTruth, Ops
    <3>7. ReceivedTruth'
      <4>1. Served(handed') = Served(handed) \cup {r} BY <1>1, <3>1, <3>2, HandedOver
      <4> QED BY <1>0, <1>1, <3>1, <3>2, <4>1 DEF ReceivedTruth, Ops
    <3>8. PendingTruth'
      <4>1. Head(senders) \notin ToSet(senders') /\ ToSet(senders) = ToSet(senders') \cup {Head(senders)}
        BY <1>0, <1>1, <2>5, <3>1, <3>2, DistinctQueues, Places
      <4> QED BY <1>0, <1>1, <1>2, <1>3, <1>t, <3>1, <3>2, <4>1, Place DEF PendingTruth, Ops
    <3>9. SignalTruth' BY <1>0, <1>1, <1>2, <3>1 DEF SignalTruth, Ops
    <3>10. (Distinct(senders) /\ Distinct(receivers))' BY <1>0, <1>1, <2>5, <3>1, DistinctQueues DEF Distinct
    <3> QED BY <3>3, <3>4, <3>5, <3>6, <3>7, <3>8, <3>9, <3>10 DEF Inductive
  <2> QED BY <2>2, <2>3, <2>4, <2>5
<1> QED BY <1>4, <1>5

\* Closing keeps it: the pump has nothing to do, and every waiter is told.
LEMMA CloseStep ==
  ASSUME Inductive, Close PROVE Inductive'
<1> USE ChannelAssumption
<1>0. /\ TypeOK /\ NobodyWaitsInVain /\ Delivered /\ SentTruth /\ ReceivedTruth /\ PendingTruth /\ SignalTruth
  BY DEF Inductive
<1>1. /\ senders \in Seq(Sends) /\ receivers \in Seq(Receives)
      /\ ToSet(senders) \subseteq Sends /\ ToSet(receivers) \subseteq Receives
  BY <1>0 DEF TypeOK, ToSet
<1>2. ~isClosed /\ isClosed' = TRUE /\ aborted' = aborted BY DEF Close
<1>3. /\ UNCHANGED <<buffer, history>>
      /\ senders' = <<>> /\ receivers' = <<>>
      /\ promise' = [x \in Ops |-> IF x \in ToSet(receivers) THEN "done" ELSE
                                   IF x \in ToSet(senders) THEN "closed" ELSE promise[x]]
  BY <1>0, Closing DEF Close
<1>4. TypeOK' BY <1>0, <1>2, <1>3 DEF TypeOK, history
<1>5. NobodyWaitsInVain' BY <1>3 DEF NobodyWaitsInVain
<1>6. Delivered' BY <1>0, <1>3 DEF Delivered, history
<1>7. SentTruth' /\ ReceivedTruth'
  BY <1>0, <1>1, <1>3 DEF SentTruth, ReceivedTruth, PendingTruth, history, Ops
<1>8. PendingTruth' /\ SignalTruth'
  BY <1>0, <1>1, <1>2, <1>3, Place DEF PendingTruth, SignalTruth
<1>9. Distinct(senders') /\ Distinct(receivers') BY <1>3 DEF Distinct
<1> QED BY <1>4, <1>5, <1>6, <1>7, <1>8, <1>9 DEF Inductive

\* After an abort the queue holds those without the signal, in their old order.
LEMMA LeaversGone ==
  ASSUME NEW S, NEW q \in Seq(S), Distinct(q), NEW sig
  PROVE  /\ LeaveQueue(q, sig) \in Seq(S) /\ Distinct(LeaveQueue(q, sig))
         /\ ToSet(LeaveQueue(q, sig)) = {x \in ToSet(q) : SignalOf[x] # sig}
         /\ q = <<>> => LeaveQueue(q, sig) = <<>>
<1> DEFINE l == LeaveQueue(q, sig)
<1>1. l \in Seq(S) BY Leaves
<1>2. PICK p : Kept(l, q, sig, Len(q), p) BY Leaves
<1> HIDE DEF l
<1>3. Len(q) \in Nat /\ Len(l) \in Nat /\ DOMAIN q = 1..Len(q) /\ DOMAIN l = 1..Len(l) BY <1>1
<1>4. Distinct(l)
  <2> SUFFICES ASSUME NEW i \in 1..Len(l), NEW j \in 1..Len(l), l[i] = l[j] PROVE i = j
    BY DEF Distinct
  <2>1. p[i] \in 1..Len(q) /\ p[j] \in 1..Len(q) /\ q[p[i]] = q[p[j]] BY <1>2 DEF Kept
  <2>2. p[i] = p[j] BY <2>1 DEF Distinct
  <2>3. i \in Nat /\ j \in Nat /\ p[i] \in Nat BY <1>3, <2>1
  <2>4. ~(i < j) /\ ~(j < i) BY <1>2, <2>1, <2>2, <2>3 DEF Kept
  <2> QED BY <2>3, <2>4
<1>5. ToSet(l) = {x \in ToSet(q) : SignalOf[x] # sig}
  <2>1. ASSUME NEW x \in ToSet(l) PROVE x \in ToSet(q) /\ SignalOf[x] # sig
    <3>1. PICK i \in 1..Len(l) : l[i] = x BY <1>3, <2>1 DEF ToSet
    <3>2. p[i] \in 1..Len(q) /\ x = q[p[i]] /\ SignalOf[x] # sig BY <1>2, <3>1 DEF Kept
    <3> QED BY <1>3, <3>2 DEF ToSet
  <2>2. ASSUME NEW x \in ToSet(q), SignalOf[x] # sig PROVE x \in ToSet(l)
    <3>1. PICK k \in 1..Len(q) : q[k] = x BY <1>3, <2>2 DEF ToSet
    <3>2. PICK i \in 1..Len(l) : p[i] = k BY <1>2, <2>2, <3>1 DEF Kept
    <3>3. l[i] = x BY <1>2, <3>1, <3>2 DEF Kept
    <3> QED BY <1>3, <3>3 DEF ToSet
  <2> QED BY <2>1, <2>2
<1>6. ASSUME q = <<>> PROVE l = <<>>
  <2>1. Len(q) = 0 BY <1>6
  <2>2. ASSUME Len(l) # 0 PROVE FALSE
    <3>1. 1 \in 1..Len(l) BY <1>3, <2>2
    <3> QED BY <1>2, <2>1, <3>1 DEF Kept
  <2> QED BY <1>1, <2>2
<1> QED BY <1>1, <1>4, <1>5, <1>6 DEF l

\* An abort keeps it: one waiter leaves each queue, and its promise settles.
LEMMA AbortStep ==
  ASSUME Inductive, NEW sig \in Signals, Abort(sig) PROVE Inductive'
<1> USE ChannelAssumption
<1>0. /\ TypeOK /\ NobodyWaitsInVain /\ Delivered /\ SentTruth /\ ReceivedTruth /\ PendingTruth /\ SignalTruth
      /\ Distinct(senders) /\ Distinct(receivers)
  BY DEF Inductive
<1>1. senders \in Seq(Sends) /\ receivers \in Seq(Receives) /\ ToSet(senders \o receivers) = ToSet(senders) \cup ToSet(receivers)
  BY <1>0, Joined DEF TypeOK
<1>2. /\ senders' \in Seq(Sends) /\ Distinct(senders')
      /\ ToSet(senders') = {x \in ToSet(senders) : SignalOf[x] # sig}
      /\ senders = <<>> => senders' = <<>>
  BY <1>0, <1>1, LeaversGone DEF Abort
<1>3. /\ receivers' \in Seq(Receives) /\ Distinct(receivers')
      /\ ToSet(receivers') = {x \in ToSet(receivers) : SignalOf[x] # sig}
      /\ receivers = <<>> => receivers' = <<>>
  BY <1>0, <1>1, LeaversGone DEF Abort
<1>4. promise' = [x \in Ops |-> IF x \in ToSet(senders) \cup ToSet(receivers) /\ SignalOf[x] = sig
                                THEN "aborted" ELSE promise[x]]
  BY <1>1 DEF Abort
<1>5. UNCHANGED <<buffer, isClosed, history>> /\ aborted' = aborted \cup {sig} BY DEF Abort
<1>6. TypeOK' BY <1>0, <1>2, <1>3, <1>4, <1>5 DEF TypeOK, history
<1>7. NobodyWaitsInVain' BY <1>0, <1>2, <1>3, <1>5 DEF NobodyWaitsInVain
<1>8. Delivered' BY <1>0, <1>5 DEF Delivered, history
<1>9. SentTruth' /\ ReceivedTruth'
  BY <1>0, <1>4, <1>5 DEF SentTruth, ReceivedTruth, PendingTruth, history, Ops
<1>10. PendingTruth' BY <1>0, <1>2, <1>3, <1>4 DEF PendingTruth
<1>11. SignalTruth' BY <1>0, <1>4, <1>5 DEF SignalTruth, PendingTruth
<1> QED BY <1>2, <1>3, <1>6, <1>7, <1>8, <1>9, <1>10, <1>11 DEF Inductive

\* The invariant of the channel.
THEOREM ChannelInductive == Spec => []Inductive
<1>1. Init => Inductive BY InitInductive
<1>2. Inductive /\ [Next]_vars => Inductive'
  <2> SUFFICES ASSUME Inductive, [Next]_vars PROVE Inductive' OBVIOUS
  <2>1. ASSUME NEW v \in Sends, Send(v) PROVE Inductive' BY <2>1, SendStep
  <2>2. ASSUME NEW r \in Receives, Receive(r) PROVE Inductive' BY <2>2, ReceiveStep
  <2>3. ASSUME NEW sig \in Signals, Abort(sig) PROVE Inductive' BY <2>3, AbortStep
  <2>4. CASE Close BY <2>4, CloseStep
  <2>5. CASE UNCHANGED vars
    BY <2>5 DEF vars, queues, history, Inductive, TypeOK, NobodyWaitsInVain, Delivered, SentTruth, ReceivedTruth,
                PendingTruth, SignalTruth
  <2> QED BY <2>1, <2>2, <2>3, <2>4, <2>5 DEF Next
<1> QED BY <1>1, <1>2, PTL DEF Spec

\* The variables keep their types, the buffer its capacity (TypeOK).
THEOREM ChannelTypes == Spec => []TypeOK
<1>1. Inductive => TypeOK BY DEF Inductive
<1> QED BY <1>1, ChannelInductive, PTL

\* For any number of operations nobody waits without need: pump() leaves no sender
\* beside room or a receiver, and no receiver beside a value or a closed channel.
THEOREM ChannelQueues == Spec => []NobodyWaitsInVain
<1>1. Inductive => NobodyWaitsInVain BY DEF Inductive
<1> QED BY <1>1, ChannelInductive, PTL

\* For any number of operations, aborts and capacities every promise tells the
\* truth, and what was accepted is delivered once and in order.
THEOREM ChannelPromises == Spec => []PromiseTruth
<1>1. Inductive => PromiseTruth BY Parted DEF Inductive, TypeOK
<1> QED BY <1>1, ChannelInductive, PTL
----------------------------------------------------------------------------
\* The refinement of Line.

\* A send joins the line or is turned away at once.
LEMMA SendRefines ==
  ASSUME Inductive, NEW v \in Sends, Send(v)
  PROVE  Promised!Arrive(v) \/ UNCHANGED Promised!lineVars
<1>0. TypeOK /\ NobodyWaitsInVain
  BY DEF Inductive
<1>1. buffer \in Seq(Sends) /\ Len(buffer) <= Capacity /\ senders \in Seq(Sends) /\ Capacity \in Nat
  BY <1>0, ChannelAssumption DEF TypeOK
<1>2. isClosed' = isClosed BY DEF Send
<1>3. CASE isClosed \/ SignalOf[v] \in aborted
  BY <1>2, <1>3 DEF Send, queues, history, Promised!lineVars
<1>4. CASE ~(isClosed \/ SignalOf[v] \in aborted)
  <2>1. Pump(Append(senders, v), receivers, isClosed, With(v, "pending")) BY <1>4 DEF Send
  <2>2. CASE receivers # <<>>
    <3>1. /\ buffer' \o senders' = buffer \o senders /\ receivers' = Tail(receivers)
          /\ handed' = Append(handed, <<Head(receivers), v>>)
      BY <1>0, <2>1, <2>2, SendTaken
    <3> QED BY <1>2, <1>4, <2>2, <3>1 DEF Promised!Arrive
  <2>3. CASE receivers = <<>> /\ Len(buffer) < Capacity
    <3>1. /\ buffer' = Append(buffer, v) /\ senders = <<>> /\ senders' = <<>> /\ receivers' = receivers
          /\ handed' = handed
      BY <1>0, <1>4, <2>1, <2>3, SendBuffered
    <3>2. buffer' \o senders' = Append(buffer \o senders, v)
      BY <1>1, <3>1
    <3> QED BY <1>2, <1>4, <2>3, <3>1, <3>2 DEF Promised!Arrive
  <2>4. CASE receivers = <<>> /\ Len(buffer) = Capacity
    <3>1. /\ buffer' = buffer /\ senders' = Append(senders, v) /\ receivers' = receivers /\ handed' = handed
      BY <1>0, <1>4, <2>1, <2>4, SendWaits DEF history
    <3>2. PICK line : line = Append(buffer \o senders, v) OBVIOUS
    <3>3. line = buffer \o Append(senders, v)
      BY ONLY <1>1, <3>2, v \in Sends, AppendMoves
    <3>4. buffer' \o senders' = Append(buffer \o senders, v)
      BY <3>1, <3>2, <3>3
    <3> QED BY <1>2, <1>4, <2>4, <3>1, <3>4 DEF Promised!Arrive
  <2> QED BY <1>1, <2>2, <2>3, <2>4
<1> QED BY <1>3, <1>4

\* A receive takes from the line, waits for it, or is answered at once.
LEMMA ReceiveRefines ==
  ASSUME Inductive, NEW r \in Receives, Receive(r)
  PROVE  Promised!Ask(r) \/ UNCHANGED Promised!lineVars
<1>0. TypeOK /\ NobodyWaitsInVain
  BY DEF Inductive
<1>1. buffer \in Seq(Sends) /\ senders \in Seq(Sends)
  BY <1>0 DEF TypeOK
<1>2. isClosed' = isClosed BY DEF Receive
<1>3. CASE SignalOf[r] \in aborted
  BY <1>2, <1>3 DEF Receive, queues, history, Promised!lineVars
<1>4. CASE SignalOf[r] \notin aborted
  <2>1. Pump(senders, Append(receivers, r), isClosed, With(r, "pending")) BY <1>4 DEF Receive
  <2>2. CASE buffer = <<>> /\ ~isClosed
    <3>1. /\ senders = <<>> /\ buffer' = buffer /\ senders' = senders /\ receivers' = Append(receivers, r)
          /\ handed' = handed
      BY <1>0, <2>1, <2>2, ReceiveWaits DEF history
    <3>2. buffer \o senders = <<>> BY <2>2, <3>1
    <3> QED BY <1>2, <2>2, <3>1, <3>2 DEF Promised!Ask
  <2>3. CASE buffer = <<>> /\ isClosed
    BY <1>0, <1>2, <2>1, <2>3, ReceiveDone DEF queues, history, Promised!lineVars
  <2>4. CASE buffer # <<>>
    <3>1. /\ receivers' = receivers /\ handed' = Append(handed, <<r, Head(buffer)>>)
          /\ buffer' \o senders' = Tail(buffer) \o senders
      <4>1. CASE senders = <<>>
        BY <1>0, <2>1, <2>4, <4>1, ReceiveTakes
      <4>2. CASE senders # <<>>
        <5>1. /\ receivers = <<>> /\ receivers' = <<>> /\ handed' = Append(handed, <<r, Head(buffer)>>)
              /\ buffer' = Append(Tail(buffer), Head(senders)) /\ senders' = Tail(senders)
          BY <1>0, <2>1, <4>2, ReceiveFills
        <5>2. Tail(buffer) \in Seq(Sends) BY <1>1, <2>4
        <5>3. Tail(buffer) \o senders = Append(Tail(buffer), Head(senders)) \o Tail(senders)
          BY <1>1, <4>2, <5>2, HeadMoves
        <5> QED BY <5>1, <5>3
      <4> QED BY <4>1, <4>2
    <3>2. /\ buffer \o senders # <<>> /\ Head(buffer \o senders) = Head(buffer)
          /\ Tail(buffer \o senders) = Tail(buffer) \o senders
      BY <1>1, <2>4, HeadOfJoined
    <3> QED BY <1>2, <3>1, <3>2 DEF Promised!Ask
  <2> QED BY <2>2, <2>3, <2>4
<1> QED BY <1>3, <1>4

\* Closing keeps the buffer, which is the first part of the line.
LEMMA CloseRefines ==
  ASSUME Inductive, Close PROVE Promised!Shut
<1>0. TypeOK /\ NobodyWaitsInVain
  BY DEF Inductive
<1>1. buffer \in Seq(Sends) /\ senders \in Seq(Sends) /\ Len(buffer) <= Capacity /\ Capacity \in Nat
  BY <1>0, ChannelAssumption DEF TypeOK
<1>2. /\ ~isClosed /\ isClosed' = TRUE /\ buffer' = buffer /\ senders' = <<>> /\ receivers' = <<>>
      /\ handed' = handed
  BY <1>0, Closing DEF Close, history
<1>3. senders = <<>> \/ Len(buffer) = Capacity
  BY <1>0 DEF NobodyWaitsInVain
<1> DEFINE line == buffer \o senders
           n == IF Len(line) < Capacity THEN Len(line) ELSE Capacity
<1>4. n = Len(buffer) /\ Len(line) = Len(buffer) + Len(senders) /\ Len(buffer) \in Nat /\ Len(senders) \in Nat
      /\ line \in Seq(Sends)
  BY <1>1, <1>3
<1>5. SubSeq(line, 1, Len(buffer)) = buffer
  <2>1. /\ \A i \in 1..Len(buffer) : line[i] = buffer[i] /\ line[i] \in Sends
    BY <1>1
  <2> HIDE DEF line
  <2>2. /\ SubSeq(line, 1, Len(buffer)) \in Seq(Sends) /\ Len(SubSeq(line, 1, Len(buffer))) = Len(buffer)
        /\ \A i \in 1..Len(buffer) : SubSeq(line, 1, Len(buffer))[i] = line[i]
    BY <1>4, <2>1
  <2> QED BY <1>1, <2>1, <2>2, SeqEqual
<1> HIDE DEF n
<1>6. SubSeq(line, 1, n) = buffer BY <1>4, <1>5
<1>7. buffer' \o senders' = buffer BY <1>1, <1>2
<1>8. SubSeq(line, 1, n) = buffer' \o senders' BY <1>6, <1>7
<1> QED BY <1>2, <1>8 DEF Promised!Shut, n

\* An abort thins out the waiting senders and receivers, never the buffer.
LEMMA AbortRefines ==
  ASSUME Inductive, NEW sig \in Signals, Abort(sig) PROVE Promised!GiveUp
<1>0. TypeOK /\ NobodyWaitsInVain /\ Distinct(senders) /\ Distinct(receivers)
  BY DEF Inductive
<1>1. buffer \in Seq(Sends) /\ senders \in Seq(Sends) /\ Capacity \in Nat /\ receivers \in Seq(Receives)
  BY <1>0, ChannelAssumption DEF TypeOK
<1>2. senders' = LeaveQueue(senders, sig) /\ receivers' = LeaveQueue(receivers, sig) 
      /\ UNCHANGED <<buffer, isClosed, handed>>
  BY DEF Abort, history
<1>3. senders' \in Seq(Sends) /\ receivers' \in Seq(Receives)
  BY <1>0, <1>1, <1>2, LeaversGone
<1>4. Promised!Thinned(receivers', receivers, 0)
  <2>1. PICK p : Kept(receivers', receivers, sig, Len(receivers), p) BY <1>1, <1>2, Leaves
  <2>2. p \in [1..Len(receivers') -> 1..Len(receivers)] BY <2>1 DEF Kept
  <2> QED BY <2>1, <2>2 DEF Promised!Thinned, Kept
<1> DEFINE line == buffer \o senders
           new == buffer \o senders'
<1>5. Promised!Thinned(new, line, Capacity)
  <2>1. PICK p : Kept(senders', senders, sig, Len(senders), p) BY <1>1, <1>2, Leaves
  <2> DEFINE b == Len(buffer)
             place == [i \in 1..Len(new) |-> IF i <= b THEN i ELSE b + p[i - b]]
  <2>2. /\ Len(new) = b + Len(senders') /\ Len(line) = b + Len(senders) /\ b \in Nat
        /\ Len(senders') \in Nat /\ Len(senders) \in Nat
        /\ \A i \in 1..Len(new) : new[i] = IF i <= b THEN buffer[i] ELSE senders'[i - b]
        /\ \A i \in 1..Len(line) : line[i] = IF i <= b THEN buffer[i] ELSE senders[i - b]
    BY <1>1, <1>3
  <2>3. senders = <<>> \/ b = Capacity
    BY <1>0 DEF NobodyWaitsInVain
  <2> HIDE DEF line, new, b
  <2>4. ASSUME NEW i \in 1..Len(new)
        PROVE  /\ i <= b => i \in 1..Len(line) /\ place[i] = i
               /\ ~(i <= b) => i - b \in 1..Len(senders') /\ p[i - b] \in 1..Len(senders)
                               /\ place[i] = b + p[i - b] /\ senders'[i - b] = senders[p[i - b]]
    <3>1. ~(i <= b) => i - b \in 1..Len(senders') BY <2>2
    <3> QED BY <2>1, <2>2, <3>1 DEF Kept
  <2>5. place \in [1..Len(new) -> 1..Len(line)]
    BY <2>2, <2>4
  <2> HIDE DEF place
  <2>6. ASSUME NEW i \in 1..Len(new), NEW j \in 1..Len(new), i < j PROVE place[i] < place[j]
    <3>1. i <= b /\ j <= b => place[i] < place[j] BY <2>4, <2>6
    <3>2. i <= b /\ ~(j <= b) => place[i] < place[j] BY <2>2, <2>4
    <3>3. ~(i <= b) /\ ~(j <= b) => p[i - b] < p[j - b]
      <4>1. i - b < j - b BY <2>2, <2>6
      <4> QED BY <2>1, <2>4, <4>1 DEF Kept
    <3>4. ~(i <= b) /\ ~(j <= b) => place[i] < place[j] BY <2>2, <2>4, <3>3
    <3> QED BY <2>2, <2>6, <3>1, <3>2, <3>4
  <2>7. ASSUME NEW i \in 1..Len(new) PROVE new[i] = line[place[i]]
    BY <2>2, <2>4, SMTT(30)
  <2>8. ASSUME NEW i \in 1..Len(line), i <= Capacity PROVE i \in 1..Len(new) /\ place[i] = i
    <3>1. i <= b BY <2>2, <2>3, <2>8
    <3> QED BY <2>2, <2>4, <3>1
  <2> QED BY <2>5, <2>6, <2>7, <2>8 DEF Promised!Thinned
<1>6. buffer' \o senders' = new /\ new \in Seq(Sends)
  BY <1>1, <1>2, <1>3
<1> QED BY <1>2, <1>3, <1>4, <1>5, <1>6 DEF Promised!GiveUp

\* Every operation is a step of the single line of Line or a stutter, so hand-offs,
\* aborts and close() keep first come first served on both sides.
THEOREM ChannelImplementsLine == Spec => ImplementsLine
<1>1. Init => Promised!Init
  BY DEF Init, Promised!Init
<1>2. Inductive /\ [Next]_vars => [Promised!Next]_Promised!lineVars
  <2> SUFFICES ASSUME Inductive, [Next]_vars PROVE [Promised!Next]_Promised!lineVars OBVIOUS
  <2>1. ASSUME NEW v \in Sends, Send(v) PROVE Promised!Next \/ UNCHANGED Promised!lineVars
    BY <2>1, SendRefines DEF Promised!Next
  <2>2. ASSUME NEW r \in Receives, Receive(r) PROVE Promised!Next \/ UNCHANGED Promised!lineVars
    BY <2>2, ReceiveRefines DEF Promised!Next
  <2>3. ASSUME NEW sig \in Signals, Abort(sig) PROVE Promised!Next
    BY <2>3, AbortRefines DEF Promised!Next
  <2>4. CASE Close BY <2>4, CloseRefines DEF Promised!Next
  <2>5. CASE UNCHANGED vars
    BY <2>5 DEF vars, queues, history, Promised!lineVars
  <2> QED BY <2>1, <2>2, <2>3, <2>4, <2>5 DEF Next
<1> QED BY <1>1, <1>2, ChannelInductive, PTL DEF Spec, ImplementsLine, Promised!Spec
=============================================================================

-------------------------------- MODULE Line --------------------------------
(***************************************************************************)
(* What a bounded channel promises: one line of values and one line of     *)
(* takers, first come first served on both sides.  The first Room places   *)
(* of the line are inside: a value there can no longer be withdrawn, and   *)
(* closing the entrance turns away only those outside.                     *)
(***************************************************************************)
EXTENDS Naturals, Sequences

CONSTANTS Values, Takers, Room

VARIABLES
  line,    \* the values not yet handed over, inside and outside
  takers,  \* those waiting for a value
  handed,  \* history: what was handed to whom, in order
  open     \* may values still join the line?

lineVars == <<line, takers, handed, open>>

Init == line = <<>> /\ takers = <<>> /\ handed = <<>> /\ open = TRUE

\* A value joins the end of the line or goes straight to the first taker.
Arrive(v) ==
  /\ open
  /\ IF takers = <<>>
       THEN line' = Append(line, v) /\ UNCHANGED <<takers, handed>>
       ELSE /\ handed' = Append(handed, <<Head(takers), v>>)
            /\ takers' = Tail(takers)
            /\ UNCHANGED line
  /\ UNCHANGED open

\* A taker gets the first value, waits for one, or learns there is none to come.
Ask(r) ==
  /\ IF line # <<>>
       THEN /\ handed' = Append(handed, <<r, Head(line)>>)
            /\ line' = Tail(line)
            /\ UNCHANGED takers
       ELSE /\ open
            /\ takers' = Append(takers, r)
            /\ UNCHANGED <<line, handed>>
  /\ UNCHANGED open

\* A queue is another without some of its places, none of which is among the first n.
Thinned(new, queue, n) ==
  \E place \in [1..Len(new) -> 1..Len(queue)] :
    /\ \A i, j \in 1..Len(new) : i < j => place[i] < place[j]
    /\ \A i \in 1..Len(new) : new[i] = queue[place[i]]
    /\ \A i \in 1..Len(queue) : i <= n => i \in 1..Len(new) /\ place[i] = i

\* Some of the values outside, or some of the takers, give up their turn.
GiveUp ==
  /\ line' \in Seq(Values) /\ Thinned(line', line, Room)
  /\ takers' \in Seq(Takers) /\ Thinned(takers', takers, 0)
  /\ UNCHANGED <<handed, open>>

\* The entrance closes: those outside leave, and the takers, who only wait when
\* the line is empty, get nothing.
Shut ==
  /\ open /\ open' = FALSE
  /\ line' = SubSeq(line, 1, IF Len(line) < Room THEN Len(line) ELSE Room)
  /\ takers' = <<>>
  /\ UNCHANGED handed

Next == (\E v \in Values : Arrive(v)) \/ (\E r \in Takers : Ask(r)) \/ GiveUp \/ Shut

Spec == Init /\ [][Next]_lineVars
=============================================================================

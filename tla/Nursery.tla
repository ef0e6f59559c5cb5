------------------------------ MODULE Nursery ------------------------------
(***************************************************************************)
(* What a tree of scopes promises, without saying how: members enter under *)
(* a guardian, and a guardian leaves only after every member it took       *)
(* charge of has left.  A member may also enter "late", under a guardian   *)
(* that is already leaving or gone: nobody waits for that one.             *)
(*                                                                         *)
(* Members are scopes and tasks; Scope shows which of them are late.       *)
(***************************************************************************)
CONSTANTS Members, Nobody

VARIABLES
  guardian,  \* who took charge of a member
  present,   \* the members inside
  gone,      \* the members that left
  late       \* the members nobody waits for

nurseryVars == <<guardian, present, gone, late>>

Init ==
  /\ guardian = [x \in Members |-> Nobody]
  /\ present = {} /\ gone = {} /\ late = {}

TakeCharge(x, g) ==
  /\ x \notin present \cup gone
  /\ guardian' = [guardian EXCEPT ![x] = g]
  /\ late' \in {late, late \cup {x}}
  /\ x \notin late' => g = Nobody \/ g \in present

Enter(x, g) ==
  /\ TakeCharge(x, g)
  /\ present' = present \cup {x}
  /\ UNCHANGED gone

\* A member that is done as soon as it entered.
PassThrough(x, g) ==
  /\ TakeCharge(x, g)
  /\ gone' = gone \cup {x}
  /\ UNCHANGED present

Leave(x) ==
  /\ x \in present
  /\ \A y \in present : guardian[y] = x => y \in late
  /\ present' = present \ {x}
  /\ gone' = gone \cup {x}
  /\ UNCHANGED <<guardian, late>>

Next ==
  \E x \in Members :
    \/ \E g \in Members \cup {Nobody} : Enter(x, g) \/ PassThrough(x, g)
    \/ Leave(x)

Spec == Init /\ [][Next]_nurseryVars
=============================================================================

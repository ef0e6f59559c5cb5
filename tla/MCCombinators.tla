--------------------------- MODULE MCCombinators ---------------------------
(* Instances of Combinators for TLC. *)
EXTENDS Combinators, TLC
CONSTANTS t1, t2, t3

ThreeTasks == <<t1, t2, t3>>
TwoTasks == <<t1, t2>>

NoKeys == [t \in Tasks |-> {NoOne}]

\* The second and the third task may register a cleanup.
SomeCleanups == [x \in Scopes \cup Tasks |-> IF x \in {t2, t3} THEN 1 ELSE 0]
NoCleanups == [x \in Scopes \cup Tasks |-> 0]
=============================================================================

------------------------------ MODULE MCStream ------------------------------
(* Instances of WorkStream for TLC. *)
EXTENDS WorkStream, TLC
CONSTANTS t1, t2, t3

ThreeItems == <<t1, t2, t3>>
NoKeys == [t \in Tasks |-> {NoOne}]

\* The second item may register a cleanup.
OneCleanup == [x \in Scopes \cup Tasks |-> IF x = t2 THEN 1 ELSE 0]
=============================================================================

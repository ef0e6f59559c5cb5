------------------------------ MODULE MCScope ------------------------------
(* Instances of Scope for TLC. *)
EXTENDS Scope, TLC
CONSTANTS t1, t2, k1

\* The first task has a key, the others may be spawned with it or without.
CompetingKeys == [t \in Tasks |-> IF t = t1 THEN {k1} ELSE {k1, NoOne}]

\* No task has a key.
NoKeys == [t \in Tasks |-> {NoOne}]

\* The root scope and the first task register a cleanup each.
FewCleanups == [x \in Scopes \cup Tasks |-> IF x \in Roots \cup {t1} THEN 1 ELSE 0]

\* Tasks register a cleanup each, scopes none.
TaskCleanups == [x \in Scopes \cup Tasks |-> IF x \in Tasks THEN 1 ELSE 0]
=============================================================================

----------------------------- MODULE MCChannel -----------------------------
(* An instance of Channel for TLC. *)
EXTENDS Channel, TLC
CONSTANTS v1, r1, a1

\* The first send and the first receive share a signal, the others have none.
OneSharedSignal == [x \in Ops |-> IF x \in {v1, r1} THEN a1 ELSE NoSignal]
=============================================================================

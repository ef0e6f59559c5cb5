------------------------------ MODULE MCLedger ------------------------------
(* Instances of Ledger for TLC. *)
EXTENDS Ledger, TLC
CONSTANTS i, j, x, y, p, q, a1, a2, a3, a4

\* Two ids, under the first of which different receipts are appended. The appends of
\* an id are made by two processes.
FourIds == (a1 :> i) @@ (a2 :> i) @@ (a3 :> j) @@ (a4 :> j)
FourReceipts == (a1 :> x) @@ (a2 :> y) @@ (a3 :> x) @@ (a4 :> x)
TwoProcesses == (a1 :> p) @@ (a2 :> q) @@ (a3 :> p) @@ (a4 :> q)

\* Two appends of different receipts by one process.
TwoIds == (a1 :> i) @@ (a2 :> i)
TwoReceipts == (a1 :> x) @@ (a2 :> y)
OneProcess == (a1 :> p) @@ (a2 :> p)
=============================================================================

----------------------------- MODULE MCActivity -----------------------------
(* An instance of Activity for TLC: three runs of one activity, the third with *)
(* another input, and a run of another activity.                              *)
EXTENDS Activity, TLC
CONSTANTS a, b, x, y, r1, r2, r3, r4

FourIds == (r1 :> a) @@ (r2 :> a) @@ (r3 :> a) @@ (r4 :> b)
FourInputs == (r1 :> x) @@ (r2 :> x) @@ (r3 :> y) @@ (r4 :> x)
=============================================================================

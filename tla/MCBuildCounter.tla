--------------------------- MODULE MCBuildCounter ---------------------------
(* Constants of BuildCounter for TLC. *)
EXTENDS BuildCounter, TLC
CONSTANTS r1, r2, r3, a1, a2, b1, c1
\* one run with two attempts, two with one
RunOfJob == a1 :> r1 @@ a2 :> r1 @@ b1 :> r2 @@ c1 :> r3
\* the attempts of the first run are alike, and so are the other two runs
SwapAttempts == a1 :> a2 @@ a2 :> a1
SwapRuns     == r2 :> r3 @@ r3 :> r2 @@ b1 :> c1 @@ c1 :> b1
RunSymmetry  == {SwapAttempts, SwapRuns, SwapAttempts @@ SwapRuns}
TwoRuns  == a1 :> r1 @@ b1 :> r2
============================================================================

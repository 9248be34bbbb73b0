--------------------------- MODULE MCSystemCalls ---------------------------
(* Process ids other than that of the first process are interchangeable.   *)
EXTENDS SystemCalls, TLC

MCSymmetry == Permutations(Process \ {Main})
=============================================================================

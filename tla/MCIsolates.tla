----------------------------- MODULE MCIsolates -----------------------------
(* Small instances of Isolates.                                              *)
EXTENDS Isolates, TLC
CONSTANTS t1, t2, isoA, isoB

\* One thread nests deeper than the other.
MCMaxFrames == t1 :> 4 @@ t2 :> 3

\* The two addresses `new` can return are alike.
MCSymmetry == Permutations({isoA, isoB})
=============================================================================

--------------------------- MODULE MCThreadManager ---------------------------
(* Small instances of ThreadManager.                                         *)
EXTENDS ThreadManagerInv, TLC
CONSTANTS t1, t2, base1, base2, custom1, custom2

MCBaseLimit == (t1 :> base1) @@ (t2 :> base2)
MCCustomLimit == (t1 :> custom1) @@ (t2 :> custom2)

\* Which ThreadState `new` returns makes no difference.
MCSymmetry == Permutations(ThreadState)
=============================================================================

--------------------------- MODULE MCGlobalHandles ---------------------------
(* A small instance of GlobalHandles.                                        *)
EXTENDS GlobalHandles, TLC

\* The pool hands out addresses in order, but nothing depends on the order.
MCSymmetry == Permutations(Node)
=============================================================================

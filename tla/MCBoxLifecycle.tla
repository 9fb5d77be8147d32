--------------------------- MODULE MCBoxLifecycle ---------------------------
(* BoxLifecycle on a small instance; threads are interchangeable, and so    *)
(* are the boxes of one kind.                                               *)
EXTENDS BoxLifecycle, TLC

Symmetry == Permutations(Thread) \cup Permutations(Proxy)
=============================================================================

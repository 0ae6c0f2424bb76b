---------------------------- MODULE MCThreadPool ----------------------------
(* Instances of ThreadPool for TLC.  The threads and tasks are model values. *)
EXTENDS ThreadPool, TLC

CONSTANTS w1, w2, s1, main, other, t1, t2, t3

Symmetry == Permutations({w1, w2}) \cup Permutations({t1, t2, t3})
=============================================================================

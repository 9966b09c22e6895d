----------------------------- MODULE MCThreadPool -----------------------------
(* Bounded instances of ThreadPool for TLC.  Dispatchers are                *)
(* interchangeable; slots are not, they are scanned in order.               *)
EXTENDS ThreadPool, TLC

Symmetry == Permutations(Dispatchers)
=============================================================================

---------------------------- MODULE MCEdoyunQueue ----------------------------
(* Bounded instances of EdoyunQueue for TLC, with what it implements.  The  *)
(* threads are interchangeable; the values of T are not, NoData being one   *)
(* of them.                                                                 *)
EXTENDS EdoyunQueueRefinement, TLC

Symmetry == Permutations(Threads)
=============================================================================

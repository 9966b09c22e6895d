------------------------------ MODULE MCDownload ------------------------------
(* Bounded instances of Download for TLC. *)
EXTENDS Download

(* What eight bytes may read as: no length, a negative one, one that a file *)
(* may have.                                                                *)
AnyLength == {0, -1, 3}
=============================================================================

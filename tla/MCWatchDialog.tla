----------------------------- MODULE MCWatchDialog -----------------------------
(* Bounded instances of WatchDialog for TLC. *)
EXTENDS WatchDialog, TLC

(* A point on the picture, and one beside it. *)
TwoPoints == {5, 9}
=============================================================================

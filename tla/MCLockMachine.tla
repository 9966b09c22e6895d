---------------------------- MODULE MCLockMachine ----------------------------
(* Bounded instances of LockMachine for TLC. *)
EXTENDS LockMachine, TLC
=============================================================================

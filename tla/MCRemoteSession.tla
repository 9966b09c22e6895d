---------------------------- MODULE MCRemoteSession ----------------------------
(* Bounded instances of RemoteSession for TLC. *)
EXTENDS RemoteSession, TLC
=============================================================================

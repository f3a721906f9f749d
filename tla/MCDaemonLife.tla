---------------------------- MODULE MCDaemonLife ----------------------------
(***************************************************************************)
(* Two front ends and the daemons they start.                              *)
(***************************************************************************)
EXTENDS DaemonLife
=============================================================================

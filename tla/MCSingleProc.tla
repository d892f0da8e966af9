---------------------------- MODULE MCSingleProc ----------------------------
(* Instances of SingleProc for TLC. *)
EXTENDS SingleProc
=============================================================================

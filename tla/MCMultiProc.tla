---------------------------- MODULE MCMultiProc ----------------------------
(* Instances of MultiProc for TLC. *)
EXTENDS MultiProc

Forward == {<<0, 1>>}
Nothing == {}
Second == {1}
=============================================================================

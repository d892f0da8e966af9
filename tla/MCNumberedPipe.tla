--------------------------- MODULE MCNumberedPipe ---------------------------
(* Instances of NumberedPipe for TLC. *)
EXTENDS NumberedPipe, TLC

\* The pipes are interchangeable: used by the run that checks no liveness.
PipeSymmetry == Permutations(Pipe)
=============================================================================

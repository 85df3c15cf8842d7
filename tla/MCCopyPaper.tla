---------------------------- MODULE MCCopyPaper ----------------------------
(* No symmetry: the run checks liveness. *)
EXTENDS CopyProperties
=============================================================================

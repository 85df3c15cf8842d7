---------------------------- MODULE MCCopyWorker ----------------------------
EXTENDS CopyProperties, TLC

(* Any unused row id can be the next one; tokens are interchangeable. *)
RowSymmetry == Permutations(Trades) \cup Permutations(Tokens)
=============================================================================

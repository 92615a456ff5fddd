---------------------------- MODULE MCPlayBreak ----------------------------
(***************************************************************************)
(* Instances of PlayBreak for TLC.  The windows are interchangeable.       *)
(***************************************************************************)
EXTENDS PlayBreak, TLC

SwapLabels == Permutations(Labels)
=============================================================================

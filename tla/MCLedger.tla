------------------------------ MODULE MCLedger ------------------------------
(***************************************************************************)
(* Instances of Ledger for TLC.                                            *)
(***************************************************************************)
EXTENDS Ledger, TLC

\* a parent grants one second, two, or takes one away
GivenAndTaken == {-1, 1, 2}

\* a key is only ever compared with another key
SwapKeys == Permutations(Keys)
=============================================================================

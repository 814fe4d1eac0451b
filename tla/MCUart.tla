------------------------------- MODULE MCUart -------------------------------
(* Strings on their way to the terminal: a few blocks, tasks of up to two  *)
(* strings (update_the_next_value() prints two).                           *)
EXTENDS Uart, TLC

BlockSymmetry == Permutations(Blocks)
=============================================================================

-------------------------- MODULE MCMemoryPreempt ---------------------------
(***************************************************************************)
(* Two levels of two blocks and one, and a thread, a task and an interrupt *)
(* that allocates only.                                                    *)
(***************************************************************************)
EXTENDS MemoryPreempt, TLC

MCBlockSize == 0 :> 2 @@ 1 :> 4
MCCount == 0 :> 2 @@ 1 :> 1
MCFirstIndex == 0 :> 0 @@ 1 :> 2
MCRequests == {2}
=============================================================================

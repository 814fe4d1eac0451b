------------------------------ MODULE MCMemory ------------------------------
(***************************************************************************)
(* A small memory for TLC: three levels of 6 bytes, with 3 blocks of 2,    *)
(* 2 of 3 and 1 of 6 bytes, at address 8 of a 40-byte address space.       *)
(* A list of three blocks has a head, a middle and a tail that differ.     *)
(***************************************************************************)
EXTENDS Memory, TLC

MCBlockSize == 0 :> 2 @@ 1 :> 3 @@ 2 :> 6
MCCount == 0 :> 3 @@ 1 :> 2 @@ 2 :> 1
MCFirstIndex == 0 :> 0 @@ 1 :> 3 @@ 2 :> 5

(* Zero, and the sizes on both sides of every block size.                  *)
MCRequests == {0, 2, 3, 4, 6, 7}

(* The first byte of every block, the last of some, and the bytes just     *)
(* below and just above the managed regions.                               *)
MCAddresses == {8, 10, 12, 14, 17, 20} \cup {9, 16, 25} \cup {7, 26}
=============================================================================

---------------------------- MODULE MemoryLayout ----------------------------
(***************************************************************************)
(* The static geometry of the memory allocator (memory.h, and the level    *)
(* and offset fields that initial_memory() writes once and nobody changes).*)
(*                                                                         *)
(* The managed RAM is cut in NumLevels regions of RegionSize bytes.        *)
(* Region l holds Count[l] blocks of BlockSize[l] bytes each, whose        *)
(* descriptors are the entries FirstIndex[l], FirstIndex[l]+1, ... of      *)
(* memory_management.  On the board: five regions of 16 KiB, with          *)
(* 128 x 128, 64 x 256, 32 x 512, 16 x 1024 and 8 x 2048 bytes.            *)
(***************************************************************************)
EXTENDS Integers

CONSTANTS
    NumLevels,      \* MAX_MEM_CATEGORIES
    BlockSize,      \* LVL_SIZE_128 .. LVL_SIZE_8, by level
    Count,          \* LVL128 .. LVL8, by level
    FirstIndex,     \* LVL_INDEX_128 .. LVL_INDEX_8, by level
    RegionSize,     \* 2^14, the shift of MASK_DEALLOCATING_LEVEL
    ADDDRESS_BASE,  \* address of the first block
    NULL_INDEX,     \* end of a free list
    Word            \* modulus of unsigned int arithmetic, 2^32 on the board

Levels == 0 .. NumLevels - 1

(* The descriptors of level l, and of every level. *)
LevelIndices(l) == FirstIndex[l] .. FirstIndex[l] + Count[l] - 1
Index == UNION {LevelIndices(l) : l \in Levels}

ASSUME SizesAssumption ==
    /\ NumLevels \in Nat \ {0}
    /\ RegionSize \in Nat \ {0}
    /\ BlockSize \in [Levels -> Nat \ {0}]
    /\ Count \in [Levels -> Nat \ {0}]
    /\ FirstIndex \in [Levels -> Nat]
    /\ \A l \in Levels : Count[l] * BlockSize[l] = RegionSize

ASSUME OrderAssumption ==
    \A k, l \in Levels : k < l => /\ FirstIndex[k] + Count[k] <= FirstIndex[l]
                                  /\ BlockSize[k] < BlockSize[l]

ASSUME AddressAssumption ==
    /\ ADDDRESS_BASE \in Nat \ {0}
    /\ Word \in Nat
    /\ ADDDRESS_BASE + NumLevels * RegionSize <= Word
    /\ NULL_INDEX \in Nat \ Index

-----------------------------------------------------------------------------
(* NULL, FALSE and TRUE of the C code. *)
NULL == 0
C_FALSE == 0
C_TRUE == 1

(* The level and offset fields of a descriptor.                            *)
GET_LEVEL(i) == CHOOSE l \in Levels : i \in LevelIndices(l)
GET_OFFSET(i) == GET_LEVEL(i) * RegionSize
                   + (i - FirstIndex[GET_LEVEL(i)]) * BlockSize[GET_LEVEL(i)]

(* The bytes of memory that block i occupies.                              *)
Bytes(i) == LET first == ADDDRESS_BASE + GET_OFFSET(i)
            IN  first .. first + BlockSize[GET_LEVEL(i)] - 1

(* The levels whose blocks are long enough for a request; size - 1 wraps,  *)
(* so a request for zero bytes fits nowhere.                               *)
Fits(size) == {l \in Levels : (size - 1) % Word < BlockSize[l]}
=============================================================================

------------------------------- MODULE Memory -------------------------------
(***************************************************************************)
(* The allocator of memory.c as it runs when its calls do not overlap:     *)
(* one singly linked free list per level, threaded through                 *)
(* memory_management, with its two ends in memory_control.                 *)
(***************************************************************************)
EXTENDS MemoryLayout

CONSTANTS
    Requests,           \* the sizes callers ask for
    Addresses           \* the addresses callers hand back

ASSUME CallersAssumption == /\ Requests \subseteq 0 .. Word - 1
                            /\ Addresses \subseteq 0 .. Word - 1

VARIABLES
    memory_management,  \* descriptor -> free bit and next index
    memory_control,     \* level -> current (head) and last (tail) available
    reply               \* the last call, its argument and what it returned

vars == <<memory_management, memory_control, reply>>

-----------------------------------------------------------------------------
(* Slips that would each break one of the properties below.                *)

(* The end of a level is not marked: its list runs into the next level.    *)
NextInLevelUnterminated(i) == i + 1

(* The "whole section is in use" case is forgotten.                        *)
ReleaseAlwaysAppends(i) ==
    LET l == GET_LEVEL(i)
        control == memory_control[l]
    IN  /\ memory_control' = [memory_control EXCEPT ![l].last = i]
        /\ memory_management' = [memory_management EXCEPT
               ![control.last].index = i,
               ![i] = [free |-> TRUE, index |-> NULL_INDEX]]

(* The free bit is not consulted: a block can be given back twice.         *)
RejectedOnlyOutside(address) == ~ \E i \in Index : address \in Bytes(i)

-----------------------------------------------------------------------------
(* initial_memory(): every block free, each level's list in index order.   *)
NextInLevel(i) == IF i + 1 \in LevelIndices(GET_LEVEL(i)) THEN i + 1
                                                          ELSE NULL_INDEX

Init ==
    /\ memory_management = [i \in Index |-> [free |-> TRUE,
                                             index |-> NextInLevel(i)]]
    /\ memory_control = [l \in Levels |->
                           [current |-> FirstIndex[l],
                            last |-> FirstIndex[l] + Count[l] - 1]]
    /\ reply = [call |-> "initial_memory", arg |-> 0, result |-> C_TRUE]

-----------------------------------------------------------------------------
(* allocate(size): the switch enters at the level that fits and falls      *)
(* through the exhausted ones.                                             *)
Available(size) == {l \in Fits(size) : memory_control[l].current # NULL_INDEX}

AllocateFrom(l, size) ==
    LET i == memory_control[l].current
    IN  /\ l \in Available(size)
        /\ \A k \in Available(size) : l <= k
        /\ memory_management' = [memory_management EXCEPT ![i].free = FALSE]
        /\ memory_control' = [memory_control EXCEPT
                                ![l].current = memory_management[i].index]
        /\ reply' = [call |-> "allocate", arg |-> size,
                     result |-> ADDDRESS_BASE + GET_OFFSET(i)]

AllocateFails(size) ==
    /\ Available(size) = {}
    /\ reply' = [call |-> "allocate", arg |-> size, result |-> NULL]
    /\ UNCHANGED <<memory_management, memory_control>>

(* deallocate(address): the region gives the level, the bits below it the  *)
(* index; the offset within the block is dropped.                          *)
Region(address) == ((address - ADDDRESS_BASE) % Word) \div RegionSize
TargetIndex(address) ==
    LET l == Region(address)
        offset == ((address - ADDDRESS_BASE) % Word) % RegionSize
    IN  FirstIndex[l] + offset \div BlockSize[l]

Rejected(address) == Region(address) \in Levels =>
                         memory_management[TargetIndex(address)].free

(* The block becomes the tail of its level's list.                         *)
Release(i) ==
    LET l == GET_LEVEL(i)
        control == memory_control[l]
    IN  IF control.current = NULL_INDEX
        THEN /\ memory_control' = [memory_control EXCEPT
                                     ![l] = [current |-> i, last |-> i]]
             /\ memory_management' = [memory_management EXCEPT
                                        ![i] = [free |-> TRUE, index |-> NULL_INDEX]]
        ELSE /\ memory_control' = [memory_control EXCEPT ![l].last = i]
             /\ memory_management' = [memory_management EXCEPT
                                        ![control.last].index = i,
                                        ![i] = [free |-> TRUE, index |-> NULL_INDEX]]

DeallocateBlock(address) ==
    /\ ~ Rejected(address)
    /\ Release(TargetIndex(address))
    /\ reply' = [call |-> "deallocate", arg |-> address, result |-> C_TRUE]

DeallocateRejected(address) ==
    /\ Rejected(address)
    /\ reply' = [call |-> "deallocate", arg |-> address, result |-> C_FALSE]
    /\ UNCHANGED <<memory_management, memory_control>>

Next ==
    \/ \E size \in Requests :
         \/ \E l \in Levels : AllocateFrom(l, size)
         \/ AllocateFails(size)
    \/ \E address \in Addresses :
         \/ DeallocateBlock(address)
         \/ DeallocateRejected(address)

Spec == Init /\ [][Next]_vars

-----------------------------------------------------------------------------
(* Every link and both ends of every list stay inside their own level, so  *)
(* allocate() never hands out a block of another level's size and never    *)
(* indexes memory_management out of bounds (memory.c:220, 230, 360).       *)
TypeOK ==
    /\ memory_management \in [Index -> [free : BOOLEAN,
                                        index : Index \cup {NULL_INDEX}]]
    /\ memory_control \in [Levels -> [current : Index \cup {NULL_INDEX},
                                      last : Index]]
    /\ \A l \in Levels :
         /\ memory_control[l].current \in LevelIndices(l) \cup {NULL_INDEX}
         /\ memory_control[l].last \in LevelIndices(l)
         /\ \A i \in LevelIndices(l) :
              memory_management[i].index \in LevelIndices(l) \cup {NULL_INDEX}
    /\ reply \in [call : {"initial_memory", "allocate", "deallocate"},
                  arg : Nat, result : Nat]

(* The free blocks of level l.                                             *)
FreeIn(l) == {i \in LevelIndices(l) : memory_management[i].free}

(* s is the chain from current to last, each free block of l once.         *)
IsFreeList(l, n, s) ==
    /\ \A j, k \in 1 .. n : s[j] = s[k] => j = k
    /\ \A i \in FreeIn(l) : \E j \in 1 .. n : s[j] = i
    /\ \A j \in 1 .. n - 1 : memory_management[s[j]].index = s[j + 1]
    /\ IF n = 0
       THEN memory_control[l].current = NULL_INDEX
       ELSE /\ memory_control[l].current = s[1]
            /\ memory_control[l].last = s[n]
            /\ memory_management[s[n]].index = NULL_INDEX

(* In every level the chain from current visits every free block exactly   *)
(* once, ends at last with NULL_INDEX, and meets no block in use: no       *)
(* free block is lost and none can be handed out twice, whatever the       *)
(* order of allocate() and deallocate() and through every "level empty"    *)
(* and "level full" crossing, where last is stale (memory.c:350-361).      *)
FreeListsWellFormed ==
    \A l \in Levels : \E n \in 0 .. Count[l] : \E s \in [1 .. n -> FreeIn(l)] :
        IsFreeList(l, n, s)

(* The free lists implement the pool of blocks: allocate() returns a block *)
(* nobody holds from the smallest level that fits and has one, NULL only   *)
(* if every level that fits is exhausted; deallocate() frees exactly the   *)
(* block that contains the address (memory.c:118-121, 242-245).            *)
Pool == INSTANCE BlockPool WITH
            inUse <- {i \in Index : ~ memory_management[i].free}
PoolSpec == Pool!Spec
=============================================================================

----------------------------- MODULE BlockPool ------------------------------
(***************************************************************************)
(* What the allocator promises its callers, without free lists: a set of   *)
(* blocks in use and the reply of the last call.                           *)
(***************************************************************************)
EXTENDS MemoryLayout

CONSTANTS
    Requests,       \* the sizes callers ask for
    Addresses       \* the addresses callers hand back

VARIABLES
    inUse,          \* the blocks handed out and not given back
    reply           \* the last call, its argument and what it returned

vars == <<inUse, reply>>

Init == /\ inUse = {}
        /\ reply = [call |-> "initial_memory", arg |-> 0, result |-> C_TRUE]

(* A caller gets a block that nobody holds, from the smallest level that   *)
(* fits and still has one; it gets NULL only when there is none.           *)
Allocate(size) ==
    LET free == {i \in Index \ inUse : GET_LEVEL(i) \in Fits(size)}
    IN  \/ \E i \in free :
             /\ \A j \in free : GET_LEVEL(i) <= GET_LEVEL(j)
             /\ inUse' = inUse \cup {i}
             /\ reply' = [call |-> "allocate", arg |-> size,
                          result |-> ADDDRESS_BASE + GET_OFFSET(i)]
        \/ /\ free = {}
           /\ reply' = [call |-> "allocate", arg |-> size, result |-> NULL]
           /\ UNCHANGED inUse

(* Giving back an address frees the block in use that contains it, and     *)
(* is refused without effect when no block in use does.                    *)
Deallocate(address) ==
    \/ \E i \in inUse :
         /\ address \in Bytes(i)
         /\ inUse' = inUse \ {i}
         /\ reply' = [call |-> "deallocate", arg |-> address, result |-> C_TRUE]
    \/ /\ \A i \in inUse : address \notin Bytes(i)
       /\ reply' = [call |-> "deallocate", arg |-> address, result |-> C_FALSE]
       /\ UNCHANGED inUse

Next == \/ \E size \in Requests : Allocate(size)
        \/ \E address \in Addresses : Deallocate(address)

Spec == Init /\ [][Next]_vars
=============================================================================

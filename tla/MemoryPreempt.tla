--------------------------- MODULE MemoryPreempt ----------------------------
(***************************************************************************)
(* The allocator of memory.c as it runs on the board: allocate() and       *)
(* deallocate() mask no interrupt and are called from threads, from tasks  *)
(* in PendSV and, by command_frame(), from the interrupt of the hall       *)
(* sensors.  Each call is cut at its reads and writes of the two arrays; a *)
(* call of a higher context can begin and end between any two of them.     *)
(***************************************************************************)
EXTENDS MemoryLayout, FiniteSetsExt

CONSTANTS
    Requests,           \* the sizes callers ask for, each of which fits
    Contexts,           \* 1 .. n, by priority: threads, PendSV, interrupts
    Releasing           \* the contexts that call deallocate()

VARIABLES
    memory_management,  \* descriptor -> free bit and next index
    memory_control,     \* level -> current (head) and last (tail) available
    held,               \* the blocks in the hands of callers
    call                \* context -> the registers of its call

vars == <<memory_management, memory_control, held, call>>

NoCall == [pc |-> "idle"]

Init ==
    /\ memory_management = [i \in Index |->
         [free |-> TRUE,
          index |-> IF i + 1 \in LevelIndices(GET_LEVEL(i)) THEN i + 1 ELSE NULL_INDEX]]
    /\ memory_control = [l \in Levels |->
         [current |-> FirstIndex[l], last |-> FirstIndex[l] + Count[l] - 1]]
    /\ held = {}
    /\ call = [c \in Contexts |-> NoCall]

(* What a context does waits for the calls of those above it.              *)
Runs(c) == \A d \in Contexts : d > c => call[d] = NoCall
At(c, pc) == Runs(c) /\ call[c].pc = pc
Goes(c, registers) == call' = [call EXCEPT ![c] = registers]

-----------------------------------------------------------------------------
Allocate(c, size) ==
    /\ At(c, "idle")
    /\ Goes(c, [pc |-> "step2", level |-> Min(Fits(size))])
    /\ UNCHANGED <<memory_management, memory_control, held>>

(* step 2: look for a level with a block, from the one that fits up.       *)
Step2(c) ==
    LET level == call[c].level
        control == memory_control[level]
    IN  /\ At(c, "step2")
        /\ Goes(c, CASE control.current # NULL_INDEX ->
                          [pc |-> "step3", level |-> level, control |-> control]
                     [] control.current = NULL_INDEX /\ level + 1 \in Levels ->
                          [pc |-> "step2", level |-> level + 1]
                     [] OTHER -> NoCall)
        /\ UNCHANGED <<memory_management, memory_control, held>>

(* step 3: load the descriptor of the block found, and mark it not free.   *)
Step3(c) ==
    LET next == memory_management[call[c].control.current].index
    IN  /\ At(c, "step3")
        /\ Goes(c, [pc |-> "step5", level |-> call[c].level,
                    control |-> call[c].control, next |-> next])
        /\ UNCHANGED <<memory_management, memory_control, held>>

(* step 5: save it back.                                                   *)
Step5(c) ==
    /\ At(c, "step5")
    /\ memory_management' = [memory_management EXCEPT ![call[c].control.current] =
                               [free |-> FALSE, index |-> call[c].next]]
    /\ Goes(c, [call[c] EXCEPT !.pc = "step7"])
    /\ UNCHANGED <<memory_control, held>>

(* step 7: the level goes on with the next block; the caller has this one. *)
Step7(c) ==
    /\ At(c, "step7")
    /\ memory_control' = [memory_control EXCEPT ![call[c].level] =
                            [call[c].control EXCEPT !.current = call[c].next]]
    /\ held' = held \cup {call[c].control.current}
    /\ Goes(c, NoCall)
    /\ UNCHANGED memory_management

-----------------------------------------------------------------------------
(* deallocate() of a block: load its descriptor; if it is free, go no      *)
(* further.                                                                *)
Deallocate(c, i) ==
    /\ At(c, "idle") /\ c \in Releasing
    /\ i \in held
    /\ held' = held \ {i}
    /\ IF memory_management[i].free THEN UNCHANGED call
                                    ELSE Goes(c, [pc |-> "ends", target |-> i])
    /\ UNCHANGED <<memory_management, memory_control>>

(* Load both ends of the list.                                             *)
LoadEnds(c) ==
    LET i == call[c].target
        control == memory_control[GET_LEVEL(i)]
    IN  /\ At(c, "ends")
        /\ Goes(c, IF control.current = NULL_INDEX
                   THEN [pc |-> "control", target |-> i,
                         control |-> [current |-> i, last |-> i]]
                   ELSE [pc |-> "last", target |-> i, control |-> control])
        /\ UNCHANGED <<memory_management, memory_control, held>>

(* Link the block behind the last one: a load and a store.                 *)
LoadLast(c) ==
    LET last == call[c].control.last
    IN  /\ At(c, "last")
        /\ Goes(c, [pc |-> "link", target |-> call[c].target,
                    control |-> call[c].control,
                    free |-> memory_management[last].free])
        /\ UNCHANGED <<memory_management, memory_control, held>>

StoreLast(c) ==
    LET i == call[c].target
        control == call[c].control
    IN  /\ At(c, "link")
        /\ memory_management' = [memory_management EXCEPT ![control.last] =
                                   [free |-> call[c].free, index |-> i]]
        /\ Goes(c, [pc |-> "control", target |-> i,
                    control |-> [control EXCEPT !.last = i]])
        /\ UNCHANGED <<memory_control, held>>

(* Write back the ends, then the descriptor of the block.                  *)
StoreEnds(c) ==
    /\ At(c, "control")
    /\ memory_control' = [memory_control EXCEPT ![GET_LEVEL(call[c].target)] =
                            call[c].control]
    /\ Goes(c, [pc |-> "free", target |-> call[c].target])
    /\ UNCHANGED <<memory_management, held>>

StoreFree(c) ==
    /\ At(c, "free")
    /\ memory_management' = [memory_management EXCEPT ![call[c].target] =
                               [free |-> TRUE, index |-> NULL_INDEX]]
    /\ Goes(c, NoCall)
    /\ UNCHANGED <<memory_control, held>>

Next ==
    \E c \in Contexts :
        \/ \E size \in Requests : Allocate(c, size)
        \/ Step2(c) \/ Step3(c) \/ Step5(c) \/ Step7(c)
        \/ \E i \in held : Deallocate(c, i)
        \/ LoadEnds(c) \/ LoadLast(c) \/ StoreLast(c) \/ StoreEnds(c) \/ StoreFree(c)

Spec == Init /\ [][Next]_vars

-----------------------------------------------------------------------------
(* "The slot is still available" (memory.c:218) when allocate(), having    *)
(* found it at the head of the list, loads its descriptor to mark it not   *)
(* free: it has not become another caller's since.                         *)
StillAvailable ==
    \A c \in Contexts :
        At(c, "step3") => memory_management[call[c].control.current].free
=============================================================================

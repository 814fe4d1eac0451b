----------------------------- MODULE Scheduler ------------------------------
(***************************************************************************)
(* Processes: the priority queues of PCBs (PcbQueue.c, PriorityQueue.c),   *)
(* the kernel calls (Kernel.c, SVCCall.c), SysTick (systick.c) and the     *)
(* swap that the PendSV handler runs (PendSVHandler.c).                    *)
(*                                                                         *)
(* A kernel call is one step: SVC and SysTick share the highest priority   *)
(* and PendSV has the lowest.  Processes are registered before the first   *)
(* SVC, as in testcase.c; a PCB is named by its pid.  Of the task ring     *)
(* only the number of queued swaps is kept: TaskQueue models the ring.     *)
(***************************************************************************)
EXTENDS Integers, Sequences

CONSTANTS
    MAX_PRIORITY_QUEUES_MANAGEMENT, \* number of levels; level 0 is idle
    MaxPid,         \* bound: registrations attempted before the first SVC
    MaxSwaps,       \* bound: swaps the model counts in the ring
    Arguments,      \* arguments of promoteby() and demoteby()
    Word,           \* modulus of unsigned int arithmetic
    NULL

Levels == 0 .. MAX_PRIORITY_QUEUES_MANAGEMENT - 1
Pids == 0 .. MaxPid - 1

ASSUME SchedulerAssumption ==
    /\ MAX_PRIORITY_QUEUES_MANAGEMENT \in Nat \ {0}
    /\ MaxPid \in Nat
    /\ MaxSwaps \in Nat \ {0}
    /\ Word \in Nat \ {0}
    /\ Arguments \subseteq 0 .. Word - 1
    /\ NULL \notin Nat

VARIABLES
    ManagementOfQueues, \* level -> head and tail of its list of PCBs
    pcb,                \* pid -> priority, next, prev and sp of its PCB
    live,               \* the pids whose PCB block is allocated
    pID,                \* the next pid
    running,
    phase,              \* "boot" until the first SVC; "stopped" after a
                        \* fault or a step whose outcome C leaves undefined
    swaps,              \* swaps waiting in the task ring
    pendsv,             \* PendSV is "idle", "pending", "active", or "both"
    swapped             \* PSP is what Swap() loaded: no process has run since

vars == <<ManagementOfQueues, pcb, live, pID, running, phase, swaps, pendsv,
          swapped>>

(* sp is NULL, or addresses a frame built by RegistrationProcess(), with   *)
(* room for r4-r11 below what the processor stacks ("fresh"), or a frame   *)
(* stacked by the processor alone ("stacked").                             *)
Frames == {NULL, "fresh", "stacked"}

(* The levels that have a process: their head is not NULL.                 *)
Occupied == {l \in Levels : ManagementOfQueues[l].head # NULL}

-----------------------------------------------------------------------------
(* Slips that would each break one of the properties below.                *)

(* pID is not incremented.                                                 *)
getPidStuck == pID

(* The tail of the list is not moved back when the last PCB leaves.        *)
UnlinkedTailKept(q, b, p) ==
    [queues |-> [q EXCEPT ![b[p].priority].head =
                    IF b[p].prev = NULL THEN b[p].next ELSE @],
     pcbs |-> [x \in Pids |->
         CASE x = b[p].prev -> [b[x] EXCEPT !.next = b[p].next]
           [] x = b[p].next -> [b[x] EXCEPT !.prev = b[p].prev]
           [] OTHER -> b[x]]]

(* The PCB is put at the head of its new level.                            *)
LinkedFirst(q, b, p, l) ==
    [queues |-> [q EXCEPT ![l] = [head |-> p,
                                  tail |-> IF @.tail = NULL THEN p ELSE @.tail]],
     pcbs |-> [x \in Pids |->
         IF x = p
         THEN [b[x] EXCEPT !.next = q[l].head, !.prev = NULL, !.priority = l]
         ELSE IF x = q[l].head THEN [b[x] EXCEPT !.prev = p] ELSE b[x]]]

(* The kernel call forgets the swap.                                       *)
SwapForgotten == swaps

(* The idle process is not singled out.                                    *)
MovableIdle(target) == target \in Levels \ {0}

(* The head of the highest level is chosen every time.                     *)
set_runningHead ==
    \/ \E l \in Occupied : /\ \A k \in Occupied : k <= l
                          /\ running' = ManagementOfQueues[l].head
    \/ Occupied = {} /\ UNCHANGED running

-----------------------------------------------------------------------------
(* The list operations.  Both take the queues q and the PCBs b.            *)

(* PCB p becomes the tail of level l (create_new_Pcb, end of move_Pcb).    *)
Linked(q, b, p, l) ==
    [queues |-> [q EXCEPT ![l] = [head |-> IF @.head = NULL THEN p ELSE @.head,
                                  tail |-> p]],
     pcbs |-> [x \in Pids |->
         IF x = p
         THEN [b[x] EXCEPT !.next = NULL, !.prev = q[l].tail, !.priority = l]
         ELSE IF x = q[l].tail THEN [b[x] EXCEPT !.next = p] ELSE b[x]]]

(* PCB p leaves its list (move_Pcb, delete_Pcb).                           *)
Unlinked(q, b, p) ==
    LET before == b[p].prev
        after == b[p].next
        l == b[p].priority
    IN  [queues |-> [q EXCEPT ![l] =
             [head |-> IF before = NULL THEN after ELSE @.head,
              tail |-> IF after = NULL THEN before ELSE @.tail]],
         pcbs |-> [x \in Pids |->
             CASE x = before -> [b[x] EXCEPT !.next = after]
               [] x = after -> [b[x] EXCEPT !.prev = before]
               [] OTHER -> b[x]]]

-----------------------------------------------------------------------------
(* InitializePriorityQueueManagement().                                    *)
Init ==
    /\ ManagementOfQueues = [l \in Levels |-> [head |-> NULL, tail |-> NULL]]
    /\ pcb = [p \in Pids |-> [priority |-> 0, next |-> NULL, prev |-> NULL,
                              sp |-> NULL]]
    /\ live = {}
    /\ pID = 0
    /\ running = NULL
    /\ phase = "boot"
    /\ swaps = 0
    /\ pendsv = "idle"
    /\ swapped = FALSE

-----------------------------------------------------------------------------
getPid == pID + 1

(* RegistrationProcess(func, priority).  Whether the PCB and the stack get *)
(* their blocks depends on the allocator.                                  *)
Outranks(l) == running = NULL \/ l > pcb[running].priority

Register(l) ==
    LET created == Linked(ManagementOfQueues, pcb, pID, l)
    IN  /\ phase = "boot"
        /\ pID < MaxPid
        /\ l \in Levels
        /\ ManagementOfQueues' = created.queues
        /\ live' = live \cup {pID}
        /\ pID' = getPid
        /\ \/ /\ pcb' = [created.pcbs EXCEPT ![pID].sp = "fresh"]
              /\ running' = IF Outranks(l) THEN created.queues[l].head ELSE running
           \/ \* no stack: the PCB stays in the queue
              /\ pcb' = [created.pcbs EXCEPT ![pID].sp = NULL]
              /\ UNCHANGED running
        /\ UNCHANGED <<phase, swaps, pendsv, swapped>>

(* create_new_Pcb() fails - priority 4, which the test on the priority     *)
(* lets through, or no block - and its result is ignored: a stack (an      *)
(* interrupt may have given a block back in between) goes to the process   *)
(* that happens to be the tail of the level.                               *)
RegisterWithoutPcb(l) ==
    LET last == ManagementOfQueues[l].tail
    IN  /\ phase = "boot"
        /\ pID < MaxPid
        /\ pID' = getPid
        /\ \/ UNCHANGED <<pcb, running, phase>>     \* no stack either
           \/ /\ l \in Levels /\ last # NULL
              /\ pcb' = [pcb EXCEPT ![last].sp = "fresh"]
              /\ running' = IF Outranks(l) THEN ManagementOfQueues[l].head
                                           ELSE running
              /\ UNCHANGED phase
           \/ /\ l \in Levels => last = NULL
              /\ phase' = "stopped"
              /\ UNCHANGED <<pcb, running>>
        /\ UNCHANGED <<ManagementOfQueues, live, swaps, pendsv, swapped>>

-----------------------------------------------------------------------------
(* The processor loads the frame of the running process.  One that is not  *)
(* what it expects makes it run from wherever the popped words say.        *)
Load(sound) == phase' \in IF pcb[running].sp = sound THEN {"run"}
                                                     ELSE {"run", "stopped"}

(* The first SVC starts the running process, skipping r4-r11 of its frame, *)
(* and starts SysTick.                                                     *)
FirstSVC ==
    /\ phase = "boot"
    /\ UNCHANGED <<ManagementOfQueues, pcb, live, pID, running, swaps, pendsv,
                   swapped>>
    /\ IF running = NULL THEN phase' = "stopped" ELSE Load("fresh")

(* A process runs and makes a kernel call.                                 *)
InProcess == phase = "run" /\ pendsv = "idle"

(* enqueue(0, Swap).                                                       *)
SwapQueued == IF swaps < MaxSwaps THEN swaps + 1 ELSE swaps

(* move_Pcb(target, running).                                              *)
Movable(target) == /\ target \in Levels \ {0}
                   /\ pcb[running].priority # 0

move_Pcb(target) ==
    IF Movable(target)
    THEN LET out == Unlinked(ManagementOfQueues, pcb, running)
             in == Linked(out.queues, out.pcbs, running, target)
         IN  ManagementOfQueues' = in.queues /\ pcb' = in.pcbs
    ELSE UNCHANGED <<ManagementOfQueues, pcb>>

(* promoteby(increment): no swap is queued.                                *)
Promote(increment) ==
    /\ InProcess
    /\ move_Pcb((pcb[running].priority + increment) % Word)
    /\ UNCHANGED <<live, pID, running, phase, swaps, pendsv, swapped>>

(* demoteby(decrement): a swap is queued, but PendSV is not triggered.     *)
Demote(decrement) ==
    /\ InProcess
    /\ move_Pcb((pcb[running].priority - decrement) % Word)
    /\ swaps' = SwapQueued
    /\ UNCHANGED <<live, pID, running, phase, pendsv, swapped>>

(* terminate(), delete_Pcb(running): the PCB is reset and freed, and the   *)
(* process goes on until the next swap.  Its sp is left: the assignment    *)
(* meant to clear it writes through NULL instead, which may fault.         *)
Terminate ==
    /\ InProcess
    /\ swaps' = SwapQueued
    /\ IF pcb[running].priority = 0
       THEN UNCHANGED <<ManagementOfQueues, pcb, live, phase>>
       ELSE LET out == Unlinked(ManagementOfQueues, pcb, running)
            IN  /\ ManagementOfQueues' = out.queues
                /\ pcb' = [out.pcbs EXCEPT ![running] =
                             [@ EXCEPT !.priority = 0, !.next = NULL, !.prev = NULL]]
                /\ live' = live \ {running}
                /\ phase' \in {"run", "stopped"}
    /\ UNCHANGED <<pID, running, pendsv, swapped>>

-----------------------------------------------------------------------------
PendingAgain == IF pendsv \in {"idle", "pending"} THEN "pending" ELSE "both"

(* SysTickHandler(): queues a swap and triggers PendSV.                    *)
SysTick ==
    /\ phase = "run"
    /\ swaps' = SwapQueued
    /\ pendsv' = PendingAgain
    /\ UNCHANGED <<ManagementOfQueues, pcb, live, pID, running, phase, swapped>>

(* An interrupt triggers PendSV for a task of its own (UART0_IntHandler,   *)
(* GPIOPortF_IntHandler), as does a process or a task that sends a string  *)
(* (send_to_UART).                                                         *)
Trigger ==
    /\ phase = "run"
    /\ pendsv' = PendingAgain
    /\ UNCHANGED <<ManagementOfQueues, pcb, live, pID, running, phase, swaps,
                   swapped>>

EnterPendSV ==
    /\ phase = "run"
    /\ pendsv = "pending"
    /\ pendsv' = "active"
    /\ UNCHANGED <<ManagementOfQueues, pcb, live, pID, running, phase, swaps,
                   swapped>>

(* set_running(): the successor of the running process if its priority is  *)
(* that of the highest level with a PCB, the head of that level otherwise. *)
(* A terminated process reads as priority 0 without successor.             *)
set_running ==
    \/ \E l \in Occupied :
         /\ \A k \in Occupied : k <= l
         /\ running' = IF pcb[running].priority = l /\ pcb[running].next # NULL
                       THEN pcb[running].next
                       ELSE ManagementOfQueues[l].head
    \/ Occupied = {} /\ UNCHANGED running

(* Swap() stores PSP for the running process and sets it to the frame of   *)
(* the next.  PSP points to what the processor stacked when it entered     *)
(* PendSV, or, if a swap was served since then, to where the process's sp  *)
(* has pointed all along: it has not run.                                  *)
Swap ==
    /\ phase = "run"
    /\ pendsv \in {"active", "both"}
    /\ swaps > 0
    /\ swaps' = swaps - 1
    /\ pcb' = IF swapped THEN pcb ELSE [pcb EXCEPT ![running].sp = "stacked"]
    /\ swapped' = TRUE
    /\ set_running
    /\ UNCHANGED <<ManagementOfQueues, live, pID, phase, pendsv>>

(* The processor returns to the process whose frame PSP points to, or, if  *)
(* PendSV is pending again, comes back without loading any.                *)
LeavePendSV ==
    /\ phase = "run"
    /\ pendsv \in {"active", "both"}
    /\ swaps = 0
    /\ \/ /\ pendsv = "both"
          /\ pendsv' = "pending"
          /\ UNCHANGED <<phase, swapped>>
       \/ /\ pendsv = "active"
          /\ pendsv' = "idle"
          /\ swapped' = FALSE
          /\ IF swapped THEN Load("stacked") ELSE UNCHANGED phase
    /\ UNCHANGED <<ManagementOfQueues, pcb, live, pID, running, swaps>>

PendSV == EnterPendSV \/ Swap \/ LeavePendSV

Next ==
    \/ \E l \in Levels : Register(l)
    \/ \E l \in 0 .. MAX_PRIORITY_QUEUES_MANAGEMENT : RegisterWithoutPcb(l)
    \/ FirstSVC
    \/ \E n \in Arguments : Promote(n) \/ Demote(n)
    \/ Terminate
    \/ SysTick \/ Trigger
    \/ PendSV

Spec == Init /\ [][Next]_vars

(* The timer ticks for ever and the handler's instructions are executed;   *)
(* no process has to make a kernel call.                                   *)
FairSpec == Spec /\ WF_vars(SysTick) /\ WF_vars(PendSV)

-----------------------------------------------------------------------------
(* Before the first SVC no swap is queued; after it a process is running,  *)
(* although it may be one that has terminated.                             *)
TypeOK ==
    /\ ManagementOfQueues \in
         [Levels -> [head : Pids \cup {NULL}, tail : Pids \cup {NULL}]]
    /\ pcb \in [Pids -> [priority : Levels, next : Pids \cup {NULL},
                         prev : Pids \cup {NULL}, sp : Frames]]
    /\ pID \in 0 .. MaxPid
    /\ live \subseteq 0 .. pID - 1
    /\ running \in Pids \cup {NULL}
    /\ phase \in {"boot", "run", "stopped"}
    /\ phase = "run" => running \in Pids
    /\ swaps \in 0 .. MaxSwaps
    /\ pendsv \in {"idle", "pending", "active", "both"}
    /\ swapped \in BOOLEAN

(* s lists the processes of level l from head to tail.                     *)
Ready(l) == {p \in live : pcb[p].priority = l}
IsQueue(l, n, s) ==
    /\ \A i, j \in 1 .. n : s[i] = s[j] => i = j
    /\ \A p \in Ready(l) : \E i \in 1 .. n : s[i] = p
    /\ \A i \in 1 .. n :
         /\ pcb[s[i]].prev = IF i = 1 THEN NULL ELSE s[i - 1]
         /\ pcb[s[i]].next = IF i = n THEN NULL ELSE s[i + 1]
    /\ ManagementOfQueues[l] = IF n = 0 THEN [head |-> NULL, tail |-> NULL]
                                        ELSE [head |-> s[1], tail |-> s[n]]

(* Each level's list, read from head along next or from tail along prev,   *)
(* meets every process of that priority exactly once and nothing else: no  *)
(* sequence of registrations, moves and deletions loses a process, leaves  *)
(* a freed PCB linked or mixes levels (PcbQueue.c:45-58, 90-132, 158-190). *)
PcbQueuesWellFormed ==
    \A l \in Levels : \E n \in 0 .. MaxPid : \E s \in [1 .. n -> Ready(l)] :
        IsQueue(l, n, s)

(* "the highest priority is the current pcb running" (SVCCall.c:94-106):   *)
(* once every queued swap has been served, the running process is of the   *)
(* highest level that has any, whatever promotions, demotions and          *)
(* terminations came before - unless a registration left a PCB without a   *)
(* stack in the queues.                                                    *)
RunningIsHighest ==
    /\ phase = "run" /\ swaps = 0 /\ Occupied # {}
    /\ \A p \in live : pcb[p].sp # NULL
    => running \in live /\ \A l \in Occupied : l <= pcb[running].priority

(* The idle process is never moved or terminated and nobody joins it: "a   *)
(* process is always ready to run" stays true (PriorityQueue.c:70).        *)
IdleLevelFixed ==
    [][phase = "run" => Ready(0)' = Ready(0)]_vars

(* Each level's list as a sequence.                                        *)
Lines == [l \in Levels |->
    CHOOSE s \in UNION {[1 .. n -> Ready(l)] : n \in 0 .. MaxPid} : IsQueue(l, Len(s), s)]

(* The linked lists implement the lines of ready processes.                *)
Queues == INSTANCE ReadyQueues WITH ready <- Lines
QueuesSpec == Queues!Spec

(* Round robin: a process that stays in the highest level executes again   *)
(* and again, even if others of its level promote or demote themselves by  *)
(* 0 (PriorityQueue.c:76-89) - provided that from some time on PendSV does *)
(* not serve two swaps in a row.  It does when demoteby() has queued one   *)
(* (SVCCall.c:110) and nothing but SysTick triggers PendSV, which queues   *)
(* another: of two processes the second is then passed over every time.    *)
OneSwapEach == <>[](swapped => swaps = 0)

RoundRobin ==
    OneSwapEach => \A p \in Pids :
        []<>( \/ phase # "run" \/ p \notin live
              \/ \E l \in Occupied : l > pcb[p].priority
              \/ running = p /\ pendsv = "idle")

(* "put back data in register to stackframe and loading the next process   *)
(* to registers" (PendSVHandler.c:21): a swap resumes a process from a     *)
(* frame that holds what the exception return pops.                        *)
ResumesOwnContext ==
    [][LeavePendSV /\ swapped /\ pendsv' = "idle"
         => pcb[running].sp = "stacked"]_vars
=============================================================================

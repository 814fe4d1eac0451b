----------------------------- MODULE TaskQueue ------------------------------
(***************************************************************************)
(* The ring of deferred tasks (Queue.c) with its producers - thread code,  *)
(* interrupt handlers and the tasks themselves - and its one consumer, the *)
(* PendSV handler (PendSVHandler.c).                                       *)
(*                                                                         *)
(* enqueue() masks interrupts, so it is one step.  dequeue() does not: an  *)
(* interrupt may come between any two of its steps.  PendSV has the lowest *)
(* priority, so interrupts preempt it and thread code never runs while it  *)
(* is active.  An interrupt handler is one step: the handlers that enqueue *)
(* share one priority and do not preempt each other.                       *)
(***************************************************************************)
EXTENDS Integers, FiniteSets

CONSTANTS
    MAXINUMQUEUES,      \* slots of the ring
    Tasks,              \* the functions that are deferred
    ThreadTasks,        \* those that thread code enqueues
    InterruptTasks,     \* those that interrupt handlers enqueue
    Spawns,             \* task -> the tasks it may enqueue while it runs
    Endless,            \* tasks that never return
    NoTask              \* a slot that was never filled

ASSUME RingAssumption == MAXINUMQUEUES \in Nat \ {0, 1}
ASSUME TasksAssumption ==
    /\ ThreadTasks \subseteq Tasks
    /\ InterruptTasks \subseteq Tasks
    /\ Endless \subseteq Tasks
    /\ Spawns \in [Tasks -> SUBSET Tasks]
    /\ NoTask \notin Tasks

VARIABLES
    array,              \* slot -> status bit and function
    head,               \* the slot enqueue() fills next
    tail,               \* the slot dequeue() empties next
    primask,            \* interrupts are disabled
    pendsv,             \* PendSV is pending
    pc,                 \* where the PendSV handler is
    func_               \* the task it has loaded

vars == <<array, head, tail, primask, pendsv, pc, func_>>

Slots == 0 .. MAXINUMQUEUES - 1
Locations == {"thread", "dequeue", "advance", "clear", "run", "leave"}

Occupied(i) == array[i].status = 1

-----------------------------------------------------------------------------
(* Slips that would each break one of the properties below.                *)

(* The status bit is not tested: a full ring is overwritten.               *)
SlotFreeUnchecked == TRUE

(* The handler enqueues and forgets to trigger PendSV.                     *)
InterruptEnqueueUntriggered(t) == pendsv

(* The cursor is not wrapped at the end of the ring.                       *)
NextSlotUnwrapped(i) == i + 1

(* The handler forgets to advance tail.                                    *)
TailKept == tail

(* The status bit is never cleared after the task is loaded.               *)
StatusLeft == array

-----------------------------------------------------------------------------
(* initialize_Queue(): the status bits are cleared.                        *)
Init ==
    /\ array = [i \in Slots |-> [status |-> 0, function |-> NoTask]]
    /\ head = 0
    /\ tail = 0
    /\ primask = FALSE
    /\ pendsv = FALSE
    /\ pc = "thread"
    /\ func_ = NoTask

NextSlot(i) == (i + 1) % MAXINUMQUEUES

SlotFree == ~ Occupied(head)

(* enqueue(t).  When the slot at head is still taken it returns FALSE from *)
(* between "cpsid i" and "cpsie i": interrupts stay disabled.              *)
enqueue(t) ==
    \/ /\ SlotFree
       /\ array' = [array EXCEPT ![head] = [status |-> 1, function |-> t]]
       /\ head' = NextSlot(head)
       /\ primask' = FALSE
    \/ /\ ~ SlotFree
       /\ primask' = TRUE
       /\ UNCHANGED <<array, head>>

-----------------------------------------------------------------------------
(* Thread code: command_frame(), send_to_UART() and the SVC handler.       *)
ThreadEnqueue(t) ==
    /\ pc = "thread"
    /\ enqueue(t)
    /\ UNCHANGED <<tail, pendsv, pc, func_>>

(* Thread code sets the PendSV pending bit, as Process() does in each turn *)
(* of its loop and send_to_UART() after a successful enqueue.              *)
ThreadTrigger ==
    /\ pc = "thread"
    /\ pendsv' = TRUE
    /\ UNCHANGED <<array, head, tail, primask, pc, func_>>

(* SysTickHandler, UART0_IntHandler and GPIOPortF_IntHandler enqueue and   *)
(* then trigger PendSV, whether or not the task was accepted.              *)
InterruptTrigger(t) == TRUE

Interrupt(t) ==
    /\ ~ primask
    /\ enqueue(t)
    /\ pendsv' = InterruptTrigger(t)
    /\ UNCHANGED <<tail, pc, func_>>

-----------------------------------------------------------------------------
(* PendSVHandler(): the processor enters it when no other code of higher   *)
(* priority runs and interrupts are enabled.                               *)
EnterPendSV ==
    /\ pc = "thread"
    /\ pendsv
    /\ ~ primask
    /\ pendsv' = FALSE
    /\ pc' = "dequeue"
    /\ UNCHANGED <<array, head, tail, primask, func_>>

(* dequeue(): read the slot at tail, advance tail, clear the slot's bit.   *)
DequeueLoad ==
    /\ pc = "dequeue"
    /\ Occupied(tail)
    /\ func_' = array[tail].function
    /\ pc' = "advance"
    /\ UNCHANGED <<array, head, tail, primask, pendsv>>

AdvancedTail == NextSlot(tail)

DequeueAdvance ==
    /\ pc = "advance"
    /\ tail' = AdvancedTail
    /\ pc' = "clear"
    /\ UNCHANGED <<array, head, primask, pendsv, func_>>

(* The slot whose status dequeue() still points at.                        *)
Taken == IF tail = 0 THEN MAXINUMQUEUES - 1 ELSE tail - 1
StatusCleared == [array EXCEPT ![Taken].status = 0]

DequeueClear ==
    /\ pc = "clear"
    /\ array' = StatusCleared
    /\ pc' = "run"
    /\ UNCHANGED <<head, tail, primask, pendsv, func_>>

DequeueEmpty ==
    /\ pc = "dequeue"
    /\ ~ Occupied(tail)
    /\ pc' = "leave"
    /\ UNCHANGED <<array, head, tail, primask, pendsv, func_>>

(* while (func_(data)): the task is called until it returns FALSE; a call  *)
(* that returns TRUE changes nothing here.  The task may defer others and  *)
(* may trigger PendSV again.                                               *)
TaskEnqueue(t) ==
    /\ pc = "run"
    /\ t \in Spawns[func_]
    /\ enqueue(t)
    /\ pendsv' \in {pendsv, TRUE}
    /\ UNCHANGED <<tail, pc, func_>>

TaskReturns ==
    /\ pc = "run"
    /\ func_ \notin Endless
    /\ pc' = "dequeue"
    /\ func_' = NoTask
    /\ UNCHANGED <<array, head, tail, primask, pendsv>>

LeavePendSV ==
    /\ pc = "leave"
    /\ pc' = "thread"
    /\ UNCHANGED <<array, head, tail, primask, pendsv, func_>>

Handler == \/ EnterPendSV \/ DequeueLoad \/ DequeueAdvance \/ DequeueClear
           \/ DequeueEmpty \/ TaskReturns \/ LeavePendSV

Next ==
    \/ \E t \in ThreadTasks : ThreadEnqueue(t)
    \/ ThreadTrigger
    \/ \E t \in InterruptTasks : Interrupt(t)
    \/ \E t \in Tasks : TaskEnqueue(t)
    \/ Handler

Spec == Init /\ [][Next]_vars

(* The processor executes the handler's instructions.  Interrupts may never *)
(* come, and thread code may never come to a trigger: command_frame() sets  *)
(* none, and locking() may spin in semaWait() before Process() does.        *)
Fairness == WF_vars(Handler)

FairSpec == Spec /\ Fairness

-----------------------------------------------------------------------------
TypeOK ==
    /\ array \in [Slots -> [status : {0, 1}, function : Tasks \cup {NoTask}]]
    /\ head \in Slots
    /\ tail \in Slots
    /\ primask \in BOOLEAN
    /\ pendsv \in BOOLEAN
    /\ pc \in Locations
    /\ func_ \in Tasks \cup {NoTask}

(* The oldest slot that still has its status bit, and how many have it.    *)
Oldest == IF pc = "clear" THEN Taken ELSE tail
Pending == Cardinality({i \in Slots : Occupied(i)})
SlotAt(k) == (Oldest + k) % MAXINUMQUEUES

(* The slots with their status bit set are the consecutive ones from the   *)
(* oldest up to head, wherever dequeue() was interrupted; in particular    *)
(* head = tail means empty or full, never anything between                 *)
(* (Queue.c:49-75 against Queue.c:85-102).                                 *)
RingContiguous ==
    \A k \in Slots : /\ Occupied(SlotAt(k)) <=> k < Pending
                     /\ head = SlotAt(k) => Pending \in {k, MAXINUMQUEUES}

(* The PendSV handler leaves no task behind that nobody will come back     *)
(* for: what an interrupt enqueues after the handler has seen the ring     *)
(* empty has set the pending bit (PendSVHandler.c:67-70).  While thread    *)
(* code runs and PendSV is not pending, the ring holds only tasks of       *)
(* thread code, which enqueues without a trigger (messageatmel.c:55).      *)
NoneLeftBehind ==
    \A i \in Slots : Occupied(i) /\ ~ pendsv =>
        /\ pc # "leave"
        /\ pc = "thread" => array[i].function \in ThreadTasks

(* The ring is a bounded first-in first-out line: accepted tasks start     *)
(* exactly once and in order, and a task is refused - and interrupts left  *)
(* disabled - only when MAXINUMQUEUES of them wait (Queue.h:30-40).        *)
Fifo == INSTANCE TaskFifo WITH
            queue <- [k \in 1 .. Pending |-> array[SlotAt(k - 1)].function],
            serving <- IF pc = "run" THEN func_ ELSE NoTask,
            overrun <- primask
QueueSpec == Fifo!Spec

(* Every task that is in the ring when PendSV is pending or at work is     *)
(* taken out of it, unless a full ring left interrupts disabled or the     *)
(* handler is in a task that never returns (PendSVHandler.c:59).  Tasks of *)
(* thread code wait until somebody triggers PendSV, which may be never.    *)
TasksStart ==
    \A i \in Slots :
        Occupied(i) /\ (pendsv \/ pc # "thread")
            ~> ~ Occupied(i) \/ primask \/ func_ \in Endless

(* "when PendSV is called, it will check the Queue" (PendSVHandler.c:41).  *)
TriggeredRuns == pendsv ~> pc = "dequeue"

(* "it will back back where it is from when no task in the queue"          *)
(* (PendSVHandler.c:46): if nothing more comes into the ring, thread code  *)
(* runs again.                                                             *)
BackWhenEmpty ==
    <>[](\A i \in Slots : ~ Occupied(i)) => []<>(pc = "thread")
=============================================================================

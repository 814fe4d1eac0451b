-------------------------------- MODULE Uart --------------------------------
(***************************************************************************)
(* Strings on their way to the terminal (uart.c): send_to_UART() puts a    *)
(* string in the one buffer and defers transmitting_data(), which sends it *)
(* character by character and gives its block back.                        *)
(*                                                                         *)
(* Process() sends from thread code and can be preempted between any two   *)
(* statements; tasks that print (get_received_char, update_the_next_value) *)
(* send from PendSV, where nothing else touches the buffer.  PendSV        *)
(* preempts thread code as soon as a task is queued.  The task ring is     *)
(* TaskQueue's: a full one refuses the task and leaves interrupts disabled *)
(* until the next task is accepted; that it fills up before PendSV is      *)
(* entered is left to TaskQueue.  The allocator is Memory's, so an address *)
(* inside a block frees the block - which need not be the string's own:    *)
(* printsectionavailable() writes 9 + 17 * 15 + 1 bytes into a block of    *)
(* 256, so that its end mark lies behind it.  Such a string is a table     *)
(* here; what it writes over in the next block is left out.  A sender that *)
(* gets no block writes through NULL: the model goes no further there.     *)
(***************************************************************************)
EXTENDS Integers, SequencesExt

CONSTANTS
    Blocks,         \* the memory blocks that strings live in
    NULL,           \* no string
    Transmit,       \* the task transmitting_data
    Idle,           \* no task
    MAXINUMQUEUES,  \* slots of the task ring
    MaxStrings      \* the most strings a printing task sends

ASSUME UartAssumption ==
    /\ NULL \notin Blocks
    /\ MAXINUMQUEUES \in Nat \ {0} /\ MaxStrings \in Nat
    /\ Transmit \notin 0 .. MaxStrings
    /\ Idle \notin {Transmit} \cup 0 .. MaxStrings

VARIABLES
    held,           \* the blocks handed out by allocate()
    tables,         \* the blocks whose string is longer than the block
    buffer_TX,      \* the block of the string being sent
    tasks,          \* queued: Transmit, or the number of strings to print
    current,        \* the task PendSV is executing
    primask,        \* interrupts are disabled
    unsent,         \* the ring refused the last transmitting_data()
    pc,             \* where thread code is in send_to_UART()
    data            \* its argument

vars == <<held, tables, buffer_TX, tasks, current, primask, unsent, pc, data>>

InThread == current = Idle /\ tasks = <<>>

-----------------------------------------------------------------------------
(* Slips that would each break one of the properties below.                *)

(* The task that sends the string is not queued.                           *)
QueuedNothing(t) == primask' = FALSE /\ UNCHANGED tasks

(* The buffer is not reset after the last character.                       *)
BufferKept == buffer_TX

(* Its block is not given back.                                            *)
GivenBackNothing(e) == held

-----------------------------------------------------------------------------
(* initialization_uart().                                                  *)
Init ==
    /\ held = {}
    /\ tables = {}
    /\ buffer_TX = NULL
    /\ tasks = <<>>
    /\ current = Idle
    /\ primask = FALSE /\ unsent = FALSE
    /\ pc = "idle"
    /\ data = NULL

(* A string is written into b; tables of the railsystem are too long.      *)
Written(b) == tables' \in {tables \ {b}, tables \cup {b}}

(* enqueue(0, t), and PendSV triggered.                                    *)
Full == Len(tasks) = MAXINUMQUEUES

Queued(t) == /\ tasks' = IF Full THEN tasks ELSE Append(tasks, t)
             /\ primask' = Full

-----------------------------------------------------------------------------
(* Thread code formats a string and calls send_to_UART(data).              *)
ThreadFormat ==
    /\ InThread /\ pc = "idle"
    /\ \E b \in Blocks \ held : held' = held \cup {b} /\ data' = b /\ Written(b)
    /\ pc' = "check"
    /\ UNCHANGED <<buffer_TX, tasks, current, primask, unsent>>

(* if (buffer_TX != NULL)                                                  *)
ThreadCheck ==
    /\ InThread /\ pc = "check"
    /\ pc' = IF buffer_TX # NULL THEN "deallocate" ELSE "assign"
    /\ UNCHANGED <<held, tables, buffer_TX, tasks, current, primask, unsent, data>>

(*     if (deallocate(buffer_TX)) return FALSE;  with the buffer read anew *)
ThreadDeallocate ==
    /\ InThread /\ pc = "deallocate"
    /\ held' = held \ {buffer_TX}
    /\ IF buffer_TX \in held THEN pc' = "idle" /\ data' = NULL
                             ELSE pc' = "assign" /\ UNCHANGED data
    /\ UNCHANGED <<tables, buffer_TX, tasks, current, primask, unsent>>

(* buffer_TX = data;                                                       *)
ThreadAssign ==
    /\ InThread /\ pc = "assign"
    /\ buffer_TX' = data
    /\ pc' = "enqueue"
    /\ UNCHANGED <<held, tables, tasks, current, primask, unsent, data>>

ThreadEnqueue ==
    /\ InThread /\ pc = "enqueue"
    /\ Queued(Transmit)
    /\ unsent' = Full
    /\ pc' = "idle" /\ data' = NULL
    /\ UNCHANGED <<held, tables, buffer_TX, current>>

(* An interrupt defers a task that prints.                                 *)
Interrupt(n) ==
    /\ ~ primask
    /\ Full => current # Idle
    /\ Queued(n)
    /\ UNCHANGED <<held, tables, buffer_TX, current, unsent, pc, data>>

-----------------------------------------------------------------------------
(* PendSV takes the next task.                                             *)
StartTask ==
    /\ current = Idle /\ tasks # <<>>
    /\ current' = Head(tasks)
    /\ tasks' = Tail(tasks)
    /\ UNCHANGED <<held, tables, buffer_TX, primask, unsent, pc, data>>

(* The task prints a string: it allocates b and calls send_to_UART(b).  A  *)
(* buffer_TX that dangles may be b itself.                                 *)
TaskSends ==
    /\ current \in 1 .. MaxStrings
    /\ \E b \in Blocks \ held : LET allocated == held \cup {b} IN
         /\ Written(b)
         /\ \/ /\ buffer_TX \in allocated
               /\ held' = allocated \ {buffer_TX}
               /\ UNCHANGED <<buffer_TX, tasks, primask, unsent>>
            \/ /\ buffer_TX \notin allocated
               /\ held' = allocated
               /\ buffer_TX' = b
               /\ Queued(Transmit)
               /\ unsent' = Full
    /\ current' = current - 1
    /\ UNCHANGED <<pc, data>>

TaskReturns ==
    /\ current = 0
    /\ current' = Idle
    /\ UNCHANGED <<held, tables, buffer_TX, tasks, primask, unsent, pc, data>>

(* The block that bears the end mark of the string in b: of a table it is  *)
(* the next one, or one further on if that has been written again since,   *)
(* or none where memory ends.                                              *)
EndsIn(b) == IF b \in tables THEN (Blocks \ {b}) \cup {NULL} ELSE {b}

(* send_a_char() at the end mark; the characters before it only move the   *)
(* address, and deallocate() frees the block the address has come to.      *)
BufferReset == NULL
GivenBack(e) == held \ {e}

TransmitEnd ==
    /\ current = Transmit /\ buffer_TX # NULL
    /\ \E e \in EndsIn(buffer_TX) : held' = GivenBack(e)
    /\ buffer_TX' = BufferReset
    /\ UNCHANGED <<tables, tasks, current, primask, unsent, pc, data>>

(* With no string in the buffer the task is done.                          *)
TransmitReturns ==
    /\ current = Transmit /\ buffer_TX = NULL
    /\ current' = Idle
    /\ UNCHANGED <<held, tables, buffer_TX, tasks, primask, unsent, pc, data>>

Thread == ThreadCheck \/ ThreadDeallocate \/ ThreadAssign \/ ThreadEnqueue
PendSV == StartTask \/ TaskSends \/ TaskReturns \/ TransmitEnd \/ TransmitReturns

Next == \/ ThreadFormat
        \/ Thread
        \/ \E n \in 1 .. MaxStrings : Interrupt(n)
        \/ PendSV

Spec == Init /\ [][Next]_vars
FairSpec == Spec /\ WF_vars(PendSV) /\ WF_vars(Thread)
-----------------------------------------------------------------------------
(* A string in the buffer has a transmitting_data() to send it, queued or  *)
(* running, unless thread code is just about to queue it or a full ring    *)
(* refused it: however sends from thread code and from PendSV interleave   *)
(* (uart.c:143-153), the buffer holds a string that nobody takes out only  *)
(* if the last enqueue() failed.                                           *)
StringHasATask ==
    \/ buffer_TX = NULL
    \/ Transmit \in Range(tasks) \cup {current}
    \/ pc = "enqueue"
    \/ unsent

(* A buffer whose sender has queued the task empties (uart.c:114), also if *)
(* strings keep coming, as long as there is memory for them.               *)
Drains == (buffer_TX # NULL /\ pc # "enqueue" /\ ~ unsent)
              ~> (buffer_TX = NULL \/ Blocks \subseteq held)

(* A block is lost, held without being the string in the buffer or the one *)
(* thread code is about to put there, only by a send that finds the buffer *)
(* in use and frees the string in it instead of its own (uart.c:143-145),  *)
(* after a full ring has refused a task, or when a table has been sent:    *)
(* neither other strings nor the preemption of thread code between check   *)
(* and assignment lose one.                                                *)
Lost == held \ ({buffer_TX} \cup IF pc = "enqueue" THEN {} ELSE {data})
TableSent == buffer_TX \in tables /\ buffer_TX' = NULL
LostOnlyByDropping ==
    [][~ Lost' \subseteq Lost
         => unsent \/ buffer_TX \in held \ held' \/ TableSent]_vars

(* "deallocate buffer_TX for memory" (uart.c:111): the block of a string   *)
(* that has been sent is free.                                             *)
SentIsFreed == [][TransmitEnd => buffer_TX \notin held']_vars
=============================================================================

----------------------------- MODULE UartProofs ------------------------------
(***************************************************************************)
(* Proofs about Uart for any number of blocks, slots and strings of a      *)
(* task: a string in the buffer has a task, and what becomes of blocks.    *)
(***************************************************************************)
EXTENDS Uart, SequenceTheorems, TLAPS

TaskSet == {Transmit} \cup 0 .. MaxStrings

(* The types, and that a sender in thread code has its string in hand.     *)
Typed ==
    /\ held \subseteq Blocks
    /\ buffer_TX \in Blocks \cup {NULL}
    /\ tasks \in Seq(TaskSet)
    /\ current \in TaskSet \cup {Idle}
    /\ pc \in {"idle", "check", "deallocate", "assign", "enqueue"}
    /\ data \in Blocks \cup {NULL}
    /\ pc = "idle" => data = NULL

(* StringHasATask is inductive given the types: the one sender that could  *)
(* overwrite a string, ThreadAssign, runs when no task is queued.          *)
Inductive == Typed /\ StringHasATask

-----------------------------------------------------------------------------
(* The tasks in the ring.                                                  *)

LEMMA RangeAppend ==
    ASSUME NEW S, NEW s \in Seq(S), NEW e \in S
    PROVE  /\ Append(s, e) \in Seq(S)
           /\ e \in Range(Append(s, e))
           /\ Range(s) \subseteq Range(Append(s, e))
<1>1. /\ Append(s, e) \in Seq(S) /\ Len(s) \in Nat /\ Len(Append(s, e)) = Len(s) + 1
      /\ \A i \in 1 .. Len(s) : Append(s, e)[i] = s[i]
      /\ Append(s, e)[Len(s) + 1] = e
  OBVIOUS
<1>2. DOMAIN s = 1 .. Len(s) /\ DOMAIN Append(s, e) = 1 .. Len(s) + 1
  BY <1>1
<1>3. e \in Range(Append(s, e))
  BY <1>1, <1>2 DEF Range
<1>4. Range(s) \subseteq Range(Append(s, e))
  BY <1>1, <1>2 DEF Range
<1> QED
  BY <1>1, <1>3, <1>4

LEMMA RangeHeadTail ==
    ASSUME NEW S, NEW s \in Seq(S), s # <<>>
    PROVE  /\ Head(s) \in S /\ Tail(s) \in Seq(S)
           /\ Range(s) \subseteq Range(Tail(s)) \cup {Head(s)}
<1>1. /\ Head(s) \in S /\ Tail(s) \in Seq(S) /\ Len(Tail(s)) = Len(s) - 1
      /\ \A i \in 1 .. Len(Tail(s)) : Tail(s)[i] = s[i + 1]
  BY HeadTailProperties
<1>2. Len(s) \in Nat /\ DOMAIN s = 1 .. Len(s) /\ DOMAIN Tail(s) = 1 .. Len(s) - 1 /\ Head(s) = s[1]
  BY <1>1, LenProperties
<1>3. ASSUME NEW i \in 1 .. Len(s), i # 1 PROVE s[i] \in Range(Tail(s))
  <2>1. PICK j : j = i - 1
    OBVIOUS
  <2>2. j \in 1 .. Len(s) - 1 /\ j + 1 = i
    BY <2>1, <1>2, <1>3
  <2> QED
    BY <2>2, <1>1, <1>2 DEF Range
<1> QED
  BY <1>1, <1>2, <1>3 DEF Range

(* Queueing a task keeps those queued, and puts it among them unless the   *)
(* ring is full.                                                           *)
LEMMA QueuedTasks ==
    ASSUME Typed, NEW t \in TaskSet, Queued(t)
    PROVE  /\ tasks' \in Seq(TaskSet)
           /\ Range(tasks) \subseteq Range(tasks')
           /\ Full \/ t \in Range(tasks')
<1>1. tasks \in Seq(TaskSet)
  BY DEF Typed
<1> QED
  BY <1>1, RangeAppend DEF Queued

-----------------------------------------------------------------------------
LEMMA InductiveInit == Init => Inductive
  BY UartAssumption DEF Init, Inductive, Typed, StringHasATask

LEMMA TypedNext == Typed /\ [Next]_vars => Typed'
<1> SUFFICES ASSUME Typed, [Next]_vars PROVE Typed'
  OBVIOUS
<1>1. MaxStrings \in Nat /\ Transmit \in TaskSet
  BY UartAssumption DEF TaskSet
<1>2. ASSUME ThreadFormat PROVE Typed'
  BY <1>2 DEF ThreadFormat, Typed
<1>3. ASSUME ThreadCheck \/ ThreadDeallocate \/ ThreadAssign PROVE Typed'
  BY <1>3 DEF ThreadCheck, ThreadDeallocate, ThreadAssign, Typed
<1>4. ASSUME ThreadEnqueue PROVE Typed'
  <2>1. tasks' \in Seq(TaskSet)
    BY <1>1, <1>4, QueuedTasks DEF ThreadEnqueue
  <2> QED
    BY <2>1, <1>4 DEF ThreadEnqueue, Typed
<1>5. ASSUME NEW n \in 1 .. MaxStrings, Interrupt(n) PROVE Typed'
  <2>1. n \in TaskSet
    BY <1>1 DEF TaskSet
  <2>2. tasks' \in Seq(TaskSet)
    BY <2>1, <1>5, QueuedTasks DEF Interrupt
  <2> QED
    BY <2>2, <1>5 DEF Interrupt, Typed
<1>6. ASSUME StartTask PROVE Typed'
  <2>1. current' \in TaskSet /\ tasks' \in Seq(TaskSet)
    BY <1>6, RangeHeadTail DEF StartTask, Typed
  <2> QED
    BY <2>1, <1>6 DEF StartTask, Typed
<1>7. ASSUME TaskSends PROVE Typed'
  <2>1. current' \in TaskSet
    BY <1>1, <1>7 DEF TaskSends, TaskSet
  <2>2. tasks' \in Seq(TaskSet)
    BY <1>1, <1>7, QueuedTasks DEF TaskSends, Typed
  <2>3. held' \subseteq Blocks /\ buffer_TX' \in Blocks \cup {NULL} /\ UNCHANGED <<pc, data>>
    BY <1>7 DEF TaskSends, Typed
  <2> QED
    BY <2>1, <2>2, <2>3 DEF Typed
<1>8. ASSUME TaskReturns \/ TransmitEnd \/ TransmitReturns PROVE Typed'
  BY <1>8 DEF TaskReturns, TransmitEnd, TransmitReturns, GivenBack, BufferReset, Typed
<1>9. ASSUME UNCHANGED vars PROVE Typed'
  BY <1>9 DEF vars, Typed
<1> QED
  BY <1>2, <1>3, <1>4, <1>5, <1>6, <1>7, <1>8, <1>9 DEF Next, Thread, PendSV

LEMMA InductiveNext == Inductive /\ [Next]_vars => Inductive'
<1> SUFFICES ASSUME Typed, StringHasATask, [Next]_vars PROVE StringHasATask'
  BY TypedNext DEF Inductive
<1>1. /\ MaxStrings \in Nat /\ Transmit \in TaskSet /\ Transmit \notin 0 .. MaxStrings
      /\ Transmit # Idle /\ tasks \in Seq(TaskSet)
  BY UartAssumption DEF TaskSet, Typed
<1>2. ASSUME ThreadFormat \/ ThreadCheck \/ ThreadDeallocate PROVE StringHasATask'
  BY <1>2 DEF ThreadFormat, ThreadCheck, ThreadDeallocate, StringHasATask
<1>3. ASSUME ThreadAssign PROVE StringHasATask'
  BY <1>3 DEF ThreadAssign, StringHasATask
<1>4. ASSUME ThreadEnqueue PROVE StringHasATask'
  <2>1. Full \/ Transmit \in Range(tasks')
    BY <1>1, <1>4, QueuedTasks DEF ThreadEnqueue
  <2> QED
    BY <2>1, <1>4 DEF ThreadEnqueue, StringHasATask
<1>5. ASSUME NEW n \in 1 .. MaxStrings, Interrupt(n) PROVE StringHasATask'
  <2>1. n \in TaskSet
    BY <1>1 DEF TaskSet
  <2>2. Range(tasks) \subseteq Range(tasks')
    BY <2>1, <1>5, QueuedTasks DEF Interrupt
  <2> QED
    BY <2>2, <1>5 DEF Interrupt, StringHasATask
<1>6. ASSUME StartTask PROVE StringHasATask'
  <2>1. Range(tasks) \subseteq Range(tasks') \cup {current'}
    BY <1>1, <1>6, RangeHeadTail DEF StartTask
  <2> QED
    BY <2>1, <1>1, <1>6 DEF StartTask, StringHasATask
<1>7. ASSUME TaskSends PROVE StringHasATask'
  <2>1. current # Transmit
    BY <1>1, <1>7 DEF TaskSends
  <2>2. CASE UNCHANGED <<buffer_TX, tasks, unsent>>
    BY <2>1, <2>2, <1>7 DEF TaskSends, StringHasATask
  <2>3. CASE Queued(Transmit) /\ unsent' = Full
    <3>1. Full \/ Transmit \in Range(tasks')
      BY <2>3, <1>1, QueuedTasks
    <3> QED
      BY <3>1, <2>3 DEF StringHasATask
  <2> QED
    BY <2>2, <2>3, <1>7 DEF TaskSends
<1>8. ASSUME TaskReturns PROVE StringHasATask'
  BY <1>1, <1>8 DEF TaskReturns, StringHasATask
<1>9. ASSUME TransmitEnd \/ TransmitReturns PROVE StringHasATask'
  BY <1>9 DEF TransmitEnd, TransmitReturns, BufferReset, StringHasATask
<1>10. ASSUME UNCHANGED vars PROVE StringHasATask'
  BY <1>10 DEF vars, StringHasATask
<1> QED
  BY <1>2, <1>3, <1>4, <1>5, <1>6, <1>7, <1>8, <1>9, <1>10 DEF Next, Thread, PendSV

LEMMA InductiveInvariant == Spec => []Inductive
  BY InductiveInit, InductiveNext, PTL DEF Spec

(* Whatever the sizes of memory, ring and tasks, and wherever thread code  *)
(* is preempted in send_to_UART(), the buffer holds a string that nobody   *)
(* will take out only if a full ring refused its task (uart.c:143-153).    *)
THEOREM StringCorrect == Spec => []StringHasATask
<1>1. Inductive => StringHasATask
  BY DEF Inductive
<1> QED
  BY <1>1, InductiveInvariant, PTL

-----------------------------------------------------------------------------
LEMMA LostNext ==
    ASSUME Inductive, Next
    PROVE  ~ Lost' \subseteq Lost => unsent \/ buffer_TX \in held \ held' \/ TableSent
<1> USE DEF Inductive, Typed, Lost
<1>1. NULL \notin held
  BY UartAssumption
<1>2. ASSUME ThreadFormat PROVE Lost' \subseteq Lost
  BY <1>1, <1>2 DEF ThreadFormat
<1>3. ASSUME ThreadCheck PROVE Lost' \subseteq Lost
  BY <1>3 DEF ThreadCheck
<1>4. ASSUME ThreadDeallocate PROVE Lost' \subseteq Lost \/ buffer_TX \in held \ held'
  BY <1>4 DEF ThreadDeallocate
<1>5. ASSUME ThreadAssign PROVE Lost' \subseteq Lost \/ unsent
  <2>1. tasks = <<>> /\ current = Idle /\ pc = "assign"
    BY <1>5 DEF ThreadAssign, InThread
  <2>2. Transmit \notin Range(tasks) \cup {current}
    BY <2>1, UartAssumption DEF Range
  <2>3. buffer_TX = NULL \/ unsent
    BY <2>1, <2>2 DEF StringHasATask
  <2> QED
    BY <2>3, <1>1, <1>5 DEF ThreadAssign
<1>6. ASSUME ThreadEnqueue PROVE Lost' \subseteq Lost
  BY <1>6 DEF ThreadEnqueue
<1>7. ASSUME NEW n \in 1 .. MaxStrings, Interrupt(n) PROVE Lost' \subseteq Lost
  BY <1>7 DEF Interrupt
<1>8. ASSUME StartTask \/ TaskReturns \/ TransmitReturns PROVE Lost' \subseteq Lost
  BY <1>8 DEF StartTask, TaskReturns, TransmitReturns
<1>9. ASSUME TaskSends PROVE Lost' \subseteq Lost \/ buffer_TX \in held \ held'
  BY <1>9 DEF TaskSends
<1>10. ASSUME TransmitEnd PROVE Lost' \subseteq Lost \/ TableSent
  <2>1. CASE buffer_TX \in tables
    BY <2>1, <1>10 DEF TransmitEnd, BufferReset, TableSent
  <2>2. CASE buffer_TX \notin tables
    BY <2>2, <1>10 DEF TransmitEnd, EndsIn, GivenBack, BufferReset
  <2> QED
    BY <2>1, <2>2
<1> QED
  BY <1>2, <1>3, <1>4, <1>5, <1>6, <1>7, <1>8, <1>9, <1>10 DEF Next, Thread, PendSV

(* Preempting thread code between the check of the buffer and its          *)
(* assignment loses no block: only dropping the string in the buffer for   *)
(* another does, or the sends after a refused task (uart.c:143-157), or    *)
(* the end of a table that is longer than its block (railsystem.c:75-98).  *)
THEOREM BlocksCorrect == Spec => LostOnlyByDropping
<1>1. Inductive /\ [Next]_vars
        => [~ Lost' \subseteq Lost
              => unsent \/ buffer_TX \in held \ held' \/ TableSent]_vars
  BY LostNext
<1> QED
  BY <1>1, InductiveInvariant, PTL DEF Spec, LostOnlyByDropping
=============================================================================

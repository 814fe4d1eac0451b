--------------------------- MODULE TaskQueueProofs ---------------------------
(***************************************************************************)
(* Proofs about TaskQueue for every number of slots and every set of       *)
(* tasks: typing, the contiguity of the ring, that no task is left behind, *)
(* and the refinement of TaskFifo.                                         *)
(***************************************************************************)
EXTENDS TaskQueue, FiniteSetTheorems, FunctionTheorems, SequenceTheorems, TLAPS

M == MAXINUMQUEUES

-----------------------------------------------------------------------------
(* Arithmetic of the ring.                                                 *)

(* Going at most once round wraps at the last slot.                        *)
LEMMA Wrap ==
    ASSUME NEW o \in Slots, NEW k \in 0 .. M
    PROVE  (o + k) % M = IF o + k < M THEN o + k ELSE o + k - M
<1>1. M \in Nat \ {0, 1} /\ o \in 0 .. M - 1
  BY RingAssumption DEF M, Slots
<1>2. \A q \in Nat, r \in 0 .. M - 1, a \in Nat : a = q * M + r => a % M = r
  BY <1>1
<1>3. CASE o + k < M
  <2>1. o + k = 0 * M + (o + k) /\ o + k \in 0 .. M - 1 /\ o + k \in Nat
    BY <1>1, <1>3
  <2> QED
    BY <2>1, <1>2, <1>3
<1>4. CASE ~ o + k < M
  <2>1. o + k = 1 * M + (o + k - M) /\ o + k - M \in 0 .. M - 1 /\ o + k \in Nat
    BY <1>1, <1>4
  <2> QED
    BY <2>1, <1>2, <1>4
<1> QED
  BY <1>3, <1>4

LEMMA WrapInSlots ==
    ASSUME NEW o \in Slots, NEW k \in 0 .. M
    PROVE  (o + k) % M \in Slots
  BY Wrap, RingAssumption DEF M, Slots

LEMMA NextSlotWraps ==
    ASSUME NEW i \in Slots
    PROVE  /\ NextSlot(i) = IF i + 1 = M THEN 0 ELSE i + 1
           /\ NextSlot(i) \in Slots
<1>1. NextSlot(i) = IF i + 1 < M THEN i + 1 ELSE i + 1 - M
  BY Wrap, RingAssumption DEF NextSlot, M, Slots
<1> QED
  BY <1>1, RingAssumption DEF M, Slots

(* Distinct distances from a slot lead to distinct slots.                  *)
LEMMA WrapInjective ==
    ASSUME NEW o \in Slots, NEW j \in Slots, NEW k \in Slots, (o + j) % M = (o + k) % M
    PROVE  j = k
<1>1. M \in Nat /\ o \in 0 .. M - 1 /\ j \in 0 .. M - 1 /\ k \in 0 .. M - 1
  BY RingAssumption DEF M, Slots
<1>2. /\ (o + j) % M = IF o + j < M THEN o + j ELSE o + j - M
      /\ (o + k) % M = IF o + k < M THEN o + k ELSE o + k - M
  BY <1>1, Wrap
<1>3. PICK x, y : /\ x = y /\ x = IF o + j < M THEN o + j ELSE o + j - M
                  /\ y = IF o + k < M THEN o + k ELSE o + k - M
  BY <1>2
<1> QED
  BY <1>1, <1>3

(* Every slot is at some distance.                                         *)
LEMMA WrapOnto ==
    ASSUME NEW o \in Slots, NEW i \in Slots
    PROVE  \E k \in Slots : i = (o + k) % M
<1>1. CASE i >= o
  <2>1. PICK k : k = i - o
    OBVIOUS
  <2>2. k \in Slots /\ k \in 0 .. M /\ o + k = i /\ o + k < M
    BY <1>1, <2>1, RingAssumption DEF M, Slots
  <2> QED
    BY <2>2, Wrap
<1>2. CASE i < o
  <2>1. PICK k : k = i - o + M
    OBVIOUS
  <2>2. k \in Slots /\ k \in 0 .. M /\ o + k - M = i /\ ~ o + k < M
    BY <1>2, <2>1, RingAssumption DEF M, Slots
  <2> QED
    BY <2>2, Wrap
<1> QED
  BY <1>1, <1>2, RingAssumption DEF Slots

(* A step further from a slot is a step from the next one.                 *)
LEMMA WrapNext ==
    ASSUME NEW o \in Slots, NEW k \in 0 .. M - 1
    PROVE  /\ NextSlot((o + k) % M) = (o + (k + 1)) % M
           /\ (NextSlot(o) + k) % M = (o + (k + 1)) % M
<1>1. M \in Nat \ {0, 1} /\ o \in 0 .. M - 1 /\ k + 1 \in 0 .. M /\ k \in 0 .. M
  BY RingAssumption DEF M, Slots
<1>2. PICK a : a = (o + k) % M
  OBVIOUS
<1>3. PICK b : b = (o + (k + 1)) % M
  OBVIOUS
<1>4. PICK c : c = NextSlot(o)
  OBVIOUS
<1>5. /\ a \in Slots /\ a = IF o + k < M THEN o + k ELSE o + k - M
      /\ b = IF o + (k + 1) < M THEN o + (k + 1) ELSE o + (k + 1) - M
      /\ c \in Slots /\ c = IF o + 1 = M THEN 0 ELSE o + 1
  BY <1>1, <1>2, <1>3, <1>4, Wrap, WrapInSlots, NextSlotWraps
<1>6. NextSlot(a) = b
  <2>1. NextSlot(a) = IF a + 1 = M THEN 0 ELSE a + 1
    BY <1>5, NextSlotWraps
  <2>2. (IF a + 1 = M THEN 0 ELSE a + 1) = b
    BY <1>1, <1>5
  <2> QED
    BY <2>1, <2>2
<1>7. (c + k) % M = b
  <2>1. (c + k) % M = IF c + k < M THEN c + k ELSE c + k - M
    BY <1>1, <1>5, Wrap
  <2>2. (IF c + k < M THEN c + k ELSE c + k - M) = b
    BY <1>1, <1>5
  <2> QED
    BY <2>1, <2>2
<1> QED
  BY <1>2, <1>3, <1>4, <1>6, <1>7

(* The slot before the next one of a slot is that slot.                    *)
LEMMA TakenBefore ==
    ASSUME NEW i \in Slots, tail = NextSlot(i)
    PROVE  Taken = i
  BY NextSlotWraps, RingAssumption DEF Taken, M, Slots

-----------------------------------------------------------------------------
(* The inductive invariant.                                                *)

(* The n slots from slot o on are those with a status bit, head is behind  *)
(* them, and what they bear are tasks.                                     *)
Filled(o, n) ==
    /\ \A k \in Slots : Occupied((o + k) % M) <=> k < n
    /\ head = (o + n) % M
    /\ \A i \in Slots : Occupied(i) => array[i].function \in Tasks

(* What dequeue() has loaded is in the oldest slot until its bit is        *)
(* cleared, and the handler calls a task.                                  *)
Loaded ==
    /\ pc \in {"advance", "clear"} => Occupied(Oldest) /\ func_ = array[Oldest].function
    /\ pc = "run" => func_ \in Tasks

Inductive ==
    /\ TypeOK
    /\ \E n \in 0 .. M : Filled(Oldest, n)
    /\ Loaded
    /\ NoneLeftBehind

LEMMA OldestInSlots == TypeOK => Oldest \in Slots
  BY RingAssumption DEF TypeOK, Oldest, Taken, Slots

LEMMA SlotsOf == M \in Nat \ {0, 1} /\ Slots = 0 .. M - 1
  BY RingAssumption DEF M, Slots

(* The first slot is at distance 0, and again at distance M.               *)
LEMMA WrapAround ==
    ASSUME NEW o \in Slots
    PROVE  (o + 0) % M = o /\ (o + M) % M = o
<1>1. /\ M \in Nat \ {0, 1} /\ 0 \in 0 .. M /\ M \in 0 .. M
      /\ o \in 0 .. M - 1
  BY SlotsOf
<1>2. /\ (o + 0) % M = IF o + 0 < M THEN o + 0 ELSE o + 0 - M
      /\ (o + M) % M = IF o + M < M THEN o + M ELSE o + M - M
  BY <1>1, Wrap
<1>3. /\ (IF o + 0 < M THEN o + 0 ELSE o + 0 - M) = o
      /\ (IF o + M < M THEN o + M ELSE o + M - M) = o
  BY <1>1
<1> QED
  BY <1>2, <1>3

(* enqueue() accepts a task behind the others, or finds the ring full.     *)
LEMMA EnqueueFills ==
    ASSUME TypeOK, NEW o \in Slots, NEW n \in 0 .. M, Filled(o, n),
           NEW t \in Tasks, enqueue(t)
    PROVE  \/ /\ n < M /\ primask' = FALSE /\ Filled(o, n + 1)'
              /\ ~ Occupied(head) /\ head' \in Slots
              /\ array' = [array EXCEPT ![head] = [status |-> 1, function |-> t]]
           \/ /\ n = M /\ primask' = TRUE /\ UNCHANGED <<array, head>>
<1>1. M \in Nat \ {0, 1} /\ Slots = 0 .. M - 1 /\ n \in Nat /\ n <= M
  BY SlotsOf
<1>2. head = (o + n) % M /\ head \in Slots /\ array \in [Slots -> [status : {0, 1}, function : Tasks \cup {NoTask}]]
  BY DEF Filled, TypeOK
<1>3. CASE n < M
  <2> n \in 0 .. M - 1 /\ n \in Slots
    BY <1>1, <1>3
  <2>1. ~ Occupied(head)
    <3>1. Occupied((o + n) % M) <=> n < n
      BY DEF Filled
    <3> QED
      BY <3>1, <1>1, <1>2
  <2>2. /\ array' = [array EXCEPT ![head] = [status |-> 1, function |-> t]]
        /\ head' = NextSlot(head) /\ primask' = FALSE
    BY <2>1 DEF enqueue, SlotFree
  <2>3. head' = (o + (n + 1)) % M /\ head' \in Slots
    BY <2>2, <1>2, WrapNext, NextSlotWraps
  <2>4. ASSUME NEW k \in Slots PROVE Occupied((o + k) % M)' <=> k < n + 1
    <3>1. PICK i : i = (o + k) % M
      OBVIOUS
    <3>2. i \in Slots
      BY <3>1, <1>1, WrapInSlots
    <3>3. i = head <=> k = n
      BY <3>1, <1>2, WrapInjective
    <3>4. Occupied(i) <=> k < n
      BY <3>1 DEF Filled
    <3>5. Occupied(i)' <=> (i = head \/ Occupied(i))
      BY <2>2, <1>2, <3>2 DEF Occupied
    <3> QED
      BY <3>1, <3>3, <3>4, <3>5, <1>1
  <2>5. ASSUME NEW i \in Slots, Occupied(i)' PROVE array'[i].function \in Tasks
    <3>1. CASE i = head
      BY <3>1, <2>2, <1>2
    <3>2. CASE i # head
      BY <3>2, <2>2, <2>5, <1>2 DEF Filled, Occupied
    <3> QED
      BY <3>1, <3>2
  <2>6. Filled(o, n + 1)'
    BY <2>3, <2>4, <2>5 DEF Filled
  <2> QED
    BY <2>1, <2>2, <2>3, <2>6, <1>3
<1>4. CASE n = M
  <2>1. Occupied((o + 0) % M) <=> 0 < M
    BY <1>1, <1>4 DEF Filled
  <2>2. head = o /\ Occupied(o)
    BY <2>1, <1>1, <1>2, <1>4, WrapAround
  <2> QED
    BY <2>2, <1>4 DEF enqueue, SlotFree
<1>5. n < M \/ n = M
  BY <1>1
<1> QED
  BY <1>3, <1>4, <1>5

(* Clearing the oldest slot's bit leaves one task less, from the next slot *)
(* on.                                                                     *)
LEMMA ClearDrops ==
    ASSUME TypeOK, NEW o \in Slots, NEW n \in 0 .. M, Filled(o, n), Occupied(o),
           array' = [array EXCEPT ![o].status = 0], head' = head
    PROVE  n - 1 \in 0 .. M /\ Filled(NextSlot(o), n - 1)'
<1>1. M \in Nat \ {0, 1} /\ Slots = 0 .. M - 1 /\ n \in Nat
  BY SlotsOf
<1>2. n > 0
  BY <1>1, WrapAround DEF Filled
<1>3. n - 1 \in 0 .. M - 1 /\ NextSlot(o) \in Slots
  BY <1>1, <1>2, NextSlotWraps
<1>4. array \in [Slots -> [status : {0, 1}, function : Tasks \cup {NoTask}]]
  BY DEF TypeOK
<1>5. head' = (NextSlot(o) + (n - 1)) % M
  <2>1. (NextSlot(o) + (n - 1)) % M = (o + ((n - 1) + 1)) % M
    BY <1>3, WrapNext
  <2>2. (n - 1) + 1 = n
    BY <1>1
  <2> QED
    BY <2>1, <2>2 DEF Filled
<1>6. ASSUME NEW k \in Slots PROVE Occupied((NextSlot(o) + k) % M)' <=> k < n - 1
  <2>1. PICK i : i = (o + (k + 1)) % M
    OBVIOUS
  <2> k \in 0 .. M - 1 /\ k + 1 \in 0 .. M
    BY <1>1
  <2>2. i = (NextSlot(o) + k) % M /\ i \in Slots
    BY <2>1, WrapNext, WrapInSlots
  <2>3. CASE k + 1 = M
    <3>1. i = o
      BY <2>1, <2>3, WrapAround
    <3> QED
      BY <3>1, <2>2, <2>3, <1>1, <1>4 DEF Occupied
  <2>4. CASE k + 1 # M
    <3>1. k + 1 \in Slots /\ 0 \in Slots
      BY <2>4, <1>1
    <3>2. i # o
      <4>1. k + 1 # 0 /\ (o + 0) % M = o
        BY <1>1, WrapAround
      <4> QED
        BY <4>1, <3>1, <2>1, WrapInjective
    <3>3. Occupied(i)' <=> Occupied(i)
      BY <3>2, <2>2, <1>4 DEF Occupied
    <3>4. Occupied(i) <=> k + 1 < n
      BY <3>1, <2>1 DEF Filled
    <3> QED
      BY <3>3, <3>4, <2>2, <1>1
  <2> QED
    BY <2>3, <2>4
<1>7. ASSUME NEW i \in Slots, Occupied(i)' PROVE array'[i].function \in Tasks
  <2>1. i # o
    BY <1>7, <1>4 DEF Occupied
  <2> QED
    BY <2>1, <1>7, <1>4 DEF Occupied, Filled
<1>8. Filled(NextSlot(o), n - 1)'
  <2>1. (NextSlot(o))' = NextSlot(o)
    BY DEF NextSlot
  <2> QED
    BY <2>1, <1>5, <1>6, <1>7 DEF Filled
<1> QED
  BY <1>1, <1>3, <1>8

-----------------------------------------------------------------------------
(* The invariant is preserved.                                             *)

LEMMA InductiveInit == Init => Inductive
<1> SUFFICES ASSUME Init PROVE Inductive
  OBVIOUS
<1>1. M \in Nat \ {0, 1} /\ Slots = 0 .. M - 1 /\ 0 \in Slots /\ 0 \in 0 .. M
  BY SlotsOf
<1>2. TypeOK
  BY <1>1 DEF Init, TypeOK, Locations
<1>3. Oldest = 0
  BY DEF Init, Oldest
<1>4. Filled(0, 0)
  <2>1. \A i \in Slots : ~ Occupied(i)
    BY DEF Init, Occupied
  <2>2. head = (0 + 0) % M
    BY <1>1, WrapAround DEF Init
  <2>3. ASSUME NEW k \in Slots PROVE Occupied((0 + k) % M) <=> k < 0
    <3>1. k \in 0 .. M /\ ~ k < 0
      BY <1>1
    <3> QED
      BY <3>1, <2>1, <1>1, WrapInSlots
  <2> QED
    BY <2>1, <2>2, <2>3 DEF Filled
<1>5. Loaded /\ NoneLeftBehind
  BY DEF Init, Loaded, NoneLeftBehind, Occupied
<1> QED
  BY <1>1, <1>2, <1>3, <1>4, <1>5 DEF Inductive

(* A slot is nothing but its record.                                       *)
LEMMA SlotBits ==
    ASSUME TypeOK, NEW i \in Slots
    PROVE  array[i].status \in {0, 1} /\ array[i].function \in Tasks \cup {NoTask}
  BY DEF TypeOK

(* enqueue(), whoever calls it, leaves what the handler has loaded alone.  *)
LEMMA EnqueueKeeps ==
    ASSUME TypeOK, NEW n \in 0 .. M, Filled(Oldest, n), Loaded,
           NEW t \in Tasks, enqueue(t), UNCHANGED <<tail, pc, func_>>, pendsv' \in BOOLEAN
    PROVE  TypeOK' /\ (\E m \in 0 .. M : Filled(Oldest, m)') /\ Loaded'
<1>1. PICK o \in Slots : o = Oldest
  BY OldestInSlots
<1>2. Oldest' = o
  BY <1>1 DEF Oldest, Taken
<1>3. M \in Nat \ {0, 1} /\ n \in Nat /\ n <= M
  BY SlotsOf
<1>4. CASE /\ n < M /\ primask' = FALSE /\ Filled(o, n + 1)'
           /\ ~ Occupied(head) /\ head' \in Slots
           /\ array' = [array EXCEPT ![head] = [status |-> 1, function |-> t]]
  <2>1. TypeOK'
    BY <1>4 DEF TypeOK
  <2>2. \E m \in 0 .. M : Filled(Oldest, m)'
    <3>1. n + 1 \in 0 .. M
      BY <1>3, <1>4
    <3>2. Filled(Oldest, n + 1)'
      BY <1>2, <1>4 DEF Filled
    <3> QED
      BY <3>1, <3>2
  <2>3. Loaded'
    <3>1. ASSUME pc \in {"advance", "clear"} PROVE array'[o] = array[o]
      <4>1. Occupied(o)
        BY <3>1, <1>1 DEF Loaded
      <4>2. o # head
        BY <4>1, <1>4
      <4> QED
        BY <4>2, <1>4 DEF TypeOK
    <3> QED
      BY <3>1, <1>1, <1>2 DEF Loaded, Occupied
  <2> QED
    BY <2>1, <2>2, <2>3
<1>5. CASE n = M /\ primask' = TRUE /\ UNCHANGED <<array, head>>
  <2>1. Filled(Oldest, n)'
    BY <1>1, <1>2, <1>5 DEF Filled, Occupied
  <2>2. TypeOK' /\ Loaded'
    BY <1>1, <1>2, <1>5 DEF TypeOK, Loaded, Occupied
  <2> QED
    BY <2>1, <2>2
<1> QED
  <2>1. Filled(o, n)
    BY <1>1
  <2> QED
    BY <2>1, <1>4, <1>5, EnqueueFills

(* Steps that leave the ring alone, as long as the oldest slot stays.      *)
LEMMA RingKept ==
    ASSUME NEW n \in 0 .. M, Filled(Oldest, n), UNCHANGED <<array, head, Oldest>>
    PROVE  \E m \in 0 .. M : Filled(Oldest, m)'
<1>1. Filled(Oldest, n)'
  BY DEF Filled, Occupied
<1> QED
  BY <1>1

LEMMA InductiveNext == Inductive /\ [Next]_vars => Inductive'
<1> SUFFICES ASSUME TypeOK, NEW n \in 0 .. M, Filled(Oldest, n), Loaded, NoneLeftBehind,
                    [Next]_vars
             PROVE  TypeOK' /\ (\E m \in 0 .. M : Filled(Oldest, m)') /\ Loaded' /\ NoneLeftBehind'
  BY DEF Inductive
<1>1. ASSUME NEW t \in ThreadTasks, ThreadEnqueue(t)
      PROVE  TypeOK' /\ (\E m \in 0 .. M : Filled(Oldest, m)') /\ Loaded' /\ NoneLeftBehind'
  <2>1. t \in Tasks /\ enqueue(t) /\ UNCHANGED <<tail, pc, func_>> /\ pendsv' \in BOOLEAN
    BY <1>1, TasksAssumption DEF ThreadEnqueue, TypeOK
  <2>2. NoneLeftBehind'
    <3>1. ASSUME NEW i \in Slots, array'[i].status = 1, ~ pendsv'
          PROVE  array'[i].function \in ThreadTasks
      BY <3>1, <1>1 DEF ThreadEnqueue, enqueue, SlotFree, NoneLeftBehind, Occupied, TypeOK
    <3> QED
      BY <3>1, <1>1 DEF ThreadEnqueue, NoneLeftBehind, Occupied
  <2> QED
    BY <2>1, <2>2, EnqueueKeeps
<1>2. ASSUME ThreadTrigger
      PROVE  TypeOK' /\ (\E m \in 0 .. M : Filled(Oldest, m)') /\ Loaded' /\ NoneLeftBehind'
  <2>1. Oldest' = Oldest
    BY <1>2 DEF ThreadTrigger, Oldest, Taken
  <2>2. TypeOK' /\ Loaded' /\ NoneLeftBehind'
    BY <2>1, <1>2 DEF ThreadTrigger, TypeOK, Loaded, NoneLeftBehind, Occupied
  <2> QED
    BY <2>1, <2>2, <1>2, RingKept DEF ThreadTrigger
<1>3. ASSUME NEW t \in InterruptTasks, Interrupt(t)
      PROVE  TypeOK' /\ (\E m \in 0 .. M : Filled(Oldest, m)') /\ Loaded' /\ NoneLeftBehind'
  <2>1. t \in Tasks /\ enqueue(t) /\ UNCHANGED <<tail, pc, func_>> /\ pendsv' = TRUE
    BY <1>3, TasksAssumption DEF Interrupt, InterruptTrigger
  <2>2. NoneLeftBehind'
    BY <2>1 DEF NoneLeftBehind
  <2> QED
    BY <2>1, <2>2, EnqueueKeeps
<1>4. ASSUME NEW t \in Tasks, TaskEnqueue(t)
      PROVE  TypeOK' /\ (\E m \in 0 .. M : Filled(Oldest, m)') /\ Loaded' /\ NoneLeftBehind'
  <2>1. enqueue(t) /\ UNCHANGED <<tail, pc, func_>> /\ pendsv' \in BOOLEAN
    BY <1>4 DEF TaskEnqueue, TypeOK
  <2>2. NoneLeftBehind'
    BY <1>4 DEF TaskEnqueue, NoneLeftBehind
  <2> QED
    BY <2>1, <2>2, EnqueueKeeps
<1>5. ASSUME EnterPendSV
      PROVE  TypeOK' /\ (\E m \in 0 .. M : Filled(Oldest, m)') /\ Loaded' /\ NoneLeftBehind'
  <2>1. Oldest' = Oldest
    BY <1>5 DEF EnterPendSV, Oldest, Taken
  <2>2. TypeOK' /\ Loaded' /\ NoneLeftBehind'
    BY <1>5 DEF EnterPendSV, TypeOK, Locations, Loaded, NoneLeftBehind, Occupied
  <2> QED
    BY <2>1, <2>2, <1>5, RingKept DEF EnterPendSV
<1>6. ASSUME DequeueLoad
      PROVE  TypeOK' /\ (\E m \in 0 .. M : Filled(Oldest, m)') /\ Loaded' /\ NoneLeftBehind'
  <2>1. Oldest = tail /\ Oldest' = tail /\ tail \in Slots
    BY <1>6 DEF DequeueLoad, Oldest, Taken, TypeOK
  <2>2. TypeOK'
    BY <2>1, <1>6, SlotBits DEF DequeueLoad, TypeOK, Locations
  <2>3. Loaded' /\ NoneLeftBehind'
    BY <2>1, <1>6 DEF DequeueLoad, Loaded, NoneLeftBehind, Occupied
  <2> QED
    BY <2>1, <2>2, <2>3, <1>6, RingKept DEF DequeueLoad
<1>7. ASSUME DequeueAdvance
      PROVE  TypeOK' /\ (\E m \in 0 .. M : Filled(Oldest, m)') /\ Loaded' /\ NoneLeftBehind'
  <2>1. tail' = NextSlot(tail) /\ tail' \in Slots /\ tail \in Slots
    BY <1>7, NextSlotWraps DEF DequeueAdvance, AdvancedTail, TypeOK
  <2>2. Oldest = tail
    BY <1>7 DEF DequeueAdvance, Oldest
  <2>3. Oldest' = tail
    <3>1. Oldest' = Taken'
      BY <1>7 DEF DequeueAdvance, Oldest
    <3>2. Taken' = tail
      BY <2>1, NextSlotWraps, RingAssumption DEF Taken, M, Slots
    <3> QED
      BY <3>1, <3>2
  <2>4. TypeOK' /\ Loaded' /\ NoneLeftBehind'
    BY <2>1, <2>2, <2>3, <1>7 DEF DequeueAdvance, TypeOK, Locations, Loaded, NoneLeftBehind, Occupied
  <2> QED
    BY <2>2, <2>3, <2>4, <1>7, RingKept DEF DequeueAdvance
<1>8. ASSUME DequeueClear
      PROVE  TypeOK' /\ (\E m \in 0 .. M : Filled(Oldest, m)') /\ Loaded' /\ NoneLeftBehind'
  <2>1. PICK o \in Slots : o = Oldest
    BY OldestInSlots
  <2>2. o = Taken /\ tail \in Slots
    BY <2>1, <1>8 DEF DequeueClear, Oldest, TypeOK
  <2>3. tail = NextSlot(o)
    BY <2>1, <2>2, NextSlotWraps, RingAssumption DEF Taken, M, Slots
  <2>4. Oldest' = NextSlot(o)
    BY <2>3, <1>8 DEF DequeueClear, Oldest
  <2>5. Occupied(o) /\ func_ = array[o].function
    BY <2>1, <1>8 DEF Loaded, DequeueClear
  <2>6. array' = [array EXCEPT ![o].status = 0] /\ head' = head
    BY <2>2, <1>8 DEF DequeueClear, StatusCleared
  <2>7. \E m \in 0 .. M : Filled(Oldest, m)'
    <3>1. n - 1 \in 0 .. M /\ Filled(NextSlot(o), n - 1)'
      BY <2>1, <2>5, <2>6, ClearDrops
    <3>2. Filled(Oldest, n - 1)'
      BY <3>1, <2>4 DEF Filled, NextSlot
    <3> QED
      BY <3>1, <3>2
  <2>8. func_ \in Tasks
    BY <2>1, <2>5 DEF Filled
  <2>9. TypeOK'
    <3>1. array' \in [Slots -> [status : {0, 1}, function : Tasks \cup {NoTask}]]
      BY <2>6, SlotBits DEF TypeOK
    <3> QED
      BY <3>1, <1>8 DEF DequeueClear, TypeOK, Locations
  <2>10. Loaded' /\ NoneLeftBehind'
    BY <2>8, <1>8 DEF DequeueClear, Loaded, NoneLeftBehind, Occupied
  <2> QED
    BY <2>7, <2>9, <2>10
<1>9. ASSUME DequeueEmpty
      PROVE  TypeOK' /\ (\E m \in 0 .. M : Filled(Oldest, m)') /\ Loaded' /\ NoneLeftBehind'
  <2>1. Oldest = tail /\ Oldest' = tail /\ tail \in Slots
    BY <1>9 DEF DequeueEmpty, Oldest, Taken, TypeOK
  <2>2. TypeOK' /\ Loaded'
    BY <1>9 DEF DequeueEmpty, TypeOK, Locations, Loaded
  <2>3. M \in Nat \ {0, 1} /\ Slots = 0 .. M - 1 /\ n \in Nat
    BY SlotsOf
  <2>4. n = 0
    <3>1. Occupied((tail + 0) % M) <=> 0 < n
      BY <2>1, <2>3 DEF Filled
    <3> QED
      BY <3>1, <2>1, <2>3, <1>9, WrapAround DEF DequeueEmpty
  <2>5. ASSUME NEW i \in Slots PROVE ~ Occupied(i)
    <3>1. PICK k \in Slots : i = (tail + k) % M
      BY <2>1, WrapOnto
    <3>2. Occupied(i) <=> k < n
      BY <3>1, <2>1 DEF Filled
    <3> QED
      BY <3>2, <2>3, <2>4
  <2>6. NoneLeftBehind'
    BY <2>5, <1>9 DEF DequeueEmpty, NoneLeftBehind, Occupied
  <2> QED
    BY <2>1, <2>2, <2>6, <1>9, RingKept DEF DequeueEmpty
<1>10. ASSUME TaskReturns
       PROVE  TypeOK' /\ (\E m \in 0 .. M : Filled(Oldest, m)') /\ Loaded' /\ NoneLeftBehind'
  <2>1. Oldest' = Oldest
    BY <1>10 DEF TaskReturns, Oldest, Taken
  <2>2. TypeOK' /\ Loaded' /\ NoneLeftBehind'
    BY <1>10 DEF TaskReturns, TypeOK, Locations, Loaded, NoneLeftBehind, Occupied
  <2> QED
    BY <2>1, <2>2, <1>10, RingKept DEF TaskReturns
<1>11. ASSUME LeavePendSV
       PROVE  TypeOK' /\ (\E m \in 0 .. M : Filled(Oldest, m)') /\ Loaded' /\ NoneLeftBehind'
  <2>1. Oldest' = Oldest
    BY <1>11 DEF LeavePendSV, Oldest, Taken
  <2>2. TypeOK' /\ Loaded' /\ NoneLeftBehind'
    BY <1>11 DEF LeavePendSV, TypeOK, Locations, Loaded, NoneLeftBehind, Occupied
  <2> QED
    BY <2>1, <2>2, <1>11, RingKept DEF LeavePendSV
<1>12. ASSUME UNCHANGED vars
       PROVE  TypeOK' /\ (\E m \in 0 .. M : Filled(Oldest, m)') /\ Loaded' /\ NoneLeftBehind'
  <2>1. Oldest' = Oldest
    BY <1>12 DEF vars, Oldest, Taken
  <2>2. TypeOK' /\ Loaded' /\ NoneLeftBehind'
    BY <2>1, <1>12 DEF vars, TypeOK, Loaded, NoneLeftBehind, Occupied
  <2> QED
    BY <2>1, <2>2, <1>12, RingKept DEF vars
<1> QED
  BY <1>1, <1>2, <1>3, <1>4, <1>5, <1>6, <1>7, <1>8, <1>9, <1>10, <1>11, <1>12
     DEF Next, Handler

LEMMA InductiveInvariant == Spec => []Inductive
  BY InductiveInit, InductiveNext, PTL DEF Spec

-----------------------------------------------------------------------------
(* The theorems.                                                           *)

(* head, tail and the function loaded never leave their range: enqueue()   *)
(* and dequeue() index the ring within its slots (Queue.c:67-69, 96-100).  *)
THEOREM TypeCorrect == Spec => []TypeOK
<1>1. Inductive => TypeOK
  BY DEF Inductive
<1> QED
  BY <1>1, InductiveInvariant, PTL

(* When the handler has seen the ring empty, nothing lies in it for which  *)
(* PendSV is not pending again; while thread code runs, only what thread   *)
(* code has enqueued itself does (PendSVHandler.c:67-70).                  *)
THEOREM NothingLeftBehind == Spec => []NoneLeftBehind
<1>1. Inductive => NoneLeftBehind
  BY DEF Inductive
<1> QED
  BY <1>1, InductiveInvariant, PTL

(* As many slots have their bit set as the ring is said to hold.           *)
LEMMA BitsCount ==
    ASSUME NEW a, NEW o \in Slots, NEW n \in 0 .. M,
           \A k \in Slots : a[(o + k) % M].status = 1 <=> k < n
    PROVE  Cardinality({i \in Slots : a[i].status = 1}) = n
<1>1. M \in Nat \ {0, 1} /\ Slots = 0 .. M - 1 /\ n \in Nat /\ n <= M
  BY SlotsOf
<1> DEFINE D == 0 .. n - 1
           R == {i \in Slots : a[i].status = 1}
           f == [k \in D |-> (o + k) % M]
<1>2. \A k \in D : k \in Slots /\ k \in 0 .. M /\ k < n
  BY <1>1
<1>3. \A k \in D : f[k] \in R
  BY <1>2, WrapInSlots
<1>4. \A j, k \in D : f[j] = f[k] => j = k
  BY <1>2, WrapInjective
<1>5. ASSUME NEW i \in R PROVE \E k \in D : f[k] = i
  <2>1. PICK k \in Slots : i = (o + k) % M
    BY WrapOnto
  <2>2. k < n
    BY <2>1
  <2>3. k \in D
    BY <2>2, <1>1
  <2> QED
    BY <2>1, <2>3
<1>6. f \in Bijection(D, R)
  <2>1. f \in [D -> R]
    BY <1>3
  <2> QED
    BY <2>1, <1>4, <1>5, Fun_IsBij
<1>7. IsFiniteSet(D) /\ Cardinality(D) = n
  <2>1. 0 \in Int /\ n - 1 \in Int /\ (IF 0 > n - 1 THEN 0 ELSE n - 1 - 0 + 1) = n
    BY <1>1
  <2>2. /\ IsFiniteSet(0 .. n - 1)
        /\ Cardinality(0 .. n - 1) = IF 0 > n - 1 THEN 0 ELSE n - 1 - 0 + 1
    BY <2>1, FS_Interval
  <2> QED
    BY <2>1, <2>2
<1>8. Cardinality(R) = n
  <2>1. ExistsBijection(D, R)
    BY <1>6 DEF ExistsBijection
  <2> HIDE DEF D, R
  <2> QED
    BY <2>1, <1>7, FS_Bijection
<1> QED
  BY <1>8

LEMMA PendingCount ==
    ASSUME NEW o \in Slots, NEW n \in 0 .. M
    PROVE  /\ Filled(o, n) => Pending = n
           /\ Filled(o, n)' => Pending' = n
<1>1. ASSUME Filled(o, n) PROVE Pending = n
  BY <1>1, BitsCount DEF Filled, Occupied, Pending
<1>2. ASSUME Filled(o, n)' PROVE Pending' = n
  BY <1>2, BitsCount DEF Filled, Occupied, Pending
<1> QED
  BY <1>1, <1>2

LEMMA Contiguous == Inductive => RingContiguous
<1> SUFFICES ASSUME TypeOK, NEW n \in 0 .. M, Filled(Oldest, n) PROVE RingContiguous
  BY DEF Inductive
<1>1. PICK o \in Slots : o = Oldest
  BY OldestInSlots
<1>2. Filled(o, n)
  BY <1>1
<1>3. Pending = n
  BY <1>2, PendingCount
<1>4. M \in Nat \ {0, 1} /\ Slots = 0 .. M - 1 /\ n \in Nat /\ n <= M
  BY SlotsOf
<1>5. \A k \in Slots : SlotAt(k) = (o + k) % M
  BY <1>1 DEF SlotAt, M
<1>6. ASSUME NEW k \in Slots, head = (o + k) % M PROVE n \in {k, M}
  <2>1. (o + n) % M = (o + k) % M
    BY <1>2, <1>6 DEF Filled
  <2>2. CASE n < M
    <3>1. n \in Slots
      BY <2>2, <1>4
    <3> QED
      BY <3>1, <2>1, WrapInjective
  <2> QED
    BY <2>2, <1>4
<1>7. \A k \in Slots : Occupied(SlotAt(k)) <=> k < n
  BY <1>2, <1>5 DEF Filled
<1> QED
  BY <1>3, <1>5, <1>6, <1>7 DEF RingContiguous, M

(* Wherever dequeue() is interrupted, the occupied slots are those from    *)
(* the oldest one up to head, and head meets the oldest one only when none *)
(* or all are occupied (Queue.c:49-75 against Queue.c:85-102).             *)
THEOREM RingCorrect == Spec => []RingContiguous
  BY Contiguous, InductiveInvariant, PTL

-----------------------------------------------------------------------------
(* The refinement of TaskFifo.                                             *)

(* The tasks of ring a in the n slots from slot o on, oldest first.        *)
Line(a, o, n) == [k \in 1 .. n |-> a[(o + (k - 1)) % M].function]

(* What TaskFifo's queue stands for.                                       *)
Waiting == [k \in 1 .. Pending |-> array[SlotAt(k - 1)].function]
Serving == IF pc = "run" THEN func_ ELSE NoTask

LEMMA WaitingIsLine ==
    ASSUME NEW o \in Slots, NEW n \in 0 .. M
    PROVE  /\ Filled(o, n) /\ Oldest = o => Waiting = Line(array, o, n)
           /\ Filled(o, n)' /\ Oldest' = o => Waiting' = Line(array', o, n)
  BY PendingCount DEF Waiting, Line, SlotAt, M

LEMMA LineIsSeq ==
    ASSUME NEW a, NEW o \in Slots, NEW n \in 0 .. M,
           \A k \in Slots : a[(o + k) % M].status = 1 <=> k < n,
           \A i \in Slots : a[i].status = 1 => a[i].function \in Tasks
    PROVE  /\ Line(a, o, n) \in Seq(Tasks) /\ Len(Line(a, o, n)) = n
           /\ \A k \in 1 .. n : Line(a, o, n)[k] = a[(o + (k - 1)) % M].function
<1>1. M \in Nat \ {0, 1} /\ Slots = 0 .. M - 1 /\ n \in Nat /\ n <= M
  BY SlotsOf
<1>2. ASSUME NEW k \in 1 .. n PROVE a[(o + (k - 1)) % M].function \in Tasks
  <2>1. PICK j : j = k - 1
    OBVIOUS
  <2>2. j \in Slots /\ j \in 0 .. M /\ j < n
    BY <2>1, <1>1
  <2>3. a[(o + j) % M].status = 1 /\ (o + j) % M \in Slots
    BY <2>2, WrapInSlots
  <2> QED
    BY <2>1, <2>3
<1>3. Line(a, o, n) \in [1 .. n -> Tasks]
  BY <1>2 DEF Line
<1>4. Line(a, o, n) \in Seq(Tasks) /\ Len(Line(a, o, n)) = n
  <2>1. PICK s : s = Line(a, o, n)
    OBVIOUS
  <2>2. s \in [1 .. n -> Tasks] /\ n \in Nat
    BY <2>1, <1>1, <1>3
  <2>3. s \in Seq(Tasks) /\ Len(s) = n
    BY <2>2
  <2> QED
    BY <2>1, <2>3
<1> QED
  BY <1>4 DEF Line

LEMMA FilledLine ==
    ASSUME NEW o \in Slots, NEW n \in 0 .. M
    PROVE  /\ Filled(o, n) =>
                /\ Line(array, o, n) \in Seq(Tasks) /\ Len(Line(array, o, n)) = n
                /\ \A k \in 1 .. n : Line(array, o, n)[k] = array[(o + (k - 1)) % M].function
           /\ Filled(o, n)' =>
                /\ Line(array', o, n) \in Seq(Tasks) /\ Len(Line(array', o, n)) = n
                /\ \A k \in 1 .. n : Line(array', o, n)[k] = array'[(o + (k - 1)) % M].function
  BY LineIsSeq DEF Filled, Occupied

(* Accepting a task puts it at the end of the line.                        *)
LEMMA AcceptAppends ==
    ASSUME TypeOK, NEW o \in Slots, NEW n \in 0 .. M, n < M, NEW t \in Tasks,
           Filled(o, n), Filled(o, n + 1)',
           array' = [array EXCEPT ![head] = [status |-> 1, function |-> t]]
    PROVE  Line(array', o, n + 1) = Append(Line(array, o, n), t)
<1> DEFINE s == Line(array, o, n)
           u == Line(array', o, n + 1)
<1>1. M \in Nat \ {0, 1} /\ Slots = 0 .. M - 1 /\ n \in Nat /\ n \in Slots /\ n + 1 \in 0 .. M
  BY SlotsOf
<1>2. /\ s \in Seq(Tasks) /\ Len(s) = n
      /\ \A k \in 1 .. n : s[k] = array[(o + (k - 1)) % M].function
  BY FilledLine
<1>3. /\ u \in Seq(Tasks) /\ Len(u) = n + 1
      /\ \A k \in 1 .. n + 1 : u[k] = array'[(o + (k - 1)) % M].function
  BY <1>1, FilledLine
<1>4. head = (o + n) % M /\ head \in Slots
  BY DEF Filled, TypeOK
<1>5. ASSUME NEW k \in 1 .. n + 1 PROVE u[k] = IF k <= n THEN s[k] ELSE t
  <2>1. PICK j : j = k - 1
    OBVIOUS
  <2>2. j \in Slots /\ j \in 0 .. M
    BY <2>1, <1>1
  <2>3. PICK i : i = (o + j) % M
    OBVIOUS
  <2>4. i \in Slots /\ u[k] = array'[i].function
    BY <2>1, <2>2, <2>3, <1>3, WrapInSlots
  <2>5. CASE k <= n
    <3>1. j # n
      BY <2>1, <2>5, <1>1
    <3>2. i # head
      BY <3>1, <2>2, <2>3, <1>1, <1>4, WrapInjective
    <3>3. array'[i] = array[i]
      BY <3>2, <2>4 DEF TypeOK
    <3>4. k \in 1 .. n
      BY <2>5, <1>1
    <3>5. s[k] = array[i].function
      BY <3>4, <2>1, <2>3, <1>2
    <3> QED
      BY <3>3, <3>5, <2>4, <2>5
  <2>6. CASE ~ k <= n
    <3>1. j = n
      BY <2>1, <2>6, <1>1
    <3>2. i = head
      BY <3>1, <2>3, <1>4
    <3> QED
      BY <3>2, <2>4, <2>6, <1>4 DEF TypeOK
  <2> QED
    BY <2>5, <2>6
<1> HIDE DEF s, u
<1>6. /\ Append(s, t) \in Seq(Tasks) /\ Len(Append(s, t)) = n + 1
      /\ \A k \in 1 .. n + 1 : Append(s, t)[k] = IF k <= n THEN s[k] ELSE t
  BY <1>1, <1>2
<1>7. \A k \in 1 .. n + 1 : u[k] = Append(s, t)[k]
  BY <1>5, <1>6
<1> QED
  BY <1>3, <1>6, <1>7, SeqEqual DEF s, u

(* Clearing the bit of the oldest slot takes the head of the line away.    *)
LEMMA ClearTakesHead ==
    ASSUME TypeOK, NEW o \in Slots, NEW n \in 0 .. M, n > 0,
           Filled(o, n), Filled(NextSlot(o), n - 1)',
           array' = [array EXCEPT ![o].status = 0]
    PROVE  /\ Line(array, o, n) # <<>>
           /\ Head(Line(array, o, n)) = array[o].function
           /\ Line(array', NextSlot(o), n - 1) = Tail(Line(array, o, n))
<1> DEFINE s == Line(array, o, n)
           u == Line(array', NextSlot(o), n - 1)
<1>1. M \in Nat \ {0, 1} /\ Slots = 0 .. M - 1 /\ n \in Nat /\ n - 1 \in 0 .. M
  BY SlotsOf
<1>2. NextSlot(o) \in Slots
  BY NextSlotWraps
<1>3. /\ s \in Seq(Tasks) /\ Len(s) = n
      /\ \A k \in 1 .. n : s[k] = array[(o + (k - 1)) % M].function
  BY FilledLine
<1>4. /\ u \in Seq(Tasks) /\ Len(u) = n - 1
      /\ \A k \in 1 .. n - 1 : u[k] = array'[(NextSlot(o) + (k - 1)) % M].function
  <2>1. PICK p \in Slots : p = NextSlot(o)
    BY <1>2
  <2>2. PICK m \in 0 .. M : m = n - 1
    BY <1>1
  <2>3. Filled(p, m)'
    BY <2>1, <2>2 DEF Filled, NextSlot
  <2>4. /\ Line(array', p, m) \in Seq(Tasks) /\ Len(Line(array', p, m)) = m
        /\ \A k \in 1 .. m : Line(array', p, m)[k] = array'[(p + (k - 1)) % M].function
    BY <2>3, FilledLine
  <2> QED
    BY <2>1, <2>2, <2>4
<1>5. \A i \in Slots : array'[i].function = array[i].function
  BY DEF TypeOK
<1>6. ASSUME NEW k \in 1 .. n - 1 PROVE u[k] = s[k + 1]
  <2>1. PICK j : j = k - 1
    OBVIOUS
  <2>2. j \in 0 .. M - 1 /\ j \in 0 .. M /\ k + 1 \in 1 .. n /\ (k + 1) - 1 = j + 1 /\ j + 1 \in 0 .. M
    BY <2>1, <1>1
  <2>3. PICK i : i = (o + (j + 1)) % M
    OBVIOUS
  <2>4. i = (NextSlot(o) + j) % M /\ i \in Slots
    BY <2>2, <2>3, WrapNext, WrapInSlots
  <2>5. u[k] = array'[i].function
    BY <2>1, <2>4, <1>4
  <2>6. s[k + 1] = array[i].function
    BY <2>2, <2>3, <1>3
  <2> QED
    BY <2>4, <2>5, <2>6, <1>5
<1>7. s[1] = array[o].function
  <2>1. 1 \in 1 .. n /\ 1 - 1 = 0 /\ (o + 0) % M = o
    BY <1>1, WrapAround
  <2> QED
    BY <2>1, <1>3
<1> HIDE DEF s, u
<1>8. s # <<>>
  BY <1>1, <1>3
<1>9. Head(s) = s[1]
  BY <1>3, <1>8
<1>10. /\ Tail(s) \in Seq(Tasks) /\ Len(Tail(s)) = n - 1
       /\ \A k \in 1 .. n - 1 : Tail(s)[k] = s[k + 1]
  BY <1>1, <1>3, <1>8, HeadTailProperties
<1>11. \A k \in 1 .. n - 1 : u[k] = Tail(s)[k]
  BY <1>6, <1>10
<1>12. u = Tail(s)
  BY <1>4, <1>10, <1>11, SeqEqual
<1> QED
  BY <1>7, <1>8, <1>9, <1>12 DEF s, u

LEMMA InitRefines == Init => Fifo!Init
<1> SUFFICES ASSUME Init PROVE Fifo!Init
  OBVIOUS
<1>1. Inductive
  BY InductiveInit
<1>2. Oldest = 0 /\ 0 \in Slots /\ 0 \in 0 .. M /\ M \in Nat
  BY SlotsOf DEF Init, Oldest
<1>3. Pending = 0
  <2>1. \A i \in Slots : ~ Occupied(i)
    BY DEF Init, Occupied
  <2>2. {i \in Slots : Occupied(i)} = {}
    BY <2>1
  <2> QED
    BY <2>2, FS_EmptySet DEF Pending
<1>4. Waiting = <<>>
  BY <1>3 DEF Waiting
<1> QED
  BY <1>4 DEF Fifo!Init, Init, Waiting

(* enqueue() by anybody is an acceptance or a refusal.                     *)
LEMMA EnqueueRefines ==
    ASSUME TypeOK, NEW n \in 0 .. M, Filled(Oldest, n),
           NEW t \in Tasks, enqueue(t), UNCHANGED <<tail, pc, func_>>
    PROVE  Fifo!Accept(t) \/ Fifo!Refuse
<1>1. PICK o \in Slots : o = Oldest
  BY OldestInSlots
<1>2. Filled(o, n) /\ Oldest' = o
  BY <1>1 DEF Oldest, Taken
<1>3. Waiting = Line(array, o, n) /\ Len(Line(array, o, n)) = n
  BY <1>1, <1>2, WaitingIsLine, FilledLine
<1>4. Serving' = Serving
  BY DEF Serving
<1>5. M \in Nat \ {0, 1} /\ n \in Nat /\ n <= M
  BY SlotsOf
<1>6. CASE /\ n < M /\ primask' = FALSE /\ Filled(o, n + 1)'
           /\ ~ Occupied(head) /\ head' \in Slots
           /\ array' = [array EXCEPT ![head] = [status |-> 1, function |-> t]]
  <2>1. PICK m \in 0 .. M : m = n + 1
    BY <1>5, <1>6
  <2>2. Filled(o, m)'
    BY <2>1, <1>6 DEF Filled
  <2>3. Waiting' = Line(array', o, m)
    BY <2>2, <1>2, WaitingIsLine
  <2>4. Waiting' = Append(Waiting, t)
    BY <2>1, <2>3, <1>2, <1>3, <1>6, AcceptAppends
  <2>5. Len(Waiting) < M
    BY <1>3, <1>6
  <2> QED
    BY <2>4, <2>5, <1>4, <1>6 DEF Fifo!Accept, Waiting, Serving, M
<1>7. CASE n = M /\ primask' = TRUE /\ UNCHANGED <<array, head>>
  <2>1. Filled(o, n)'
    BY <1>2, <1>7 DEF Filled, Occupied
  <2>2. Waiting' = Line(array', o, n)
    BY <2>1, <1>2, WaitingIsLine
  <2>3. Waiting' = Waiting
    BY <2>2, <1>3, <1>7
  <2>4. Len(Waiting) = M
    BY <1>3, <1>7
  <2> QED
    BY <2>3, <2>4, <1>4, <1>7 DEF Fifo!Refuse, Waiting, Serving, M
<1> QED
  BY <1>2, <1>6, <1>7, EnqueueFills

(* What leaves the ring, the oldest slot and the task served alone is no   *)
(* step of the line.                                                       *)
LEMMA StutterRefines ==
    ASSUME TypeOK, NEW n \in 0 .. M, Filled(Oldest, n),
           UNCHANGED <<array, head, Oldest, primask, Serving>>
    PROVE  UNCHANGED Fifo!vars
<1>1. PICK o \in Slots : o = Oldest
  BY OldestInSlots
<1>2. Filled(o, n) /\ Filled(o, n)' /\ Oldest' = o
  BY <1>1 DEF Filled, Occupied
<1>3. Waiting = Line(array, o, n) /\ Waiting' = Line(array', o, n)
  BY <1>1, <1>2, WaitingIsLine
<1>4. Waiting' = Waiting
  BY <1>3
<1> QED
  BY <1>4 DEF Fifo!vars, Waiting, Serving

LEMMA NextRefines == Inductive /\ [Next]_vars => [Fifo!Next]_(Fifo!vars)
<1> SUFFICES ASSUME TypeOK, NEW n \in 0 .. M, Filled(Oldest, n), Loaded,
                    [Next]_vars
             PROVE  [Fifo!Next]_(Fifo!vars)
  BY DEF Inductive
<1>1. ASSUME NEW t \in Tasks, enqueue(t), UNCHANGED <<tail, pc, func_>>
      PROVE  [Fifo!Next]_(Fifo!vars)
  BY <1>1, EnqueueRefines DEF Fifo!Next
<1>2. ASSUME UNCHANGED <<array, head, Oldest, primask, Serving>>
      PROVE  [Fifo!Next]_(Fifo!vars)
  BY <1>2, StutterRefines
<1>3. ASSUME NEW t \in ThreadTasks, ThreadEnqueue(t)
      PROVE  [Fifo!Next]_(Fifo!vars)
  BY <1>1, <1>3, TasksAssumption DEF ThreadEnqueue
<1>4. ASSUME NEW t \in InterruptTasks, Interrupt(t)
      PROVE  [Fifo!Next]_(Fifo!vars)
  BY <1>1, <1>4, TasksAssumption DEF Interrupt
<1>5. ASSUME NEW t \in Tasks, TaskEnqueue(t)
      PROVE  [Fifo!Next]_(Fifo!vars)
  BY <1>1, <1>5 DEF TaskEnqueue
<1>6. ASSUME ThreadTrigger \/ EnterPendSV \/ LeavePendSV \/ DequeueLoad \/ DequeueEmpty \/ UNCHANGED vars
      PROVE  [Fifo!Next]_(Fifo!vars)
  <2>1. UNCHANGED <<array, head, primask>>
    BY <1>6 DEF ThreadTrigger, EnterPendSV, LeavePendSV, DequeueLoad, DequeueEmpty, vars
  <2>2. Oldest' = Oldest /\ Serving' = Serving
    BY <1>6 DEF ThreadTrigger, EnterPendSV, LeavePendSV, DequeueLoad, DequeueEmpty,
                vars, Oldest, Taken, Serving
  <2> QED
    BY <2>1, <2>2, <1>2
<1>7. ASSUME DequeueAdvance
      PROVE  [Fifo!Next]_(Fifo!vars)
  <2>1. tail' = NextSlot(tail) /\ tail \in Slots
    BY <1>7 DEF DequeueAdvance, AdvancedTail, TypeOK
  <2>2. Oldest = tail /\ Oldest' = Taken'
    BY <1>7 DEF DequeueAdvance, Oldest
  <2>3. Taken' = tail
    BY <2>1, NextSlotWraps, RingAssumption DEF Taken, M, Slots
  <2>4. Serving' = Serving
    BY <1>7 DEF DequeueAdvance, Serving
  <2> QED
    BY <2>2, <2>3, <2>4, <1>2, <1>7 DEF DequeueAdvance
<1>8. ASSUME DequeueClear
      PROVE  [Fifo!Next]_(Fifo!vars)
  <2>1. PICK o \in Slots : o = Oldest
    BY OldestInSlots
  <2>2. o = Taken /\ tail \in Slots
    BY <2>1, <1>8 DEF DequeueClear, Oldest, TypeOK
  <2>3. tail = NextSlot(o)
    BY <2>1, <2>2, NextSlotWraps, RingAssumption DEF Taken, M, Slots
  <2>4. PICK p \in Slots : p = NextSlot(o)
    BY NextSlotWraps
  <2>5. Oldest' = p
    BY <2>3, <2>4, <1>8 DEF DequeueClear, Oldest
  <2>6. Filled(o, n) /\ Occupied(o) /\ func_ = array[o].function
    BY <2>1, <1>8 DEF Loaded, DequeueClear
  <2>7. array' = [array EXCEPT ![o].status = 0] /\ head' = head
    BY <2>2, <1>8 DEF DequeueClear, StatusCleared
  <2>8. n - 1 \in 0 .. M /\ Filled(NextSlot(o), n - 1)'
    BY <2>6, <2>7, ClearDrops
  <2>9. PICK m \in 0 .. M : m = n - 1
    BY <2>8
  <2>10. Filled(p, m)' /\ n > 0
    BY <2>4, <2>8, <2>9, SlotsOf DEF Filled, NextSlot
  <2>11. Waiting = Line(array, o, n) /\ Waiting' = Line(array', p, m)
    BY <2>1, <2>5, <2>6, <2>10, WaitingIsLine
  <2>12. Waiting # <<>> /\ Head(Waiting) = func_ /\ Waiting' = Tail(Waiting)
    BY <2>4, <2>6, <2>7, <2>8, <2>9, <2>10, <2>11, ClearTakesHead
  <2>13. Serving = NoTask /\ Serving' = func_ /\ primask' = primask
    BY <1>8 DEF DequeueClear, Serving
  <2>14. Fifo!Start
    BY <2>12, <2>13 DEF Fifo!Start, Waiting, Serving
  <2> QED
    BY <2>14 DEF Fifo!Next
<1>9. ASSUME TaskReturns
      PROVE  [Fifo!Next]_(Fifo!vars)
  <2>1. PICK o \in Slots : o = Oldest
    BY OldestInSlots
  <2>2. Oldest' = o /\ array' = array /\ head' = head
    BY <2>1, <1>9 DEF TaskReturns, Oldest, Taken
  <2>3. Filled(o, n) /\ Filled(o, n)'
    BY <2>1, <2>2 DEF Filled, Occupied
  <2>4. Waiting = Line(array, o, n) /\ Waiting' = Line(array', o, n)
    BY <2>1, <2>2, <2>3, WaitingIsLine
  <2>5. Waiting' = Waiting
    BY <2>2, <2>4
  <2>6. Serving # NoTask /\ Serving' = NoTask /\ primask' = primask
    BY <1>9, TasksAssumption DEF TaskReturns, Serving, Loaded
  <2>7. Fifo!Finish
    BY <2>5, <2>6 DEF Fifo!Finish, Waiting, Serving
  <2> QED
    BY <2>7 DEF Fifo!Next
<1> QED
  BY <1>3, <1>4, <1>5, <1>6, <1>7, <1>8, <1>9 DEF Next, Handler

(* For every number of slots the ring is a bounded first-in first-out      *)
(* line: with interrupts between any two steps of dequeue(), a task that   *)
(* was accepted is started once, in its turn, and one is refused only when *)
(* all slots are taken (Queue.h:30-40).                                    *)
THEOREM Refinement == Spec => QueueSpec
<1>1. Init => Fifo!Init
  BY InitRefines
<1>2. Inductive /\ [Next]_vars => [Fifo!Next]_(Fifo!vars)
  BY NextRefines
<1> QED
  BY <1>1, <1>2, InductiveInvariant, PTL DEF Spec, QueueSpec, Fifo!Spec
=============================================================================

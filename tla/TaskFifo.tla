------------------------------ MODULE TaskFifo ------------------------------
(***************************************************************************)
(* What the deferred-task queue promises: a bounded first-in first-out     *)
(* line of tasks, served one at a time.                                    *)
(***************************************************************************)
EXTENDS Integers, Sequences

CONSTANTS
    Tasks,              \* the functions callers defer
    MAXINUMQUEUES,      \* the length of the line
    NoTask              \* nobody is being served

VARIABLES
    queue,              \* the tasks accepted and not yet started
    serving,            \* the task being executed
    overrun             \* the last task offered was refused

vars == <<queue, serving, overrun>>

Init == queue = <<>> /\ serving = NoTask /\ overrun = FALSE

(* A task is accepted at the end of the line; only a full line refuses it. *)
Accept(t) == /\ Len(queue) < MAXINUMQUEUES
             /\ queue' = Append(queue, t)
             /\ overrun' = FALSE
             /\ UNCHANGED serving

Refuse == /\ Len(queue) = MAXINUMQUEUES
          /\ overrun' = TRUE
          /\ UNCHANGED <<queue, serving>>

(* The oldest task starts when the previous one has finished.              *)
Start == /\ serving = NoTask
         /\ queue # <<>>
         /\ serving' = Head(queue)
         /\ queue' = Tail(queue)
         /\ UNCHANGED overrun

Finish == /\ serving # NoTask
          /\ serving' = NoTask
          /\ UNCHANGED <<queue, overrun>>

Next == (\E t \in Tasks : Accept(t)) \/ Refuse \/ Start \/ Finish

Spec == Init /\ [][Next]_vars
=============================================================================

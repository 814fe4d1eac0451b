---------------------------- MODULE ReadyQueues -----------------------------
(***************************************************************************)
(* What the kernel promises about processes: one line of ready processes   *)
(* per priority level, served round robin from the highest level that has  *)
(* any.                                                                    *)
(***************************************************************************)
EXTENDS Integers, SequencesExt

CONSTANTS
    Levels,     \* 0 is the idle level
    Pids,       \* the processes
    NULL        \* no process yet

VARIABLES
    ready,      \* level -> the processes ready at it, first come first
    running     \* the process that owns the processor

vars == <<ready, running>>

Init == ready = [l \in Levels |-> <<>>] /\ running = NULL

LevelsOf(p) == {l \in Levels : p \in Range(ready[l])}
Occupied == {l \in Levels : ready[l] # <<>>}

(* The first of level l is to start in the place of one it outranks.       *)
Prefer(l) ==
    /\ running = NULL \/ \A k \in LevelsOf(running) : k < l
    /\ ready'[l] # <<>>
    /\ running' = Head(ready'[l])

(* A new process joins the end of a level, which may then be preferred.    *)
Admit(p, l) ==
    /\ LevelsOf(p) = {}
    /\ ready' = [ready EXCEPT ![l] = Append(@, p)]
    /\ Prefer(l) \/ UNCHANGED running

(* The running process moves to the end of a level above idle.             *)
Requeue(l) ==
    /\ l # 0
    /\ \E k \in Levels \ {0} : \E i \in DOMAIN ready[k] :
         /\ ready[k][i] = running
         /\ ready' = [[ready EXCEPT ![k] = RemoveAt(@, i)]
                         EXCEPT ![l] = Append(@, running)]
    /\ UNCHANGED running

(* The running process leaves for good, but keeps the processor until the  *)
(* next dispatch.                                                          *)
Leave ==
    /\ \E k \in Levels \ {0} : \E i \in DOMAIN ready[k] :
         ready[k][i] = running /\ ready' = [ready EXCEPT ![k] = RemoveAt(@, i)]
    /\ UNCHANGED running

(* The successor of the running process in the highest level gets the      *)
(* processor; the first of that level if there is no successor.            *)
Dispatch ==
    /\ \E l \in Occupied :
         /\ \A k \in Occupied : k <= l
         /\ LET line == ready[l]
                front == 1 .. Len(line) - 1
            IN  \/ \E i \in front : line[i] = running /\ running' = line[i + 1]
                \/ /\ \A i \in front : line[i] # running
                   /\ running' = line[1]
    /\ UNCHANGED ready

Next == \/ \E l \in Levels : UNCHANGED ready /\ Prefer(l)
        \/ \E p \in Pids, l \in Levels : Admit(p, l)
        \/ \E l \in Levels : Requeue(l)
        \/ Leave
        \/ Dispatch

Spec == Init /\ [][Next]_vars
=============================================================================

---------------------------- MODULE MCTaskQueue -----------------------------
(***************************************************************************)
(* A ring of three slots and the tasks that stand for the four ways tasks  *)
(* are produced: Swap by SysTick, get_received_char by the UART, which     *)
(* itself defers, transmitting_data by thread code and tasks; and Process, *)
(* which the console defers.                                               *)
(***************************************************************************)
EXTENDS TaskQueue

CONSTANTS Swap, get_received_char, transmitting_data, Process

MCTasks == {Swap, get_received_char, transmitting_data, Process}
MCThreadTasks == {transmitting_data}
MCInterruptTasks == {Swap, get_received_char}
MCSpawns == [t \in MCTasks |->
               IF t = get_received_char THEN {transmitting_data, Process}
               ELSE IF t = Process THEN {transmitting_data} ELSE {}]

(* Thread code alone, and tasks that all return and defer no other.        *)
MCNoSpawns == [t \in MCTasks |-> {}]
=============================================================================

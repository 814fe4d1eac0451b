------------------------------- MODULE MCTrips ------------------------------
(***************************************************************************)
(* Every line that can be typed, and every trip on the real layout.  The   *)
(* console and the train write no variable of each other, so that nothing  *)
(* of either is missed when the one only moves while the other is as it    *)
(* begins.                                                                 *)
(***************************************************************************)
EXTENDS Console, Route

EveryTrip == Sections \X Sections

(* No section used, any one, or two that cut the layout in half.  *)
SomeTraffic == {{}} \cup {{s} : s \in Sections} \cup {{5, 8}, {3, 12}}

(* A trip that goes round, with nothing in its way.                        *)
RoundTrip == {<<4, 13>>}
NoTraffic == {{}}

(* The one initial state of the train beside which the console is explored.*)
TrainAtRest == /\ start = 1 /\ old_section = 1 /\ end = 1
               /\ used = {} /\ next_segment = 0
ConsoleAtRest == ConsoleInit

BothInit == ConsoleInit /\ Init

BothNext == \/ TrainAtRest /\ ConsoleNext /\ UNCHANGED vars
            \/ ConsoleAtRest /\ Next /\ UNCHANGED consoleVars

BothSpec == BothInit /\ [][BothNext]_<<vars, consoleVars>>

(* The train alone, which keeps moving.                                    *)
TrainSpec == /\ BothInit
             /\ [][Next /\ UNCHANGED consoleVars]_<<vars, consoleVars>>
             /\ WF_next_segment(DriveOn)
=============================================================================

------------------------------- MODULE Layout -------------------------------
(***************************************************************************)
(* The program's knowledge of the track: which sections touch (map_gate,   *)
(* railsystem.c), which way round a train drives between two of them       *)
(* (select_direction, train.c), what locking() does before a train may     *)
(* leave a section (train.c) and what obtain_decision() does when a hall   *)
(* sensor reports it (HallSensor.c).                                       *)
(*                                                                         *)
(* The two functions are sequences of steps; Rail carries them out.  Each  *)
(* step is a tuple that begins with the name of what it does.              *)
(***************************************************************************)
EXTENDS Integers, Sequences

Sections == 1 .. 16
CW == 0
CCW == 1
UNUSE == 2

(* map_gate: the sections that touch section s.                            *)
map_gate == <<{2, 6, 13}, {1, 3, 14}, {2, 4, 8}, {3, 5, 13, 16},
              {4, 6, 12}, {1, 5}, {8, 12, 15}, {3, 7, 9},
              {8, 10}, {9, 11}, {10, 12}, {5, 7, 11},
              {1, 4}, {2}, {7}, {4}>>

(* The section a hall sensor lies in.                                      *)
CONVERT_TO_SECTION(h) == (h - 1) \div 2 + 1

-----------------------------------------------------------------------------
(* A slip that breaks Rail's FollowsDecision: the switch is noted in gate, *)
(* but not turned.                                                         *)
TurnOnNoted(G) == <<<<"gates", TRUE, G>>>>

-----------------------------------------------------------------------------
(* Steps.                                                                  *)
Wait(s) == <<"wait", s>>                \* semaWait(&railsystem[s].status)
Post(s) == <<"post", s>>                \* semaPost(&railsystem[s].status)
Power(s) == <<"power", s>>              \* hall_sensor_dir_mag(s, DIR_SPEED)
Off(s) == <<"off", s>>                  \* hall_sensor_dir_mag(s, 0)
Gates(on, G) == <<"gates", on, G>>      \* gate[g] = ON or OFF, for g in G
Turn(on, G) == <<"turn", on, G>>        \* hall_sensor_switch(g, 0 or 1)
Give(f, a, b) == <<"give", f, a, b>>    \* railsystem[b].f = railsystem[a].f
Clear(f, s) == <<"clear", f, s>>        \* railsystem[s].f = 0

TurnOn(G) == <<Gates(TRUE, G), Turn(TRUE, G)>>
TurnOff(G) == <<Gates(FALSE, G), Turn(FALSE, G)>>
When(condition, steps) == IF condition THEN steps ELSE <<>>

(* A slip that breaks Rail's UniquePid: the section a train leaves keeps   *)
(* its id.                                                                 *)
UpdateKeepsPid(a, b) ==
    <<Give("direction", a, b), Give("piD", a, b), Give("speed", a, b),
      Clear("next_segment", b), Clear("speed", a), Clear("direction", a)>>

(* The statements that move a train in the table: update_the_next_value(), *)
(* copy_the_next_value() and delete_the_next_value() of sensors, and what  *)
(* locking() hands over itself, between sections.                          *)
UpdateSections(a, b) ==
    <<Give("direction", a, b), Give("piD", a, b), Give("speed", a, b),
      Clear("next_segment", b), Clear("speed", a), Clear("piD", a), Clear("direction", a)>>
CopySections(a, b) ==
    <<Give("direction", a, b), Give("speed", a, b), Clear("next_segment", b)>>
DeleteSection(s) ==
    <<Clear("direction", s), Clear("piD", s), Clear("speed", s), Clear("next_segment", s)>>
Hand(a, b) == <<Give("speed", a, b), Give("direction", a, b)>>

Update(h, k) == UpdateSections(CONVERT_TO_SECTION(h), CONVERT_TO_SECTION(k))
Copy(h, k) == CopySections(CONVERT_TO_SECTION(h), CONVERT_TO_SECTION(k))
Delete(h) == DeleteSection(CONVERT_TO_SECTION(h))

-----------------------------------------------------------------------------
Ccws == {<<1, 2>>, <<1, 13>>, <<2, 3>>, <<2, 14>>, <<3, 4>>, <<4, 5>>,
         <<4, 16>>, <<5, 6>>, <<5, 12>>, <<6, 1>>, <<7, 8>>, <<8, 3>>,
         <<8, 9>>, <<9, 10>>, <<10, 11>>, <<11, 12>>, <<12, 7>>,
         <<13, 1>>, <<15, 7>>}
Cws == {<<1, 6>>, <<2, 1>>, <<3, 2>>, <<3, 8>>, <<4, 3>>, <<4, 13>>,
        <<5, 4>>, <<6, 5>>, <<7, 12>>, <<7, 15>>, <<8, 7>>, <<9, 8>>,
        <<10, 9>>, <<11, 10>>, <<12, 5>>, <<12, 11>>, <<13, 4>>,
        <<14, 2>>, <<16, 4>>}

(* A slip that breaks Rail's DirectionKnown: the sidings have no entries.  *)
select_directionRings(s, n) == IF s > 12 \/ n > 12 THEN UNUSE
                               ELSE IF <<s, n>> \in Ccws THEN CCW
                               ELSE IF <<s, n>> \in Cws THEN CW ELSE UNUSE

select_direction(s, n) == IF <<s, n>> \in Ccws THEN CCW
                          ELSE IF <<s, n>> \in Cws THEN CW ELSE UNUSE

-----------------------------------------------------------------------------
(* locking(), for sections 1 to 6: what is done before a train leaves for  *)
(* section n, first in the direction that is not CW, then in CW.           *)
OuterLocks(n) == <<
  [ccw |-> <<Wait(2), Power(2)>>
           \o When(n = 13, <<Wait(13)>> \o TurnOn({1}) \o <<Power(2)>>),
   cw  |-> <<Wait(6), Power(6)>>],
  [ccw |-> IF n = 14
           THEN <<Wait(8), Wait(14)>> \o Hand(2, 14) \o <<Power(8), Power(14)>> \o TurnOn({2})
           ELSE <<Wait(3), Power(3)>>,
   cw  |-> <<Wait(1), Power(1)>>],
  [ccw |-> <<Wait(4), Power(4)>>,
   cw  |-> IF n = 2
           THEN <<Wait(2), Power(2)>>
           ELSE <<Wait(9), Wait(8)>> \o TurnOn({3, 7})
                \o Update(6, 16) \o <<Power(9), Power(8)>>],
  [ccw |-> IF n = 5
           THEN <<Wait(5), Power(5)>>
           ELSE <<Wait(16), Power(16)>> \o TurnOn({5}),
   cw  |-> IF n = 13
           THEN <<Wait(13), Wait(3)>> \o TurnOn({4}) \o <<Power(3), Power(13)>>
           ELSE <<Wait(3), Power(3)>>],
  [ccw |-> IF n = 12
           THEN <<Wait(12), Wait(7), Power(12), Power(5), Power(7)>>
                \o TurnOn({6, 8}) \o Copy(9, 24)
           ELSE <<Wait(6), Power(6)>>,
   cw  |-> <<Wait(4), Power(4)>>],
  [ccw |-> <<Wait(1), Power(1)>>,
   cw  |-> <<Wait(5), Power(7)>>] >>

(* The same for sections 7 to 12.                                          *)
InnerLocks(n) == <<
  [ccw |-> <<Wait(8), Wait(2), Power(8), Power(2)>>,
   cw  |-> <<Wait(12), Power(12)>>
           \o When(n = 15, <<Wait(15)>> \o TurnOn({9}) \o <<Power(15)>>)],
  [ccw |-> <<Wait(9), Power(9)>>
           \o When(n = 3, <<Wait(3)>> \o TurnOn({3, 7}) \o <<Power(8)>>),
   cw  |-> <<Wait(7), Power(7)>>],
  [ccw |-> <<Wait(10), Power(10)>>,
   cw  |-> <<Wait(8), Wait(2), Power(8), Power(2)>>],
  [ccw |-> <<Wait(11), Power(11)>>,
   cw  |-> <<Wait(9), Power(9)>>],
  [ccw |-> <<Wait(12), Wait(5), Power(12), Power(5)>>,
   cw  |-> <<Wait(10), Power(10)>>],
  [ccw |-> <<Wait(7), Power(7)>>,
   cw  |-> <<Wait(5), Power(5)>>
           \o IF n = 5
              THEN TurnOn({6, 8}) \o Copy(24, 9) \o <<Wait(4), Power(4)>>
              ELSE <<Wait(11), Power(11)>>] >>

(* The same for sections 13 to 16.                                         *)
SpurLocks == <<
  [ccw |-> <<Wait(3), Wait(4)>> \o TurnOn({4}) \o <<Power(3), Power(4)>>,
   cw  |-> <<Wait(2), Wait(1)>> \o TurnOn({1}) \o <<Power(2), Power(1)>>],
  [ccw |-> <<>>,
   cw  |-> <<Wait(8), Wait(2)>> \o Hand(14, 2) \o <<Power(2), Power(8)>> \o TurnOn({2})],
  [ccw |-> <<Wait(12), Wait(7)>> \o TurnOn({9}) \o <<Power(12), Power(7)>>,
   cw  |-> <<>>],
  [ccw |-> <<Wait(4), Power(4)>> \o TurnOn({5}),
   cw  |-> <<>>] >>

Locks(n) == OuterLocks(n) \o InnerLocks(n) \o SpurLocks

(* A slip that breaks Arrives: the direction of travel is not looked at.   *)
lockingOneWay(s, n, direction) == Locks(n)[s].ccw

locking(s, n, direction) ==
    IF direction = CW THEN Locks(n)[s].cw ELSE Locks(n)[s].ccw

-----------------------------------------------------------------------------
(* obtain_decision(), for sensors 1 to 12; g are the gates that are ON.    *)
OuterSensors(g) == <<
  [ccw |-> <<Off(6)>>,          cw |-> Update(1, 12)],
  [ccw |-> Update(2, IF 1 \in g THEN 25 ELSE 3),
   cw  |-> <<Off(2)>> \o When(1 \in g, <<Turn(FALSE, {1}), Off(13), Off(2)>>)],
  [ccw |-> <<Off(1)>>,
   cw  |-> When(2 \in g, <<Gates(FALSE, {2}), Turn(FALSE, {1}), Off(14), Off(8)>>)
           \o Update(3, 2)],
  [ccw |-> Update(4, 5),        cw |-> <<Off(3)>>],
  [ccw |-> <<Off(2)>>,          cw |-> Update(5, 4)],
  [ccw |-> Update(6, 7)
           \o When(3 \in g, <<Off(9), Off(8)>> \o TurnOff({3, 7})),
   cw  |-> <<Off(4)>> \o When(3 \in g, Update(6, 16))],
  [ccw |-> <<Off(3)>>,          cw |-> Update(7, IF 4 \in g THEN 26 ELSE 6)],
  [ccw |-> Update(8, IF 5 \in g THEN 31 ELSE 9),
   cw  |-> <<Off(IF 5 \in g THEN 16 ELSE 5)>>],
  [ccw |-> <<Off(4)>>,
   cw  |-> Update(9, 8)
           \o When(6 \in g, TurnOff({6, 8}) \o <<Off(12)>> \o Delete(24) \o <<Off(12)>>)],
  [ccw |-> Update(10, 11),      cw |-> <<Off(6)>>],
  [ccw |-> <<Off(5)>>,          cw |-> Update(11, 10)],
  [ccw |-> Update(12, 1),       cw |-> <<Off(1)>>] >>

(* The same for sensors 13 to 24.                                          *)
InnerSensors(g) == <<
  [ccw |-> <<Off(12)>> \o When(9 \in g, <<Off(15)>> \o TurnOff({9})),
   cw  |-> Update(13, IF 9 \in g THEN 29 ELSE 24)],
  [ccw |-> Update(14, 15),      cw |-> <<Off(8)>>],
  [ccw |-> <<Off(7)>>,          cw |-> Update(15, 14)],
  [ccw |-> IF 7 \in g THEN Copy(16, 6) ELSE Update(16, 17),
   cw  |-> <<Off(9)>> \o When(7 \in g, <<Off(3)>> \o TurnOff({3, 7}))],
  [ccw |-> <<Off(8)>>,          cw |-> Update(17, 16)],
  [ccw |-> Update(18, 19) \o <<Post(3)>>,
   cw  |-> <<Off(10)>>],
  [ccw |-> <<Off(9)>>,          cw |-> Update(19, 18)],
  [ccw |-> Update(20, 21),      cw |-> <<Off(11)>>],
  [ccw |-> <<Off(10)>>,         cw |-> Update(21, 20)],
  [ccw |-> Update(22, 23),      cw |-> <<Off(12)>>],
  [ccw |-> <<Off(11)>>,         cw |-> Update(23, 22)],
  [ccw |-> Update(24, 13)
           \o When(8 \in g, TurnOff({6, 8}) \o Delete(9) \o <<Off(5)>>),
   cw  |-> <<Off(7)>>] >>

(* The same for sensors 25 to 32.  Lines 90, 519 and 533 compare a gate    *)
(* with OFF where they would set it: the switch turns, the gate stays ON.  *)
SpurSensors == <<
  [ccw |-> <<Off(2), Off(1)>>,  cw |-> <<>>],
  [ccw |-> <<>>,                cw |-> <<Off(3), Off(4)>>],
  [ccw |-> <<Off(2), Post(8)>> \o Update(3, 27),
   cw  |-> Update(27, 3)],
  [ccw |-> <<Off(14)>>,         cw |-> <<Off(14)>>],
  [ccw |-> Update(29, 13),
   cw  |-> <<Off(12), Off(7), Turn(FALSE, {9})>>],
  [ccw |-> <<Off(15)>>,         cw |-> <<Off(15)>>],
  [ccw |-> <<Off(4), Turn(FALSE, {5})>>,
   cw  |-> <<>>],
  [ccw |-> <<Off(16)>>,         cw |-> <<Off(16)>>] >>

Sensors(g) == OuterSensors(g) \o InnerSensors(g) \o SpurSensors

obtain_decision(h, direction, g) ==
    IF direction = CW THEN Sensors(g)[h].cw ELSE Sensors(g)[h].ccw
=============================================================================

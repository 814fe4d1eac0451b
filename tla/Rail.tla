-------------------------------- MODULE Rail --------------------------------
(***************************************************************************)
(* A train and the program that drives it: Process() (train.c) decides,    *)
(* locks and powers from thread code, the hall sensors the train passes    *)
(* are handled in PendSV by obtain_decision() (HallSensor.c), which may    *)
(* come between any two steps of Process().  As in main(), one Process()   *)
(* runs, with process id 2.                                                *)
(*                                                                         *)
(* The track is external.  A train drives on to the next sensor while the  *)
(* sensor's section is powered in the direction the train moves.  Commands *)
(* to the track controllers take effect in the order they are given.       *)
(***************************************************************************)
EXTENDS Search, FiniteSets

CONSTANTS
    Trips,          \* <<start, end, prompt>>: the calls of Process(), see there
    Lines,          \* the <<start, end>> that Arrives is about
    Speed           \* the speed of the train

ASSUME RailAssumption == /\ Trips \subseteq Sections \X Sections \X BOOLEAN
                         /\ Speed \in 1 .. 127

VARIABLES
    railsystem,     \* section -> what the program knows of it; 0 is none
    gate,           \* the gates the program holds to be ON
    turned,         \* the switches that are turned
    power,          \* section -> the direction it is powered in, or Stopped
    at,             \* the hall sensor the train passed last; 0 at the start
    heading,        \* the direction it passed it in
    prompt,         \* Process() always acts before the train's next sensor
    start, old_section, end, trigger,   \* the locals of Process()
    direction,      \* the argument of its call of locking()
    steps,          \* what is left of that call
    pc              \* where it is

track == <<turned, power>>
table == <<railsystem, gate>>
train == <<at, heading, prompt>>
locals == <<start, old_section, end, trigger, direction, steps>>
vars == <<table, track, train, locals, pc>>

AVAILABLE == 0
USED == 1
Stopped == -1
pid == 2
Locations == {"loop", "locate", "end", "decide", "direct", "call", "lock"}

(* DIR_SPEED(d, speed) # 0                                         *)
Moving(d, speed) == d # CW \/ speed # 0

InSection == {s \in Sections : railsystem[s].piD = pid}
get_current_section ==
    IF InSection = {} THEN 0
    ELSE CHOOSE s \in InSection : \A t \in InSection : s <= t

Used == {s \in Sections : railsystem[s].status = USED}

-----------------------------------------------------------------------------
(* What hall_sensor_dir_mag() leaves a section powered in.                 *)
Powered(d, speed) == IF speed = 0 THEN Stopped
                     ELSE IF d = CCW THEN CCW ELSE CW

(* One step of locking() or obtain_decision(), or a last dir_mag, on the   *)
(* world w: the table, the gates, the switches and the power.  A power     *)
(* step has the direction and speed as its third and fourth component.     *)
World == [railsystem |-> railsystem, gate |-> gate,
          turned |-> turned, power |-> power]

Toggled(on, S, G) == IF on THEN S \cup G ELSE S \ G

(* A slip that breaks TypeOK: the post is counted.                         *)
dir_magCounting(w, s, d, speed) ==
    [w EXCEPT !.power[s] = Powered(d, speed),
              !.railsystem[s].status = IF Moving(d, speed) THEN @ - 1 ELSE @]

(* hall_sensor_dir_mag(): the command, and semaPost() when it is not 0.    *)
dir_mag(w, s, d, speed) ==
    [w EXCEPT !.power[s] = Powered(d, speed),
              !.railsystem[s].status = IF Moving(d, speed) THEN AVAILABLE ELSE @]

Section(h) == CONVERT_TO_SECTION(h)

Done(w, step, d, speed) ==
    CASE step[1] = "wait"  -> [w EXCEPT !.railsystem[step[2]].status = USED]
      [] step[1] = "post"  -> [w EXCEPT !.railsystem[step[2]].status = AVAILABLE]
      [] step[1] = "power" -> dir_mag(w, step[2], d, speed)
      [] step[1] = "off"   -> dir_mag(w, step[2], CW, 0)
      [] step[1] = "gates" -> [w EXCEPT !.gate = Toggled(step[2], @, step[3])]
      [] step[1] = "turn"  -> [w EXCEPT !.turned = Toggled(step[2], @, step[3])]
      [] step[1] = "give"  ->
           [w EXCEPT !.railsystem[step[4]][step[2]] = w.railsystem[step[3]][step[2]]]
      [] step[1] = "clear" -> [w EXCEPT !.railsystem[step[3]][step[2]] = 0]

(* A whole list of steps, one after the other, as the handler of a sensor  *)
(* does them.                                                              *)
AllDone(w, todo) ==
    LET done[n \in 0 .. Len(todo)] ==
          IF n = 0 THEN w ELSE Done(done[n - 1], todo[n], CW, 0)
    IN  done[Len(todo)]

Becomes(w) == /\ railsystem' = w.railsystem
              /\ gate' = w.gate
              /\ turned' = w.turned
              /\ power' = w.power

-----------------------------------------------------------------------------
(* init() has stopped every section and turned every switch back; Process()*)
(* enters its train in the table.                                          *)
Init ==
    /\ \E trip \in Trips : start = trip[1] /\ end = trip[2] /\ prompt = trip[3]
    /\ railsystem =
         [s \in 0 .. 16 |->
            IF s = start
            THEN [status |-> USED, direction |-> CCW, speed |-> Speed,
                  next_segment |-> 0, piD |-> pid]
            ELSE [status |-> IF s = 0 THEN USED ELSE AVAILABLE,
                  direction |-> 0, speed |-> 0, next_segment |-> 0, piD |-> 0]]
    /\ gate = {}
    /\ turned = {}
    /\ power = [s \in Sections |-> Stopped]
    /\ at = 0 /\ heading = CCW
    /\ old_section = start
    /\ trigger = TRUE
    /\ direction = UNUSE /\ steps = <<>>
    /\ pc = "loop"

(* if(railsystem[get_current_section(pid)].next_segment==0)                *)
Loop ==
    /\ pc = "loop"
    /\ railsystem[get_current_section].next_segment = 0
    /\ pc' = "locate"
    /\ UNCHANGED <<table, track, train, locals>>

(* The train's section is read again.                                      *)
Locate ==
    /\ pc = "locate"
    /\ old_section' = start
    /\ start' = get_current_section
    /\ pc' = IF end = start' THEN "end" ELSE "decide"
    /\ UNCHANGED <<table, track, train, end, trigger, direction, steps>>

(* The destination.                                                        *)
End ==
    /\ pc = "end"
    /\ Becomes(IF start \in 14 .. 16
               THEN dir_mag(World, start, railsystem[start].direction,
                                          railsystem[start].speed)
               ELSE [World EXCEPT !.railsystem[start].speed = 0])
    /\ trigger' = FALSE
    /\ pc' = "loop"
    /\ UNCHANGED <<train, start, old_section, end, direction, steps>>

(* railsystem[start].next_segment = making_decision(..).  Without a route, *)
(* and for a train that is in no section, what follows is undefined.       *)
Decide ==
    /\ pc = "decide"
    /\ LET next == IF start = 0 THEN NoWay
                    ELSE making_decision(start, end, old_section, Used) IN
         /\ railsystem' = [railsystem EXCEPT ![start].next_segment = next]
         /\ pc' = IF next = NoWay THEN "undefined"
                  ELSE IF trigger THEN "direct" ELSE "loop"
    /\ UNCHANGED <<gate, track, train, locals>>

(* The sensor behind a train that stands in section s and heads for d.     *)
FirstSensor(s, d) == IF d = CCW /\ s # 15 THEN 2 * s - 1 ELSE 2 * s

(* railsystem[start].direction = select_direction[start][..].              *)
Direct ==
    /\ pc = "direct"
    /\ LET d == select_direction(start, railsystem[start].next_segment) IN
         /\ railsystem' = [railsystem EXCEPT ![start].direction = d]
         /\ IF at = 0
            THEN /\ heading' = Powered(d, Speed)
                 /\ at' = FirstSensor(start, heading')
                 /\ UNCHANGED prompt
            ELSE UNCHANGED train
    /\ pc' = "call"
    /\ UNCHANGED <<gate, track, locals>>

(* The call of locking(), with the table as it is by now.                  *)
Call ==
    /\ pc = "call"
    /\ direction' = railsystem[start].direction
    /\ steps' = locking(start, railsystem[start].next_segment, direction')
    /\ pc' = "lock"
    /\ UNCHANGED <<table, track, train, start, old_section, end, trigger>>

(* semaWait() spins while the section is USED.                             *)
Blocked == /\ pc = "lock" /\ steps # <<>>
           /\ Head(steps)[1] = "wait"
           /\ railsystem[Head(steps)[2]].status = USED

LockStep ==
    /\ pc = "lock" /\ steps # <<>>
    /\ ~ Blocked
    /\ Becomes(Done(World, Head(steps), direction, railsystem[start].speed))
    /\ steps' = Tail(steps)
    /\ UNCHANGED <<train, start, old_section, end, trigger, direction, pc>>

(* locking() has returned: the train's own section is powered.             *)
PowerOn ==
    /\ pc = "lock" /\ steps = <<>>
    /\ Becomes(dir_mag(World, start, railsystem[start].direction,
                                     railsystem[start].speed))
    /\ pc' = "loop"
    /\ UNCHANGED <<train, locals>>

Waiting ==
    \/ pc = "loop" /\ railsystem[get_current_section].next_segment # 0
    \/ Blocked
    \/ pc = "undefined"

Process == Loop \/ Locate \/ End \/ Decide \/ Direct \/ Call \/ LockStep \/ PowerOn

-----------------------------------------------------------------------------
(* The sensor that follows h in a direction: the one obtain_decision()     *)
(* computes as next, and across the switches 2, 6 and 8 the one it is      *)
(* paired with in locking() and in sensor 27.  None, 0, at a dead end.     *)
NextSensor(h, d) ==
    LET turn(s, over, straight) == IF s \in turned THEN over ELSE straight IN
    IF d = CCW
    THEN CASE h = 2  -> turn(1, 25, 3)
           [] h = 3  -> turn(2, 27, 4)
           [] h = 8  -> turn(5, 31, 9)
           [] h = 9  -> turn(6, 24, 10)
           [] h = 12 -> 1
           [] h = 16 -> turn(7, 6, 17)
           [] h = 24 -> 13
           [] h = 26 -> 7
           [] h = 29 -> 13
           [] h = 30 -> 29
           [] h \in {28, 32} -> 0
           [] OTHER  -> h + 1
    ELSE CASE h = 1  -> 12
           [] h = 6  -> turn(3, 16, 5)
           [] h = 7  -> turn(4, 26, 6)
           [] h = 13 -> turn(9, 29, 24)
           [] h = 24 -> turn(8, 9, 23)
           [] h = 25 -> 2
           [] h = 27 -> 3
           [] h = 29 -> 30
           [] h = 31 -> 8
           [] h = 30 -> 0
           [] OTHER  -> h - 1

(* The train passes a sensor and PendSV handles the report.  A prompt      *)
(* Process() waits by then, or turns in its loop at the destination.       *)
SensorDue ==
    /\ prompt => Waiting \/ ~ trigger
    /\ at # 0 /\ NextSensor(at, heading) # 0
    /\ power[Section(NextSensor(at, heading))] = heading

Sensor ==
    LET h == NextSensor(at, heading) IN
    /\ SensorDue
    /\ at' = h
    /\ Becomes(AllDone(World,
                       obtain_decision(h, railsystem[Section(h)].direction, gate)))
    /\ UNCHANGED <<heading, prompt, locals, pc>>

Next == Process \/ Sensor

Spec == Init /\ [][Next]_vars

(* Process() keeps running and the train keeps moving: weak fairness of    *)
(* Process and of Sensor, told by what alone they change so that TLC need  *)
(* not search for a route to see that they can go on.                      *)
Runs == /\ ~ Waiting /\ pc \in Locations
        /\ pc = "lock" => steps = <<>>
        /\ pc' \in Locations \cup {"undefined"}
LocksOn == pc = "lock" /\ steps # <<>> /\ ~ Blocked /\ steps' = Tail(steps)
Drives == SensorDue /\ at' = NextSensor(at, heading)
FairSpec == Spec /\ WF_pc(Runs) /\ WF_steps(LocksOn) /\ WF_at(Drives)

-----------------------------------------------------------------------------
TypeOK ==
    /\ railsystem \in [0 .. 16 -> [status : {AVAILABLE, USED},
                                  direction : {CW, CCW, UNUSE},
                                  speed : {0, Speed},
                                  next_segment : Sections \cup {0, NoWay},
                                  piD : {0, pid}]]
    /\ gate \subseteq 1 .. 9 /\ turned \subseteq 1 .. 9
    /\ power \in [Sections -> {Stopped, CW, CCW}]
    /\ at \in 0 .. 32 /\ heading \in {Stopped, CW, CCW} /\ prompt \in BOOLEAN
    /\ start \in 0 .. 16 /\ old_section \in 0 .. 16 /\ end \in Sections
    /\ trigger \in BOOLEAN /\ direction \in {CW, CCW, UNUSE}
    /\ pc \in Locations \cup {"undefined"}

(* A train never has the direction UNUSE (train.c:18-58): select_direction *)
(* has an entry for every step that making_decision() takes on map_gate,   *)
(* and no sensor comes between the decision and its use.                   *)
DirectionKnown == \A s \in 0 .. 16 : railsystem[s].direction # UNUSE

(* locking() has given the train's id to the next section and not yet      *)
(* taken it from the old one (HallSensor.c:560-565).                       *)
Updating ==
    LET Left(what) == \E i \in DOMAIN steps : steps[i][1] = what /\ steps[i][2] = "piD"
    IN  Left("clear") /\ ~ Left("give")

(* "in the end, piD must be unique in the railsystem" (HallSensor.c:555):  *)
(* however the reports of the sensors fall between the steps of Process(), *)
(* the statements of its own update_the_next_value() included.             *)
UniquePid == ~ Updating => Cardinality(InSection) <= 1

(* The other half of it: the id of a train is somewhere.                   *)
IdKept == InSection # {}

(* While it is under way a train comes from the section it is in to the    *)
(* one that was decided for it, and is not lost on the way, if Process()   *)
(* is done with one section before the train reaches the next sensor:      *)
(* power, switches and sensors take it where making_decision() wants it    *)
(* (train.c:656-670).                                                      *)
FollowsDecision ==
    [][prompt /\ trigger /\ start' # start =>
         start' # 0 /\ start' = railsystem[start].next_segment]_vars

(* The train has passed a sensor of its destination, and the program knows *)
(* that it is there.                                                       *)
There == start = end /\ at # 0 /\ CONVERT_TO_SECTION(at) = end

(* On the lines a prompt Process() brings the train to its destination.    *)
Arrives == prompt /\ <<start, end>> \in Lines => <>There

(* The same for a trip whatever it is: Process() "will detect how to get   *)
(* to the destination" (train.c:67).                                       *)
Reaches == <>There

(* "it is needed to lock the next segment in order the train can go in     *)
(* safely" (train.c:252): when locking() returns, the section the train is *)
(* about to enter is closed to others.                                     *)
NextSectionLocked ==
    pc = "lock" /\ steps = <<>> /\ railsystem[start].next_segment \in Sections =>
        railsystem[railsystem[start].next_segment].status = USED
=============================================================================

------------------------------ MODULE Messages ------------------------------
(***************************************************************************)
(* Commands to the track controllers (messageatmel.c) on their way through *)
(* memory, the task ring and SPI, from start-up (main.c) on.               *)
(*                                                                         *)
(* command_frame() takes three blocks and queues hall_sensor_command(),    *)
(* which PendSV runs: it exchanges a frame with the controller until the   *)
(* exchange succeeds, acknowledges the sensor that the answer may report,  *)
(* and gives the blocks back.  Threads and tasks build frames step by      *)
(* step; the interrupt of PORTF comes between any two of their steps and   *)
(* builds its own as one.  allocate() is Memory's, the ring TaskFifo's.    *)
(*                                                                         *)
(* The controllers are external.  One reports its oldest sensor when asked *)
(* for input, after which it no longer waits, whatever is acknowledged;    *)
(* the pin is high while a sensor waits, with a rising edge for each.  An  *)
(* exchange that fails has had no effect.                                  *)
(***************************************************************************)
EXTENDS Integers, SequencesExt

CONSTANTS
    Program,        \* what init() does: commands and Trigger
    TrainCommands,  \* the commands Process() gives
    Pin0, Pin1,     \* the controllers with a pin of PORTF
    Sensors,        \* controller -> its sensors
    FollowUps,      \* sensor -> the commands of obtain_decision() for it
    Blocks,         \* blocks of memory for frames
    MAXINUMQUEUES,  \* slots of the task ring
    Trigger, None   \* no command

COMMANDFRAME_BLOCKS == 3    \* two frames and a packet
Controllers == {Pin0, Pin1}
AllSensors == UNION {Sensors[c] : c \in Controllers}
Input(c) == <<"input", c>>
Ack(s) == <<"ack", Pin0, s>>    \* always to atmel1, whoever reported it
InitCommands == Range(Program) \ {Trigger}
LaterCommands == {Input(c) : c \in Controllers} \cup {Ack(s) : s \in AllSensors}
                     \cup TrainCommands \cup UNION {Range(FollowUps[s]) : s \in AllSensors}
Commands == InitCommands \cup LaterCommands

ASSUME MemoryAssumption == Blocks \in Nat /\ MAXINUMQUEUES \in Nat \ {0}

(* What is neither a command nor a sensor is named apart from them, and a  *)
(* command that init() gives from one given later, also where the frames   *)
(* are the same.  init() ends with a trigger.                              *)
ASSUME CommandsAssumption ==
    /\ None \notin Commands \cup {Trigger} /\ Trigger \notin Commands
    /\ None \notin {"failed", "done"}
    /\ AllSensors \cap {None, "failed", "done"} = {}
    /\ \A s \in AllSensors : FollowUps[s] \in Seq(Range(FollowUps[s]))
    /\ InitCommands \cap LaterCommands = {}
    /\ Program \in Seq(Range(Program)) /\ Last(Program) = Trigger

VARIABLES
    free,           \* blocks not handed out
    ring,           \* the packets queued
    masked,         \* interrupts are disabled
    pending,        \* PendSV is triggered
    active,         \* PendSV is running
    packet,         \* the packet it serves
    receive,        \* the answer: a sensor, "failed", or "done"
    todo,           \* the commands the report still calls for
    frame,          \* context -> the command it builds and the blocks it has
    program,        \* what init() has still to do
    waiting,        \* controller -> the sensors it has to report
    edge,           \* the controllers with a rising edge not yet served
    obeyed,         \* the last command a controller obeyed
    refused         \* some command has been refused

memory == <<free, ring, masked, refused>>
pendsv == <<active, packet, receive, todo>>
track == <<waiting, edge, obeyed>>
vars == <<memory, pending, pendsv, frame, program, track>>

NoFrame == [command |-> None, blocks |-> 0]

-----------------------------------------------------------------------------
(* Slips that would each break one of the properties below.                *)

(* The receiving frame is not given back.                                  *)
HeldButOne(p) == p.blocks - 1

(* A frame is sent once, whatever the answer.                              *)
SendingOnce == receive = None

(* The ring takes one packet more than it has slots.                       *)
FullPastEnd == Len(ring) > MAXINUMQUEUES

(* init() does not trigger PendSV.                                         *)
TriggeredInLoop == program = <<>>

-----------------------------------------------------------------------------
(* initial_memory(), initialize_Queue() and SPI_Init() have run.           *)
Init ==
    /\ free = Blocks /\ ring = <<>>
    /\ masked = FALSE /\ refused = FALSE
    /\ pending = FALSE /\ active = FALSE
    /\ packet = NoFrame /\ receive = None /\ todo = <<>>
    /\ frame = [x \in {"thread", "task"} |-> NoFrame]
    /\ program = Program
    /\ waiting = [c \in Controllers |-> <<>>]
    /\ edge = {}
    /\ obeyed = None

(* Thread code runs when PendSV neither runs nor is about to; the task is  *)
(* at command_frame() when a report calls for commands.                    *)
Runs(x) == \/ x = "thread" /\ ~ active /\ (pending => masked)
           \/ x = "task" /\ active

-----------------------------------------------------------------------------
(* command_frame(): one of three allocations; a block that is missing      *)
(* leaves those before it to nobody.                                       *)
Obtain(x) ==
    /\ Runs(x)
    /\ frame[x].command # None /\ frame[x].blocks < COMMANDFRAME_BLOCKS
    /\ IF free > 0 THEN /\ free' = free - 1
                        /\ frame' = [frame EXCEPT ![x].blocks = @ + 1]
                        /\ UNCHANGED refused
                   ELSE /\ frame' = [frame EXCEPT ![x] = NoFrame]
                        /\ refused' = TRUE
                        /\ UNCHANGED free
    /\ UNCHANGED <<ring, masked, pending, pendsv, program, track>>

(* enqueue(); its result is not looked at.  A full ring leaves interrupts  *)
(* disabled.                                                               *)
Full == Len(ring) = MAXINUMQUEUES

Enqueue(x) ==
    /\ Runs(x)
    /\ frame[x].command # None /\ frame[x].blocks = COMMANDFRAME_BLOCKS
    /\ ring' = IF Full THEN ring ELSE Append(ring, frame[x].command)
    /\ masked' = Full
    /\ refused' = (refused \/ Full)
    /\ frame' = [frame EXCEPT ![x] = NoFrame]
    /\ UNCHANGED <<free, pending, pendsv, program, track>>

(* command_frame() in the interrupt, where nothing comes between.          *)
Offered(m, command) ==
    IF m.free < COMMANDFRAME_BLOCKS
    THEN [m EXCEPT !.free = 0, !.refused = TRUE]
    ELSE LET taken == [m EXCEPT !.free = @ - COMMANDFRAME_BLOCKS]
         IN  IF Len(m.ring) = MAXINUMQUEUES
             THEN [taken EXCEPT !.masked = TRUE, !.refused = TRUE]
             ELSE [taken EXCEPT !.ring = Append(@, command), !.masked = FALSE]

Asked(m, c, pins) == IF pins[c] # <<>> THEN Offered(m, Input(c)) ELSE m

(* What the handler leaves of the edges and sees on the pins, when a train *)
(* passes a sensor between its clearing and its reading.                   *)
Risen(before, after) == {c \in Controllers : before[c] = <<>> /\ after[c] # <<>>}

(* A slip: the pins are read before the edges are cleared.                 *)
ReadThenClear(before, after) == [edge |-> {}, pins |-> before]

ClearThenRead(before, after) == [edge |-> Risen(before, after), pins |-> after]

(* A train passes sensor s of controller c; a pin that is high stays high. *)
Passing == {x \in Controllers \X AllSensors : x[2] \in Sensors[x[1]] \ Range(waiting[x[1]])}
Passed(x) == [waiting EXCEPT ![x[1]] = Append(@, x[2])]

SensorPasses ==
    /\ \E x \in Passing : waiting' = Passed(x)
    /\ edge' = edge \cup Risen(waiting, waiting')
    /\ UNCHANGED <<memory, pending, pendsv, frame, program, obeyed>>

(* GPIOPortF_IntHandler(): both edges are cleared, then both pins read.    *)
Interrupt ==
    /\ edge # {} /\ ~ masked
    /\ waiting' \in {waiting} \cup {Passed(x) : x \in Passing}
    /\ LET seen == ClearThenRead(waiting, waiting')
           m == Asked(Asked([free |-> free, ring |-> ring, masked |-> masked,
                             refused |-> refused], Pin0, seen.pins), Pin1, seen.pins)
       IN  /\ edge' = seen.edge
           /\ free' = m.free /\ ring' = m.ring
           /\ masked' = m.masked /\ refused' = m.refused
    /\ pending' = TRUE
    /\ UNCHANGED <<pendsv, frame, program, obeyed>>

-----------------------------------------------------------------------------
(* Thread code: init() as written, then whatever Process() commands.       *)
ThreadCommands ==
    /\ Runs("thread") /\ frame["thread"] = NoFrame
    /\ \E c \in TrainCommands \cup InitCommands :
         /\ IF program = <<>> THEN c \in TrainCommands ELSE c = Head(program)
         /\ frame' = [frame EXCEPT !["thread"].command = c]
    /\ program' = IF program = <<>> THEN <<>> ELSE Tail(program)
    /\ UNCHANGED <<memory, pending, pendsv, track>>

(* The last Trigger of init() is followed by cpsie.                        *)
Triggered == TRUE

ThreadTriggers ==
    /\ Runs("thread") /\ frame["thread"] = NoFrame
    /\ program # <<>> => Head(program) = Trigger
    /\ pending' = (pending \/ Triggered)
    /\ masked' = (masked /\ Len(program) # 1)
    /\ program' = IF program = <<>> THEN <<>> ELSE Tail(program)
    /\ UNCHANGED <<free, ring, refused, pendsv, frame, track>>

-----------------------------------------------------------------------------
(* PendSVHandler() and its loop.                                           *)
EnterPendSV ==
    /\ pending /\ ~ masked /\ ~ active
    /\ active' = TRUE
    /\ pending' = FALSE
    /\ UNCHANGED <<memory, packet, receive, todo, frame, program, track>>

Dequeue ==
    /\ active /\ packet = NoFrame /\ ring # <<>>
    /\ packet' = [command |-> Head(ring), blocks |-> COMMANDFRAME_BLOCKS]
    /\ ring' = Tail(ring)
    /\ receive' = None
    /\ UNCHANGED <<free, masked, refused, pending, active, todo, frame, program, track>>

LeavePendSV ==
    /\ active /\ packet = NoFrame /\ ring = <<>>
    /\ active' = FALSE
    /\ UNCHANGED <<memory, pending, packet, receive, todo, frame, program, track>>

(* hall_sensor_command(): the frame is sent until the last byte of the     *)
(* answer is not REC_B_6_F.                                                *)
Sending == receive \in {None, "failed"}

ExchangeFails ==
    /\ packet # NoFrame /\ Sending
    /\ receive' = "failed"
    /\ UNCHANGED <<memory, pending, active, packet, todo, frame, program, track>>

(* The answer to a request for input reports the oldest sensor that waits. *)
ExchangeReports(c) ==
    /\ packet # NoFrame /\ Sending
    /\ packet.command = Input(c) /\ waiting[c] # <<>>
    /\ LET s == Head(waiting[c]) IN receive' = s /\ todo' = <<Ack(s)>> \o FollowUps[s]
    /\ waiting' = [waiting EXCEPT ![c] = Tail(@)]
    /\ edge' = IF Len(waiting[c]) > 1 THEN edge \cup {c} ELSE edge
    /\ obeyed' = packet.command
    /\ UNCHANGED <<memory, pending, active, packet, frame, program>>

ExchangeDone ==
    /\ packet # NoFrame /\ Sending
    /\ \A c \in Controllers : packet.command = Input(c) => waiting[c] = <<>>
    /\ receive' = "done"
    /\ obeyed' = packet.command
    /\ UNCHANGED <<memory, pending, active, packet, todo, frame, program, waiting, edge>>

(* hall_sensor_reset_acknowledgement() and obtain_decision() command the   *)
(* track from within the task.                                             *)
TaskCommands ==
    /\ todo # <<>> /\ frame["task"] = NoFrame
    /\ frame' = [frame EXCEPT !["task"].command = Head(todo)]
    /\ todo' = Tail(todo)
    /\ UNCHANGED <<memory, pending, active, packet, receive, program, track>>

(* The three deallocate(), and the return.                                 *)
Held(p) == p.blocks
Finishing == /\ packet # NoFrame /\ ~ Sending
             /\ todo = <<>> /\ frame["task"] = NoFrame

GiveBack ==
    /\ Finishing /\ Held(packet) > 0
    /\ free' = free + 1
    /\ packet' = [packet EXCEPT !.blocks = @ - 1]
    /\ UNCHANGED <<ring, masked, refused, pending, active, receive, todo, frame,
                   program, track>>

Return ==
    /\ Finishing /\ Held(packet) = 0
    /\ packet' = NoFrame
    /\ UNCHANGED <<memory, pending, active, receive, todo, frame, program, track>>

Succeeds == ExchangeDone \/ \E c \in Controllers : ExchangeReports(c)
PendSV == \/ EnterPendSV \/ Dequeue \/ LeavePendSV \/ Succeeds
          \/ TaskCommands \/ Obtain("task") \/ Enqueue("task") \/ GiveBack \/ Return
Thread == ThreadCommands \/ ThreadTriggers \/ Obtain("thread") \/ Enqueue("thread")

Next == Thread \/ PendSV \/ ExchangeFails \/ Interrupt \/ SensorPasses

Spec == Init /\ [][Next]_vars

(* Interrupts are taken and PendSV goes on; no controller fails for ever.  *)
FairSpec == Spec /\ WF_vars(Interrupt) /\ WF_vars(PendSV)

-----------------------------------------------------------------------------
TypeOK ==
    /\ free \in 0 .. Blocks
    /\ ring \in Seq(Commands) /\ Len(ring) <= MAXINUMQUEUES
    /\ {masked, pending, active, refused} \subseteq BOOLEAN
    /\ {packet, frame["thread"], frame["task"]} \subseteq
         [command : Commands \cup {None}, blocks : 0 .. COMMANDFRAME_BLOCKS]
    /\ receive \in AllSensors \cup {"failed", "done", None}
    /\ todo \in Seq(Commands)
    /\ edge \subseteq Controllers

(* Unless an allocation or the ring ever refused a command, the blocks of  *)
(* all frames have come back when no command is under way, in whatever     *)
(* order threads, tasks and interrupts took them (messageatmel.c:33-60,    *)
(* 134-136).                                                               *)
FramesComeBack ==
    /\ ~ refused
    /\ ring = <<>> /\ packet = NoFrame
    /\ \A x \in DOMAIN frame : frame[x] = NoFrame
    => free = Blocks

(* When init() is done and Process() runs, the controllers have obeyed     *)
(* every command of init() (main.c:50-65): what Rail takes as its initial  *)
(* state.                                                                  *)
StartupObeyed ==
    /\ program = <<>> /\ frame["thread"].command \notin InitCommands
    /\ Runs("thread") /\ ~ refused
    => Range(ring) \cap InitCommands = {}

(* Commands are obeyed in the order they were accepted, each once, however *)
(* often its frame had to be sent (messageatmel.c:119-128).                *)
Line == INSTANCE CommandLine WITH
            line <- (IF packet # NoFrame /\ Sending THEN <<packet.command>> ELSE <<>>)
                      \o ring
LineSpec == Line!Spec

(* A sensor that a train has passed is reported and acted upon, although   *)
(* the interrupt clears the edges of both pins and reads them once         *)
(* (gpiof.c:92-108), unless a command has been refused: nobody asks again. *)
SensorsHeeded ==
    \A c \in Controllers : \A s \in Sensors[c] :
        (s \in Range(waiting[c])) ~> (receive = s \/ refused)
=============================================================================

# A verification project for the train controller (ECED4402 A4)

The repository is the program of an LM3S9D92 board (ARM Cortex-M3) that drives
a train on a model railway of sixteen sections, nine switches and thirty-two
hall sensors. It brings its own small kernel: a block allocator, a queue of
deferred tasks served by PendSV, processes with priorities, and output through
a UART. The modules here model the parts of it that decide something, TLC
checks them on small instances (the railway at its real size), and TLAPS
proves the allocator, the queue of deferred tasks, the processes, the UART's
buffer, the path of commands to the track, the console's parser, the search
for a route and the table of the railway for every value of their constants.

    tlc -workers 2 -config Rail.cfg MCRail      one run
    tlapm MessagesProofs.tla                    the proofs of one module

## 1. The system

### Components

| component | source | state | operations |
|---|---|---|---|
| Memory allocator | memory.c, memory.h | `memory_management` (level, offset, free bit, next index of each of 248 blocks), `memory_control` (head and tail of each of 5 free lists) | `initial_memory`, `allocate`, `deallocate` |
| Deferred-task queue | Queue.c | `array` (32 slots: function, data, status bit), `head`, `tail`, PRIMASK | `initialize_Queue`, `enqueue`, `dequeue` |
| PendSV handler | PendSVHandler.c | PendSV pending bit, the task it runs | `PendSVHandler`, `Swap` |
| Processes | PcbQueue.c, PriorityQueue.c | `ManagementOfQueues` (head and tail of each level's list), the PCBs, `running`, `pID` | `RegistrationProcess`, `create_new_Pcb`, `move_Pcb`, `delete_Pcb`, `set_running` |
| Kernel calls, timer | Kernel.c, SVCCall.c, systick.c | `firstSVCcall`, PSP | `getId`, `promoteby`, `demoteby`, `terminate`, `SVCHandler`, `SysTickHandler` |
| Route planning | train.c, railsystem.c | `map_gate`, `railsystem[].status` | `making_decision`, `recursion` |
| Train | train.c | locals of `Process`, `railsystem[]` (status, direction, speed, next section, piD) | `Process`, `locking`, `get_current_section` |
| Hall sensors | HallSensor.c | `railsystem[]`, `gate[]` | `obtain_decision`, `update_the_next_value`, `copy_the_next_value`, `delete_the_next_value` |
| Section semaphores | semaphore.c | `railsystem[].status` | `semaWait`, `semaPost` |
| Messages to the track | messageatmel.c, spi.c | frames in memory blocks | `command_frame`, `hall_sensor_command`, `hall_sensor_dir_mag`, `hall_sensor_switch` |
| Sensor interrupt | gpiof.c | the edges and levels of two pins of PORTF | `GPIOPortF_IntHandler` |
| UART output | uart.c | `buffer_TX` | `send_to_UART`, `transmitting_data`, `send_a_char`, `UART0_IntHandler` |
| Console | ControlSoftware.c | `TX`, `length`, `current_state`, `number1..3` | `get_received_char` |
| Start-up | main.c | none of its own | `init`, `main` |
| Texts, drivers, tests | cursor.c, messageuart.c, spi.c, gpioe.c, gpiof.c, sysctl.c, process.c, testcase.c | registers | |

### How they interact

Three kinds of code run. *Thread code* is `main()`, which calls `Process()`
and never comes back from it. *Interrupt handlers* (UART receive, PORTF for the
hall sensors, SysTick once there are processes) put a task into the ring with
`enqueue()` and set the PendSV pending bit; PORTF's allocates the frame it
sends, too. *PendSV*, of the lowest priority,
takes tasks out of the ring one by one and runs each to its end. Every task
may call `enqueue()` again, `allocate()`, and `send_to_UART()`.

`Process()` finds the section its train is in, asks `making_decision()` for
the next one, and lets `locking()` wait for sections, turn switches and power
sections. Every command to the track is a task, and takes three blocks of
memory with it until a controller has answered. A train that passes a sensor
raises the pin of its controller; PORTF's handler asks both controllers whose
pin is high for input; the task reads the sensor's number over SPI,
acknowledges it, and `obtain_decision()` moves the train's entry in `railsystem` to the
next section and switches off what lies behind. `Process()` and
`obtain_decision()` share `railsystem`, `gate` and the semaphores and nothing
else orders them. The table is printed through `send_to_UART()` from both.

As shipped, `main()` calls `Process()` directly for the trip from section 4 to
section 15 and registers no process; the kernel of processes is used by
testcase.c. The console can start another `Process()`, as a task of PendSV,
where it occupies PendSV for good: no key, no report of a sensor and no command
to the track is handled after it.

### What is hard, and what makes each part correct

*Memory*: lists through a table, with a tail that is stale while a level is
empty. No block is lost or handed out twice; a request is met from the
smallest level that has a block. *Ring*: `dequeue()` is interrupted by
`enqueue()`; full and empty both have `head = tail`. Tasks run once, in order,
and none is stranded. *Processes*: doubly linked lists under any sequence of
moves and deletions, a running process whose PCB is freed, failed
registrations. Lists stay whole, the highest level runs, nobody in it starves.
*Route*: depth-first search on a cyclic layout with one-way switches. *Train*:
sensor reports between any two steps of `Process()`. The train's id is in one
place, the train goes where it was decided and arrives. *UART*: one buffer,
two kinds of senders. Strings leave the buffer, blocks come back. *Messages*:
three allocations of which any may fail, from three contexts; exchanges that
fail and are made again; edges that are cleared before pins are read. Commands
are obeyed once and in order, blocks come back, no sensor is overlooked.
*Console*: numbers checked for some digits and not for others, a state machine
that a line must leave as it found it. What is queued is what was typed. The
list of hazards, each at its line with the properties for it, is in PROJECT.json.

## 2. The modules

### MemoryLayout, BlockPool, Memory, MemoryProofs

`MemoryLayout` is the geometry of memory.h as constants with assumptions.
`Memory` has the two arrays of memory.c and, in `reply`, the last call with
its result. `AllocateFrom` and `AllocateFails` are the two ends of `allocate`:
the switch enters at the level that fits and falls through exhausted levels,
so the action takes the first level that still has a block. A request of 0
bytes wraps. `Release` has the two branches of `deallocate`. `BlockPool` is
the promise to callers: a set of blocks in use, no lists. A call is one step
here, which is what the other modules take from it; on the board it is not.

### MemoryPreempt

The same allocator cut at each of its reads and writes of the two arrays, with
a call for each context (threads, PendSV, interrupts) that runs only while no
call above it does. `Step2` to `Step7` carry the numbers of the comments in
`allocate()`. The caller's side of a call and what is done to a block are left
out: a block is held or not.

### TaskFifo, TaskQueue, TaskQueueProofs

`enqueue()` masks interrupts and is one step; its return for a full ring
leaves `primask` set. `dequeue()` is four locations of the handler: load,
advance `tail`, clear the status bit, run. An interrupt's `enqueue` comes
between any of them. The interrupt handlers have one priority and do not
preempt each other. Thread code runs only while PendSV is not active.
`ThreadEnqueue` and `ThreadTrigger` are two actions because `command_frame()`
enqueues without a trigger; what it queues waits for the next trigger of
anybody, which `NoneLeftBehind` and `TasksStart` say. `TaskFifo` is a bounded
line of tasks served one at a time.

### ReadyQueues, Scheduler, SchedulerProofs

One action for each kernel call; SVC and SysTick do not preempt each other.
A PCB is named by its pid. `Register` and `RegisterWithoutPcb` are
`RegistrationProcess()` with each allocation succeeding or failing; they
happen before the first SVC, as in testcase.c. `Unlinked` and `Linked` are the
two halves of `move_Pcb()`. `sp` tells only which kind of frame it addresses.
A freed PCB keeps its contents: reuse of its memory is not modelled. Writes
through NULL (PcbQueue.c:181, 198) either fault, which is `phase = "stopped"`,
or do nothing. Loading a frame that the exception return does not expect may
do anything; `Load` lets the system stop or go on.

PendSV may serve several swaps before it returns, as when `demoteby()` has
queued one without a trigger and SysTick queues another. `swapped` says that
PSP is already the one that `Swap()` loaded, so that the next `Swap()` stores
that for a process that has not run, and only `LeavePendSV` lets the processor
load a frame. A process has run when it is `running` with PendSV idle.
`Trigger` is PendSV set pending by another interrupt or by a string sent.
`ReadyQueues` is one sequence of processes for each level; `Lines` reads it
from the links.

### Search, Route, SearchProofs

`Search` is `making_decision()` and `recursion()`. The one-way switches are the
set `Forced`. A route is found by a recursive function over the set of sections
that are still open in the `section` array: `route[open][p][s]` is the route
from `s` for a train that came from `p`. The exits of a section are tried in
ascending order, and the loop keeps the first that leads on: `FirstFound`. A
search without a route reads through NULL, which is the value `NoWay`. The
return for an allocation that fails (train.c:78-79) is left out.

`Route` is the part of `Process()` that plans again in every section:
`Decide`, and `Arrive` when a sensor has reported the train in the next
section; `Move` lets other trains take and leave sections. Its `Process()` runs
in thread code, as that of `main()`: sensors are served. `MCTrips` puts `Route`
and `Console` into one specification: they write no variable of each other, so
each moves while the other is as it begins.

### Console

`Console` is `get_received_char()`: one action for each group of keys that its
switch tells apart, `TakenIn` and `AfterDigit` for the cases of its digits.
`typed` is no variable of the program: it holds the line, up to the first key
that fits no command, so that the properties can say what was typed. The text
of the echo is left out; that its block may be missing is `EchoFaults`.

`StartProcess` is PendSV coming to a `Process()` that a command has queued. It
never returns (`occupied`), so that no key is handled after it; up to `MaxLate`
keys of the next line may come before. Its train is not followed: the reports of
its sensors and the commands for its track are tasks behind it, and none of them
is ever taken out of the ring (TaskQueueEndless.cfg).

### CommandLine, Messages, MessagesProofs

The way of a command from `command_frame()` to the controller. Threads and
tasks build a frame in four steps (`Obtain` three times, `Enqueue`), between
any two of which PORTF's interrupt may build its own frames as one step
(`Interrupt`: it clears both edges, reads both pins, and a train may pass a
sensor between the two). `hall_sensor_command()` is `ExchangeFails`,
`ExchangeReports` or `ExchangeDone`, then `TaskCommands` for what the report
calls for, then `GiveBack` three times and `Return`. `Program` is the sequence
of commands and triggers in `init()`; when it is through, thread code gives
`TrainCommands` and triggers as it likes, which stands for `Process()`. A
command is a name: the bytes of its frame and the way of a byte over SPI are
left out. The controllers are external; the model assumes that a pin is high
while a sensor waits, that each sensor that comes to the head of a
controller's line makes an edge, and that an exchange whose last byte is the
failure code had no effect. An acknowledgement is addressed to controller 1
whoever reported the sensor, as in messageatmel.c:77; the model assumes that
the report itself takes the sensor off its controller's line. `refused`
remembers that an allocation or a full ring has ever refused a command. `CommandLine` is the promise: a line of
accepted commands, obeyed from its head.

### Layout, Rail, RailProofs

`Layout` holds `map_gate`, `select_direction`, `locking()` and `obtain_decision()` as
tables of steps, one entry for each case of their switches, with the
program's mistakes in them (`gate[1]==OFF;` is a comparison: the step does not
change the gate). A statement that moves a train in the table is a step too:
`update_the_next_value()` is seven of them (`UpdateSections`), each `Give` or
`Clear` of one field. `Rail` carries the steps out. `Process()` is `Loop`,
`Locate`, `End`, `Decide`, `Direct`, `Call`, a `LockStep` for each step of
`locking()`, and `PowerOn`. `Sensor` is a train passing a sensor with the
whole of `obtain_decision()`, which PendSV runs without thread code between;
it may come between any two statements of `locking()`, those of its
`update_the_next_value()` included (train.c:330). `Updating` names the place
where thread code has given the id away and not yet cleared it: there two
entries bear it, and "in the end" of HallSensor.c:555 is not yet reached.
A search without a route reads through NULL: `pc = "undefined"`, where
`Process()` stops while sensors go on.

The track is external. The model assumes: a train passes the next sensor in
its direction if that sensor's section is powered in that direction; a train
does not turn round under way (a section powered the other way stops it);
the order of sensors is the `next` that `obtain_decision()` computes, and at
switches 2, 6 and 8 the pairing used in `locking()`; a train starts between
the sensors of its section; commands take effect in the order given, which is
what `Messages` promises as long as none is refused. One train, id 2, as in
`main()`.

`prompt` tells which of two worlds a behaviour is in. With it, `Process()`
has done what there is to do before the train reaches the next sensor: the
board needs microseconds, the train seconds, unless `printf` under a debugger
or a full ring holds it up. Without it the sensors come at any moment.
`UniquePid` (in no two entries) is claimed for both, where the train goes only
for a prompt `Process()`. That some entry bears the id is `IdKept`, which does
not hold: see Findings. `FollowsDecision` asks for it, on the trips that keep
the id.

### Uart, UartProofs

Thread code is preempted between any two statements of `send_to_UART()`; tasks
in PendSV send as one step. A string is a block. Of its characters the model
keeps where the end mark lies, because `send_a_char()` gives back the block its
pointer has come to: the string's own (an address inside a block frees it,
proved for `Memory`), except for the table of `printsectionavailable()`, which
needs 265 bytes and gets 256. `tables` are the blocks that bear one; `EndsIn` is
any other block, or none, since the end mark behind the block may have been
overwritten by who has the next one. What the table overwrites there is left
out. `buffer_TX` may dangle: the block it names may be handed out again and be
somebody else's. The ring has three slots and refuses a task when they are
taken; `unsent` remembers that it refused the last `transmitting_data()`.

## 3. The runs

| run | what it shows |
|---|---|
| memory | typing, whole free lists, and the refinement of `BlockPool` |
| memory_preempt (violation) | `allocate()` preempted after it found a block hands it to two callers |
| task_queue | the ring is contiguous at every step, nothing but thread code's own tasks lies there without a trigger, refinement of `TaskFifo`, every task starts for which PendSV is pending or at work unless interrupts are off or a task never returns |
| task_queue_full (violation) | after a full ring a triggered PendSV need not run: only thread code queues tasks here, and all return |
| scheduler | whole lists, highest level runs, idle level fixed, refinement of `ReadyQueues`, round robin while PendSV serves one swap at a time |
| scheduler_frame (violation) | a fresh process is swapped in from the wrong end of its frame |
| trips | what the console queues is what was typed, and every trip on the layout is taken; a search's answer begins a legal way, none is given only if there is none, and a train does not go round for ever unless to section 13 |
| messages | commands are obeyed once and in order, blocks come back, start-up is over before `Process()` begins, and each sensor is reported, also one that passes while the interrupt runs |
| uart | a string in the buffer has a task unless a full ring refused it, the buffer empties, and a block is lost only with a string that is dropped, with a refused task or with a table |
| rail | typing, one id, every train has a direction (the tables `map_gate` and `select_direction` agree on every step it is given); with a prompt `Process()` a train follows decisions on the trips that keep its id, and arrives on 65 |
| rail_race (violation) | on the trip of `main()` a report among the statements of train.c:330 wipes the id |
| rail_stuck (violation) | the trip of `main()` ends in section 3 |

Six more configurations are kept to be run by hand. TLC finds the property of
each of the first five violated: TaskQueueEndless (MCTaskQueue: PendSV never
comes back from a `Process()` of the console), TripsRound (MCTrips: from 4 to 13
a train goes round for ever), UartTable (MCUart: a table that has been sent keeps
its block), RailLost (MCRail: a train with a prompt `Process()` loses its id) and
RailUnlocked (MCRail: the next section is open again when `locking()` returns).
MessagesSensors (MCMessages) passes: it is `SensorsHeeded` with sensors that wait
behind another of their controller.

### Bounds, and why they are enough

*memory*: three levels of 3, 2 and 1 blocks. A list of three has a head, a
middle and a tail that differ; two and one are the edge cases; three levels
allow a request to fall through two. The proofs cover all other sizes.
*memory_preempt*: two levels of 2 and 1 blocks, three contexts of which the
interrupt only allocates; the violation needs two. *task_queue*: three slots,
four tasks, one for each way a task is made and one (`Process`, from the
console) that never returns. Three slots tell full, empty and wrapped apart.
*task_queue_full* has neither interrupts nor tasks that queue others or do not
return, so that the refused task alone is what stops PendSV.
*scheduler*: two levels above idle, three registrations any of which may fail,
arguments 0, 1 and 2 modulo 8, so that demotions wrap; `MaxSwaps = 2`
saturates the count of queued swaps: more swaps in the ring repeat what two
do. *trips*: all keys (the ten digits, space, Enter, one other), all lines; one
key of a new line before `Process()` starts, which is enough to change the
parser's state under a queued command. The real layout and every trip on it; no
section used, each single one, or two pairs that cut the layout in half.
*messages*: two controllers with a sensor each, one of which calls for a
command; two commands in `init()` with a trigger after each; a ring of two
slots; ten blocks, three frames and one block over, so that allocation can fail
at each of its three places. A sensor of one controller may come while one of
the other waits or is asked for, and again once its report is taken. MessagesSensors adds a second sensor to a controller and has, in
exchange, nothing to start up and no commands of the train. *uart*: three blocks
(one in the buffer, one in the hands of a sender, one that may be lost or be the
next), a ring of three slots, at most two strings by a task (the most a task
sends: `update_the_next_value`). *rail*: the real layout, all 240 trips with a
`Process()` that sensors may overtake, one train, one speed that is not 0; with
a prompt `Process()` the 199 trips of `KeptTrips`, the 41 others being
`LosingTrips`, which RailLost is about.

### Fairness

*task_queue*: the handler's instructions are executed. Nothing is assumed of
interrupts, nor of thread code, which may wait for ever in `semaWait()` before
it comes to its trigger (train.c:676). *scheduler*: the timer ticks for ever,
once started, and PendSV's instructions are executed; no process need call the
kernel. *trips*: none: `StopsSomewhere` speaks of trains that are reported or
not and of traffic that has stopped changing. (In TripsRound a train plans and
drives on, `DriveOn`, without which standing still would refute `DetectsHow`.)
*messages*: a pending interrupt that is not masked is taken, and
PendSV goes on, where going on includes that an exchange succeeds: a
controller may fail any number of times but not for ever, since
`hall_sensor_command()` has no other end. Thread code need do nothing.
*uart*: PendSV and the statements of a sender in thread code are executed;
nobody has to send. *rail*: `Process()`, its `locking()` and a train on
powered track go on; the three formulas (`Runs`, `LocksOn`, `Drives`) name
these steps by the one variable each of them alone changes. Nothing says that
a wait ends.

### Findings

Each violation run is a disagreement between the code and its own words:
`allocate()` takes a slot it calls still available when it no longer is
(memory.c:218); `enqueue()` leaves interrupts disabled when the ring is full
(Queue.c:60); `Swap()` loads a fresh frame 32 bytes low (PendSVHandler.c:33);
from section 3 to 8 the speed is cleared before it is used (train.c:330), so
that the trip `main()` makes never ends; and, on the same trip, sensor 6,
reported after thread code has set `gate[3]` and before it has copied the id from
section 3 to 8, makes the same move itself, after which thread code copies a 0:
the id, which HallSensor.c:555 says is unique, is in no entry (*rail_race*).

Others are shown by the configurations that are no runs. PendSV never comes back
from a `Process()` that the console queued (ControlSoftware.c:72), though
PendSVHandler.c:46 says it "will back back where it is from when no task in the
queue". The search sends a train round for ever (train.c:93). A table that has
been sent keeps its block, and the next one is given back in its place if anybody
has it (uart.c:112, railsystem.c:75-97). Powering a section opens the lock on it
(messageatmel.c:100). And the id is lost with a prompt `Process()` too:
counterclockwise out of section 13 no sensor moves the entry, and sensor 7 copies
the empty entry of section 4 over it; across the switches 6 and 8
`copy_the_next_value()` gives the next section a direction and a speed but not
the id, which `delete_the_next_value()` then clears in the old one.

What the passing runs say has exceptions, written into the properties where
they occur. `StopsSomewhere` leaves out trips to 13, which go round for ever,
as from 4 by 3, 2, 1, 6, 5 to 4 again. `RoundRobin` has the premise that from
some time on PendSV does not serve two swaps in a row: if one of two processes
of a level calls `demoteby(0)` in each of its slices, and nothing but SysTick
triggers PendSV, each tick serves two swaps and the other never executes an
instruction. `send_to_UART()` frees the string in the buffer when it refuses its
argument, and the argument's block is lost (uart.c:143-145):
`LostOnlyByDropping` allows that, a refused task and a table, and nothing else.
Tasks that thread code queues without a trigger are left out of `TasksStart`
until somebody triggers PendSV. `UniquePid` leaves out the moment between the
two halves of an update in thread code. The end
of a trip is not checked by the console as its start is: numbers above 16, and
0, are queued, and what `Process()` does with a section that does not exist is
not followed. A command that was refused is not given again, so that most
properties of `Messages` speak of runs without one.

Of the 240 trips, 65 arrive with a prompt `Process()` (`MainLines` in
MCRail); the others end in a section that gets no power, lose the train's
id (`LosingTrips`), or plan a way the train cannot take. *rail* says that these
65 arrive; *rail_stuck* shows one that does not. A train that has arrived also
rolls to the end of its
destination, since nothing switches that section off.

## 4. What is proved

Eight modules hold proofs, each of its component's module for all values of the
constants that satisfy the assumptions named there. All but *SearchProofs*,
which is about operators, rest on inductive invariants.

*MemoryProofs* assumes `SizesAssumption`, `OrderAssumption`,
`AddressAssumption` (regions of equal size laid out one after another from
`ADDDRESS_BASE`, descriptors in the order of the levels, larger blocks at
higher levels, the end mark no index) and `CallersAssumption`.

- `TypeCorrect`: `TypeOK` is inductive by itself: links and list ends stay in
  their level.
- `ListsCorrect`: `Spec => []FreeListsWellFormed`. The inductive invariant is
  `Inductive == TypeOK /\ FreeListsExist`, where `FreeListsExist` is
  `FreeListsWellFormed` without the bound on the length of the list. Each
  action changes one level: `AllocateList` drops the head of its list,
  `ReleaseList` appends, with an empty list as its own case because `last` is
  then stale; `ListUntouched` keeps the others. `ListLength` bounds the length by
  the number of free blocks, a list without repetition being an injection.
- `Refinement`: `Spec => PoolSpec`. `AllocateFrom` maps to `Allocate` because
  the head of a list is free and an exhausted level has no free block: this is
  what `Inductive` is needed for. `DeallocateBlock` maps to `Deallocate`
  because `TargetIndex`, computed by division, is the block whose bytes
  contain the address (`TargetContains`, `ContainsIsTarget`).

*TaskQueueProofs* assumes `RingAssumption` (at least two slots) and
`TasksAssumption`. Its `Inductive` is `TypeOK`, a number `n` with
`Filled(Oldest, n)` (the occupied slots are the `n` from the oldest on, and
`head` is the slot after them), `Loaded` (what the handler has read from a slot
is still in it) and `NoneLeftBehind`. `Oldest` depends on where `dequeue()` was
interrupted: after `tail` has advanced and before the status bit is cleared the
oldest slot lies behind `tail`. `n` is needed since `head = tail` alone does not
tell full from empty.

- `TypeCorrect`, `NothingLeftBehind` and `RingCorrect` follow from it.
  `NothingLeftBehind` says of `pc = "leave"` that PendSV is pending again if
  anything is in the ring, and of thread code without PendSV pending that only
  its own tasks are: those `command_frame()` queues without a trigger are not
  excluded, since they may lie there.
- `Refinement`: `Spec => QueueSpec`. The line of `TaskFifo` is read from the
  ring, `n` slots from the oldest on; `enqueue()` appends to it exactly when a
  slot is left, and running a task removes its head.

*UartProofs* assumes `UartAssumption`. `StringHasATask` needs only types
besides itself to be inductive: thread code assigns the buffer and queues the
task in two steps, between which a task may have sent; but thread code runs
only when no task is queued, so that `ThreadAssign` overwrites no string that
has one.

- `StringCorrect`: `Spec => []StringHasATask`.
- `BlocksCorrect`: `Spec => LostOnlyByDropping`, an action property from the
  same invariant. A table may be sent in any step: its end mark may lie in
  whatever other block, or in none.

*MessagesProofs* assumes `MemoryAssumption` and `CommandsAssumption`. Its
`Inductive` is `Typed /\ Accounted /\ Started`. `Accounted` counts blocks: the
free ones, three for each frame in the ring, and those of frames being built
or given back by each context are never more than all blocks, and exactly all
unless a command was refused. `Started` says that only a refusal leaves
interrupts disabled, and that, while commands of `init()` are in the ring and
`init()` is through with them, PendSV is pending or active, so that it runs
before thread code goes on. A sensor that passes while the interrupt looks at the
pins changes which of them it finds high; `AskedFacts` counts for any.

- `TypeCorrect`, `FramesCorrect` and `StartupCorrect` follow from it.
- `Refinement`: `Spec => LineSpec`. The interrupt may queue its commands
  between any two steps of another context, which makes the line longer and
  nothing else.

*SchedulerProofs* assumes `SchedulerAssumption`. Its `Inductive` is `TypeOK`,
`Unallocated` (a PCB outside the lists reads as idle and is linked to nobody:
why `move_Pcb()` and `set_running()` do no harm with a terminated process),
`BootQuiet` and `WellLinked`, which says of each level that some sequence of
processes is its list in both directions. `WellLinked` is stated for any
queues, PCBs and set of processes, since `move_Pcb()` passes through lists
without the process it moves: `UnlinkedLines` and `LinkedLines` are about the
two halves.

- `TypeCorrect` and `QueuesCorrect`: a list without repetition is no longer
  than there are processes.
- `IdleCorrect`: `Spec => IdleLevelFixed`.
- `RunningCorrect`: `[]RunningIsHighest`, from `Highest`: no process *with a
  frame* outranks the running one while no swap is queued. `Highest` has to
  speak of the time before the first SVC too, and of each process by itself,
  since a registration that failed may be completed by a later one. The
  theorem has a premise: arguments are at most `Word` less the number of
  levels. With a larger one `promoteby()` may wrap, lower the priority and
  queue no swap.
- `QueuesRefined`: `Spec => QueuesSpec`. `Lines` chooses for each level a
  sequence that is its list. The links determine it (`SameLine`: the first
  place where two sequences of one list differ would have a predecessor where
  they agree), so that a sequence known to be the list after a step is the line
  after the step (`LinesBecome`). `LinkedLine` and `UnlinkedLine` say which
  sequence that is: `Append`, and `RemoveAt` where the process stood.
  `set_running()` maps to `Dispatch` because the running process has a
  successor exactly when it is not the last of its line, and a terminated one
  has none.

*SearchProofs* assumes `NoWayAssumption` (no section has the value that stands
for NULL). No induction theorem whose parameter is an operator can be used
here, so that induction over the sets of open sections is done by hand: a
statement that fails for some set of sections fails for one none of whose
proper subsets it fails for (`SmallestSet`, from the finiteness of `Sections`).
By that argument the defining equation of the recursive function has a solution
and only one (`SolutionExists`, `SolutionsAgree`), hence `RoutesDef`, and the
results of the function are legal ways (`RoutesLead`) and miss none
(`RoutesComplete`).

Its second half is about walks, which may come to a section again. The search
masks every section it has been in, so that it could miss a destination that is
only reached by a walk with a loop: a loop may be needed to turn round in front
of a switch that is `Forced`. That it never is on this layout is
`ShortestIsSimple`: a shortest walk, the traffic being what it may, comes to no
section twice. `ShortestWalk` says what is known of one, of lengths `D` of the
walks that end with a move: `D` grows by one along it and by no more than one
along any other legal step. A walk that comes to a section again could leave
out what it did in between, unless a switch forbids the step that results, and
by the shape of the layout that leaves eight ways into and out of a loop
(`ForcedCases`). A lemma for each (`NoLoop3To2` and so on) refutes it: `Follows`
is the table of the 38 moves with those that may follow each, `TurnsTo` what is
known of a move from its row, `NoDetour` that the first section of the loop has
no shorter way out, and the rows a case needs contradict each other.

- `FoundRouteLeads`: a route that is found, for whatever sections are used,
  goes from section to neighbouring section, never twice into the same, through
  open sections only and through no switch the way it cannot be taken.
- `DecisionTouches`: what `making_decision()` answers is a neighbour of the
  section asked about, or `NoWay`.

*TripProofs* assumes `ConsoleAssumption` for the console and `NoWayAssumption` and
`RouteAssumption` for the route. There are
two inductive invariants. `ConsoleInv` says that the parser's state, its
numbers and the block's length are a function of what was typed: at each state
the line fits the forms of commands up to a place, and `number1` to `number3`
have the values of its digits so far. `DriveInv` says of `Route`
that `next_segment` is 0 or what the search answers for the section it is in.

- `TripsTaken`, `StartsIndexTable` and `TrainsQueuedAsTyped` from the first, for
  any numbers of blocks and keys, `DecisionsLead` from the second for any
  `Traffic`.
- `NoWayIfNone`: `NoWay` is answered only if no way without repetition exists,
  for any `Traffic`.
- `NoWayNoWalk`: when `NoWay` is answered, no walk (`Walk`) of any length leads
  from the train's section to its destination, for any `Traffic`. If there were
  one, take a shortest: the `Distance` of a move is how many more the shortest
  walk makes after it, which is at most one more than that of any move that may
  follow (`DistanceStep`) and falls by one along the walk, so that it is a
  `ShortestWalk`. By `ShortestIsSimple` it is a way (`WalkedWay`), and by
  `NoWayIfNone`'s lemma `NoRoute` the search would have found one. Nothing is
  assumed of which sections are used.
- `NoWayCorrect`: `[]NoWayMeansNone`, the property of the run, for any
  `Traffic`: what the recursive function `Leading` finds backwards begins a walk
  (`LeadingWalks`). That `Leading` satisfies its equation is `LeadingDef`, from
  the existence of such a function (`LayersExist`).

*RailProofs* assumes `RailAssumption` and `NoWayAssumption`. Its `RailInv` says
that the world (table, gates, switches, power) and the locals are typed and that
the locals fit `pc`. Every step of `locking()` and `obtain_decision()` has one of
a few effects (`DoneEffect`: a field copied or cleared, or none of a train's
fields touched), the lists of steps in `Layout` are made of such steps
(`LocksTyped`, `SensorsTyped`), and a whole list keeps the world typed
(`AllDoneTyped`, by the lowest number of steps after which it would not).

- `RailTyped`, for any trips, speed and pace of `Process()`.
- `IdInOneSection`: `Spec /\ [][~ (Updating /\ Sensor)]_vars => []UniquePid`. The
  lists are told apart by what they do to the id: those that leave it alone
  (`PlainLists`), those that give it to a section and then take it from the old
  one (`MovesPid`), and what is left of one of these after the first half
  (`TakesPid`). `PidInv` adds to `RailInv` that the rest of a `locking()` is of
  one of the three kinds, and that the id is in one entry at most, in the third
  kind apart from the one that is still to be cleared. A sensor's list is carried
  out whole and leaves one entry at most if it finds one at most (`WholeLists`,
  `SensorsTyped`). The premise keeps a sensor out of the third
  kind: a report there copies an id of which there are two. Without the premise
  the statement is not proved.
- `PromptDirected`: `Spec => [](prompt => DirectionKnown)`, for any trips and
  speed. `KnownInv` adds that what a prompt `Process()` decided still stands
  when it gives the direction, no sensor coming in between, and that it touches
  the train's section (`DecisionTouches`); `select_direction` has an entry for
  every such pair (`GatesDirected`), and every other write of a direction copies
  one or resets it to 0 (`EffectDirected`). The premise is real: of a `Process()`
  that a report may overtake, that the decision stands is a matter of which
  sections are powered (see below).

Model-checked only:

- *Liveness*: `TasksStart`, `RoundRobin`, `StopsSomewhere`, `SensorsHeeded`,
  `Drains`, `Arrives`. Fairness needs ENABLED, which the prover does not treat.
- `DirectionKnown` for a `Process()` that sensors may overtake, and
  `FollowsDecision`, which depend on where on this layout the train is and
  which sections are powered while `Process()` takes each of its steps. The
  trips are all in the runs; the speed is all that a proof would add.
- `UniquePid` for reports between the two halves of an update, in run *rail*.
- What `memory_preempt` and the other violation runs show, which is that a
  property does not hold.

## 5. Not modelled, and why

- *The block of the task ring.* `initialize_Queue()` asks for 64 bytes for a
  ring of 256, so that its last slots lie in the next blocks. `TaskQueue` has
  the ring by itself, `Memory` has the blocks: nothing models what is written
  where.
- *A second train.* The console can start one, inside PendSV and with the same
  id. Two trains would meet the open sections of RailUnlocked at once; but no
  sensor of either is served any more. `Uart`, `Messages` and `Rail` are about the
  system as long as no command has been typed: their tasks return.
- *What a table overwrites* in the block behind its own.
- *Failed allocations in the train's code* and full rings there: commands to
  the track always get through in `Rail`. `Messages` has both.
- *Bytes on the SPI bus, registers, terminal texts, the cursor*: input and
  output only.
- *A controller that never answers*: `hall_sensor_command()` repeats its
  exchange inside PendSV without limit. `Messages` lets it fail any number of
  times and assumes, for liveness only, that it succeeds in the end.
- *Processes registered after the first SVC*, and memory of a freed PCB that
  is used again.
- *Sections off the layout*: what `Process()` does with section 0 or above
  16, or after a search that found no way and left NULL to be read, is
  undefined; `Rail` stops there and `Console` shows how far such a number gets.

## 6. The plan

Done: MemoryLayout, BlockPool, Memory, MemoryPreempt, MemoryProofs; TaskFifo,
TaskQueue, TaskQueueProofs; ReadyQueues, Scheduler, SchedulerProofs; Layout,
Search, Route, SearchProofs; Console, TripProofs; Uart, UartProofs;
CommandLine, Messages, MessagesProofs; Rail, RailProofs.

Next, in this order:

1. *Two trains* in `Rail`, on the lines where one arrives, one of them inside
   PendSV, where it never waits: the semaphores between them are what
   RailUnlocked leaves open.
2. *Boot*: the order of `init()` and the addresses it hands out, for the
   ring's block.

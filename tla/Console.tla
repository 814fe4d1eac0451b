------------------------------ MODULE Console -------------------------------
(***************************************************************************)
(* The console (ControlSoftware.c): get_received_char(), a task of PendSV, *)
(* runs once for every key and follows a command of the form               *)
(*         <start> ' ' <speed> ' ' <end> Enter                             *)
(* with two digits for a section and one for the speed.  Enter after a     *)
(* whole command queues Process() with the three numbers in a block.       *)
(* That too is a task of PendSV, and it never returns: no key is handled   *)
(* after it has started, nor any report of a hall sensor.                  *)
(*                                                                         *)
(* No other code touches the parser's variables, so that a key is a step.  *)
(* Every key allocates a block for its echo and passes it on: the text and *)
(* char_input, its column, are left out.                                   *)
(***************************************************************************)
EXTENDS Integers, Sequences

CONSTANTS
    Space, Enter,
    Other,          \* any other key that is not a digit
    NoTrain,        \* nothing queued
    NullTrain,      \* Process() queued with FALSE, which it reads as NULL
    MaxLate         \* keys of a new line received before Process() starts

ASSUME ConsoleAssumption ==
    /\ {Space, Enter, Other} \cap (0 .. 9) = {}
    /\ Space # Enter /\ Space # Other /\ Enter # Other

MAX_SECTION == 17
Keys == 0 .. 9 \cup {Space, Enter, Other}

VARIABLES
    current_state,              \* how far the command has come
    number1, number2, number3,  \* start, speed and end
    typed,                      \* the line, up to the first key that fits no command
    queued,                     \* the Process() in the ring
    occupied,                   \* PendSV has come to it
    stopped                     \* a write through NULL has faulted

numbers == <<number1, number2, number3>>
consoleVars == <<current_state, number1, number2, number3, typed, queued,
                 occupied, stopped>>

-----------------------------------------------------------------------------
(* A command, key by key.                                                  *)
Form == <<{0, 1}, 0 .. 9, {Space}, 0 .. 7, {Space}, {0, 1}, 0 .. 9>>
Fits(line) == Len(line) <= Len(Form) /\ \A i \in DOMAIN line : line[i] \in Form[i]
IsCommand(line) == Fits(line) /\ Len(line) = Len(Form)
Numbers(line) == <<10 * line[1] + line[2], line[4], 10 * line[6] + line[7]>>

-----------------------------------------------------------------------------
(* Slips that would each break one of the properties below.                *)
OnLayoutStrict(n) == n < MAX_SECTION - 1 /\ n > 0
OnLayoutInclusive(n) == n <= MAX_SECTION /\ n > 0
AfterSpaceSkipping == [START2 |-> "SPACE1", SPEEDVALUE |-> "END1"]

-----------------------------------------------------------------------------
ConsoleInit ==
    /\ current_state = "VALID"
    /\ number1 = 0 /\ number2 = 0 /\ number3 = 0
    /\ typed = <<>>
    /\ queued = NoTrain
    /\ occupied = FALSE
    /\ stopped = FALSE

(* Enter queues the command, unless the ring is full, and starts afresh.   *)
(* get_init_value_train() gets no block when memory is exhausted.          *)
ReceiveEnter ==
    /\ IF current_state = "END2" THEN queued' \in {numbers, NullTrain, queued}
                                 ELSE UNCHANGED queued
    /\ current_state' = "VALID"
    /\ number1' = 0 /\ number2' = 0 /\ number3' = 0

AfterSpace == [START2 |-> "SPACE1", SPEEDVALUE |-> "SPACE2"]

ReceiveSpace ==
    /\ current_state' = IF current_state \in DOMAIN AfterSpace
                        THEN AfterSpace[current_state] ELSE "INVALID"
    /\ UNCHANGED <<number1, number2, number3, queued>>

(* The states in which a digit is taken: the three cases of digits.        *)
TakenIn(d) == CASE d \in 0 .. 1 -> {"VALID", "START1", "SPACE1", "SPACE2", "END1"}
                [] d \in 2 .. 7 -> {"START1", "SPACE1", "END1"}
                [] d \in 8 .. 9 -> {"START1", "END1"}

AfterDigit == [VALID |-> "START1", START1 |-> "START2", SPACE1 |-> "SPEEDVALUE",
               SPACE2 |-> "END1", END1 |-> "END2"]

OnLayout(n) == n < MAX_SECTION /\ n > 0

(* Digits above 1 have the sum checked; at the end of the command too it   *)
(* is number1 that is looked at, whatever number3 has become.              *)
ReceiveDigit(d) ==
    /\ d \in 0 .. 9
    /\ current_state \in TakenIn(d)
    /\ number1' = CASE current_state = "VALID"  -> 10 * d
                    [] current_state = "START1" -> number1 + d
                    [] OTHER                    -> number1
    /\ number2' = IF current_state = "SPACE1" THEN d ELSE number2
    /\ number3' = CASE current_state = "SPACE2" -> 10 * d
                    [] current_state = "END1"   -> number3 + d
                    [] OTHER                    -> number3
    /\ current_state' =
         IF d > 1 /\ current_state \in {"START1", "END1"} /\ ~ OnLayout(number1')
         THEN "INVALID" ELSE AfterDigit[current_state]
    /\ UNCHANGED queued

ReceiveWrong(k) ==
    /\ \/ k = Other
       \/ k \in 0 .. 9 /\ current_state \notin TakenIn(k)
    /\ current_state' = "INVALID"
    /\ UNCHANGED <<number1, number2, number3, queued>>

get_received_char(k) ==
    /\ ~ occupied /\ ~ stopped
    /\ queued # NoTrain => Len(typed) < MaxLate
    /\ \/ k = Enter /\ ReceiveEnter
       \/ k = Space /\ ReceiveSpace
       \/ ReceiveDigit(k)
       \/ ReceiveWrong(k)
    /\ typed' = IF k = Enter THEN <<>>
                ELSE IF Fits(typed) THEN Append(typed, k) ELSE typed
    /\ UNCHANGED <<occupied, stopped>>

(* Without a block for the echo the key is written through NULL, which     *)
(* faults or has no effect.                                                *)
EchoFaults ==
    /\ ~ occupied /\ ~ stopped
    /\ stopped' = TRUE
    /\ UNCHANGED <<current_state, number1, number2, number3, typed, queued, occupied>>

(* PendSV has come to Process(), which runs there for ever.  The line is   *)
(* followed no more.                                                       *)
StartProcess ==
    /\ ~ occupied /\ ~ stopped
    /\ queued # NoTrain
    /\ occupied' = TRUE
    /\ queued' = NoTrain /\ typed' = <<>>
    /\ UNCHANGED <<current_state, number1, number2, number3, stopped>>

ConsoleNext == EchoFaults \/ StartProcess \/ \E k \in Keys : get_received_char(k)

ConsoleSpec == ConsoleInit /\ [][ConsoleNext]_consoleVars

-----------------------------------------------------------------------------
(* Every command between two sections of the layout is taken, whatever was *)
(* typed on the lines before it: "the invalid state will be reset when     *)
(* enter key is hit" (ControlSoftware.c:51-55).                            *)
TakesEveryTrip ==
    /\ IsCommand(typed)
    /\ {Numbers(typed)[1], Numbers(typed)[3]} \subseteq 1 .. MAX_SECTION - 1
    => current_state = "END2"

(* A train is queued only for a line that is a command, with the numbers   *)
(* of that line and of no earlier one (ControlSoftware.c:71-77).           *)
QueuedAsTyped ==
    [][queued' \notin {queued, NoTrain} =>
         IsCommand(typed) /\ queued' \in {Numbers(typed), NullTrain}]_consoleVars

(* The start, which Process() takes as an index into railsystem            *)
(* (train.c:625-628), is one of its entries whatever is typed: the sums    *)
(* that pass unchecked (lines 82-110) stay below 12.                       *)
StartIndexesTable == queued \notin {NoTrain, NullTrain} => queued[1] < MAX_SECTION
=============================================================================

---------------------------- MODULE MCMessages ------------------------------
(***************************************************************************)
(* Start-up with two commands, two controllers with pins and a sensor      *)
(* each, one of which makes obtain_decision() command the track.           *)
(* MessagesSensors.cfg: nothing to start up, with two sensors of one       *)
(* controller, so that one waits behind the other, and one of the other.   *)
(***************************************************************************)
EXTENDS Messages

CONSTANTS dir_mag, switch, power, off, s1, s2, s9

MCProgram == <<dir_mag, Trigger, switch, Trigger>>
MCTrain == {power}
MCSensors == [atmel1 |-> {s1}, atmel3 |-> {s9}]
MCFollowUps == (s1 :> <<off>>) @@ (s9 :> <<>>)

NoStartup == <<Trigger>>
NoTrain == {}
MoreSensors == [atmel1 |-> {s1, s2}, atmel3 |-> {s9}]
MoreFollowUps == [s \in {s1, s2, s9} |-> <<>>]
=============================================================================

---------------------------- MODULE CommandLine -----------------------------
(***************************************************************************)
(* What messageatmel.c promises to those who command the track: an         *)
(* accepted command is obeyed by its controller once, after every command  *)
(* accepted before it, and never instead of one that was not.              *)
(***************************************************************************)
EXTENDS Sequences

CONSTANT Commands

VARIABLES
    line,           \* the commands accepted and not yet obeyed
    obeyed          \* the last command that a controller obeyed

vars == <<line, obeyed>>

Init == line = <<>> /\ obeyed \notin Commands

(* A caller has one command accepted, the interrupt up to two at a time.   *)
Accept ==
    /\ \E c \in Commands : \/ line' = Append(line, c)
                           \/ \E d \in Commands : line' = line \o <<c, d>>
    /\ UNCHANGED obeyed

Obey ==
    /\ line # <<>>
    /\ obeyed' = Head(line)
    /\ line' = Tail(line)

Next == Accept \/ Obey

Spec == Init /\ [][Next]_vars
=============================================================================

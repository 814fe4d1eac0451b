------------------------------- MODULE Route --------------------------------
(***************************************************************************)
(* How a train finds its way: the part of Process() that plans again in    *)
(* every section (train.c), on the search of module Search.  Process()     *)
(* runs in thread code, as the one of main() does: a Process() that the    *)
(* console queues never lets PendSV come to a report (see Console).        *)
(* Sections that other trains hold and the hall sensors that report        *)
(* arrivals are the environment.                                           *)
(***************************************************************************)
EXTENDS Search

CONSTANTS
    Trips,          \* the <<start, end>> pairs Process() is called with
    Traffic         \* the sets of sections that may have status USED

ASSUME RouteAssumption == Trips \subseteq Sections \X Sections

VARIABLES
    start,          \* the section the train is in
    old_section,    \* the one it was in before
    end,            \* its destination
    used,           \* the sections with status USED
    next_segment    \* the section to go to next; 0 when it must be decided

vars == <<start, old_section, end, used, next_segment>>

-----------------------------------------------------------------------------
(* Process() starts with a train in its section, among whatever traffic    *)
(* there is.                                                               *)
Init ==
    /\ \E trip \in Trips : start = trip[1] /\ end = trip[2]
    /\ old_section = start
    /\ used \in Traffic
    /\ next_segment = 0

(* A turn of Process()'s loop that finds next_segment = 0.                 *)
Decide ==
    /\ next_segment = 0
    /\ start # end
    /\ next_segment' = making_decision(start, end, old_section, used)
    /\ UNCHANGED <<start, old_section, end, used>>

(* The hall sensor reports the train in the next section, whose            *)
(* next_segment is 0; Process() remembers the section it came from.        *)
Arrive ==
    /\ next_segment \in Sections
    /\ old_section' = start
    /\ start' = next_segment
    /\ next_segment' = 0
    /\ UNCHANGED <<end, used>>

(* Sections are taken and released.                                        *)
Move ==
    /\ next_segment = 0
    /\ used' \in Traffic
    /\ UNCHANGED <<start, old_section, end, next_segment>>

Next == Decide \/ Arrive \/ Move

Spec == Init /\ [][Next]_vars

(* Process() runs on, and so does a train that has a next section: these   *)
(* are the steps that change next_segment, fair in MCTrips' TrainSpec.     *)
DriveOn ==
    /\ next_segment # NoWay
    /\ next_segment = 0 => start # end
    /\ next_segment' \in (Sections \cup {0, NoWay}) \ {next_segment}

-----------------------------------------------------------------------------
(* A way from the start to the destination: neighbouring sections, none    *)
(* twice, none that is used or that the train just left, and no switch     *)
(* taken in the direction it cannot be.                                    *)
Passable == (Sections \ (used \cup {old_section})) \cup {end}
IsWay(way) ==
    /\ Len(way) > 1 /\ way[1] = start /\ way[Len(way)] = end
    /\ \A i \in 2 .. Len(way) : way[i] \in map_gate[way[i - 1]] \cap Passable
    /\ \A i, j \in 1 .. Len(way) : way[i] = way[j] => i = j
    /\ \A i \in 2 .. Len(way) - 1 : \A f \in Forced :
         f[1] = way[i - 1] /\ f[2] = way[i] => f[3] = way[i + 1]

(* The moves <<p, s>> (into s from p) that can begin the last k moves of a *)
(* walk to the destination, found backwards.                               *)
Moves == UNION {{<<p, s>> : s \in map_gate[p] \cap Passable} : p \in Sections}
Leading[k \in 0 .. 16] ==
    IF k = 0 THEN {m \in Moves : m[2] = end}
    ELSE LET shorter == Leading[k - 1]
         IN  shorter \cup
             {m \in Moves : \E n \in shorter :
                 /\ n[1] = m[2] /\ n[2] # m[1]
                 /\ \A f \in Forced : f[1] = m[1] /\ f[2] = m[2] => f[3] = n[2]}

(* What making_decision() answers begins a way to the destination that is  *)
(* passable at that moment (train.c:92-110, 138-166).                      *)
DecisionLeadsToEnd ==
    next_segment \in Sections =>
        LET route == FoundRoute(start, end, old_section, used)
        IN  IsWay(route) /\ next_segment = route[2]

(* It finds no route only if there is none (train.c:168-247).              *)
NoWayMeansNone ==
    next_segment = NoWay => \A m \in Leading[16] : m[1] # start

(* Planning again in every section, each time with the train's section as  *)
(* its own predecessor (train.c:92-93), does not send a train round for    *)
(* ever once the traffic no longer changes; whether and when the reports   *)
(* come is left open.  Section 13 is excepted, see DetectsHow.             *)
StopsSomewhere ==
    <>[][used' = used]_used /\ end # 13 => <>[][start' = start]_start

(* The search "will detect how to get to the destination" (train.c:67):    *)
(* among traffic that no longer changes a train that is reported in every  *)
(* section comes to its destination, or the search to no route.  Section   *)
(* 13 lies between 1 and 4, where the search tries the lower exits first,  *)
(* and from 1 by 6 and from 4 by 3 they lead back to the other end, again  *)
(* and again.                                                              *)
DetectsHow ==
    <>[][used' = used]_used => <>(start = end \/ next_segment = NoWay)
=============================================================================

------------------------------- MODULE MCRail -------------------------------
(* A train on the layout: every trip, the trips on which its id is lost,   *)
(* the trips that arrive, and the one that main() makes.                   *)
EXTENDS Rail

AllTrips == {t \in Sections \X Sections : t[1] # t[2]}

From(starts, ends) == {t \in starts \X ends : t[1] # t[2]}

(* Across the switches 6 and 8, and out of section 13, the sensors move the*)
(* entry of a section that the train is not in.                            *)
LosingTrips == From({1, 6}, 7 .. 12 \cup {15})
               \cup From({12}, 1 .. 8 \cup 13 .. 16)
               \cup From({13}, Sections)
KeptTrips == AllTrips \ LosingTrips

(* A Process() that the sensors may overtake, on every trip; one that they *)
(* do not, on the trips that keep the id, or on those that lose it.        *)
Paced(trips, pace) == {<<t[1], t[2], pace>> : t \in trips}
PacedTrips == Paced(AllTrips, FALSE) \cup Paced(KeptTrips, TRUE)
LosingPrompt == Paced(LosingTrips, TRUE)

(* Around the outer ring and into its sidings; around the inner ring.      *)
MainLines == From(1 .. 6 \cup {14}, {1, 2, 3, 4, 6})
             \cup From({1, 6}, {5, 16}) \cup {<<4, 16>>}
             \cup From({1, 2, 3, 4, 6}, {14})
             \cup From(7 .. 11 \cup {15}, 8 .. 11)
             \cup From({12}, 9 .. 11)
             \cup {<<7, 15>>, <<15, 7>>}

(* get_init_value_train(4,3,15)                                            *)
ShippedTrip == {<<4, 15>>}
ShippedPrompt == Paced(ShippedTrip, TRUE)
ShippedOvertaken == Paced(ShippedTrip, FALSE)
=============================================================================

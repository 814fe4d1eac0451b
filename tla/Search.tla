------------------------------- MODULE Search -------------------------------
(***************************************************************************)
(* How making_decision() and recursion() (train.c) search the layout for   *)
(* the next section of a train.  The block of 2024 bytes that the search   *)
(* works in is always there: the return of FALSE without it (train.c:78)   *)
(* is left out.                                                            *)
(***************************************************************************)
EXTENDS Layout

CONSTANT NoWay      \* what making_decision() reads when there is no route

ASSUME NoWayAssumption == NoWay \notin Sections \cup {0}

(* The switches a train cannot take: <<p, s, e>> when a train that entered *)
(* section s from section p can only leave it to e.                        *)
Forced == {<<3, 2, 1>>, <<2, 3, 4>>, <<11, 12, 7>>, <<6, 5, 4>>,
           <<5, 12, 7>>, <<12, 5, 4>>, <<8, 3, 4>>, <<3, 8, 7>>}

-----------------------------------------------------------------------------
(* Slips that would each break one of Route's properties.                  *)

(* The search ignores where a section is entered from.                     *)
ExitsUnforced(p, s) == map_gate[s]

(* The section the train came from is not masked.                          *)
OpenSectionsBack(s, target, old, used) == (Sections \ (used \cup {s})) \cup {target}

(* The destination keeps the status it has.                                *)
OpenSectionsOnly(s, target, old, used) == Sections \ (used \cup {old, s})

-----------------------------------------------------------------------------
Exits(p, s) ==
    LET forced == {e \in Sections : <<p, s, e>> \in Forced}
    IN  map_gate[s] \cap (IF forced = {} THEN Sections ELSE forced)

(* Of the routes that begin with different sections, the one that is found *)
(* by the loop over the sections in ascending order.                       *)
FirstFound(routes) == CHOOSE r \in routes : \A q \in routes : r[1] <= q[1]

(* The routes to the target, depth first over the sections still open: a   *)
(* section is masked in the section array of its own call and of those it  *)
(* makes.                                                                  *)
Routes(target) ==
    LET route[open \in SUBSET Sections] ==
          [p \in Sections |-> [s \in Sections |->
             LET found == {route[open \ {e}][s][e] : e \in Exits(p, s) \cap open}
                              \ {<<>>}
             IN  IF s = target THEN <<s>>
                 ELSE IF found = {} THEN <<>> ELSE <<s>> \o FirstFound(found)]]
    IN  route

(* recursion(): the route from s, entered from p, or <<>> for NULL.        *)
recursion(p, s, target, open) == Routes(target)[open \ {s}][p][s]

(* The section array of making_decision(): old_section and start are       *)
(* masked, the destination is open whatever its status.                    *)
OpenSections(s, target, old, used) ==
    (Sections \ (used \cup {old, s})) \cup {target}

(* The first call passes the start as its own predecessor.                 *)
FoundRoute(s, target, old, used) ==
    recursion(s, s, target, OpenSections(s, target, old, used))

(* The second node of the route.  Without a route the loop that looks for  *)
(* it ends at NULL, whose starting field is then read.                     *)
making_decision(s, target, old, used) ==
    LET route == FoundRoute(s, target, old, used)
    IN  IF route = <<>> THEN NoWay ELSE route[2]
=============================================================================

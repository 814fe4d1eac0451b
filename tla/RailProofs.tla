----------------------------- MODULE RailProofs -----------------------------
(***************************************************************************)
(* Proofs about Rail, for every set of trips, every speed and every pace:  *)
(* the table, the track and the locals of Process() stay well typed; and   *)
(* the id of the train is in one section at most as long as no report      *)
(* comes while locking() has it in two.  If Process() is done before the   *)
(* next report, no section has the direction UNUSE.                        *)
(***************************************************************************)
EXTENDS Rail, SearchProofs, SequenceTheorems

-----------------------------------------------------------------------------
(* The steps of locking() and of obtain_decision(), and those that leave   *)
(* the id of the train where it is.                                        *)
HallSensors == 1 .. 32
GateSets == SUBSET (1 .. 9)
Fields == {"direction", "piD", "speed"}
Step == ({"wait", "post", "power", "off"} \X Sections)
        \cup ({"give"} \X Fields \X Sections \X Sections)
        \cup ({"clear"} \X (Fields \cup {"next_segment"}) \X Sections)
        \cup ({"gates", "turn"} \X BOOLEAN \X GateSets)
PlainStep == {step \in Step : step[1] \in {"give", "clear"} => step[2] # "piD"}
StepLists == Seq(Step)
PlainLists == Seq(PlainStep)

LEMMA StepsTyped ==
    /\ \A s \in Sections : /\ Wait(s) \in PlainStep /\ Post(s) \in PlainStep
                           /\ Power(s) \in PlainStep /\ Off(s) \in PlainStep
    /\ \A f \in {"direction", "speed"}, a, b \in Sections : Give(f, a, b) \in PlainStep
    /\ \A f \in {"direction", "speed", "next_segment"}, a \in Sections : Clear(f, a) \in PlainStep
    /\ \A a, b \in Sections : Give("piD", a, b) \in Step
    /\ \A a \in Sections : Clear("piD", a) \in Step
    /\ \A on \in BOOLEAN, G \in GateSets : /\ Gates(on, G) \in PlainStep
                                           /\ Turn(on, G) \in PlainStep
    BY DEF PlainStep, Step, Fields, Wait, Post, Power, Off, Give, Clear, Gates, Turn

LEMMA ListsTyped ==
    /\ <<>> \in PlainLists
    /\ \A a \in PlainStep : <<a>> \in PlainLists
    /\ \A a, b \in PlainStep : <<a, b>> \in PlainLists
    /\ \A a, b, c \in PlainStep : <<a, b, c>> \in PlainLists
    /\ \A a, b, c, d \in PlainStep : <<a, b, c, d>> \in PlainLists
    /\ \A a, b, c, d, e \in PlainStep : <<a, b, c, d, e>> \in PlainLists
    /\ \A x, y \in PlainLists : x \o y \in PlainLists
    BY DEF PlainLists

LEMMA PlainTyped == PlainStep \subseteq Step /\ PlainLists \subseteq StepLists
    BY DEF PlainStep, PlainLists, StepLists

LEMMA TurnsTyped ==
    \A G \in GateSets : TurnOn(G) \in PlainLists /\ TurnOff(G) \in PlainLists
    BY StepsTyped, ListsTyped DEF TurnOn, TurnOff

LEMMA SectionTyped ==
    \A h \in HallSensors : CONVERT_TO_SECTION(h) \in Sections
    BY DEF HallSensors, CONVERT_TO_SECTION, Sections

(* What locking() hands over itself and what copy_the_next_value() copies. *)
LEMMA CopiesTyped ==
    /\ \A a, b \in Sections : Hand(a, b) \in PlainLists
    /\ \A h, k \in HallSensors : Copy(h, k) \in PlainLists
    BY StepsTyped, ListsTyped, SectionTyped DEF Hand, Copy, CopySections

(* Lists that give the id to another section and then take it from the     *)
(* first, and lists that take it from a section.                           *)
MovesPid(l) ==
    \E a, b \in Sections, x, y, z \in PlainLists :
        l = x \o (<<Give("piD", a, b)>> \o (y \o (<<Clear("piD", a)>> \o z)))
TakesPid(l, a) ==
    \E y, z \in PlainLists : l = y \o (<<Clear("piD", a)>> \o z)

LEMMA UpdateMoves == \A h, k \in HallSensors : MovesPid(Update(h, k))
<1> SUFFICES ASSUME NEW a \in Sections, NEW b \in Sections
             PROVE  MovesPid(UpdateSections(a, b))
    BY SectionTyped DEF Update
<1> DEFINE x == <<Give("direction", a, b)>>
           y == <<Give("speed", a, b), Clear("next_segment", b), Clear("speed", a)>>
           z == <<Clear("direction", a)>>
<1>1. x \in PlainLists /\ y \in PlainLists /\ z \in PlainLists
    BY StepsTyped, ListsTyped
<1>2. UpdateSections(a, b) = x \o (<<Give("piD", a, b)>> \o (y \o (<<Clear("piD", a)>> \o z)))
    BY DEF UpdateSections
<1> QED
    BY <1>1, <1>2 DEF MovesPid

LEMMA DeleteTakes ==
    \A h \in HallSensors : \E a \in Sections : TakesPid(Delete(h), a)
<1> SUFFICES ASSUME NEW a \in Sections PROVE TakesPid(DeleteSection(a), a)
    BY SectionTyped DEF Delete
<1> DEFINE y == <<Clear("direction", a)>>
           z == <<Clear("speed", a), Clear("next_segment", a)>>
<1>1. y \in PlainLists /\ z \in PlainLists
    BY StepsTyped, ListsTyped
<1>2. DeleteSection(a) = y \o (<<Clear("piD", a)>> \o z)
    BY DEF DeleteSection
<1> QED
    BY <1>1, <1>2 DEF TakesPid

LEMMA MovesTyped ==
    /\ \A l : MovesPid(l) => l \in StepLists
    /\ \A l, a : a \in Sections /\ TakesPid(l, a) => l \in StepLists
<1>1. \A x, y \in StepLists : x \o y \in StepLists
    BY DEF StepLists
<1>2. /\ \A a, b \in Sections : <<Give("piD", a, b)>> \in StepLists
      /\ \A a \in Sections : <<Clear("piD", a)>> \in StepLists
    BY StepsTyped DEF StepLists
<1> QED
    BY <1>1, <1>2, PlainTyped DEF MovesPid, TakesPid

LEMMA Joined ==
    ASSUME NEW u \in StepLists, NEW v \in StepLists, NEW w \in StepLists
    PROVE  u \o v \in StepLists /\ (u \o v) \o w = u \o (v \o w)
<1>1. u \o v \in StepLists
    BY DEF StepLists
<1>2. (u \o v) \o w = u \o (v \o w)
    BY ConcatAssociative DEF StepLists
<1> QED
    BY <1>1, <1>2

(* Plain steps before and after.                                           *)
LEMMA MovesWithin ==
    ASSUME NEW p \in PlainLists, NEW l, MovesPid(l), NEW q \in PlainLists
    PROVE  MovesPid(p \o l \o q)
<1>1. PICK a \in Sections, b \in Sections, x \in PlainLists, y \in PlainLists, z \in PlainLists :
        l = x \o (<<Give("piD", a, b)>> \o (y \o (<<Clear("piD", a)>> \o z)))
    BY DEF MovesPid
<1> DEFINE g == <<Give("piD", a, b)>>
           c == <<Clear("piD", a)>>
<1>2. /\ p \in StepLists /\ q \in StepLists /\ x \in StepLists /\ y \in StepLists
      /\ z \in StepLists /\ g \in StepLists /\ c \in StepLists
    BY PlainTyped, StepsTyped DEF StepLists
<1>3. l = x \o (g \o (y \o (c \o z)))
    BY <1>1
<1> HIDE DEF g, c
<1> DEFINE J(u, v) == u \o v
<1>4. /\ \A u, v \in StepLists : J(u, v) \in StepLists
      /\ \A u, v, w \in StepLists : J(J(u, v), w) = J(u, J(v, w))
    BY Joined
<1>5. l = J(x, J(g, J(y, J(c, z))))
    BY <1>3
<1> HIDE DEF J
<1>6. J(J(p, l), q) = J(J(p, x), J(g, J(y, J(c, J(z, q)))))
  <2>1. J(J(c, z), q) = J(c, J(z, q))
    BY <1>2, <1>4
  <2>2. J(J(y, J(c, z)), q) = J(y, J(c, J(z, q)))
    BY <1>2, <1>4, <2>1
  <2>3. J(J(g, J(y, J(c, z))), q) = J(g, J(y, J(c, J(z, q))))
    BY <1>2, <1>4, <2>2
  <2>4. J(p, l) = J(J(p, x), J(g, J(y, J(c, z))))
    BY <1>2, <1>4, <1>5
  <2>5. J(p, x) \in StepLists /\ J(g, J(y, J(c, z))) \in StepLists
    BY <1>2, <1>4
  <2> QED
    BY <1>2, <1>4, <2>3, <2>4, <2>5
<1>10. p \o l \o q = (p \o x) \o (g \o (y \o (c \o (z \o q))))
    BY <1>6 DEF J
<1>11. p \o x \in PlainLists /\ z \o q \in PlainLists
    BY ListsTyped
<1> QED
    BY <1>10, <1>11 DEF MovesPid, g, c

(* The numbers and sets the tables are made of.                            *)
LEMMA NumbersTyped ==
    /\ 1 \in Sections /\ 2 \in Sections /\ 3 \in Sections /\ 4 \in Sections
    /\ 5 \in Sections /\ 6 \in Sections /\ 7 \in Sections /\ 8 \in Sections
    /\ 9 \in Sections /\ 10 \in Sections /\ 11 \in Sections /\ 12 \in Sections
    /\ 13 \in Sections /\ 14 \in Sections /\ 15 \in Sections /\ 16 \in Sections
    /\ 1 \in HallSensors /\ 2 \in HallSensors /\ 3 \in HallSensors /\ 4 \in HallSensors
    /\ 5 \in HallSensors /\ 6 \in HallSensors /\ 7 \in HallSensors /\ 8 \in HallSensors
    /\ 9 \in HallSensors /\ 10 \in HallSensors /\ 11 \in HallSensors /\ 12 \in HallSensors
    /\ 13 \in HallSensors /\ 14 \in HallSensors /\ 15 \in HallSensors /\ 16 \in HallSensors
    /\ 17 \in HallSensors /\ 18 \in HallSensors /\ 19 \in HallSensors /\ 20 \in HallSensors
    /\ 21 \in HallSensors /\ 22 \in HallSensors /\ 23 \in HallSensors /\ 24 \in HallSensors
    /\ 25 \in HallSensors /\ 26 \in HallSensors /\ 27 \in HallSensors /\ 28 \in HallSensors
    /\ 29 \in HallSensors /\ 30 \in HallSensors /\ 31 \in HallSensors /\ 32 \in HallSensors
    BY DEF Sections, HallSensors

LEMMA GateSetsTyped ==
    /\ {1} \in GateSets /\ {2} \in GateSets /\ {4} \in GateSets
    /\ {5} \in GateSets /\ {9} \in GateSets
    /\ {3, 7} \in GateSets /\ {6, 8} \in GateSets
    BY DEF GateSets

(* What locking() is made of: in one place it moves the id.                *)
LockLists == {l \in StepLists : l \in PlainLists \/ MovesPid(l)}
LockWays == [ccw : LockLists, cw : LockLists]

LEMMA LocksPlain == PlainLists \subseteq LockLists
    BY PlainTyped DEF LockLists

LEMMA OuterLocksTyped ==
    ASSUME NEW n
    PROVE  OuterLocks(n) \in Seq(LockWays) /\ Len(OuterLocks(n)) = 6
<1> USE NumbersTyped, GateSetsTyped, StepsTyped, ListsTyped, TurnsTyped,
        CopiesTyped, LocksPlain DEF OuterLocks, LockWays, When
<1>1. OuterLocks(n)[1] \in LockWays
    OBVIOUS
<1>2. OuterLocks(n)[2] \in LockWays
    OBVIOUS
<1>3. OuterLocks(n)[3] \in LockWays
  <2> DEFINE p == <<Wait(9), Wait(8)>> \o TurnOn({3, 7})
             q == <<Power(9), Power(8)>>
  <2>1. p \in PlainLists /\ q \in PlainLists
    OBVIOUS
  <2>2. MovesPid(p \o Update(6, 16) \o q)
    BY <2>1, UpdateMoves, MovesWithin
  <2>3. p \o Update(6, 16) \o q \in LockLists
    BY <2>2, MovesTyped DEF LockLists
  <2> QED
    BY <2>3
<1>4. OuterLocks(n)[4] \in LockWays
    OBVIOUS
<1>5. OuterLocks(n)[5] \in LockWays
    OBVIOUS
<1>6. OuterLocks(n)[6] \in LockWays
    OBVIOUS
<1> QED
    BY <1>1, <1>2, <1>3, <1>4, <1>5, <1>6

LEMMA InnerLocksTyped ==
    ASSUME NEW n
    PROVE  InnerLocks(n) \in Seq(LockWays) /\ Len(InnerLocks(n)) = 6
<1> USE NumbersTyped, GateSetsTyped, StepsTyped, ListsTyped, TurnsTyped,
        CopiesTyped, LocksPlain DEF InnerLocks, LockWays, When
<1>1. InnerLocks(n)[1] \in LockWays
    OBVIOUS
<1>2. InnerLocks(n)[2] \in LockWays
    OBVIOUS
<1>3. InnerLocks(n)[3] \in LockWays
    OBVIOUS
<1>4. InnerLocks(n)[4] \in LockWays
    OBVIOUS
<1>5. InnerLocks(n)[5] \in LockWays
    OBVIOUS
<1>6. InnerLocks(n)[6] \in LockWays
    OBVIOUS
<1> QED
    BY <1>1, <1>2, <1>3, <1>4, <1>5, <1>6

LEMMA SpurLocksTyped ==
    SpurLocks \in Seq(LockWays) /\ Len(SpurLocks) = 4
<1> USE NumbersTyped, GateSetsTyped, StepsTyped, ListsTyped, TurnsTyped,
        CopiesTyped, LocksPlain DEF SpurLocks, LockWays
<1>1. SpurLocks[1] \in LockWays
    OBVIOUS
<1>2. SpurLocks[2] \in LockWays
    OBVIOUS
<1>3. SpurLocks[3] \in LockWays
    OBVIOUS
<1>4. SpurLocks[4] \in LockWays
    OBVIOUS
<1> QED
    BY <1>1, <1>2, <1>3, <1>4

-----------------------------------------------------------------------------
(* The world: the table, the gates, the switches and the power.            *)
Entry == [status : {AVAILABLE, USED}, direction : {CW, CCW, UNUSE},
          speed : {0, Speed}, next_segment : Sections \cup {0, NoWay},
          piD : {0, pid}]
Tables == [0 .. 16 -> Entry]
Worlds == [railsystem : Tables, gate : GateSets, turned : GateSets,
           power : [Sections -> {Stopped, CW, CCW}]]

LEMMA WorldParts ==
    ASSUME NEW w \in Worlds
    PROVE  /\ w.railsystem \in Tables
           /\ w.gate \in GateSets /\ w.turned \in GateSets
           /\ w.power \in [Sections -> {Stopped, CW, CCW}]
           /\ w = [railsystem |-> w.railsystem, gate |-> w.gate,
                   turned |-> w.turned, power |-> w.power]
    BY DEF Worlds

LEMMA WorldWith ==
    ASSUME NEW w \in Worlds
    PROVE  /\ \A r \in Tables : /\ [w EXCEPT !.railsystem = r] \in Worlds
                                /\ [w EXCEPT !.railsystem = r].railsystem = r
           /\ \A G \in GateSets : /\ [w EXCEPT !.gate = G] \in Worlds
                                  /\ [w EXCEPT !.turned = G] \in Worlds
           /\ \A p \in [Sections -> {Stopped, CW, CCW}] : [w EXCEPT !.power = p] \in Worlds
    BY DEF Worlds

(* The fields that no step but "give" and "clear" changes.                 *)
Carried == {"direction", "piD"}
SameCarried(r, r2) == \A f \in Carried, s \in 0 .. 16 : r2[s][f] = r[s][f]

(* One field of one section is written.                                    *)
LEMMA FieldSet ==
    ASSUME NEW r \in Tables, NEW s,
           NEW st \in {AVAILABLE, USED}, NEW d \in {CW, CCW, UNUSE},
           NEW v \in {0, Speed}, NEW n \in Sections \cup {0, NoWay}
    PROVE  /\ [r EXCEPT ![s].status = st] \in Tables
           /\ SameCarried(r, [r EXCEPT ![s].status = st])
           /\ [r EXCEPT ![s].direction = d] \in Tables
           /\ [r EXCEPT ![s].speed = v] \in Tables
           /\ SameCarried(r, [r EXCEPT ![s].speed = v])
           /\ [r EXCEPT ![s].next_segment = n] \in Tables
           /\ SameCarried(r, [r EXCEPT ![s].next_segment = n])
<1>1. \A x \in 0 .. 16 : r[x] \in Entry
    BY DEF Tables
<1>2. [r EXCEPT ![s].status = st] \in Tables /\ SameCarried(r, [r EXCEPT ![s].status = st])
    BY <1>1 DEF Tables, Entry, SameCarried, Carried
<1>3. [r EXCEPT ![s].direction = d] \in Tables
    BY <1>1 DEF Tables, Entry
<1>4. [r EXCEPT ![s].speed = v] \in Tables /\ SameCarried(r, [r EXCEPT ![s].speed = v])
    BY <1>1 DEF Tables, Entry, SameCarried, Carried
<1>5. /\ [r EXCEPT ![s].next_segment = n] \in Tables
      /\ SameCarried(r, [r EXCEPT ![s].next_segment = n])
    BY <1>1 DEF Tables, Entry, SameCarried, Carried
<1> QED
    BY <1>2, <1>3, <1>4, <1>5

(* What a step makes of a world: another one, in which the direction and   *)
(* the id of a section are new only if the step gives or clears them.      *)
Effect(w, w2, step) ==
    /\ w2 \in Worlds
    /\ \A f \in Carried, s \in 0 .. 16 :
         w2.railsystem[s][f] =
           IF step[1] = "give" /\ step[2] = f /\ step[4] = s
           THEN w.railsystem[step[3]][f]
           ELSE IF step[1] = "clear" /\ step[2] = f /\ step[3] = s
           THEN 0
           ELSE w.railsystem[s][f]

LEMMA SameEffect ==
    ASSUME NEW w \in Worlds, NEW w2 \in Worlds, NEW step,
           step[1] \notin {"give", "clear"}, SameCarried(w.railsystem, w2.railsystem)
    PROVE  Effect(w, w2, step)
    BY DEF Effect, SameCarried

(* hall_sensor_dir_mag().                                                  *)
LEMMA DirMagTyped ==
    ASSUME NEW w \in Worlds, NEW s \in 0 .. 16, NEW d, NEW speed
    PROVE  /\ dir_mag(w, s, d, speed) \in Worlds
           /\ SameCarried(w.railsystem, dir_mag(w, s, d, speed).railsystem)
<1> DEFINE st == IF Moving(d, speed) THEN AVAILABLE ELSE w.railsystem[s].status
           r == [w.railsystem EXCEPT ![s].status = st]
           p == [w.power EXCEPT ![s] = Powered(d, speed)]
           w2 == [w EXCEPT !.power = p]
<1>1. /\ w.railsystem \in Tables
      /\ w.power \in [Sections -> {Stopped, CW, CCW}]
    BY WorldParts
<1>2. dir_mag(w, s, d, speed) = [w2 EXCEPT !.railsystem = r]
  <2>1. w2.railsystem = w.railsystem
    BY WorldParts
  <2> QED
    BY <2>1 DEF dir_mag
<1>3. st \in {AVAILABLE, USED}
    BY <1>1 DEF Tables, Entry
<1>4. r \in Tables /\ SameCarried(w.railsystem, r)
  <2>1. 0 \in {0, Speed} /\ 0 \in Sections \cup {0, NoWay} /\ CW \in {CW, CCW, UNUSE}
    OBVIOUS
  <2> HIDE DEF st
  <2> QED
    BY <1>1, <1>3, <2>1, FieldSet
<1>5. Powered(d, speed) \in {Stopped, CW, CCW}
    BY DEF Powered
<1>6. p \in [Sections -> {Stopped, CW, CCW}]
    BY <1>1, <1>5
<1> HIDE DEF p, r
<1>7. w2 \in Worlds
    BY <1>6, WorldWith
<1> HIDE DEF w2
<1> QED
    BY <1>2, <1>4, <1>7, WorldWith

(* Any step.                                                               *)
LEMMA DoneEffect ==
    ASSUME NEW w \in Worlds, NEW step \in Step, NEW d, NEW speed
    PROVE  Effect(w, Done(w, step, d, speed), step)
<1> DEFINE w2 == Done(w, step, d, speed)
<1>1. w.railsystem \in Tables /\ w.gate \in GateSets /\ w.turned \in GateSets
    BY WorldParts
<1>2. Sections \subseteq 0 .. 16 /\ \A x \in 0 .. 16 : w.railsystem[x] \in Entry
    BY <1>1 DEF Sections, Tables
<1>3. CASE step \in {"wait", "post"} \X Sections
  <2> DEFINE st == IF step[1] = "wait" THEN USED ELSE AVAILABLE
             r == [w.railsystem EXCEPT ![step[2]].status = st]
  <2>1. st \in {AVAILABLE, USED} /\ 0 \in {0, Speed}
        /\ 0 \in Sections \cup {0, NoWay} /\ CW \in {CW, CCW, UNUSE}
    OBVIOUS
  <2>2. w2 = [w EXCEPT !.railsystem = r] /\ step[1] \notin {"give", "clear"}
    BY <1>3 DEF Done
  <2> HIDE DEF st, w2
  <2>3. r \in Tables /\ SameCarried(w.railsystem, r)
    BY <1>1, <2>1, FieldSet
  <2> HIDE DEF r
  <2>4. w2 \in Worlds /\ w2.railsystem = r
    BY <2>2, <2>3, WorldWith
  <2>5. Effect(w, w2, step)
    BY <2>2, <2>3, <2>4, SameEffect
  <2> QED
    BY <2>5 DEF w2
<1>4. CASE step \in {"power", "off"} \X Sections
  <2>1. step[2] \in 0 .. 16 /\ step[1] \in {"power", "off"}
    BY <1>2, <1>4
  <2>2. w2 = IF step[1] = "power" THEN dir_mag(w, step[2], d, speed)
             ELSE dir_mag(w, step[2], CW, 0)
    BY <2>1 DEF Done
  <2> HIDE DEF w2
  <2>3. w2 \in Worlds /\ SameCarried(w.railsystem, w2.railsystem)
    BY <2>1, <2>2, DirMagTyped
  <2>4. Effect(w, w2, step)
    BY <2>1, <2>3, SameEffect
  <2> QED
    BY <2>4 DEF w2
<1>5. CASE step \in {"give"} \X Fields \X Sections \X Sections
  <2>1. /\ step[1] = "give" /\ step[2] \in Fields
        /\ step[3] \in 0 .. 16 /\ step[4] \in 0 .. 16
    BY <1>2, <1>5
  <2> DEFINE e == [w.railsystem[step[4]] EXCEPT ![step[2]] = w.railsystem[step[3]][step[2]]]
             r == [w.railsystem EXCEPT ![step[4]] = e]
  <2>2. w2 = [w EXCEPT !.railsystem = r]
    BY <2>1 DEF Done
  <2>3. w.railsystem[step[3]] \in Entry /\ w.railsystem[step[4]] \in Entry
    BY <1>2, <2>1
  <2>4. e \in Entry
    BY <2>1, <2>3 DEF Entry, Fields
  <2>5. \A f \in Carried : e[f] = IF f = step[2] THEN w.railsystem[step[3]][f]
                                  ELSE w.railsystem[step[4]][f]
    BY <2>1, <2>3 DEF Entry, Fields, Carried
  <2> HIDE DEF e, w2
  <2>6. r \in Tables /\ \A x \in 0 .. 16 : r[x] = IF x = step[4] THEN e ELSE w.railsystem[x]
    BY <1>1, <2>1, <2>4 DEF Tables
  <2> HIDE DEF r
  <2>7. w2 \in Worlds /\ w2.railsystem = r
    BY <2>2, <2>6, WorldWith
  <2>8. Effect(w, w2, step)
    BY <2>1, <2>5, <2>6, <2>7 DEF Effect
  <2> QED
    BY <2>8 DEF w2
<1>6. CASE step \in {"clear"} \X (Fields \cup {"next_segment"}) \X Sections
  <2>1. /\ step[1] = "clear" /\ step[2] \in Fields \cup {"next_segment"}
        /\ step[3] \in 0 .. 16
    BY <1>2, <1>6
  <2> DEFINE e == [w.railsystem[step[3]] EXCEPT ![step[2]] = 0]
             r == [w.railsystem EXCEPT ![step[3]] = e]
  <2>2. w2 = [w EXCEPT !.railsystem = r]
    BY <2>1 DEF Done
  <2>3. w.railsystem[step[3]] \in Entry
    BY <1>2, <2>1
  <2>4. e \in Entry
    BY <2>1, <2>3 DEF Entry, Fields, CW
  <2>5. \A f \in Carried : e[f] = IF f = step[2] THEN 0 ELSE w.railsystem[step[3]][f]
    BY <2>1, <2>3 DEF Entry, Fields, Carried
  <2> HIDE DEF e, w2
  <2>6. r \in Tables /\ \A x \in 0 .. 16 : r[x] = IF x = step[3] THEN e ELSE w.railsystem[x]
    BY <1>1, <2>1, <2>4 DEF Tables
  <2> HIDE DEF r
  <2>7. w2 \in Worlds /\ w2.railsystem = r
    BY <2>2, <2>6, WorldWith
  <2>8. Effect(w, w2, step)
    BY <2>1, <2>5, <2>6, <2>7 DEF Effect
  <2> QED
    BY <2>8 DEF w2
<1>7. CASE step \in {"gates", "turn"} \X BOOLEAN \X GateSets
  <2>1. step[1] \in {"gates", "turn"} /\ step[2] \in BOOLEAN /\ step[3] \in GateSets
    BY <1>7
  <2> DEFINE g == Toggled(step[2], w.gate, step[3])
             t == Toggled(step[2], w.turned, step[3])
  <2>2. g \in GateSets /\ t \in GateSets
    BY <1>1, <2>1 DEF Toggled, GateSets
  <2>3. w2 = IF step[1] = "gates" THEN [w EXCEPT !.gate = g] ELSE [w EXCEPT !.turned = t]
    BY <2>1 DEF Done
  <2> HIDE DEF g, t, w2
  <2>4. w2 \in Worlds
    BY <2>2, <2>3, WorldWith
  <2>5. w2.railsystem = w.railsystem
    BY <2>3, WorldParts
  <2>6. Effect(w, w2, step)
    BY <2>1, <2>4, <2>5, SameEffect DEF SameCarried
  <2> QED
    BY <2>6 DEF w2
<1>8. \/ step \in {"wait", "post", "power", "off"} \X Sections
      \/ step \in {"give"} \X Fields \X Sections \X Sections
      \/ step \in {"clear"} \X (Fields \cup {"next_segment"}) \X Sections
      \/ step \in {"gates", "turn"} \X BOOLEAN \X GateSets
    BY DEF Step
<1>9. ASSUME step \in {"wait", "post", "power", "off"} \X Sections
      PROVE  \/ step \in {"wait", "post"} \X Sections
             \/ step \in {"power", "off"} \X Sections
  <2>1. step = <<step[1], step[2]>> /\ step[2] \in Sections
    BY <1>9
  <2>2. step[1] \in {"wait", "post"} \/ step[1] \in {"power", "off"}
    BY <1>9
  <2> QED
    BY <2>1, <2>2
<1> QED
    BY <1>3, <1>4, <1>5, <1>6, <1>7, <1>8, <1>9, Zenon

-----------------------------------------------------------------------------
(* A whole list of steps.  AllDone is a recursive function on how many of  *)
(* them are done; what holds of it is proved number by number.             *)
LEMMA UpTo ==
    ASSUME NEW m \in Nat, NEW S, 0 \in S, \A n \in 1 .. m : n - 1 \in S => n \in S
    PROVE  0 .. m \subseteq S
<1> DEFINE T == {n \in 0 .. m : n \notin S}
<1> SUFFICES ASSUME T # {} PROVE FALSE
    OBVIOUS
<1>1. PICK n \in T : \A i \in T : n <= i
  <2>1. T \in SUBSET (0 .. m) /\ 0 \in Int /\ m \in Int
    OBVIOUS
  <2> HIDE DEF T
  <2> QED
    BY <2>1, LowestNumber
<1>2. n \in 0 .. m /\ n \notin S /\ n # 0
    OBVIOUS
<1>3. n \in 1 .. m /\ n - 1 \in 0 .. m /\ ~ (n <= n - 1)
    BY <1>2
<1>4. n - 1 \in S
    BY <1>1, <1>3
<1> QED
    BY <1>2, <1>3, <1>4

Carries(done, w, todo, k) ==
    done = [n \in 0 .. k |-> IF n = 0 THEN w ELSE Done(done[n - 1], todo[n], CW, 0)]

LEMMA CarriesExists ==
    ASSUME NEW w, NEW todo, NEW m \in Nat
    PROVE  \E done : Carries(done, w, todo, m)
<1> DEFINE S == {k \in 0 .. m : \E done : Carries(done, w, todo, k)}
<1>1. 0 \in S
  <2>1. Carries([n \in 0 .. 0 |-> w], w, todo, 0)
    BY DEF Carries
  <2> QED
    BY <2>1
<1>2. ASSUME NEW k \in 1 .. m, k - 1 \in S PROVE k \in S
  <2>1. PICK g : Carries(g, w, todo, k - 1)
    BY <1>2
  <2> DEFINE h == [n \in 0 .. k |-> IF n = 0 THEN w ELSE Done(g[n - 1], todo[n], CW, 0)]
  <2>2. \A n \in 0 .. k - 1 : n \in 0 .. k
    BY <1>2
  <2>3. \A n \in 0 .. k - 1 : g[n] = IF n = 0 THEN w ELSE Done(g[n - 1], todo[n], CW, 0)
    BY <2>1 DEF Carries
  <2>4. \A n \in 0 .. k - 1 : h[n] = g[n]
    BY <2>2, <2>3
  <2>5. \A n \in 0 .. k : n # 0 => n - 1 \in 0 .. k - 1
    BY <1>2
  <2>6. \A n \in 0 .. k : n # 0 => h[n - 1] = g[n - 1]
    BY <2>4, <2>5
  <2>7. h = [n \in 0 .. k |-> IF n = 0 THEN w ELSE Done(h[n - 1], todo[n], CW, 0)]
    BY <2>6
  <2> HIDE DEF h
  <2>8. Carries(h, w, todo, k)
    BY <2>7 DEF Carries
  <2> QED
    BY <1>2, <2>8
<1> HIDE DEF S
<1>3. 0 .. m \subseteq S /\ m \in 0 .. m
    BY <1>1, <1>2, UpTo
<1> QED
    BY <1>3 DEF S

(* The worlds that AllDone goes through.                                   *)
Through(w, todo) == CHOOSE done : Carries(done, w, todo, Len(todo))

LEMMA AllDoneThrough ==
    ASSUME NEW w, NEW todo \in StepLists
    PROVE  /\ Len(todo) \in Nat /\ Len(todo) \in 0 .. Len(todo)
           /\ AllDone(w, todo) = Through(w, todo)[Len(todo)]
           /\ Through(w, todo)[0] = w
           /\ \A n \in 1 .. Len(todo) :
                /\ todo[n] \in Step
                /\ Through(w, todo)[n] = Done(Through(w, todo)[n - 1], todo[n], CW, 0)
<1> DEFINE m == Len(todo)
           done == Through(w, todo)
<1>1. m \in Nat /\ m \in 0 .. m /\ \A n \in 1 .. m : todo[n] \in Step
    BY DEF StepLists
<1>2. AllDone(w, todo) = done[m]
    BY DEF AllDone, Carries, Through
<1>3. Carries(done, w, todo, m)
    BY <1>1, CarriesExists DEF Through
<1> HIDE DEF m, done
<1>4. done[0] = w /\ \A n \in 1 .. m : done[n] = Done(done[n - 1], todo[n], CW, 0)
    BY <1>1, <1>3 DEF Carries
<1> QED
    BY <1>1, <1>2, <1>4 DEF m, done

LEMMA ThroughTyped ==
    ASSUME NEW w \in Worlds, NEW todo \in StepLists
    PROVE  \A n \in 0 .. Len(todo) : Through(w, todo)[n] \in Worlds
<1> DEFINE m == Len(todo)
           S == {n \in 0 .. m : Through(w, todo)[n] \in Worlds}
<1>1. m \in Nat /\ 0 \in S
    BY AllDoneThrough
<1>2. ASSUME NEW n \in 1 .. m, n - 1 \in S PROVE n \in S
  <2>1. Effect(Through(w, todo)[n - 1], Through(w, todo)[n], todo[n])
    BY <1>2, AllDoneThrough, DoneEffect
  <2> QED
    BY <1>1, <1>2, <2>1 DEF Effect
<1> HIDE DEF S
<1>3. 0 .. m \subseteq S
    BY <1>1, <1>2, UpTo
<1> QED
    BY <1>3 DEF S

LEMMA AllDoneTyped ==
    ASSUME NEW w \in Worlds, NEW todo \in StepLists
    PROVE  AllDone(w, todo) \in Worlds
    BY AllDoneThrough, ThroughTyped

(* One step, and one list after another.                                   *)
LEMMA AllDoneOne ==
    ASSUME NEW w \in Worlds, NEW step \in Step
    PROVE  Effect(w, AllDone(w, <<step>>), step)
<1>1. <<step>> \in StepLists /\ Len(<<step>>) = 1 /\ <<step>>[1] = step
    BY DEF StepLists
<1>2. AllDone(w, <<step>>) = Done(w, step, CW, 0)
  <2>1. AllDone(w, <<step>>) = Through(w, <<step>>)[1] /\ Through(w, <<step>>)[0] = w
    BY <1>1, AllDoneThrough
  <2>2. Through(w, <<step>>)[1] = Done(Through(w, <<step>>)[1 - 1], <<step>>[1], CW, 0)
    BY <1>1, AllDoneThrough
  <2> QED
    BY <1>1, <2>1, <2>2
<1> QED
    BY <1>2, DoneEffect

LEMMA AllDoneJoined ==
    ASSUME NEW w \in Worlds, NEW x \in StepLists, NEW y \in StepLists
    PROVE  AllDone(w, x \o y) = AllDone(AllDone(w, x), y)
<1> DEFINE xy == x \o y
           m == Len(x)
           k == Len(y)
           v == AllDone(w, x)
           S == {n \in 0 .. m : Through(w, xy)[n] = Through(w, x)[n]}
           T == {n \in 0 .. k : Through(w, xy)[m + n] = Through(v, y)[n]}
<1>1. /\ xy \in StepLists /\ m \in Nat /\ k \in Nat /\ Len(xy) = m + k
      /\ \A n \in 1 .. m : xy[n] = x[n] /\ n \in 1 .. m + k
      /\ \A n \in 1 .. k : xy[m + n] = y[n] /\ m + n \in 1 .. m + k
    BY DEF StepLists
<1> HIDE DEF xy, m, k
<1>2. /\ Through(w, xy)[0] = w /\ Through(w, x)[0] = w /\ Through(v, y)[0] = v
      /\ Through(w, x)[m] = v /\ AllDone(w, xy) = Through(w, xy)[m + k]
      /\ AllDone(v, y) = Through(v, y)[k]
  <2>1. AllDone(w, xy) = Through(w, xy)[m + k] /\ Through(w, xy)[0] = w
    BY <1>1, AllDoneThrough
  <2>2. v = Through(w, x)[m] /\ Through(w, x)[0] = w
    BY AllDoneThrough DEF m
  <2> HIDE DEF v
  <2>3. AllDone(v, y) = Through(v, y)[k] /\ Through(v, y)[0] = v
    BY AllDoneThrough DEF k
  <2> QED
    BY <2>1, <2>2, <2>3
<1>3. /\ \A n \in 1 .. m : Through(w, x)[n] = Done(Through(w, x)[n - 1], x[n], CW, 0)
      /\ \A n \in 1 .. k : Through(v, y)[n] = Done(Through(v, y)[n - 1], y[n], CW, 0)
    BY AllDoneThrough DEF m, k
<1>4. \A n \in 1 .. m + k : Through(w, xy)[n] = Done(Through(w, xy)[n - 1], xy[n], CW, 0)
    BY <1>1, AllDoneThrough
<1> HIDE DEF v
<1>5. 0 .. m \subseteq S
  <2>1. 0 \in S
    BY <1>1, <1>2
  <2>2. ASSUME NEW n \in 1 .. m, n - 1 \in S PROVE n \in S
    BY <1>1, <1>3, <1>4, <2>2
  <2> HIDE DEF S
  <2> QED
    BY <1>1, <2>1, <2>2, UpTo
<1>6. Through(w, xy)[m] = v
    BY <1>1, <1>2, <1>5
<1>7. 0 .. k \subseteq T
  <2>1. 0 \in T
    BY <1>1, <1>2, <1>6
  <2>2. ASSUME NEW n \in 1 .. k, n - 1 \in T PROVE n \in T
    <3>1. Through(w, xy)[m + n] = Done(Through(w, xy)[(m + n) - 1], y[n], CW, 0)
      BY <1>1, <1>4
    <3>2. (m + n) - 1 = m + (n - 1) /\ n \in 0 .. k
      BY <1>1, <2>2
    <3>3. Through(w, xy)[m + (n - 1)] = Through(v, y)[n - 1]
      BY <2>2
    <3> QED
      BY <1>3, <3>1, <3>2, <3>3
  <2> HIDE DEF T
  <2> QED
    BY <1>1, <2>1, <2>2, UpTo
<1>8. Through(w, xy)[m + k] = Through(v, y)[k]
    BY <1>1, <1>7
<1> QED
    BY <1>2, <1>8 DEF xy, v

-----------------------------------------------------------------------------
(* The id of the train is in one section at most, or would be if section a *)
(* did not have it.                                                        *)
OneIdBut(r, a) ==
    \A s, t \in (0 .. 16) \ {a} : r[s].piD = pid /\ r[t].piD = pid => s = t
OneId(r) == \A s, t \in 0 .. 16 : r[s].piD = pid /\ r[t].piD = pid => s = t

SamePids(r, r2) == \A s \in 0 .. 16 : r2[s].piD = r[s].piD

LEMMA SameOneId ==
    ASSUME NEW r, NEW r2, SamePids(r, r2)
    PROVE  /\ OneId(r) => OneId(r2)
           /\ \A a : OneIdBut(r, a) => OneIdBut(r2, a)
    BY DEF SamePids, OneId, OneIdBut

(* What one step does to the ids.                                          *)
LEMMA PlainEffect ==
    ASSUME NEW w, NEW w2, NEW step \in PlainStep, Effect(w, w2, step)
    PROVE  SamePids(w.railsystem, w2.railsystem)
<1>1. ~ (step[1] = "give" /\ step[2] = "piD") /\ ~ (step[1] = "clear" /\ step[2] = "piD")
    BY DEF PlainStep
<1> QED
    BY <1>1 DEF Effect, SamePids, Carried

LEMMA GiveEffect ==
    ASSUME NEW w, NEW w2, NEW a \in Sections, NEW b \in Sections,
           Effect(w, w2, Give("piD", a, b)), OneId(w.railsystem)
    PROVE  OneIdBut(w2.railsystem, a)
<1>1. \A s \in 0 .. 16 : w2.railsystem[s].piD = IF s = b THEN w.railsystem[a].piD
                                              ELSE w.railsystem[s].piD
    BY DEF Effect, Carried, Give
<1>2. a \in 0 .. 16
    BY DEF Sections
<1> QED
    BY <1>1, <1>2 DEF OneId, OneIdBut

LEMMA ClearEffect ==
    ASSUME NEW w, NEW w2, NEW a \in Sections, Effect(w, w2, Clear("piD", a)),
           OneIdBut(w.railsystem, a)
    PROVE  OneId(w2.railsystem)
<1>1. \A s \in 0 .. 16 : w2.railsystem[s].piD = IF s = a THEN 0 ELSE w.railsystem[s].piD
    BY DEF Effect, Carried, Clear
<1>2. ASSUME NEW s \in 0 .. 16, NEW t \in 0 .. 16,
             w2.railsystem[s].piD = pid, w2.railsystem[t].piD = pid
      PROVE  s = t
  <2>1. s # a /\ t # a
    BY <1>1, <1>2 DEF pid
  <2>2. w.railsystem[s].piD = pid /\ w.railsystem[t].piD = pid
    BY <1>1, <1>2, <2>1
  <2> QED
    BY <2>1, <2>2 DEF OneIdBut
<1> QED
    BY <1>2 DEF OneId

LEMMA OneIdWeaker == \A r, a : OneId(r) => OneIdBut(r, a)
    BY DEF OneId, OneIdBut

(* Plain steps, one after the other.                                       *)
LEMMA PlainDone ==
    ASSUME NEW w \in Worlds, NEW todo \in PlainLists
    PROVE  SamePids(w.railsystem, AllDone(w, todo).railsystem)
<1> DEFINE m == Len(todo)
           S == {n \in 0 .. m : SamePids(w.railsystem, Through(w, todo)[n].railsystem)}
<1>1. todo \in StepLists /\ \A n \in 1 .. m : todo[n] \in PlainStep
    BY PlainTyped DEF PlainLists
<1>2. m \in Nat /\ m \in 0 .. m /\ 0 \in S
    BY <1>1, AllDoneThrough DEF SamePids
<1>3. ASSUME NEW n \in 1 .. m, n - 1 \in S PROVE n \in S
  <2>1. n - 1 \in 0 .. m /\ n \in 0 .. m
    BY <1>2, <1>3
  <2>2. Effect(Through(w, todo)[n - 1], Through(w, todo)[n], todo[n])
    BY <1>1, <2>1, AllDoneThrough, ThroughTyped, DoneEffect
  <2>3. SamePids(Through(w, todo)[n - 1].railsystem, Through(w, todo)[n].railsystem)
    BY <1>1, <2>2, PlainEffect
  <2>4. SamePids(w.railsystem, Through(w, todo)[n - 1].railsystem)
    BY <1>3
  <2>5. SamePids(w.railsystem, Through(w, todo)[n].railsystem)
    BY <2>3, <2>4 DEF SamePids
  <2> QED
    BY <2>1, <2>5
<1> HIDE DEF S
<1>4. 0 .. m \subseteq S
    BY <1>2, <1>3, UpTo
<1>5. SamePids(w.railsystem, Through(w, todo)[m].railsystem)
    BY <1>2, <1>4 DEF S
<1> QED
    BY <1>1, <1>5, AllDoneThrough

(* Lists after which the id is in one section, if it was before: the plain *)
(* ones, those that move it or take it, and one of these after another.    *)
WholeLists ==
    {l \in StepLists : \A w \in Worlds :
        OneId(w.railsystem) => OneId(AllDone(w, l).railsystem)}

LEMMA PlainWhole == PlainLists \subseteq WholeLists
<1> SUFFICES ASSUME NEW l \in PlainLists PROVE l \in WholeLists
    OBVIOUS
<1>1. l \in StepLists
    BY PlainTyped
<1>2. \A w \in Worlds : OneId(w.railsystem) => OneId(AllDone(w, l).railsystem)
    BY PlainDone, SameOneId
<1> QED
    BY <1>1, <1>2 DEF WholeLists

LEMMA JoinedWhole == \A x, y \in WholeLists : x \o y \in WholeLists
<1> SUFFICES ASSUME NEW x \in WholeLists, NEW y \in WholeLists PROVE x \o y \in WholeLists
    OBVIOUS
<1>1. x \in StepLists /\ y \in StepLists
    BY DEF WholeLists
<1>2. x \o y \in StepLists
    BY <1>1, Joined
<1>3. ASSUME NEW w \in Worlds, OneId(w.railsystem)
      PROVE  OneId(AllDone(w, x \o y).railsystem)
  <2> DEFINE v == AllDone(w, x)
  <2>1. v \in Worlds /\ OneId(v.railsystem)
    BY <1>1, <1>3, AllDoneTyped DEF WholeLists
  <2>2. AllDone(w, x \o y) = AllDone(v, y)
    BY <1>1, AllDoneJoined
  <2> HIDE DEF v
  <2>3. OneId(AllDone(v, y).railsystem)
    BY <2>1 DEF WholeLists
  <2> QED
    BY <2>2, <2>3
<1> QED
    BY <1>2, <1>3 DEF WholeLists

(* The id is taken from a section it may stand in too often.               *)
LEMMA TakesDone ==
    ASSUME NEW a \in Sections, NEW l, TakesPid(l, a),
           NEW w \in Worlds, OneIdBut(w.railsystem, a)
    PROVE  OneId(AllDone(w, l).railsystem)
<1> DEFINE c == <<Clear("piD", a)>>
<1>1. PICK y \in PlainLists, z \in PlainLists : l = y \o (c \o z)
    BY DEF TakesPid
<1>2. y \in StepLists /\ z \in StepLists /\ c \in StepLists /\ Clear("piD", a) \in Step
    BY PlainTyped, StepsTyped DEF StepLists
<1> DEFINE w1 == AllDone(w, y)
           w2 == AllDone(w1, c)
           w3 == AllDone(w2, z)
<1>3. w1 \in Worlds /\ OneIdBut(w1.railsystem, a)
    BY <1>2, AllDoneTyped, PlainDone, SameOneId
<1> HIDE DEF w1
<1>4. w2 \in Worlds /\ OneId(w2.railsystem)
  <2>1. Effect(w1, w2, Clear("piD", a))
    BY <1>2, <1>3, AllDoneOne
  <2> HIDE DEF w2
  <2>2. OneId(w2.railsystem)
    BY <1>3, <2>1, ClearEffect
  <2> QED
    BY <2>1, <2>2 DEF Effect
<1>5. AllDone(w1, c \o z) = w3
    BY <1>2, <1>3, AllDoneJoined
<1> HIDE DEF c, w2
<1>6. OneId(w3.railsystem)
    BY <1>4, PlainDone, SameOneId
<1>7. c \o z \in StepLists
    BY <1>2, Joined
<1>8. AllDone(w, l) = AllDone(w1, c \o z)
  <2> DEFINE cz == c \o z
  <2>1. cz \in StepLists
    BY <1>7
  <2> HIDE DEF cz
  <2>2. AllDone(w, y \o cz) = AllDone(AllDone(w, y), cz)
    BY <1>2, <2>1, AllDoneJoined
  <2> QED
    BY <1>1, <2>2 DEF w1, cz, c
<1> QED
    BY <1>5, <1>6, <1>8

LEMMA TakesWhole == \A l, a : a \in Sections /\ TakesPid(l, a) => l \in WholeLists
    BY TakesDone, OneIdWeaker, MovesTyped DEF WholeLists

LEMMA MovesWhole == \A l : MovesPid(l) => l \in WholeLists
<1> SUFFICES ASSUME NEW l, MovesPid(l), NEW w \in Worlds, OneId(w.railsystem)
             PROVE  OneId(AllDone(w, l).railsystem)
    BY MovesTyped DEF WholeLists
<1>1. PICK a \in Sections, b \in Sections, x \in PlainLists, y \in PlainLists, z \in PlainLists :
        l = x \o (<<Give("piD", a, b)>> \o (y \o (<<Clear("piD", a)>> \o z)))
    BY DEF MovesPid
<1> DEFINE g == <<Give("piD", a, b)>>
           r == y \o (<<Clear("piD", a)>> \o z)
           gr == g \o r
           w1 == AllDone(w, x)
           w2 == AllDone(w1, g)
<1>2. TakesPid(r, a)
    BY DEF TakesPid
<1>3. r \in StepLists /\ x \in StepLists /\ g \in StepLists /\ Give("piD", a, b) \in Step
    BY <1>2, MovesTyped, PlainTyped, StepsTyped DEF StepLists
<1>4. l = x \o gr
    BY <1>1
<1> HIDE DEF r
<1>5. gr \in StepLists
    BY <1>3, Joined
<1>6. w1 \in Worlds /\ OneId(w1.railsystem)
    BY <1>3, AllDoneTyped, PlainDone, SameOneId
<1> HIDE DEF w1
<1>7. w2 \in Worlds /\ OneIdBut(w2.railsystem, a)
  <2>1. Effect(w1, w2, Give("piD", a, b))
    BY <1>3, <1>6, AllDoneOne
  <2> HIDE DEF w2
  <2>2. OneIdBut(w2.railsystem, a)
    BY <1>6, <2>1, GiveEffect
  <2> QED
    BY <2>1, <2>2 DEF Effect
<1>8. AllDone(w1, gr) = AllDone(w2, r)
    BY <1>3, <1>6, AllDoneJoined
<1> HIDE DEF w2, gr
<1>9. AllDone(w, l) = AllDone(w1, gr)
    BY <1>3, <1>4, <1>5, AllDoneJoined DEF w1
<1>10. OneId(AllDone(w2, r).railsystem)
    BY <1>2, <1>7, TakesDone
<1> QED
    BY <1>8, <1>9, <1>10

-----------------------------------------------------------------------------
(* What obtain_decision() is made of.                                      *)
SensorWays == [ccw : WholeLists, cw : WholeLists]

LEMMA MovesTake ==
    /\ PlainLists \subseteq WholeLists
    /\ \A x, y \in WholeLists : x \o y \in WholeLists
    /\ \A h, k \in HallSensors : Update(h, k) \in WholeLists
    /\ \A h \in HallSensors : Delete(h) \in WholeLists
    BY PlainWhole, JoinedWhole, UpdateMoves, MovesWhole, DeleteTakes, TakesWhole

LEMMA WhenWhole == \A c \in BOOLEAN, x \in WholeLists : When(c, x) \in WholeLists
    BY ListsTyped, PlainWhole DEF When

LEMMA OuterSensorsTyped ==
    ASSUME NEW g
    PROVE  OuterSensors(g) \in Seq(SensorWays) /\ Len(OuterSensors(g)) = 12
<1> USE NumbersTyped, GateSetsTyped, StepsTyped, ListsTyped, TurnsTyped,
        CopiesTyped, MovesTake, WhenWhole DEF OuterSensors, SensorWays
<1>1. OuterSensors(g)[1] \in SensorWays
    OBVIOUS
<1>2. OuterSensors(g)[2] \in SensorWays
    BY DEF When
<1>3. OuterSensors(g)[3] \in SensorWays
    BY DEF When
<1>4. OuterSensors(g)[4] \in SensorWays
    OBVIOUS
<1>5. OuterSensors(g)[5] \in SensorWays
    OBVIOUS
<1>6. OuterSensors(g)[6] \in SensorWays
    BY DEF When
<1>7. OuterSensors(g)[7] \in SensorWays
    OBVIOUS
<1>8. OuterSensors(g)[8] \in SensorWays
    OBVIOUS
<1>9. OuterSensors(g)[9] \in SensorWays
    BY DEF When
<1>10. OuterSensors(g)[10] \in SensorWays
    OBVIOUS
<1>11. OuterSensors(g)[11] \in SensorWays
    OBVIOUS
<1>12. OuterSensors(g)[12] \in SensorWays
    OBVIOUS
<1> QED
    BY <1>1, <1>2, <1>3, <1>4, <1>5, <1>6, <1>7, <1>8, <1>9, <1>10, <1>11, <1>12

LEMMA InnerSensorsTyped ==
    ASSUME NEW g
    PROVE  InnerSensors(g) \in Seq(SensorWays) /\ Len(InnerSensors(g)) = 12
<1> USE NumbersTyped, GateSetsTyped, StepsTyped, ListsTyped, TurnsTyped,
        CopiesTyped, MovesTake, WhenWhole DEF InnerSensors, SensorWays
<1>1. InnerSensors(g)[1] \in SensorWays
    BY DEF When
<1>2. InnerSensors(g)[2] \in SensorWays
    OBVIOUS
<1>3. InnerSensors(g)[3] \in SensorWays
    OBVIOUS
<1>4. InnerSensors(g)[4] \in SensorWays
    BY DEF When
<1>5. InnerSensors(g)[5] \in SensorWays
    OBVIOUS
<1>6. InnerSensors(g)[6] \in SensorWays
    OBVIOUS
<1>7. InnerSensors(g)[7] \in SensorWays
    OBVIOUS
<1>8. InnerSensors(g)[8] \in SensorWays
    OBVIOUS
<1>9. InnerSensors(g)[9] \in SensorWays
    OBVIOUS
<1>10. InnerSensors(g)[10] \in SensorWays
    OBVIOUS
<1>11. InnerSensors(g)[11] \in SensorWays
    OBVIOUS
<1>12. InnerSensors(g)[12] \in SensorWays
    BY DEF When
<1> QED
    BY SMTT(30), <1>1, <1>2, <1>3, <1>4, <1>5, <1>6, <1>7, <1>8, <1>9, <1>10, <1>11, <1>12

LEMMA SpurSensorsTyped ==
    SpurSensors \in Seq(SensorWays) /\ Len(SpurSensors) = 8
<1> USE NumbersTyped, GateSetsTyped, StepsTyped, ListsTyped, TurnsTyped,
        CopiesTyped, MovesTake, WhenWhole DEF SpurSensors, SensorWays
<1>1. SpurSensors[1] \in SensorWays
    OBVIOUS
<1>2. SpurSensors[2] \in SensorWays
    OBVIOUS
<1>3. SpurSensors[3] \in SensorWays
    OBVIOUS
<1>4. SpurSensors[4] \in SensorWays
    OBVIOUS
<1>5. SpurSensors[5] \in SensorWays
    OBVIOUS
<1>6. SpurSensors[6] \in SensorWays
    OBVIOUS
<1>7. SpurSensors[7] \in SensorWays
    OBVIOUS
<1>8. SpurSensors[8] \in SensorWays
    OBVIOUS
<1> QED
    BY <1>1, <1>2, <1>3, <1>4, <1>5, <1>6, <1>7, <1>8

-----------------------------------------------------------------------------
(* Three lists of lists one after the other.                               *)
LEMMA ThreeLists ==
    ASSUME NEW S, NEW a \in Seq(S), NEW b \in Seq(S), NEW c \in Seq(S)
    PROVE  /\ a \o b \o c \in Seq(S)
           /\ Len(a \o b \o c) = Len(a) + Len(b) + Len(c)
<1>1. a \o b \in Seq(S) /\ Len(a \o b) = Len(a) + Len(b)
    BY ConcatProperties
<1> QED
    BY <1>1, ConcatProperties

(* What locking() and obtain_decision() are made of.                       *)
LEMMA LocksTyped ==
    ASSUME NEW s \in Sections, NEW n, NEW d
    PROVE  locking(s, n, d) \in LockLists
<1>1. Locks(n) \in Seq(LockWays) /\ Len(Locks(n)) = 16
  <2>1. /\ OuterLocks(n) \in Seq(LockWays) /\ Len(OuterLocks(n)) = 6
        /\ InnerLocks(n) \in Seq(LockWays) /\ Len(InnerLocks(n)) = 6
        /\ SpurLocks \in Seq(LockWays) /\ Len(SpurLocks) = 4
    BY OuterLocksTyped, InnerLocksTyped, SpurLocksTyped
  <2>2. /\ OuterLocks(n) \o InnerLocks(n) \o SpurLocks \in Seq(LockWays)
        /\ Len(OuterLocks(n) \o InnerLocks(n) \o SpurLocks)
             = Len(OuterLocks(n)) + Len(InnerLocks(n)) + Len(SpurLocks)
    <3>1. /\ OuterLocks(n) \in Seq(LockWays) /\ InnerLocks(n) \in Seq(LockWays)
          /\ SpurLocks \in Seq(LockWays)
      BY <2>1
    <3> QED
      BY <3>1, ThreeLists
  <2>3. Len(OuterLocks(n) \o InnerLocks(n) \o SpurLocks) = 16
    BY <2>1, <2>2
  <2> QED
    BY <2>2, <2>3 DEF Locks
<1>2. Locks(n)[s] \in LockWays
    BY <1>1, ElementOfSeq DEF Sections
<1> QED
    BY <1>2 DEF locking, LockWays

LEMMA SensorsTyped ==
    ASSUME NEW h \in HallSensors, NEW d, NEW g
    PROVE  obtain_decision(h, d, g) \in WholeLists
<1>1. Sensors(g) \in Seq(SensorWays) /\ Len(Sensors(g)) = 32
  <2>1. /\ OuterSensors(g) \in Seq(SensorWays) /\ Len(OuterSensors(g)) = 12
        /\ InnerSensors(g) \in Seq(SensorWays) /\ Len(InnerSensors(g)) = 12
        /\ SpurSensors \in Seq(SensorWays) /\ Len(SpurSensors) = 8
    BY OuterSensorsTyped, InnerSensorsTyped, SpurSensorsTyped
  <2>2. /\ OuterSensors(g) \o InnerSensors(g) \o SpurSensors \in Seq(SensorWays)
        /\ Len(OuterSensors(g) \o InnerSensors(g) \o SpurSensors)
             = Len(OuterSensors(g)) + Len(InnerSensors(g)) + Len(SpurSensors)
    <3>1. /\ OuterSensors(g) \in Seq(SensorWays) /\ InnerSensors(g) \in Seq(SensorWays)
          /\ SpurSensors \in Seq(SensorWays)
      BY <2>1
    <3> QED
      BY <3>1, ThreeLists
  <2>3. Len(OuterSensors(g) \o InnerSensors(g) \o SpurSensors) = 32
    BY <2>1, <2>2
  <2> QED
    BY <2>2, <2>3 DEF Sensors
<1>2. Sensors(g)[h] \in SensorWays
    BY <1>1, ElementOfSeq DEF HallSensors
<1> QED
    BY <1>2 DEF obtain_decision, SensorWays

(* Where the train is, for the program and on the track.                   *)
LEMMA CurrentSection == get_current_section \in 0 .. 16
<1>1. InSection \in SUBSET Sections
    BY DEF InSection
<1>2. ASSUME InSection # {}
      PROVE  \E s \in InSection : \A t \in InSection : s <= t
  <2> DEFINE T == InSection
  <2>1. T \in SUBSET Sections /\ T # {}
    BY <1>1, <1>2
  <2> HIDE DEF T
  <2>2. \E s \in T : \A t \in T : s <= t
    BY <2>1, LowestSection
  <2> QED
    BY <2>2 DEF T
<1>3. CASE InSection = {}
    BY <1>3 DEF get_current_section
<1>4. CASE InSection # {}
  <2>1. get_current_section \in InSection
    BY <1>2, <1>4 DEF get_current_section
  <2> QED
    BY <1>1, <2>1 DEF Sections
<1> QED
    BY <1>3, <1>4

LEMMA NextSensorTyped ==
    ASSUME NEW h \in HallSensors, NEW d
    PROVE  NextSensor(h, d) \in 0 .. 32
<1>1. h \in 1 .. 32 /\ (h # 32 => h + 1 \in 0 .. 32) /\ h - 1 \in 0 .. 32
    BY DEF HallSensors
<1>2. CASE d = CCW
    BY <1>1, <1>2 DEF NextSensor
<1>3. CASE d # CCW
    BY <1>1, <1>3 DEF NextSensor
<1> QED
    BY <1>2, <1>3

LEMMA FirstSensorTyped ==
    ASSUME NEW s \in Sections, NEW d
    PROVE  FirstSensor(s, d) \in HallSensors
    BY DEF FirstSensor, Sections, HallSensors

LEMMA SelectTyped ==
    ASSUME NEW s, NEW n
    PROVE  select_direction(s, n) \in {CW, CCW, UNUSE}
    BY DEF select_direction

-----------------------------------------------------------------------------
(* The inductive invariant.  Process() plans only away from a section that *)
(* is not its destination, gives its direction only to a section, and has  *)
(* steps of locking() to do only while it is there.                        *)
LocalsTyped ==
    /\ at \in 0 .. 32 /\ heading \in {Stopped, CW, CCW} /\ prompt \in BOOLEAN
    /\ start \in 0 .. 16 /\ old_section \in 0 .. 16 /\ end \in Sections
    /\ trigger \in BOOLEAN /\ direction \in {CW, CCW, UNUSE}
    /\ steps \in StepLists
    /\ pc \in Locations \cup {"undefined"}

RailInv ==
    /\ World \in Worlds
    /\ LocalsTyped
    /\ pc = "decide" => start # end
    /\ pc \in {"direct", "call"} => start \in Sections
    /\ pc # "lock" => steps = <<>>

LEMMA BecomesSound ==
    ASSUME NEW w \in Worlds, Becomes(w)
    PROVE  (World \in Worlds)'
<1>1. World' = w
    BY WorldParts DEF Becomes, World
<1> QED
    BY <1>1 DEF Worlds, Tables, Entry, GateSets, World

LEMMA WorldKept ==
    ASSUME World \in Worlds, UNCHANGED <<table, track>>
    PROVE  (World \in Worlds)'
<1>1. World' = World
    BY DEF table, track, World
<1> QED
    BY <1>1 DEF Worlds, Tables, Entry, GateSets

LEMMA WorldFields ==
    ASSUME World \in Worlds
    PROVE  /\ railsystem \in Tables
           /\ gate \in GateSets /\ turned \in GateSets
           /\ power \in [Sections -> {Stopped, CW, CCW}]
    BY DEF World, Worlds

LEMMA InitSound == Init => RailInv
<1> SUFFICES ASSUME Init PROVE RailInv
    OBVIOUS
<1>1. start \in Sections /\ end \in Sections
    BY RailAssumption DEF Init
<1>2. railsystem \in Tables
    BY <1>1 DEF Init, Tables, Entry, CW, CCW, Sections
<1>4. /\ gate \in GateSets /\ turned \in GateSets
      /\ power \in [Sections -> {Stopped, CW, CCW}]
    BY DEF Init, GateSets
<1>5. World \in Worlds
    BY <1>2, <1>4 DEF World, Worlds
<1>6. LocalsTyped
    BY <1>1, RailAssumption, ListsTyped, PlainTyped DEF Init, LocalsTyped, Sections, Locations
<1> QED
    BY <1>5, <1>6 DEF Init, RailInv

-----------------------------------------------------------------------------
(* One lemma per action.                                                   *)
LEMMA LoopSound == RailInv /\ Loop => RailInv'
<1> SUFFICES ASSUME RailInv, Loop PROVE RailInv'
    OBVIOUS
<1>1. (World \in Worlds)'
    BY WorldKept DEF RailInv, Loop
<1>2. LocalsTyped'
    BY DEF RailInv, Loop, LocalsTyped, Locations, train, locals
<1>3. pc' = "locate" /\ steps' = <<>>
    BY DEF RailInv, Loop, locals
<1> QED
    BY <1>1, <1>2, <1>3 DEF RailInv

LEMMA LocateSound == RailInv /\ Locate => RailInv'
<1> SUFFICES ASSUME RailInv, Locate PROVE RailInv'
    OBVIOUS
<1>1. (World \in Worlds)'
    BY WorldKept DEF RailInv, Locate
<1>2. start' \in 0 .. 16
    BY CurrentSection DEF Locate
<1>3. LocalsTyped'
    BY <1>2 DEF RailInv, Locate, LocalsTyped, Locations, train
<1>4. pc' = "decide" => start' # end'
    BY DEF Locate
<1>5. pc' \notin {"direct", "call"} /\ steps' = <<>>
    BY DEF RailInv, Locate
<1> QED
    BY <1>1, <1>3, <1>4, <1>5 DEF RailInv

LEMMA EndSound == RailInv /\ End => RailInv'
<1> SUFFICES ASSUME RailInv, End PROVE RailInv'
    OBVIOUS
<1>1. World \in Worlds /\ start \in 0 .. 16
    BY DEF RailInv, LocalsTyped
<1> DEFINE a == dir_mag(World, start, railsystem[start].direction, railsystem[start].speed)
           r == [railsystem EXCEPT ![start].speed = 0]
           b == [World EXCEPT !.railsystem[start].speed = 0]
<1>2. a \in Worlds
    BY <1>1, DirMagTyped
<1>3. r \in Tables
    BY <1>1, WorldFields, FieldSet DEF Sections
<1>4. b = [World EXCEPT !.railsystem = r]
    BY DEF World
<1>5. Becomes(IF start \in 14 .. 16 THEN a ELSE b)
    BY DEF End
<1> HIDE DEF a, r, b
<1>6. b \in Worlds
    BY <1>1, <1>3, <1>4, WorldWith
<1>7. (World \in Worlds)'
    BY <1>2, <1>5, <1>6, BecomesSound
<1>8. LocalsTyped'
    BY DEF RailInv, End, LocalsTyped, Locations, train
<1>9. pc' = "loop" /\ steps' = <<>>
    BY DEF RailInv, End
<1> QED
    BY <1>7, <1>8, <1>9 DEF RailInv

LEMMA DecideSound == RailInv /\ Decide => RailInv'
<1> SUFFICES ASSUME RailInv, Decide PROVE RailInv'
    OBVIOUS
<1> DEFINE next == IF start = 0 THEN NoWay
                   ELSE making_decision(start, end, old_section, Used)
           r == [railsystem EXCEPT ![start].next_segment = next]
<1>1. /\ pc = "decide" /\ start # end /\ start \in 0 .. 16 /\ end \in Sections
      /\ World \in Worlds
    BY DEF RailInv, Decide, LocalsTyped
<1>2. next \in Sections \cup {0, NoWay}
  <2>1. CASE start = 0
    BY <2>1
  <2>2. CASE start # 0
    <3>1. start \in Sections
      BY <1>1, <2>2 DEF Sections
    <3> QED
      BY <1>1, <2>2, <3>1, DecisionTouches
  <2> QED
    BY <2>1, <2>2
<1>3. start = 0 => next = NoWay
    OBVIOUS
<1>4. /\ railsystem' = r
      /\ pc' = IF next = NoWay THEN "undefined" ELSE IF trigger THEN "direct" ELSE "loop"
    BY DEF Decide
<1> HIDE DEF next
<1>5. r \in Tables
  <2>1. 0 \in {0, Speed} /\ AVAILABLE \in {AVAILABLE, USED} /\ CW \in {CW, CCW, UNUSE}
    OBVIOUS
  <2> QED
    BY <1>1, <1>2, <2>1, WorldFields, FieldSet
<1> HIDE DEF r
<1>6. (World \in Worlds)'
    BY <1>1, <1>4, <1>5, WorldFields DEF Decide, track, World, Worlds
<1>7. LocalsTyped'
    BY <1>4 DEF RailInv, Decide, LocalsTyped, Locations, train, locals
<1>8. pc' \notin {"decide", "call"} /\ (pc' = "direct" => start' \in Sections)
    BY <1>1, <1>3, <1>4 DEF Decide, locals, Sections
<1>9. steps' = <<>>
    BY DEF RailInv, Decide, locals
<1> QED
    BY <1>6, <1>7, <1>8, <1>9 DEF RailInv

LEMMA DirectSound == RailInv /\ Direct => RailInv'
<1> SUFFICES ASSUME RailInv, Direct PROVE RailInv'
    OBVIOUS
<1> DEFINE next == railsystem[start].next_segment
           d == select_direction(start, next)
           r == [railsystem EXCEPT ![start].direction = d]
<1>1. start \in Sections /\ World \in Worlds
    BY DEF RailInv, Direct
<1>2. d \in {CW, CCW, UNUSE}
    BY SelectTyped
<1>3. /\ railsystem' = r
      /\ IF at = 0
         THEN /\ heading' = Powered(d, Speed)
              /\ at' = FirstSensor(start, heading')
              /\ UNCHANGED prompt
         ELSE UNCHANGED train
    BY DEF Direct
<1> HIDE DEF next, d
<1>5. r \in Tables
  <2>1. 0 \in {0, Speed} /\ AVAILABLE \in {AVAILABLE, USED} /\ 0 \in Sections \cup {0, NoWay}
    OBVIOUS
  <2> QED
    BY <1>1, <1>2, <2>1, WorldFields, FieldSet
<1> HIDE DEF r
<1>6. (World \in Worlds)'
    BY <1>1, <1>3, <1>5, WorldFields DEF Direct, track, World, Worlds
<1>7. at' \in 0 .. 32 /\ heading' \in {Stopped, CW, CCW} /\ prompt' \in BOOLEAN
  <2>1. CASE at = 0
    <3>1. heading' \in {Stopped, CW, CCW}
      BY <1>3, <2>1 DEF Powered
    <3>2. at' \in HallSensors
      BY <1>1, <1>3, <2>1, FirstSensorTyped
    <3> QED
      BY <1>3, <2>1, <3>1, <3>2 DEF HallSensors, RailInv, LocalsTyped
  <2>2. CASE at # 0
    BY <1>3, <2>2 DEF RailInv, LocalsTyped, train
  <2> QED
    BY <2>1, <2>2
<1>8. LocalsTyped'
    BY <1>7 DEF RailInv, Direct, LocalsTyped, Locations, locals
<1>9. pc' = "call" /\ start' \in Sections /\ steps' = <<>>
    BY <1>1 DEF RailInv, Direct, locals
<1> QED
    BY <1>6, <1>8, <1>9 DEF RailInv

LEMMA CallSound == RailInv /\ Call => RailInv'
<1> SUFFICES ASSUME RailInv, Call PROVE RailInv'
    OBVIOUS
<1>1. start \in Sections /\ World \in Worlds
    BY DEF RailInv, Call
<1>2. (World \in Worlds)'
    BY <1>1, WorldKept DEF Call
<1>3. direction' \in {CW, CCW, UNUSE}
  <2>1. railsystem[start] \in Entry
    BY <1>1, WorldFields DEF Tables, Sections
  <2> QED
    BY <2>1 DEF Call, Entry
<1>4. steps' \in StepLists
  <2> DEFINE n == railsystem[start].next_segment
             d == direction'
  <2>1. steps' = locking(start, n, d)
    BY DEF Call
  <2> HIDE DEF n, d
  <2> QED
    BY <1>1, <2>1, LocksTyped DEF LockLists
<1>5. LocalsTyped'
    BY <1>3, <1>4 DEF RailInv, Call, LocalsTyped, Locations, train
<1>6. pc' = "lock"
    BY DEF Call
<1> QED
    BY <1>2, <1>5, <1>6 DEF RailInv

LEMMA LockStepSound == RailInv /\ LockStep => RailInv'
<1> SUFFICES ASSUME RailInv, LockStep PROVE RailInv'
    OBVIOUS
<1> DEFINE w == Done(World, Head(steps), direction, railsystem[start].speed)
<1>1. World \in Worlds /\ steps \in StepLists /\ steps # <<>>
    BY DEF RailInv, LockStep, LocalsTyped
<1>2. Head(steps) \in Step /\ Tail(steps) \in StepLists
    BY <1>1 DEF StepLists
<1>3. w \in Worlds
    BY <1>1, <1>2, DoneEffect DEF Effect
<1>4. Becomes(w)
    BY DEF LockStep
<1> HIDE DEF w
<1>5. (World \in Worlds)'
    BY <1>3, <1>4, BecomesSound
<1>6. LocalsTyped'
    BY <1>2 DEF RailInv, LockStep, LocalsTyped, train
<1>7. pc' = "lock"
    BY DEF LockStep
<1> QED
    BY <1>5, <1>6, <1>7 DEF RailInv

LEMMA PowerOnSound == RailInv /\ PowerOn => RailInv'
<1> SUFFICES ASSUME RailInv, PowerOn PROVE RailInv'
    OBVIOUS
<1> DEFINE w == dir_mag(World, start, railsystem[start].direction, railsystem[start].speed)
<1>1. World \in Worlds /\ start \in 0 .. 16
    BY DEF RailInv, LocalsTyped
<1>2. w \in Worlds
    BY <1>1, DirMagTyped
<1>3. Becomes(w)
    BY DEF PowerOn
<1> HIDE DEF w
<1>4. (World \in Worlds)'
    BY <1>2, <1>3, BecomesSound
<1>5. LocalsTyped'
    BY DEF RailInv, PowerOn, LocalsTyped, train, locals, Locations
<1>6. pc' = "loop" /\ steps' = <<>>
    BY DEF PowerOn, locals
<1> QED
    BY <1>4, <1>5, <1>6 DEF RailInv

LEMMA SensorSound == RailInv /\ Sensor => RailInv'
<1> SUFFICES ASSUME RailInv, Sensor PROVE RailInv'
    OBVIOUS
<1> DEFINE h == NextSensor(at, heading)
           todo == obtain_decision(h, railsystem[Section(h)].direction, gate)
           w == AllDone(World, todo)
<1>1. World \in Worlds /\ at \in 0 .. 32
    BY DEF RailInv, LocalsTyped
<1>2. at \in HallSensors
    BY <1>1 DEF Sensor, SensorDue, HallSensors
<1>3. h \in HallSensors
  <2>1. h \in 0 .. 32
    BY <1>2, NextSensorTyped
  <2>2. h # 0
    BY DEF Sensor, SensorDue
  <2> QED
    BY <2>1, <2>2 DEF HallSensors
<1>4. at' = h /\ Becomes(w) /\ UNCHANGED <<heading, prompt, locals, pc>>
    BY DEF Sensor
<1> HIDE DEF h
<1>5. todo \in StepLists
    BY <1>3, SensorsTyped DEF WholeLists
<1> HIDE DEF todo
<1>6. w \in Worlds
    BY <1>1, <1>5, AllDoneTyped
<1> HIDE DEF w
<1>7. (World \in Worlds)'
    BY <1>4, <1>6, BecomesSound
<1>8. LocalsTyped'
    BY <1>3, <1>4 DEF RailInv, LocalsTyped, HallSensors, locals
<1> QED
    BY <1>4, <1>7, <1>8 DEF RailInv, locals

LEMMA StutterSound == RailInv /\ UNCHANGED vars => RailInv'
<1> SUFFICES ASSUME RailInv, UNCHANGED vars PROVE RailInv'
    OBVIOUS
<1>1. (World \in Worlds)'
    BY WorldKept DEF RailInv, vars
<1>2. LocalsTyped'
    BY DEF RailInv, vars, train, locals, LocalsTyped
<1> QED
    BY <1>1, <1>2 DEF RailInv, vars, locals

LEMMA NextSound == RailInv /\ [Next]_vars => RailInv'
    BY LoopSound, LocateSound, EndSound, DecideSound, DirectSound, CallSound, LockStepSound,
       PowerOnSound, SensorSound, StutterSound DEF Next, Process

-----------------------------------------------------------------------------
(* The invariant holds however the sensors come between the steps of       *)
(* Process() (train.c:637-670, HallSensor.c:19).                           *)
THEOREM RailCorrect == Spec => []RailInv
<1>1. Init => RailInv
    BY InitSound
<1>2. RailInv /\ [Next]_vars => RailInv'
    BY NextSound
<1> QED
    BY <1>1, <1>2, PTL DEF Spec

(* The table, the track and the locals stay within their types: every      *)
(* index into a table of the layout is within it, and a section's status,  *)
(* which hall_sensor_dir_mag() posts whoever holds it, is still a binary   *)
(* semaphore's (messageatmel.c:96, train.c:637-670).                        *)
THEOREM RailTyped == Spec => []TypeOK
<1>1. RailInv => TypeOK
    BY DEF RailInv, LocalsTyped, World, Worlds, Tables, Entry, GateSets, TypeOK
<1> QED
    BY <1>1, RailCorrect, PTL

-----------------------------------------------------------------------------
(* Where the id of the train is.  What is left of locking() does not touch *)
(* it, or moves it, or has given it away and is still to take it from the  *)
(* old section: then it is the only one with the id besides the new.       *)
PidInv ==
    /\ RailInv
    /\ \/ steps \in PlainLists /\ OneId(railsystem)
       \/ MovesPid(steps) /\ OneId(railsystem)
       \/ \E a \in Sections : TakesPid(steps, a) /\ OneIdBut(railsystem, a)

(* The statement that gives the id is not left, the one that takes it is.  *)
LEMMA TakesUpdating ==
    ASSUME NEW a \in Sections, TakesPid(steps, a)
    PROVE  Updating
<1>1. PICK y \in PlainLists, z \in PlainLists : steps = y \o (<<Clear("piD", a)>> \o z)
    BY DEF TakesPid
<1> DEFINE c == Clear("piD", a)
           k == Len(y) + 1
<1>2. /\ y \in Seq(PlainStep) /\ z \in Seq(PlainStep)
      /\ c[1] = "clear" /\ c[2] = "piD" /\ c[1] # "give"
    BY DEF PlainLists, Clear
<1>3. steps = y \o (<<c>> \o z)
    BY <1>1
<1> HIDE DEF c
<1>4. k \in DOMAIN steps /\ steps[k] = c
    BY <1>2, <1>3
<1>5. \A i \in DOMAIN steps : i = k \/ steps[i] \in PlainStep
    BY <1>2, <1>3
<1>6. \A step \in PlainStep : ~ (step[1] = "give" /\ step[2] = "piD")
    BY DEF PlainStep
<1> HIDE DEF k
<1> QED
    BY <1>2, <1>4, <1>5, <1>6 DEF Updating

(* The first step of a list, and the rest of it.                           *)
LEMMA FirstPlain ==
    ASSUME NEW x \in PlainLists, NEW l \in StepLists, x # <<>>
    PROVE  /\ Head(x) \in PlainStep /\ Tail(x) \in PlainLists
           /\ Head(x \o l) = Head(x) /\ Tail(x \o l) = Tail(x) \o l
<1>1. x \in Seq(PlainStep) /\ x \in Seq(Step) /\ l \in Seq(Step)
    BY PlainTyped DEF PlainLists, StepLists
<1>2. Head(x) \in PlainStep /\ Tail(x) \in PlainLists
    BY <1>1 DEF PlainLists
<1>3. Head(x \o l) = Head(x)
    BY <1>1
<1>4. Tail(x \o l) = Tail(x) \o l
    BY <1>1
<1> QED
    BY <1>2, <1>3, <1>4

LEMMA FirstOne ==
    ASSUME NEW step \in Step, NEW l \in StepLists
    PROVE  Head(<<step>> \o l) = step /\ Tail(<<step>> \o l) = l
    BY DEF StepLists

LEMMA EmptyJoined == \A l \in StepLists : <<>> \o l = l
    BY DEF StepLists

(* A list that moves the id, or takes it, from its first step on.          *)
LEMMA MovesFirst ==
    ASSUME NEW l, MovesPid(l)
    PROVE  /\ l # <<>>
           /\ \/ Head(l) \in PlainStep /\ MovesPid(Tail(l))
              \/ \E a, b \in Sections : /\ Head(l) = Give("piD", a, b)
                                        /\ TakesPid(Tail(l), a)
<1>1. PICK a \in Sections, b \in Sections, x \in PlainLists, y \in PlainLists, z \in PlainLists :
        l = x \o (<<Give("piD", a, b)>> \o (y \o (<<Clear("piD", a)>> \o z)))
    BY DEF MovesPid
<1> DEFINE r == y \o (<<Clear("piD", a)>> \o z)
           g == <<Give("piD", a, b)>>
           gr == g \o r
<1>2. TakesPid(r, a)
    BY DEF TakesPid
<1>3. r \in StepLists /\ x \in StepLists /\ g \in StepLists /\ Give("piD", a, b) \in Step
    BY <1>2, MovesTyped, PlainTyped, StepsTyped DEF StepLists
<1>4. l = x \o gr
    BY <1>1
<1>5. gr \in StepLists /\ gr # <<>>
  <2> HIDE DEF r
  <2>1. g # <<>> /\ g \in Seq(Step) /\ r \in Seq(Step)
    BY <1>3 DEF StepLists
  <2> HIDE DEF g
  <2> QED
    BY <2>1 DEF StepLists
<1>6. CASE x = <<>>
  <2>1. l = gr
    BY <1>4, <1>5, <1>6, EmptyJoined
  <2> HIDE DEF r
  <2>2. Head(gr) = Give("piD", a, b) /\ Tail(gr) = r
    BY <1>3, FirstOne
  <2> QED
    BY <1>2, <1>5, <2>1, <2>2
<1>7. CASE x # <<>>
  <2> DEFINE tx == Tail(x)
  <2> HIDE DEF gr
  <2>1. Head(x) \in PlainStep /\ tx \in PlainLists /\ Head(l) = Head(x) /\ Tail(l) = tx \o gr
    BY <1>4, <1>5, <1>7, FirstPlain
  <2>2. l # <<>>
  <3>1. x \in Seq(Step) /\ gr \in Seq(Step)
      BY <1>3, <1>5 DEF StepLists
    <3> QED
      BY <1>4, <1>7, <3>1
  <2> HIDE DEF tx
  <2>3. MovesPid(tx \o gr)
    BY <2>1 DEF MovesPid, gr, g, r
  <2> QED
    BY <2>1, <2>2, <2>3
<1> QED
    BY <1>6, <1>7

LEMMA TakesFirst ==
    ASSUME NEW a \in Sections, NEW l, TakesPid(l, a)
    PROVE  /\ l # <<>>
           /\ \/ Head(l) \in PlainStep /\ TakesPid(Tail(l), a)
              \/ Head(l) = Clear("piD", a) /\ Tail(l) \in PlainLists
<1>1. PICK y \in PlainLists, z \in PlainLists : l = y \o (<<Clear("piD", a)>> \o z)
    BY DEF TakesPid
<1> DEFINE c == <<Clear("piD", a)>>
           cz == c \o z
<1>2. y \in StepLists /\ z \in StepLists /\ c \in StepLists /\ Clear("piD", a) \in Step
    BY PlainTyped, StepsTyped DEF StepLists
<1>3. cz \in StepLists /\ cz # <<>>
  <2>1. c # <<>> /\ c \in Seq(Step) /\ z \in Seq(Step)
    BY <1>2 DEF StepLists
  <2> HIDE DEF c
  <2> QED
    BY <2>1 DEF StepLists
<1>4. l = y \o cz
    BY <1>1
<1>5. CASE y = <<>>
  <2>1. l = cz
    BY <1>3, <1>4, <1>5, EmptyJoined
  <2>2. Head(cz) = Clear("piD", a) /\ Tail(cz) = z
    BY <1>2, FirstOne
  <2> QED
    BY <1>3, <2>1, <2>2
<1>6. CASE y # <<>>
  <2> DEFINE ty == Tail(y)
  <2> HIDE DEF cz
  <2>1. Head(y) \in PlainStep /\ ty \in PlainLists /\ Head(l) = Head(y) /\ Tail(l) = ty \o cz
    BY <1>3, <1>4, <1>6, FirstPlain
  <2>2. l # <<>>
    <3>1. y \in Seq(Step) /\ cz \in Seq(Step)
      BY <1>2, <1>3 DEF StepLists
    <3> QED
      BY <1>4, <1>6, <3>1
  <2> HIDE DEF ty
  <2>3. TakesPid(ty \o cz, a)
    BY <2>1 DEF TakesPid, cz, c
  <2> QED
    BY <2>1, <2>2, <2>3
<1> QED
    BY <1>5, <1>6

(* The steps of Process() that leave the ids and what is left of locking() *)
(* as they are.                                                            *)
LEMMA PidKept ==
    ASSUME PidInv, RailInv', steps' = steps, SamePids(railsystem, railsystem')
    PROVE  PidInv'
<1> DEFINE r == railsystem
           r2 == railsystem'
<1>1. OneId(r) => OneId(r2)
    BY SameOneId
<1>2. \A a : OneIdBut(r, a) => OneIdBut(r2, a)
    BY SameOneId
<1> HIDE DEF r, r2
<1>3. \/ steps \in PlainLists /\ OneId(r2)
      \/ MovesPid(steps) /\ OneId(r2)
      \/ \E a \in Sections : TakesPid(steps, a) /\ OneIdBut(r2, a)
    BY <1>1, <1>2 DEF PidInv, r
<1>4. steps' \in PlainLists <=> steps \in PlainLists
    OBVIOUS
<1> QED
    BY <1>3, <1>4 DEF PidInv, MovesPid, TakesPid, OneId, OneIdBut, r2

LEMMA CarriedPids ==
    ASSUME NEW r, NEW r2, SameCarried(r, r2)
    PROVE  SamePids(r, r2)
    BY DEF SameCarried, SamePids, Carried

LEMMA PidInit == Init => PidInv
<1> SUFFICES ASSUME Init PROVE PidInv
    OBVIOUS
<1>1. OneId(railsystem)
    BY DEF Init, OneId, pid
<1>2. steps \in PlainLists
    BY ListsTyped DEF Init
<1> QED
    BY <1>1, <1>2, InitSound DEF PidInv

LEMMA PidTurns == PidInv /\ (Loop \/ Locate) => PidInv'
<1> SUFFICES ASSUME PidInv, Loop \/ Locate PROVE PidInv'
    OBVIOUS
<1>1. RailInv' /\ steps' = steps /\ railsystem' = railsystem
    BY LoopSound, LocateSound DEF PidInv, Loop, Locate, table, locals
<1>2. SamePids(railsystem, railsystem')
    BY <1>1 DEF SamePids
<1> QED
    BY <1>1, <1>2, PidKept

LEMMA PidEnd == PidInv /\ End => PidInv'
<1> SUFFICES ASSUME PidInv, End PROVE PidInv'
    OBVIOUS
<1> DEFINE a == dir_mag(World, start, railsystem[start].direction, railsystem[start].speed)
           b == [World EXCEPT !.railsystem[start].speed = 0]
<1>1. RailInv' /\ World \in Worlds /\ railsystem \in Tables /\ start \in 0 .. 16
    BY EndSound, WorldFields DEF PidInv, RailInv, LocalsTyped
<1>2. Becomes(IF start \in 14 .. 16 THEN a ELSE b) /\ steps' = steps
    BY DEF End
<1>3. SameCarried(railsystem, a.railsystem)
    BY <1>1, DirMagTyped DEF World
<1>4. b.railsystem = [railsystem EXCEPT ![start].speed = 0]
    BY DEF World
<1>5. SameCarried(railsystem, [railsystem EXCEPT ![start].speed = 0])
  <2>1. 0 \in {0, Speed} /\ AVAILABLE \in {AVAILABLE, USED} /\ CW \in {CW, CCW, UNUSE}
        /\ 0 \in Sections \cup {0, NoWay}
    OBVIOUS
  <2> QED
    BY <1>1, <2>1, FieldSet
<1> HIDE DEF a, b
<1>6. railsystem' \in {a.railsystem, b.railsystem}
    BY <1>2 DEF Becomes
<1>7. SamePids(railsystem, railsystem')
    BY <1>3, <1>4, <1>5, <1>6, CarriedPids
<1> QED
    BY <1>1, <1>2, <1>7, PidKept

LEMMA PidDecide == PidInv /\ Decide => PidInv'
<1> SUFFICES ASSUME PidInv, Decide PROVE PidInv'
    OBVIOUS
<1> DEFINE next == IF start = 0 THEN NoWay
                   ELSE making_decision(start, end, old_section, Used)
<1>1. RailInv' /\ railsystem \in Tables /\ steps' = steps
    BY DecideSound, WorldFields DEF PidInv, RailInv, Decide, locals
<1>2. railsystem' = [railsystem EXCEPT ![start].next_segment = next]
    BY DEF Decide
<1> HIDE DEF next
<1>3. SamePids(railsystem, railsystem')
    BY <1>1, <1>2 DEF Tables, Entry, SamePids
<1> QED
    BY <1>1, <1>3, PidKept

LEMMA PidDirect == PidInv /\ Direct => PidInv'
<1> SUFFICES ASSUME PidInv, Direct PROVE PidInv'
    OBVIOUS
<1> DEFINE d == select_direction(start, railsystem[start].next_segment)
<1>1. RailInv' /\ railsystem \in Tables /\ steps' = steps
    BY DirectSound, WorldFields DEF PidInv, RailInv, Direct, locals
<1>2. railsystem' = [railsystem EXCEPT ![start].direction = d]
    BY DEF Direct
<1> HIDE DEF d
<1>3. SamePids(railsystem, railsystem')
    BY <1>1, <1>2 DEF Tables, Entry, SamePids
<1> QED
    BY <1>1, <1>3, PidKept

(* The steps of a new call of locking().                                   *)
LEMMA PidCall == PidInv /\ Call => PidInv'
<1> SUFFICES ASSUME PidInv, Call PROVE PidInv'
    OBVIOUS
<1>1. RailInv' /\ steps = <<>> /\ start \in Sections /\ railsystem' = railsystem
    BY CallSound DEF PidInv, RailInv, Call, table
<1>2. OneId(railsystem)
  <2>1. ~ MovesPid(steps) /\ \A a \in Sections : ~ TakesPid(steps, a)
    BY <1>1, MovesFirst, TakesFirst
  <2> QED
    BY <2>1 DEF PidInv
<1>3. steps' \in LockLists
  <2> DEFINE n == railsystem[start].next_segment
             d == direction'
  <2>1. steps' = locking(start, n, d)
    BY DEF Call
  <2> HIDE DEF n, d
  <2> QED
    BY <1>1, <2>1, LocksTyped
<1> DEFINE l == steps'
<1>4. l \in PlainLists \/ MovesPid(l)
    BY <1>3 DEF LockLists
<1>5. OneId(railsystem)'
    BY <1>1, <1>2 DEF OneId
<1> QED
    BY <1>1, <1>4, <1>5 DEF PidInv, MovesPid

(* One statement of locking().                                             *)
LEMMA PidLockStep == PidInv /\ LockStep => PidInv'
<1> SUFFICES ASSUME PidInv, LockStep PROVE PidInv'
    OBVIOUS
<1> DEFINE w == Done(World, Head(steps), direction, railsystem[start].speed)
           r == railsystem
           r2 == railsystem'
           l == steps
           l2 == steps'
<1>1. /\ RailInv' /\ World \in Worlds /\ steps \in StepLists /\ steps # <<>>
      /\ Becomes(w) /\ steps' = Tail(steps)
    BY LockStepSound DEF PidInv, RailInv, LockStep, LocalsTyped
<1>2. Head(steps) \in Step
    BY <1>1 DEF StepLists
<1>3. Effect(World, w, Head(steps)) /\ World.railsystem = r /\ w.railsystem = r2
    BY <1>1, <1>2, DoneEffect DEF World, Becomes
<1> HIDE DEF w
<1>4. /\ Head(l) \in PlainStep => SamePids(r, r2)
      /\ \A a, b \in Sections : Head(l) = Give("piD", a, b) /\ OneId(r) => OneIdBut(r2, a)
      /\ \A a \in Sections : Head(l) = Clear("piD", a) /\ OneIdBut(r, a) => OneId(r2)
    BY <1>3, PlainEffect, GiveEffect, ClearEffect
<1>5. \/ l \in PlainLists /\ OneId(r)
      \/ MovesPid(l) /\ OneId(r)
      \/ \E a \in Sections : TakesPid(l, a) /\ OneIdBut(r, a)
    BY DEF PidInv
<1>6. l2 = Tail(l) /\ l # <<>>
    BY <1>1
<1>7. l \in PlainLists => Head(l) \in PlainStep /\ Tail(l) \in PlainLists
    BY <1>1 DEF PlainLists
<1> HIDE DEF r, r2, l, l2
<1>8. \/ l2 \in PlainLists /\ OneId(r2)
      \/ MovesPid(l2) /\ OneId(r2)
      \/ \E a \in Sections : TakesPid(l2, a) /\ OneIdBut(r2, a)
  <2>1. CASE l \in PlainLists /\ OneId(r)
    BY <1>4, <1>6, <1>7, <2>1, SameOneId
  <2>2. CASE MovesPid(l) /\ OneId(r)
    <3>1. CASE Head(l) \in PlainStep /\ MovesPid(Tail(l))
      BY <1>4, <1>6, <2>2, <3>1, SameOneId
    <3>2. CASE \E a, b \in Sections : Head(l) = Give("piD", a, b) /\ TakesPid(Tail(l), a)
      BY <1>4, <1>6, <2>2, <3>2
    <3> QED
      BY <2>2, <3>1, <3>2, MovesFirst
  <2>3. CASE \E a \in Sections : TakesPid(l, a) /\ OneIdBut(r, a)
    <3>1. PICK a \in Sections : TakesPid(l, a) /\ OneIdBut(r, a)
      BY <2>3
    <3>2. CASE Head(l) \in PlainStep /\ TakesPid(Tail(l), a)
      BY <1>4, <1>6, <3>1, <3>2, SameOneId
    <3>3. CASE Head(l) = Clear("piD", a) /\ Tail(l) \in PlainLists
      BY <1>4, <1>6, <3>1, <3>3
    <3> QED
      BY <3>1, <3>2, <3>3, TakesFirst
  <2> QED
    BY <1>5, <2>1, <2>2, <2>3
<1> QED
    BY <1>1, <1>8 DEF PidInv, MovesPid, TakesPid, OneId, OneIdBut, r2, l2

LEMMA PidPowerOn == PidInv /\ PowerOn => PidInv'
<1> SUFFICES ASSUME PidInv, PowerOn PROVE PidInv'
    OBVIOUS
<1> DEFINE w == dir_mag(World, start, railsystem[start].direction, railsystem[start].speed)
<1>1. RailInv' /\ World \in Worlds /\ start \in 0 .. 16 /\ steps' = steps
    BY PowerOnSound DEF PidInv, RailInv, LocalsTyped, PowerOn, locals
<1>2. SameCarried(railsystem, w.railsystem)
    BY <1>1, DirMagTyped DEF World
<1>3. Becomes(w)
    BY DEF PowerOn
<1> HIDE DEF w
<1>4. SamePids(railsystem, railsystem')
    BY <1>2, <1>3, CarriedPids DEF Becomes
<1> QED
    BY <1>1, <1>4, PidKept

(* The whole handler of a sensor, while the id is not in two sections.     *)
LEMMA PidSensor == PidInv /\ Sensor /\ ~ Updating => PidInv'
<1> SUFFICES ASSUME PidInv, Sensor, ~ Updating PROVE PidInv'
    OBVIOUS
<1> DEFINE h == NextSensor(at, heading)
           todo == obtain_decision(h, railsystem[Section(h)].direction, gate)
           w == AllDone(World, todo)
           r == railsystem
           r2 == railsystem'
<1>1. RailInv' /\ World \in Worlds /\ at \in 0 .. 32
    BY SensorSound DEF PidInv, RailInv, LocalsTyped
<1>2. at \in HallSensors /\ h # 0
    BY <1>1 DEF Sensor, SensorDue, HallSensors
<1>3. h \in HallSensors
    BY <1>2, NextSensorTyped DEF HallSensors
<1>4. Becomes(w) /\ steps' = steps
    BY DEF Sensor, locals
<1>5. todo \in WholeLists
    BY <1>3, SensorsTyped
<1> HIDE DEF h, todo
<1>6. OneId(r) /\ (steps \in PlainLists \/ MovesPid(steps))
    BY TakesUpdating DEF PidInv
<1>7. World.railsystem = r
    BY DEF World
<1>8. OneId(w.railsystem)
    BY <1>1, <1>5, <1>6, <1>7 DEF WholeLists
<1> HIDE DEF w, r
<1>9. w.railsystem = r2
    BY <1>4 DEF Becomes
<1>10. OneId(r2)
    BY <1>8, <1>9
<1> QED
    BY <1>1, <1>4, <1>6, <1>10 DEF PidInv, MovesPid, OneId, r2

LEMMA PidNext == PidInv /\ [Next]_vars /\ [~ (Updating /\ Sensor)]_vars => PidInv'
<1> SUFFICES ASSUME PidInv, [Next]_vars, [~ (Updating /\ Sensor)]_vars PROVE PidInv'
    OBVIOUS
<1>1. CASE UNCHANGED vars
  <2>1. RailInv' /\ steps' = steps /\ railsystem' = railsystem
    BY <1>1, StutterSound DEF PidInv, vars, table, locals
  <2>2. SamePids(railsystem, railsystem')
    BY <2>1 DEF SamePids
  <2> QED
    BY <2>1, <2>2, PidKept
<1>2. CASE Sensor /\ ~ UNCHANGED vars
    BY <1>2, PidSensor
<1>3. CASE Process
    BY <1>3, PidTurns, PidEnd, PidDecide, PidDirect, PidCall, PidLockStep, PidPowerOn
       DEF Process
<1> QED
    BY <1>1, <1>2, <1>3 DEF Next

(* "in the end, piD must be unique in the railsystem" (HallSensor.c:555):  *)
(* if no report of a sensor is handled between the statement of locking()  *)
(* that gives the id to the next section and the one that takes it from    *)
(* the old one (HallSensor.c:560-565), whatever other steps the reports    *)
(* fall between.                                                           *)
THEOREM IdInOneSection ==
    Spec /\ [][~ (Updating /\ Sensor)]_vars => []UniquePid
<1>1. ASSUME PidInv PROVE UniquePid
  <2> SUFFICES ASSUME ~ Updating PROVE Cardinality(InSection) <= 1
    BY DEF UniquePid
  <2>1. OneId(railsystem)
    BY <1>1, TakesUpdating DEF PidInv
  <2>2. \A s, t \in InSection : s = t
    BY <2>1 DEF OneId, InSection, Sections
  <2>3. CASE InSection = {}
    <3>1. Cardinality({}) = 0
      BY FS_EmptySet
    <3> QED
      BY <2>3, <3>1
  <2>4. CASE InSection # {}
    <3>1. PICK s \in InSection : InSection = {s}
      BY <2>2, <2>4
    <3>2. Cardinality({s}) = 1
      BY FS_Singleton
    <3> QED
      BY <3>1, <3>2
  <2> QED
    BY <2>3, <2>4
<1>2. Init => PidInv
    BY PidInit
<1>3. PidInv /\ [Next]_vars /\ [~ (Updating /\ Sensor)]_vars => PidInv'
    BY PidNext
<1> QED
    BY <1>1, <1>2, <1>3, PTL DEF Spec

-----------------------------------------------------------------------------
(* Directions.  No step but the decision's own gives a section another     *)
(* direction than CW or one that some section has.                         *)
Directed(r) == \A s \in 0 .. 16 : r[s].direction # UNUSE

(* Every step over the layout's gates has its direction.                   *)
LEMMA GatesDirected ==
    \A s \in Sections : \A n \in map_gate[s] : select_direction(s, n) \in {CW, CCW}
<1> SUFFICES ASSUME NEW s \in Sections, NEW n \in map_gate[s]
             PROVE  <<s, n>> \in Ccws \cup Cws
    BY DEF select_direction
<1> QED
    BY DEF map_gate, Sections, Ccws, Cws

(* The entry of a section is replaced by one with a direction.             *)
LEMMA DirectedSet ==
    ASSUME NEW r \in Tables, Directed(r), NEW s, NEW e,
           s \in 0 .. 16 => e.direction # UNUSE
    PROVE  Directed([r EXCEPT ![s] = e])
    BY DEF Directed, Tables

(* No step gives a section the direction UNUSE if none has it.             *)
LEMMA SameDirected ==
    ASSUME NEW r, NEW r2, Directed(r), SameCarried(r, r2)
    PROVE  Directed(r2)
    BY DEF Directed, SameCarried, Carried

LEMMA FieldDirected ==
    ASSUME NEW r \in Tables, NEW s, Directed(r),
           NEW v \in {0, Speed}, NEW n \in Sections \cup {0, NoWay}
    PROVE  Directed([r EXCEPT ![s].speed = v]) /\ Directed([r EXCEPT ![s].next_segment = n])
<1>1. AVAILABLE \in {AVAILABLE, USED} /\ CW \in {CW, CCW, UNUSE}
    OBVIOUS
<1>2. /\ SameCarried(r, [r EXCEPT ![s].speed = v])
      /\ SameCarried(r, [r EXCEPT ![s].next_segment = n])
    BY <1>1, FieldSet
<1> QED
    BY <1>2, SameDirected

(* Nor does a step of a list, or the whole list.                           *)
LEMMA EffectDirected ==
    ASSUME NEW w, NEW w2, NEW step \in Step, Effect(w, w2, step), Directed(w.railsystem)
    PROVE  Directed(w2.railsystem)
<1>1. step[1] = "give" => step[3] \in 0 .. 16
    BY DEF Step, Sections
<1>2. ASSUME NEW s \in 0 .. 16 PROVE w2.railsystem[s].direction # UNUSE
  <2>1. "direction" \in Carried
    BY DEF Carried
  <2>2. \/ w2.railsystem[s].direction \in {0, w.railsystem[s].direction}
        \/ step[1] = "give" /\ w2.railsystem[s].direction = w.railsystem[step[3]].direction
    BY <2>1 DEF Effect
  <2>3. w.railsystem[s].direction # UNUSE
    BY DEF Directed
  <2>4. step[1] = "give" => w.railsystem[step[3]].direction # UNUSE
    BY <1>1 DEF Directed
  <2> QED
    BY <2>2, <2>3, <2>4 DEF UNUSE
<1> QED
    BY <1>2 DEF Directed

LEMMA AllDoneDirected ==
    ASSUME NEW w \in Worlds, Directed(w.railsystem), NEW todo \in StepLists
    PROVE  Directed(AllDone(w, todo).railsystem)
<1> DEFINE m == Len(todo)
           S == {n \in 0 .. m : Directed(Through(w, todo)[n].railsystem)}
<1>1. m \in Nat /\ m \in 0 .. m /\ 0 \in S
    BY AllDoneThrough
<1>2. ASSUME NEW n \in 1 .. m, n - 1 \in S PROVE n \in S
  <2>1. n - 1 \in 0 .. m /\ n \in 0 .. m /\ todo[n] \in Step
    BY <1>1, <1>2, AllDoneThrough
  <2>2. Effect(Through(w, todo)[n - 1], Through(w, todo)[n], todo[n])
    BY <2>1, AllDoneThrough, ThroughTyped, DoneEffect
  <2>3. Directed(Through(w, todo)[n].railsystem)
    BY <1>2, <2>1, <2>2, EffectDirected
  <2> QED
    BY <2>1, <2>3
<1> HIDE DEF S
<1>3. 0 .. m \subseteq S
    BY <1>1, <1>2, UpTo
<1>4. Directed(Through(w, todo)[m].railsystem)
    BY <1>1, <1>3 DEF S
<1> QED
    BY <1>4, AllDoneThrough

-----------------------------------------------------------------------------
(* Process() is only about to give a direction while the train is on its   *)
(* way, and if it is prompt the decision then still stands in the table.   *)
KnownInv ==
    /\ RailInv
    /\ pc = "direct" => trigger
    /\ prompt => DirectionKnown
    /\ prompt /\ pc = "direct" => railsystem[start].next_segment \in map_gate[start]

(* It is inductive, one lemma per action.                                  *)
LEMMA KnownInit == Init => KnownInv
<1> SUFFICES ASSUME Init PROVE KnownInv
    OBVIOUS
<1>1. \A s \in 0 .. 16 : railsystem[s].direction \in {0, CCW}
    BY DEF Init
<1>2. DirectionKnown
    BY <1>1 DEF DirectionKnown, CCW, UNUSE
<1> QED
    BY <1>2, InitSound DEF KnownInv, Init

LEMMA KnownTurns == KnownInv /\ (Loop \/ Locate) => KnownInv'
<1> SUFFICES ASSUME KnownInv, Loop \/ Locate PROVE KnownInv'
    OBVIOUS
<1>1. RailInv'
    BY LoopSound, LocateSound DEF KnownInv
<1>2. railsystem' = railsystem /\ prompt' = prompt /\ pc' # "direct"
    BY DEF Loop, Locate, table, train
<1> QED
    BY <1>1, <1>2 DEF KnownInv, DirectionKnown

LEMMA KnownEnd == KnownInv /\ End => KnownInv'
<1> SUFFICES ASSUME KnownInv, End PROVE KnownInv'
    OBVIOUS
<1>1. RailInv' /\ World \in Worlds /\ railsystem \in Tables /\ start \in 0 .. 16
    BY EndSound, WorldFields DEF KnownInv, RailInv, LocalsTyped
<1>2. prompt' = prompt /\ pc' = "loop"
    BY DEF End, train
<1>3. ASSUME prompt PROVE DirectionKnown'
  <2> DEFINE a == dir_mag(World, start, railsystem[start].direction,
                                        railsystem[start].speed)
             b == [World EXCEPT !.railsystem[start].speed = 0]
  <2>1. Directed(railsystem) /\ World.railsystem = railsystem
    BY <1>3 DEF KnownInv, DirectionKnown, Directed, World
  <2>2. Directed(a.railsystem)
    BY <1>1, <2>1, DirMagTyped, SameDirected
  <2>3. b.railsystem = [railsystem EXCEPT ![start].speed = 0]
    BY DEF World
  <2>4. Becomes(IF start \in 14 .. 16 THEN a ELSE b)
    BY DEF End
  <2> HIDE DEF a, b
  <2>5. Directed([railsystem EXCEPT ![start].speed = 0])
    <3>1. 0 \in {0, Speed} /\ 0 \in Sections \cup {0, NoWay}
      OBVIOUS
    <3> QED
      BY <1>1, <2>1, <3>1, FieldDirected
  <2>6. Directed(b.railsystem)
    BY <2>3, <2>5
  <2> QED
    BY <2>2, <2>4, <2>6 DEF Becomes, Directed, DirectionKnown
<1> QED
    BY <1>1, <1>2, <1>3 DEF KnownInv

LEMMA KnownDecide == KnownInv /\ Decide => KnownInv'
<1> SUFFICES ASSUME KnownInv, Decide PROVE KnownInv'
    OBVIOUS
<1> DEFINE next == IF start = 0 THEN NoWay
                   ELSE making_decision(start, end, old_section, Used)
<1>1. RailInv' /\ railsystem \in Tables
    BY DecideSound, WorldFields DEF KnownInv, RailInv
<1>2. /\ pc = "decide" /\ start # end /\ start \in 0 .. 16 /\ end \in Sections
    BY DEF KnownInv, RailInv, Decide, LocalsTyped
<1>3. next # NoWay => start \in Sections /\ next \in map_gate[start]
  <2>1. start # 0 => start \in Sections
    BY <1>2 DEF Sections
  <2> QED
    BY <1>2, <2>1, DecisionTouches
<1>4. /\ railsystem' = [railsystem EXCEPT ![start].next_segment = next]
      /\ pc' = IF next = NoWay THEN "undefined" ELSE IF trigger THEN "direct" ELSE "loop"
      /\ prompt' = prompt /\ start' = start /\ trigger' = trigger
    BY DEF Decide, train, locals
<1> HIDE DEF next
<1>5. prompt => DirectionKnown'
  <2> SUFFICES ASSUME prompt PROVE Directed(railsystem')
    BY DEF Directed, DirectionKnown
  <2>1. 0 \in {0, Speed} /\ next \in Sections \cup {0, NoWay} /\ Directed(railsystem)
    BY <1>2, <1>3, GatesTyped DEF KnownInv, DirectionKnown, Directed
  <2> QED
    BY <1>1, <1>4, <2>1, FieldDirected
<1>6. pc' = "direct" => railsystem'[start'].next_segment \in map_gate[start']
    BY <1>1, <1>2, <1>3, <1>4 DEF Tables, Entry
<1> QED
    BY <1>1, <1>4, <1>5, <1>6 DEF KnownInv

LEMMA KnownDirect == KnownInv /\ Direct => KnownInv'
<1> SUFFICES ASSUME KnownInv, Direct PROVE KnownInv'
    OBVIOUS
<1> DEFINE next == railsystem[start].next_segment
           d == select_direction(start, next)
<1>1. RailInv' /\ railsystem \in Tables /\ start \in Sections /\ pc = "direct"
    BY DirectSound, WorldFields DEF KnownInv, RailInv, Direct
<1>2. /\ railsystem' = [railsystem EXCEPT ![start].direction = d]
      /\ prompt' = prompt /\ pc' = "call"
    BY DEF Direct, train
<1>3. ASSUME prompt PROVE DirectionKnown'
  <2>1. next \in map_gate[start]
    BY <1>1, <1>3 DEF KnownInv
  <2>2. d # UNUSE
    BY <1>1, <2>1, GatesDirected DEF UNUSE, CW, CCW
  <2> HIDE DEF next, d
  <2>3. Directed(railsystem)
    BY <1>3 DEF KnownInv, DirectionKnown, Directed
  <2> DEFINE e == [railsystem[start] EXCEPT !.direction = d]
  <2>4. start \in 0 .. 16 /\ e.direction # UNUSE
    BY <1>1, <2>2 DEF Tables, Entry, Sections
  <2>5. railsystem' = [railsystem EXCEPT ![start] = e]
    BY <1>2
  <2> HIDE DEF e
  <2>6. Directed(railsystem')
    BY <1>1, <2>3, <2>4, <2>5, DirectedSet
  <2> QED
    BY <2>6 DEF Directed, DirectionKnown
<1> QED
    BY <1>1, <1>2, <1>3 DEF KnownInv

LEMMA KnownCall == KnownInv /\ Call => KnownInv'
<1> SUFFICES ASSUME KnownInv, Call PROVE KnownInv'
    OBVIOUS
<1>1. RailInv'
    BY CallSound DEF KnownInv
<1>2. railsystem' = railsystem /\ prompt' = prompt /\ pc' = "lock"
    BY DEF Call, table, train
<1> QED
    BY <1>1, <1>2 DEF KnownInv, DirectionKnown

LEMMA KnownLock == KnownInv /\ (LockStep \/ PowerOn) => KnownInv'
<1> SUFFICES ASSUME KnownInv, LockStep \/ PowerOn PROVE KnownInv'
    OBVIOUS
<1>1. RailInv' /\ World \in Worlds /\ steps \in StepLists /\ start \in 0 .. 16
    BY LockStepSound, PowerOnSound DEF KnownInv, RailInv, LocalsTyped
<1>2. prompt' = prompt /\ pc' # "direct"
    BY DEF LockStep, PowerOn, train
<1>3. ASSUME prompt PROVE DirectionKnown'
  <2>1. Directed(railsystem) /\ World.railsystem = railsystem
    BY <1>3 DEF KnownInv, DirectionKnown, Directed, World
  <2>2. CASE LockStep
    <3> DEFINE w == Done(World, Head(steps), direction, railsystem[start].speed)
    <3>1. Head(steps) \in Step
      BY <1>1, <2>2 DEF LockStep, StepLists
    <3>2. Effect(World, w, Head(steps))
      BY <1>1, <3>1, DoneEffect
    <3>3. Becomes(w)
      BY <2>2 DEF LockStep
    <3> HIDE DEF w
    <3>4. Directed(w.railsystem)
      BY <2>1, <3>1, <3>2, EffectDirected
    <3> QED
      BY <3>3, <3>4 DEF Becomes, Directed, DirectionKnown
  <2>3. CASE PowerOn
    <3> DEFINE w == dir_mag(World, start, railsystem[start].direction,
                                          railsystem[start].speed)
    <3>1. Directed(w.railsystem)
      BY <1>1, <2>1, DirMagTyped, SameDirected
    <3>2. Becomes(w)
      BY <2>3 DEF PowerOn
    <3> HIDE DEF w
    <3> QED
      BY <3>1, <3>2 DEF Becomes, Directed, DirectionKnown
  <2> QED
    BY <2>2, <2>3
<1> QED
    BY <1>1, <1>2, <1>3 DEF KnownInv

(* No sensor comes between the decision of a prompt Process() and its use. *)
LEMMA KnownSensor == KnownInv /\ Sensor => KnownInv'
<1> SUFFICES ASSUME KnownInv, Sensor PROVE KnownInv'
    OBVIOUS
<1> DEFINE h == NextSensor(at, heading)
           todo == obtain_decision(h, railsystem[Section(h)].direction, gate)
           w == AllDone(World, todo)
<1>1. RailInv' /\ World \in Worlds /\ at \in 0 .. 32
    BY SensorSound DEF KnownInv, RailInv, LocalsTyped
<1>2. at \in HallSensors /\ h # 0
    BY <1>1 DEF Sensor, SensorDue, HallSensors
<1>3. h \in HallSensors
    BY <1>2, NextSensorTyped DEF HallSensors
<1>4. Becomes(w) /\ UNCHANGED <<heading, prompt, locals, pc>>
    BY DEF Sensor
<1>5. todo \in StepLists
    BY <1>3, SensorsTyped DEF WholeLists
<1>6. prompt /\ pc = "direct" => FALSE
    BY DEF KnownInv, Sensor, SensorDue, Waiting, Blocked
<1> HIDE DEF h, todo
<1>7. ASSUME prompt PROVE DirectionKnown'
  <2>1. Directed(World.railsystem)
    BY <1>7 DEF KnownInv, DirectionKnown, Directed, World
  <2>2. Directed(w.railsystem)
    BY <1>1, <1>5, <2>1, AllDoneDirected
  <2> HIDE DEF w
  <2> QED
    BY <1>4, <2>2 DEF Becomes, Directed, DirectionKnown
<1> QED
    BY <1>1, <1>4, <1>6, <1>7 DEF KnownInv, locals

LEMMA KnownNext == KnownInv /\ [Next]_vars => KnownInv'
<1>1. KnownInv /\ UNCHANGED vars => KnownInv'
    BY StutterSound DEF KnownInv, DirectionKnown, vars, table, train, locals
<1> QED
    BY <1>1, KnownTurns, KnownEnd, KnownDecide, KnownDirect, KnownCall,
       KnownLock, KnownSensor
       DEF Next, Process

(* A train whose Process() is done before its next sensor never has the    *)
(* direction UNUSE (train.c:18-58): select_direction has an entry for      *)
(* whatever making_decision() answers, and every other write of a          *)
(* direction copies one or resets it.                                      *)
THEOREM PromptDirected == Spec => [](prompt => DirectionKnown)
<1>1. Init => KnownInv
    BY KnownInit
<1>2. KnownInv /\ [Next]_vars => KnownInv'
    BY KnownNext
<1>3. KnownInv => (prompt => DirectionKnown)
    BY DEF KnownInv
<1> QED
    BY <1>1, <1>2, <1>3, PTL DEF Spec
=============================================================================

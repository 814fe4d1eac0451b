----------------------------- MODULE TripProofs ------------------------------
(***************************************************************************)
(* Proofs about Console, whatever is typed: what it queues is the line     *)
(* just typed.  And about Route, for every traffic: what Process() decides *)
(* begins a way to its destination, or there is none, nor any walk,        *)
(* however long.                                                           *)
(***************************************************************************)
EXTENDS Console, Route, SearchProofs, SequenceTheorems

-----------------------------------------------------------------------------
(* The console.  How many keys of a command each state has behind it.      *)
Progress == [VALID |-> 0, START1 |-> 1, START2 |-> 2, SPACE1 |-> 3,
             SPEEDVALUE |-> 4, SPACE2 |-> 5, END1 |-> 6, END2 |-> 7]

(* The numbers are those of the keys so far, and the start is on the       *)
(* layout, or 0, as soon as it is complete.                                *)
NumbersSoFar(line) ==
    /\ number1 = IF Len(line) = 0 THEN 0
                 ELSE IF Len(line) = 1 THEN 10 * line[1]
                 ELSE 10 * line[1] + line[2]
    /\ number2 = IF Len(line) < 4 THEN 0 ELSE line[4]
    /\ number3 = IF Len(line) < 6 THEN 0
                 ELSE IF Len(line) = 6 THEN 10 * line[6]
                 ELSE 10 * line[6] + line[7]
    /\ Len(line) > 1 => number1 < MAX_SECTION

(* The parser follows the line; it has given up only on a line that fits   *)
(* no command or one whose start is not on the layout.                     *)
Followed ==
    /\ typed \in Seq(Keys)
    /\ \/ /\ current_state \in DOMAIN Progress
          /\ Fits(typed)
          /\ Len(typed) = Progress[current_state]
          /\ NumbersSoFar(typed)
       \/ /\ current_state = "INVALID"
          /\ Fits(typed) => Len(typed) > 1 /\ ~ OnLayout(10 * typed[1] + typed[2])

ConsoleInv ==
    /\ ~ occupied => Followed
    /\ occupied => typed = <<>>
    /\ StartIndexesTable

(* The train.  Where there is a next section it is the one decided for the *)
(* section the train is in and for the traffic as it is.                   *)
DriveInv ==
    /\ {start, old_section, end} \subseteq Sections
    /\ next_segment # 0 =>
         start # end /\ next_segment = making_decision(start, end, old_section, used)
-----------------------------------------------------------------------------
(* The form of a command, one key further.                                 *)
LEMMA FormTyped ==
    /\ Len(Form) = 7
    /\ Form[1] = {0, 1} /\ Form[2] = 0 .. 9 /\ Form[3] = {Space}
    /\ Form[4] = 0 .. 7 /\ Form[5] = {Space} /\ Form[6] = {0, 1}
    /\ Form[7] = 0 .. 9
    BY DEF Form

LEMMA FormKeys ==
    /\ \A n \in {0, 1, 3, 5, 6} : Form[n + 1] \subseteq 0 .. 9
    /\ \A n \in {2, 4} : Form[n + 1] = {Space}
    /\ \A n \in {0, 5} : Form[n + 1] = {0, 1}
    /\ Form[3 + 1] = 0 .. 7
<1>1. {0, 1} \subseteq 0 .. 9 /\ 0 .. 7 \subseteq 0 .. 9
    OBVIOUS
<1>2. 0 + 1 = 1 /\ 1 + 1 = 2 /\ 2 + 1 = 3 /\ 3 + 1 = 4 /\ 4 + 1 = 5 /\ 5 + 1 = 6 /\ 6 + 1 = 7
    OBVIOUS
<1> QED
    BY <1>1, <1>2, FormTyped

LEMMA KeysApart ==
    /\ Space \in Keys /\ Space \notin 0 .. 9 /\ Other \notin 0 .. 9
    /\ Space # Enter /\ Space # Other
<1>1. \A k \in {Space, Enter, Other} : k \notin 0 .. 9
    BY ConsoleAssumption
<1>2. Space \in Keys
    BY DEF Keys
<1> QED
    BY <1>1, <1>2, ConsoleAssumption

LEMMA FitsAppend ==
    ASSUME NEW line \in Seq(Keys), NEW k \in Keys, Fits(line)
    PROVE  /\ Append(line, k) \in Seq(Keys)
           /\ Len(Append(line, k)) = Len(line) + 1
           /\ \A i \in 1 .. Len(line) : Append(line, k)[i] = line[i]
           /\ Append(line, k)[Len(line) + 1] = k
           /\ Fits(Append(line, k)) <=> Len(line) < 7 /\ k \in Form[Len(line) + 1]
<1> DEFINE n == Len(line)
           more == Append(line, k)
<1>1. /\ n \in Nat /\ more \in Seq(Keys) /\ Len(more) = n + 1
      /\ \A i \in 1 .. n : more[i] = line[i]
      /\ more[n + 1] = k
      /\ DOMAIN more = 1 .. n + 1 /\ DOMAIN line = 1 .. n
    OBVIOUS
<1>2. n <= 7 /\ \A i \in 1 .. n : line[i] \in Form[i]
    BY <1>1, FormTyped DEF Fits
<1> HIDE DEF n, more
<1>3. ASSUME n < 7, k \in Form[n + 1]
      PROVE  Fits(more)
  <2>1. \A i \in 1 .. n + 1 : i \in 1 .. n \/ i = n + 1
    BY <1>1
  <2>2. n + 1 <= 7
    BY <1>1, <1>3
  <2> QED
    BY <1>1, <1>2, <1>3, <2>1, <2>2, FormTyped DEF Fits
<1>4. ASSUME Fits(more)
      PROVE  n < 7 /\ k \in Form[n + 1]
  <2>1. n + 1 <= 7 /\ n + 1 \in 1 .. n + 1
    BY <1>1, <1>4, FormTyped DEF Fits
  <2>2. more[n + 1] \in Form[n + 1]
    BY <1>1, <1>4, <2>1 DEF Fits
  <2> QED
    BY <1>1, <2>1, <2>2
<1> QED
    BY <1>1, <1>3, <1>4 DEF n, more

LEMMA ProgressTyped ==
    /\ DOMAIN Progress = {"VALID", "START1", "START2", "SPACE1", "SPEEDVALUE",
                          "SPACE2", "END1", "END2"}
    /\ Progress["VALID"] = 0 /\ Progress["START1"] = 1
    /\ Progress["START2"] = 2 /\ Progress["SPACE1"] = 3
    /\ Progress["SPEEDVALUE"] = 4 /\ Progress["SPACE2"] = 5
    /\ Progress["END1"] = 6 /\ Progress["END2"] = 7
    /\ "INVALID" \notin DOMAIN Progress
    BY DEF Progress

(* What a key that is not Enter does to the line.                          *)
Longer(k) == typed' = IF Fits(typed) THEN Append(typed, k) ELSE typed

(* A key that makes the parser give up is one that fits no command there.  *)
LEMMA GivesUp ==
    ASSUME Followed, NEW k \in Keys, Longer(k), current_state' = "INVALID",
           current_state \in DOMAIN Progress /\ Len(typed) < 7 =>
               k \notin Form[Len(typed) + 1]
    PROVE  Followed'
<1>1. typed \in Seq(Keys)
    BY DEF Followed
<1>2. CASE ~ Fits(typed)
    BY <1>1, <1>2 DEF Followed, Longer
<1>3. CASE Fits(typed)
  <2> DEFINE more == Append(typed, k)
  <2>1. typed' = more
    BY <1>3 DEF Longer
  <2>2. /\ more \in Seq(Keys) /\ Len(more) = Len(typed) + 1
        /\ \A i \in 1 .. Len(typed) : more[i] = typed[i]
        /\ Fits(more) <=> Len(typed) < 7 /\ k \in Form[Len(typed) + 1]
    BY <1>1, <1>3, FitsAppend
  <2> HIDE DEF more
  <2>3. CASE current_state \in DOMAIN Progress
    BY <2>1, <2>2, <2>3 DEF Followed
  <2>4. CASE current_state \notin DOMAIN Progress
    <3>1. Len(typed) > 1 /\ ~ OnLayout(10 * typed[1] + typed[2])
      BY <1>3, <2>4 DEF Followed
    <3>2. Len(typed) \in Nat
      BY <1>1
    <3>3. 1 \in 1 .. Len(typed) /\ 2 \in 1 .. Len(typed) /\ Len(more) > 1
      BY <2>2, <3>1, <3>2
    <3>4. more[1] = typed[1] /\ more[2] = typed[2]
      BY <2>2, <3>3
    <3> QED
      BY <2>1, <2>2, <3>1, <3>3, <3>4 DEF Followed, OnLayout
  <2> QED
    BY <2>3, <2>4
<1> QED
    BY <1>2, <1>3
(* What is known of a line that the parser follows, and of it with the     *)
(* next key of a command.                                                  *)
LEMMA FollowedLine ==
    ASSUME Followed, current_state \in DOMAIN Progress
    PROVE  /\ typed \in Seq(Keys) /\ Fits(typed) /\ Len(typed) \in 0 .. 7
           /\ Len(typed) = Progress[current_state]
           /\ NumbersSoFar(typed)
           /\ Len(typed) > 0 => typed[1] \in {0, 1}
           /\ Len(typed) > 1 => typed[2] \in 0 .. 9
<1>1. /\ typed \in Seq(Keys) /\ Fits(typed)
      /\ Len(typed) = Progress[current_state]
      /\ NumbersSoFar(typed)
    BY ProgressTyped DEF Followed
<1>2. Len(typed) \in Nat /\ DOMAIN typed = 1 .. Len(typed)
    BY <1>1
<1>3. Len(typed) <= 7 /\ \A i \in 1 .. Len(typed) : typed[i] \in Form[i]
    BY <1>1, <1>2, FormTyped DEF Fits
<1>4. Len(typed) > 0 => 1 \in 1 .. Len(typed)
    BY <1>2
<1>5. Len(typed) > 1 => 2 \in 1 .. Len(typed)
    BY <1>2
<1> QED
    BY <1>1, <1>2, <1>3, <1>4, <1>5, FormTyped

LEMMA NextKey ==
    ASSUME Followed, current_state \in DOMAIN Progress, Len(typed) < 7,
           NEW k \in Keys, k \in Form[Len(typed) + 1], Longer(k)
    PROVE  /\ typed' \in Seq(Keys) /\ Fits(typed') /\ Len(typed') = Len(typed) + 1
           /\ \A i \in 1 .. Len(typed) : typed'[i] = typed[i]
           /\ typed'[Len(typed) + 1] = k
<1>1. typed \in Seq(Keys) /\ Fits(typed)
    BY FollowedLine
<1>2. typed' = Append(typed, k)
    BY <1>1 DEF Longer
<1> QED
    BY <1>1, <1>2, FitsAppend

LEMMA SpaceFollowed ==
    ASSUME Followed, ReceiveSpace, Longer(Space)
    PROVE  Followed'
<1>1. Space \in Keys /\ Space \notin 0 .. 9
    BY KeysApart
<1>2. UNCHANGED <<number1, number2, number3>>
    BY DEF ReceiveSpace
<1>3. CASE current_state \in {"START2", "SPEEDVALUE"}
  <2>1. /\ current_state \in DOMAIN Progress
        /\ current_state' = IF current_state = "START2" THEN "SPACE1" ELSE "SPACE2"
    BY <1>3, ProgressTyped DEF ReceiveSpace, AfterSpace
  <2>2. Len(typed) = IF current_state = "START2" THEN 2 ELSE 4
    BY <1>3, <2>1, FollowedLine, ProgressTyped
  <2>3. Len(typed) < 7 /\ Space \in Form[Len(typed) + 1]
    BY <2>2, FormTyped
  <2>4. /\ typed' \in Seq(Keys) /\ Fits(typed') /\ Len(typed') = Len(typed) + 1
        /\ \A i \in 1 .. Len(typed) : typed'[i] = typed[i]
    BY <1>1, <2>1, <2>3, NextKey
  <2>5. NumbersSoFar(typed)
    BY <2>1, FollowedLine
  <2>6. NumbersSoFar(typed)'
    <3>1. CASE Len(typed) = 2
      BY <1>2, <2>4, <2>5, <3>1 DEF NumbersSoFar
    <3>2. CASE Len(typed) = 4
      BY <1>2, <2>4, <2>5, <3>2 DEF NumbersSoFar
    <3> QED
      BY <2>2, <3>1, <3>2
  <2>7. current_state' \in DOMAIN Progress /\ Len(typed') = Progress[current_state']
    BY <1>3, <2>1, <2>2, <2>4, ProgressTyped
  <2>8. Fits(typed)'
    BY <2>4 DEF Fits
  <2> QED
    BY <2>4, <2>6, <2>7, <2>8 DEF Followed
<1>4. CASE current_state \notin {"START2", "SPEEDVALUE"}
  <2>1. current_state' = "INVALID"
    BY <1>4 DEF ReceiveSpace, AfterSpace
  <2>2. ASSUME current_state \in DOMAIN Progress, Len(typed) < 7
        PROVE  Space \notin Form[Len(typed) + 1]
    <3>0. Len(typed) = Progress[current_state]
      BY <2>2, FollowedLine
    <3>1. Len(typed) \in {0, 1, 3, 5, 6}
      BY <1>4, <2>2, <3>0, ProgressTyped
    <3>2. Form[Len(typed) + 1] \subseteq 0 .. 9
      BY <3>1, FormKeys
    <3> QED
      BY <1>1, <3>2
  <2> QED
    BY <1>1, <2>1, <2>2, GivesUp
<1> QED
    BY <1>3, <1>4

LEMMA WrongFollowed ==
    ASSUME Followed, NEW k \in Keys, ReceiveWrong(k), Longer(k)
    PROVE  Followed'
<1>1. current_state' = "INVALID"
    BY DEF ReceiveWrong
<1>2. ASSUME current_state \in DOMAIN Progress, Len(typed) < 7
      PROVE  k \notin Form[Len(typed) + 1]
  <2>1. Len(typed) = Progress[current_state]
    BY <1>2, FollowedLine
  <2>2. CASE k = Other
    <3>1. Other \notin 0 .. 9 /\ Other # Space
      BY KeysApart
    <3>2. Len(typed) \in {0, 1, 3, 5, 6} \/ Len(typed) \in {2, 4}
      BY <1>2, <2>1, ProgressTyped
    <3>3. Form[Len(typed) + 1] \subseteq 0 .. 9 \/ Form[Len(typed) + 1] = {Space}
      BY <3>2, FormKeys
    <3> QED
      BY <2>2, <3>1, <3>3
  <2>3. CASE k \in 0 .. 9 /\ current_state \notin TakenIn(k)
    <3>1. k # Space
      BY <2>3, KeysApart
    <3>2. TakenIn(k) = IF k <= 1 THEN {"VALID", "START1", "SPACE1", "SPACE2", "END1"}
                       ELSE IF k <= 7 THEN {"START1", "SPACE1", "END1"}
                       ELSE {"START1", "END1"}
      BY <2>3 DEF TakenIn
    <3>3. \/ Len(typed) \in {2, 4}
          \/ Len(typed) \in {0, 5} /\ ~ (k <= 1)
          \/ Len(typed) = 3 /\ ~ (k <= 7)
      BY <1>2, <2>1, <2>3, <3>2, ProgressTyped
    <3>4. CASE Len(typed) \in {2, 4}
      <4>1. Form[Len(typed) + 1] = {Space}
        BY <3>4, FormKeys
      <4> QED
        BY <3>1, <4>1
    <3>5. CASE Len(typed) \in {0, 5} /\ ~ (k <= 1)
      <4>1. Form[Len(typed) + 1] = {0, 1}
        BY <3>5, FormKeys
      <4> QED
        BY <2>3, <3>5, <4>1
    <3>6. CASE Len(typed) = 3 /\ ~ (k <= 7)
      <4>1. Form[Len(typed) + 1] = 0 .. 7
        BY <3>6, FormKeys
      <4> QED
        BY <2>3, <3>6, <4>1
    <3> QED
      BY <3>3, <3>4, <3>5, <3>6
  <2> QED
    BY <2>2, <2>3 DEF ReceiveWrong
<1> QED
    BY <1>1, <1>2, GivesUp
(* What a digit that is taken does to the state, but for the check.        *)
LEMMA DigitTaken ==
    ASSUME NEW d, ReceiveDigit(d)
    PROVE  /\ d \in 0 .. 9 /\ d \in Keys
           /\ current_state \in {"VALID", "START1", "SPACE1", "SPACE2", "END1"}
           /\ current_state \in {"VALID", "SPACE2"} => d \in {0, 1}
           /\ current_state = "SPACE1" => d \in 0 .. 7
           /\ current_state' =
                IF d > 1 /\ current_state \in {"START1", "END1"} /\ ~ OnLayout(number1')
                THEN "INVALID" ELSE AfterDigit[current_state]
<1>1. d \in 0 .. 9 /\ d \in Keys
    BY DEF ReceiveDigit, Keys
<1>2. TakenIn(d) = IF d <= 1 THEN {"VALID", "START1", "SPACE1", "SPACE2", "END1"}
                   ELSE IF d <= 7 THEN {"START1", "SPACE1", "END1"}
                   ELSE {"START1", "END1"}
    BY <1>1 DEF TakenIn
<1>3. current_state \in TakenIn(d)
    BY DEF ReceiveDigit
<1> QED
    BY <1>1, <1>2, <1>3 DEF ReceiveDigit

LEMMA DigitNumbers ==
    ASSUME NEW d, ReceiveDigit(d)
    PROVE  /\ number1' = IF current_state = "VALID" THEN 10 * d
                         ELSE IF current_state = "START1" THEN number1 + d ELSE number1
           /\ number2' = IF current_state = "SPACE1" THEN d ELSE number2
           /\ number3' = IF current_state = "SPACE2" THEN 10 * d
                         ELSE IF current_state = "END1" THEN number3 + d ELSE number3
    BY DEF ReceiveDigit

LEMMA DigitFollowed ==
    ASSUME Followed, NEW d, ReceiveDigit(d), Longer(d)
    PROVE  Followed'
<1>1. /\ d \in 0 .. 9 /\ d \in Keys
      /\ current_state \in {"VALID", "START1", "SPACE1", "SPACE2", "END1"}
      /\ current_state \in {"VALID", "SPACE2"} => d \in {0, 1}
      /\ current_state = "SPACE1" => d \in 0 .. 7
      /\ current_state' =
           IF d > 1 /\ current_state \in {"START1", "END1"} /\ ~ OnLayout(number1')
           THEN "INVALID" ELSE AfterDigit[current_state]
    BY DigitTaken
<1> DEFINE n == Len(typed)
<1>2. current_state \in DOMAIN Progress
    BY <1>1, ProgressTyped
<1>3. /\ n = Progress[current_state] /\ NumbersSoFar(typed)
      /\ n > 0 => typed[1] \in {0, 1}
      /\ n > 1 => typed[2] \in 0 .. 9
    BY <1>2, FollowedLine
<1> HIDE DEF n
<1>4. n < 7 /\ d \in Form[n + 1] /\ n \in Nat
  <2>1. CASE current_state \in {"VALID", "SPACE2"}
    <3>1. n \in {0, 5}
      BY <1>3, <2>1, ProgressTyped
    <3> QED
      BY <1>1, <2>1, <3>1, FormKeys
  <2>2. CASE current_state = "SPACE1"
    <3>1. n = 3
      BY <1>3, <2>2, ProgressTyped
    <3> QED
      BY <1>1, <2>2, <3>1, FormKeys
  <2>3. CASE current_state \in {"START1", "END1"}
    <3>1. n = 1 \/ n = 6
      BY <1>3, <2>3, ProgressTyped
    <3>2. n + 1 = 2 \/ n + 1 = 7
      BY <3>1
    <3> QED
      BY <1>1, <3>1, <3>2, FormTyped
  <2> QED
    BY <1>1, <2>1, <2>2, <2>3
<1>5. /\ typed' \in Seq(Keys) /\ Fits(typed)' /\ Len(typed') = n + 1
      /\ \A i \in 1 .. n : typed'[i] = typed[i]
      /\ typed'[n + 1] = d
  <2>1. /\ typed' \in Seq(Keys) /\ Fits(typed') /\ Len(typed') = n + 1
        /\ \A i \in 1 .. n : typed'[i] = typed[i]
        /\ typed'[n + 1] = d
    BY <1>1, <1>2, <1>4, NextKey DEF n
  <2> QED
    BY <2>1 DEF Fits
<1>6. n > 1 => typed'[1] = typed[1] /\ typed'[2] = typed[2]
    BY <1>4, <1>5
<1>7. /\ number1' = IF n = 0 THEN 10 * d
                    ELSE IF n = 1 THEN number1 + d ELSE number1
      /\ number2' = IF n = 3 THEN d ELSE number2
      /\ number3' = IF n = 5 THEN 10 * d
                    ELSE IF n = 6 THEN number3 + d ELSE number3
      /\ n \in {0, 1, 3, 5, 6}
    BY <1>1, <1>3, DigitNumbers, ProgressTyped
<1>8. n > 0 => number1' = 10 * typed'[1] + typed'[2]
  <2>1. CASE n = 1
    BY <1>3, <1>5, <1>7, <2>1 DEF NumbersSoFar, n
  <2>2. CASE n > 1
    BY <1>3, <1>6, <1>7, <2>2 DEF NumbersSoFar, n
  <2> QED
    BY <1>4, <2>1, <2>2
<1>9. CASE current_state' = "INVALID"
  <2>1. n \in {1, 6} /\ ~ OnLayout(number1')
    BY <1>1, <1>3, <1>9, ProgressTyped DEF AfterDigit
  <2>2. Len(typed') > 1 /\ n > 0
    BY <1>5, <2>1
  <2>3. ~ OnLayout(10 * typed'[1] + typed'[2])
    BY <1>8, <2>1, <2>2 DEF OnLayout
  <2> QED
    BY <1>5, <1>9, <2>2, <2>3 DEF Followed, OnLayout
<1>10. CASE current_state' # "INVALID"
  <2>1. current_state' = AfterDigit[current_state]
    BY <1>1, <1>10
  <2>2. current_state' \in DOMAIN Progress /\ n + 1 = Progress[current_state']
    BY <1>1, <1>3, <2>1, ProgressTyped DEF AfterDigit
  <2>3. n > 0 => number1' < MAX_SECTION
    <3>1. CASE n = 1
      <4>0. current_state = "START1"
        <5>1. current_state \in {"VALID", "START1", "SPACE1", "SPACE2", "END1"}
          BY <1>1
        <5>2. Progress[current_state] = 1
          BY <1>3, <3>1
        <5> QED
          BY <5>1, <5>2, ProgressTyped
      <4>1. d > 1 => OnLayout(number1')
        BY <1>1, <1>10, <4>0
      <4>2. ~ (d > 1) => number1' < MAX_SECTION
        <5>1. typed'[1] = typed[1] /\ typed'[2] = d /\ typed[1] \in {0, 1}
          BY <1>3, <1>5, <3>1
        <5>2. ~ (d > 1) => d \in {0, 1}
          BY <1>1
        <5> QED
          BY <1>8, <3>1, <5>1, <5>2 DEF MAX_SECTION
      <4> QED
        BY <4>1, <4>2 DEF OnLayout
    <3>2. CASE n > 1
      BY <1>3, <1>7, <3>2 DEF NumbersSoFar, n
    <3> QED
      BY <1>4, <3>1, <3>2
  <2>4. NumbersSoFar(typed)'
    <3>1. /\ number1' = IF n + 1 = 1 THEN 10 * typed'[1] ELSE 10 * typed'[1] + typed'[2]
          /\ n + 1 > 1 => number1' < MAX_SECTION
      BY <1>4, <1>5, <1>7, <1>8, <2>3
    <3>2. number2' = IF n + 1 < 4 THEN 0 ELSE typed'[4]
      BY <1>3, <1>5, <1>7 DEF NumbersSoFar, n
    <3>3. number3' = IF n + 1 < 6 THEN 0
                     ELSE IF n + 1 = 6 THEN 10 * typed'[6]
                     ELSE 10 * typed'[6] + typed'[7]
      <4>1. number3 = IF n < 6 THEN 0 ELSE IF n = 6 THEN 10 * typed[6]
                      ELSE 10 * typed[6] + typed[7]
        BY <1>3 DEF NumbersSoFar, n
      <4>2. CASE n \in {0, 1, 3}
        BY <4>1, <4>2, <1>7
      <4>3. CASE n = 5
        BY <4>3, <1>5, <1>7
      <4>4. CASE n = 6
        BY <4>1, <4>4, <1>5, <1>7
      <4> QED
        BY <4>2, <4>3, <4>4, <1>7
    <3> QED
      BY <1>4, <1>5, <3>1, <3>2, <3>3 DEF NumbersSoFar
  <2> QED
    BY <1>5, <2>2, <2>4 DEF Followed
<1> QED
    BY <1>9, <1>10
-----------------------------------------------------------------------------
(* Any key.                                                                *)
LEMMA EnterFollowed ==
    ASSUME ReceiveEnter, typed' = <<>>
    PROVE  Followed'
<1>1. Len(typed') = 0 /\ typed' \in Seq(Keys) /\ DOMAIN typed' = {}
    BY EmptySeq
<1>2. Fits(typed)'
    BY <1>1, FormTyped DEF Fits
<1>3. current_state' = "VALID" /\ number1' = 0 /\ number2' = 0 /\ number3' = 0
    BY DEF ReceiveEnter
<1>4. NumbersSoFar(typed)'
    BY <1>1, <1>3 DEF NumbersSoFar
<1> QED
    BY <1>1, <1>2, <1>3, <1>4, ProgressTyped DEF Followed

LEMMA KeyFollowed ==
    ASSUME Followed, NEW k \in Keys, get_received_char(k)
    PROVE  Followed'
<1>1. CASE k = Enter /\ ReceiveEnter
    BY <1>1, EnterFollowed DEF get_received_char
<1>2. CASE k # Enter
  <2>1. Longer(k)
    BY <1>2 DEF get_received_char, Longer
  <2>2. CASE k = Space /\ ReceiveSpace
    BY <2>1, <2>2, SpaceFollowed
  <2>3. CASE ReceiveDigit(k)
    BY <2>1, <2>3, DigitFollowed
  <2>4. CASE ReceiveWrong(k)
    BY <2>1, <2>4, WrongFollowed
  <2> QED
    BY <1>2, <2>2, <2>3, <2>4 DEF get_received_char
<1>3. k = Enter => ~ ReceiveDigit(k) /\ ~ ReceiveWrong(k) /\ k # Space
  <2>1. Enter \notin 0 .. 9 /\ Enter # Other /\ Enter # Space
    <3>1. \A x \in {Space, Enter, Other} : x \notin 0 .. 9
      BY ConsoleAssumption
    <3> QED
      BY <3>1, ConsoleAssumption
  <2> QED
    BY <2>1 DEF ReceiveDigit, ReceiveWrong
<1> QED
    BY <1>1, <1>2, <1>3 DEF get_received_char

(* What is queued is the command that the line is.                         *)
LEMMA KeyQueued ==
    ASSUME Followed, NEW k \in Keys, get_received_char(k), queued' # queued
    PROVE  /\ IsCommand(typed) /\ queued' \in {Numbers(typed), NullTrain}
           /\ Numbers(typed)[1] < MAX_SECTION
<1>1. current_state = "END2" /\ queued' \in {numbers, NullTrain, queued}
    BY DEF get_received_char, ReceiveEnter, ReceiveSpace, ReceiveDigit, ReceiveWrong
<1>2. current_state \in DOMAIN Progress
    BY <1>1, ProgressTyped
<1>3. Fits(typed) /\ Len(typed) = 7 /\ NumbersSoFar(typed)
    BY <1>1, <1>2, FollowedLine, ProgressTyped
<1>4. numbers = Numbers(typed) /\ number1 < MAX_SECTION
    BY <1>3 DEF NumbersSoFar, numbers, Numbers
<1> QED
    BY <1>1, <1>3, <1>4, FormTyped DEF IsCommand, numbers

LEMMA ConsoleStart == ConsoleInit => ConsoleInv
<1> SUFFICES ASSUME ConsoleInit PROVE ConsoleInv
    OBVIOUS
<1>1. Len(typed) = 0 /\ typed \in Seq(Keys) /\ DOMAIN typed = {} /\ typed = <<>>
    BY EmptySeq DEF ConsoleInit
<1>2. Fits(typed)
    BY <1>1, FormTyped DEF Fits
<1>3. /\ current_state = "VALID" /\ number1 = 0 /\ number2 = 0 /\ number3 = 0
      /\ queued = NoTrain
    BY DEF ConsoleInit
<1>4. NumbersSoFar(typed)
    BY <1>1, <1>3 DEF NumbersSoFar
<1> QED
    BY <1>1, <1>2, <1>3, <1>4, ProgressTyped DEF ConsoleInv, Followed, StartIndexesTable

LEMMA ConsoleStep == ConsoleInv /\ [ConsoleNext]_consoleVars => ConsoleInv'
<1> SUFFICES ASSUME ConsoleInv, [ConsoleNext]_consoleVars PROVE ConsoleInv'
    OBVIOUS
<1>1. CASE UNCHANGED consoleVars \/ EchoFaults
  <2>1. /\ current_state' = current_state /\ typed' = typed /\ queued' = queued
        /\ number1' = number1 /\ number2' = number2 /\ number3' = number3
        /\ occupied' = occupied
    BY <1>1 DEF EchoFaults, consoleVars
  <2> QED
    BY <2>1 DEF ConsoleInv, Followed, StartIndexesTable, Fits, NumbersSoFar
<1>2. CASE StartProcess
    BY <1>2 DEF StartProcess, ConsoleInv, StartIndexesTable
<1>3. ASSUME NEW k \in Keys, get_received_char(k)
      PROVE  ConsoleInv'
  <2>1. ~ occupied /\ ~ occupied' /\ Followed
    BY <1>3 DEF get_received_char, ConsoleInv
  <2>2. Followed'
    BY <1>3, <2>1, KeyFollowed
  <2>3. CASE queued' = queued
    BY <2>1, <2>2, <2>3 DEF ConsoleInv, StartIndexesTable
  <2>4. CASE queued' # queued
    <3>1. queued' \in {Numbers(typed), NullTrain} /\ Numbers(typed)[1] < MAX_SECTION
      BY <1>3, <2>1, <2>4, KeyQueued
    <3> QED
      BY <2>1, <2>2, <3>1 DEF ConsoleInv, StartIndexesTable
  <2> QED
    BY <2>3, <2>4
<1> QED
    BY <1>1, <1>2, <1>3 DEF ConsoleNext

(* The parser's numbers and state are those of the line typed so far,      *)
(* whatever was typed before (ControlSoftware.c:82-152).                   *)
THEOREM ConsoleCorrect == ConsoleSpec => []ConsoleInv
    BY ConsoleStart, ConsoleStep, PTL DEF ConsoleSpec

(* Every command between two sections of the layout is taken, whatever     *)
(* lines were typed before.                                                *)
THEOREM TripsTaken == ConsoleSpec => []TakesEveryTrip
<1>1. ConsoleInv => TakesEveryTrip
  <2> SUFFICES ASSUME ConsoleInv, IsCommand(typed),
                      Numbers(typed)[1] \in 1 .. MAX_SECTION - 1
               PROVE  current_state = "END2"
    BY DEF TakesEveryTrip
  <2>1. Len(typed) = 7 /\ Fits(typed)
    BY FormTyped DEF IsCommand
  <2>2. Followed
    <3>0. typed = <<>> => Len(typed) = 0
      OBVIOUS
    <3>1. typed # <<>>
      BY <2>1, <3>0
    <3> QED
      BY <3>1 DEF ConsoleInv
  <2>3. OnLayout(10 * typed[1] + typed[2])
    BY DEF Numbers, OnLayout, MAX_SECTION
  <2>4. current_state \in DOMAIN Progress /\ Progress[current_state] = 7
    BY <2>1, <2>2, <2>3 DEF Followed
  <2> QED
    BY <2>4, ProgressTyped
<1> QED
    BY <1>1, ConsoleCorrect, PTL

(* The start of every train that is queued has an entry in railsystem.     *)
THEOREM StartsIndexTable == ConsoleSpec => []StartIndexesTable
<1>1. ConsoleInv => StartIndexesTable
    BY DEF ConsoleInv
<1> QED
    BY <1>1, ConsoleCorrect, PTL

(* A train is queued only with the numbers of the line just typed.         *)
THEOREM TrainsQueuedAsTyped == ConsoleSpec => QueuedAsTyped
<1> DEFINE A == queued' \notin {queued, NoTrain} =>
                    IsCommand(typed) /\ queued' \in {Numbers(typed), NullTrain}
<1>1. ConsoleInv /\ [ConsoleNext]_consoleVars => [A]_consoleVars
  <2> SUFFICES ASSUME ConsoleInv, [ConsoleNext]_consoleVars, queued' \notin {queued, NoTrain}
               PROVE  IsCommand(typed) /\ queued' \in {Numbers(typed), NullTrain}
    OBVIOUS
  <2>1. ~ StartProcess /\ ~ EchoFaults /\ ~ UNCHANGED consoleVars
    BY DEF StartProcess, EchoFaults, consoleVars
  <2>2. PICK k \in Keys : get_received_char(k)
    BY <2>1 DEF ConsoleNext
  <2>3. Followed
    BY <2>2 DEF get_received_char, ConsoleInv
  <2> QED
    BY <2>2, <2>3, KeyQueued
<1> QED
    BY <1>1, ConsoleCorrect, PTL DEF ConsoleSpec, QueuedAsTyped
-----------------------------------------------------------------------------
(* The train.                                                              *)
LEMMA DriveStart == Init => DriveInv
    BY RouteAssumption DEF Init, DriveInv

LEMMA DriveStep == DriveInv /\ [Next]_vars => DriveInv'
<1> SUFFICES ASSUME DriveInv, [Next]_vars PROVE DriveInv'
    OBVIOUS
<1>1. CASE UNCHANGED vars
    BY <1>1 DEF vars, DriveInv
<1>2. CASE Decide
    BY <1>2 DEF Decide, DriveInv
<1>3. CASE Arrive
    BY <1>3 DEF Arrive, DriveInv
<1>4. CASE Move
    BY <1>4 DEF Move, DriveInv
<1> QED
    BY <1>1, <1>2, <1>3, <1>4 DEF Next

(* A train's next section is what the search answers for the section it is *)
(* in, its destination and the sections in use (train.c:637-657).          *)
THEOREM DriveCorrect == Spec => []DriveInv
    BY DriveStart, DriveStep, PTL DEF Spec

(* Where there is a next section or there is said to be none, a train      *)
(* drives between two sections and the search has been asked.              *)
LEMMA Asked ==
    ASSUME DriveInv, next_segment \in Sections \cup {NoWay}
    PROVE  /\ start \in Sections /\ end \in Sections /\ start # end
           /\ next_segment = making_decision(start, end, old_section, used)
<1>1. next_segment # 0
    BY NoWayAssumption DEF Sections
<1> QED
    BY <1>1 DEF DriveInv

(* A way found by the search is one for the train.                         *)
LEMMA LeadsIsWay ==
    ASSUME NEW way, start # end,
           Leads(way, start, start, end, OpenSections(start, end, old_section, used) \ {start})
    PROVE  IsWay(way)
<1> DEFINE open == OpenSections(start, end, old_section, used) \ {start}
           n == Len(way)
<1>1. open \subseteq Passable
    BY DEF OpenSections, Passable
<1>2. /\ way \in Seq(Sections) /\ n \in Nat \ {0}
      /\ way[1] = start /\ way[n] = end
      /\ \A i \in 1 .. n - 1 :
           way[i + 1] \in Exits(Before(way, start, i), way[i]) \cap open
      /\ \A i, j \in 1 .. n : way[i] = way[j] => i = j
    BY DEF Leads
<1> HIDE DEF open, n
<1>3. n > 1
    BY <1>2
<1>4. ASSUME NEW i \in 2 .. n
      PROVE  way[i] \in map_gate[way[i - 1]] \cap Passable
  <2>1. i - 1 \in 1 .. n - 1 /\ (i - 1) + 1 = i
    BY <1>2
  <2>2. way[i] \in Exits(Before(way, start, i - 1), way[i - 1]) \cap open
    BY <1>2, <2>1
  <2> QED
    BY <1>1, <2>2, ExitsTouch
<1>5. ASSUME NEW i \in 2 .. n - 1, NEW f \in Forced, f[1] = way[i - 1], f[2] = way[i]
      PROVE  f[3] = way[i + 1]
  <2>1. i \in 1 .. n - 1 /\ i # 1
    BY <1>2
  <2>2. way[i + 1] \in Exits(Before(way, start, i), way[i])
    BY <1>2, <2>1
  <2>3. way[i + 1] \in Exits(f[1], f[2])
    BY <1>5, <2>1, <2>2 DEF Before
  <2> QED
    BY <2>3, ForcedExit
<1> QED
    BY <1>2, <1>3, <1>4, <1>5 DEF IsWay, n

(* What a train is told begins a way to its destination, whatever sections *)
(* are in use.                                                             *)
THEOREM DecisionsLead == Spec => []DecisionLeadsToEnd
<1>1. DriveInv => DecisionLeadsToEnd
  <2> SUFFICES ASSUME DriveInv, next_segment \in Sections
               PROVE  LET route == FoundRoute(start, end, old_section, used)
                      IN  IsWay(route) /\ next_segment = route[2]
    BY DEF DecisionLeadsToEnd
  <2> DEFINE route == FoundRoute(start, end, old_section, used)
  <2>1. /\ start \in Sections /\ end \in Sections /\ start # end
        /\ next_segment = making_decision(start, end, old_section, used)
    BY Asked
  <2>2. route # <<>> /\ next_segment = route[2]
    BY <2>1, NoWayAssumption DEF making_decision
  <2>3. Leads(route, start, start, end, OpenSections(start, end, old_section, used) \ {start})
    BY <2>1, <2>2, FoundRouteLeads
  <2> HIDE DEF route
  <2>4. IsWay(route)
    BY <2>1, <2>3, LeadsIsWay
  <2> QED
    BY <2>2, <2>4 DEF route
<1> QED
    BY <1>1, DriveCorrect, PTL
(* And a way for the train is one for the search.                          *)
LEMMA WayLeads ==
    ASSUME NEW way \in Seq(Sections), IsWay(way)
    PROVE  Leads(way, start, start, end, OpenSections(start, end, old_section, used) \ {start})
<1> DEFINE open == OpenSections(start, end, old_section, used) \ {start}
           n == Len(way)
<1>1. /\ n \in Nat /\ n > 1 /\ way[1] = start /\ way[n] = end
      /\ \A i \in 2 .. n : way[i] \in map_gate[way[i - 1]] \cap Passable
      /\ \A i, j \in 1 .. n : way[i] = way[j] => i = j
      /\ \A i \in 2 .. n - 1 : \A f \in Forced :
           f[1] = way[i - 1] /\ f[2] = way[i] => f[3] = way[i + 1]
      /\ \A i \in 1 .. n : way[i] \in Sections
    BY DEF IsWay
<1> HIDE DEF n
<1>2. ASSUME NEW i \in 1 .. n - 1
      PROVE  way[i + 1] \in Exits(Before(way, start, i), way[i]) \cap open
  <2>1. i + 1 \in 2 .. n /\ (i + 1) - 1 = i /\ i + 1 \in 1 .. n /\ i + 1 # 1 /\ 1 \in 1 .. n
    BY <1>1
  <2>2. way[i + 1] \in map_gate[way[i]] \cap Passable
    BY <1>1, <2>1
  <2>3. way[i + 1] \in open
    <3>1. way[i + 1] # start
      BY <1>1, <2>1
    <3> QED
      BY <2>2, <3>1 DEF OpenSections, Passable
  <2>4. ASSUME NEW e \in Sections, <<Before(way, start, i), way[i], e>> \in Forced
        PROVE  e = way[i + 1]
    <3>1. CASE i = 1
      <4>1. \A s, x \in Sections : <<s, s, x>> \notin Forced
        BY DEF Forced
      <4> QED
        BY <1>1, <2>1, <2>4, <3>1, <4>1 DEF Before
    <3>2. CASE i # 1
      <4>1. i \in 2 .. n - 1
        BY <1>1, <3>2
      <4> QED
        BY <1>1, <2>4, <3>2, <4>1 DEF Before
    <3> QED
      BY <3>1, <3>2
  <2>5. way[i + 1] \in Sections
    BY <1>1, <2>1
  <2> QED
    BY <2>2, <2>3, <2>4, <2>5 DEF Exits
<1> HIDE DEF open
<1>3. Leads(way, start, start, end, open)
    BY <1>1, <1>2 DEF Leads, n
<1> QED
    BY <1>3 DEF open

(* That there is no route is the answer only if there is no way.           *)
LEMMA NoRoute ==
    ASSUME DriveInv, next_segment = NoWay
    PROVE  \A way \in Seq(Sections) : ~ IsWay(way)
<1> SUFFICES ASSUME NEW way \in Seq(Sections), IsWay(way) PROVE FALSE
    OBVIOUS
<1> DEFINE open == OpenSections(start, end, old_section, used) \ {start}
<1>1. /\ start \in Sections /\ end \in Sections /\ start # end
      /\ next_segment = making_decision(start, end, old_section, used)
    BY Asked
<1>2. Leads(way, start, start, end, open)
    BY WayLeads
<1>3. open \in SUBSET Sections /\ start \notin open
    BY <1>1, OpenTyped
<1>4. FoundRoute(start, end, old_section, used) = Routes(end)[open][start][start]
    BY DEF FoundRoute, recursion
<1> HIDE DEF open
<1>5. FoundRoute(start, end, old_section, used) # <<>>
    BY <1>1, <1>2, <1>3, <1>4, RoutesComplete
<1>6. making_decision(start, end, old_section, used) \in map_gate[start] \cap Sections
  <2>1. Leads(FoundRoute(start, end, old_section, used), start, start, end, open)
    BY <1>1, <1>5, FoundRouteLeads DEF open
  <2>2. making_decision(start, end, old_section, used)
          = FoundRoute(start, end, old_section, used)[2]
    BY <1>5 DEF making_decision
  <2> QED
    BY <1>1, <1>3, <2>1, <2>2, LeadsFrom, ExitsTouch
<1> QED
    BY <1>1, <1>6, NoWayAssumption

(* A train is told that there is no route only if there is no way to its   *)
(* destination at all, whatever sections are in use: no list of sections,  *)
(* of whatever length, is one.                                             *)
THEOREM NoWayIfNone ==
    Spec => [](next_segment = NoWay => \A way \in Seq(Sections) : ~ IsWay(way))
    BY NoRoute, DriveCorrect, PTL

-----------------------------------------------------------------------------
(* Walks to the destination, which may come to a section again: one of     *)
(* k + 1 moves, each into a passable section and none that a switch        *)
(* forbids.                                                                *)
Walk(w, k) ==
    /\ k \in Nat /\ w \in [1 .. k + 2 -> Sections] /\ w[k + 2] = end
    /\ \A i \in 1 .. k + 1 : w[i + 1] \in map_gate[w[i]] \cap Passable
    /\ \A i \in 1 .. k : Legal(w[i], w[i + 1], w[i + 2])

(* One that begins with the move from p to q.                              *)
Walks(p, q, k) == \E w : Walk(w, k) /\ w[1] = p /\ w[2] = q

(* The shortest is a single move.                                          *)
LEMMA LastMove ==
    ASSUME NEW p \in Sections, end \in Sections, end \in map_gate[p]
    PROVE  Walks(p, end, 0)
<1> DEFINE w == [i \in 1 .. 2 |-> IF i = 1 THEN p ELSE end]
<1>1. w \in [1 .. 2 -> Sections] /\ w[1] = p /\ w[2] = end
    OBVIOUS
<1> HIDE DEF w
<1>2. end \in Passable
    BY DEF Passable
<1>3. 0 + 2 = 2 /\ 0 + 1 = 1 /\ (\A i \in 1 .. 1 : i = 1 /\ i + 1 = 2) /\ 1 .. 0 = {}
    OBVIOUS
<1>4. Walk(w, 0)
    BY <1>1, <1>2, <1>3 DEF Walk
<1> QED
    BY <1>1, <1>4 DEF Walks

(* A move may come before a walk that may follow it.                       *)
LEMMA MoveBefore ==
    ASSUME NEW p \in Sections, NEW q \in map_gate[p] \cap Passable, NEW r,
           Legal(p, q, r), NEW k \in Nat, Walks(q, r, k)
    PROVE  Walks(p, q, k + 1)
<1>1. PICK v : Walk(v, k) /\ v[1] = q /\ v[2] = r
    BY DEF Walks
<1>2. /\ v \in [1 .. k + 2 -> Sections] /\ v[k + 2] = end
      /\ \A i \in 1 .. k + 1 : v[i + 1] \in map_gate[v[i]] \cap Passable
      /\ \A i \in 1 .. k : Legal(v[i], v[i + 1], v[i + 2])
    BY <1>1 DEF Walk
<1> DEFINE w == [i \in 1 .. k + 3 |-> IF i = 1 THEN p ELSE v[i - 1]]
<1>3. w \in [1 .. k + 3 -> Sections] /\ w[1] = p
    BY <1>2
<1>4. \A i \in 2 .. k + 3 : w[i] = v[i - 1]
    OBVIOUS
<1> HIDE DEF w
<1>5. w[2] = q /\ w[3] = r /\ w[k + 3] = end
  <2>1. /\ 2 \in 2 .. k + 3 /\ 3 \in 2 .. k + 3 /\ k + 3 \in 2 .. k + 3
        /\ 2 - 1 = 1 /\ 3 - 1 = 2 /\ (k + 3) - 1 = k + 2
    OBVIOUS
  <2> QED
    BY <1>1, <1>2, <1>4, <2>1
<1>6. ASSUME NEW i \in 1 .. k + 2
      PROVE  w[i + 1] \in map_gate[w[i]] \cap Passable
  <2>1. CASE i = 1
    BY <1>3, <1>5, <2>1
  <2>2. CASE i # 1
    <3>1. /\ i - 1 \in 1 .. k + 1 /\ i \in 2 .. k + 3 /\ i + 1 \in 2 .. k + 3
          /\ (i - 1) + 1 = i /\ (i + 1) - 1 = i
      BY <2>2
    <3> QED
      BY <1>2, <1>4, <3>1
  <2> QED
    BY <2>1, <2>2
<1>7. ASSUME NEW i \in 1 .. k + 1
      PROVE  Legal(w[i], w[i + 1], w[i + 2])
  <2>1. CASE i = 1
    BY <1>3, <1>5, <2>1
  <2>2. CASE i # 1
    <3>1. /\ i - 1 \in 1 .. k /\ i \in 2 .. k + 3
          /\ i + 1 \in 2 .. k + 3 /\ i + 2 \in 2 .. k + 3
          /\ (i - 1) + 1 = i /\ (i + 1) - 1 = i
          /\ (i - 1) + 2 = i + 1 /\ (i + 2) - 1 = i + 1
      BY <2>2
    <3> QED
      BY <1>2, <1>4, <3>1
  <2> QED
    BY <2>1, <2>2
<1>8. (k + 1) + 2 = k + 3 /\ (k + 1) + 1 = k + 2 /\ k + 1 \in Nat
    OBVIOUS
<1>9. Walk(w, k + 1)
    BY <1>3, <1>5, <1>6, <1>7, <1>8 DEF Walk
<1> QED
    BY <1>3, <1>5, <1>9 DEF Walks

(* What is left of a walk after some of its moves is a walk.               *)
LEMMA MovesLeft ==
    ASSUME NEW w, NEW k, Walk(w, k), NEW i \in 1 .. k + 1
    PROVE  Walks(w[i], w[i + 1], k + 1 - i)
<1>1. /\ k \in Nat /\ w \in [1 .. k + 2 -> Sections] /\ w[k + 2] = end
      /\ \A h \in 1 .. k + 1 : w[h + 1] \in map_gate[w[h]] \cap Passable
      /\ \A h \in 1 .. k : Legal(w[h], w[h + 1], w[h + 2])
    BY DEF Walk
<1> DEFINE j == k + 1 - i
           v == [h \in 1 .. j + 2 |-> w[h + (i - 1)]]
<1>2. j \in Nat /\ i \in Nat /\ j + i = k + 1
    BY <1>1
<1>3. \A h \in 1 .. j + 2 : h + (i - 1) \in 1 .. k + 2
    BY <1>1, <1>2
<1> HIDE DEF j
<1>4. v \in [1 .. j + 2 -> Sections] /\ \A h \in 1 .. j + 2 : v[h] = w[h + (i - 1)]
    BY <1>1, <1>3
<1> HIDE DEF v
<1>5. v[1] = w[i] /\ v[2] = w[i + 1] /\ v[j + 2] = end
  <2>1. /\ 1 \in 1 .. j + 2 /\ 2 \in 1 .. j + 2 /\ j + 2 \in 1 .. j + 2
        /\ 1 + (i - 1) = i /\ 2 + (i - 1) = i + 1 /\ (j + 2) + (i - 1) = k + 2
    BY <1>1, <1>2
  <2> QED
    BY <1>1, <1>4, <2>1
<1>6. ASSUME NEW h \in 1 .. j + 1
      PROVE  v[h + 1] \in map_gate[v[h]] \cap Passable
  <2>1. /\ h \in 1 .. j + 2 /\ h + 1 \in 1 .. j + 2 /\ h + (i - 1) \in 1 .. k + 1
        /\ (h + 1) + (i - 1) = (h + (i - 1)) + 1
    BY <1>1, <1>2
  <2> QED
    BY <1>1, <1>4, <2>1
<1>7. ASSUME NEW h \in 1 .. j
      PROVE  Legal(v[h], v[h + 1], v[h + 2])
  <2>1. /\ h \in 1 .. j + 2 /\ h + 1 \in 1 .. j + 2 /\ h + 2 \in 1 .. j + 2
        /\ h + (i - 1) \in 1 .. k
        /\ (h + 1) + (i - 1) = (h + (i - 1)) + 1
        /\ (h + 2) + (i - 1) = (h + (i - 1)) + 2
    BY <1>1, <1>2
  <2> QED
    BY <1>1, <1>4, <2>1
<1>8. Walk(v, j)
    BY <1>2, <1>4, <1>5, <1>6, <1>7 DEF Walk
<1> QED
    BY <1>5, <1>8 DEF Walks, j

(* The least number of moves that a walk makes after one from p to q, or c *)
(* if that is less.                                                        *)
Distance(c, p, q) ==
    CHOOSE j \in 0 .. c : /\ j = c \/ Walks(p, q, j)
                          /\ \A i \in 0 .. c : Walks(p, q, i) => j <= i

(* There is such a number.                                                 *)
LEMMA DistanceDef ==
    ASSUME NEW c \in Nat, NEW p, NEW q
    PROVE  /\ Distance(c, p, q) \in 0 .. c
           /\ Distance(c, p, q) # c => Walks(p, q, Distance(c, p, q))
           /\ \A i \in 0 .. c : Walks(p, q, i) => Distance(c, p, q) <= i
<1> DEFINE T == {j \in 0 .. c : j = c \/ Walks(p, q, j)}
<1>1. PICK j \in T : \A i \in T : j <= i
  <2>1. T \in SUBSET (0 .. c) /\ 0 \in Int /\ c \in Int /\ c \in T
    OBVIOUS
  <2> HIDE DEF T
  <2> QED
    BY <2>1, LowestNumber
<1>2. j \in 0 .. c /\ (j = c \/ Walks(p, q, j))
    OBVIOUS
<1>3. \A i \in 0 .. c : Walks(p, q, i) => i \in T
    OBVIOUS
<1> HIDE DEF T
<1>4. \E l \in 0 .. c : /\ l = c \/ Walks(p, q, l)
                        /\ \A i \in 0 .. c : Walks(p, q, i) => l <= i
    BY <1>1, <1>2, <1>3
<1> QED
    BY <1>4 DEF Distance

(* A move is at most one further away than any that can follow it.         *)
LEMMA DistanceStep ==
    ASSUME NEW c \in Nat, NEW p \in Sections, NEW q \in map_gate[p] \cap Passable,
           NEW r, Legal(p, q, r)
    PROVE  Distance(c, p, q) <= Distance(c, q, r) + 1
<1> DEFINE d == Distance(c, q, r)
           e == Distance(c, p, q)
<1>1. c \in Nat /\ d \in 0 .. c /\ e \in 0 .. c
    BY DistanceDef
<1>2. d # c => Walks(q, r, d)
    BY DistanceDef
<1>3. \A i \in 0 .. c : Walks(p, q, i) => e <= i
    BY DistanceDef
<1> HIDE DEF d, e
<1>4. CASE d = c
  <2>1. e <= d + 1
    BY ONLY <1>1, <1>4
  <2> QED
    BY <2>1 DEF d, e
<1>5. CASE d # c
  <2>1. d \in Nat /\ d + 1 \in 0 .. c
    BY ONLY <1>1, <1>5
  <2>2. Walks(p, q, d + 1)
    BY <1>2, <1>5, <2>1, MoveBefore
  <2>3. e <= d + 1
    BY <1>3, <2>1, <2>2
  <2> QED
    BY <2>3 DEF d, e
<1> QED
    BY <1>4, <1>5

(* If a walk leads to the destination, however long, then so does a way.   *)
LEMMA WalkedWay ==
    ASSUME start # end, start \in Sections, end \in Sections,
           NEW m \in Nat, NEW u, Walk(u, m), u[1] = start
    PROVE  \E way \in Seq(Sections) : IsWay(way)
<1> DEFINE T == {k \in 0 .. m : \E w : Walk(w, k) /\ w[1] = start}
<1>1. PICK k \in T : \A i \in T : k <= i
  <2>1. T \in SUBSET (0 .. m) /\ 0 \in Int /\ m \in Int /\ m \in T
    OBVIOUS
  <2> HIDE DEF T
  <2> QED
    BY <2>1, LowestNumber
<1>2. PICK w : Walk(w, k) /\ w[1] = start
    OBVIOUS
<1>3. k \in 0 .. m /\ \A i \in 0 .. m : \A q : Walks(start, q, i) => k <= i
    BY <1>1 DEF Walks
<1> HIDE DEF T
<1> DEFINE n == k + 2
           D == [p \in Sections |-> [q \in Sections |-> n - 1 - Distance(k + 1, p, q)]]
<1>4. /\ k \in Nat /\ k + 1 \in Nat /\ n \in Nat /\ n >= 2 /\ n > 1
      /\ n - 1 = k + 1 /\ n - 2 = k
    BY <1>3
<1>5. \A p, q \in Sections : D[p][q] = n - 1 - Distance(k + 1, p, q)
    OBVIOUS
<1>6. D \in [Sections -> [Sections -> Int]]
  <2>1. ASSUME NEW p, NEW q PROVE n - 1 - Distance(k + 1, p, q) \in Int
    <3>1. Distance(k + 1, p, q) \in 0 .. k + 1
      BY <1>4, DistanceDef
    <3> HIDE DEF n
    <3> QED
      BY <1>4, <3>1
  <2> QED
    BY <2>1
<1>7. /\ w \in [1 .. n -> Sections] /\ w[n] = end
      /\ \A i \in 1 .. n - 1 : w[i + 1] \in map_gate[w[i]] \cap Passable
      /\ \A i \in 1 .. n - 2 : Legal(w[i], w[i + 1], w[i + 2])
      /\ Passable \subseteq Sections
    BY <1>2, <1>4 DEF Walk, Passable
<1> HIDE DEF n, D
<1>8. \A q : k <= Distance(k + 1, start, q)
  <2> SUFFICES ASSUME NEW q PROVE k <= Distance(k + 1, start, q)
    OBVIOUS
  <2> DEFINE d == Distance(k + 1, start, q)
  <2>1. /\ k \in Nat /\ m \in Nat /\ k <= m /\ d \in 0 .. k + 1
        /\ d # k + 1 => Walks(start, q, d)
    BY <1>3, <1>4, DistanceDef
  <2> HIDE DEF d
  <2>2. SUFFICES ASSUME ~ (k <= d) PROVE FALSE
    BY DEF d
  <2>3. d # k + 1 /\ d \in 0 .. m
    BY ONLY <2>1, <2>2
  <2> QED
    BY <1>3, <2>1, <2>2, <2>3
<1>9. \A i \in 1 .. n - 1 : Distance(k + 1, w[i], w[i + 1]) = n - 1 - i
  <2> DEFINE d(i) == Distance(k + 1, w[i], w[i + 1])
             B == {i \in 1 .. n - 1 : d(i) # n - 1 - i}
  <2> SUFFICES ASSUME B # {} PROVE FALSE
    OBVIOUS
  <2>1. PICK i \in B : \A h \in B : i <= h
    <3>1. B \in SUBSET (1 .. n - 1) /\ 1 \in Int /\ n - 1 \in Int
      BY <1>4
    <3> HIDE DEF B
    <3> QED
      BY <3>1, LowestNumber
  <2>2. i \in 1 .. n - 1 /\ d(i) # n - 1 - i
    OBVIOUS
  <2>3. \A h \in 1 .. n - 1 : h < i => d(h) = n - 1 - h
    <3>1. \A h \in 1 .. n - 1 : h < i => h \notin B
      BY <1>4, <2>1, <2>2
    <3> QED
      BY <3>1
  <2> HIDE DEF B
  <2>4. /\ i \in 1 .. k + 1 /\ k + 1 - i = n - 1 - i /\ k + 1 - i \in 0 .. k + 1
        /\ i \in Nat
    BY <1>4, <2>2
  <2>5. d(i) \in 0 .. k + 1 /\ d(i) <= n - 1 - i
    <3>1. Walks(w[i], w[i + 1], k + 1 - i)
      BY <1>2, <2>4, MovesLeft
    <3> QED
      BY <1>4, <2>4, <3>1, DistanceDef
  <2>6. n - 1 - i <= d(i)
    <3>1. CASE i = 1
      <4>1. k <= d(i)
        BY <1>2, <1>8, <3>1
      <4> HIDE DEF d
      <4> QED
        BY <1>4, <2>5, <3>1, <4>1
    <3>2. CASE i # 1
      <4>1. /\ i - 1 \in 1 .. n - 1 /\ i - 1 \in 1 .. n - 2 /\ i - 1 < i
            /\ (i - 1) + 1 = i /\ (i - 1) + 2 = i + 1 /\ i - 1 \in 1 .. n
        BY <1>4, <2>2, <3>2
      <4>2. d(i - 1) = n - 1 - (i - 1)
        BY <2>3, <4>1
      <4>3. d(i - 1) <= d(i) + 1
        <5>1. /\ Legal(w[i - 1], w[i], w[i + 1]) /\ w[i - 1] \in Sections
              /\ w[i] \in map_gate[w[i - 1]] \cap Passable
          BY <1>7, <4>1
        <5> QED
          BY <1>4, <4>1, <5>1, DistanceStep
      <4> HIDE DEF d
      <4> QED
        BY <1>4, <2>4, <2>5, <4>2, <4>3
    <3> QED
      BY <3>1, <3>2
  <2> HIDE DEF d
  <2> QED
    BY <1>4, <2>2, <2>4, <2>5, <2>6
<1>10. ShortestWalk(w, n, D, Passable)
  <2>1. ASSUME NEW i \in 1 .. n - 1 PROVE D[w[i]][w[i + 1]] = i
    <3>1. i \in 1 .. n /\ i + 1 \in 1 .. n /\ n - 1 - (n - 1 - i) = i
      BY <1>4
    <3>2. w[i] \in Sections /\ w[i + 1] \in Sections
      BY <1>7, <3>1
    <3>3. D[w[i]][w[i + 1]] = n - 1 - Distance(k + 1, w[i], w[i + 1])
      BY <1>5, <3>2
    <3>4. Distance(k + 1, w[i], w[i + 1]) = n - 1 - i
      BY <1>9
    <3> QED
      BY <3>1, <3>3, <3>4
  <2>2. ASSUME NEW p \in Sections, NEW q \in Sections, NEW r \in Sections,
               q \in map_gate[p] \cap Passable, r \in Passable, Legal(p, q, r)
        PROVE  D[q][r] <= D[p][q] + 1
    <3>1. Distance(k + 1, p, q) <= Distance(k + 1, q, r) + 1
      BY <1>4, <2>2, DistanceStep
    <3>2. Distance(k + 1, p, q) \in 0 .. k + 1 /\ Distance(k + 1, q, r) \in 0 .. k + 1
      BY <1>4, DistanceDef
    <3> QED
      BY <1>4, <1>5, <3>1, <3>2
  <2>3. ASSUME NEW y \in map_gate[w[1]] \cap Passable PROVE D[w[1]][y] <= 1
    <3>1. k <= Distance(k + 1, start, y) /\ Distance(k + 1, start, y) \in 0 .. k + 1
      BY <1>4, <1>8, DistanceDef
    <3>2. D[start][y] = n - 1 - Distance(k + 1, start, y)
      BY <1>5, <1>7, <2>3
    <3> QED
      BY <1>2, <1>4, <3>1, <3>2
  <2>4. ASSUME NEW p \in Sections, w[n] \in map_gate[p] PROVE D[p][w[n]] = n - 1
    <3>1. Walks(p, end, 0)
      BY <1>7, <2>4, LastMove
    <3>2. Distance(k + 1, p, end) \in 0 .. k + 1 /\ Distance(k + 1, p, end) <= 0
      BY <1>4, <3>1, DistanceDef
    <3>3. D[p][end] = n - 1 - Distance(k + 1, p, end)
      BY <1>5
    <3> QED
      BY <1>4, <1>7, <3>2, <3>3
  <2> QED
    BY <1>4, <1>6, <1>7, <2>1, <2>2, <2>3, <2>4 DEF ShortestWalk
<1>11. \A i, j \in 1 .. n : w[i] = w[j] => i = j
    BY <1>2, <1>7, <1>10, ShortestIsSimple
<1>12. w \in Seq(Sections) /\ Len(w) = n
    BY <1>4, <1>7
<1>13. IsWay(w)
  <2>1. ASSUME NEW i \in 2 .. n PROVE w[i] \in map_gate[w[i - 1]] \cap Passable
    <3>1. i - 1 \in 1 .. n - 1 /\ (i - 1) + 1 = i
      BY <1>4
    <3> QED
      BY <1>7, <3>1
  <2>2. ASSUME NEW i \in 2 .. n - 1, NEW f \in Forced, f[1] = w[i - 1], f[2] = w[i]
        PROVE  f[3] = w[i + 1]
    <3>1. i - 1 \in 1 .. n - 2 /\ (i - 1) + 1 = i /\ (i - 1) + 2 = i + 1
      BY <1>4
    <3>2. Legal(w[i - 1], w[i], w[i + 1])
      BY <1>7, <3>1
    <3> QED
      BY <2>2, <3>2 DEF Legal
  <2> QED
    BY <1>2, <1>4, <1>7, <1>11, <1>12, <2>1, <2>2 DEF IsWay
<1> QED
    BY <1>12, <1>13

(* Nor is there a walk that comes to a section twice: none to the          *)
(* destination, of whatever length, begins in the section the train is in. *)
THEOREM NoWayNoWalk ==
    Spec => [](next_segment = NoWay =>
                        \A k \in Nat : \A w : Walk(w, k) => w[1] # start)
<1>1. ASSUME DriveInv, next_segment = NoWay, NEW k \in Nat, NEW w, Walk(w, k)
      PROVE  w[1] # start
  <2>1. start \in Sections /\ end \in Sections /\ start # end
    BY <1>1, Asked
  <2> QED
    BY <1>1, <2>1, NoRoute, WalkedWay
<1>2. DriveInv => (next_segment = NoWay =>
                     \A k \in Nat : \A w : Walk(w, k) => w[1] # start)
    BY <1>1
<1> QED
    BY <1>2, DriveCorrect, PTL

-----------------------------------------------------------------------------
(* The moves from which a walk to the destination is at most one longer    *)
(* than from those of X.                                                   *)
Earlier(X) ==
    X \cup {m \in Moves : \E n \in X :
              /\ n[1] = m[2] /\ n[2] # m[1]
              /\ \A f \in Forced : f[1] = m[1] /\ f[2] = m[2] => f[3] = n[2]}

(* Leading is a recursive function: as for the search, that it satisfies   *)
(* its equation is proved by taking the lowest number up to which there is *)
(* no function that does.                                                  *)
Layers(g, k) ==
    g = [i \in 0 .. k |-> IF i = 0 THEN {m \in Moves : m[2] = end} ELSE Earlier(g[i - 1])]

(* There are such layers, and hence they are Leading's.                    *)
LEMMA LayersExist == \A k \in 0 .. 16 : \E g : Layers(g, k)
<1> DEFINE T == {k \in 0 .. 16 : ~ \E g : Layers(g, k)}
           First == {m \in Moves : m[2] = end}
<1> SUFFICES ASSUME T # {} PROVE FALSE
    OBVIOUS
<1>1. PICK k \in T : \A i \in T : k <= i
  <2>1. T \in SUBSET (0 .. 16) /\ 0 \in Int /\ 16 \in Int
    OBVIOUS
  <2> HIDE DEF T
  <2> QED
    BY <2>1, LowestNumber
<1>2. k \in 0 .. 16 /\ ~ \E g : Layers(g, k)
    OBVIOUS
<1>3. \A g, j :
        Layers(g, j) <=> g = [i \in 0 .. j |-> IF i = 0 THEN First ELSE Earlier(g[i - 1])]
    BY DEF Layers
<1> HIDE DEF First
<1>4. CASE k = 0
  <2>1. Layers([i \in 0 .. 0 |-> First], 0)
    <3>1. [i \in 0 .. 0 |-> First]
            = [i \in 0 .. 0 |->
                 IF i = 0 THEN First ELSE Earlier([j \in 0 .. 0 |-> First][i - 1])]
      OBVIOUS
    <3> QED
      BY <1>3, <3>1
  <2> QED
    BY <1>2, <1>4, <2>1
<1>5. CASE k # 0
  <2>1. k - 1 \in 0 .. 16 /\ ~ (k <= k - 1)
    BY <1>2, <1>5
  <2>2. PICK g : Layers(g, k - 1)
    BY <1>1, <2>1
  <2> DEFINE h == [i \in 0 .. k |-> IF i = 0 THEN First ELSE Earlier(g[i - 1])]
  <2>3. \A i \in 0 .. k - 1 : h[i] = g[i]
    <3>1. \A i \in 0 .. k - 1 : i \in 0 .. k
      BY <1>2
    <3>2. \A i \in 0 .. k - 1 : g[i] = IF i = 0 THEN First ELSE Earlier(g[i - 1])
      <4>1. g = [i \in 0 .. k - 1 |-> IF i = 0 THEN First ELSE Earlier(g[i - 1])]
        BY <1>3, <2>2
      <4> QED
        BY <4>1
    <3> QED
      BY <3>1, <3>2
  <2>4. \A i \in 0 .. k : i # 0 => i - 1 \in 0 .. k - 1
    BY <1>2
  <2>5. \A i \in 0 .. k : i # 0 => h[i - 1] = g[i - 1]
    BY <2>3, <2>4
  <2>6. h = [i \in 0 .. k |-> IF i = 0 THEN First ELSE Earlier(h[i - 1])]
    BY <2>5
  <2> HIDE DEF h
  <2> QED
    BY <1>2, <1>3, <2>6
<1> QED
    BY <1>4, <1>5

(* What Leading is, without recursion.                                     *)
LEMMA LeadingDef ==
    /\ Leading[0] = {m \in Moves : m[2] = end}
    /\ \A k \in 1 .. 16 : Leading[k] = Earlier(Leading[k - 1])
    /\ \A k \in 0 .. 16 : Leading[k] \subseteq Moves
<1> DEFINE First == {m \in Moves : m[2] = end}
<1>1. Leading = CHOOSE g : Layers(g, 16)
    BY DEF Leading, Layers, Earlier
<1>2. Layers(Leading, 16)
    BY <1>1, LayersExist
<1>3. Leading = [i \in 0 .. 16 |-> IF i = 0 THEN First ELSE Earlier(Leading[i - 1])]
    BY <1>2 DEF Layers
<1> HIDE DEF First
<1>4. Leading[0] = First /\ \A k \in 1 .. 16 : Leading[k] = Earlier(Leading[k - 1])
  <2>1. \A k \in 0 .. 16 : Leading[k] = IF k = 0 THEN First ELSE Earlier(Leading[k - 1])
    BY <1>3
  <2> QED
    BY <2>1
<1>5. \A k \in 0 .. 16 : Leading[k] \subseteq Moves
  <2> DEFINE T == {k \in 0 .. 16 : ~ (Leading[k] \subseteq Moves)}
  <2> SUFFICES ASSUME T # {} PROVE FALSE
    OBVIOUS
  <2>1. PICK k \in T : \A i \in T : k <= i
    <3>1. T \in SUBSET (0 .. 16) /\ 0 \in Int /\ 16 \in Int
      OBVIOUS
    <3> HIDE DEF T
    <3> QED
      BY <3>1, LowestNumber
  <2>2. k \in 0 .. 16 /\ ~ (Leading[k] \subseteq Moves)
    OBVIOUS
  <2>3. k # 0
    BY <1>4, <2>2 DEF First
  <2>4. k \in 1 .. 16 /\ k - 1 \in 0 .. 16 /\ ~ (k <= k - 1)
    BY <2>2, <2>3
  <2>5. Leading[k - 1] \subseteq Moves
    BY <2>1, <2>4
  <2>6. Leading[k] = Earlier(Leading[k - 1])
    BY <1>4, <2>4
  <2> QED
    BY <2>2, <2>5, <2>6 DEF Earlier
<1> QED
    BY <1>4, <1>5 DEF First

(* What Leading finds begins a walk.                                       *)
LEMMA LeadingWalks ==
    ASSUME end \in Sections
    PROVE  \A k \in 0 .. 16 : \A m \in Leading[k] : \E j \in Nat : Walks(m[1], m[2], j)
<1> DEFINE Walked(m) == \E j \in Nat : Walks(m[1], m[2], j)
           T == {k \in 0 .. 16 : ~ \A m \in Leading[k] : Walked(m)}
<1> SUFFICES ASSUME T # {} PROVE FALSE
    OBVIOUS
<1>1. PICK k \in T : \A i \in T : k <= i
  <2>1. T \in SUBSET (0 .. 16) /\ 0 \in Int /\ 16 \in Int
    OBVIOUS
  <2> HIDE DEF T
  <2> QED
    BY <2>1, LowestNumber
<1>2. k \in 0 .. 16 /\ ~ \A m \in Leading[k] : Walked(m)
    OBVIOUS
<1>3. PICK m \in Leading[k] : ~ Walked(m)
    BY <1>2
<1>4. \A i \in 0 .. 16 : i < k => \A x \in Leading[i] : Walked(x)
    BY <1>1, <1>2
<1> HIDE DEF T
<1>5. /\ m = <<m[1], m[2]>> /\ m[1] \in Sections /\ m[2] \in map_gate[m[1]] \cap Passable
  <2>1. m \in Moves
    BY <1>2, LeadingDef
  <2> QED
    BY <2>1 DEF Moves
<1>6. CASE k = 0
  <2>1. m[2] = end
    BY <1>3, <1>6, LeadingDef
  <2>2. Walks(m[1], m[2], 0)
    BY <1>5, <2>1, LastMove
  <2> QED
    BY <1>3, <2>2
<1>7. CASE k # 0
  <2>1. k \in 1 .. 16 /\ k - 1 \in 0 .. 16 /\ k - 1 < k
    BY <1>2, <1>7
  <2>2. m \in Earlier(Leading[k - 1]) /\ Leading[k - 1] \subseteq Moves
    BY <1>3, <2>1, LeadingDef
  <2>3. \A x \in Leading[k - 1] : Walked(x)
    BY <1>4, <2>1
  <2>4. PICK x \in Leading[k - 1] : /\ x[1] = m[2] /\ x[2] # m[1]
                                   /\ \A f \in Forced : f[1] = m[1] /\ f[2] = m[2] => f[3] = x[2]
    BY <1>3, <2>2, <2>3 DEF Earlier
  <2>5. x[2] \in map_gate[x[1]]
    BY <2>2 DEF Moves
  <2>6. Legal(m[1], m[2], x[2])
    BY <2>4, <2>5 DEF Legal
  <2>7. PICK j \in Nat : Walks(x[1], x[2], j)
    BY <2>3
  <2>8. Walks(m[1], m[2], j + 1) /\ j + 1 \in Nat
    BY <1>5, <2>4, <2>6, <2>7, MoveBefore
  <2> QED
    BY <1>3, <2>8
<1> QED
    BY <1>6, <1>7

(* In particular, when the train is told that there is no route, no move   *)
(* out of its section begins a walk that Leading finds backwards from the  *)
(* destination.                                                            *)
THEOREM NoWayCorrect == Spec => []NoWayMeansNone
<1>1. DriveInv => NoWayMeansNone
  <2> SUFFICES ASSUME DriveInv, next_segment = NoWay,
                      NEW m \in Leading[16], m[1] = start
               PROVE  FALSE
    BY DEF NoWayMeansNone
  <2>1. start \in Sections /\ end \in Sections /\ start # end
    BY Asked
  <2>2. PICK j \in Nat : Walks(m[1], m[2], j)
    BY <2>1, LeadingWalks
  <2>3. PICK w : Walk(w, j) /\ w[1] = start
    BY <2>2 DEF Walks
  <2> QED
    BY <2>1, <2>3, NoRoute, WalkedWay
<1> QED
    BY <1>1, DriveCorrect, PTL
=============================================================================

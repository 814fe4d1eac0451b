--------------------------- MODULE SchedulerProofs ---------------------------
(***************************************************************************)
(* Proofs about Scheduler for any number of levels, processes and queued   *)
(* swaps: typing, the linked lists of PCBs, the idle level, which process  *)
(* runs, and that the lists implement the lines of ReadyQueues.            *)
(***************************************************************************)
EXTENDS Scheduler, FiniteSetTheorems, SequenceTheorems, WellFoundedInduction, TLAPS

Nodes == Pids \cup {NULL}
Ends == [head : Nodes, tail : Nodes]
Pcb == [priority : Levels, next : Nodes, prev : Nodes, sp : Frames]

(* IsQueue for any queues q, PCBs b and set L of allocated processes: the  *)
(* list operations are about intermediate ones.                            *)
ReadyOf(b, L, l) == {p \in L : b[p].priority = l}
IsLine(q, b, L, l, n, s) ==
    /\ \A i \in 1 .. n : s[i] \in ReadyOf(b, L, l)
    /\ \A i, j \in 1 .. n : s[i] = s[j] => i = j
    /\ \A p \in ReadyOf(b, L, l) : \E i \in 1 .. n : s[i] = p
    /\ \A i \in 1 .. n : b[s[i]].prev = IF i = 1 THEN NULL ELSE s[i - 1]
    /\ \A i \in 1 .. n : b[s[i]].next = IF i = n THEN NULL ELSE s[i + 1]
    /\ q[l].head = IF n = 0 THEN NULL ELSE s[1]
    /\ q[l].tail = IF n = 0 THEN NULL ELSE s[n]
HasLine(q, b, L, l) == \E n \in Nat : \E s \in [1 .. n -> Pids] : IsLine(q, b, L, l, n, s)
Listed(q, b, L, l, s) == s \in Seq(Pids) /\ IsLine(q, b, L, l, Len(s), s)
WellLinked(q, b, L) == \A l \in Levels : HasLine(q, b, L, l)

(* A process that is not allocated, not yet or no more, is in no list and  *)
(* reads as an idle one.  Before the first SVC no swap is queued, and the  *)
(* process to run, if any, is allocated.                                   *)
Unallocated ==
    \A p \in Pids \ live : /\ pcb[p].priority = 0
                           /\ pcb[p].next = NULL /\ pcb[p].prev = NULL
BootQuiet == phase = "boot" => swaps = 0 /\ running \in live \cup {NULL}

Inductive ==
    /\ TypeOK /\ Unallocated /\ BootQuiet
    /\ WellLinked(ManagementOfQueues, pcb, live)

LEMMA NullFacts == /\ NULL \notin Pids /\ NULL \in Nodes /\ Pids \subseteq Nodes
                   /\ 0 \in Levels /\ Levels \subseteq Nat /\ Pids \subseteq Nat
                   /\ {NULL, "fresh", "stacked"} = Frames
BY SchedulerAssumption DEF Pids, Nodes, Levels, Frames

-----------------------------------------------------------------------------
(* The list operations, field by field.                                    *)

LEMMA LinkedFacts ==
    ASSUME NEW q \in [Levels -> Ends], NEW b \in [Pids -> Pcb], NEW p \in Pids, NEW l \in Levels,
           NEW r, r = Linked(q, b, p, l)
    PROVE  /\ r.queues \in [Levels -> Ends] /\ r.pcbs \in [Pids -> Pcb]
           /\ \A k \in Levels : k # l => r.queues[k] = q[k]
           /\ r.queues[l].tail = p
           /\ r.queues[l].head = IF q[l].head = NULL THEN p ELSE q[l].head
           /\ r.pcbs[p].next = NULL /\ r.pcbs[p].prev = q[l].tail
           /\ r.pcbs[p].priority = l /\ r.pcbs[p].sp = b[p].sp
           /\ \A x \in Pids : x # p =>
                /\ r.pcbs[x].priority = b[x].priority /\ r.pcbs[x].prev = b[x].prev
                /\ r.pcbs[x].sp = b[x].sp
                /\ r.pcbs[x].next = IF x = q[l].tail THEN p ELSE b[x].next
<1>1. PICK e : e = [head |-> IF q[l].head = NULL THEN p ELSE q[l].head, tail |-> p]
  OBVIOUS
<1>2. PICK c : c = [x \in Pids |->
                   IF x = p
                   THEN [b[x] EXCEPT !.next = NULL, !.prev = q[l].tail, !.priority = l]
                   ELSE IF x = q[l].tail THEN [b[x] EXCEPT !.next = p] ELSE b[x]]
  OBVIOUS
<1>3. r.queues = [q EXCEPT ![l] = e] /\ r.pcbs = c
  BY <1>1, <1>2 DEF Linked
<1>4. q[l].head \in Nodes /\ q[l].tail \in Nodes /\ p \in Nodes /\ NULL \in Nodes
  BY NullFacts DEF Ends, Nodes
<1>5. e \in Ends
  BY <1>1, <1>4 DEF Ends
<1>6. /\ r.queues \in [Levels -> Ends] /\ r.queues[l] = e
      /\ \A k \in Levels : k # l => r.queues[k] = q[k]
  BY <1>3, <1>5
<1>7. /\ r.queues[l].tail = p
      /\ r.queues[l].head = IF q[l].head = NULL THEN p ELSE q[l].head
  BY <1>1, <1>6
<1>8. ASSUME NEW x \in Pids
      PROVE  /\ b[x] = [priority |-> b[x].priority, next |-> b[x].next, prev |-> b[x].prev,
                        sp |-> b[x].sp]
             /\ b[x].priority \in Levels /\ b[x].next \in Nodes /\ b[x].prev \in Nodes
             /\ b[x].sp \in Frames /\ b[x] \in Pcb
  BY DEF Pcb
<1>9. /\ c[p] \in Pcb
      /\ c[p].next = NULL /\ c[p].prev = q[l].tail /\ c[p].priority = l /\ c[p].sp = b[p].sp
  <2>1. c[p] = [b[p] EXCEPT !.next = NULL, !.prev = q[l].tail, !.priority = l]
    BY <1>2
  <2>2. c[p] = [priority |-> l, next |-> NULL, prev |-> q[l].tail, sp |-> b[p].sp]
    BY <2>1, <1>8
  <2> QED
    BY <2>2, <1>4, <1>8 DEF Pcb
<1>10. ASSUME NEW x \in Pids, x # p
       PROVE  /\ c[x] \in Pcb
              /\ c[x].priority = b[x].priority /\ c[x].prev = b[x].prev /\ c[x].sp = b[x].sp
              /\ c[x].next = IF x = q[l].tail THEN p ELSE b[x].next
  <2>1. CASE x = q[l].tail
    <3>1. c[x] = [b[x] EXCEPT !.next = p]
      BY <2>1, <1>2, <1>10
    <3>2. c[x] = [priority |-> b[x].priority, next |-> p, prev |-> b[x].prev, sp |-> b[x].sp]
      BY <3>1, <1>8
    <3> QED
      BY <3>2, <2>1, <1>4, <1>8 DEF Pcb
  <2>2. CASE x # q[l].tail
    <3>1. c[x] = b[x]
      BY <2>2, <1>2, <1>10
    <3> QED
      BY <3>1, <2>2, <1>8
  <2> QED
    BY <2>1, <2>2
<1>11. c \in [Pids -> Pcb]
  <2>1. \A x \in Pids : c[x] \in Pcb
    BY <1>9, <1>10
  <2> QED
    BY <2>1, <1>2
<1> QED
  BY <1>3, <1>6, <1>7, <1>9, <1>10, <1>11

LEMMA UnlinkedFacts ==
    ASSUME NEW q \in [Levels -> Ends], NEW b \in [Pids -> Pcb], NEW p \in Pids,
           NEW before, before = b[p].prev, NEW after, after = b[p].next,
           NEW l, l = b[p].priority, before = after => before = NULL,
           NEW r, r = Unlinked(q, b, p)
    PROVE  /\ r.queues \in [Levels -> Ends] /\ r.pcbs \in [Pids -> Pcb]
           /\ \A k \in Levels : k # l => r.queues[k] = q[k]
           /\ r.queues[l].head = IF before = NULL THEN after ELSE q[l].head
           /\ r.queues[l].tail = IF after = NULL THEN before ELSE q[l].tail
           /\ \A x \in Pids :
                /\ r.pcbs[x].priority = b[x].priority /\ r.pcbs[x].sp = b[x].sp
                /\ r.pcbs[x].next = IF x = before THEN after ELSE b[x].next
                /\ r.pcbs[x].prev = IF x = after THEN before ELSE b[x].prev
<1> DEFINE e == [head |-> IF before = NULL THEN after ELSE q[l].head,
                 tail |-> IF after = NULL THEN before ELSE q[l].tail]
           c == [x \in Pids |->
                   CASE x = before -> [b[x] EXCEPT !.next = after]
                     [] x = after -> [b[x] EXCEPT !.prev = before]
                     [] OTHER -> b[x]]
<1>1. before \in Nodes /\ after \in Nodes /\ l \in Levels /\ NULL \in Nodes
  BY NullFacts DEF Pcb
<1>2. q[l].head \in Nodes /\ q[l].tail \in Nodes
  BY <1>1 DEF Ends
<1>3. r.queues = [q EXCEPT ![l] = e]
  BY DEF Unlinked
<1>4. e \in Ends
  BY <1>1, <1>2 DEF Ends
<1>5. /\ r.queues \in [Levels -> Ends] /\ r.queues[l] = e
      /\ \A k \in Levels : k # l => r.queues[k] = q[k]
  <2> HIDE DEF e
  <2> QED
    BY <1>1, <1>3, <1>4
<1>6. /\ r.queues[l].head = IF before = NULL THEN after ELSE q[l].head
      /\ r.queues[l].tail = IF after = NULL THEN before ELSE q[l].tail
  BY <1>5
<1>7. r.pcbs = [x \in Pids |->
                  CASE x = b[p].prev -> [b[x] EXCEPT !.next = b[p].next]
                    [] x = b[p].next -> [b[x] EXCEPT !.prev = b[p].prev]
                    [] OTHER -> b[x]]
  BY DEF Unlinked
<1>8. ASSUME NEW x \in Pids
      PROVE  /\ r.pcbs[x] \in Pcb
             /\ r.pcbs[x].priority = b[x].priority /\ r.pcbs[x].sp = b[x].sp
             /\ r.pcbs[x].next = IF x = before THEN after ELSE b[x].next
             /\ r.pcbs[x].prev = IF x = after THEN before ELSE b[x].prev
  <2>1. /\ b[x] = [priority |-> b[x].priority, next |-> b[x].next, prev |-> b[x].prev,
                   sp |-> b[x].sp]
        /\ b[x].priority \in Levels /\ b[x].next \in Nodes /\ b[x].prev \in Nodes
        /\ b[x].sp \in Frames /\ b[x] \in Pcb
    BY DEF Pcb
  <2>2. CASE x = before
    <3>0. x # after
      BY <2>2, NullFacts
    <3>1. r.pcbs[x] = [b[x] EXCEPT !.next = after]
      BY <2>2, <3>0, <1>7
    <3>2. r.pcbs[x] = [priority |-> b[x].priority, next |-> after, prev |-> b[x].prev, sp |-> b[x].sp]
      BY <3>1, <2>1
    <3> QED
      BY <3>0, <3>2, <2>1, <2>2, <1>1 DEF Pcb
  <2>3. CASE x # before /\ x = after
    <3>1. r.pcbs[x] = [b[x] EXCEPT !.prev = before]
      BY <2>3, <1>7
    <3>2. r.pcbs[x] = [priority |-> b[x].priority, next |-> b[x].next, prev |-> before, sp |-> b[x].sp]
      BY <3>1, <2>1
    <3> QED
      BY <3>2, <2>1, <2>3, <1>1 DEF Pcb
  <2>4. CASE x # before /\ x # after
    <3>1. r.pcbs[x] = b[x]
      BY <2>4, <1>7
    <3> QED
      BY <3>1, <2>1, <2>4
  <2> QED
    BY <2>2, <2>3, <2>4
<1>9. r.pcbs \in [Pids -> Pcb]
  BY <1>7, <1>8
<1> QED
  BY <1>5, <1>6, <1>8, <1>9

-----------------------------------------------------------------------------
(* Lines.                                                                  *)

LEMMA LineEnds ==
    ASSUME NEW q, NEW b, NEW L, NEW l, HasLine(q, b, L, l)
    PROVE  /\ q[l].head = NULL \/ q[l].head \in ReadyOf(b, L, l)
           /\ q[l].tail = NULL \/ q[l].tail \in ReadyOf(b, L, l)
           /\ NULL \notin L => (q[l].head = NULL <=> q[l].tail = NULL)
           /\ q[l].head = NULL /\ NULL \notin L => ReadyOf(b, L, l) = {}
<1>0. PICK n \in Nat : \E s \in [1 .. n -> Pids] : IsLine(q, b, L, l, n, s)
  BY DEF HasLine
<1>1. PICK s \in [1 .. n -> Pids] : IsLine(q, b, L, l, n, s)
  BY <1>0
<1>2. CASE n = 0
  <2>1. 1 .. n = {}
    BY <1>2
  <2> QED
    BY <1>1, <1>2, <2>1 DEF IsLine
<1>3. CASE n # 0
  <2>1. 1 \in 1 .. n /\ n \in 1 .. n
    BY <1>3
  <2>2. /\ q[l].head = s[1] /\ q[l].tail = s[n]
        /\ s[1] \in ReadyOf(b, L, l) /\ s[n] \in ReadyOf(b, L, l)
    BY <1>1, <1>3, <2>1 DEF IsLine
  <2> QED
    BY <2>2 DEF ReadyOf
<1> QED
  BY <1>2, <1>3

(* A line read as a sequence.                                              *)
LEMMA ListedLine ==
    ASSUME NEW q, NEW b, NEW L, NEW l, NEW s, Listed(q, b, L, l, s)
    PROVE  \E n \in Nat : /\ n = Len(s) /\ s \in [1 .. n -> Pids] /\ s \in Seq(Pids)
                          /\ IsLine(q, b, L, l, n, s)
BY LenProperties DEF Listed

LEMMA LineListed ==
    ASSUME NEW q, NEW b, NEW L, NEW l, NEW n \in Nat, NEW s \in [1 .. n -> Pids],
           IsLine(q, b, L, l, n, s)
    PROVE  Listed(q, b, L, l, s) /\ Len(s) = n
<1>1. s \in Seq(Pids) /\ Len(s) = n
  OBVIOUS
<1> QED
  BY <1>1 DEF Listed

LEMMA HasLineListed ==
    ASSUME NEW q, NEW b, NEW L, NEW l
    PROVE  HasLine(q, b, L, l) <=> \E s : Listed(q, b, L, l, s)
<1>1. ASSUME HasLine(q, b, L, l) PROVE \E s : Listed(q, b, L, l, s)
  <2>1. PICK n \in Nat : \E s \in [1 .. n -> Pids] : IsLine(q, b, L, l, n, s)
    BY <1>1 DEF HasLine
  <2>2. PICK s \in [1 .. n -> Pids] : IsLine(q, b, L, l, n, s)
    BY <2>1
  <2> QED
    BY <2>2, LineListed
<1>2. ASSUME NEW s, Listed(q, b, L, l, s) PROVE HasLine(q, b, L, l)
  BY <1>2, ListedLine DEF HasLine
<1> QED
  BY <1>1, <1>2

(* A level whose processes and list ends are left alone keeps its line.    *)
LEMMA LineUntouched ==
    ASSUME NEW q, NEW b, NEW L, NEW q2, NEW b2, NEW L2, NEW l, NEW s,
           Listed(q, b, L, l, s), q2[l] = q[l],
           ReadyOf(b2, L2, l) = ReadyOf(b, L, l),
           \A x \in ReadyOf(b, L, l) : b2[x].next = b[x].next /\ b2[x].prev = b[x].prev
    PROVE  Listed(q2, b2, L2, l, s)
<1>1. PICK n \in Nat : n = Len(s) /\ s \in Seq(Pids) /\ IsLine(q, b, L, l, n, s)
  BY ListedLine
<1>2. \A i \in 1 .. n : /\ s[i] \in ReadyOf(b, L, l)
                        /\ b2[s[i]].next = b[s[i]].next /\ b2[s[i]].prev = b[s[i]].prev
  BY <1>1 DEF IsLine
<1>3. IsLine(q2, b2, L2, l, n, s)
  BY <1>1, <1>2 DEF IsLine
<1> QED
  BY <1>1, <1>3 DEF Listed

(* Linking p at the end of level l puts it behind the line there, and the  *)
(* other levels keep their lines.                                          *)
LEMMA LinkedLine ==
    ASSUME NEW q \in [Levels -> Ends], NEW b \in [Pids -> Pcb], NEW L \in SUBSET Pids,
           NEW p \in Pids, p \notin L, NEW l \in Levels, WellLinked(q, b, L),
           NEW r, r = Linked(q, b, p, l),
           NEW c \in Levels, NEW line, Listed(q, b, L, c, line)
    PROVE  /\ c = l => Listed(r.queues, r.pcbs, L \cup {p}, l, Append(line, p))
           /\ c # l => Listed(r.queues, r.pcbs, L \cup {p}, c, line)
<1>1. PICK q2 : q2 = r.queues
  OBVIOUS
<1>2. PICK b2 : b2 = r.pcbs
  OBVIOUS
<1>3. PICK t : t = q[l].tail
  OBVIOUS
<1>4. /\ \A k \in Levels : k # l => q2[k] = q[k]
      /\ q2[l].tail = p /\ q2[l].head = IF q[l].head = NULL THEN p ELSE q[l].head
      /\ b2[p].next = NULL /\ b2[p].prev = t /\ b2[p].priority = l
      /\ \A x \in Pids : x # p => /\ b2[x].priority = b[x].priority /\ b2[x].prev = b[x].prev
                                  /\ b2[x].next = IF x = t THEN p ELSE b[x].next
  BY <1>1, <1>2, <1>3, LinkedFacts
<1>5. /\ ReadyOf(b2, L \cup {p}, l) = ReadyOf(b, L, l) \cup {p}
      /\ \A k \in Levels : k # l => ReadyOf(b2, L \cup {p}, k) = ReadyOf(b, L, k)
  BY <1>4 DEF ReadyOf
<1>6. t = NULL \/ t \in ReadyOf(b, L, l)
  BY <1>3, LineEnds DEF WellLinked
<1>7. CASE c # l
  <2>1. \A x \in ReadyOf(b, L, c) : x \in Pids /\ x # p /\ x # t
    BY <1>6, <1>7, NullFacts DEF ReadyOf
  <2>2. \A x \in ReadyOf(b, L, c) : b2[x].next = b[x].next /\ b2[x].prev = b[x].prev
    BY <2>1, <1>4
  <2>3. q2[c] = q[c] /\ ReadyOf(b2, L \cup {p}, c) = ReadyOf(b, L, c)
    BY <1>4, <1>5, <1>7
  <2>4. Listed(q2, b2, L \cup {p}, c, line)
    BY <2>2, <2>3, LineUntouched
  <2> QED
    BY <2>4, <1>1, <1>2, <1>7
<1>8. CASE c = l
  <2>0. PICK n \in Nat : /\ n = Len(line) /\ line \in [1 .. n -> Pids] /\ line \in Seq(Pids)
                         /\ IsLine(q, b, L, l, n, line)
    BY <1>8, ListedLine
  <2>1. PICK s \in [1 .. n -> Pids] : s = line /\ IsLine(q, b, L, l, n, s)
    BY <2>0
  <2>2. PICK m \in Nat : m = n + 1
    OBVIOUS
  <2>3. PICK u \in [1 .. m -> Pids] : /\ u = Append(line, p) /\ u[m] = p
                                      /\ \A i \in 1 .. n : u[i] = s[i]
    <3>1. PICK v : v = Append(line, p)
      OBVIOUS
    <3>2. /\ v \in Seq(Pids) /\ Len(v) = Len(line) + 1
          /\ \A i \in 1 .. Len(line) : v[i] = line[i]
          /\ v[Len(line) + 1] = p
      BY <3>1, <2>0, AppendProperties
    <3>3. Len(line) = n /\ n + 1 = m
      BY <2>0, <2>2
    <3>4. /\ Len(v) = m /\ v \in [1 .. Len(v) -> Pids]
          /\ \A i \in 1 .. n : v[i] = line[i]
          /\ v[m] = p
      BY <3>2, <3>3, LenProperties
    <3>5. v \in [1 .. m -> Pids]
      BY <3>4
    <3> QED
      BY <3>1, <3>4, <3>5, <2>1
  <2>4. /\ u \in [1 .. m -> Pids] /\ u[m] = p /\ m \in 1 .. m
        /\ \A i \in 1 .. n : u[i] = s[i] /\ i \in 1 .. m /\ i # m
        /\ \A i \in 1 .. m : i # m => i \in 1 .. n
    BY <2>2, <2>3
  <2>5. \A i \in 1 .. n : s[i] \in ReadyOf(b, L, l) /\ s[i] \in L /\ s[i] # p /\ s[i] \in Pids
    BY <2>1 DEF IsLine, ReadyOf
  <2>6. \A i \in 1 .. m : u[i] \in ReadyOf(b2, L \cup {p}, l)
    BY <2>4, <2>5, <1>5
  <2>7. \A i, j \in 1 .. m : u[i] = u[j] => i = j
    <3>1. \A i, j \in 1 .. n : s[i] = s[j] => i = j
      BY <2>1 DEF IsLine
    <3>2. \A i \in 1 .. n : u[i] # p
      BY <2>4, <2>5
    <3> TAKE i, j \in 1 .. m
    <3>3. CASE i = m \/ j = m
      BY <3>2, <3>3, <2>4
    <3>4. CASE i # m /\ j # m
      <4>1. i \in 1 .. n /\ j \in 1 .. n /\ u[i] = s[i] /\ u[j] = s[j]
        BY <3>4, <2>4
      <4> QED
        BY <4>1, <3>1
    <3> QED
      BY <3>3, <3>4
  <2>8. \A x \in ReadyOf(b2, L \cup {p}, l) : \E i \in 1 .. m : u[i] = x
    <3> TAKE x \in ReadyOf(b2, L \cup {p}, l)
    <3>1. x = p \/ \E i \in 1 .. n : s[i] = x
      BY <2>1, <1>5 DEF IsLine
    <3> QED
      BY <3>1, <2>4
  <2>9. /\ n = 0 => t = NULL /\ q[l].head = NULL
        /\ n # 0 => t = s[n] /\ q[l].head = s[1] /\ 1 \in 1 .. n /\ n \in 1 .. n
    BY <2>1, <1>3 DEF IsLine
  <2>10. \A i \in 1 .. m : b2[u[i]].prev = IF i = 1 THEN NULL ELSE u[i - 1]
    <3> TAKE i \in 1 .. m
    <3>1. CASE i = m /\ n = 0
      BY <3>1, <2>2, <2>4, <2>9, <1>4
    <3>2. CASE i = m /\ n # 0
      <4>1. i # 1 /\ i - 1 = n
        BY <3>2, <2>2
      <4> QED
        BY <4>1, <3>2, <2>4, <2>9, <1>4
    <3>3. CASE i # m
      <4>1. i \in 1 .. n /\ u[i] = s[i]
        BY <3>3, <2>4
      <4>2. b2[u[i]].prev = b[s[i]].prev
        BY <4>1, <2>5, <1>4
      <4>3. b[s[i]].prev = IF i = 1 THEN NULL ELSE s[i - 1]
        BY <4>1, <2>1 DEF IsLine
      <4>4. i # 1 => i - 1 \in 1 .. n /\ u[i - 1] = s[i - 1]
        BY <4>1, <2>4
      <4> QED
        BY <4>2, <4>3, <4>4
    <3> QED
      BY <3>1, <3>2, <3>3
  <2>11. \A i \in 1 .. m : b2[u[i]].next = IF i = m THEN NULL ELSE u[i + 1]
    <3> TAKE i \in 1 .. m
    <3>1. CASE i = m
      BY <3>1, <2>4, <1>4
    <3>2. CASE i # m /\ i = n
      <4>1. u[i] = t /\ u[i] \in Pids /\ u[i] # p /\ i + 1 = m
        BY <3>2, <2>2, <2>4, <2>5, <2>9
      <4>2. b2[u[i]].next = p
        BY <4>1, <1>4
      <4> QED
        BY <4>1, <4>2, <3>2, <2>4
    <3>3. CASE i # m /\ i # n
      <4>1. i \in 1 .. n /\ u[i] = s[i] /\ n \in 1 .. n /\ i + 1 \in 1 .. n
        BY <3>3, <2>2, <2>4
      <4>2. s[i] # t
        BY <4>1, <3>3, <2>1, <2>9 DEF IsLine
      <4>3. b2[u[i]].next = b[s[i]].next
        BY <4>1, <4>2, <2>5, <1>4
      <4>4. b[s[i]].next = s[i + 1]
        BY <4>1, <3>3, <2>1 DEF IsLine
      <4>5. u[i + 1] = s[i + 1]
        BY <4>1, <2>4
      <4> QED
        BY <4>3, <4>4, <4>5, <3>3
    <3> QED
      BY <3>1, <3>2, <3>3
  <2>12. q2[l].head = u[1] /\ q2[l].tail = u[m] /\ m # 0
    <3>1. CASE n = 0
      BY <3>1, <2>2, <2>4, <2>9, <1>4
    <3>2. CASE n # 0
      <4>1. s[1] # NULL /\ u[1] = s[1]
        BY <3>2, <2>4, <2>5, <2>9, NullFacts
      <4> QED
        BY <4>1, <3>2, <2>2, <2>4, <2>9, <1>4
    <3> QED
      BY <3>1, <3>2
  <2>13. IsLine(q2, b2, L \cup {p}, l, m, u)
    BY <2>6, <2>7, <2>8, <2>10, <2>11, <2>12 DEF IsLine
  <2>14. Listed(q2, b2, L \cup {p}, l, u)
    BY <2>13, LineListed
  <2> QED
    BY <2>3, <2>14, <1>1, <1>2, <1>8
<1> QED
  BY <1>7, <1>8

LEMMA LinkedLines ==
    ASSUME NEW q \in [Levels -> Ends], NEW b \in [Pids -> Pcb], NEW L \in SUBSET Pids,
           NEW p \in Pids, p \notin L, NEW l \in Levels, WellLinked(q, b, L),
           NEW r, r = Linked(q, b, p, l)
    PROVE  WellLinked(r.queues, r.pcbs, L \cup {p})
<1>1. ASSUME NEW c \in Levels PROVE HasLine(r.queues, r.pcbs, L \cup {p}, c)
  <2>1. PICK s : Listed(q, b, L, c, s)
    BY HasLineListed DEF WellLinked
  <2>2. \E u : Listed(r.queues, r.pcbs, L \cup {p}, c, u)
    BY <2>1, LinkedLine
  <2> QED
    BY <2>2, HasLineListed
<1> QED
  BY <1>1 DEF WellLinked

(* The neighbours of a listed process are listed at its level.             *)
LEMMA LineNeighbours ==
    ASSUME NEW q, NEW b, NEW L \in SUBSET Pids, NEW l, HasLine(q, b, L, l),
           NEW p \in ReadyOf(b, L, l)
    PROVE  /\ b[p].prev = NULL \/ b[p].prev \in ReadyOf(b, L, l)
           /\ b[p].next = NULL \/ b[p].next \in ReadyOf(b, L, l)
           /\ b[p].prev = b[p].next => b[p].prev = NULL
           /\ q[l].head # NULL
<1>0. PICK n \in Nat : \E s \in [1 .. n -> Pids] : IsLine(q, b, L, l, n, s)
  BY DEF HasLine
<1>1. PICK s \in [1 .. n -> Pids] : IsLine(q, b, L, l, n, s)
  BY <1>0
<1>2. PICK k \in 1 .. n : s[k] = p
  BY <1>1 DEF IsLine
<1>3. /\ b[p].prev = IF k = 1 THEN NULL ELSE s[k - 1]
      /\ b[p].next = IF k = n THEN NULL ELSE s[k + 1]
      /\ q[l].head = s[1] /\ 1 \in 1 .. n
  <2>1. n # 0 /\ 1 \in 1 .. n
    OBVIOUS
  <2>2. q[l].head = s[1]
    BY <1>1, <2>1 DEF IsLine
  <2>3. b[s[k]].prev = IF k = 1 THEN NULL ELSE s[k - 1]
    BY <1>1 DEF IsLine
  <2>4. b[s[k]].next = IF k = n THEN NULL ELSE s[k + 1]
    BY <1>1 DEF IsLine
  <2> QED
    BY <1>2, <2>1, <2>2, <2>3, <2>4
<1>4. /\ k # 1 => k - 1 \in 1 .. n
      /\ k # n => k + 1 \in 1 .. n
      /\ k - 1 # k + 1
  OBVIOUS
<1>5. \A i \in 1 .. n : s[i] \in ReadyOf(b, L, l) /\ s[i] # NULL
  BY <1>1, NullFacts DEF IsLine
<1>6. k # 1 /\ k # n => s[k - 1] # s[k + 1]
  BY <1>1, <1>4 DEF IsLine
<1> QED
  BY <1>3, <1>4, <1>5, <1>6

(* What is left of a sequence without its element k.                       *)
LEMMA Removed ==
    ASSUME NEW s \in Seq(Pids), NEW n \in Nat, n = Len(s), NEW k \in 1 .. n,
           NEW m \in Nat, m = n - 1, NEW t, t = Queues!RemoveAt(s, k)
    PROVE  /\ t \in [1 .. m -> Pids]
           /\ \A i \in 1 .. m : t[i] = IF i < k THEN s[i] ELSE s[i + 1]
<1>1. PICK a : a = SubSeq(s, 1, k - 1)
  OBVIOUS
<1>2. PICK c : c = SubSeq(s, k + 1, n)
  OBVIOUS
<1>3. \A i \in 1 .. n : s[i] \in Pids
  BY LenProperties
<1>4. /\ a \in Seq(Pids) /\ Len(a) = k - 1
      /\ \A i \in 1 .. k - 1 : a[i] = s[i]
  <2>1. 1 \in Int /\ k - 1 \in Int /\ \A i \in 1 .. k - 1 : s[i] \in Pids
    BY <1>3
  <2>2. /\ a \in Seq(Pids) /\ Len(a) = IF 1 <= k - 1 THEN (k - 1) - 1 + 1 ELSE 0
        /\ \A i \in 1 .. (k - 1) - 1 + 1 : a[i] = s[1 + i - 1]
    BY <1>1, <2>1, SubSeqProperties
  <2> QED
    BY <2>2
<1>5. /\ c \in Seq(Pids) /\ Len(c) = n - k
      /\ \A i \in 1 .. n - k : c[i] = s[k + i]
  <2>1. k + 1 \in Int /\ n \in Int /\ \A i \in k + 1 .. n : s[i] \in Pids
    BY <1>3
  <2>2. /\ c \in Seq(Pids) /\ Len(c) = IF k + 1 <= n THEN n - (k + 1) + 1 ELSE 0
        /\ \A i \in 1 .. n - (k + 1) + 1 : c[i] = s[(k + 1) + i - 1]
    BY <1>2, <2>1, SubSeqProperties
  <2>3. Len(c) = n - k
    BY <2>2
  <2>4. ASSUME NEW i \in 1 .. n - k PROVE c[i] = s[k + i]
    <3>1. i \in 1 .. n - (k + 1) + 1 /\ (k + 1) + i - 1 = k + i
      OBVIOUS
    <3>2. c[i] = s[(k + 1) + i - 1]
      BY <2>2, <3>1
    <3> QED
      BY <3>1, <3>2
  <2> QED
    BY <2>2, <2>3, <2>4
<1>6. t = a \o c
  BY <1>1, <1>2 DEF Queues!RemoveAt
<1>7. /\ a \o c \in Seq(Pids) /\ Len(a \o c) = Len(a) + Len(c)
      /\ \A i \in 1 .. Len(a) + Len(c) :
           (a \o c)[i] = IF i <= Len(a) THEN a[i] ELSE c[i - Len(a)]
  BY <1>4, <1>5, ConcatProperties
<1>8. /\ t \in Seq(Pids) /\ Len(t) = m
      /\ \A i \in 1 .. m : t[i] = IF i <= k - 1 THEN a[i] ELSE c[i - (k - 1)]
  <2>1. Len(a) = k - 1 /\ Len(c) = n - k /\ Len(a) + Len(c) = m
    BY <1>4, <1>5
  <2>2. /\ t \in Seq(Pids) /\ Len(t) = m
        /\ \A i \in 1 .. m : t[i] = IF i <= Len(a) THEN a[i] ELSE c[i - Len(a)]
    BY <1>6, <1>7, <2>1
  <2> QED
    BY <2>1, <2>2
<1>9. t \in [1 .. m -> Pids]
  BY <1>8, LenProperties
<1>10. ASSUME NEW i \in 1 .. m PROVE t[i] = IF i < k THEN s[i] ELSE s[i + 1]
  <2>1. CASE i < k
    BY <2>1, <1>4, <1>8
  <2>2. CASE ~ (i < k)
    <3>1. i - (k - 1) \in 1 .. n - k /\ k + (i - (k - 1)) = i + 1 /\ ~ (i <= k - 1)
      BY <2>2
    <3>2. c[i - (k - 1)] = s[k + (i - (k - 1))]
      BY <3>1, <1>5
    <3> QED
      BY <2>2, <3>1, <3>2, <1>8
  <2> QED
    BY <2>1, <2>2
<1> QED
  BY <1>9, <1>10

(* Unlinking p closes the gap it leaves in its line, at place k.           *)
LEMMA UnlinkedLine ==
    ASSUME NEW q \in [Levels -> Ends], NEW b \in [Pids -> Pcb], NEW L \in SUBSET Pids,
           NEW p \in L, WellLinked(q, b, L),
           NEW r, r = Unlinked(q, b, p),
           NEW l \in Levels, p \in ReadyOf(b, L, l), NEW line, Listed(q, b, L, l, line),
           NEW place \in DOMAIN line, line[place] = p
    PROVE  Listed(r.queues, r.pcbs, L \ {p}, l, Queues!RemoveAt(line, place))
<1>1. PICK q2 : q2 = r.queues
  OBVIOUS
<1>2. PICK b2 : b2 = r.pcbs
  OBVIOUS
<1>3. PICK before : before = b[p].prev
  OBVIOUS
<1>4. PICK after : after = b[p].next
  OBVIOUS
<1>5. l = b[p].priority
  BY DEF ReadyOf
<1>6. p \in ReadyOf(b, L, l) /\ HasLine(q, b, L, l) /\ p \in Pids
  BY DEF WellLinked
<1>7. /\ before = NULL \/ before \in ReadyOf(b, L, l)
      /\ after = NULL \/ after \in ReadyOf(b, L, l)
      /\ before = after => before = NULL
  BY <1>3, <1>4, <1>6, LineNeighbours
<1>8. /\ \A k \in Levels : k # l => q2[k] = q[k]
      /\ q2[l].head = IF before = NULL THEN after ELSE q[l].head
      /\ q2[l].tail = IF after = NULL THEN before ELSE q[l].tail
      /\ \A x \in Pids : /\ b2[x].priority = b[x].priority
                         /\ b2[x].next = IF x = before THEN after ELSE b[x].next
                         /\ b2[x].prev = IF x = after THEN before ELSE b[x].prev
  BY <1>1, <1>2, <1>3, <1>4, <1>5, <1>6, <1>7, UnlinkedFacts
<1>9. /\ ReadyOf(b2, L \ {p}, l) = ReadyOf(b, L, l) \ {p}
      /\ \A k \in Levels : k # l => ReadyOf(b2, L \ {p}, k) = ReadyOf(b, L, k)
  BY <1>5, <1>8 DEF ReadyOf
<1>10. Listed(q2, b2, L \ {p}, l, Queues!RemoveAt(line, place))
  <2>0. PICK n \in Nat : /\ n = Len(line) /\ line \in [1 .. n -> Pids] /\ line \in Seq(Pids)
                         /\ IsLine(q, b, L, l, n, line)
    BY ListedLine
  <2>1. PICK s \in [1 .. n -> Pids] : s = line /\ IsLine(q, b, L, l, n, s)
    BY <2>0
  <2>2. PICK k \in 1 .. n : k = place /\ s[k] = p
    BY <2>0, <2>1
  <2>3. PICK m \in Nat : m = n - 1
    OBVIOUS
  <2>4. PICK o : o = [i \in 1 .. m |-> IF i < k THEN i ELSE i + 1]
    OBVIOUS
  <2>5. /\ \A i \in 1 .. m : /\ i < k => o[i] = i
                             /\ i >= k => o[i] = i + 1
                             /\ o[i] \in 1 .. n /\ o[i] # k
        /\ \A i, j \in 1 .. m : o[i] = o[j] => i = j
        /\ \A j \in 1 .. n : j # k => \E i \in 1 .. m : o[i] = j
    <3>1. \A i \in 1 .. m : /\ i < k => o[i] = i
                            /\ i >= k => o[i] = i + 1
                            /\ o[i] \in 1 .. n /\ o[i] # k
      BY <2>3, <2>4
    <3>2. \A i, j \in 1 .. m : o[i] = o[j] => i = j
      BY <3>1
    <3>3. ASSUME NEW j \in 1 .. n, j # k PROVE \E i \in 1 .. m : o[i] = j
      <4>1. CASE j < k
        <5>1. j \in 1 .. m
          BY <4>1, <2>3
        <5> QED
          BY <4>1, <5>1, <3>1
      <4>2. CASE j > k
        <5>1. j - 1 \in 1 .. m /\ j - 1 >= k
          BY <4>2, <2>3
        <5>2. o[j - 1] = j
          BY <5>1, <3>1
        <5> QED
          BY <5>1, <5>2
      <4> QED
        BY <3>3, <4>1, <4>2
    <3> QED
      BY <3>1, <3>2, <3>3
  <2>6. PICK t \in [1 .. m -> Pids] :
           /\ t = Queues!RemoveAt(line, place)
           /\ \A i \in 1 .. m : t[i] = IF i < k THEN s[i] ELSE s[i + 1]
    <3>1. PICK u : u = Queues!RemoveAt(line, place)
      OBVIOUS
    <3>2. u \in [1 .. m -> Pids] /\ \A i \in 1 .. m : u[i] = IF i < k THEN s[i] ELSE s[i + 1]
      BY <3>1, <2>0, <2>1, <2>2, <2>3, Removed
    <3> QED
      BY <3>1, <3>2
  <2>7. \A i \in 1 .. m : t[i] = s[o[i]]
    BY <2>5, <2>6
  <2>8. /\ \A i \in 1 .. n : s[i] \in ReadyOf(b, L, l) /\ s[i] \in Pids /\ s[i] # NULL
        /\ \A i, j \in 1 .. n : s[i] = s[j] => i = j
        /\ before = IF k = 1 THEN NULL ELSE s[k - 1]
        /\ after = IF k = n THEN NULL ELSE s[k + 1]
        /\ q[l].head = s[1] /\ q[l].tail = s[n] /\ 1 \in 1 .. n /\ n \in 1 .. n
        /\ k # 1 => k - 1 \in 1 .. n
        /\ k # n => k + 1 \in 1 .. n
    BY <2>1, <2>2, <1>3, <1>4, NullFacts DEF IsLine
  <2>9. \A i \in 1 .. m : t[i] \in ReadyOf(b2, L \ {p}, l)
    <3> TAKE i \in 1 .. m
    <3>1. t[i] = s[o[i]] /\ o[i] \in 1 .. n /\ o[i] # k
      BY <2>5, <2>7
    <3>2. s[o[i]] \in ReadyOf(b, L, l) /\ s[o[i]] # p
      BY <3>1, <2>2, <2>8
    <3> QED
      BY <3>1, <3>2, <1>9
  <2>10. \A i, j \in 1 .. m : t[i] = t[j] => i = j
    <3> TAKE i, j \in 1 .. m
    <3>1. t[i] = s[o[i]] /\ o[i] \in 1 .. n /\ t[j] = s[o[j]] /\ o[j] \in 1 .. n
      BY <2>5, <2>7
    <3>2. o[i] = o[j] => i = j
      BY <2>5
    <3> QED
      BY <3>1, <3>2, <2>8
  <2>11. \A x \in ReadyOf(b2, L \ {p}, l) : \E i \in 1 .. m : t[i] = x
    <3> TAKE x \in ReadyOf(b2, L \ {p}, l)
    <3>1. PICK j \in 1 .. n : s[j] = x
      BY <2>1, <1>9 DEF IsLine
    <3>2. j # k
      BY <3>1, <2>2, <1>9
    <3>3. PICK i \in 1 .. m : o[i] = j
      BY <3>2, <2>5
    <3> QED
      BY <3>1, <3>3, <2>7
  <2>12. \A i \in 1 .. m : b2[t[i]].prev = IF i = 1 THEN NULL ELSE t[i - 1]
    <3> TAKE i \in 1 .. m
    <3>1. b2[t[i]].prev = IF t[i] = after THEN before ELSE b[t[i]].prev
      BY <1>8, <2>7
    <3>2. b[t[i]].prev = IF o[i] = 1 THEN NULL ELSE s[o[i] - 1]
      <4>1. o[i] \in 1 .. n /\ t[i] = s[o[i]]
        BY <2>5, <2>7
      <4>2. b[s[o[i]]].prev = IF o[i] = 1 THEN NULL ELSE s[o[i] - 1]
        BY <4>1, <2>1 DEF IsLine
      <4> QED
        BY <4>1, <4>2
    <3>3. i # 1 => i - 1 \in 1 .. m /\ t[i - 1] = s[o[i - 1]]
      BY <2>7
    <3>4. CASE i < k
      <4>1. o[i] = i /\ o[i] # k + 1
        BY <3>4, <2>5
      <4>2. t[i] # after
        BY <4>1, <2>5, <2>7, <2>8
      <4>3. i # 1 => o[i - 1] = i - 1
        BY <3>3, <3>4, <2>5
      <4> QED
        BY <3>1, <3>2, <3>3, <4>1, <4>2, <4>3
    <3>5. CASE i = k
      <4>1. o[i] = k + 1 /\ k # n /\ t[i] = after
        <5>1. o[i] = k + 1 /\ k # n
          BY <3>5, <2>3, <2>5
        <5>2. t[i] = s[k + 1]
          BY <5>1, <2>7
        <5> QED
          BY <5>1, <5>2, <2>8
      <4>2. i # 1 => o[i - 1] = k - 1
        BY <3>3, <3>5, <2>5
      <4> QED
        BY <3>1, <3>3, <3>5, <4>1, <4>2, <2>8
    <3>6. CASE i > k
      <4>1. o[i] = i + 1 /\ o[i] # k + 1 /\ i # 1
        BY <3>6, <2>5
      <4>2. t[i] # after
        BY <4>1, <2>5, <2>7, <2>8
      <4>3. o[i - 1] = i /\ o[i] - 1 = i /\ o[i] # 1
        BY <4>1, <3>3, <3>6, <2>5
      <4> QED
        BY <3>1, <3>2, <3>3, <4>1, <4>2, <4>3
    <3> QED
      BY <3>4, <3>5, <3>6
  <2>13. \A i \in 1 .. m : b2[t[i]].next = IF i = m THEN NULL ELSE t[i + 1]
    <3> TAKE i \in 1 .. m
    <3>1. b2[t[i]].next = IF t[i] = before THEN after ELSE b[t[i]].next
      BY <1>8, <2>7
    <3>2. b[t[i]].next = IF o[i] = n THEN NULL ELSE s[o[i] + 1]
      <4>1. o[i] \in 1 .. n /\ t[i] = s[o[i]]
        BY <2>5, <2>7
      <4>2. b[s[o[i]]].next = IF o[i] = n THEN NULL ELSE s[o[i] + 1]
        BY <4>1, <2>1 DEF IsLine
      <4> QED
        BY <4>1, <4>2
    <3>3. i # m => i + 1 \in 1 .. m /\ t[i + 1] = s[o[i + 1]]
      BY <2>7
    <3>4. CASE i < k - 1
      <4>1. o[i] = i /\ o[i] # k - 1 /\ i # m /\ o[i] # n
        BY <3>4, <2>3, <2>5
      <4>2. t[i] # before
        BY <4>1, <2>5, <2>7, <2>8
      <4>3. o[i + 1] = i + 1
        BY <4>1, <3>3, <3>4, <2>5
      <4> QED
        BY <3>1, <3>2, <3>3, <4>1, <4>2, <4>3
    <3>5. CASE i = k - 1
      <4>1. o[i] = k - 1 /\ k # 1 /\ t[i] = before
        BY <3>5, <2>3, <2>5, <2>7, <2>8
      <4>2. i # m => o[i + 1] = k + 1 /\ k # n
        BY <3>3, <3>5, <2>3, <2>5
      <4>3. i = m => k = n
        BY <3>5, <2>3
      <4> QED
        BY <3>1, <3>3, <3>5, <4>1, <4>2, <4>3, <2>8
    <3>6. CASE i >= k
      <4>1. o[i] = i + 1 /\ o[i] # k - 1
        BY <3>6, <2>5
      <4>2. t[i] # before
        BY <4>1, <2>5, <2>7, <2>8
      <4>3. i # m => o[i + 1] = i + 2 /\ o[i] # n
        BY <4>1, <3>3, <3>6, <2>3, <2>5
      <4>4. i = m => o[i] = n
        BY <4>1, <2>3
      <4> QED
        BY <3>1, <3>2, <3>3, <4>1, <4>2, <4>3, <4>4
    <3> QED
      BY <3>4, <3>5, <3>6
  <2>14. q2[l].head = IF m = 0 THEN NULL ELSE t[1]
    <3>1. m # 0 => 1 \in 1 .. m
      BY <2>3
    <3>2. CASE k = 1
      <4>1. m # 0 => k # n /\ o[1] = 2
        BY <3>1, <3>2, <2>3, <2>5
      <4>2. m = 0 => k = n
        BY <3>2, <2>3
      <4>3. q2[l].head = after
        BY <3>2, <1>8, <2>8
      <4>4. m # 0 => after = t[1]
        <5>1. m # 0 => t[1] = s[o[1]]
          BY <3>1, <2>7
        <5>2. m # 0 => after = s[k + 1] /\ k + 1 = o[1]
          BY <4>1, <3>2, <2>8
        <5> QED
          BY <5>1, <5>2
      <4>5. m = 0 => after = NULL
        BY <4>2, <2>8
      <4> QED
        BY <4>3, <4>4, <4>5
    <3>3. CASE k # 1
      <4>1. m # 0 /\ o[1] = 1
        BY <3>1, <3>3, <2>3, <2>5
      <4> QED
        BY <4>1, <3>1, <3>3, <1>8, <2>7, <2>8
    <3> QED
      BY <3>2, <3>3
  <2>15. q2[l].tail = IF m = 0 THEN NULL ELSE t[m]
    <3>1. m # 0 => m \in 1 .. m
      BY <2>3
    <3>2. CASE k = n
      <4>1. m # 0 => k # 1 /\ o[m] = m /\ k - 1 = m
        BY <3>1, <3>2, <2>3, <2>5
      <4>2. m = 0 => k = 1
        BY <3>2, <2>3
      <4>3. q2[l].tail = before
        BY <3>2, <1>8, <2>8
      <4>4. m # 0 => before = t[m]
        <5>1. m # 0 => t[m] = s[o[m]]
          BY <3>1, <2>7
        <5>2. m # 0 => before = s[k - 1] /\ k - 1 = o[m]
          BY <4>1, <2>8
        <5> QED
          BY <5>1, <5>2
      <4>5. m = 0 => before = NULL
        BY <4>2, <2>8
      <4> QED
        BY <4>3, <4>4, <4>5
    <3>3. CASE k # n
      <4>1. m # 0 /\ m >= k
        BY <3>3, <2>3
      <4>2. o[m] = n
        BY <4>1, <3>1, <2>3, <2>5
      <4> QED
        BY <4>1, <4>2, <3>1, <3>3, <1>8, <2>7, <2>8
    <3> QED
      BY <3>2, <3>3
  <2>16. IsLine(q2, b2, L \ {p}, l, m, t)
    BY <2>9, <2>10, <2>11, <2>12, <2>13, <2>14, <2>15 DEF IsLine
  <2> QED
    BY <2>6, <2>16, LineListed
<1> QED
  BY <1>1, <1>2, <1>10

(* Unlinking p leaves the lines of other levels alone.                     *)
LEMMA UnlinkedOthers ==
    ASSUME NEW q \in [Levels -> Ends], NEW b \in [Pids -> Pcb], NEW L \in SUBSET Pids,
           NEW p \in L, WellLinked(q, b, L),
           NEW r, r = Unlinked(q, b, p),
           NEW c \in Levels, p \notin ReadyOf(b, L, c), NEW s, Listed(q, b, L, c, s)
    PROVE  Listed(r.queues, r.pcbs, L \ {p}, c, s)
<1>1. PICK q2 : q2 = r.queues
  OBVIOUS
<1>2. PICK b2 : b2 = r.pcbs
  OBVIOUS
<1>3. PICK before : before = b[p].prev
  OBVIOUS
<1>4. PICK after : after = b[p].next
  OBVIOUS
<1>5. PICK l \in Levels : l = b[p].priority
  BY DEF Pcb
<1>6. p \in ReadyOf(b, L, l) /\ HasLine(q, b, L, l) /\ p \in Pids
  BY <1>5 DEF ReadyOf, WellLinked
<1>7. /\ before = NULL \/ before \in ReadyOf(b, L, l)
      /\ after = NULL \/ after \in ReadyOf(b, L, l)
      /\ before = after => before = NULL
  BY <1>3, <1>4, <1>6, LineNeighbours
<1>8. /\ \A k \in Levels : k # l => q2[k] = q[k]
      /\ q2[l].head = IF before = NULL THEN after ELSE q[l].head
      /\ q2[l].tail = IF after = NULL THEN before ELSE q[l].tail
      /\ \A x \in Pids : /\ b2[x].priority = b[x].priority
                         /\ b2[x].next = IF x = before THEN after ELSE b[x].next
                         /\ b2[x].prev = IF x = after THEN before ELSE b[x].prev
  BY <1>1, <1>2, <1>3, <1>4, <1>5, <1>6, <1>7, UnlinkedFacts
<1>9. /\ ReadyOf(b2, L \ {p}, l) = ReadyOf(b, L, l) \ {p}
      /\ \A k \in Levels : k # l => ReadyOf(b2, L \ {p}, k) = ReadyOf(b, L, k)
  BY <1>5, <1>8 DEF ReadyOf
<1>10. c # l
  BY <1>6 
<1>11. \A x \in ReadyOf(b, L, c) : x \in Pids /\ x # before /\ x # after
  BY <1>5, <1>7, <1>10, NullFacts DEF ReadyOf
<1>12. \A x \in ReadyOf(b, L, c) : b2[x].next = b[x].next /\ b2[x].prev = b[x].prev
  BY <1>8, <1>11
<1>13. q2[c] = q[c] /\ ReadyOf(b2, L \ {p}, c) = ReadyOf(b, L, c)
  BY <1>8, <1>9, <1>10
<1>14. Listed(q2, b2, L \ {p}, c, s)
  BY <1>12, <1>13, LineUntouched
<1> QED
  BY <1>1, <1>2, <1>14

LEMMA UnlinkedLines ==
    ASSUME NEW q \in [Levels -> Ends], NEW b \in [Pids -> Pcb], NEW L \in SUBSET Pids,
           NEW p \in L, WellLinked(q, b, L),
           NEW r, r = Unlinked(q, b, p)
    PROVE  WellLinked(r.queues, r.pcbs, L \ {p})
<1>1. ASSUME NEW c \in Levels PROVE HasLine(r.queues, r.pcbs, L \ {p}, c)
  <2>1. PICK s : Listed(q, b, L, c, s)
    BY HasLineListed DEF WellLinked
  <2>2. CASE p \in ReadyOf(b, L, c)
    <3>1. PICK k \in DOMAIN s : s[k] = p
      <4>1. PICK n \in Nat : s \in [1 .. n -> Pids] /\ IsLine(q, b, L, c, n, s)
        BY <2>1, ListedLine
      <4> QED
        BY <4>1, <2>2 DEF IsLine
    <3>2. Listed(r.queues, r.pcbs, L \ {p}, c, Queues!RemoveAt(s, k))
      BY <2>1, <2>2, <3>1, UnlinkedLine
    <3> QED
      BY <3>2, HasLineListed
  <2>3. CASE p \notin ReadyOf(b, L, c)
    <3>1. Listed(r.queues, r.pcbs, L \ {p}, c, s)
      BY <2>1, <2>3, UnlinkedOthers
    <3> QED
      BY <3>1, HasLineListed
  <2> QED
    BY <2>2, <2>3
<1> QED
  BY <1>1 DEF WellLinked

(* A frame address is no part of the lists.                                *)
LEMMA FrameSet ==
    ASSUME NEW b \in [Pids -> Pcb], NEW p \in Pids, NEW f \in Frames,
           NEW c, c = [b EXCEPT ![p].sp = f]
    PROVE  /\ c \in [Pids -> Pcb] /\ c[p].sp = f
           /\ \A x \in Pids : /\ c[x].priority = b[x].priority
                              /\ c[x].next = b[x].next /\ c[x].prev = b[x].prev
                              /\ x # p => c[x].sp = b[x].sp
<1>1. PICK e : e = [b[p] EXCEPT !.sp = f]
  OBVIOUS
<1>2. c = [b EXCEPT ![p] = e]
  BY <1>1
<1>3. b[p] = [priority |-> b[p].priority, next |-> b[p].next, prev |-> b[p].prev, sp |-> b[p].sp]
  BY DEF Pcb
<1>4. e = [priority |-> b[p].priority, next |-> b[p].next, prev |-> b[p].prev, sp |-> f]
  BY <1>1, <1>3
<1>5. e \in Pcb
  BY <1>4 DEF Pcb
<1>6. c \in [Pids -> Pcb] /\ c[p] = e /\ \A x \in Pids : x # p => c[x] = b[x]
  BY <1>2, <1>5
<1>7. /\ e.priority = b[p].priority /\ e.next = b[p].next /\ e.prev = b[p].prev
      /\ e.sp = f
  BY <1>4
<1>8. ASSUME NEW x \in Pids
      PROVE  /\ c[x].priority = b[x].priority
             /\ c[x].next = b[x].next /\ c[x].prev = b[x].prev
             /\ x # p => c[x].sp = b[x].sp
  BY <1>6, <1>7
<1> QED
  BY <1>6, <1>7, <1>8

LEMMA FrameLines ==
    ASSUME NEW q, NEW b, NEW c, NEW L \in SUBSET Pids, WellLinked(q, b, L),
           \A x \in Pids : /\ c[x].priority = b[x].priority
                           /\ c[x].next = b[x].next /\ c[x].prev = b[x].prev
    PROVE  WellLinked(q, c, L)
<1>1. ASSUME NEW l \in Levels PROVE HasLine(q, c, L, l)
  <2>1. ReadyOf(c, L, l) = ReadyOf(b, L, l)
    BY DEF ReadyOf
  <2>2. PICK n \in Nat : \E s \in [1 .. n -> Pids] : IsLine(q, b, L, l, n, s)
    BY DEF WellLinked, HasLine
  <2>3. PICK s \in [1 .. n -> Pids] : IsLine(q, b, L, l, n, s)
    BY <2>2
  <2>4. \A i \in 1 .. n : c[s[i]].next = b[s[i]].next /\ c[s[i]].prev = b[s[i]].prev
    OBVIOUS
  <2>5. IsLine(q, c, L, l, n, s)
    BY <2>1, <2>3, <2>4 DEF IsLine
  <2> QED
    BY <2>5 DEF HasLine
<1> QED
  BY <1>1 DEF WellLinked

(* Moving the running process.                                             *)
LEMMA Moved ==
    ASSUME Inductive, running \in Pids, NEW target, move_Pcb(target)
    PROVE  /\ ManagementOfQueues' \in [Levels -> Ends] /\ pcb' \in [Pids -> Pcb]
           /\ WellLinked(ManagementOfQueues', pcb', live)
           /\ Movable(target) => running \in live
           /\ pcb'[running].priority = IF Movable(target) THEN target
                                                          ELSE pcb[running].priority
           /\ \A x \in Pids : /\ pcb'[x].sp = pcb[x].sp
                              /\ x # running => pcb'[x].priority = pcb[x].priority
                              /\ x \notin live => /\ pcb'[x].next = pcb[x].next
                                                  /\ pcb'[x].prev = pcb[x].prev
<1>1. /\ ManagementOfQueues \in [Levels -> Ends] /\ pcb \in [Pids -> Pcb]
      /\ live \in SUBSET Pids /\ WellLinked(ManagementOfQueues, pcb, live)
  BY SchedulerAssumption DEF Inductive, TypeOK, Ends, Pcb, Nodes, Pids
<1>2. CASE ~Movable(target)
  BY <1>1, <1>2 DEF move_Pcb
<1>3. CASE Movable(target)
  <2>1. running \in live /\ target \in Levels
    <3>1. target \in Levels /\ pcb[running].priority # 0
      BY <1>3 DEF Movable
    <3>2. running \in Pids \ live => pcb[running].priority = 0
      BY DEF Inductive, Unallocated
    <3> QED
      BY <3>1, <3>2
  <2>2. PICK out : out = Unlinked(ManagementOfQueues, pcb, running)
    OBVIOUS
  <2>3. PICK in : in = Linked(out.queues, out.pcbs, running, target)
    OBVIOUS
  <2>4. ManagementOfQueues' = in.queues /\ pcb' = in.pcbs
    BY <1>3, <2>2, <2>3 DEF move_Pcb
  <2>5. PICK before : before = pcb[running].prev
    OBVIOUS
  <2>6. PICK after : after = pcb[running].next
    OBVIOUS
  <2>7. /\ before = NULL \/ before \in live
        /\ after = NULL \/ after \in live
        /\ before = after => before = NULL
    <3>1. PICK l \in Levels : l = pcb[running].priority
      BY <1>1 DEF Pcb
    <3>2. running \in ReadyOf(pcb, live, l) /\ HasLine(ManagementOfQueues, pcb, live, l)
      BY <1>1, <2>1, <3>1 DEF ReadyOf, WellLinked
    <3>3. /\ before = NULL \/ before \in ReadyOf(pcb, live, l)
          /\ after = NULL \/ after \in ReadyOf(pcb, live, l)
          /\ before = after => before = NULL
      BY <1>1, <3>2, <2>5, <2>6, LineNeighbours
    <3> QED
      BY <3>3 DEF ReadyOf
  <2>8. /\ out.queues \in [Levels -> Ends] /\ out.pcbs \in [Pids -> Pcb]
        /\ \A x \in Pids :
             /\ out.pcbs[x].priority = pcb[x].priority /\ out.pcbs[x].sp = pcb[x].sp
             /\ out.pcbs[x].next = IF x = before THEN after ELSE pcb[x].next
             /\ out.pcbs[x].prev = IF x = after THEN before ELSE pcb[x].prev
    BY <1>1, <2>2, <2>5, <2>6, <2>7, UnlinkedFacts
  <2>9. WellLinked(out.queues, out.pcbs, live \ {running})
    BY <1>1, <2>1, <2>2, UnlinkedLines
  <2>10. PICK t : t = out.queues[target].tail
    OBVIOUS
  <2>11. /\ ManagementOfQueues' \in [Levels -> Ends] /\ pcb' \in [Pids -> Pcb]
         /\ pcb'[running].priority = target /\ pcb'[running].sp = out.pcbs[running].sp
         /\ \A x \in Pids : x # running =>
              /\ pcb'[x].priority = out.pcbs[x].priority /\ pcb'[x].prev = out.pcbs[x].prev
              /\ pcb'[x].sp = out.pcbs[x].sp
              /\ pcb'[x].next = IF x = t THEN running ELSE out.pcbs[x].next
    BY <2>1, <2>3, <2>4, <2>8, <2>10, LinkedFacts
  <2>12. WellLinked(ManagementOfQueues', pcb', (live \ {running}) \cup {running})
    <3>1. live \ {running} \in SUBSET Pids /\ running \notin live \ {running}
      BY <1>1
    <3> QED
      BY <3>1, <2>1, <2>3, <2>4, <2>8, <2>9, LinkedLines
  <2>13. (live \ {running}) \cup {running} = live
    BY <2>1
  <2>14. t = NULL \/ t \in live
    <3>1. HasLine(out.queues, out.pcbs, live \ {running}, target)
      BY <2>1, <2>9 DEF WellLinked
    <3>2. t = NULL \/ t \in ReadyOf(out.pcbs, live \ {running}, target)
      BY <3>1, <2>10, LineEnds
    <3> QED
      BY <3>2 DEF ReadyOf
  <2>15. \A x \in Pids : x \notin live => /\ pcb'[x].next = pcb[x].next
                                          /\ pcb'[x].prev = pcb[x].prev
    <3> TAKE x \in Pids
    <3> SUFFICES ASSUME x \notin live
                 PROVE  pcb'[x].next = pcb[x].next /\ pcb'[x].prev = pcb[x].prev
      OBVIOUS
    <3>1. x # NULL /\ x # running /\ x # before /\ x # after /\ x # t
      BY <2>1, <2>7, <2>14, NullFacts
    <3> QED
      BY <3>1, <2>8, <2>11
  <2>16. WellLinked(ManagementOfQueues', pcb', live)
    BY <2>12, <2>13
  <2>17. \A x \in Pids : pcb'[x].sp = pcb[x].sp
    BY <2>1, <2>8, <2>11
  <2>18. \A x \in Pids : x # running => pcb'[x].priority = pcb[x].priority
    BY <2>8, <2>11
  <2> QED
    BY <1>3, <2>1, <2>11, <2>15, <2>16, <2>17, <2>18
<1> QED
  BY <1>2, <1>3

-----------------------------------------------------------------------------
(* The inductive invariant.                                                *)

(* TypeOK in the terms of the lemmas.                                      *)
LEMMA Types ==
    ASSUME TypeOK
    PROVE  /\ ManagementOfQueues \in [Levels -> Ends] /\ pcb \in [Pids -> Pcb]
           /\ live \in SUBSET Pids
           /\ pID < MaxPid => pID \in Pids /\ pID \notin live
BY SchedulerAssumption DEF TypeOK, Ends, Pcb, Nodes, Pids

LEMMA QueueSwap == swaps \in 0 .. MaxSwaps => SwapQueued \in 1 .. MaxSwaps
BY SchedulerAssumption DEF SwapQueued

(* An occupied level has a process at its head.                            *)
LEMMA OccupiedHeads ==
    ASSUME Inductive
    PROVE  /\ \A l \in Occupied : /\ l \in Levels
                                  /\ ManagementOfQueues[l].head \in live
                                  /\ pcb[ManagementOfQueues[l].head].priority = l
           /\ \A p \in live : pcb[p].priority \in Occupied
<1>1. /\ pcb \in [Pids -> Pcb] /\ live \in SUBSET Pids
      /\ WellLinked(ManagementOfQueues, pcb, live)
  BY Types DEF Inductive
<1>2. ASSUME NEW l \in Levels
      PROVE  /\ \/ ManagementOfQueues[l].head = NULL
                \/ ManagementOfQueues[l].head \in ReadyOf(pcb, live, l)
             /\ ManagementOfQueues[l].head = NULL => ReadyOf(pcb, live, l) = {}
  <2>1. HasLine(ManagementOfQueues, pcb, live, l) /\ NULL \notin live
    BY <1>1, NullFacts DEF WellLinked
  <2> QED
    BY <2>1, LineEnds
<1>3. ASSUME NEW p \in live PROVE pcb[p].priority \in Occupied
  <2>1. pcb[p].priority \in Levels /\ p \in ReadyOf(pcb, live, pcb[p].priority)
    BY <1>1 DEF Pcb, ReadyOf
  <2> QED
    BY <2>1, <1>2 DEF Occupied
<1> QED
  BY <1>2, <1>3 DEF Occupied, ReadyOf

LEMMA InductiveInit == Init => Inductive
<1> SUFFICES ASSUME Init PROVE Inductive
  OBVIOUS
<1>1. /\ [head |-> NULL, tail |-> NULL] \in Ends
      /\ [priority |-> 0, next |-> NULL, prev |-> NULL, sp |-> NULL] \in Pcb
  BY NullFacts DEF Ends, Pcb, Nodes, Frames
<1>2. TypeOK
  <2>1. swapped \in BOOLEAN
    BY Zenon DEF Init
  <2>2. /\ ManagementOfQueues \in [Levels -> Ends] /\ pcb \in [Pids -> Pcb]
    BY <1>1, SchedulerAssumption DEF Init
  <2>3. /\ pID \in 0 .. MaxPid /\ live \subseteq 0 .. pID - 1 /\ swaps \in 0 .. MaxSwaps
        /\ running \in Pids \cup {NULL} /\ phase = "boot" /\ pendsv = "idle"
    BY SchedulerAssumption DEF Init
  <2> QED
    BY <2>1, <2>2, <2>3 DEF TypeOK, Ends, Pcb, Nodes
<1>3. Unallocated /\ BootQuiet
  BY DEF Init, Unallocated, BootQuiet
<1>4. ASSUME NEW l \in Levels PROVE HasLine(ManagementOfQueues, pcb, live, l)
  <2>1. PICK n \in Nat : n = 0
    OBVIOUS
  <2>2. 1 .. n = {}
    BY <2>1
  <2>3. PICK s : s = [i \in 1 .. n |-> 0]
    OBVIOUS
  <2>4. s \in [1 .. n -> Pids]
    BY <2>2, <2>3
  <2>5. ReadyOf(pcb, live, l) = {}
    BY DEF Init, ReadyOf
  <2>6. ManagementOfQueues[l].head = NULL /\ ManagementOfQueues[l].tail = NULL
    BY DEF Init
  <2>7. IsLine(ManagementOfQueues, pcb, live, l, n, s)
    BY <2>1, <2>2, <2>5, <2>6 DEF IsLine
  <2> QED
    BY <2>4, <2>7 DEF HasLine
<1> QED
  BY <1>2, <1>3, <1>4 DEF Inductive, WellLinked

(* A registration that gets a PCB.                                         *)
LEMMA RegisterInductive ==
    ASSUME Inductive, NEW l \in Levels, Register(l)
    PROVE  /\ Inductive'
           /\ pcb'[pID].priority = l /\ ManagementOfQueues'[l].head \in live'
           /\ pcb'[ManagementOfQueues'[l].head].priority = l
           /\ \A p \in live : pcb'[p].priority = pcb[p].priority /\ pcb'[p].sp = pcb[p].sp
<1>1. /\ ManagementOfQueues \in [Levels -> Ends] /\ pcb \in [Pids -> Pcb]
      /\ live \in SUBSET Pids /\ WellLinked(ManagementOfQueues, pcb, live)
      /\ pID \in Pids /\ pID \notin live /\ pID \in 0 .. MaxPid /\ pID < MaxPid
  BY Types DEF Inductive, Register, TypeOK
<1>2. PICK c : c = Linked(ManagementOfQueues, pcb, pID, l)
  OBVIOUS
<1>3. PICK f \in Frames : pcb' = [c.pcbs EXCEPT ![pID].sp = f]
  BY <1>2, NullFacts DEF Register
<1>4. ManagementOfQueues' = c.queues /\ live' = live \cup {pID} /\ live' \in SUBSET Pids
  BY <1>1, <1>2 DEF Register
<1>5. PICK t : t = ManagementOfQueues[l].tail
  OBVIOUS
<1>6. /\ c.queues \in [Levels -> Ends] /\ c.pcbs \in [Pids -> Pcb]
      /\ c.pcbs[pID].priority = l
      /\ \A x \in Pids : x # pID =>
           /\ c.pcbs[x].priority = pcb[x].priority /\ c.pcbs[x].prev = pcb[x].prev
           /\ c.pcbs[x].sp = pcb[x].sp
           /\ c.pcbs[x].next = IF x = t THEN pID ELSE pcb[x].next
  BY <1>1, <1>2, <1>5, LinkedFacts
<1>7. WellLinked(c.queues, c.pcbs, live')
  BY <1>1, <1>2, <1>4, LinkedLines
<1>8. /\ pcb' \in [Pids -> Pcb] /\ WellLinked(ManagementOfQueues', pcb', live')
      /\ \A x \in Pids : /\ pcb'[x].priority = c.pcbs[x].priority
                         /\ pcb'[x].next = c.pcbs[x].next /\ pcb'[x].prev = c.pcbs[x].prev
                         /\ x # pID => pcb'[x].sp = c.pcbs[x].sp
  <2>1. PICK b : b = c.pcbs
    OBVIOUS
  <2>2. PICK d : d = [b EXCEPT ![pID].sp = f]
    OBVIOUS
  <2>3. /\ d \in [Pids -> Pcb]
        /\ \A x \in Pids : /\ d[x].priority = b[x].priority
                           /\ d[x].next = b[x].next /\ d[x].prev = b[x].prev
                           /\ x # pID => d[x].sp = b[x].sp
    BY <1>1, <1>6, <2>1, <2>2, FrameSet
  <2>4. WellLinked(c.queues, d, live')
    BY <1>4, <1>7, <2>1, <2>3, FrameLines
  <2>5. pcb' = d
    BY <1>3, <2>1, <2>2
  <2> QED
    BY <1>4, <2>1, <2>3, <2>4, <2>5
<1>9. /\ \A p \in live : pcb'[p].priority = pcb[p].priority /\ pcb'[p].sp = pcb[p].sp
      /\ pcb'[pID].priority = l
  BY <1>1, <1>6, <1>8
<1>10. /\ ManagementOfQueues'[l].head \in live'
       /\ pcb'[ManagementOfQueues'[l].head].priority = l
  <2>1. /\ \/ ManagementOfQueues'[l].head = NULL
           \/ ManagementOfQueues'[l].head \in ReadyOf(pcb', live', l)
        /\ ManagementOfQueues'[l].head = NULL => ReadyOf(pcb', live', l) = {}
    <3>1. HasLine(ManagementOfQueues', pcb', live', l)
      BY <1>8 DEF WellLinked
    <3> QED
      BY <3>1, <1>4, NullFacts, LineEnds
  <2>2. pID \in ReadyOf(pcb', live', l)
    BY <1>4, <1>9 DEF ReadyOf
  <2> QED
    BY <2>1, <2>2 DEF ReadyOf
<1>11. Unallocated'
  <2>1. t = NULL \/ t \in live
    <3>1. t = NULL \/ t \in ReadyOf(pcb, live, l)
      BY <1>1, <1>5, LineEnds DEF WellLinked
    <3> QED
      BY <3>1 DEF ReadyOf
  <2>2. \A x \in Pids \ live' : x \notin live /\ x # pID /\ x # t
    BY <2>1, <1>4, NullFacts
  <2> QED
    BY <2>2, <1>6, <1>8 DEF Inductive, Unallocated
<1>12. running' \in live' \cup {NULL}
  BY <1>2, <1>4, <1>10 DEF Register, Inductive, BootQuiet
<1>13. TypeOK'
  <2>1. pID' \in 0 .. MaxPid /\ live' \subseteq 0 .. pID' - 1
    BY <1>1, <1>4, SchedulerAssumption DEF Register, getPid, Inductive, TypeOK
  <2>2. running' \in Pids \cup {NULL}
    BY <1>4, <1>12
  <2>3. /\ phase' = phase /\ swaps' = swaps /\ pendsv' = pendsv /\ phase = "boot"
        /\ swapped' = swapped
    BY DEF Register
  <2>4. ManagementOfQueues' \in [Levels -> Ends]
    BY <1>4, <1>6
  <2> QED
    BY <2>1, <2>2, <2>3, <2>4, <1>8 DEF Inductive, TypeOK, Ends, Pcb, Nodes
<1>14. BootQuiet'
  BY <1>12 DEF BootQuiet, Register, Inductive
<1> QED
  BY <1>8, <1>9, <1>10, <1>11, <1>13, <1>14 DEF Inductive

(* A registration whose PCB failed: the frame may go to the last process.  *)
LEMMA RegisterWithoutPcbInductive ==
    ASSUME Inductive, NEW l \in 0 .. MAX_PRIORITY_QUEUES_MANAGEMENT, RegisterWithoutPcb(l)
    PROVE  /\ Inductive' /\ live' = live
           /\ \A p \in live : pcb'[p].priority = pcb[p].priority
           /\ \/ pcb' = pcb /\ running' = running
              \/ /\ l \in Levels
                 /\ \A p \in live : p # ManagementOfQueues[l].tail => pcb'[p].sp = pcb[p].sp
                 /\ ManagementOfQueues[l].tail \in live
                 /\ pcb[ManagementOfQueues[l].tail].priority = l
                 /\ ManagementOfQueues[l].head \in live
                 /\ pcb[ManagementOfQueues[l].head].priority = l
                 /\ running' = IF Outranks(l) THEN ManagementOfQueues[l].head ELSE running
<1>1. /\ ManagementOfQueues \in [Levels -> Ends] /\ pcb \in [Pids -> Pcb]
      /\ live \in SUBSET Pids /\ WellLinked(ManagementOfQueues, pcb, live)
  BY Types DEF Inductive
<1>2. PICK last : last = ManagementOfQueues[l].tail
  OBVIOUS
<1>3. pID \in 0 .. MaxPid /\ pID < MaxPid /\ pID' = pID + 1 /\ phase = "boot"
  BY DEF RegisterWithoutPcb, getPid, Inductive, TypeOK
<1>4. /\ live' = live /\ ManagementOfQueues' = ManagementOfQueues
      /\ swaps' = swaps /\ pendsv' = pendsv /\ swapped' = swapped
  BY DEF RegisterWithoutPcb
<1>5. pID' \in 0 .. MaxPid /\ live' \subseteq 0 .. pID' - 1
  BY <1>3, <1>4, SchedulerAssumption DEF Inductive, TypeOK
<1>6. CASE pcb' = pcb /\ running' = running /\ phase' \in {"boot", "stopped"}
  <2>1. TypeOK' /\ Unallocated' /\ BootQuiet'
    BY <1>3, <1>4, <1>5, <1>6 DEF Inductive, TypeOK, Unallocated, BootQuiet
  <2> QED
    BY <1>1, <1>4, <1>6, <2>1 DEF Inductive
<1>7. CASE /\ l \in Levels /\ last # NULL
           /\ pcb' = [pcb EXCEPT ![last].sp = "fresh"]
           /\ running' = IF Outranks(l) THEN ManagementOfQueues[l].head ELSE running
           /\ phase' = phase
  <2>1. HasLine(ManagementOfQueues, pcb, live, l) /\ NULL \notin live
    BY <1>1, <1>7, NullFacts DEF WellLinked
  <2>2. /\ last \in ReadyOf(pcb, live, l)
        /\ ManagementOfQueues[l].head \in ReadyOf(pcb, live, l)
    BY <2>1, <1>2, <1>7, LineEnds
  <2>3. /\ last \in live /\ last \in Pids /\ pcb[last].priority = l
        /\ ManagementOfQueues[l].head \in live
        /\ pcb[ManagementOfQueues[l].head].priority = l
    BY <2>2, <1>1 DEF ReadyOf
  <2>4. /\ pcb' \in [Pids -> Pcb]
        /\ \A x \in Pids : /\ pcb'[x].priority = pcb[x].priority
                           /\ pcb'[x].next = pcb[x].next /\ pcb'[x].prev = pcb[x].prev
                           /\ x # last => pcb'[x].sp = pcb[x].sp
        /\ WellLinked(ManagementOfQueues, pcb', live)
    <3>1. PICK f \in Frames : f = "fresh"
      BY DEF Frames
    <3>2. PICK c : c = [pcb EXCEPT ![last].sp = f]
      OBVIOUS
    <3>3. pcb' = c
      BY <1>7, <3>1, <3>2
    <3>4. /\ c \in [Pids -> Pcb]
          /\ \A x \in Pids : /\ c[x].priority = pcb[x].priority
                             /\ c[x].next = pcb[x].next /\ c[x].prev = pcb[x].prev
                             /\ x # last => c[x].sp = pcb[x].sp
      BY <1>1, <2>3, <3>2, FrameSet
    <3>5. WellLinked(ManagementOfQueues, c, live)
      BY <1>1, <3>4, FrameLines
    <3> QED
      BY <3>3, <3>4, <3>5
  <2>5. running' \in live' \cup {NULL}
    BY <1>3, <1>4, <1>7, <2>3 DEF Inductive, BootQuiet
  <2>6. Unallocated' /\ BootQuiet'
    BY <2>4, <2>5, <1>3, <1>4, <1>7 DEF Inductive, Unallocated, BootQuiet
  <2>7. running' \in Pids \cup {NULL}
    BY <2>5, <1>1, <1>4
  <2>8. TypeOK'
    BY <2>4, <2>7, <1>3, <1>4, <1>5, <1>7 DEF Inductive, TypeOK, Pcb, Nodes
  <2>9. WellLinked(ManagementOfQueues', pcb', live')
    BY <2>4, <1>4
  <2>10. \A p \in live : /\ pcb'[p].priority = pcb[p].priority
                         /\ p # last => pcb'[p].sp = pcb[p].sp
    BY <2>4, <1>1
  <2> QED
    BY <2>3, <2>6, <2>8, <2>9, <2>10, <1>2, <1>4, <1>7 DEF Inductive
<1> QED
  BY <1>2, <1>3, <1>6, <1>7 DEF RegisterWithoutPcb

(* Promotions and demotions.                                               *)
LEMMA MoveInductive ==
    ASSUME Inductive, InProcess, NEW target, move_Pcb(target),
           live' = live, pID' = pID, running' = running, phase' = phase, pendsv' = pendsv,
           swapped' = swapped, swaps' \in 0 .. MaxSwaps
    PROVE  Inductive'
<1>1. phase = "run" /\ running \in Pids
  BY DEF InProcess, Inductive, TypeOK
<1>2. /\ ManagementOfQueues' \in [Levels -> Ends] /\ pcb' \in [Pids -> Pcb]
      /\ WellLinked(ManagementOfQueues', pcb', live)
      /\ Movable(target) => running \in live
      /\ pcb'[running].priority = IF Movable(target) THEN target
                                                     ELSE pcb[running].priority
      /\ \A x \in Pids : /\ x # running => pcb'[x].priority = pcb[x].priority
                         /\ x \notin live => /\ pcb'[x].next = pcb[x].next
                                             /\ pcb'[x].prev = pcb[x].prev
  BY <1>1, Moved
<1>3. Unallocated'
  BY <1>1, <1>2 DEF Inductive, Unallocated
<1>4. TypeOK' /\ BootQuiet'
  BY <1>1, <1>2 DEF Inductive, TypeOK, BootQuiet, Ends, Pcb, Nodes
<1> QED
  BY <1>2, <1>3, <1>4 DEF Inductive

LEMMA TerminateInductive ==
    ASSUME Inductive, Terminate
    PROVE  /\ Inductive' /\ swaps' # 0
           /\ \/ live' = live /\ pcb' = pcb
              \/ live' = live \ {running} /\ pcb[running].priority # 0
           /\ \A x \in live' : pcb'[x].priority = pcb[x].priority
<1>1. /\ phase = "run" /\ running \in Pids /\ swaps' \in 1 .. MaxSwaps
      /\ pID' = pID /\ running' = running /\ pendsv' = pendsv /\ swapped' = swapped
  BY QueueSwap DEF Terminate, InProcess, Inductive, TypeOK
<1>2. /\ ManagementOfQueues \in [Levels -> Ends] /\ pcb \in [Pids -> Pcb]
      /\ live \in SUBSET Pids /\ WellLinked(ManagementOfQueues, pcb, live)
  BY Types DEF Inductive
<1>3. CASE pcb[running].priority = 0
  <2>1. /\ ManagementOfQueues' = ManagementOfQueues /\ pcb' = pcb /\ live' = live
        /\ phase' = phase
    BY <1>3 DEF Terminate
  <2>2. TypeOK' /\ Unallocated' /\ BootQuiet'
    BY <1>1, <2>1 DEF Inductive, TypeOK, Unallocated, BootQuiet
  <2> QED
    BY <1>1, <1>2, <2>1, <2>2 DEF Inductive
<1>4. CASE pcb[running].priority # 0
  <2>1. running \in live
    BY <1>1, <1>4 DEF Inductive, Unallocated
  <2>2. PICK out : out = Unlinked(ManagementOfQueues, pcb, running)
    OBVIOUS
  <2>4. PICK f : f = [out.pcbs[running] EXCEPT !.priority = 0, !.next = NULL, !.prev = NULL]
    OBVIOUS
  <2>5. /\ ManagementOfQueues' = out.queues /\ live' = live \ {running}
        /\ pcb' = [out.pcbs EXCEPT ![running] = f]
        /\ phase' \in {"run", "stopped"}
    BY <1>4, <2>2, <2>4 DEF Terminate
  <2>6. PICK before : before = pcb[running].prev
    OBVIOUS
  <2>7. PICK after : after = pcb[running].next
    OBVIOUS
  <2>8. /\ before = NULL \/ before \in live
        /\ after = NULL \/ after \in live
        /\ before = after => before = NULL
    <3>1. PICK l \in Levels : l = pcb[running].priority
      BY <1>1, <1>2 DEF Pcb
    <3>2. running \in ReadyOf(pcb, live, l) /\ HasLine(ManagementOfQueues, pcb, live, l)
      BY <1>2, <2>1, <3>1 DEF ReadyOf, WellLinked
    <3>3. /\ before = NULL \/ before \in ReadyOf(pcb, live, l)
          /\ after = NULL \/ after \in ReadyOf(pcb, live, l)
          /\ before = after => before = NULL
      BY <1>2, <3>2, <2>6, <2>7, LineNeighbours
    <3> QED
      BY <3>3 DEF ReadyOf
  <2>9. /\ out.queues \in [Levels -> Ends] /\ out.pcbs \in [Pids -> Pcb]
        /\ \A x \in Pids :
             /\ out.pcbs[x].priority = pcb[x].priority
             /\ out.pcbs[x].next = IF x = before THEN after ELSE pcb[x].next
             /\ out.pcbs[x].prev = IF x = after THEN before ELSE pcb[x].prev
    BY <1>1, <1>2, <2>2, <2>6, <2>7, <2>8, UnlinkedFacts
  <2>10. WellLinked(out.queues, out.pcbs, live \ {running})
    BY <1>2, <2>1, <2>2, UnlinkedLines
  <2>11. /\ f \in Pcb /\ f.priority = 0 /\ f.next = NULL /\ f.prev = NULL
    <3>1. PICK r \in Pcb : r = out.pcbs[running]
      BY <1>1, <2>9
    <3>2. r = [priority |-> r.priority, next |-> r.next, prev |-> r.prev, sp |-> r.sp]
      BY DEF Pcb
    <3>3. f = [priority |-> 0, next |-> NULL, prev |-> NULL, sp |-> r.sp]
      BY <3>1, <3>2, <2>4
    <3> QED
      BY <3>3, NullFacts DEF Pcb
  <2>12. /\ pcb' \in [Pids -> Pcb] /\ pcb'[running] = f
         /\ \A x \in Pids : x # running => pcb'[x] = out.pcbs[x]
    BY <1>1, <2>5, <2>9, <2>11
  <2>13. WellLinked(ManagementOfQueues', pcb', live')
    <3>1. ASSUME NEW l \in Levels PROVE HasLine(ManagementOfQueues', pcb', live', l)
      <4>1. \A x \in live' : x \in Pids /\ pcb'[x] = out.pcbs[x]
        BY <1>2, <2>5, <2>12
      <4>2. ReadyOf(pcb', live', l) = ReadyOf(out.pcbs, live', l)
        BY <4>1 DEF ReadyOf
      <4>3. \A x \in ReadyOf(out.pcbs, live', l) : pcb'[x] = out.pcbs[x]
        BY <4>1 DEF ReadyOf
      <4>4. PICK s : Listed(out.queues, out.pcbs, live', l, s)
        BY <2>5, <2>10, HasLineListed DEF WellLinked
      <4>5. ManagementOfQueues'[l] = out.queues[l]
        BY <2>5
      <4>6. Listed(ManagementOfQueues', pcb', live', l, s)
        BY <4>2, <4>3, <4>4, <4>5, LineUntouched
      <4> QED
        BY <4>6, HasLineListed
    <3> QED
      BY <3>1 DEF WellLinked
  <2>14. Unallocated'
    <3> SUFFICES ASSUME NEW x \in Pids, x \notin live'
                 PROVE  /\ pcb'[x].priority = 0
                        /\ pcb'[x].next = NULL /\ pcb'[x].prev = NULL
      BY DEF Unallocated
    <3>1. CASE x = running
      BY <3>1, <2>11, <2>12
    <3>2. CASE x # running
      <4>1. x \notin live /\ x # before /\ x # after
        BY <3>2, <2>5, <2>8, NullFacts
      <4> QED
        BY <3>2, <4>1, <2>9, <2>12 DEF Inductive, Unallocated
    <3> QED
      BY <3>1, <3>2
  <2>15. live' \subseteq 0 .. pID' - 1
    BY <1>1, <2>5 DEF Inductive, TypeOK
  <2>16. TypeOK' /\ BootQuiet'
    BY <1>1, <2>5, <2>9, <2>12, <2>15
       DEF Inductive, TypeOK, BootQuiet, Ends, Pcb, Nodes
  <2>17. \A x \in live' : pcb'[x].priority = pcb[x].priority
    BY <1>2, <2>5, <2>9, <2>12
  <2> QED
    BY <1>1, <1>4, <2>5, <2>13, <2>14, <2>16, <2>17 DEF Inductive
<1> QED
  BY <1>3, <1>4

(* The head of the highest occupied level, or its neighbour there.         *)
LEMMA SetRunning ==
    ASSUME Inductive, running \in Pids, set_running
    PROVE  /\ running' \in Pids
           /\ live # {} => /\ running' \in live
                           /\ \A p \in live : pcb[p].priority <= pcb[running'].priority
<1>1. /\ ManagementOfQueues \in [Levels -> Ends] /\ pcb \in [Pids -> Pcb]
      /\ live \in SUBSET Pids /\ WellLinked(ManagementOfQueues, pcb, live)
  BY Types DEF Inductive
<1>2. CASE Occupied = {} /\ UNCHANGED running
  <2>1. live = {}
    BY <1>2, OccupiedHeads
  <2> QED
    BY <1>2, <2>1
<1>3. ASSUME NEW l \in Occupied, \A k \in Occupied : k <= l,
             running' = IF pcb[running].priority = l /\ pcb[running].next # NULL
                        THEN pcb[running].next
                        ELSE ManagementOfQueues[l].head
      PROVE  /\ running' \in live
             /\ \A p \in live : pcb[p].priority <= pcb[running'].priority
  <2>1. running' \in live /\ pcb[running'].priority = l
    <3>1. CASE pcb[running].priority = l /\ pcb[running].next # NULL
      <4>1. running \in live
        BY <3>1 DEF Inductive, Unallocated
      <4>2. running \in ReadyOf(pcb, live, l) /\ HasLine(ManagementOfQueues, pcb, live, l)
        BY <1>1, <3>1, <4>1 DEF ReadyOf, WellLinked, Occupied
      <4>3. pcb[running].next = NULL \/ pcb[running].next \in ReadyOf(pcb, live, l)
        BY <1>1, <4>2, LineNeighbours
      <4> QED
        BY <1>3, <3>1, <4>3 DEF ReadyOf
    <3>2. CASE ~(pcb[running].priority = l /\ pcb[running].next # NULL)
      BY <1>3, <3>2, OccupiedHeads
    <3> QED
      BY <3>1, <3>2
  <2> QED
    BY <1>3, <2>1, OccupiedHeads
<1> QED
  BY <1>1, <1>2, <1>3 DEF set_running

LEMMA SwapInductive ==
    ASSUME Inductive, Swap
    PROVE  /\ Inductive'
           /\ \A p \in Pids : pcb'[p].priority = pcb[p].priority
           /\ live # {} => /\ running' \in live
                           /\ \A p \in live : pcb[p].priority <= pcb[running'].priority
<1>1. /\ phase = "run" /\ running \in Pids /\ swaps' \in 0 .. MaxSwaps
      /\ ManagementOfQueues' = ManagementOfQueues /\ live' = live /\ pID' = pID
      /\ pendsv' = pendsv /\ swapped' \in BOOLEAN /\ phase' = phase /\ set_running
  <2>1. swaps \in 0 .. MaxSwaps /\ swaps > 0 /\ swaps' = swaps - 1 /\ phase = "run"
    BY DEF Swap, Inductive, TypeOK
  <2>2. swaps' \in 0 .. MaxSwaps
    BY <2>1, SchedulerAssumption
  <2> QED
    BY <2>1, <2>2 DEF Swap, Inductive, TypeOK
<1>2. /\ ManagementOfQueues \in [Levels -> Ends] /\ pcb \in [Pids -> Pcb]
      /\ live \in SUBSET Pids /\ WellLinked(ManagementOfQueues, pcb, live)
  BY Types DEF Inductive
<1>3. /\ running' \in Pids
      /\ live # {} => /\ running' \in live
                      /\ \A p \in live : pcb[p].priority <= pcb[running'].priority
  BY <1>1, SetRunning
<1>4. PICK f \in Frames : f = "stacked"
  BY DEF Frames
<1>5. PICK c : c = [pcb EXCEPT ![running].sp = f]
  OBVIOUS
<1>6. /\ pcb' \in [Pids -> Pcb]
      /\ \A x \in Pids : /\ pcb'[x].priority = pcb[x].priority
                         /\ pcb'[x].next = pcb[x].next /\ pcb'[x].prev = pcb[x].prev
      /\ WellLinked(ManagementOfQueues, pcb', live)
  <2>1. pcb' = c \/ pcb' = pcb
    BY <1>4, <1>5 DEF Swap
  <2>2. /\ c \in [Pids -> Pcb]
        /\ \A x \in Pids : /\ c[x].priority = pcb[x].priority
                           /\ c[x].next = pcb[x].next /\ c[x].prev = pcb[x].prev
    BY <1>1, <1>2, <1>4, <1>5, FrameSet
  <2>3. WellLinked(ManagementOfQueues, c, live)
    BY <1>2, <2>2, FrameLines
  <2> QED
    BY <1>2, <2>1, <2>2, <2>3
<1>8. TypeOK'
  BY <1>1, <1>3, <1>6 DEF Inductive, TypeOK, Pcb, Nodes
<1>9. Unallocated' /\ BootQuiet'
  BY <1>1, <1>6 DEF Inductive, Unallocated, BootQuiet
<1>10. WellLinked(ManagementOfQueues', pcb', live')
  BY <1>1, <1>6
<1> QED
  BY <1>3, <1>6, <1>8, <1>9, <1>10 DEF Inductive

LEMMA FirstSVCInductive == Inductive /\ FirstSVC => Inductive'
<1> SUFFICES ASSUME Inductive, FirstSVC PROVE Inductive'
  OBVIOUS
<1>1. \/ phase' = "run" /\ running # NULL
      \/ phase' = "stopped"
  BY DEF FirstSVC, Load
<1>2. UNCHANGED <<ManagementOfQueues, pcb, live, pID, running, swaps, pendsv, swapped>>
  BY DEF FirstSVC
<1>3. TypeOK'
  BY <1>1, <1>2 DEF Inductive, TypeOK
<1>4. Unallocated' /\ BootQuiet'
  BY <1>1, <1>2 DEF Inductive, Unallocated, BootQuiet
<1>5. WellLinked(ManagementOfQueues', pcb', live')
  BY <1>2 DEF Inductive
<1> QED
  BY <1>3, <1>4, <1>5 DEF Inductive

(* The steps that leave the lists and the processes alone.                 *)
LEMMA QuietInductive ==
    ASSUME Inductive, UNCHANGED <<ManagementOfQueues, pcb, live, pID, running>>,
           phase' \in {phase, "stopped"}, swapped' \in BOOLEAN,
           swaps' \in 0 .. MaxSwaps, pendsv' \in {"idle", "pending", "active", "both"},
           phase = "boot" => swaps' = swaps
    PROVE  Inductive'
<1>1. TypeOK'
  BY DEF Inductive, TypeOK
<1>2. Unallocated' /\ BootQuiet'
  BY DEF Inductive, Unallocated, BootQuiet
<1>3. WellLinked(ManagementOfQueues', pcb', live')
  BY DEF Inductive
<1> QED
  BY <1>1, <1>2, <1>3 DEF Inductive

LEMMA InductiveNext == Inductive /\ [Next]_vars => Inductive'
<1> SUFFICES ASSUME Inductive, [Next]_vars PROVE Inductive'
  OBVIOUS
<1>1. ASSUME NEW l \in Levels, Register(l) PROVE Inductive'
  BY <1>1, RegisterInductive
<1>2. ASSUME NEW l \in 0 .. MAX_PRIORITY_QUEUES_MANAGEMENT, RegisterWithoutPcb(l)
      PROVE  Inductive'
  BY <1>2, RegisterWithoutPcbInductive
<1>3. CASE FirstSVC
  BY <1>3, FirstSVCInductive
<1>4. ASSUME NEW n \in Arguments, Promote(n) PROVE Inductive'
  <2>1. PICK target : target = (pcb[running].priority + n) % Word
    OBVIOUS
  <2>2. /\ InProcess /\ move_Pcb(target) /\ swaps' \in 0 .. MaxSwaps
        /\ live' = live /\ pID' = pID /\ running' = running /\ phase' = phase
        /\ pendsv' = pendsv /\ swapped' = swapped
    BY <1>4, <2>1 DEF Promote, Inductive, TypeOK
  <2> QED
    BY <2>2, MoveInductive
<1>5. ASSUME NEW n \in Arguments, Demote(n) PROVE Inductive'
  <2>1. PICK target : target = (pcb[running].priority - n) % Word
    OBVIOUS
  <2>2. swaps' \in 0 .. MaxSwaps
    BY <1>5, QueueSwap DEF Demote, Inductive, TypeOK
  <2>3. /\ InProcess /\ move_Pcb(target)
        /\ live' = live /\ pID' = pID /\ running' = running /\ phase' = phase
        /\ pendsv' = pendsv /\ swapped' = swapped
    BY <1>5, <2>1 DEF Demote
  <2> QED
    BY <2>2, <2>3, MoveInductive
<1>6. CASE Terminate
  BY <1>6, TerminateInductive
<1>7. CASE SysTick
  <2>1. swaps' \in 0 .. MaxSwaps
    BY <1>7, QueueSwap DEF SysTick, Inductive, TypeOK
  <2> QED
    BY <1>7, <2>1, QuietInductive DEF SysTick, PendingAgain, Inductive, TypeOK
<1>8. CASE EnterPendSV
  BY <1>8, QuietInductive DEF EnterPendSV, Inductive, TypeOK
<1>9. CASE Swap
  BY <1>9, SwapInductive
<1>10. CASE LeavePendSV
  BY <1>10, QuietInductive DEF LeavePendSV, Load, Inductive, TypeOK
<1>11. CASE UNCHANGED vars
  BY <1>11, QuietInductive DEF vars, Inductive, TypeOK
<1>12. CASE Trigger
  BY <1>12, QuietInductive DEF Trigger, PendingAgain, Inductive, TypeOK
<1> QED
  BY <1>1, <1>2, <1>3, <1>4, <1>5, <1>6, <1>7, <1>8, <1>9, <1>10, <1>11, <1>12 DEF Next, PendSV

LEMMA Invariance == Spec => []Inductive
BY InductiveInit, InductiveNext, PTL DEF Spec

-----------------------------------------------------------------------------
(* A list of different processes is no longer than their number.           *)
LEMMA LineLength ==
    ASSUME NEW n \in Nat, NEW s \in [1 .. n -> Pids],
           \A i, j \in 1 .. n : s[i] = s[j] => i = j
    PROVE  n <= MaxPid
<1>1. /\ IsFiniteSet(1 .. n) /\ Cardinality(1 .. n) = n
  <2>1. 1 > n => n = 0
    OBVIOUS
  <2> QED
    BY <2>1, FS_Interval
<1>2. IsFiniteSet(Pids) /\ Cardinality(Pids) = MaxPid
  <2>1. PICK m \in Int : m = MaxPid - 1
    BY SchedulerAssumption
  <2>2. 0 > m => MaxPid = 0
    BY <2>1, SchedulerAssumption
  <2>3. IsFiniteSet(0 .. m) /\ Cardinality(0 .. m) = IF 0 > m THEN 0 ELSE m - 0 + 1
    BY FS_Interval
  <2>4. Pids = 0 .. m
    BY <2>1 DEF Pids
  <2> QED
    BY <2>1, <2>2, <2>3, <2>4, SchedulerAssumption
<1>3. ~ MaxPid < n
  <2>1. SUFFICES ASSUME MaxPid < n PROVE FALSE
    OBVIOUS
  <2>2. \E x, y \in 1 .. n : x # y /\ s[x] = s[y]
    BY <2>1, <1>1, <1>2, FS_PigeonHole
  <2> QED
    BY <2>2
<1> QED
  BY <1>3, SchedulerAssumption

LEMMA LinesAreQueues == Inductive => PcbQueuesWellFormed
<1> SUFFICES ASSUME Inductive, NEW l \in Levels
             PROVE  \E n \in 0 .. MaxPid : \E s \in [1 .. n -> Ready(l)] : IsQueue(l, n, s)
  BY DEF PcbQueuesWellFormed
<1>1. /\ ManagementOfQueues \in [Levels -> Ends]
      /\ HasLine(ManagementOfQueues, pcb, live, l)
  BY Types DEF Inductive, WellLinked
<1>2. PICK n \in Nat : \E s \in [1 .. n -> Pids] :
                           IsLine(ManagementOfQueues, pcb, live, l, n, s)
  BY <1>1 DEF HasLine
<1>3. PICK s \in [1 .. n -> Pids] : IsLine(ManagementOfQueues, pcb, live, l, n, s)
  BY <1>2
<1>4. Ready(l) = ReadyOf(pcb, live, l)
  BY DEF Ready, ReadyOf
<1>5. s \in [1 .. n -> Ready(l)]
  BY <1>3, <1>4 DEF IsLine
<1>6. \A i, j \in 1 .. n : s[i] = s[j] => i = j
  BY <1>3 DEF IsLine
<1>7. n \in 0 .. MaxPid
  BY <1>6, LineLength, SchedulerAssumption
<1>8. PICK e \in Ends : e = ManagementOfQueues[l]
  BY <1>1
<1>9. /\ e.head = IF n = 0 THEN NULL ELSE s[1]
      /\ e.tail = IF n = 0 THEN NULL ELSE s[n]
  BY <1>3, <1>8 DEF IsLine
<1>10. e = IF n = 0 THEN [head |-> NULL, tail |-> NULL] ELSE [head |-> s[1], tail |-> s[n]]
  <2>1. e = [head |-> e.head, tail |-> e.tail]
    BY DEF Ends
  <2>2. CASE n = 0
    BY <2>1, <2>2, <1>9
  <2>3. CASE n # 0
    BY <2>1, <2>3, <1>9
  <2> QED
    BY <2>2, <2>3
<1>11. IsQueue(l, n, s)
  BY <1>3, <1>4, <1>8, <1>10 DEF IsQueue, IsLine
<1> QED
  BY <1>5, <1>7, <1>11

(* No sequence of registrations, kernel calls, ticks and swaps leaves the  *)
(* queues, the PCBs or the running process outside their types, and after  *)
(* the first SVC there is always a running process.                        *)
THEOREM TypeCorrect == Spec => []TypeOK
<1>1. Inductive => TypeOK
  BY DEF Inductive
<1> QED
  BY <1>1, Invariance, PTL

(* The doubly linked lists of PcbQueue.c hold every process of their level *)
(* once and nothing else, for any number of levels and processes.          *)
THEOREM QueuesCorrect == Spec => []PcbQueuesWellFormed
BY Invariance, LinesAreQueues, PTL

-----------------------------------------------------------------------------
(* After the first SVC nobody joins or leaves the idle level: move_Pcb()   *)
(* and delete_Pcb() spare priority 0 and move_Pcb() rejects it as target.  *)
LEMMA IdleStep == Inductive /\ [Next]_vars => (phase = "run" => Ready(0)' = Ready(0))
<1> SUFFICES ASSUME Inductive, [Next]_vars, phase = "run" PROVE Ready(0)' = Ready(0)
  OBVIOUS
<1>1. pcb \in [Pids -> Pcb] /\ live \in SUBSET Pids /\ running \in Pids
  BY Types DEF Inductive, TypeOK
<1>2. ASSUME NEW target, move_Pcb(target), live' = live PROVE Ready(0)' = Ready(0)
  <2>1. /\ pcb'[running].priority = IF Movable(target) THEN target
                                                       ELSE pcb[running].priority
        /\ \A x \in Pids : x # running => pcb'[x].priority = pcb[x].priority
    BY <1>1, <1>2, Moved
  <2>2. Movable(target) => target # 0 /\ pcb[running].priority # 0
    BY DEF Movable
  <2>3. \A x \in live : pcb'[x].priority = 0 <=> pcb[x].priority = 0
    BY <1>1, <2>1, <2>2
  <2> QED
    BY <1>2, <2>3 DEF Ready
<1>3. ASSUME NEW n \in Arguments, Promote(n) \/ Demote(n) PROVE Ready(0)' = Ready(0)
  BY <1>2, <1>3 DEF Promote, Demote
<1>4. CASE Terminate
  <2>1. /\ \/ live' = live /\ pcb' = pcb
           \/ live' = live \ {running} /\ pcb[running].priority # 0
        /\ \A x \in live' : pcb'[x].priority = pcb[x].priority
    BY <1>4, TerminateInductive
  <2> QED
    BY <2>1 DEF Ready
<1>5. CASE Swap
  <2>1. live' = live /\ \A x \in live : pcb'[x].priority = pcb[x].priority
    BY <1>1, <1>5, SwapInductive DEF Swap
  <2> QED
    BY <2>1 DEF Ready
<1>6. CASE UNCHANGED <<pcb, live>>
  BY <1>6 DEF Ready
<1> QED
  BY <1>3, <1>4, <1>5, <1>6
     DEF Next, Register, RegisterWithoutPcb, FirstSVC, SysTick, Trigger, PendSV,
         EnterPendSV, LeavePendSV, vars

(* "A process is always ready to run" (PriorityQueue.c:70) rests on this.  *)
THEOREM IdleCorrect == Spec => IdleLevelFixed
BY Invariance, IdleStep, PTL DEF Spec, IdleLevelFixed

-----------------------------------------------------------------------------
(* Once every queued swap is served, no process with a frame outranks the  *)
(* running one.                                                            *)
Highest ==
    phase \in {"boot", "run"} /\ swaps = 0 =>
        \A p \in live : pcb[p].sp # NULL =>
            running \in live /\ pcb[p].priority <= pcb[running].priority

LEMMA HighestInit == Init => Highest
BY DEF Init, Highest

LEMMA HighestRegister ==
    ASSUME Inductive, Highest, NEW l \in Levels, Register(l)
    PROVE  Highest'
<1>1. /\ pcb'[pID].priority = l /\ ManagementOfQueues'[l].head \in live'
      /\ pcb'[ManagementOfQueues'[l].head].priority = l
      /\ \A p \in live : pcb'[p].priority = pcb[p].priority /\ pcb'[p].sp = pcb[p].sp
  BY RegisterInductive
<1>2. phase = "boot" /\ swaps = 0 /\ running \in live \cup {NULL} /\ NULL \notin live
  BY Types, NullFacts DEF Register, Inductive, BootQuiet
<1>3. /\ live' = live \cup {pID} /\ l \in Nat
      /\ \A p \in live : pcb[p].priority \in Nat
  BY Types, NullFacts DEF Register, Inductive, Pcb
<1>4. \A p \in live : pcb[p].sp # NULL =>
          running \in live /\ pcb[p].priority <= pcb[running].priority
  BY <1>2 DEF Highest
<1> SUFFICES ASSUME NEW p \in live', pcb'[p].sp # NULL
             PROVE  running' \in live' /\ pcb'[p].priority <= pcb'[running'].priority
  BY DEF Highest
<1>5. p # pID => /\ p \in live /\ running \in live
                 /\ pcb[p].priority <= pcb[running].priority
                 /\ pcb'[p].priority = pcb[p].priority
  BY <1>1, <1>3, <1>4
<1>6. pcb'[p].priority \in Nat
  BY <1>1, <1>3, <1>5
<1>7. \/ running' = ManagementOfQueues'[l].head /\ Outranks(l)
      \/ running' = running /\ ~Outranks(l)
      \/ running' = running /\ p # pID
  <2>1. PICK c : c = Linked(ManagementOfQueues, pcb, pID, l)
    OBVIOUS
  <2>2. CASE /\ pcb' = [c.pcbs EXCEPT ![pID].sp = "fresh"]
             /\ running' = IF Outranks(l) THEN c.queues[l].head ELSE running
    BY <2>1, <2>2 DEF Register
  <2>3. CASE pcb' = [c.pcbs EXCEPT ![pID].sp = NULL] /\ running' = running
    <3>1. c.pcbs \in [Pids -> Pcb] /\ pID \in Pids
      BY <2>1, Types, LinkedFacts DEF Inductive, Register
    <3>2. PICK b : b = c.pcbs
      OBVIOUS
    <3>3. PICK d : d = [b EXCEPT ![pID].sp = NULL]
      OBVIOUS
    <3>4. NULL \in Frames
      BY DEF Frames
    <3>5. d[pID].sp = NULL
      BY <3>1, <3>2, <3>3, <3>4, FrameSet
    <3>6. pcb' = d
      BY <2>3, <3>2, <3>3
    <3> QED
      BY <2>3, <3>5, <3>6
  <2> QED
    BY <2>1, <2>2, <2>3 DEF Register
<1>8. CASE running' = ManagementOfQueues'[l].head /\ Outranks(l)
  <2>1. p # pID => pcb[p].priority <= l
    BY <1>2, <1>3, <1>5, <1>8 DEF Outranks
  <2> QED
    BY <1>1, <1>3, <1>5, <1>8, <2>1
<1>9. CASE running' = running /\ ~Outranks(l)
  <2>1. running \in live /\ l <= pcb[running].priority
    BY <1>2, <1>3, <1>9 DEF Outranks
  <2> QED
    BY <1>1, <1>3, <1>5, <1>9, <2>1
<1>10. CASE running' = running /\ p # pID
  BY <1>1, <1>3, <1>5, <1>10
<1> QED
  BY <1>7, <1>8, <1>9, <1>10

LEMMA HighestRegisterWithoutPcb ==
    ASSUME Inductive, Highest, NEW l \in 0 .. MAX_PRIORITY_QUEUES_MANAGEMENT,
           RegisterWithoutPcb(l)
    PROVE  Highest'
<1>1. /\ live' = live
      /\ \A p \in live : pcb'[p].priority = pcb[p].priority
      /\ \/ pcb' = pcb /\ running' = running
         \/ /\ l \in Levels
            /\ \A p \in live : p # ManagementOfQueues[l].tail => pcb'[p].sp = pcb[p].sp
            /\ pcb[ManagementOfQueues[l].tail].priority = l
            /\ ManagementOfQueues[l].head \in live
            /\ pcb[ManagementOfQueues[l].head].priority = l
            /\ running' = IF Outranks(l) THEN ManagementOfQueues[l].head ELSE running
  BY RegisterWithoutPcbInductive
<1>2. /\ phase = "boot" /\ swaps = 0 /\ running \in live \cup {NULL} /\ NULL \notin live
      /\ \A p \in live : pcb[p].priority \in Nat
  BY Types, NullFacts DEF RegisterWithoutPcb, Inductive, BootQuiet, Pcb
<1>3. \A p \in live : pcb[p].sp # NULL =>
          running \in live /\ pcb[p].priority <= pcb[running].priority
  BY <1>2 DEF Highest
<1> SUFFICES ASSUME NEW p \in live, pcb'[p].sp # NULL
             PROVE  running' \in live /\ pcb'[p].priority <= pcb'[running'].priority
  BY <1>1 DEF Highest
<1>4. CASE pcb' = pcb /\ running' = running
  BY <1>1, <1>3, <1>4
<1>5. CASE /\ l \in Levels
           /\ \A x \in live : x # ManagementOfQueues[l].tail => pcb'[x].sp = pcb[x].sp
           /\ pcb[ManagementOfQueues[l].tail].priority = l
           /\ ManagementOfQueues[l].head \in live
           /\ pcb[ManagementOfQueues[l].head].priority = l
           /\ running' = IF Outranks(l) THEN ManagementOfQueues[l].head ELSE running
  <2>1. l \in Nat
    BY <1>5, NullFacts
  <2>2. \/ pcb[p].priority = l
        \/ running \in live /\ pcb[p].priority <= pcb[running].priority
    BY <1>3, <1>5
  <2>3. CASE Outranks(l)
    <3>1. pcb[p].priority <= l
      BY <1>2, <2>1, <2>2, <2>3 DEF Outranks
    <3> QED
      BY <1>1, <1>5, <2>3, <3>1
  <2>4. CASE ~Outranks(l)
    <3>1. running \in live /\ l <= pcb[running].priority
      BY <1>2, <2>1, <2>4 DEF Outranks
    <3> QED
      BY <1>1, <1>2, <1>5, <2>1, <2>2, <2>4, <3>1
  <2> QED
    BY <2>3, <2>4
<1> QED
  BY <1>1, <1>4, <1>5

(* An argument that does not wrap can only raise the priority.             *)
LEMMA HighestPromote ==
    ASSUME Inductive, Highest, NEW n \in 0 .. Word - MAX_PRIORITY_QUEUES_MANAGEMENT, Promote(n)
    PROVE  Highest'
<1>1. /\ phase = "run" /\ running \in Pids /\ pcb \in [Pids -> Pcb] /\ live \in SUBSET Pids
  BY Types DEF Promote, InProcess, Inductive, TypeOK
<1>2. PICK target : target = (pcb[running].priority + n) % Word
  OBVIOUS
<1>3. /\ move_Pcb(target) /\ live' = live /\ running' = running /\ swaps' = swaps
      /\ phase' = phase
  BY <1>2 DEF Promote
<1>4. /\ pcb'[running].priority = IF Movable(target) THEN target
                                                     ELSE pcb[running].priority
      /\ \A x \in Pids : /\ pcb'[x].sp = pcb[x].sp
                         /\ x # running => pcb'[x].priority = pcb[x].priority
  BY <1>1, <1>3, Moved
<1>5. /\ \A x \in Pids : pcb[x].priority \in 0 .. MAX_PRIORITY_QUEUES_MANAGEMENT - 1
      /\ \A x \in Pids : pcb[x].priority \in Nat
  BY <1>1, NullFacts DEF Pcb, Levels
<1>6. target = pcb[running].priority + n
  <2>1. PICK u : u = pcb[running].priority + n
    OBVIOUS
  <2>2. u \in Nat /\ u < Word /\ Word \in Nat
    BY <1>1, <1>5, <2>1, SchedulerAssumption
  <2>3. u % Word = u
    BY <2>2
  <2> QED
    BY <1>2, <2>1, <2>3
<1>7. pcb[running].priority <= pcb'[running].priority /\ pcb'[running].priority \in Nat
  BY <1>1, <1>4, <1>5, <1>6
<1> SUFFICES ASSUME swaps = 0, NEW p \in live, pcb'[p].sp # NULL
             PROVE  running \in live /\ pcb'[p].priority <= pcb'[running].priority
  BY <1>3 DEF Highest
<1>8. running \in live /\ pcb[p].priority <= pcb[running].priority
  BY <1>1, <1>4 DEF Highest
<1>9. p = running \/ pcb'[p].priority = pcb[p].priority
  BY <1>1, <1>4
<1> QED
  BY <1>1, <1>5, <1>7, <1>8, <1>9

LEMMA HighestNext ==
    ASSUME Arguments \subseteq 0 .. Word - MAX_PRIORITY_QUEUES_MANAGEMENT
    PROVE  Inductive /\ Highest /\ [Next]_vars => Highest'
<1> SUFFICES ASSUME Inductive, Highest, [Next]_vars PROVE Highest'
  OBVIOUS
<1>1. ASSUME NEW l \in Levels, Register(l) PROVE Highest'
  BY <1>1, HighestRegister
<1>2. ASSUME NEW l \in 0 .. MAX_PRIORITY_QUEUES_MANAGEMENT, RegisterWithoutPcb(l)
      PROVE  Highest'
  BY <1>2, HighestRegisterWithoutPcb
<1>3. ASSUME NEW n \in Arguments, Promote(n) PROVE Highest'
  BY <1>3, HighestPromote
<1>4. swaps \in 0 .. MaxSwaps => SwapQueued # 0
  BY QueueSwap
<1>5. ASSUME NEW n \in Arguments, Demote(n) PROVE Highest'
  BY <1>4, <1>5 DEF Demote, Highest, Inductive, TypeOK
<1>6. CASE Terminate \/ SysTick
  BY <1>4, <1>6 DEF Terminate, SysTick, Highest, Inductive, TypeOK
<1>7. CASE Swap
  <2>1. /\ \A p \in Pids : pcb'[p].priority = pcb[p].priority
        /\ live # {} => /\ running' \in live
                        /\ \A p \in live : pcb[p].priority <= pcb[running'].priority
    BY <1>7, SwapInductive
  <2>2. live' = live /\ live \in SUBSET Pids
    BY <1>7, Types DEF Swap, Inductive
  <2> QED
    BY <2>1, <2>2 DEF Highest
<1>8. CASE FirstSVC \/ Trigger \/ EnterPendSV \/ LeavePendSV \/ UNCHANGED vars
  BY <1>8 DEF FirstSVC, Trigger, EnterPendSV, LeavePendSV, vars, Highest
<1> QED
  BY <1>1, <1>2, <1>3, <1>5, <1>6, <1>7, <1>8 DEF Next, PendSV

LEMMA HighestRuns == Inductive /\ Highest => RunningIsHighest
<1> SUFFICES ASSUME Inductive, Highest, phase = "run", swaps = 0, Occupied # {},
                    \A p \in live : pcb[p].sp # NULL
             PROVE  running \in live /\ \A l \in Occupied : l <= pcb[running].priority
  BY DEF RunningIsHighest
<1>1. \A l \in Occupied : \E p \in live : pcb[p].priority = l
  BY OccupiedHeads
<1>2. \A p \in live : running \in live /\ pcb[p].priority <= pcb[running].priority
  BY DEF Highest
<1> QED
  BY <1>1, <1>2

(* "The highest priority is the current pcb running" (SVCCall.c:94-106)    *)
(* once every queued swap is served, if no call passes an argument so      *)
(* large that the unsigned sum wraps to a lower level.                     *)
THEOREM RunningCorrect ==
    ASSUME Arguments \subseteq 0 .. Word - MAX_PRIORITY_QUEUES_MANAGEMENT
    PROVE  Spec => []RunningIsHighest
<1>1. Init => Highest
  BY HighestInit
<1>2. Inductive /\ Highest /\ [Next]_vars => Highest'
  BY HighestNext
<1>3. Inductive /\ Highest => RunningIsHighest
  BY HighestRuns
<1> QED
  BY <1>1, <1>2, <1>3, Invariance, PTL DEF Spec

-----------------------------------------------------------------------------
(* Lines are the lines of ReadyQueues.                                     *)

(* A set of numbers has a lowest one.                                      *)
LEMMA Lowest ==
    ASSUME NEW T \in SUBSET Nat, T # {}
    PROVE  \E m \in T : \A k \in T : m <= k
<1>1. PICK m \in T : \A k \in T : ~ (<<k, m>> \in OpToRel(<, Nat))
  BY NatLessThanWellFounded, WFMin
<1>2. ASSUME NEW k \in T PROVE m <= k
  <2>1. <<k, m>> \in Nat \X Nat /\ m \in Nat /\ k \in Nat
    OBVIOUS
  <2>2. ~ (k < m)
    BY <1>1, <2>1 DEF OpToRel
  <2> QED
    BY <2>1, <2>2
<1> QED
  BY <1>2

(* What the sequence of a level holds, and where its list begins.          *)
LEMMA ListedProcesses ==
    ASSUME NEW q, NEW b, NEW L, NEW l, NEW s, Listed(q, b, L, l, s)
    PROVE  /\ \A x : x \in ReadyOf(b, L, l) <=> \E i \in DOMAIN s : s[i] = x
           /\ s = <<>> <=> q[l].head = NULL
           /\ s # <<>> => q[l].head = s[1] /\ 1 \in DOMAIN s
<1>1. PICK n \in Nat : /\ n = Len(s) /\ s \in [1 .. n -> Pids] /\ s \in Seq(Pids)
                       /\ IsLine(q, b, L, l, n, s)
  BY ListedLine
<1>2. \A x : x \in ReadyOf(b, L, l) <=> \E i \in 1 .. n : s[i] = x
  <2>1. \A i \in 1 .. n : s[i] \in ReadyOf(b, L, l)
    BY <1>1 DEF IsLine
  <2>2. \A x \in ReadyOf(b, L, l) : \E i \in 1 .. n : s[i] = x
    BY <1>1 DEF IsLine
  <2> QED
    BY <2>1, <2>2
<1>3. DOMAIN s = 1 .. n
  BY <1>1
<1>4. CASE n = 0
  <2>1. s = <<>>
    BY <1>1, <1>4, EmptySeq
  <2>2. q[l].head = NULL
    BY <1>1, <1>4 DEF IsLine
  <2> QED
    BY <1>2, <1>3, <2>1, <2>2
<1>5. CASE n # 0
  <2>1. s # <<>>
    BY <1>1, <1>5, EmptySeq
  <2>2. q[l].head = s[1]
    BY <1>1, <1>5 DEF IsLine
  <2>3. 1 \in 1 .. n
    BY <1>5
  <2>4. s[1] \in Pids
    BY <2>3, <1>1
  <2> QED
    BY <1>2, <1>3, <2>1, <2>2, <2>3, <2>4, NullFacts
<1> QED
  BY <1>4, <1>5

(* The links determine the sequence: two sequences of one list agree as    *)
(* far as both go, and neither goes on when the other ends.                *)
LEMMA SamePart ==
    ASSUME NEW q, NEW b, NEW L, NEW l,
           NEW n \in Nat, NEW s, IsLine(q, b, L, l, n, s),
           NEW m \in Nat, NEW t, IsLine(q, b, L, l, m, t)
    PROVE  \A i \in 1 .. n : i \in 1 .. m => s[i] = t[i]
<1> DEFINE D == {i \in 1 .. n : i \in 1 .. m /\ s[i] # t[i]}
<1>1. SUFFICES ASSUME D # {} PROVE FALSE
  OBVIOUS
<1>2. D \in SUBSET Nat
  OBVIOUS
<1>3. PICK i \in D : \A k \in D : i <= k
  <2> HIDE DEF D
  <2> QED
    BY <1>1, <1>2, Lowest
<1>4. i \in 1 .. n /\ i \in 1 .. m /\ s[i] # t[i]
  OBVIOUS
<1>5. CASE i = 1
  BY <1>4, <1>5 DEF IsLine
<1>6. CASE i # 1
  <2>1. PICK k \in Nat : i = k + 1 /\ k \in 1 .. n /\ k \in 1 .. m /\ k # n /\ k # m
    <3>1. i - 1 \in Nat /\ i = (i - 1) + 1 /\ i - 1 \in 1 .. n /\ i - 1 \in 1 .. m
          /\ i - 1 # n /\ i - 1 # m
      BY <1>4, <1>6
    <3> QED
      BY <3>1
  <2>2. s[k] = t[k]
    <3>1. ~ (i <= k)
      BY <2>1
    <3>2. k \notin D
      BY <1>3, <3>1
    <3> QED
      BY <2>1, <3>2
  <2>3. b[s[k]].next = s[k + 1]
    BY <2>1 DEF IsLine
  <2>4. b[t[k]].next = t[k + 1]
    BY <2>1 DEF IsLine
  <2> QED
    BY <1>4, <2>1, <2>2, <2>3, <2>4
<1> QED
  BY <1>5, <1>6

LEMMA NotShorter ==
    ASSUME NEW q, NEW b, NEW L \in SUBSET Pids, NEW l,
           NEW n \in Nat, NEW s, IsLine(q, b, L, l, n, s),
           NEW m \in Nat, NEW t, IsLine(q, b, L, l, m, t), n < m
    PROVE  FALSE
<1>1. n + 1 \in 1 .. m /\ 1 \in 1 .. m /\ m # 0
  OBVIOUS
<1>2. t[n + 1] # NULL /\ t[1] # NULL
  <2>1. t[n + 1] \in ReadyOf(b, L, l) /\ t[1] \in ReadyOf(b, L, l)
    BY <1>1 DEF IsLine
  <2> QED
    BY <2>1, NullFacts DEF ReadyOf
<1>3. CASE n = 0
  BY <1>1, <1>2, <1>3 DEF IsLine
<1>4. CASE n # 0
  <2>1. n \in 1 .. n /\ n \in 1 .. m /\ n # m
    BY <1>4
  <2>2. s[n] = t[n]
    BY <2>1, SamePart
  <2>3. b[s[n]].next = NULL
    BY <2>1 DEF IsLine
  <2>4. b[t[n]].next = t[n + 1]
    BY <2>1 DEF IsLine
  <2> QED
    BY <1>2, <2>2, <2>3, <2>4
<1> QED
  BY <1>3, <1>4

LEMMA SameLine ==
    ASSUME NEW q, NEW b, NEW L \in SUBSET Pids, NEW l,
           NEW s, Listed(q, b, L, l, s), NEW t, Listed(q, b, L, l, t)
    PROVE  s = t
<1>1. PICK n \in Nat : n = Len(s) /\ s \in Seq(Pids) /\ IsLine(q, b, L, l, n, s)
  BY ListedLine
<1>2. PICK m \in Nat : m = Len(t) /\ t \in Seq(Pids) /\ IsLine(q, b, L, l, m, t)
  BY ListedLine
<1>3. ~ (n < m)
  BY <1>1, <1>2, NotShorter
<1>4. ~ (m < n)
  BY <1>1, <1>2, NotShorter
<1>5. n = m
  BY <1>3, <1>4
<1>6. \A i \in 1 .. n : i \in 1 .. m => s[i] = t[i]
  BY <1>1, <1>2, SamePart
<1>7. Len(s) = Len(t) /\ \A i \in 1 .. Len(s) : s[i] = t[i]
  BY <1>1, <1>2, <1>5, <1>6
<1> QED
  BY <1>1, <1>2, <1>7, SeqEqual

(* The mapping takes each level to the one sequence of its list.           *)
LinesListed ==
    /\ Lines = [l \in Levels |-> Lines[l]]
    /\ \A l \in Levels : Listed(ManagementOfQueues, pcb, live, l, Lines[l])

LEMMA LinesAreListed == Inductive => LinesListed
<1> SUFFICES ASSUME Inductive PROVE LinesListed
  OBVIOUS
<1>1. Lines = [l \in Levels |-> Lines[l]]
  <2> DEFINE line(l) == CHOOSE s \in UNION {[1 .. n -> Ready(l)] : n \in 0 .. MaxPid} :
                            IsQueue(l, Len(s), s)
  <2>1. Lines = [l \in Levels |-> line(l)]
    BY DEF Lines
  <2> HIDE DEF line
  <2> QED
    BY <2>1
<1>2. ASSUME NEW l \in Levels PROVE Listed(ManagementOfQueues, pcb, live, l, Lines[l])
  <2> DEFINE All == UNION {[1 .. n -> Ready(l)] : n \in 0 .. MaxPid}
  <2>1. PICK n \in 0 .. MaxPid : \E s \in [1 .. n -> Ready(l)] : IsQueue(l, n, s)
    BY LinesAreQueues DEF PcbQueuesWellFormed
  <2>2. PICK s \in [1 .. n -> Ready(l)] : IsQueue(l, n, s)
    BY <2>1
  <2>3. Len(s) = n /\ s \in All
    BY SchedulerAssumption
  <2>4. \E u \in All : IsQueue(l, Len(u), u)
    BY <2>2, <2>3
  <2>5. PICK c : c = Lines[l]
    OBVIOUS
  <2>6. c = CHOOSE u \in All : IsQueue(l, Len(u), u)
    BY <2>5 DEF Lines
  <2>7. c \in All /\ IsQueue(l, Len(c), c)
    <3> HIDE DEF All
    <3> QED
      BY <2>4, <2>6
  <2>8. PICK m \in 0 .. MaxPid : c \in [1 .. m -> Ready(l)]
    BY <2>7
  <2>9. m \in Nat /\ Len(c) = m /\ c \in Seq(Pids)
    <3>1. live \in SUBSET Pids
      BY Types DEF Inductive
    <3>2. Ready(l) \subseteq Pids
      BY <3>1 DEF Ready
    <3> QED
      BY <2>8, <3>2, SchedulerAssumption
  <2>10. IsLine(ManagementOfQueues, pcb, live, l, m, c)
    <3>1. Ready(l) = ReadyOf(pcb, live, l)
      BY DEF Ready, ReadyOf
    <3>2. IsQueue(l, m, c)
      BY <2>7, <2>9
    <3>3. \A i \in 1 .. m : c[i] \in ReadyOf(pcb, live, l)
      BY <2>8, <3>1
    <3>4. /\ ManagementOfQueues[l].head = IF m = 0 THEN NULL ELSE c[1]
          /\ ManagementOfQueues[l].tail = IF m = 0 THEN NULL ELSE c[m]
      <4>1. ManagementOfQueues[l] = IF m = 0 THEN [head |-> NULL, tail |-> NULL]
                                             ELSE [head |-> c[1], tail |-> c[m]]
        BY <3>2 DEF IsQueue
      <4> QED
        BY <4>1
    <3> QED
      BY <3>1, <3>2, <3>3, <3>4 DEF IsQueue, IsLine
  <2> QED
    BY <2>5, <2>9, <2>10 DEF Listed
<1> QED
  BY <1>1, <1>2 DEF LinesListed

(* Lines that list the levels of the next state are the next lines.        *)
LEMMA LinesBecome ==
    ASSUME LinesListed', live' \in SUBSET Pids, NEW f, f = [l \in Levels |-> f[l]],
           \A l \in Levels : Listed(ManagementOfQueues', pcb', live', l, f[l])
    PROVE  Lines' = f
<1>1. Lines' = [l \in Levels |-> Lines'[l]]
  BY DEF LinesListed
<1>2. ASSUME NEW l \in Levels PROVE Lines'[l] = f[l]
  <2>1. Listed(ManagementOfQueues', pcb', live', l, Lines'[l])
    BY DEF LinesListed
  <2>2. Listed(ManagementOfQueues', pcb', live', l, f[l])
    OBVIOUS
  <2> QED
    BY <2>1, <2>2, SameLine
<1> QED
  BY <1>1, <1>2

(* A frame address is no part of a line.                                   *)
LEMMA FrameListed ==
    ASSUME NEW q, NEW b, NEW c, NEW L \in SUBSET Pids, NEW l, NEW s, Listed(q, b, L, l, s),
           \A x \in Pids : /\ c[x].priority = b[x].priority
                           /\ c[x].next = b[x].next /\ c[x].prev = b[x].prev
    PROVE  Listed(q, c, L, l, s)
<1>1. ReadyOf(c, L, l) = ReadyOf(b, L, l)
  BY DEF ReadyOf
<1>2. \A x \in ReadyOf(b, L, l) : c[x].next = b[x].next /\ c[x].prev = b[x].prev
  BY DEF ReadyOf
<1> QED
  BY <1>1, <1>2, LineUntouched

(* A step that at most changes frame addresses leaves every line as it is. *)
LEMMA LinesKept ==
    ASSUME LinesListed, LinesListed', live \in SUBSET Pids,
           UNCHANGED <<ManagementOfQueues, live>>,
           \A x \in Pids : /\ pcb'[x].priority = pcb[x].priority
                           /\ pcb'[x].next = pcb[x].next /\ pcb'[x].prev = pcb[x].prev
    PROVE  Lines' = Lines
<1>1. ASSUME NEW l \in Levels
      PROVE  Listed(ManagementOfQueues', pcb', live', l, Lines[l])
  <2>1. Listed(ManagementOfQueues, pcb, live, l, Lines[l])
    BY DEF LinesListed
  <2>2. Listed(ManagementOfQueues, pcb', live, l, Lines[l])
    BY <2>1, FrameListed
  <2> QED
    BY <2>2
<1>2. Lines = [l \in Levels |-> Lines[l]] /\ live' \in SUBSET Pids
  BY DEF LinesListed
<1> QED
  BY <1>1, <1>2, LinesBecome

(* Where the running process, or any other, is in the lines.               *)
LEMMA LinePlaces ==
    ASSUME LinesListed, live \in SUBSET Pids
    PROVE  /\ \A p \in live, l \in Levels : pcb[p].priority = l =>
                  \E i \in DOMAIN Lines[l] : Lines[l][i] = p
           /\ \A l \in Levels : \A i \in DOMAIN Lines[l] :
                  Lines[l][i] \in live /\ pcb[Lines[l][i]].priority = l
           /\ \A p, l : l \in Queues!LevelsOf(p) =>
                  l \in Levels /\ p \in live /\ pcb[p].priority = l
<1>1. ASSUME NEW l \in Levels
      PROVE  \A x : x \in ReadyOf(pcb, live, l) <=> \E i \in DOMAIN Lines[l] : Lines[l][i] = x
  <2>1. Listed(ManagementOfQueues, pcb, live, l, Lines[l])
    BY DEF LinesListed
  <2> QED
    BY <2>1, ListedProcesses
<1>2. ASSUME NEW p \in live, NEW l \in Levels, pcb[p].priority = l
      PROVE  \E i \in DOMAIN Lines[l] : Lines[l][i] = p
  <2>1. p \in ReadyOf(pcb, live, l)
    BY <1>2 DEF ReadyOf
  <2> QED
    BY <2>1, <1>1
<1>3. ASSUME NEW l \in Levels, NEW i \in DOMAIN Lines[l]
      PROVE  Lines[l][i] \in live /\ pcb[Lines[l][i]].priority = l
  <2>1. Lines[l][i] \in ReadyOf(pcb, live, l)
    BY <1>1
  <2> QED
    BY <2>1 DEF ReadyOf
<1>4. ASSUME NEW p, NEW l, l \in Queues!LevelsOf(p)
      PROVE  l \in Levels /\ p \in live /\ pcb[p].priority = l
  <2>1. l \in Levels /\ \E i \in DOMAIN Lines[l] : Lines[l][i] = p
    BY <1>4 DEF Queues!LevelsOf, Queues!Range
  <2> QED
    BY <2>1, <1>3
<1> QED
  BY <1>2, <1>3, <1>4

(* Before the first registration every line is empty.                      *)
LEMMA LinesInit == Init /\ LinesListed => Queues!Init
<1> SUFFICES ASSUME Init, LinesListed PROVE Queues!Init
  OBVIOUS
<1>1. ASSUME NEW l \in Levels PROVE Lines[l] = <<>>
  <2>1. Listed(ManagementOfQueues, pcb, live, l, Lines[l])
    BY DEF LinesListed
  <2>2. ManagementOfQueues[l].head = NULL
    BY DEF Init
  <2> QED
    BY <2>1, <2>2, ListedProcesses
<1>2. Lines = [l \in Levels |-> Lines[l]] /\ running = NULL
  BY DEF LinesListed, Init
<1> QED
  BY <1>1, <1>2 DEF Queues!Init

(* The head of a level that outranks the running process is its first.     *)
LEMMA PreferStep ==
    ASSUME LinesListed, LinesListed', live \in SUBSET Pids,
           NEW l \in Levels, Outranks(l), l \in Nat,
           ManagementOfQueues'[l].head # NULL, running' = ManagementOfQueues'[l].head
    PROVE  Queues!Prefer(l)
<1>1. Listed(ManagementOfQueues', pcb', live', l, Lines'[l])
  BY DEF LinesListed
<1>2. Lines'[l] # <<>> /\ Lines'[l][1] = running'
  BY <1>1, ListedProcesses
<1>3. running = NULL \/ \A k \in Queues!LevelsOf(running) : k < l
  BY LinePlaces DEF Outranks
<1>4. running' = Head(Lines'[l])
  BY <1>2
<1> QED
  BY <1>2, <1>3, <1>4 DEF Queues!Prefer

(* A registered process joins the end of its line.                         *)
LEMMA RegisterRefines ==
    ASSUME Inductive, LinesListed, LinesListed', NEW l \in Levels, Register(l)
    PROVE  Queues!Admit(pID, l) /\ pID \in Pids
<1>1. /\ ManagementOfQueues \in [Levels -> Ends] /\ pcb \in [Pids -> Pcb]
      /\ live \in SUBSET Pids /\ WellLinked(ManagementOfQueues, pcb, live)
      /\ pID \in Pids /\ pID \notin live /\ l \in Nat
  BY Types, NullFacts DEF Inductive, Register
<1>2. PICK c : c = Linked(ManagementOfQueues, pcb, pID, l)
  OBVIOUS
<1>3. PICK b : b = c.pcbs
  OBVIOUS
<1>4. PICK f \in Frames : pcb' = [b EXCEPT ![pID].sp = f]
  BY <1>2, <1>3, NullFacts DEF Register
<1>5. ManagementOfQueues' = c.queues /\ live' = live \cup {pID} /\ live' \in SUBSET Pids
  BY <1>1, <1>2 DEF Register
<1>6. b \in [Pids -> Pcb]
  BY <1>1, <1>2, <1>3, LinkedFacts
<1>7. \A x \in Pids : /\ pcb'[x].priority = b[x].priority
                      /\ pcb'[x].next = b[x].next /\ pcb'[x].prev = b[x].prev
  <2>1. PICK d : d = [b EXCEPT ![pID].sp = f]
    OBVIOUS
  <2>2. \A x \in Pids : /\ d[x].priority = b[x].priority
                        /\ d[x].next = b[x].next /\ d[x].prev = b[x].prev
    BY <1>1, <1>6, <2>1, FrameSet
  <2> QED
    BY <2>1, <2>2, <1>4
<1>8. PICK g : g = [k \in Levels |-> IF k = l THEN Append(Lines[l], pID) ELSE Lines[k]]
  OBVIOUS
<1>9. ASSUME NEW k \in Levels
      PROVE  Listed(ManagementOfQueues', pcb', live', k, g[k])
  <2>1. Listed(ManagementOfQueues, pcb, live, k, Lines[k])
    BY DEF LinesListed
  <2>2. /\ k = l => Listed(c.queues, c.pcbs, live \cup {pID}, l, Append(Lines[k], pID))
        /\ k # l => Listed(c.queues, c.pcbs, live \cup {pID}, k, Lines[k])
    <3>1. PICK line : line = Lines[k]
      OBVIOUS
    <3>2. Listed(ManagementOfQueues, pcb, live, k, line)
      BY <2>1, <3>1
    <3>3. /\ k = l => Listed(c.queues, c.pcbs, live \cup {pID}, l, Append(line, pID))
          /\ k # l => Listed(c.queues, c.pcbs, live \cup {pID}, k, line)
      BY <1>1, <1>2, <3>2, LinkedLine
    <3> QED
      BY <3>1, <3>3
  <2>3. Listed(ManagementOfQueues', b, live', k, g[k])
    BY <1>3, <1>5, <1>8, <2>2
  <2> QED
    BY <1>5, <1>7, <2>3, FrameListed
<1>10. Lines' = g
  BY <1>5, <1>8, <1>9, LinesBecome
<1>11. g = [Lines EXCEPT ![l] = Append(@, pID)]
  BY <1>8 DEF LinesListed
<1>12. Queues!LevelsOf(pID) = {}
  <2>1. ASSUME NEW k \in Queues!LevelsOf(pID) PROVE FALSE
    BY <1>1, LinePlaces
  <2> QED
    BY <2>1
<1>13. Queues!Prefer(l) \/ UNCHANGED running
  <2>1. CASE running' = IF Outranks(l) THEN c.queues[l].head ELSE running
    <3>1. CASE Outranks(l)
      <4>1. running' = ManagementOfQueues'[l].head
        BY <1>5, <2>1, <3>1
      <4>2. ManagementOfQueues'[l].head # NULL
        BY <1>1, RegisterInductive, <1>5, NullFacts
      <4> QED
        BY <1>1, <3>1, <4>1, <4>2, PreferStep
    <3>2. CASE ~Outranks(l)
      BY <2>1, <3>2
    <3> QED
      BY <3>1, <3>2
  <2>2. CASE UNCHANGED running
    BY <2>2
  <2> QED
    BY <1>2, <2>1, <2>2 DEF Register
<1> QED
  BY <1>1, <1>10, <1>11, <1>12, <1>13 DEF Queues!Admit

(* Without a PCB the lines stay, but the first of level l may be preferred.*)
LEMMA RegisterWithoutPcbRefines ==
    ASSUME Inductive, LinesListed, LinesListed',
           NEW l \in 0 .. MAX_PRIORITY_QUEUES_MANAGEMENT, RegisterWithoutPcb(l)
    PROVE  /\ UNCHANGED Lines
           /\ UNCHANGED running \/ (l \in Levels /\ Queues!Prefer(l))
<1>1. pcb \in [Pids -> Pcb] /\ live \in SUBSET Pids
  BY Types DEF Inductive
<1>2. live' = live /\ ManagementOfQueues' = ManagementOfQueues
  BY DEF RegisterWithoutPcb
<1>3. CASE pcb' = pcb /\ running' = running
  <2>1. Lines' = Lines
    BY <1>1, <1>2, <1>3, LinesKept
  <2> QED
    BY <1>3, <2>1
<1>4. CASE /\ l \in Levels /\ ManagementOfQueues[l].tail # NULL
           /\ pcb' = [pcb EXCEPT ![ManagementOfQueues[l].tail].sp = "fresh"]
           /\ running' = IF Outranks(l) THEN ManagementOfQueues[l].head ELSE running
  <2>1. HasLine(ManagementOfQueues, pcb, live, l) /\ NULL \notin live
    BY <1>1, <1>4, NullFacts DEF Inductive, WellLinked
  <2>2. PICK last : last = ManagementOfQueues[l].tail
    OBVIOUS
  <2>3. /\ last \in ReadyOf(pcb, live, l)
        /\ ManagementOfQueues[l].head # NULL
    BY <2>1, <2>2, <1>4, LineEnds
  <2>4. last \in Pids
    BY <1>1, <2>3 DEF ReadyOf
  <2>5. PICK f \in Frames : f = "fresh"
    BY NullFacts
  <2>6. PICK c : c = [pcb EXCEPT ![last].sp = f]
    OBVIOUS
  <2>7. \A x \in Pids : /\ c[x].priority = pcb[x].priority
                        /\ c[x].next = pcb[x].next /\ c[x].prev = pcb[x].prev
    BY <1>1, <2>4, <2>6, FrameSet
  <2>8. pcb' = c
    BY <1>4, <2>2, <2>5, <2>6
  <2>9. Lines' = Lines
    BY <1>1, <1>2, <2>7, <2>8, LinesKept
  <2>10. ASSUME Outranks(l) PROVE Queues!Prefer(l)
    <3>1. running' = ManagementOfQueues'[l].head /\ ManagementOfQueues'[l].head # NULL
          /\ l \in Nat
      BY <1>2, <1>4, <2>3, <2>10, NullFacts
    <3> QED
      BY <1>1, <1>4, <2>10, <3>1, PreferStep
  <2> QED
    BY <1>4, <2>9, <2>10
<1> QED
  BY <1>3, <1>4 DEF RegisterWithoutPcb

-----------------------------------------------------------------------------
(* Taking the running process, or any other, out of its line.              *)
LEMMA UnlinkedTyped ==
    ASSUME Inductive, NEW p \in live, NEW r, r = Unlinked(ManagementOfQueues, pcb, p)
    PROVE  r.queues \in [Levels -> Ends] /\ r.pcbs \in [Pids -> Pcb]
<1>1. /\ ManagementOfQueues \in [Levels -> Ends] /\ pcb \in [Pids -> Pcb]
      /\ live \in SUBSET Pids /\ WellLinked(ManagementOfQueues, pcb, live)
  BY Types DEF Inductive
<1>2. PICK l \in Levels : l = pcb[p].priority
  BY <1>1 DEF Pcb
<1>3. p \in ReadyOf(pcb, live, l) /\ HasLine(ManagementOfQueues, pcb, live, l) /\ p \in Pids
  BY <1>1, <1>2 DEF ReadyOf, WellLinked
<1>4. PICK before : before = pcb[p].prev
  OBVIOUS
<1>5. PICK after : after = pcb[p].next
  OBVIOUS
<1>6. before = after => before = NULL
  BY <1>1, <1>3, <1>4, <1>5, LineNeighbours
<1> QED
  BY <1>1, <1>3, <1>4, <1>5, <1>6, UnlinkedFacts

LEMMA UnlinkedRest ==
    ASSUME Inductive, LinesListed, NEW p \in live,
           NEW k \in Levels, pcb[p].priority = k,
           NEW i \in DOMAIN Lines[k], Lines[k][i] = p,
           NEW r, r = Unlinked(ManagementOfQueues, pcb, p),
           NEW g, g = [c \in Levels |-> IF c = k THEN Queues!RemoveAt(Lines[k], i) ELSE Lines[c]]
    PROVE  \A c \in Levels : Listed(r.queues, r.pcbs, live \ {p}, c, g[c])
<1>1. /\ ManagementOfQueues \in [Levels -> Ends] /\ pcb \in [Pids -> Pcb]
      /\ live \in SUBSET Pids /\ WellLinked(ManagementOfQueues, pcb, live)
  BY Types DEF Inductive
<1> SUFFICES ASSUME NEW c \in Levels
             PROVE  Listed(r.queues, r.pcbs, live \ {p}, c, g[c])
  OBVIOUS
<1>2. Listed(ManagementOfQueues, pcb, live, c, Lines[c])
  BY DEF LinesListed
<1>3. CASE c = k
  <2>1. p \in ReadyOf(pcb, live, k) /\ Listed(ManagementOfQueues, pcb, live, k, Lines[k])
    BY <1>2, <1>3 DEF ReadyOf
  <2>2. Listed(r.queues, r.pcbs, live \ {p}, k, Queues!RemoveAt(Lines[k], i))
    BY <1>1, <2>1, UnlinkedLine
  <2> QED
    BY <1>3, <2>2
<1>4. CASE c # k
  <2>1. p \notin ReadyOf(pcb, live, c)
    BY <1>4 DEF ReadyOf
  <2>2. Listed(r.queues, r.pcbs, live \ {p}, c, Lines[c])
    BY <1>1, <1>2, <2>1, UnlinkedOthers
  <2> QED
    BY <1>4, <2>2
<1> QED
  BY <1>3, <1>4

(* A promotion or demotion moves the running process to the end of a line, *)
(* or changes nothing.                                                     *)
LEMMA MoveRefines ==
    ASSUME Inductive, LinesListed, LinesListed', running \in Pids,
           NEW target, move_Pcb(target), UNCHANGED <<live, running>>
    PROVE  \/ UNCHANGED <<Lines, running>>
           \/ target \in Levels /\ Queues!Requeue(target)
<1>1. /\ ManagementOfQueues \in [Levels -> Ends] /\ pcb \in [Pids -> Pcb]
      /\ live \in SUBSET Pids /\ WellLinked(ManagementOfQueues, pcb, live)
  BY Types DEF Inductive
<1>2. CASE ~Movable(target)
  <2>1. ManagementOfQueues' = ManagementOfQueues /\ pcb' = pcb
    BY <1>2 DEF move_Pcb
  <2>2. Lines' = Lines
    BY <1>1, <2>1, LinesKept
  <2> QED
    BY <2>2
<1>3. CASE Movable(target)
  <2>1. running \in live /\ target \in Levels /\ target # 0
    BY <1>3, Moved DEF Movable
  <2>2. PICK k \in Levels : k = pcb[running].priority
    BY <1>1 DEF Pcb
  <2>3. k # 0
    BY <1>3, <2>2 DEF Movable
  <2>4. PICK i \in DOMAIN Lines[k] : Lines[k][i] = running
    BY <1>1, <2>1, <2>2, LinePlaces
  <2>5. PICK out : out = Unlinked(ManagementOfQueues, pcb, running)
    OBVIOUS
  <2>6. PICK in : in = Linked(out.queues, out.pcbs, running, target)
    OBVIOUS
  <2>7. ManagementOfQueues' = in.queues /\ pcb' = in.pcbs
    BY <1>3, <2>5, <2>6 DEF move_Pcb
  <2>8. PICK g : g = [c \in Levels |-> IF c = k THEN Queues!RemoveAt(Lines[k], i) ELSE Lines[c]]
    OBVIOUS
  <2>9. \A c \in Levels : Listed(out.queues, out.pcbs, live \ {running}, c, g[c])
    BY <2>1, <2>2, <2>4, <2>5, <2>8, UnlinkedRest
  <2>10. /\ out.queues \in [Levels -> Ends] /\ out.pcbs \in [Pids -> Pcb]
         /\ WellLinked(out.queues, out.pcbs, live \ {running})
    BY <1>1, <2>1, <2>5, UnlinkedTyped, UnlinkedLines
  <2>11. PICK h : h = [c \in Levels |-> IF c = target THEN Append(g[target], running) ELSE g[c]]
    OBVIOUS
  <2>12. ASSUME NEW c \in Levels
         PROVE  Listed(ManagementOfQueues', pcb', live', c, h[c])
    <3>1. PICK rest : rest = live \ {running}
      OBVIOUS
    <3>2. /\ rest \in SUBSET Pids /\ running \notin rest
          /\ WellLinked(out.queues, out.pcbs, rest)
      BY <1>1, <2>10, <3>1
    <3>3. Listed(out.queues, out.pcbs, rest, c, g[c])
      BY <2>9, <3>1
    <3>4. /\ c = target => Listed(in.queues, in.pcbs, rest \cup {running}, target,
                                  Append(g[c], running))
          /\ c # target => Listed(in.queues, in.pcbs, rest \cup {running}, c, g[c])
      BY <2>1, <2>6, <2>10, <3>2, <3>3, LinkedLine
    <3>5. rest \cup {running} = live'
      BY <2>1, <3>1
    <3> QED
      BY <2>7, <2>11, <3>4, <3>5
  <2>13. Lines' = h
    BY <1>1, <2>11, <2>12, LinesBecome
  <2>14. g = [Lines EXCEPT ![k] = Queues!RemoveAt(@, i)]
    BY <2>8 DEF LinesListed
  <2>15. h = [g EXCEPT ![target] = Append(@, running)]
    BY <2>8, <2>11
  <2>16. Lines' = [[Lines EXCEPT ![k] = Queues!RemoveAt(@, i)]
                      EXCEPT ![target] = Append(@, running)]
    BY <2>13, <2>14, <2>15
  <2>17. k \in Levels \ {0}
    BY <2>3
  <2>18. Queues!Requeue(target)
    BY <2>1, <2>4, <2>16, <2>17 DEF Queues!Requeue
  <2> QED
    BY <2>1, <2>18
<1> QED
  BY <1>2, <1>3

(* A terminated process leaves its line; the idle process stays.           *)
LEMMA TerminateRefines ==
    ASSUME Inductive, LinesListed, LinesListed', Terminate
    PROVE  UNCHANGED <<Lines, running>> \/ Queues!Leave
<1>1. /\ ManagementOfQueues \in [Levels -> Ends] /\ pcb \in [Pids -> Pcb]
      /\ live \in SUBSET Pids /\ WellLinked(ManagementOfQueues, pcb, live)
      /\ running \in Pids /\ running' = running
  BY Types DEF Inductive, Terminate, InProcess, TypeOK
<1>2. CASE pcb[running].priority = 0
  <2>1. ManagementOfQueues' = ManagementOfQueues /\ pcb' = pcb /\ live' = live
    BY <1>2 DEF Terminate
  <2>2. Lines' = Lines
    BY <1>1, <2>1, LinesKept
  <2> QED
    BY <1>1, <2>2
<1>3. CASE pcb[running].priority # 0
  <2>1. running \in live
    BY <1>1, <1>3 DEF Inductive, Unallocated
  <2>2. PICK k \in Levels \ {0} : k = pcb[running].priority
    BY <1>1, <1>3 DEF Pcb
  <2>3. PICK i \in DOMAIN Lines[k] : Lines[k][i] = running
    BY <1>1, <2>1, <2>2, LinePlaces
  <2>4. PICK out : out = Unlinked(ManagementOfQueues, pcb, running)
    OBVIOUS
  <2>5. PICK f : f = [out.pcbs[running] EXCEPT !.priority = 0, !.next = NULL, !.prev = NULL]
    OBVIOUS
  <2>6. /\ ManagementOfQueues' = out.queues /\ live' = live \ {running}
        /\ pcb' = [out.pcbs EXCEPT ![running] = f]
    BY <1>3, <2>4, <2>5 DEF Terminate
  <2>7. out.pcbs \in [Pids -> Pcb]
    BY <2>1, <2>4, UnlinkedTyped
  <2>8. \A x \in Pids : x # running => pcb'[x] = out.pcbs[x]
    BY <2>6, <2>7
  <2>9. PICK g : g = [c \in Levels |-> IF c = k THEN Queues!RemoveAt(Lines[k], i) ELSE Lines[c]]
    OBVIOUS
  <2>10. \A c \in Levels : Listed(out.queues, out.pcbs, live \ {running}, c, g[c])
    BY <2>1, <2>2, <2>3, <2>4, <2>9, UnlinkedRest
  <2>11. ASSUME NEW c \in Levels
         PROVE  Listed(ManagementOfQueues', pcb', live', c, g[c])
    <3>1. \A x \in live' : x \in Pids /\ pcb'[x] = out.pcbs[x]
      BY <1>1, <2>6, <2>8
    <3>2. ReadyOf(pcb', live', c) = ReadyOf(out.pcbs, live', c)
      BY <3>1 DEF ReadyOf
    <3>3. \A x \in ReadyOf(out.pcbs, live', c) : /\ pcb'[x].next = out.pcbs[x].next
                                                 /\ pcb'[x].prev = out.pcbs[x].prev
      BY <3>1 DEF ReadyOf
    <3>4. Listed(out.queues, out.pcbs, live', c, g[c])
      BY <2>6, <2>10
    <3>5. ManagementOfQueues'[c] = out.queues[c]
      BY <2>6
    <3> QED
      BY <3>2, <3>3, <3>4, <3>5, LineUntouched
  <2>12. Lines' = g
    BY <1>1, <2>6, <2>9, <2>11, LinesBecome
  <2>13. g = [Lines EXCEPT ![k] = Queues!RemoveAt(@, i)]
    BY <2>9 DEF LinesListed
  <2> QED
    BY <1>1, <2>2, <2>3, <2>12, <2>13 DEF Queues!Leave
<1> QED
  BY <1>2, <1>3

(* The swap gives the processor to the next of the highest line.           *)
LEMMA SwapRefines ==
    ASSUME Inductive, LinesListed, LinesListed', Swap
    PROVE  UNCHANGED <<Lines, running>> \/ Queues!Dispatch
<1>1. /\ pcb \in [Pids -> Pcb] /\ live \in SUBSET Pids /\ running \in Pids
      /\ UNCHANGED <<ManagementOfQueues, live>>
  BY Types DEF Inductive, Swap, TypeOK
<1>2. Lines' = Lines
  <2>1. PICK f \in Frames : f = "stacked"
    BY NullFacts
  <2>2. PICK c : c = [pcb EXCEPT ![running].sp = f]
    OBVIOUS
  <2>3. \A x \in Pids : /\ c[x].priority = pcb[x].priority
                        /\ c[x].next = pcb[x].next /\ c[x].prev = pcb[x].prev
    BY <1>1, <2>2, FrameSet
  <2>4. pcb' = c \/ pcb' = pcb
    BY <2>1, <2>2 DEF Swap
  <2> QED
    BY <1>1, <2>3, <2>4, LinesKept
<1>3. Queues!Occupied = Occupied
  <2>1. ASSUME NEW l \in Levels PROVE Lines[l] # <<>> <=> ManagementOfQueues[l].head # NULL
    <3>1. Listed(ManagementOfQueues, pcb, live, l, Lines[l])
      BY DEF LinesListed
    <3> QED
      BY <3>1, ListedProcesses
  <2> QED
    BY <2>1 DEF Queues!Occupied, Occupied
<1>4. CASE Occupied = {} /\ UNCHANGED running
  BY <1>2, <1>4
<1>5. ASSUME NEW l \in Occupied, \A k \in Occupied : k <= l,
             running' = IF pcb[running].priority = l /\ pcb[running].next # NULL
                        THEN pcb[running].next ELSE ManagementOfQueues[l].head
      PROVE  Queues!Dispatch
  <2>1. l \in Levels /\ Lines[l] # <<>>
    BY <1>3 DEF Occupied, Queues!Occupied
  <2>2. PICK line : line = Lines[l]
    OBVIOUS
  <2>3. Listed(ManagementOfQueues, pcb, live, l, line)
    BY <2>1, <2>2 DEF LinesListed
  <2>4. PICK n \in Nat : /\ n = Len(line) /\ line \in [1 .. n -> Pids]
                         /\ IsLine(ManagementOfQueues, pcb, live, l, n, line)
    BY <2>3, ListedLine
  <2>5. /\ \A i \in 1 .. n : line[i] \in live /\ pcb[line[i]].priority = l
        /\ \A i, j \in 1 .. n : line[i] = line[j] => i = j
        /\ \A p \in live : pcb[p].priority = l => \E i \in 1 .. n : line[i] = p
        /\ \A i \in 1 .. n : pcb[line[i]].next = IF i = n THEN NULL ELSE line[i + 1]
    BY <2>4 DEF IsLine, ReadyOf
  <2>6. ManagementOfQueues[l].head = line[1]
    BY <2>1, <2>2, <2>3, ListedProcesses
  <2>7. PICK front : front = 1 .. n - 1
    OBVIOUS
  <2>8. /\ \A i \in front : i \in 1 .. n /\ i # n
        /\ \A i \in 1 .. n : i # n => i \in front /\ i + 1 \in 1 .. n
    BY <2>7
  <2>9. CASE pcb[running].priority = l /\ pcb[running].next # NULL
    <3>1. running \in live
      BY <1>1, <2>9 DEF Inductive, Unallocated
    <3>2. PICK i \in 1 .. n : line[i] = running
      BY <2>5, <2>9, <3>1
    <3>3. i # n /\ running' = line[i + 1]
      BY <1>5, <2>5, <2>9, <3>2
    <3>4. \E j \in front : line[j] = running /\ running' = line[j + 1]
      BY <2>8, <3>2, <3>3
    <3>5. \E j \in 1 .. Len(Lines[l]) - 1 : Lines[l][j] = running /\ running' = Lines[l][j + 1]
      BY <2>2, <2>4, <2>7, <3>4
    <3> QED
      BY <1>2, <1>3, <1>5, <3>5 DEF Queues!Dispatch
  <2>10. CASE ~(pcb[running].priority = l /\ pcb[running].next # NULL)
    <3>1. running' = line[1]
      BY <1>5, <2>6, <2>10
    <3>2. ASSUME NEW i \in front PROVE line[i] # running
      <4>1. i \in 1 .. n /\ i # n /\ i + 1 \in 1 .. n
        BY <2>8
      <4>2. pcb[line[i]].priority = l /\ pcb[line[i]].next = line[i + 1]
        BY <2>5, <4>1
      <4>3. line[i + 1] # NULL
        BY <2>4, <4>1, NullFacts
      <4> QED
        BY <2>10, <4>2, <4>3
    <3>3. /\ \A j \in 1 .. Len(Lines[l]) - 1 : Lines[l][j] # running
          /\ running' = Lines[l][1]
      BY <2>2, <2>4, <2>7, <3>1, <3>2
    <3> QED
      BY <1>2, <1>3, <1>5, <3>3 DEF Queues!Dispatch
  <2> QED
    BY <2>9, <2>10
<1>6. set_running
  BY DEF Swap
<1> QED
  BY <1>4, <1>5, <1>6 DEF set_running

LEMMA QueuesNext ==
    Inductive /\ LinesListed /\ LinesListed' /\ [Next]_vars => [Queues!Next]_(Queues!vars)
<1> SUFFICES ASSUME Inductive, LinesListed, LinesListed', [Next]_vars
             PROVE  [Queues!Next]_(Queues!vars)
  OBVIOUS
<1>1. ASSUME NEW l \in Levels, Register(l) PROVE Queues!Next
  <2>1. pID \in Pids /\ Queues!Admit(pID, l)
    BY <1>1, RegisterRefines
  <2> QED
    BY <2>1 DEF Queues!Next
<1>2. ASSUME NEW l \in 0 .. MAX_PRIORITY_QUEUES_MANAGEMENT, RegisterWithoutPcb(l)
      PROVE  [Queues!Next]_(Queues!vars)
  <2>1. /\ UNCHANGED Lines
        /\ UNCHANGED running \/ (l \in Levels /\ Queues!Prefer(l))
    BY <1>2, RegisterWithoutPcbRefines
  <2> QED
    BY <2>1 DEF Queues!Next, Queues!vars
<1>3. ASSUME NEW n \in Arguments, Promote(n) \/ Demote(n)
      PROVE  [Queues!Next]_(Queues!vars)
  <2>1. /\ UNCHANGED <<live, running>> /\ running \in Pids
        /\ \E target : move_Pcb(target)
    BY <1>3 DEF Promote, Demote, InProcess, Inductive, TypeOK
  <2>2. PICK target : move_Pcb(target)
    BY <2>1
  <2>3. \/ UNCHANGED <<Lines, running>>
        \/ target \in Levels /\ Queues!Requeue(target)
    BY <2>1, <2>2, MoveRefines
  <2> QED
    BY <2>3 DEF Queues!Next, Queues!vars
<1>4. CASE Terminate
  BY <1>4, TerminateRefines DEF Queues!Next, Queues!vars
<1>5. CASE Swap
  BY <1>5, SwapRefines DEF Queues!Next, Queues!vars
<1>6. CASE UNCHANGED <<ManagementOfQueues, pcb, live, running>>
  <2>1. live \in SUBSET Pids
    BY Types DEF Inductive
  <2>2. Lines' = Lines
    BY <1>6, <2>1, LinesKept
  <2> QED
    BY <1>6, <2>2 DEF Queues!vars
<1> QED
  BY <1>1, <1>2, <1>3, <1>4, <1>5, <1>6
     DEF Next, FirstSVC, SysTick, Trigger, PendSV, EnterPendSV, LeavePendSV, vars

(* For any number of levels and processes the lists of PCBs, whatever      *)
(* registrations, moves, terminations and swaps come, behave as lines in   *)
(* which each process stands once, and the processor goes to the successor *)
(* of the running process in the highest line, or else to its first.       *)
THEOREM QueuesRefined == Spec => QueuesSpec
<1>1. Inductive => LinesListed
  BY LinesAreListed
<1>2. Init /\ LinesListed => Queues!Init
  BY LinesInit
<1>3. Inductive /\ LinesListed /\ LinesListed' /\ [Next]_vars => [Queues!Next]_(Queues!vars)
  BY QueuesNext
<1> QED
  BY <1>1, <1>2, <1>3, Invariance, PTL DEF Spec, QueuesSpec, Queues!Spec
=============================================================================

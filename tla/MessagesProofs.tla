--------------------------- MODULE MessagesProofs ----------------------------
(***************************************************************************)
(* Proofs about Messages for any memory, any ring, any program of init()   *)
(* and any commands of the train: typing, the account of blocks, the order *)
(* of start-up, and the refinement of CommandLine.                         *)
(***************************************************************************)
EXTENDS Messages, SequenceTheorems, TLAPS

Frame == [command : Commands \cup {None}, blocks : 0 .. COMMANDFRAME_BLOCKS]

(* The types of all variables.  A context without a command holds no       *)
(* block, and what is left of init() ends with a trigger.                  *)
Typed ==
    /\ free \in Nat
    /\ ring \in Seq(Commands) /\ Len(ring) <= MAXINUMQUEUES
    /\ masked \in BOOLEAN /\ pending \in BOOLEAN /\ active \in BOOLEAN /\ refused \in BOOLEAN
    /\ packet \in Frame /\ (packet.command = None => packet.blocks = 0)
    /\ frame \in [{"thread", "task"} -> Frame]
    /\ \A x \in {"thread", "task"} : frame[x].command = None => frame[x].blocks = 0
    /\ receive \in AllSensors \cup {"failed", "done", None}
    /\ todo \in Seq(LaterCommands)
    /\ waiting \in [Controllers -> Seq(AllSensors)]
    /\ edge \subseteq Controllers
    /\ program \in Seq(InitCommands \cup {Trigger})
    /\ program # <<>> => program[Len(program)] = Trigger

(* Every block is free, with a context, or with a packet queued or served, *)
(* except those lost by a refusal.                                         *)
AccountedFor ==
    free + 3 * Len(ring) + packet.blocks + frame["thread"].blocks + frame["task"].blocks
Accounted ==
    /\ AccountedFor <= Blocks
    /\ ~ refused => AccountedFor = Blocks

(* Only a refusal leaves interrupts disabled; tasks give later commands    *)
(* only; and when init() is done thread code does so too, and PendSV is    *)
(* still to run, or running, while a command of init() is in the ring.     *)
Started ==
    /\ masked => refused
    /\ frame["task"].command \in LaterCommands \cup {None}
    /\ program = <<>> =>
         /\ frame["thread"].command \in LaterCommands \cup {None}
         /\ Range(ring) \cap InitCommands # {} => pending \/ active

Inductive == Typed /\ Accounted /\ Started

-----------------------------------------------------------------------------
(* Sequences.                                                              *)

LEMMA AppendFacts ==
    ASSUME NEW S, NEW s \in Seq(S), NEW e \in S
    PROVE  /\ Append(s, e) \in Seq(S)
           /\ Len(Append(s, e)) = Len(s) + 1 /\ Len(s) \in Nat
           /\ Range(Append(s, e)) \subseteq Range(s) \cup {e}
           /\ Append(s, e) = s \o <<e>>
<1>1. /\ Append(s, e) \in Seq(S) /\ Len(s) \in Nat /\ Len(Append(s, e)) = Len(s) + 1
      /\ \A i \in 1 .. Len(s) : Append(s, e)[i] = s[i]
      /\ Append(s, e)[Len(s) + 1] = e
  OBVIOUS
<1>2. DOMAIN s = 1 .. Len(s) /\ DOMAIN Append(s, e) = 1 .. Len(s) + 1
  BY <1>1
<1>3. Range(Append(s, e)) \subseteq Range(s) \cup {e}
  BY <1>1, <1>2 DEF Range
<1>4. Append(s, e) = s \o <<e>>
  OBVIOUS
<1> QED
  BY <1>1, <1>3, <1>4

LEMMA HeadTailFacts ==
    ASSUME NEW S, NEW s \in Seq(S), s # <<>>
    PROVE  /\ Head(s) \in S /\ Tail(s) \in Seq(S) /\ Len(Tail(s)) = Len(s) - 1
           /\ Len(s) \in Nat /\ Len(s) > 0
           /\ Range(Tail(s)) \subseteq Range(s) /\ Head(s) \in Range(s)
           /\ Tail(s) # <<>> => Len(s) > 1 /\ Tail(s)[Len(Tail(s))] = s[Len(s)]
           /\ s = <<Head(s)>> \o Tail(s)
<1>1. /\ Head(s) \in S /\ Tail(s) \in Seq(S) /\ Len(Tail(s)) = Len(s) - 1
      /\ \A i \in 1 .. Len(Tail(s)) : Tail(s)[i] = s[i + 1]
  BY HeadTailProperties
<1>2. /\ Len(s) \in Nat /\ Len(s) > 0 /\ Head(s) = s[1]
      /\ DOMAIN s = 1 .. Len(s) /\ DOMAIN Tail(s) = 1 .. Len(s) - 1
  BY <1>1, LenProperties, EmptySeq
<1>3. Range(Tail(s)) \subseteq Range(s) /\ Head(s) \in Range(s)
  BY <1>1, <1>2 DEF Range
<1>4. ASSUME Tail(s) # <<>> PROVE Len(s) > 1 /\ Tail(s)[Len(Tail(s))] = s[Len(s)]
  <2>1. Len(Tail(s)) # 0 /\ Len(Tail(s)) \in Nat
    BY <1>1, <1>4, EmptySeq
  <2>2. Len(s) - 1 \in 1 .. Len(Tail(s)) /\ (Len(s) - 1) + 1 = Len(s)
    BY <2>1, <1>1, <1>2
  <2> QED
    BY <2>1, <2>2, <1>1
<1>5. s = <<Head(s)>> \o Tail(s)
  <2>1. <<Head(s)>> \in Seq(S) /\ Len(<<Head(s)>>) = 1 /\ <<Head(s)>>[1] = Head(s)
    BY <1>1
  <2>2. /\ <<Head(s)>> \o Tail(s) \in Seq(S)
        /\ Len(<<Head(s)>> \o Tail(s)) = 1 + Len(Tail(s))
        /\ \A i \in 1 .. 1 + Len(Tail(s)) : (<<Head(s)>> \o Tail(s))[i] =
                     IF i <= 1 THEN <<Head(s)>>[i] ELSE Tail(s)[i - 1]
    BY <2>1, <1>1, ConcatProperties
  <2>3. ASSUME NEW i \in 1 .. Len(s) PROVE s[i] = (<<Head(s)>> \o Tail(s))[i]
    <3>1. CASE i = 1
      BY <3>1, <2>1, <2>2, <1>1, <1>2
    <3>2. CASE i # 1
      <4>1. PICK j : j = i - 1
        OBVIOUS
      <4>2. j \in 1 .. Len(Tail(s)) /\ j + 1 = i /\ i \in 1 .. 1 + Len(Tail(s)) /\ ~ i <= 1
        BY <4>1, <3>2, <1>1, <1>2
      <4> QED
        BY <4>1, <4>2, <2>2, <1>1
    <3> QED
      BY <3>1, <3>2
  <2>4. Len(s) = 1 + Len(Tail(s))
    BY <1>1, <1>2
  <2> QED
    BY <2>2, <2>3, <2>4, SeqEqual
<1> QED
  BY <1>1, <1>2, <1>3, <1>4, <1>5

(* Every sequence is one over its own elements, and over any set that      *)
(* contains them.                                                          *)
LEMMA SeqOver ==
    ASSUME NEW S, NEW T, NEW s \in Seq(S), Range(s) \subseteq T
    PROVE  s \in Seq(T)
<1>1. Len(s) \in Nat /\ s \in [1 .. Len(s) -> S] /\ DOMAIN s = 1 .. Len(s)
  BY LenProperties
<1>2. s \in [1 .. Len(s) -> T]
  BY <1>1 DEF Range
<1> QED
  BY <1>1, <1>2, SeqDef

-----------------------------------------------------------------------------
(* The interrupt's two calls of command_frame().                           *)

MemoryState == [free : Nat, ring : Seq(Commands), masked : BOOLEAN, refused : BOOLEAN]

(* n is m after command has been accepted or refused, or not given.        *)
Follows(m, n, command) ==
    /\ n \in MemoryState /\ Len(n.ring) <= MAXINUMQUEUES
    /\ n.free + 3 * Len(n.ring) <= m.free + 3 * Len(m.ring)
    /\ ~ n.refused => n.free + 3 * Len(n.ring) = m.free + 3 * Len(m.ring)
    /\ m.refused => n.refused
    /\ (m.masked => m.refused) => (n.masked => n.refused)
    /\ n.ring = m.ring \/ n.ring = Append(m.ring, command)

LEMMA OfferedFacts ==
    ASSUME NEW m \in MemoryState, Len(m.ring) <= MAXINUMQUEUES, NEW command \in Commands
    PROVE  Follows(m, Offered(m, command), command)
<1>1. /\ m.free \in Nat /\ m.ring \in Seq(Commands) /\ m.masked \in BOOLEAN
      /\ m.refused \in BOOLEAN /\ Len(m.ring) \in Nat /\ MAXINUMQUEUES \in Nat
      /\ m = [free |-> m.free, ring |-> m.ring, masked |-> m.masked, refused |-> m.refused]
  BY MemoryAssumption DEF MemoryState
<1>2. CASE m.free < 3
  <2>1. PICK n : n = [m EXCEPT !.free = 0, !.refused = TRUE]
    OBVIOUS
  <2>2. Offered(m, command) = n
    BY <1>2, <2>1 DEF Offered, COMMANDFRAME_BLOCKS
  <2>3. n = [free |-> 0, ring |-> m.ring, masked |-> m.masked, refused |-> TRUE]
    BY <2>1, <1>1
  <2>4. n.free = 0 /\ n.ring = m.ring /\ n.masked = m.masked /\ n.refused = TRUE
    BY <2>3
  <2>5. n \in MemoryState
    BY <2>3, <1>1 DEF MemoryState
  <2>6. Follows(m, n, command)
    BY <2>4, <2>5, <1>1 DEF Follows
  <2> QED
    BY <2>2, <2>6
<1>3. CASE m.free >= 3 /\ Len(m.ring) = MAXINUMQUEUES
  <2>1. PICK f \in Nat : f = m.free - 3
    BY <1>1, <1>3
  <2>2. PICK n : n = [[m EXCEPT !.free = @ - 3] EXCEPT !.masked = TRUE, !.refused = TRUE]
    OBVIOUS
  <2>3. Offered(m, command) = n
    BY <1>1, <1>3, <2>2 DEF Offered, COMMANDFRAME_BLOCKS
  <2>4. n = [free |-> f, ring |-> m.ring, masked |-> TRUE, refused |-> TRUE]
    BY <2>1, <2>2, <1>1
  <2>5. n.free = f /\ n.ring = m.ring /\ n.masked = TRUE /\ n.refused = TRUE
    BY <2>4
  <2>6. n \in MemoryState
    BY <2>4, <1>1 DEF MemoryState
  <2>7. Follows(m, n, command)
    BY <2>1, <2>5, <2>6, <1>1, <1>3 DEF Follows
  <2> QED
    BY <2>3, <2>7
<1>4. CASE m.free >= 3 /\ Len(m.ring) # MAXINUMQUEUES
  <2> DEFINE a == Append(m.ring, command)
  <2>0. a \in Seq(Commands) /\ Len(a) = Len(m.ring) + 1
    <3> HIDE DEF a
    <3>1. m.ring \in Seq(Commands) /\ a = Append(m.ring, command)
      BY <1>1 DEF a
    <3>2. \A q \in Seq(Commands) : /\ Append(q, command) \in Seq(Commands)
                                   /\ Len(Append(q, command)) = Len(q) + 1
      BY AppendFacts
    <3> QED
      BY <3>1, <3>2
  <2>1. PICK f \in Nat : f = m.free - 3
    BY <1>1, <1>4
  <2>2. PICK r \in Seq(Commands) : r = Append(m.ring, command) /\ Len(r) = Len(m.ring) + 1
    BY <2>0
  <2>3. PICK n : n = [[m EXCEPT !.free = @ - 3] EXCEPT !.ring = Append(@, command), !.masked = FALSE]
    OBVIOUS
  <2>4. Offered(m, command) = n
    BY <1>1, <1>4, <2>3 DEF Offered, COMMANDFRAME_BLOCKS
  <2>5. n = [free |-> f, ring |-> r, masked |-> FALSE, refused |-> m.refused]
    BY <2>1, <2>2, <2>3, <1>1
  <2>6. n.free = f /\ n.ring = r /\ n.masked = FALSE /\ n.refused = m.refused
    BY <2>5
  <2>7. n \in MemoryState
    BY <2>5, <1>1 DEF MemoryState
  <2>8. f + 3 * Len(r) = m.free + 3 * Len(m.ring) /\ Len(r) <= MAXINUMQUEUES
    BY <2>1, <2>2, <1>1, <1>4
  <2>9. Follows(m, n, command)
    BY <2>2, <2>6, <2>7, <2>8 DEF Follows
  <2> QED
    BY <2>4, <2>9
<1> QED
  BY <1>1, <1>2, <1>3, <1>4

LEMMA AskedFacts ==
    ASSUME NEW m \in MemoryState, Len(m.ring) <= MAXINUMQUEUES, NEW c \in Controllers,
           NEW pins
    PROVE  Follows(m, Asked(m, c, pins), Input(c))
<1>1. Input(c) \in Commands
  BY DEF Commands, LaterCommands
<1>2. CASE pins[c] # <<>>
  BY <1>1, <1>2, OfferedFacts DEF Asked
<1>3. CASE pins[c] = <<>>
  <2>1. m.free \in Nat /\ Len(m.ring) \in Nat
    BY DEF MemoryState
  <2> QED
    BY <1>3, <2>1 DEF Asked, Follows
<1> QED
  BY <1>2, <1>3

(* What the interrupt does to memory, in terms of two intermediate states. *)
LEMMA InterruptFacts ==
    ASSUME Typed, Interrupt
    PROVE  \E m \in MemoryState, n \in MemoryState :
             /\ Follows([free |-> free, ring |-> ring, masked |-> masked, refused |-> refused],
                        m, Input(Pin0))
             /\ Follows(m, n, Input(Pin1))
             /\ free' = n.free /\ ring' = n.ring /\ masked' = n.masked /\ refused' = n.refused
<1> DEFINE m0 == [free |-> free, ring |-> ring, masked |-> masked, refused |-> refused]
           pins == ClearThenRead(waiting, waiting').pins
           m1 == Asked(m0, Pin0, pins)
           m2 == Asked(m1, Pin1, pins)
<1>1. m0 \in MemoryState /\ Len(m0.ring) <= MAXINUMQUEUES
  BY DEF Typed, MemoryState
<1>2. Pin0 \in Controllers /\ Pin1 \in Controllers
  BY DEF Controllers
<1>3. free' = m2.free /\ ring' = m2.ring /\ masked' = m2.masked /\ refused' = m2.refused
  BY DEF Interrupt
<1> HIDE DEF pins
<1>4. Follows(m0, m1, Input(Pin0))
  <2> HIDE DEF m0
  <2> QED
    BY <1>1, <1>2, AskedFacts
<1>5. m1 \in MemoryState /\ Len(m1.ring) <= MAXINUMQUEUES
  <2> HIDE DEF m1
  <2> QED
    BY <1>4 DEF Follows
<1>6. Follows(m1, m2, Input(Pin1))
  <2> HIDE DEF m1
  <2> QED
    BY <1>5, <1>2, AskedFacts
<1>7. m2 \in MemoryState
  <2> HIDE DEF m2
  <2> QED
    BY <1>6 DEF Follows
<1> HIDE DEF m1, m2
<1> QED
  BY <1>3, <1>4, <1>5, <1>6, <1>7

-----------------------------------------------------------------------------
(* Frames.                                                                 *)

Contexts == {"thread", "task"}

LEMMA FrameFacts ==
    /\ NoFrame \in Frame /\ NoFrame.command = None /\ NoFrame.blocks = 0
    /\ \A f \in Frame : /\ f.command \in Commands \cup {None}
                        /\ f.blocks \in {0, 1, 2, 3} /\ f.blocks \in Nat
                        /\ f.command = None /\ f.blocks = 0 => f = NoFrame
BY DEF Frame, NoFrame, COMMANDFRAME_BLOCKS

LEMMA FrameUpdate ==
    ASSUME NEW g \in [Contexts -> Frame], NEW x \in Contexts, NEW f \in Frame, NEW h,
           h = [g EXCEPT ![x] = f]
    PROVE  /\ h \in [Contexts -> Frame]
           /\ h[x] = f
           /\ \A y \in Contexts : y # x => h[y] = g[y]
OBVIOUS

(* A frame is filled in, gets one more block, or is given up.              *)
LEMMA CommandUpdate ==
    ASSUME NEW f \in Frame, NEW c \in Commands, NEW h, h = [f EXCEPT !.command = c]
    PROVE  h \in Frame /\ h.command = c /\ h.blocks = f.blocks
<1>1. h = [command |-> c, blocks |-> f.blocks]
  BY DEF Frame
<1> QED
  BY <1>1 DEF Frame

LEMMA BlocksUpdate ==
    ASSUME NEW f \in Frame, NEW b \in {0, 1, 2, 3}, NEW h, h = [f EXCEPT !.blocks = b]
    PROVE  h \in Frame /\ h.command = f.command /\ h.blocks = b
<1>1. h = [command |-> f.command, blocks |-> b] /\ b \in 0 .. COMMANDFRAME_BLOCKS
  BY DEF Frame, COMMANDFRAME_BLOCKS
<1> QED
  BY <1>1 DEF Frame

LEMMA FramesCommanded ==
    ASSUME Typed, NEW x \in Contexts, NEW c \in Commands,
           frame' = [frame EXCEPT ![x].command = c], frame[x] = NoFrame
    PROVE  /\ frame' \in [Contexts -> Frame]
           /\ frame'[x].command = c /\ frame'[x].blocks = 0
           /\ \A y \in Contexts : y # x => frame'[y] = frame[y]
<1>1. frame \in [Contexts -> Frame]
  BY DEF Typed, Contexts
<1>2. PICK f : f = [frame[x] EXCEPT !.command = c]
  OBVIOUS
<1>3. f \in Frame /\ f.command = c /\ f.blocks = 0
  BY <1>1, <1>2, CommandUpdate, FrameFacts
<1>4. frame' = [frame EXCEPT ![x] = f]
  BY <1>1, <1>2
<1>5. /\ frame' \in [Contexts -> Frame] /\ frame'[x] = f
      /\ \A y \in Contexts : y # x => frame'[y] = frame[y]
  BY <1>1, <1>3, <1>4, FrameUpdate
<1> QED
  BY <1>3, <1>5

LEMMA FramesGivenUp ==
    ASSUME Typed, NEW x \in Contexts, frame' = [frame EXCEPT ![x] = NoFrame]
    PROVE  /\ frame' \in [Contexts -> Frame]
           /\ frame'[x] = NoFrame
           /\ \A y \in Contexts : y # x => frame'[y] = frame[y]
<1>1. frame \in [Contexts -> Frame]
  BY DEF Typed, Contexts
<1> QED
  BY <1>1, FrameUpdate, FrameFacts

LEMMA FramesObtain ==
    ASSUME Typed, NEW x \in Contexts, frame' = [frame EXCEPT ![x].blocks = @ + 1],
           frame[x].blocks < COMMANDFRAME_BLOCKS
    PROVE  /\ frame' \in [Contexts -> Frame]
           /\ frame'[x].command = frame[x].command
           /\ frame'[x].blocks = frame[x].blocks + 1
           /\ \A y \in Contexts : y # x => frame'[y] = frame[y]
<1>1. frame \in [Contexts -> Frame] /\ frame[x] \in Frame
  BY DEF Typed, Contexts
<1>2. PICK b : b = frame[x].blocks + 1
  OBVIOUS
<1>3. b \in {0, 1, 2, 3}
  BY <1>1, <1>2, FrameFacts DEF COMMANDFRAME_BLOCKS
<1>4. PICK f : f = [frame[x] EXCEPT !.blocks = frame[x].blocks + 1]
  OBVIOUS
<1>5. f \in Frame /\ f.command = frame[x].command /\ f.blocks = b
  <2>1. f = [frame[x] EXCEPT !.blocks = b]
    BY <1>2, <1>4
  <2> QED
    BY <2>1, <1>1, <1>3, BlocksUpdate
<1>6. frame' = [frame EXCEPT ![x] = f]
  <2>1. frame' = [frame EXCEPT ![x] = [frame[x] EXCEPT !.blocks = frame[x].blocks + 1]]
    BY <1>1
  <2> QED
    BY <2>1, <1>4, Zenon
<1> QED
  BY <1>1, <1>2, <1>5, <1>6, FrameUpdate

-----------------------------------------------------------------------------
(* What is typed, and the arithmetic of the account.                       *)

LEMMA TypedFacts ==
    ASSUME Typed
    PROVE  /\ \A x \in Contexts : frame[x] \in Frame /\ frame[x].blocks \in Nat
                                  /\ frame[x].command \in Commands \cup {None}
           /\ packet.blocks \in Nat /\ Len(ring) \in Nat /\ ring \in Seq(Commands)
           /\ "thread" \in Contexts /\ "task" \in Contexts
           /\ frame \in [Contexts -> Frame] /\ free \in Nat
BY FrameFacts DEF Typed, Contexts

LEMMA FrameTypes ==
    ASSUME NEW g \in [Contexts -> Frame]
    PROVE  /\ \A x \in Contexts : g[x] \in Frame /\ g[x].blocks \in Nat
           /\ g["thread"].blocks \in Nat /\ g["task"].blocks \in Nat
BY FrameFacts DEF Contexts

LEMMA CommandFacts ==
    /\ None \notin Commands /\ LaterCommands \subseteq Commands /\ InitCommands \subseteq Commands
    /\ TrainCommands \subseteq LaterCommands /\ InitCommands \cap LaterCommands = {}
    /\ Trigger \notin Commands /\ None \notin AllSensors /\ "failed" \notin AllSensors
    /\ \A c \in Controllers : Input(c) \in LaterCommands
    /\ \A s \in AllSensors : Ack(s) \in LaterCommands
BY CommandsAssumption DEF Commands, LaterCommands

LEMMA InductiveInit == Init => Inductive
<1> SUFFICES ASSUME Init PROVE Inductive
  OBVIOUS
<1> USE DEF Init
<1>1. Program \in Seq(InitCommands \cup {Trigger}) /\ Program[Len(Program)] = Trigger
  <2>1. Program \in Seq(Range(Program)) /\ Last(Program) = Trigger
    BY CommandsAssumption
  <2>2. Range(Program) \subseteq InitCommands \cup {Trigger}
    BY DEF InitCommands
  <2> QED
    BY <2>1, <2>2, SeqOver DEF Last
<1>2. frame["thread"] = NoFrame /\ frame["task"] = NoFrame /\ frame \in [Contexts -> Frame]
  BY FrameFacts DEF Contexts
<1>3. ring = <<>> /\ ring \in Seq(Commands) /\ Len(ring) = 0 /\ Range(ring) = {}
  BY DEF Range
<1>4. Typed
  <2>1. waiting \in [Controllers -> Seq(AllSensors)] /\ todo \in Seq(LaterCommands)
    OBVIOUS
  <2>2. free \in Nat /\ Len(ring) <= MAXINUMQUEUES
    BY <1>3, MemoryAssumption
  <2>3. \A x \in {"thread", "task"} : frame[x].command = None => frame[x].blocks = 0
    BY <1>2, FrameFacts
  <2>4. receive \in AllSensors \cup {"failed", "done", None} /\ edge \subseteq Controllers
    OBVIOUS
  <2>5. packet \in Frame /\ (packet.command = None => packet.blocks = 0)
    BY FrameFacts
  <2> QED
    BY <1>1, <1>2, <1>3, <2>1, <2>2, <2>3, <2>4, <2>5 DEF Typed, Contexts
<1>5. Accounted
  BY <1>2, <1>3, FrameFacts, MemoryAssumption DEF Accounted, AccountedFor
<1>6. Started
  BY <1>2, <1>3, FrameFacts DEF Started
<1> QED
  BY <1>4, <1>5, <1>6 DEF Inductive

-----------------------------------------------------------------------------
(* Building a frame.                                                       *)

LEMMA ObtainNext ==
    ASSUME Inductive, NEW x \in Contexts, Obtain(x)
    PROVE  Inductive'
<1>1. /\ UNCHANGED <<ring, masked, pending, active, packet, receive, todo, program, waiting,
                     edge, obeyed>>
      /\ frame[x].command # None /\ frame[x].blocks < COMMANDFRAME_BLOCKS
  BY DEF Obtain, pendsv, track
<1>2. Typed /\ Accounted /\ Started
  BY DEF Inductive
<1>3. CASE free > 0
  <2>1. free' = free - 1 /\ refused' = refused /\ frame' = [frame EXCEPT ![x].blocks = @ + 1]
    BY <1>3 DEF Obtain
  <2>2. /\ frame' \in [Contexts -> Frame]
        /\ frame'[x].command = frame[x].command
        /\ frame'[x].blocks = frame[x].blocks + 1
        /\ \A y \in Contexts : y # x => frame'[y] = frame[y]
    BY <2>1, <1>1, <1>2, FramesObtain
  <2>3. Typed'
    BY <2>1, <2>2, <1>1, <1>2, <1>3 DEF Typed, Contexts
  <2>4. frame'["thread"].blocks + frame'["task"].blocks =
          frame["thread"].blocks + frame["task"].blocks + 1
    BY <2>2, <1>2, TypedFacts DEF Contexts
  <2>5. AccountedFor' = AccountedFor
    <3>1. PICK a \in Nat, b \in Nat : a = frame'["thread"].blocks /\ b = frame'["task"].blocks
      BY <2>2, FrameTypes
    <3>2. PICK c \in Nat, d \in Nat, p \in Nat, l \in Nat :
             /\ c = frame["thread"].blocks /\ d = frame["task"].blocks
             /\ p = packet.blocks /\ l = Len(ring)
      BY <1>2, TypedFacts
    <3>3. a + b = c + d + 1 /\ free \in Nat
      BY <2>4, <3>1, <3>2, <1>2, TypedFacts
    <3>4. AccountedFor' = free - 1 + 3 * l + p + a + b /\ AccountedFor = free + 3 * l + p + c + d
      BY <2>1, <1>1, <3>1, <3>2 DEF AccountedFor
    <3> QED
      BY <3>3, <3>4
  <2>6. Accounted'
    BY <2>1, <2>5, <1>2 DEF Accounted
  <2>7. Started'
    BY <2>1, <2>2, <1>1, <1>2 DEF Started, Contexts
  <2> QED
    BY <2>3, <2>6, <2>7 DEF Inductive
<1>4. CASE ~ free > 0
  <2>1. free' = free /\ refused' = TRUE /\ frame' = [frame EXCEPT ![x] = NoFrame]
    BY <1>4 DEF Obtain
  <2>2. /\ frame' \in [Contexts -> Frame] /\ frame'[x] = NoFrame
        /\ \A y \in Contexts : y # x => frame'[y] = frame[y]
    BY <2>1, <1>2, FramesGivenUp
  <2>3. Typed'
    BY <2>1, <2>2, <1>1, <1>2, FrameFacts DEF Typed, Contexts
  <2>4. frame'["thread"].blocks + frame'["task"].blocks <=
          frame["thread"].blocks + frame["task"].blocks
    BY <2>2, <1>2, TypedFacts, FrameFacts DEF Contexts
  <2>5. Accounted'
    <3>1. PICK a \in Nat, b \in Nat : a = frame'["thread"].blocks /\ b = frame'["task"].blocks
      BY <2>2, FrameTypes
    <3>2. PICK c \in Nat, d \in Nat, p \in Nat, l \in Nat :
             /\ c = frame["thread"].blocks /\ d = frame["task"].blocks
             /\ p = packet.blocks /\ l = Len(ring)
      BY <1>2, TypedFacts
    <3>3. a + b <= c + d /\ free \in Nat /\ Blocks \in Nat
      BY <2>4, <3>1, <3>2, <1>2, TypedFacts, MemoryAssumption
    <3>4. AccountedFor' = free + 3 * l + p + a + b /\ AccountedFor = free + 3 * l + p + c + d
      BY <2>1, <1>1, <3>1, <3>2 DEF AccountedFor
    <3>5. AccountedFor' <= Blocks
      BY <3>3, <3>4, <1>2 DEF Accounted
    <3> QED
      BY <3>5, <2>1 DEF Accounted
  <2>6. Started'
    BY <2>1, <2>2, <1>1, <1>2, FrameFacts DEF Started, Contexts
  <2> QED
    BY <2>3, <2>5, <2>6 DEF Inductive
<1> QED
  BY <1>3, <1>4

LEMMA EnqueueNext ==
    ASSUME Inductive, NEW x \in Contexts, Enqueue(x)
    PROVE  Inductive'
<1>1. /\ UNCHANGED <<free, pending, active, packet, receive, todo, program, waiting, edge, obeyed>>
      /\ frame[x].command # None /\ frame[x].blocks = 3
      /\ frame' = [frame EXCEPT ![x] = NoFrame]
      /\ masked' = Full /\ refused' = (refused \/ Full)
      /\ ring' = IF Full THEN ring ELSE Append(ring, frame[x].command)
  BY DEF Enqueue, pendsv, track, COMMANDFRAME_BLOCKS
<1>2. Typed /\ Accounted /\ Started
  BY DEF Inductive
<1>3. /\ frame' \in [Contexts -> Frame] /\ frame'[x] = NoFrame
      /\ \A y \in Contexts : y # x => frame'[y] = frame[y]
  BY <1>1, <1>2, FramesGivenUp
<1>4. /\ frame[x].command \in Commands /\ ring \in Seq(Commands) /\ MAXINUMQUEUES \in Nat
      /\ Len(ring) \in Nat /\ Len(ring) <= MAXINUMQUEUES /\ free \in Nat
  BY <1>1, <1>2, TypedFacts, MemoryAssumption DEF Typed
<1>5. /\ ring' \in Seq(Commands) /\ Len(ring') <= MAXINUMQUEUES
      /\ Full => ring' = ring
      /\ ~ Full => /\ Len(ring') = Len(ring) + 1
                   /\ Range(ring') \subseteq Range(ring) \cup {frame[x].command}
  <2>1. CASE Full
    BY <2>1, <1>1, <1>4
  <2>2. CASE ~ Full
    <3>1. ring' = Append(ring, frame[x].command) /\ Len(ring) # MAXINUMQUEUES
      BY <2>2, <1>1 DEF Full
    <3>2. PICK c \in Commands : c = frame[x].command
      BY <1>4
    <3>3. /\ Append(ring, c) \in Seq(Commands) /\ Len(Append(ring, c)) = Len(ring) + 1
          /\ Range(Append(ring, c)) \subseteq Range(ring) \cup {c}
      BY <1>4, AppendFacts
    <3> QED
      BY <2>2, <3>1, <3>2, <3>3, <1>4
  <2> QED
    BY <2>1, <2>2
<1>6. Typed'
  <2>1. masked' \in BOOLEAN /\ refused' \in BOOLEAN
    BY <1>1 DEF Full
  <2> QED
    BY <2>1, <1>1, <1>2, <1>3, <1>5, FrameFacts DEF Typed, Contexts
<1>7. Accounted'
  <2>1. PICK a \in Nat, b \in Nat, c \in Nat, d \in Nat :
           /\ a = frame'["thread"].blocks /\ b = frame'["task"].blocks
           /\ c = frame["thread"].blocks /\ d = frame["task"].blocks
    BY <1>2, <1>3, FrameTypes, TypedFacts
  <2>2. PICK p \in Nat, l \in Nat, m \in Nat :
           p = packet.blocks /\ l = Len(ring) /\ m = Len(ring')
    BY <1>2, <1>5, TypedFacts
  <2>3. a + b + 3 = c + d
    BY <2>1, <1>1, <1>2, <1>3, FrameFacts DEF Contexts
  <2>4. AccountedFor' = free + 3 * m + p + a + b /\ AccountedFor = free + 3 * l + p + c + d
    BY <2>1, <2>2, <1>1 DEF AccountedFor
  <2>5. free \in Nat /\ Blocks \in Nat
    BY <1>4, MemoryAssumption
  <2>6. CASE Full
    <3>1. m = l
      BY <2>2, <2>6, <1>5
    <3>2. AccountedFor' <= AccountedFor /\ AccountedFor \in Nat /\ AccountedFor' \in Nat
      BY <2>3, <2>4, <2>5, <3>1
    <3>3. AccountedFor' <= Blocks
      BY <3>2, <2>5, <1>2 DEF Accounted
    <3> QED
      BY <3>3, <2>6, <1>1 DEF Accounted
  <2>7. CASE ~ Full
    <3>1. m = l + 1
      BY <2>2, <2>7, <1>5
    <3>2. AccountedFor' = AccountedFor
      BY <2>3, <2>4, <2>5, <3>1
    <3> QED
      BY <3>2, <2>7, <1>1, <1>2 DEF Accounted
  <2> QED
    BY <2>6, <2>7
<1>8. Started'
  <2>1. masked' => refused'
    BY <1>1
  <2>2. frame'["task"].command \in LaterCommands \cup {None}
    BY <1>2, <1>3, FrameFacts DEF Started, Contexts
  <2>3. ASSUME program' = <<>> PROVE frame'["thread"].command \in LaterCommands \cup {None}
    BY <2>3, <1>1, <1>2, <1>3, FrameFacts DEF Started, Contexts
  <2>4. ASSUME program' = <<>> PROVE Range(ring') \cap InitCommands \subseteq Range(ring) \cap InitCommands
    <3>1. frame[x].command \in LaterCommands
      BY <2>4, <1>1, <1>2 DEF Started, Contexts
    <3> QED
      BY <3>1, <1>5, CommandFacts
  <2> QED
    BY <2>1, <2>2, <2>3, <2>4, <1>1, <1>2 DEF Started
<1> QED
  BY <1>6, <1>7, <1>8 DEF Inductive

LEMMA ThreadCommandsNext ==
    ASSUME Inductive, ThreadCommands
    PROVE  Inductive'
<1>1. /\ UNCHANGED <<free, ring, masked, refused, pending, active, packet, receive, todo,
                     waiting, edge, obeyed>>
      /\ frame["thread"] = NoFrame
      /\ program' = IF program = <<>> THEN <<>> ELSE Tail(program)
  BY DEF ThreadCommands, memory, pendsv, track
<1>2. PICK c \in TrainCommands \cup InitCommands :
         /\ IF program = <<>> THEN c \in TrainCommands ELSE c = Head(program)
         /\ frame' = [frame EXCEPT !["thread"].command = c]
  BY DEF ThreadCommands
<1>3. Typed /\ Accounted /\ Started
  BY DEF Inductive
<1>4. c \in Commands
  BY CommandFacts
<1>5. /\ frame' \in [Contexts -> Frame]
      /\ frame'["thread"].command = c /\ frame'["thread"].blocks = 0
      /\ frame'["task"] = frame["task"]
  <2>1. "thread" \in Contexts /\ "task" \in Contexts /\ "task" # "thread"
    BY DEF Contexts
  <2> QED
    BY <2>1, <1>1, <1>2, <1>3, <1>4, FramesCommanded
<1>6. program # <<>> => /\ Tail(program) \in Seq(InitCommands \cup {Trigger})
                        /\ Tail(program) # <<>> /\ Tail(program)[Len(Tail(program))] = Trigger
  <2>1. SUFFICES ASSUME program # <<>>
                 PROVE  /\ Tail(program) \in Seq(InitCommands \cup {Trigger})
                        /\ Tail(program) # <<>> /\ Tail(program)[Len(Tail(program))] = Trigger
    OBVIOUS
  <2>2. program \in Seq(InitCommands \cup {Trigger}) /\ program[Len(program)] = Trigger
    BY <2>1, <1>3 DEF Typed
  <2>3. /\ Tail(program) \in Seq(InitCommands \cup {Trigger}) /\ Len(Tail(program)) = Len(program) - 1
        /\ Tail(program) # <<>> => Tail(program)[Len(Tail(program))] = program[Len(program)]
        /\ Len(program) \in Nat
    BY <2>1, <2>2, HeadTailFacts
  <2>4. Tail(program) # <<>>
    <3>1. SUFFICES ASSUME Tail(program) = <<>> PROVE FALSE
      OBVIOUS
    <3>2. Len(program) = 1
      <4>1. Len(Tail(program)) = 0
        BY <3>1, <2>3, EmptySeq
      <4> QED
        BY <4>1, <2>3
    <3>3. Head(program) = Trigger
      BY <3>2, <2>1, <2>2
    <3> QED
      BY <3>3, <2>1, <1>2, <1>4, CommandFacts
  <2> QED
    BY <2>2, <2>3, <2>4
<1>7. Typed'
  <2>1. program' \in Seq(InitCommands \cup {Trigger})
        /\ (program' # <<>> => program'[Len(program')] = Trigger)
    BY <1>1, <1>6
  <2>2. \A x \in {"thread", "task"} : frame'[x].command = None => frame'[x].blocks = 0
    BY <1>3, <1>5 DEF Typed
  <2> QED
    BY <2>1, <2>2, <1>1, <1>3, <1>5 DEF Typed, Contexts
<1>8. Accounted'
  BY <1>1, <1>3, <1>5, FrameFacts DEF Accounted, AccountedFor
<1>9. Started'
  <2>1. ASSUME program' = <<>> PROVE program = <<>> /\ c \in LaterCommands
    BY <2>1, <1>1, <1>2, <1>6, CommandFacts
  <2> QED
    BY <2>1, <1>1, <1>3, <1>5 DEF Started
<1> QED
  BY <1>7, <1>8, <1>9 DEF Inductive

LEMMA TaskCommandsNext ==
    ASSUME Inductive, TaskCommands
    PROVE  Inductive'
<1>1. /\ UNCHANGED <<free, ring, masked, refused, pending, active, packet, receive, program,
                     waiting, edge, obeyed>>
      /\ frame["task"] = NoFrame /\ todo # <<>> /\ todo' = Tail(todo)
      /\ frame' = [frame EXCEPT !["task"].command = Head(todo)]
  BY DEF TaskCommands, memory, track
<1>2. Typed /\ Accounted /\ Started
  BY DEF Inductive
<1>3. Head(todo) \in LaterCommands /\ Tail(todo) \in Seq(LaterCommands)
  BY <1>1, <1>2, HeadTailFacts DEF Typed
<1>4. PICK c \in Commands : c = Head(todo)
  BY <1>3, CommandFacts
<1>5. /\ frame' \in [Contexts -> Frame]
      /\ frame'["task"].command = c /\ frame'["task"].blocks = 0
      /\ frame'["thread"] = frame["thread"]
  <2>1. "thread" \in Contexts /\ "task" \in Contexts /\ "task" # "thread"
    BY DEF Contexts
  <2>2. frame' = [frame EXCEPT !["task"].command = c]
    BY <1>1, <1>4
  <2> QED
    BY <2>1, <2>2, <1>1, <1>2, FramesCommanded
<1>6. Typed'
  <2>1. \A x \in {"thread", "task"} : frame'[x].command = None => frame'[x].blocks = 0
    BY <1>2, <1>5 DEF Typed
  <2> QED
    BY <2>1, <1>1, <1>2, <1>3, <1>5 DEF Typed, Contexts
<1>7. Accounted'
  BY <1>1, <1>2, <1>5, FrameFacts DEF Accounted, AccountedFor
<1>8. Started'
  BY <1>1, <1>2, <1>3, <1>4, <1>5 DEF Started
<1> QED
  BY <1>6, <1>7, <1>8 DEF Inductive

-----------------------------------------------------------------------------
(* Thread code triggers PendSV, and PendSV serves the ring.                *)

LEMMA ThreadTriggersNext ==
    ASSUME Inductive, ThreadTriggers
    PROVE  Inductive'
<1>1. /\ UNCHANGED <<free, ring, refused, active, packet, receive, todo, frame, waiting, edge, obeyed>>
      /\ program # <<>> => Head(program) = Trigger
      /\ pending' = TRUE
      /\ masked' = (masked /\ Len(program) # 1)
      /\ program' = IF program = <<>> THEN <<>> ELSE Tail(program)
      /\ frame["thread"] = NoFrame
  BY DEF ThreadTriggers, Triggered, pendsv, track
<1>2. Typed /\ Accounted /\ Started
  BY DEF Inductive
<1>3. program' \in Seq(InitCommands \cup {Trigger}) /\ (program' # <<>> => program'[Len(program')] = Trigger)
  <2>1. program \in Seq(InitCommands \cup {Trigger}) /\ (program # <<>> => program[Len(program)] = Trigger)
    BY <1>2 DEF Typed
  <2>2. CASE program = <<>>
    BY <2>2, <1>1
  <2>3. CASE program # <<>>
    BY <2>1, <2>3, <1>1, HeadTailFacts
  <2> QED
    BY <2>2, <2>3
<1>4. Typed'
  <2>1. masked' \in BOOLEAN /\ pending' \in BOOLEAN
    BY <1>1, <1>2 DEF Typed
  <2> QED
    BY <2>1, <1>1, <1>2, <1>3 DEF Typed
<1>5. Accounted'
  BY <1>1, <1>2 DEF Accounted, AccountedFor
<1>6. Started'
  BY <1>1, <1>2, FrameFacts DEF Started
<1> QED
  BY <1>4, <1>5, <1>6 DEF Inductive

LEMMA EnterLeaveNext ==
    ASSUME Inductive, EnterPendSV \/ LeavePendSV
    PROVE  Inductive'
<1>1. /\ UNCHANGED <<free, ring, masked, refused, packet, receive, todo, frame, program, waiting,
                     edge, obeyed>>
      /\ \/ active' = TRUE /\ pending' = FALSE
         \/ active' = FALSE /\ pending' = pending /\ ring = <<>>
  BY DEF EnterPendSV, LeavePendSV, memory, track
<1>2. Typed /\ Accounted /\ Started
  BY DEF Inductive
<1>3. Typed'
  BY <1>1, <1>2 DEF Typed
<1>4. Accounted'
  BY <1>1, <1>2 DEF Accounted, AccountedFor
<1>5. Started'
  <2>1. ring = <<>> => Range(ring) = {}
    BY DEF Range
  <2> QED
    BY <2>1, <1>1, <1>2 DEF Started
<1> QED
  BY <1>3, <1>4, <1>5 DEF Inductive

LEMMA DequeueNext ==
    ASSUME Inductive, Dequeue
    PROVE  Inductive'
<1>1. /\ UNCHANGED <<free, masked, refused, pending, active, todo, frame, program, waiting, edge, obeyed>>
      /\ active /\ packet = NoFrame /\ ring # <<>>
      /\ packet' = [command |-> Head(ring), blocks |-> 3]
      /\ ring' = Tail(ring) /\ receive' = None
  BY DEF Dequeue, track, COMMANDFRAME_BLOCKS
<1>2. Typed /\ Accounted /\ Started
  BY DEF Inductive
<1>3. /\ Head(ring) \in Commands /\ ring' \in Seq(Commands) /\ Len(ring') = Len(ring) - 1
      /\ Range(ring') \subseteq Range(ring) /\ Len(ring) \in Nat /\ Len(ring) <= MAXINUMQUEUES
  <2>1. ring \in Seq(Commands) /\ Len(ring) <= MAXINUMQUEUES
    BY <1>2 DEF Typed
  <2> QED
    BY <2>1, <1>1, HeadTailFacts
<1>4. packet' \in Frame /\ packet'.blocks = 3 /\ packet'.command # None
  BY <1>1, <1>3, CommandFacts DEF Frame, COMMANDFRAME_BLOCKS
<1>5. Typed'
  <2>1. Len(ring') <= MAXINUMQUEUES
    BY <1>3, MemoryAssumption
  <2> QED
    BY <2>1, <1>1, <1>2, <1>3, <1>4 DEF Typed
<1>6. Accounted'
  <2>1. PICK l \in Nat, m \in Nat, a \in Nat, b \in Nat :
           /\ l = Len(ring) /\ m = Len(ring')
           /\ a = frame["thread"].blocks /\ b = frame["task"].blocks
    BY <1>2, <1>3, TypedFacts, LenProperties
  <2>2. AccountedFor = free + 3 * l + 0 + a + b /\ AccountedFor' = free + 3 * m + 3 + a + b
    BY <2>1, <1>1, <1>4, FrameFacts DEF AccountedFor
  <2>3. m = l - 1 /\ free \in Nat
    BY <2>1, <1>2, <1>3, TypedFacts
  <2>4. AccountedFor' = AccountedFor
    BY <2>2, <2>3
  <2> QED
    BY <2>4, <1>1, <1>2 DEF Accounted
<1>7. Started'
  BY <1>1, <1>2, <1>3 DEF Started
<1> QED
  BY <1>5, <1>6, <1>7 DEF Inductive

LEMMA ExchangeNext ==
    ASSUME Inductive,
           ExchangeFails \/ ExchangeDone \/ \E c \in Controllers : ExchangeReports(c)
    PROVE  Inductive'
<1>1. /\ UNCHANGED <<free, ring, masked, refused, pending, active, packet, frame, program>>
  BY DEF ExchangeFails, ExchangeDone, ExchangeReports, memory
<1>2. Typed /\ Accounted /\ Started
  BY DEF Inductive
<1>3. /\ receive' \in AllSensors \cup {"failed", "done", None}
      /\ todo' \in Seq(LaterCommands)
      /\ waiting' \in [Controllers -> Seq(AllSensors)]
      /\ edge' \subseteq Controllers
  <2>1. CASE ExchangeFails \/ ExchangeDone
    <3>1. receive' \in {"failed", "done"} /\ UNCHANGED <<todo, waiting, edge>>
      BY <2>1 DEF ExchangeFails, ExchangeDone, track
    <3> QED
      BY <3>1, <1>2 DEF Typed
  <2>2. ASSUME NEW c \in Controllers, ExchangeReports(c)
        PROVE  /\ receive' \in AllSensors \cup {"failed", "done", None}
               /\ todo' \in Seq(LaterCommands)
               /\ waiting' \in [Controllers -> Seq(AllSensors)]
               /\ edge' \subseteq Controllers
    <3>1. waiting[c] \in Seq(AllSensors) /\ waiting[c] # <<>>
      BY <2>2, <1>2 DEF ExchangeReports, Typed
    <3>2. Head(waiting[c]) \in AllSensors /\ Tail(waiting[c]) \in Seq(AllSensors)
      BY <3>1, HeadTailFacts
    <3>3. PICK s \in AllSensors : s = Head(waiting[c])
      BY <3>2
    <3>4. receive' = s /\ todo' = <<Ack(s)>> \o FollowUps[s]
      BY <2>2, <3>3 DEF ExchangeReports
    <3>5. FollowUps[s] \in Seq(LaterCommands)
      <4>1. FollowUps[s] \in Seq(Range(FollowUps[s]))
        BY CommandsAssumption
      <4>2. Range(FollowUps[s]) \subseteq LaterCommands
        BY DEF LaterCommands
      <4> QED
        BY <4>1, <4>2, SeqOver
    <3>6. <<Ack(s)>> \o FollowUps[s] \in Seq(LaterCommands)
      BY <3>5, CommandFacts
    <3>7. waiting' = [waiting EXCEPT ![c] = Tail(waiting[c])] /\ edge' \subseteq edge \cup {c}
      BY <2>2 DEF ExchangeReports
    <3> QED
      BY <3>2, <3>4, <3>6, <3>7, <1>2 DEF Typed
  <2> QED
    BY <2>1, <2>2
<1>4. Typed'
  BY <1>1, <1>2, <1>3 DEF Typed
<1>5. Accounted'
  BY <1>1, <1>2 DEF Accounted, AccountedFor
<1>6. Started'
  BY <1>1, <1>2 DEF Started
<1> QED
  BY <1>4, <1>5, <1>6 DEF Inductive

LEMMA FinishNext ==
    ASSUME Inductive, GiveBack \/ Return
    PROVE  Inductive'
<1>1. UNCHANGED <<ring, masked, refused, pending, active, receive, todo, frame, program, waiting,
                  edge, obeyed>>
  BY DEF GiveBack, Return, memory, track
<1>2. Typed /\ Accounted /\ Started
  BY DEF Inductive
<1>3. packet \in Frame /\ free \in Nat /\ (packet.command = None => packet.blocks = 0)
  BY <1>2 DEF Typed
<1>4. /\ free' \in Nat /\ packet' \in Frame /\ free' + packet'.blocks = free + packet.blocks
      /\ packet'.command = None => packet'.blocks = 0
      /\ packet'.blocks \in Nat /\ packet.blocks \in Nat
  <2>1. CASE GiveBack
    <3>1. /\ packet.blocks > 0 /\ free' = free + 1
          /\ packet' = [packet EXCEPT !.blocks = packet.blocks - 1]
      BY <2>1 DEF GiveBack, Held
    <3>2. PICK b : b = packet.blocks - 1
      OBVIOUS
    <3>3. b \in {0, 1, 2, 3} /\ packet' = [packet EXCEPT !.blocks = b] /\ packet.blocks \in {1, 2, 3}
      BY <3>1, <3>2, <1>3, FrameFacts
    <3>4. PICK p : p = [packet EXCEPT !.blocks = b]
      OBVIOUS
    <3>5. p \in Frame /\ p.command = packet.command /\ p.blocks = b
      BY <3>3, <3>4, <1>3, BlocksUpdate
    <3> QED
      BY <3>1, <3>2, <3>3, <3>4, <3>5, <1>3
  <2>2. CASE Return
    BY <2>2, <1>3, FrameFacts DEF Return, Held, memory
  <2> QED
    BY <2>1, <2>2
<1>5. Typed'
  BY <1>1, <1>2, <1>4 DEF Typed
<1>6. Accounted'
  <2>1. PICK l \in Nat, a \in Nat, b \in Nat :
           l = Len(ring) /\ a = frame["thread"].blocks /\ b = frame["task"].blocks
    BY <1>2, TypedFacts
  <2>2. PICK p \in Nat, q \in Nat : p = packet.blocks /\ q = packet'.blocks
    BY <1>4
  <2>3. AccountedFor = free + 3 * l + p + a + b /\ AccountedFor' = free' + 3 * l + q + a + b
    BY <2>1, <2>2, <1>1 DEF AccountedFor
  <2>4. AccountedFor' = AccountedFor
    BY <2>2, <2>3, <1>3, <1>4
  <2> QED
    BY <2>4, <1>1, <1>2 DEF Accounted
<1>7. Started'
  BY <1>1, <1>2 DEF Started
<1> QED
  BY <1>5, <1>6, <1>7 DEF Inductive

-----------------------------------------------------------------------------
(* The interrupt of PORTF, and trains.                                     *)

LEMMA PassedTyped ==
    ASSUME Typed, NEW x \in Passing
    PROVE  Passed(x) \in [Controllers -> Seq(AllSensors)]
<1>1. waiting \in [Controllers -> Seq(AllSensors)] /\ x[1] \in Controllers /\ x[2] \in AllSensors
  BY DEF Typed, Passing
<1>2. Append(waiting[x[1]], x[2]) \in Seq(AllSensors)
  BY <1>1, AppendFacts
<1> QED
  BY <1>1, <1>2 DEF Passed

LEMMA InterruptNext ==
    ASSUME Inductive, Interrupt
    PROVE  Inductive'
<1>1. /\ UNCHANGED <<active, packet, receive, todo, frame, program, obeyed>>
      /\ edge' \subseteq Controllers /\ pending' = TRUE
  BY DEF Interrupt, pendsv, ClearThenRead, Risen
<1>2. Typed /\ Accounted /\ Started
  BY DEF Inductive
<1>2a. waiting' \in [Controllers -> Seq(AllSensors)]
  BY <1>2, PassedTyped DEF Interrupt, Typed
<1>3. PICK m \in MemoryState, n \in MemoryState :
        /\ Follows([free |-> free, ring |-> ring, masked |-> masked, refused |-> refused],
                   m, Input(Pin0))
        /\ Follows(m, n, Input(Pin1))
        /\ free' = n.free /\ ring' = n.ring /\ masked' = n.masked /\ refused' = n.refused
  BY <1>2, InterruptFacts
<1>4. /\ free' \in Nat /\ ring' \in Seq(Commands) /\ Len(ring') <= MAXINUMQUEUES
      /\ masked' \in BOOLEAN /\ refused' \in BOOLEAN
  BY <1>3 DEF Follows, MemoryState
<1>5. /\ m.free + 3 * Len(m.ring) <= free + 3 * Len(ring)
      /\ ~ m.refused => m.free + 3 * Len(m.ring) = free + 3 * Len(ring)
      /\ refused => m.refused
      /\ (masked => refused) => (m.masked => m.refused)
      /\ m.ring = ring \/ m.ring = Append(ring, Input(Pin0))
  BY <1>3 DEF Follows
<1>6. /\ free' + 3 * Len(ring') <= m.free + 3 * Len(m.ring)
      /\ ~ refused' => free' + 3 * Len(ring') = m.free + 3 * Len(m.ring)
      /\ m.refused => refused'
      /\ (m.masked => m.refused) => (masked' => refused')
      /\ ring' = m.ring \/ ring' = Append(m.ring, Input(Pin1))
  BY <1>3 DEF Follows
<1>7. Typed'
  BY <1>1, <1>2, <1>4, <1>2a DEF Typed
<1>8. Accounted'
  <2>0. PICK p \in Nat, a \in Nat, b \in Nat :
           p = packet.blocks /\ a = frame["thread"].blocks /\ b = frame["task"].blocks
    BY <1>2, TypedFacts
  <2>1. PICK l \in Nat, j \in Nat, k \in Nat : l = Len(ring) /\ j = Len(m.ring) /\ k = Len(ring')
    <3>1. m.ring \in Seq(Commands)
      BY DEF MemoryState
    <3> QED
      BY <3>1, <1>2, <1>4, TypedFacts
  <2>2. free \in Nat /\ m.free \in Nat /\ free' \in Nat /\ Blocks \in Nat
    BY <1>2, <1>4, TypedFacts, MemoryAssumption DEF MemoryState
  <2>3. AccountedFor = free + 3 * l + p + a + b /\ AccountedFor' = free' + 3 * k + p + a + b
    BY <2>0, <2>1, <1>1 DEF AccountedFor
  <2>4. m.free + 3 * j <= free + 3 * l /\ free' + 3 * k <= m.free + 3 * j
    BY <2>1, <2>2, <1>5, <1>6
  <2>5. AccountedFor' <= AccountedFor /\ AccountedFor \in Nat /\ AccountedFor' \in Nat
    <3>1. PICK f \in Nat, g \in Nat, h \in Nat : f = free /\ g = m.free /\ h = free'
      BY <2>2
    <3>2. g + 3 * j <= f + 3 * l /\ h + 3 * k <= g + 3 * j
      BY <2>4, <3>1
    <3>3. AccountedFor = f + 3 * l + p + a + b /\ AccountedFor' = h + 3 * k + p + a + b
      BY <2>3, <3>1
    <3>4. \A u, v, w, x, y, z, r, s, t \in Nat :
             v + 3 * y <= u + 3 * x /\ w + 3 * z <= v + 3 * y =>
               /\ w + 3 * z + r + s + t <= u + 3 * x + r + s + t
               /\ w + 3 * z + r + s + t \in Nat /\ u + 3 * x + r + s + t \in Nat
      OBVIOUS
    <3>5. /\ h + 3 * k + p + a + b <= f + 3 * l + p + a + b
          /\ h + 3 * k + p + a + b \in Nat /\ f + 3 * l + p + a + b \in Nat
      BY <3>2, <3>4
    <3> QED
      BY <3>3, <3>5
  <2>6. ASSUME ~ refused' PROVE ~ refused /\ AccountedFor' = AccountedFor
    <3>1. ~ refused /\ m.free + 3 * j = free + 3 * l /\ free' + 3 * k = m.free + 3 * j
      BY <2>1, <2>6, <1>5, <1>6
    <3> QED
      BY <3>1, <2>2, <2>3
  <2> QED
    BY <2>2, <2>5, <2>6, <1>2 DEF Accounted
<1>9. Started'
  <2>1. masked' => refused'
    BY <1>2, <1>5, <1>6 DEF Started
  <2> QED
    BY <2>1, <1>1, <1>2 DEF Started
<1> QED
  BY <1>7, <1>8, <1>9 DEF Inductive

LEMMA SensorPassesNext ==
    ASSUME Inductive, SensorPasses
    PROVE  Inductive'
<1>1. /\ UNCHANGED <<free, ring, masked, refused, pending, active, packet, receive, todo, frame,
                     program, obeyed>>
      /\ edge' = edge \cup Risen(waiting, waiting')
  BY DEF SensorPasses, memory, pendsv
<1>2. Typed /\ Accounted /\ Started
  BY DEF Inductive
<1>3. waiting' \in [Controllers -> Seq(AllSensors)] /\ edge' \subseteq Controllers
  BY <1>1, <1>2, PassedTyped DEF SensorPasses, Typed, Risen
<1>4. Typed'
  BY <1>1, <1>2, <1>3 DEF Typed
<1>5. Accounted' /\ Started'
  BY <1>1, <1>2 DEF Accounted, AccountedFor, Started
<1> QED
  BY <1>4, <1>5 DEF Inductive

-----------------------------------------------------------------------------
(* The invariant.                                                          *)

LEMMA InductiveNext == Inductive /\ [Next]_vars => Inductive'
<1> SUFFICES ASSUME Inductive, [Next]_vars PROVE Inductive'
  OBVIOUS
<1>1. CASE Thread
  BY <1>1, ThreadCommandsNext, ThreadTriggersNext, ObtainNext, EnqueueNext DEF Thread, Contexts
<1>2. CASE PendSV
  BY <1>2, EnterLeaveNext, DequeueNext, ExchangeNext, TaskCommandsNext, ObtainNext, EnqueueNext,
     FinishNext DEF PendSV, Succeeds, Contexts
<1>3. CASE ExchangeFails
  BY <1>3, ExchangeNext
<1>4. CASE Interrupt
  BY <1>4, InterruptNext
<1>5. CASE SensorPasses
  BY <1>5, SensorPassesNext
<1>6. CASE UNCHANGED vars
  BY <1>6 DEF vars, memory, pendsv, track, Inductive, Typed, Accounted, AccountedFor, Started
<1> QED
  BY <1>1, <1>2, <1>3, <1>4, <1>5, <1>6 DEF Next

LEMMA InductiveInvariant == Spec => []Inductive
  BY InductiveInit, InductiveNext, PTL DEF Spec

(* For any memory, ring, program and commands, all state of a command's    *)
(* way has its type, and never are more blocks free than there are         *)
(* (messageatmel.c:33-60, 134-136).                                        *)
THEOREM TypeCorrect == Spec => []TypeOK
<1>1. Inductive => TypeOK
  <2> SUFFICES ASSUME Typed, Accounted PROVE TypeOK
    BY DEF Inductive
  <2>1. free \in 0 .. Blocks
    <3>1. PICK p \in Nat, l \in Nat, a \in Nat, b \in Nat :
             /\ p = packet.blocks /\ l = Len(ring)
             /\ a = frame["thread"].blocks /\ b = frame["task"].blocks
      BY TypedFacts
    <3>2. free + 3 * l + p + a + b <= Blocks /\ free \in Nat /\ Blocks \in Nat
      BY <3>1, TypedFacts, MemoryAssumption DEF Accounted, AccountedFor
    <3> QED
      BY <3>2
  <2>2. todo \in Seq(Commands)
    <3>1. todo \in Seq(LaterCommands) /\ LaterCommands \subseteq Commands
      BY CommandFacts DEF Typed
    <3>2. Range(todo) \subseteq LaterCommands
      BY <3>1 DEF Range
    <3> QED
      BY <3>1, <3>2, SeqOver
  <2>3. {packet, frame["thread"], frame["task"]} \subseteq Frame
    BY TypedFacts DEF Typed
  <2>4. {masked, pending, active, refused} \subseteq BOOLEAN
    BY DEF Typed
  <2> QED
    BY <2>1, <2>2, <2>3, <2>4 DEF TypeOK, Typed, Frame
<1> QED
  BY <1>1, InductiveInvariant, PTL

(* Unless a command was refused, every block of memory has come back when  *)
(* no command is under way, for any size of memory and ring, and wherever  *)
(* the interrupt came between the steps of command_frame() or of the task  *)
(* (messageatmel.c:33-60, 134-136).                                        *)
THEOREM FramesCorrect == Spec => []FramesComeBack
<1>1. Inductive => FramesComeBack
  <2> SUFFICES ASSUME Typed, Accounted, ~ refused, ring = <<>>, packet = NoFrame,
                      \A x \in DOMAIN frame : frame[x] = NoFrame
               PROVE  free = Blocks
    BY DEF Inductive, FramesComeBack
  <2>1. frame["thread"] = NoFrame /\ frame["task"] = NoFrame
    BY TypedFacts DEF Typed
  <2>2. Len(ring) = 0 /\ free \in Nat
    BY TypedFacts
  <2> QED
    BY <2>1, <2>2, FrameFacts DEF Accounted, AccountedFor
<1> QED
  BY <1>1, InductiveInvariant, PTL

(* For any program of init() that ends with a trigger, Process() runs only *)
(* when every command of init() has left the ring, unless one was refused  *)
(* (main.c:50-65).                                                         *)
THEOREM StartupCorrect == Spec => []StartupObeyed
<1>1. Inductive => StartupObeyed
  BY DEF Inductive, Typed, Started, StartupObeyed, Runs
<1> QED
  BY <1>1, InductiveInvariant, PTL

-----------------------------------------------------------------------------
(* The refinement of CommandLine.                                          *)

InHand == IF packet # NoFrame /\ Sending THEN <<packet.command>> ELSE <<>>
LineNow == InHand \o ring

LEMMA LineIsLineNow == /\ Line!Init <=> LineNow = <<>> /\ obeyed \notin Commands
                       /\ Line!vars = <<LineNow, obeyed>>
BY DEF Line!Init, Line!vars, LineNow, InHand

LEMMA EmptyConcat ==
    ASSUME NEW S, NEW s \in Seq(S)
    PROVE  <<>> \o s = s
OBVIOUS

LEMMA ConcatAppend ==
    ASSUME NEW S, NEW p \in Seq(S), NEW s \in Seq(S), NEW e \in S
    PROVE  p \o Append(s, e) = Append(p \o s, e)
<1>1. <<e>> \in Seq(S)
  OBVIOUS
<1>2. Append(s, e) = s \o <<e>> /\ p \o s \in Seq(S)
  BY AppendFacts
<1>3. Append(p \o s, e) = (p \o s) \o <<e>>
  BY <1>2, AppendFacts
<1>4. (p \o s) \o <<e>> = p \o (s \o <<e>>)
  BY <1>1, ConcatAssociative
<1> QED
  BY <1>2, <1>3, <1>4

LEMMA AppendTwice ==
    ASSUME NEW S, NEW s \in Seq(S), NEW e \in S, NEW f \in S
    PROVE  Append(Append(s, e), f) = s \o <<e, f>>
OBVIOUS

(* The line is a sequence, and a step that adds to the ring adds to it.    *)
LEMMA LineTyped ==
    ASSUME Typed
    PROVE  /\ InHand \in Seq(Commands \cup {None}) /\ ring \in Seq(Commands \cup {None})
           /\ LineNow \in Seq(Commands \cup {None})
<1>1. packet.command \in Commands \cup {None}
  BY FrameFacts DEF Typed
<1>2. InHand \in Seq(Commands \cup {None})
  <2>1. PICK c \in Commands \cup {None} : c = packet.command
    BY <1>1
  <2>2. <<c>> \in Seq(Commands \cup {None}) /\ <<>> \in Seq(Commands \cup {None})
    OBVIOUS
  <2>3. InHand = <<c>> \/ InHand = <<>>
    BY <2>1 DEF InHand
  <2> QED
    BY <2>2, <2>3
<1>3. ring \in Seq(Commands \cup {None})
  BY DEF Typed
<1> QED
  BY <1>2, <1>3 DEF LineNow

LEMMA AcceptOne ==
    ASSUME Typed, NEW c \in Commands, InHand' = InHand, ring' = Append(ring, c), obeyed' = obeyed
    PROVE  Line!Next
<1>1. LineNow' = Append(LineNow, c)
  BY LineTyped, ConcatAppend DEF LineNow
<1> QED
  BY <1>1 DEF Line!Next, Line!Accept, LineNow, InHand

LEMMA AcceptTwo ==
    ASSUME Typed, NEW c \in Commands, NEW d \in Commands,
           InHand' = InHand, ring' = Append(Append(ring, c), d), obeyed' = obeyed
    PROVE  Line!Next
<1>1. PICK S : S = Commands \cup {None}
  OBVIOUS
<1>2. c \in S /\ d \in S /\ InHand \in Seq(S) /\ ring \in Seq(S) /\ LineNow \in Seq(S)
  BY <1>1, LineTyped
<1>3. Append(ring, c) \in Seq(S)
  BY <1>2, AppendFacts
<1>4. /\ InHand \o Append(ring, c) = Append(LineNow, c)
      /\ InHand \o Append(Append(ring, c), d) = Append(InHand \o Append(ring, c), d)
  BY <1>2, <1>3, ConcatAppend DEF LineNow
<1>5. LineNow' = Append(Append(LineNow, c), d)
  BY <1>4 DEF LineNow
<1>6. Append(Append(LineNow, c), d) = LineNow \o <<c, d>>
  BY <1>2, AppendTwice
<1> QED
  BY <1>5, <1>6 DEF Line!Next, Line!Accept, LineNow, InHand

LEMMA LineStutters ==
    ASSUME InHand' = InHand, ring' = ring, obeyed' = obeyed
    PROVE  UNCHANGED Line!vars
BY DEF Line!vars, InHand

(* Whatever leaves the packet, the answer, the ring and the commands       *)
(* obeyed as they are leaves the line as it is.                            *)
LEMMA SameLine ==
    ASSUME UNCHANGED <<packet, receive, ring, obeyed>>
    PROVE  UNCHANGED Line!vars
<1>1. InHand' = InHand
  BY DEF InHand, Sending
<1> QED
  BY <1>1, LineStutters

LEMMA EnqueueRefines ==
    ASSUME Typed, NEW x \in Contexts, Enqueue(x)
    PROVE  [Line!Next]_(Line!vars)
<1>1. /\ UNCHANGED <<packet, receive, obeyed>>
      /\ ring' = IF Full THEN ring ELSE Append(ring, frame[x].command)
      /\ frame[x].command # None
  BY DEF Enqueue, pendsv, track
<1>2. CASE Full
  BY <1>1, <1>2, SameLine
<1>3. CASE ~ Full
  <2>1. PICK c \in Commands : c = frame[x].command
    BY <1>1, TypedFacts
  <2>2. InHand' = InHand
    BY <1>1 DEF InHand, Sending
  <2> QED
    BY <2>1, <2>2, <1>1, <1>3, AcceptOne
<1> QED
  BY <1>2, <1>3

LEMMA InterruptRefines ==
    ASSUME Typed, Interrupt
    PROVE  [Line!Next]_(Line!vars)
<1>1. UNCHANGED <<packet, receive, obeyed>> /\ InHand' = InHand
  BY DEF Interrupt, pendsv, InHand, Sending
<1>2. PICK m \in MemoryState :
        /\ m.ring = ring \/ m.ring = Append(ring, Input(Pin0))
        /\ ring' = m.ring \/ ring' = Append(m.ring, Input(Pin1))
  BY InterruptFacts DEF Follows
<1>3. PICK c \in Commands, d \in Commands : c = Input(Pin0) /\ d = Input(Pin1)
  BY CommandFacts DEF Controllers
<1>4. CASE ring' = ring
  BY <1>1, <1>4, SameLine
<1>5. CASE ring' = Append(ring, c) \/ ring' = Append(ring, d)
  BY <1>1, <1>5, AcceptOne
<1>6. CASE ring' = Append(Append(ring, c), d)
  BY <1>1, <1>6, AcceptTwo
<1> QED
  BY <1>2, <1>3, <1>4, <1>5, <1>6

LEMMA DequeueRefines ==
    ASSUME Typed, Dequeue
    PROVE  UNCHANGED Line!vars
<1>1. /\ packet = NoFrame /\ ring # <<>> /\ ring' = Tail(ring) /\ receive' = None
      /\ packet' = [command |-> Head(ring), blocks |-> 3] /\ UNCHANGED obeyed
  BY DEF Dequeue, track, COMMANDFRAME_BLOCKS
<1>2. packet'.command = Head(ring) /\ packet' # NoFrame
  BY <1>1 DEF NoFrame
<1>3. InHand = <<>> /\ InHand' = <<Head(ring)>>
  BY <1>1, <1>2 DEF InHand, Sending
<1>4. ring \in Seq(Commands)
  BY TypedFacts
<1>5. ring = <<Head(ring)>> \o Tail(ring)
  BY <1>1, <1>4, HeadTailFacts
<1>6. <<>> \o ring = ring
  BY <1>4, EmptyConcat
<1>7. LineNow' = LineNow
  BY <1>1, <1>3, <1>5, <1>6 DEF LineNow
<1> QED
  BY <1>1, <1>7 DEF Line!vars, LineNow, InHand

(* An exchange that succeeds obeys the command at the head of the line.    *)
LEMMA SucceedsRefines ==
    ASSUME Typed, Succeeds
    PROVE  Line!Next
<1>1. /\ packet # NoFrame /\ Sending
      /\ ring' = ring /\ packet' = packet /\ obeyed' = packet.command
  BY DEF Succeeds, ExchangeDone, ExchangeReports, memory
<1>2. receive' \notin {None, "failed"}
  <2>1. CASE ExchangeDone
    <3>1. receive' = "done"
      BY <2>1 DEF ExchangeDone
    <3> QED
      BY <3>1, CommandsAssumption
  <2>2. ASSUME NEW c \in Controllers, ExchangeReports(c) PROVE receive' \notin {None, "failed"}
    <3>1. waiting[c] \in Seq(AllSensors) /\ waiting[c] # <<>> /\ receive' = Head(waiting[c])
      BY <2>2 DEF ExchangeReports, Typed
    <3>2. Head(waiting[c]) \in AllSensors
      BY <3>1, HeadTailFacts
    <3> QED
      BY <3>1, <3>2, CommandFacts
  <2> QED
    BY <2>1, <2>2 DEF Succeeds
<1>3. InHand = <<packet.command>> /\ InHand' = <<>>
  BY <1>1, <1>2 DEF InHand, Sending
<1>4. PICK S : S = Commands \cup {None}
  OBVIOUS
<1>5. ring \in Seq(S) /\ InHand \in Seq(S)
  BY <1>4, LineTyped
<1>6. PICK c \in S : c = packet.command
  BY <1>4, FrameFacts DEF Typed
<1>7. LineNow = <<c>> \o ring /\ LineNow' = <<>> \o ring
  BY <1>1, <1>3, <1>6 DEF LineNow
<1>8. /\ <<c>> \o ring # <<>> /\ Head(<<c>> \o ring) = c
      /\ Tail(<<c>> \o ring) = ring /\ <<>> \o ring = ring
  BY <1>5
<1>9. LineNow # <<>> /\ obeyed' = Head(LineNow) /\ LineNow' = Tail(LineNow)
  BY <1>1, <1>6, <1>7, <1>8
<1> QED
  BY <1>9 DEF Line!Next, Line!Obey, LineNow, InHand

(* GiveBack and Return come after the answer, so that no command is in     *)
(* hand before or after.                                                   *)
LEMMA FinishRefines ==
    ASSUME GiveBack \/ Return
    PROVE  UNCHANGED Line!vars
<1>1. /\ ~ Sending /\ UNCHANGED <<ring, receive, obeyed>>
  BY DEF GiveBack, Return, Finishing, memory, track
<1>2. InHand = <<>> /\ InHand' = <<>>
  BY <1>1 DEF InHand, Sending
<1> QED
  BY <1>1, <1>2, LineStutters

LEMMA FailsRefines ==
    ASSUME ExchangeFails
    PROVE  UNCHANGED Line!vars
<1>1. /\ packet # NoFrame /\ Sending /\ receive' = "failed"
      /\ UNCHANGED <<packet, ring, obeyed>>
  BY DEF ExchangeFails, memory, track
<1>2. InHand' = InHand
  BY <1>1 DEF InHand, Sending
<1> QED
  BY <1>1, <1>2, LineStutters

LEMMA InitRefines == Init => Line!Init
<1> SUFFICES ASSUME Init PROVE Line!Init
  OBVIOUS
<1>1. InHand = <<>> /\ ring = <<>> /\ obeyed = None
  BY DEF Init, InHand
<1>2. <<>> \o <<>> = <<>>
  OBVIOUS
<1>3. LineNow = <<>>
  BY <1>1, <1>2 DEF LineNow
<1> QED
  BY <1>1, <1>3, CommandFacts DEF Line!Init, LineNow, InHand

LEMMA NextRefines == Inductive /\ [Next]_vars => [Line!Next]_(Line!vars)
<1> SUFFICES ASSUME Typed, [Next]_vars PROVE [Line!Next]_(Line!vars)
  BY DEF Inductive
<1>1. ASSUME NEW x \in Contexts, Obtain(x) PROVE [Line!Next]_(Line!vars)
  BY <1>1, SameLine DEF Obtain, pendsv, track
<1>2. ASSUME ThreadCommands \/ ThreadTriggers \/ EnterPendSV \/ LeavePendSV \/ TaskCommands
      PROVE  [Line!Next]_(Line!vars)
  BY <1>2, SameLine DEF ThreadCommands, ThreadTriggers, EnterPendSV, LeavePendSV, TaskCommands,
     memory, pendsv, track
<1>3. CASE Thread
  BY <1>1, <1>2, <1>3, EnqueueRefines DEF Thread, Contexts
<1>4. CASE PendSV
  BY <1>1, <1>2, <1>4, EnqueueRefines, DequeueRefines, SucceedsRefines, FinishRefines
     DEF PendSV, Contexts
<1>5. CASE ExchangeFails
  BY <1>5, FailsRefines
<1>6. CASE Interrupt
  BY <1>6, InterruptRefines
<1>7. CASE SensorPasses
  BY <1>7, SameLine DEF SensorPasses, memory, pendsv
<1>8. CASE UNCHANGED vars
  BY <1>8, SameLine DEF vars, memory, pendsv, track
<1> QED
  BY <1>3, <1>4, <1>5, <1>6, <1>7, <1>8 DEF Next

(* For any memory, ring, program and commands, and however often a frame   *)
(* must be sent, commands are obeyed in the order they were accepted, each *)
(* once (messageatmel.c:119-128).                                          *)
THEOREM Refinement == Spec => LineSpec
<1>1. Init => Line!Init
  BY InitRefines
<1>2. Inductive /\ [Next]_vars => [Line!Next]_(Line!vars)
  BY NextRefines
<1> QED
  BY <1>1, <1>2, InductiveInvariant, PTL DEF Spec, LineSpec, Line!Spec
=============================================================================

---------------------------- MODULE MemoryProofs ----------------------------
(***************************************************************************)
(* Proofs about Memory for every geometry that satisfies the assumptions   *)
(* of MemoryLayout: typing, the free lists, and the refinement of          *)
(* BlockPool.                                                              *)
(***************************************************************************)
EXTENDS Memory, FiniteSetTheorems, TLAPS

-----------------------------------------------------------------------------
(* Arithmetic of the layout.                                               *)

(* Division by a positive number leaves a remainder below it.              *)
LEMMA Division ==
    ASSUME NEW a \in Nat, NEW b \in Nat \ {0}
    PROVE  /\ a \div b \in Nat
           /\ a % b \in 0 .. b - 1
           /\ a = b * (a \div b) + (a % b)
  OBVIOUS

(* The same with names for quotient and remainder.                         *)
LEMMA Quotient ==
    ASSUME NEW a \in Nat, NEW b \in Nat \ {0},
           NEW q, q = a \div b, NEW r, r = a % b
    PROVE  q \in Nat /\ r \in Nat /\ r < b /\ a = q * b + r
  BY Division

(* A number below c * b has a quotient below c.                            *)
LEMMA QuotientBound ==
    ASSUME NEW a \in Nat, NEW b \in Nat \ {0}, NEW c \in Nat, a < c * b
    PROVE  /\ a \div b \in 0 .. c - 1
           /\ a % b \in 0 .. b - 1
           /\ a = (a \div b) * b + (a % b)
<1>1. /\ a \div b \in Nat /\ a % b \in 0 .. b - 1
      /\ a = (a \div b) * b + (a % b)
  BY Quotient
<1>2. c <= a \div b => c * b <= (a \div b) * b
  BY <1>1
<1> QED
  BY <1>1, <1>2

(* Quotient and remainder are unique.                                      *)
LEMMA DivisionUnique ==
    ASSUME NEW b \in Nat \ {0}, NEW q \in Nat, NEW r \in 0 .. b - 1,
           NEW a \in Nat, a = q * b + r
    PROVE  a \div b = q /\ a % b = r
  OBVIOUS

(* Multiplication by a natural number is monotone.                         *)
LEMMA Monotone ==
    ASSUME NEW a \in Nat, NEW b \in Nat, NEW c \in Nat, a <= b
    PROVE  a * c <= b * c
  OBVIOUS

(* No descriptor belongs to two levels.                                    *)
LEMMA LevelsDisjoint ==
    ASSUME NEW k \in Levels, NEW l \in Levels, NEW i,
           i \in LevelIndices(k), i \in LevelIndices(l)
    PROVE  k = l
<1>1. /\ k \in Int /\ l \in Int
      /\ FirstIndex[k] \in Nat /\ FirstIndex[l] \in Nat
      /\ Count[k] \in Nat /\ Count[l] \in Nat
  BY SizesAssumption DEF Levels
<1>2. ~ k < l
  BY <1>1, OrderAssumption DEF LevelIndices
<1>3. ~ l < k
  BY <1>1, OrderAssumption DEF LevelIndices
<1> QED
  BY <1>1, <1>2, <1>3

(* The level field of a descriptor is the level it belongs to.             *)
LEMMA LevelOfIndex ==
    ASSUME NEW l \in Levels, NEW i \in LevelIndices(l)
    PROVE  GET_LEVEL(i) = l
  BY LevelsDisjoint DEF GET_LEVEL

(* Every descriptor has a level.                                           *)
LEMMA IndexLevel ==
    ASSUME NEW i \in Index
    PROVE  GET_LEVEL(i) \in Levels /\ i \in LevelIndices(GET_LEVEL(i))
  BY DEF GET_LEVEL, Index

(* The first byte of every block lies in the region of its level.          *)
LEMMA OffsetInRegion ==
    ASSUME NEW l \in Levels, NEW i \in LevelIndices(l)
    PROVE  LET k == i - FirstIndex[l]
           IN  /\ GET_LEVEL(i) = l
               /\ k \in Nat
               /\ GET_OFFSET(i) = l * RegionSize + k * BlockSize[l]
               /\ k * BlockSize[l] + BlockSize[l] <= RegionSize
               /\ k * BlockSize[l] \in Nat
<1> DEFINE k == i - FirstIndex[l]
           b == BlockSize[l]
<1>1. GET_LEVEL(i) = l
  BY LevelOfIndex
<1>2. /\ FirstIndex[l] \in Nat /\ Count[l] \in Nat /\ b \in Nat
      /\ Count[l] * b = RegionSize
  BY SizesAssumption
<1>3. k \in Nat /\ k + 1 <= Count[l]
  BY <1>2 DEF LevelIndices
<1>4. (k + 1) * b <= Count[l] * b
  BY <1>2, <1>3, Monotone
<1>5. (k + 1) * b = k * b + b /\ k * b \in Nat
  BY <1>2, <1>3
<1> QED
  BY <1>1, <1>2, <1>3, <1>4, <1>5 DEF GET_OFFSET

(* An address below the managed memory wraps to a region beyond the last.  *)
LEMMA RegionInLevels ==
    ASSUME NEW address \in 0 .. Word - 1, Region(address) \in Levels
    PROVE  /\ address >= ADDDRESS_BASE
           /\ (address - ADDDRESS_BASE) % Word = address - ADDDRESS_BASE
<1> DEFINE t == (address - ADDDRESS_BASE) % Word
<1>1. /\ ADDDRESS_BASE \in Nat /\ Word \in Nat /\ NumLevels \in Nat \ {0}
      /\ RegionSize \in Nat \ {0} /\ NumLevels * RegionSize \in Nat
      /\ ADDDRESS_BASE + NumLevels * RegionSize <= Word
  BY SizesAssumption, AddressAssumption
<1>2. CASE address >= ADDDRESS_BASE
  <2> DEFINE d == address - ADDDRESS_BASE
  <2>1. d \in Nat /\ d \in 0 .. Word - 1 /\ d = 0 * Word + d /\ Word \in Nat \ {0}
    BY <1>1, <1>2
  <2>2. d % Word = d
    BY <2>1, DivisionUnique
  <2> QED
    BY <1>2, <2>2
<1>3. CASE address < ADDDRESS_BASE
  <2> DEFINE d == address - ADDDRESS_BASE + Word
  <2>1. /\ d \in 0 .. Word - 1 /\ d >= NumLevels * RegionSize
        /\ Word \in Nat \ {0} /\ address - ADDDRESS_BASE \in Int
    BY <1>1, <1>3
  <2>2. t = d
    BY <2>1, <1>1, <1>3
  <2>3. PICK r \in 0 .. RegionSize - 1 :
             /\ Region(address) \in Nat
             /\ d = Region(address) * RegionSize + r
    <3>1. Region(address) = d \div RegionSize
      BY <2>2 DEF Region
    <3>2. d \in Nat
      BY <2>1, <1>1
    <3>3. PICK e : e = d
      OBVIOUS
    <3>4. PICK q : q = e \div RegionSize
      OBVIOUS
    <3>5. PICK r : r = e % RegionSize
      OBVIOUS
    <3>6. q \in Nat /\ r \in Nat /\ r < RegionSize /\ e = q * RegionSize + r
      <4>1. e \in Nat /\ RegionSize \in Nat \ {0}
        BY <3>2, <3>3, <1>1
      <4> QED
        BY <3>4, <3>5, <4>1
    <3> QED
      BY <3>1, <3>3, <3>4, <3>6, <1>1
  <2>4. Region(address) + 1 <= NumLevels
    BY <2>3, <1>1 DEF Levels
  <2>5. (Region(address) + 1) * RegionSize <= NumLevels * RegionSize
    BY <2>4, <2>3, <1>1, Monotone
  <2>6. (Region(address) + 1) * RegionSize = Region(address) * RegionSize + RegionSize
    BY <2>3, <1>1
  <2> QED
    BY <2>1, <2>3, <2>5, <2>6, <1>1
<1> QED
  BY <1>1, <1>2, <1>3

(* deallocate() computes the block that contains the address.              *)
LEMMA TargetContains ==
    ASSUME NEW address \in 0 .. Word - 1, Region(address) \in Levels
    PROVE  /\ TargetIndex(address) \in LevelIndices(Region(address))
           /\ address \in Bytes(TargetIndex(address))
<1> DEFINE l == Region(address)
           b == BlockSize[l]
<1>1. /\ ADDDRESS_BASE \in Nat /\ RegionSize \in Nat \ {0}
      /\ b \in Nat \ {0} /\ Count[l] \in Nat /\ FirstIndex[l] \in Nat
      /\ l \in Nat
  BY SizesAssumption, AddressAssumption DEF Levels
<1>2. PICK d \in Nat : /\ d = address - ADDDRESS_BASE
                       /\ (address - ADDDRESS_BASE) % Word = d
  BY <1>1, RegionInLevels
<1>3. PICK o \in Nat : /\ o = d % RegionSize /\ o < Count[l] * b
                       /\ d = l * RegionSize + o
  <2>1. l = d \div RegionSize
    BY <1>2 DEF Region
  <2>2. PICK q : q = d \div RegionSize
    OBVIOUS
  <2>3. PICK o : o = d % RegionSize
    OBVIOUS
  <2>4. o \in Nat /\ o < RegionSize /\ d = q * RegionSize + o
    <3>1. d \in Nat /\ RegionSize \in Nat \ {0}
      BY <1>1, <1>2
    <3> QED
      BY <2>2, <2>3, <3>1
  <2>5. Count[l] * b = RegionSize
    BY SizesAssumption
  <2> QED
    BY <2>1, <2>2, <2>3, <2>4, <2>5
<1>4. PICK k \in 0 .. Count[l] - 1 :
          k = o \div b /\ o % b \in 0 .. b - 1 /\ o = k * b + (o % b)
  BY <1>1, <1>3, QuotientBound
<1> k \in 0 .. Count[l] - 1
  BY <1>4
<1>5. TargetIndex(address) = FirstIndex[l] + k
  BY <1>2, <1>3, <1>4 DEF TargetIndex
<1>6. TargetIndex(address) \in LevelIndices(l)
  <2>1. FirstIndex[l] + k \in LevelIndices(l)
    <3> HIDE DEF l
    <3> QED
      BY <1>1 DEF LevelIndices
  <2> QED
    BY <2>1, <1>5
<1>7. /\ GET_LEVEL(TargetIndex(address)) = l
      /\ GET_OFFSET(TargetIndex(address)) = l * RegionSize + k * b
      /\ k * b \in Nat /\ l * RegionSize \in Nat
  <2>1. TargetIndex(address) - FirstIndex[l] = k
    <3> HIDE DEF l
    <3> QED
      BY <1>1, <1>5
  <2>2. l * RegionSize \in Nat
    BY <1>1
  <2> QED
    BY <2>1, <2>2, <1>6, OffsetInRegion
<1>8. address = ADDDRESS_BASE + GET_OFFSET(TargetIndex(address)) + (o % b)
  BY <1>1, <1>2, <1>3, <1>4, <1>7
<1> QED
  BY <1>1, <1>4, <1>6, <1>7, <1>8 DEF Bytes

(* ... and no other block contains it.                                     *)
LEMMA ContainsIsTarget ==
    ASSUME NEW address \in 0 .. Word - 1, NEW i \in Index,
           address \in Bytes(i)
    PROVE  Region(address) \in Levels /\ TargetIndex(address) = i
<1> DEFINE l == GET_LEVEL(i)
           b == BlockSize[l]
<1>1. l \in Levels /\ i \in LevelIndices(l)
  BY IndexLevel
<1>2. /\ ADDDRESS_BASE \in Nat /\ RegionSize \in Nat \ {0} /\ Word \in Nat
      /\ b \in Nat \ {0} /\ FirstIndex[l] \in Nat /\ l \in Nat /\ i \in Int
  BY <1>1, SizesAssumption, AddressAssumption DEF Levels, LevelIndices
<1>3. PICK k \in Nat : /\ i = FirstIndex[l] + k
                       /\ k * b \in Nat /\ k * b + b <= RegionSize
                       /\ GET_OFFSET(i) = l * RegionSize + k * b
  BY <1>1, <1>2, OffsetInRegion
<1>4. PICK r \in 0 .. b - 1 : address = ADDDRESS_BASE + GET_OFFSET(i) + r
  <2>1. l * RegionSize \in Nat
    BY <1>2
  <2>2. GET_OFFSET(i) \in Nat
    BY <2>1, <1>3
  <2> QED
    BY <2>2, <1>2 DEF Bytes
<1>5. PICK o \in 0 .. RegionSize - 1 : o = k * b + r
  BY <1>2, <1>3, <1>4
<1>6. PICK d \in Nat : d = address - ADDDRESS_BASE /\ d = l * RegionSize + o
  <2>1. l * RegionSize \in Nat
    BY <1>2
  <2> QED
    BY <2>1, <1>2, <1>3, <1>4, <1>5
<1>7. (address - ADDDRESS_BASE) % Word = d
  <2>1. d \in 0 .. Word - 1 /\ Word \in Nat \ {0} /\ d = 0 * Word + d
    BY <1>2, <1>6
  <2> QED
    BY <2>1, <1>6, DivisionUnique
<1>8. d \div RegionSize = l /\ d % RegionSize = o
  <2>1. /\ RegionSize \in Nat \ {0} /\ l \in Nat /\ o \in 0 .. RegionSize - 1
        /\ d \in Nat /\ d = l * RegionSize + o
    BY <1>2, <1>6
  <2> HIDE DEF l
  <2> QED
    BY <2>1
<1>9. o \div b = k
  <2>1. /\ b \in Nat \ {0} /\ k \in Nat /\ r \in 0 .. b - 1
        /\ o \in Nat /\ o = k * b + r
    BY <1>2, <1>3, <1>4, <1>5
  <2> HIDE DEF b
  <2> QED
    BY <2>1
<1>10. Region(address) = l
  BY <1>7, <1>8 DEF Region
<1>11. TargetIndex(address) = FirstIndex[l] + k
  BY <1>7, <1>8, <1>9, <1>10 DEF TargetIndex
<1> QED
  BY <1>1, <1>3, <1>10, <1>11

-----------------------------------------------------------------------------
(* Typing.                                                                 *)

(* The address of a block is a natural number other than NULL.             *)
LEMMA BlockAddress ==
    ASSUME NEW i \in Index
    PROVE  ADDDRESS_BASE + GET_OFFSET(i) \in Nat \ {NULL}
<1> DEFINE l == GET_LEVEL(i)
<1>1. l \in Levels /\ i \in LevelIndices(l)
  BY IndexLevel
<1>2. GET_OFFSET(i) = l * RegionSize + (i - FirstIndex[l]) * BlockSize[l]
      /\ (i - FirstIndex[l]) * BlockSize[l] \in Nat
  BY <1>1, OffsetInRegion
<1>3. l * RegionSize \in Nat
  BY <1>1, SizesAssumption DEF Levels
<1> QED
  BY <1>2, <1>3, AddressAssumption DEF NULL

(* NULL_INDEX is the index of no block.                                    *)
LEMMA NullIndex ==
    ASSUME NEW l \in Levels
    PROVE  LevelIndices(l) \subseteq Index /\ NULL_INDEX \notin LevelIndices(l)
  BY AddressAssumption DEF Index

(* A block that is released is in use, and it is the one that contains the *)
(* address.                                                                *)
LEMMA Released ==
    ASSUME NEW address \in Addresses, ~ Rejected(address)
    PROVE  LET i == TargetIndex(address)
           IN  /\ i \in Index /\ GET_LEVEL(i) \in Levels
               /\ i \in LevelIndices(GET_LEVEL(i))
               /\ ~ memory_management[i].free
               /\ address \in Bytes(i)
<1>1. address \in 0 .. Word - 1
  BY CallersAssumption
<1>2. /\ Region(address) \in Levels
      /\ ~ memory_management[TargetIndex(address)].free
  BY DEF Rejected
<1> QED
  BY <1>1, <1>2, TargetContains, LevelOfIndex, NullIndex

(* The two arrays, and what allocate() and deallocate() do to each entry.   *)
Descriptor == [free : BOOLEAN, index : Index \cup {NULL_INDEX}]
Control == [current : Index \cup {NULL_INDEX}, last : Index]

LEMMA AllocateEffect ==
    ASSUME TypeOK, NEW l \in Levels, NEW size, AllocateFrom(l, size)
    PROVE  LET i == memory_control[l].current
           IN  /\ i \in LevelIndices(l)
               /\ memory_management' \in [Index -> Descriptor]
               /\ memory_management'[i].free = FALSE
               /\ memory_management'[i].index = memory_management[i].index
               /\ \A j \in Index \ {i} : memory_management'[j] = memory_management[j]
               /\ memory_control' \in [Levels -> Control]
               /\ memory_control'[l].current = memory_management[i].index
               /\ memory_control'[l].last = memory_control[l].last
               /\ \A k \in Levels \ {l} : memory_control'[k] = memory_control[k]
<1>1. PICK i : i = memory_control[l].current
  OBVIOUS
<1>2. i \in LevelIndices(l)
  BY <1>1 DEF TypeOK, AllocateFrom, Available
<1>3. i \in Index
  BY <1>2, NullIndex
<1>4. /\ memory_management \in [Index -> Descriptor]
      /\ memory_control \in [Levels -> Control]
  BY DEF TypeOK, Descriptor, Control
<1>5. /\ memory_management' = [memory_management EXCEPT ![i].free = FALSE]
      /\ memory_control' = [memory_control EXCEPT
                              ![l].current = memory_management[i].index]
  BY <1>1 DEF AllocateFrom
<1>6. /\ memory_management' \in [Index -> Descriptor]
      /\ memory_management'[i].free = FALSE
      /\ memory_management'[i].index = memory_management[i].index
      /\ \A j \in Index \ {i} : memory_management'[j] = memory_management[j]
  BY <1>3, <1>4, <1>5 DEF Descriptor
<1>7. memory_management[i].index \in Index \cup {NULL_INDEX}
  BY <1>3, <1>4 DEF Descriptor
<1>8. /\ memory_control' \in [Levels -> Control]
      /\ memory_control'[l].current = memory_management[i].index
      /\ memory_control'[l].last = memory_control[l].last
      /\ \A k \in Levels \ {l} : memory_control'[k] = memory_control[k]
  BY <1>4, <1>5, <1>7 DEF Control
<1> QED
  BY <1>1, <1>2, <1>6, <1>8

(* The level had no free block left.                                       *)
LEMMA ReleaseFirst ==
    ASSUME TypeOK, NEW l \in Levels, NEW i \in LevelIndices(l), Release(i),
           memory_control[l].current = NULL_INDEX
    PROVE  /\ memory_management' \in [Index -> Descriptor]
           /\ memory_management'[i] = [free |-> TRUE, index |-> NULL_INDEX]
           /\ \A j \in Index : j # i => memory_management'[j] = memory_management[j]
           /\ memory_control' \in [Levels -> Control]
           /\ memory_control'[l] = [current |-> i, last |-> i]
           /\ \A k \in Levels : k # l => memory_control'[k] = memory_control[k]
<1>1. l = GET_LEVEL(i) /\ i \in Index
  BY LevelOfIndex, NullIndex
<1>2. /\ memory_management \in [Index -> Descriptor]
      /\ memory_control \in [Levels -> Control]
  BY DEF TypeOK, Descriptor, Control
<1>3. /\ memory_control' = [memory_control EXCEPT ![l] = [current |-> i, last |-> i]]
      /\ memory_management' = [memory_management EXCEPT
                                 ![i] = [free |-> TRUE, index |-> NULL_INDEX]]
  BY <1>1 DEF Release
<1> QED
  BY <1>1, <1>2, <1>3 DEF Descriptor, Control

(* The level had a tail.                                                   *)
LEMMA ReleaseNext ==
    ASSUME TypeOK, NEW l \in Levels, NEW i \in LevelIndices(l), Release(i),
           memory_control[l].current # NULL_INDEX
    PROVE  LET last == memory_control[l].last
           IN  /\ last \in Index
               /\ memory_management' \in [Index -> Descriptor]
               /\ memory_management'[i] = [free |-> TRUE, index |-> NULL_INDEX]
               /\ last # i =>
                    memory_management'[last] = [free |-> memory_management[last].free,
                                                index |-> i]
               /\ memory_control' \in [Levels -> Control]
               /\ memory_control'[l] = [current |-> memory_control[l].current,
                                        last |-> i]
               /\ \A k \in Levels : k # l => memory_control'[k] = memory_control[k]
<1>1. l = GET_LEVEL(i) /\ i \in Index
  BY LevelOfIndex, NullIndex
<1>2. /\ memory_management \in [Index -> Descriptor]
      /\ memory_control \in [Levels -> Control]
  BY DEF TypeOK, Descriptor, Control
<1>3. PICK last \in Index : last = memory_control[l].last
  BY DEF TypeOK
<1>4. /\ memory_control' = [memory_control EXCEPT ![l].last = i]
      /\ memory_management' = [memory_management EXCEPT
                                 ![last].index = i,
                                 ![i] = [free |-> TRUE, index |-> NULL_INDEX]]
  BY <1>1, <1>3 DEF Release
<1>5. /\ memory_management' \in [Index -> Descriptor]
      /\ memory_management'[i] = [free |-> TRUE, index |-> NULL_INDEX]
      /\ last # i =>
           memory_management'[last] = [free |-> memory_management[last].free,
                                       index |-> i]
  BY <1>1, <1>2, <1>4 DEF Descriptor
<1>6. /\ memory_control' \in [Levels -> Control]
      /\ memory_control'[l] = [current |-> memory_control[l].current, last |-> i]
      /\ \A k \in Levels : k # l => memory_control'[k] = memory_control[k]
  BY <1>1, <1>2, <1>4 DEF Control
<1> QED
  BY <1>3, <1>5, <1>6

(* Every other descriptor keeps its word.                                  *)
LEMMA ReleaseElsewhere ==
    ASSUME TypeOK, NEW l \in Levels, NEW i \in LevelIndices(l), Release(i),
           NEW x \in Index, x # i, x # memory_control[l].last
    PROVE  memory_management'[x] = memory_management[x]
<1>1. l = GET_LEVEL(i) /\ i \in Index
  BY LevelOfIndex, NullIndex
<1>2. memory_management \in [Index -> Descriptor]
  BY DEF TypeOK, Descriptor
<1>3. PICK last \in Index : last = memory_control[l].last
  BY DEF TypeOK
<1>4. \/ memory_management' = [memory_management EXCEPT
                                 ![i] = [free |-> TRUE, index |-> NULL_INDEX]]
      \/ memory_management' = [memory_management EXCEPT
                                 ![last].index = i,
                                 ![i] = [free |-> TRUE, index |-> NULL_INDEX]]
  BY <1>1, <1>3 DEF Release
<1> QED
  BY <1>1, <1>2, <1>3, <1>4

LEMMA AllocateElsewhere ==
    ASSUME TypeOK, NEW l \in Levels, NEW size, AllocateFrom(l, size),
           NEW x \in Index, x # memory_control[l].current
    PROVE  memory_management'[x] = memory_management[x]
<1>1. PICK i : i = memory_control[l].current
  OBVIOUS
<1>2. memory_management \in [Index -> Descriptor]
  BY DEF TypeOK, Descriptor
<1>3. memory_management' = [memory_management EXCEPT ![i].free = FALSE]
  BY <1>1 DEF AllocateFrom
<1> QED
  BY <1>1, <1>2, <1>3

LEMMA InitTyped == Init => TypeOK
<1> SUFFICES ASSUME Init PROVE TypeOK
  OBVIOUS
<1> USE DEF Init
<1>1. ASSUME NEW l \in Levels, NEW i \in LevelIndices(l)
      PROVE  NextInLevel(i) \in LevelIndices(l) \cup {NULL_INDEX}
  BY LevelOfIndex DEF NextInLevel
<1>2. ASSUME NEW l \in Levels
      PROVE  /\ FirstIndex[l] \in LevelIndices(l)
             /\ FirstIndex[l] + Count[l] - 1 \in LevelIndices(l)
  BY SizesAssumption DEF LevelIndices
<1>3. ASSUME NEW i \in Index
      PROVE  NextInLevel(i) \in Index \cup {NULL_INDEX}
  BY <1>1, IndexLevel, NullIndex
<1>4. ASSUME NEW l \in Levels, NEW i \in LevelIndices(l)
      PROVE  i \in Index
  BY NullIndex
<1> QED
  BY <1>1, <1>2, <1>3, <1>4 DEF TypeOK, C_TRUE

LEMMA NextTyped == TypeOK /\ [Next]_vars => TypeOK'
<1> SUFFICES ASSUME TypeOK, [Next]_vars PROVE TypeOK'
  OBVIOUS
<1>1. ASSUME NEW size \in Requests, NEW l \in Levels, AllocateFrom(l, size)
      PROVE  TypeOK'
  <2> DEFINE i == memory_control[l].current
  <2>1. i \in LevelIndices(l) /\ i \in Index
    BY <1>1, NullIndex DEF TypeOK, AllocateFrom, Available
  <2>2. memory_management[i].index \in LevelIndices(l) \cup {NULL_INDEX}
    BY <2>1 DEF TypeOK
  <2>3. reply' \in [call : {"initial_memory", "allocate", "deallocate"},
                    arg : Nat, result : Nat]
    <3>1. size \in Nat
      BY CallersAssumption
    <3> QED
      BY <3>1, <2>1, <1>1, BlockAddress DEF AllocateFrom
  <2>4. /\ memory_management' \in [Index -> Descriptor]
        /\ \A j \in Index : memory_management'[j].index = memory_management[j].index
        /\ memory_control' \in [Levels -> Control]
    BY <1>1, AllocateEffect
  <2>5. \A k \in Levels :
             /\ memory_control'[k].current \in LevelIndices(k) \cup {NULL_INDEX}
             /\ memory_control'[k].last \in LevelIndices(k)
    BY <2>2, <1>1, AllocateEffect DEF TypeOK
  <2>6. \A k \in Levels : \A j \in LevelIndices(k) :
           memory_management'[j].index \in LevelIndices(k) \cup {NULL_INDEX}
    BY <2>4, NullIndex DEF TypeOK
  <2> QED
    BY <2>3, <2>4, <2>5, <2>6 DEF TypeOK, Descriptor, Control
<1>2. ASSUME NEW size \in Requests, AllocateFails(size)
      PROVE  TypeOK'
  BY <1>2, CallersAssumption DEF TypeOK, AllocateFails, NULL
<1>3. ASSUME NEW address \in Addresses, DeallocateBlock(address)
      PROVE  TypeOK'
  <2> DEFINE i == TargetIndex(address)
             l == GET_LEVEL(i)
             last == memory_control[l].last
  <2>1. i \in Index /\ l \in Levels /\ i \in LevelIndices(l)
    BY <1>3, Released DEF DeallocateBlock
  <2>2. last \in LevelIndices(l) /\ last \in Index
    BY <2>1, NullIndex DEF TypeOK
  <2>3. reply' \in [call : {"initial_memory", "allocate", "deallocate"},
                    arg : Nat, result : Nat]
    <3>1. address \in Nat
      BY CallersAssumption
    <3> QED
      BY <3>1, <1>3 DEF DeallocateBlock, C_TRUE
  <2>4. Release(i)
    BY <1>3 DEF DeallocateBlock
  <2> HIDE DEF i
  <2>5. /\ memory_management' \in [Index -> Descriptor]
        /\ \A j \in Index : \/ memory_management'[j].index = memory_management[j].index
                            \/ j = i /\ memory_management'[j].index = NULL_INDEX
                            \/ j = last /\ memory_management'[j].index = i
        /\ memory_control' \in [Levels -> Control]
        /\ \/ memory_control'[l] = [current |-> i, last |-> i]
           \/ memory_control'[l] = [current |-> memory_control[l].current, last |-> i]
        /\ \A k \in Levels : k # l => memory_control'[k] = memory_control[k]
    <3> HIDE DEF l
    <3>1. CASE memory_control[l].current = NULL_INDEX
      BY <3>1, <2>1, <2>4, ReleaseFirst
    <3>2. CASE memory_control[l].current # NULL_INDEX
      <4>1. /\ memory_management' \in [Index -> Descriptor]
            /\ memory_management'[i] = [free |-> TRUE, index |-> NULL_INDEX]
            /\ last # i =>
                 memory_management'[last] = [free |-> memory_management[last].free,
                                             index |-> i]
            /\ memory_control' \in [Levels -> Control]
            /\ memory_control'[l] = [current |-> memory_control[l].current, last |-> i]
            /\ \A k \in Levels : k # l => memory_control'[k] = memory_control[k]
        BY <3>2, <2>1, <2>4, ReleaseNext
      <4>2. \A j \in Index : j # i /\ j # last =>
                memory_management'[j] = memory_management[j]
        BY <2>1, <2>4, ReleaseElsewhere
      <4> QED
        BY <4>1, <4>2
    <3> QED
      BY <3>1, <3>2
  <2>6. \A k \in Levels : \A j \in LevelIndices(k) :
           memory_management'[j].index \in LevelIndices(k) \cup {NULL_INDEX}
    BY <2>1, <2>2, <2>5, NullIndex, LevelsDisjoint DEF TypeOK
  <2>7. \A k \in Levels :
             /\ memory_control'[k].current \in LevelIndices(k) \cup {NULL_INDEX}
             /\ memory_control'[k].last \in LevelIndices(k)
    BY <2>1, <2>5 DEF TypeOK
  <2> QED
    BY <2>3, <2>5, <2>6, <2>7 DEF TypeOK, Descriptor, Control
<1>4. ASSUME NEW address \in Addresses, DeallocateRejected(address)
      PROVE  TypeOK'
  BY <1>4, CallersAssumption DEF TypeOK, DeallocateRejected, C_FALSE
<1>5. CASE UNCHANGED vars
  BY <1>5 DEF TypeOK, vars
<1> QED
  BY <1>1, <1>2, <1>3, <1>4, <1>5 DEF Next

(* Every link and list end stays in its own level, in every reachable      *)
(* state: allocate() indexes memory_management in bounds.                  *)
THEOREM TypeCorrect == Spec => []TypeOK
<1>1. Init => TypeOK
  BY InitTyped
<1>2. TypeOK /\ [Next]_vars => TypeOK'
  BY NextTyped
<1> QED
  BY <1>1, <1>2, PTL DEF Spec

-----------------------------------------------------------------------------
(* The free lists.                                                         *)

(* FreeListsWellFormed without its bound: the form that is inductive.      *)
FreeList(l) == \E n \in Nat : \E s \in [1 .. n -> FreeIn(l)] : IsFreeList(l, n, s)
FreeListsExist == \A l \in Levels : FreeList(l)

(* A list without repetition is no longer than its level.                  *)
LEMMA ListLength ==
    ASSUME NEW l \in Levels, NEW n \in Nat, NEW s \in [1 .. n -> FreeIn(l)],
           IsFreeList(l, n, s)
    PROVE  n <= Count[l]
<1>1. Count[l] \in Nat \ {0} /\ FirstIndex[l] \in Nat
  BY SizesAssumption
<1>2. /\ IsFiniteSet(1 .. n) /\ Cardinality(1 .. n) = n
  <2>1. 1 > n => n = 0
    OBVIOUS
  <2> QED
    BY <2>1, FS_Interval
<1>3. IsFiniteSet(LevelIndices(l)) /\ Cardinality(LevelIndices(l)) = Count[l]
  <2> DEFINE a == FirstIndex[l]
             b == FirstIndex[l] + Count[l] - 1
  <2>1. a \in Int /\ b \in Int /\ ~ a > b /\ b - a + 1 = Count[l]
    BY <1>1
  <2>2. IsFiniteSet(a .. b) /\ Cardinality(a .. b) = b - a + 1
    <3> HIDE DEF a, b
    <3> QED
      BY <2>1, FS_Interval
  <2> QED
    BY <2>1, <2>2 DEF LevelIndices
<1>4. s \in [1 .. n -> LevelIndices(l)]
  BY DEF FreeIn
<1>5. ~ Count[l] < n
  <2>1. SUFFICES ASSUME Count[l] < n PROVE FALSE
    OBVIOUS
  <2>2. \E x, y \in 1 .. n : x # y /\ s[x] = s[y]
    BY <2>1, <1>2, <1>3, <1>4, FS_PigeonHole
  <2> QED
    BY <2>2 DEF IsFreeList
<1> QED
  BY <1>1, <1>5

LEMMA ListsBounded == FreeListsExist => FreeListsWellFormed
<1> SUFFICES ASSUME FreeListsExist, NEW l \in Levels
             PROVE  \E n \in 0 .. Count[l] : \E s \in [1 .. n -> FreeIn(l)] :
                        IsFreeList(l, n, s)
  BY DEF FreeListsWellFormed
<1>0. PICK n \in Nat : \E s \in [1 .. n -> FreeIn(l)] : IsFreeList(l, n, s)
  BY DEF FreeListsExist, FreeList
<1>1. PICK s \in [1 .. n -> FreeIn(l)] : IsFreeList(l, n, s)
  BY <1>0
<1>2. n <= Count[l] /\ Count[l] \in Nat
  BY <1>1, ListLength, SizesAssumption
<1> QED
  BY <1>1, <1>2

(* The lists that initial_memory() threads.                                *)
LEMMA InitLists == Init => FreeListsExist
<1> SUFFICES ASSUME Init, NEW l \in Levels PROVE FreeList(l)
  BY DEF FreeListsExist
<1>1. PICK n \in Nat \ {0} : n = Count[l]
  BY SizesAssumption
<1>2. PICK first \in Nat : first = FirstIndex[l]
  BY SizesAssumption
<1>3. LevelIndices(l) = first .. first + n - 1
  BY <1>1, <1>2 DEF LevelIndices
<1> DEFINE s == [j \in 1 .. n |-> first + j - 1]
<1>4. FreeIn(l) = LevelIndices(l)
  BY NullIndex DEF Init, FreeIn
<1>5. s \in [1 .. n -> FreeIn(l)]
  BY <1>3, <1>4
<1>6. \A i \in LevelIndices(l) :
         memory_management[i].index = IF i + 1 \in LevelIndices(l) THEN i + 1
                                                                   ELSE NULL_INDEX
  BY NullIndex, LevelOfIndex DEF Init, NextInLevel
<1>7. \A j \in 1 .. n - 1 : memory_management[s[j]].index = s[j + 1]
  <2> TAKE j \in 1 .. n - 1
  <2>1. s[j] = first + j - 1 /\ s[j + 1] = s[j] + 1
    OBVIOUS
  <2>2. s[j] \in LevelIndices(l) /\ s[j] + 1 \in LevelIndices(l)
    BY <2>1, <1>3
  <2> QED
    BY <2>1, <2>2, <1>6
<1>8. memory_management[s[n]].index = NULL_INDEX
  BY <1>3, <1>6
<1>9. memory_control[l].current = s[1] /\ memory_control[l].last = s[n]
  BY <1>1, <1>2 DEF Init
<1>10. \A i \in FreeIn(l) : \E j \in 1 .. n : s[j] = i
  <2> TAKE i \in FreeIn(l)
  <2>1. i - first + 1 \in 1 .. n /\ s[i - first + 1] = i
    BY <1>3, <1>4
  <2> QED
    BY <2>1
<1>11. \A j, k \in 1 .. n : s[j] = s[k] => j = k
  OBVIOUS
<1>12. IsFreeList(l, n, s)
  BY <1>7, <1>8, <1>9, <1>10, <1>11 DEF IsFreeList
<1> QED
  BY <1>5, <1>12 DEF FreeList

(* A level whose descriptors and list ends are left alone keeps its list.  *)
LEMMA ListUntouched ==
    ASSUME NEW l \in Levels, FreeList(l),
           \A i \in LevelIndices(l) : memory_management'[i] = memory_management[i],
           memory_control'[l] = memory_control[l]
    PROVE  FreeList(l)'
<1>0. PICK n \in Nat : \E s \in [1 .. n -> FreeIn(l)] : IsFreeList(l, n, s)
  BY DEF FreeList
<1>1. PICK s \in [1 .. n -> FreeIn(l)] : IsFreeList(l, n, s)
  BY <1>0
<1>2. FreeIn(l)' = FreeIn(l) /\ FreeIn(l) \subseteq LevelIndices(l)
  BY DEF FreeIn
<1>3. \A j \in 1 .. n : memory_management'[s[j]] = memory_management[s[j]]
  BY <1>2
<1>4. IsFreeList(l, n, s)'
  BY <1>1, <1>2, <1>3 DEF IsFreeList
<1> QED
  BY <1>2, <1>4 DEF FreeList

(* allocate() takes the head off a list.                                   *)
LEMMA AllocateList ==
    ASSUME TypeOK, NEW l \in Levels, NEW size, AllocateFrom(l, size), FreeList(l)
    PROVE  FreeList(l)' /\ memory_management[memory_control[l].current].free
<1>0. PICK n \in Nat : \E s \in [1 .. n -> FreeIn(l)] : IsFreeList(l, n, s)
  BY DEF FreeList
<1>1. PICK s \in [1 .. n -> FreeIn(l)] : IsFreeList(l, n, s)
  BY <1>0
<1>2. PICK i : i = memory_control[l].current
  OBVIOUS
<1>3. n > 0
  BY <1>1, <1>2 DEF IsFreeList, AllocateFrom, Available
<1>4. i = s[1] /\ i \in FreeIn(l)
  BY <1>1, <1>2, <1>3 DEF IsFreeList
<1>5. FreeIn(l)' = FreeIn(l) \ {i}
  <2>1. \A j \in LevelIndices(l) : j # i => memory_management'[j] = memory_management[j]
    BY <1>2, AllocateEffect, NullIndex
  <2>2. ~ memory_management'[i].free
    BY <1>2, AllocateEffect
  <2> QED
    BY <2>1, <2>2 DEF FreeIn
<1> DEFINE t == [j \in 1 .. n - 1 |-> s[j + 1]]
<1>6. t \in [1 .. n - 1 -> FreeIn(l)']
  BY <1>1, <1>3, <1>4, <1>5 DEF IsFreeList
<1>7. \A j \in Index : memory_management'[j].index = memory_management[j].index
  BY <1>2, AllocateEffect
<1>8. \A j \in 1 .. n : s[j] \in Index
  BY NullIndex DEF FreeIn
<1>9. \A j, k \in 1 .. n - 1 : t[j] = t[k] => j = k
  BY <1>1, <1>3 DEF IsFreeList
<1>10. \A x \in FreeIn(l)' : \E j \in 1 .. n - 1 : t[j] = x
  <2> TAKE x \in FreeIn(l)'
  <2>1. PICK j \in 1 .. n : s[j] = x
    BY <1>1, <1>5 DEF IsFreeList
  <2>2. j # 1
    BY <2>1, <1>4, <1>5
  <2>3. j - 1 \in 1 .. n - 1 /\ t[j - 1] = x
    BY <2>1, <2>2
  <2> QED
    BY <2>3
<1>11. \A j \in 1 .. n - 2 : memory_management'[t[j]].index = t[j + 1]
  <2> TAKE j \in 1 .. n - 2
  <2>1. j + 1 \in 1 .. n - 1 /\ j \in 1 .. n - 1
    BY <1>3
  <2>2. t[j] = s[j + 1] /\ t[j + 1] = s[j + 1 + 1]
    BY <2>1
  <2>3. memory_management[s[j + 1]].index = s[j + 1 + 1]
    BY <2>1, <1>1 DEF IsFreeList
  <2> QED
    BY <2>1, <2>2, <2>3, <1>7, <1>8
<1>12. memory_control'[l].current = memory_management[s[1]].index
       /\ memory_control'[l].last = memory_control[l].last
  BY <1>2, <1>4, AllocateEffect
<1>13. ASSUME n = 1 PROVE FreeList(l)'
  <2>1. memory_control'[l].current = NULL_INDEX
    BY <1>1, <1>12, <1>13 DEF IsFreeList
  <2>2. IsFreeList(l, 0, t)'
    BY <2>1, <1>9, <1>10, <1>13 DEF IsFreeList
  <2>3. t \in [1 .. 0 -> FreeIn(l)']
    BY <1>6, <1>13
  <2> QED
    BY <2>2, <2>3 DEF FreeList
<1>14. ASSUME n > 1 PROVE FreeList(l)'
  <2>1. /\ memory_control'[l].current = t[1]
        /\ memory_control'[l].last = t[n - 1]
        /\ memory_management'[t[n - 1]].index = NULL_INDEX
    BY <1>1, <1>7, <1>8, <1>12, <1>14 DEF IsFreeList
  <2>2. n - 1 \in Nat /\ n - 1 # 0 /\ n - 1 - 1 = n - 2
    BY <1>14
  <2>3. IsFreeList(l, n - 1, t)'
    BY <2>1, <2>2, <1>9, <1>10, <1>11 DEF IsFreeList
  <2> QED
    BY <2>2, <2>3, <1>6 DEF FreeList
<1>15. memory_management[i].free
  BY <1>4 DEF FreeIn
<1>16. n = 1 \/ n > 1
  BY <1>3
<1> QED
  BY <1>2, <1>13, <1>14, <1>15, <1>16

(* deallocate() appends the block to the list of its level.                *)
LEMMA ReleaseList ==
    ASSUME TypeOK, NEW l \in Levels, NEW i \in LevelIndices(l), Release(i),
           ~ memory_management[i].free, FreeList(l)
    PROVE  FreeList(l)'
<1>0. PICK n \in Nat : \E s \in [1 .. n -> FreeIn(l)] : IsFreeList(l, n, s)
  BY DEF FreeList
<1>1. PICK s \in [1 .. n -> FreeIn(l)] : IsFreeList(l, n, s)
  BY <1>0
<1>2. i \in Index /\ memory_control[l].last \in Index
  BY NullIndex DEF TypeOK
<1>3. i \notin FreeIn(l)
  BY DEF FreeIn
<1>4. \A j \in 1 .. n : s[j] # i /\ s[j] \in Index
  BY <1>3, NullIndex DEF FreeIn
<1>5. n = 0 <=> memory_control[l].current = NULL_INDEX
  BY <1>1, NullIndex DEF IsFreeList, FreeIn
<1>6. n > 0 => memory_control[l].current = s[1] /\ memory_control[l].last = s[n]
  BY <1>1 DEF IsFreeList
<1>7. /\ memory_management'[i] = [free |-> TRUE, index |-> NULL_INDEX]
      /\ n > 0 => /\ memory_management'[s[n]].free
                  /\ memory_management'[s[n]].index = i
      /\ \A j \in Index \ {i} :
           n = 0 \/ j # s[n] => memory_management'[j] = memory_management[j]
  <2>1. CASE n = 0
    <3>1. memory_control[l].current = NULL_INDEX
      BY <2>1, <1>5
    <3>2. /\ memory_management'[i] = [free |-> TRUE, index |-> NULL_INDEX]
          /\ \A j \in Index : j # i => memory_management'[j] = memory_management[j]
      BY <3>1, ReleaseFirst
    <3> QED
      BY <3>2, <2>1
  <2>2. CASE n > 0
    <3>1. PICK last \in Index : last = memory_control[l].last /\ last = s[n] /\ last # i
      BY <2>2, <1>4, <1>6
    <3>2. memory_control[l].current # NULL_INDEX
      BY <2>2, <1>5
    <3>3. memory_management[last].free
      BY <2>2, <3>1 DEF FreeIn
    <3>4. /\ memory_management'[i] = [free |-> TRUE, index |-> NULL_INDEX]
          /\ memory_management'[last] = [free |-> memory_management[last].free,
                                         index |-> i]
      <4>1. memory_control[l].last # i
        BY <3>1
      <4>2. LET tail == memory_control[l].last
            IN  memory_management'[tail] = [free |-> memory_management[tail].free,
                                            index |-> i]
        BY <4>1, <3>2, ReleaseNext
      <4>3. memory_management'[i] = [free |-> TRUE, index |-> NULL_INDEX]
        BY <3>2, ReleaseNext
      <4> QED
        BY <4>2, <4>3, <3>1
    <3>4a. \A j \in Index : j # i /\ j # last =>
               memory_management'[j] = memory_management[j]
      BY <3>1, ReleaseElsewhere
    <3>5. memory_management'[last].free
      BY <3>3, <3>4
    <3> QED
      BY <2>2, <3>1, <3>4, <3>4a, <3>5
  <2> QED
    BY <2>1, <2>2
<1>8. FreeIn(l)' = FreeIn(l) \cup {i}
  <2>1. \A j \in LevelIndices(l) : j # i =>
            (memory_management'[j].free <=> memory_management[j].free)
    <3> TAKE j \in LevelIndices(l)
    <3> HAVE j # i
    <3>1. CASE n > 0 /\ j = s[n]
      <4>1. memory_management'[j].free
        BY <3>1, <1>7
      <4>2. memory_management[j].free
        BY <3>1 DEF FreeIn
      <4> QED
        BY <4>1, <4>2
    <3>2. CASE ~ (n > 0 /\ j = s[n])
      BY <3>2, <1>7, NullIndex
    <3> QED
      BY <3>1, <3>2
  <2>2. memory_management'[i].free
    BY <1>7
  <2> QED
    BY <2>1, <2>2 DEF FreeIn
<1> DEFINE t == [j \in 1 .. n + 1 |-> IF j <= n THEN s[j] ELSE i]
<1>9. t \in [1 .. n + 1 -> FreeIn(l)']
  BY <1>8
<1>10. t[n + 1] = i /\ \A j \in 1 .. n : t[j] = s[j]
  OBVIOUS
<1>11. \A j, k \in 1 .. n + 1 : t[j] = t[k] => j = k
  BY <1>1, <1>4 DEF IsFreeList
<1>12. \A x \in FreeIn(l)' : \E j \in 1 .. n + 1 : t[j] = x
  <2> TAKE x \in FreeIn(l)'
  <2>1. CASE x = i
    BY <2>1, <1>10
  <2>2. CASE x \in FreeIn(l)
    <3>1. PICK j \in 1 .. n : s[j] = x
      BY <2>2, <1>1 DEF IsFreeList
    <3>2. j \in 1 .. n + 1 /\ t[j] = x
      BY <3>1
    <3> QED
      BY <3>2
  <2> QED
    BY <2>1, <2>2, <1>8
<1>13. \A j \in 1 .. n : memory_management'[t[j]].index = t[j + 1]
  <2> TAKE j \in 1 .. n
  <2>1. CASE j = n
    BY <2>1, <1>7, <1>10
  <2>2. CASE j # n
    <3>1. j \in 1 .. n - 1 /\ j + 1 \in 1 .. n /\ n \in 1 .. n
      BY <2>2
    <3>2. s[j] # s[n]
      BY <3>1, <2>2, <1>1 DEF IsFreeList
    <3>3. memory_management'[s[j]] = memory_management[s[j]]
      BY <3>2, <1>4, <1>7
    <3> QED
      BY <3>1, <3>3, <1>1, <1>10 DEF IsFreeList
  <2> QED
    BY <2>1, <2>2
<1>14. /\ memory_control'[l].current = t[1]
       /\ memory_control'[l].last = t[n + 1]
  <2>1. CASE n = 0
    <3>1. memory_control[l].current = NULL_INDEX
      BY <2>1, <1>5
    <3>2. memory_control'[l] = [current |-> i, last |-> i]
      BY <3>1, ReleaseFirst
    <3> QED
      BY <3>2, <2>1, <1>10
  <2>2. CASE n > 0
    <3>1. memory_control[l].current # NULL_INDEX
      BY <2>2, <1>5
    <3>2. memory_control'[l] = [current |-> memory_control[l].current, last |-> i]
      BY <3>1, ReleaseNext
    <3> QED
      BY <3>2, <2>2, <1>6, <1>10
  <2> QED
    BY <2>1, <2>2
<1>15. IsFreeList(l, n + 1, t)'
  <2>1. n + 1 # 0 /\ n + 1 - 1 = n
    OBVIOUS
  <2> HIDE DEF t
  <2> QED
    BY <2>1, <1>7, <1>10, <1>11, <1>12, <1>13, <1>14 DEF IsFreeList
<1> QED
  BY <1>9, <1>15 DEF FreeList

LEMMA NextLists == TypeOK /\ FreeListsExist /\ [Next]_vars => FreeListsExist'
<1> SUFFICES ASSUME TypeOK, FreeListsExist, [Next]_vars, NEW k \in Levels
             PROVE  FreeList(k)'
  BY DEF FreeListsExist
<1>0. FreeList(k)
  BY DEF FreeListsExist
<1>1. ASSUME NEW size \in Requests, NEW l \in Levels, AllocateFrom(l, size)
      PROVE  FreeList(k)'
  <2>1. CASE k = l
    BY <2>1, <1>0, <1>1, AllocateList
  <2>2. CASE k # l
    <3>1. \A j \in LevelIndices(k) : memory_management'[j] = memory_management[j]
      <4> SUFFICES ASSUME NEW j \in LevelIndices(k)
                   PROVE  memory_management'[j] = memory_management[j]
        OBVIOUS
      <4>1. memory_control[l].current \in LevelIndices(l)
        BY <1>1 DEF TypeOK, AllocateFrom, Available
      <4>2. j \in Index /\ j # memory_control[l].current
        BY <4>1, <2>2, LevelsDisjoint, NullIndex
      <4> QED
        BY <4>2, <1>1, AllocateElsewhere
    <3>2. memory_control'[k] = memory_control[k]
      BY <2>2, <1>1, AllocateEffect
    <3> QED
      BY <3>1, <3>2, <1>0, ListUntouched
  <2> QED
    BY <2>1, <2>2
<1>2. ASSUME NEW address \in Addresses, DeallocateBlock(address)
      PROVE  FreeList(k)'
  <2>1. PICK i : i = TargetIndex(address)
    OBVIOUS
  <2>2. PICK l \in Levels : i \in LevelIndices(l)
    BY <2>1, <1>2, Released DEF DeallocateBlock
  <2>3. Release(i) /\ ~ memory_management[i].free
    BY <2>1, <1>2, Released DEF DeallocateBlock
  <2>4. CASE k = l
    BY <2>2, <2>3, <2>4, <1>0, ReleaseList
  <2>5. CASE k # l
    <3>1. memory_control[l].last \in LevelIndices(l) /\ memory_control[l].last \in Index
      BY NullIndex DEF TypeOK
    <3>2. \A j \in LevelIndices(k) : memory_management'[j] = memory_management[j]
      <4> SUFFICES ASSUME NEW j \in LevelIndices(k)
                   PROVE  memory_management'[j] = memory_management[j]
        OBVIOUS
      <4>1. j \in Index /\ j # i /\ j # memory_control[l].last
        BY <3>1, <2>2, <2>5, LevelsDisjoint, NullIndex
      <4> QED
        BY <4>1, <2>2, <2>3, ReleaseElsewhere
    <3>3. memory_control'[k] = memory_control[k]
      <4>1. CASE memory_control[l].current = NULL_INDEX
        BY <4>1, <2>2, <2>3, <2>5, ReleaseFirst
      <4>2. CASE memory_control[l].current # NULL_INDEX
        BY <4>2, <2>2, <2>3, <2>5, ReleaseNext
      <4> QED
        BY <4>1, <4>2
    <3> QED
      BY <3>2, <3>3, <1>0, ListUntouched
  <2> QED
    BY <2>4, <2>5
<1>3. ASSUME UNCHANGED <<memory_management, memory_control>>
      PROVE  FreeList(k)'
  BY <1>0, <1>3, ListUntouched
<1> QED
  BY <1>1, <1>2, <1>3 DEF Next, vars, AllocateFails, DeallocateRejected

(* The inductive invariant behind the theorems below.                      *)
Inductive == TypeOK /\ FreeListsExist

LEMMA InductiveInvariant == Spec => []Inductive
<1>1. Init => Inductive
  BY InitTyped, InitLists DEF Inductive
<1>2. Inductive /\ [Next]_vars => Inductive'
  BY NextTyped, NextLists DEF Inductive
<1> QED
  BY <1>1, <1>2, PTL DEF Spec

(* No free block is ever lost from its list and none is on it twice,       *)
(* whatever the geometry and the calls.                                    *)
THEOREM ListsCorrect == Spec => []FreeListsWellFormed
<1>1. Inductive => FreeListsWellFormed
  BY ListsBounded DEF Inductive
<1> QED
  BY <1>1, InductiveInvariant, PTL

-----------------------------------------------------------------------------
(* Refinement of BlockPool.                                                *)

(* BlockPool sees the same layout.                                         *)
LEMMA SameLayout ==
    /\ Pool!Index = Index
    /\ \A i : Pool!GET_LEVEL(i) = GET_LEVEL(i)
    /\ \A i : Pool!GET_OFFSET(i) = GET_OFFSET(i)
    /\ \A i : Pool!Bytes(i) = Bytes(i)
    /\ \A size : Pool!Fits(size) = Fits(size)
    /\ Pool!NULL = NULL /\ Pool!C_TRUE = C_TRUE /\ Pool!C_FALSE = C_FALSE
  BY DEF Pool!Index, Index, Pool!Levels, Levels, Pool!LevelIndices, LevelIndices,
         Pool!GET_LEVEL, GET_LEVEL, Pool!GET_OFFSET, GET_OFFSET,
         Pool!Bytes, Bytes, Pool!Fits, Fits, Pool!NULL, NULL,
         Pool!C_TRUE, C_TRUE, Pool!C_FALSE, C_FALSE

(* A level has a free block exactly when its list has a head.              *)
LEMMA HeadExists ==
    ASSUME NEW l \in Levels, FreeList(l)
    PROVE  memory_control[l].current # NULL_INDEX <=> FreeIn(l) # {}
<1>0. PICK n \in Nat : \E s \in [1 .. n -> FreeIn(l)] : IsFreeList(l, n, s)
  BY DEF FreeList
<1>1. PICK s \in [1 .. n -> FreeIn(l)] : IsFreeList(l, n, s)
  BY <1>0
<1>2. CASE n = 0
  BY <1>1, <1>2 DEF IsFreeList
<1>3. CASE n > 0
  <2>1. memory_control[l].current = s[1] /\ s[1] \in FreeIn(l)
    BY <1>1, <1>3 DEF IsFreeList
  <2> QED
    BY <2>1, NullIndex DEF FreeIn
<1> QED
  BY <1>2, <1>3

InUse == {i \in Index : ~ memory_management[i].free}

(* The levels allocate() finds non-empty are those with a free block.      *)
LEMMA AvailableLevels ==
    ASSUME FreeListsExist, NEW size
    PROVE  Available(size) = {GET_LEVEL(i) : i \in {j \in Index \ InUse :
                                                     GET_LEVEL(j) \in Fits(size)}}
<1>1. ASSUME NEW l \in Available(size)
      PROVE  \E i \in Index \ InUse : GET_LEVEL(i) = l /\ GET_LEVEL(i) \in Fits(size)
  <2>1. l \in Levels /\ l \in Fits(size) /\ FreeIn(l) # {}
    BY HeadExists DEF Available, Fits, FreeListsExist
  <2>2. PICK i : i \in FreeIn(l)
    BY <2>1
  <2> QED
    BY <2>1, <2>2, LevelOfIndex, NullIndex DEF FreeIn, InUse
<1>2. ASSUME NEW i \in Index \ InUse, GET_LEVEL(i) \in Fits(size)
      PROVE  GET_LEVEL(i) \in Available(size)
  <2>1. GET_LEVEL(i) \in Levels /\ i \in FreeIn(GET_LEVEL(i))
    BY IndexLevel DEF FreeIn, InUse
  <2> QED
    BY <2>1, <1>2, HeadExists DEF Available, FreeListsExist
<1> QED
  BY <1>1, <1>2

LEMMA InitRefines == Init => Pool!Init
  BY SameLayout DEF Init, Pool!Init

LEMMA NextRefines == Inductive /\ [Next]_vars => [Pool!Next]_(Pool!vars)
<1> SUFFICES ASSUME TypeOK, FreeListsExist, [Next]_vars
             PROVE  [Pool!Next]_(Pool!vars)
  BY DEF Inductive
<1>1. ASSUME NEW size \in Requests, NEW l \in Levels, AllocateFrom(l, size)
      PROVE  Pool!Allocate(size)
  <2>1. PICK i : i = memory_control[l].current
    OBVIOUS
  <2>2. i \in LevelIndices(l) /\ memory_management[i].free
    <3>1. FreeList(l)
      BY DEF FreeListsExist
    <3>2. memory_management[i].free
      BY <2>1, <3>1, <1>1, AllocateList
    <3>3. i \in LevelIndices(l)
      BY <2>1, <1>1 DEF TypeOK, AllocateFrom, Available
    <3> QED
      BY <3>2, <3>3
  <2>3. i \in Index \ InUse /\ GET_LEVEL(i) = l /\ l \in Fits(size)
    BY <2>2, <1>1, LevelOfIndex, NullIndex DEF InUse, AllocateFrom, Available
  <2>4. \A j \in Index \ InUse : GET_LEVEL(j) \in Fits(size) =>
                                  GET_LEVEL(i) <= GET_LEVEL(j)
    BY <2>3, <1>1, AvailableLevels DEF AllocateFrom
  <2>5. InUse' = InUse \cup {i}
    <3>1. \A j \in Index : j # i => memory_management'[j] = memory_management[j]
      BY <2>1, <1>1, AllocateElsewhere
    <3>2. ~ memory_management'[i].free
      BY <2>1, <1>1, AllocateEffect
    <3> QED
      BY <3>1, <3>2, <2>3 DEF InUse
  <2>6. reply' = [call |-> "allocate", arg |-> size,
                  result |-> ADDDRESS_BASE + GET_OFFSET(i)]
    BY <2>1, <1>1 DEF AllocateFrom
  <2> QED
    BY <2>3, <2>4, <2>5, <2>6, SameLayout DEF Pool!Allocate, InUse
<1>2. ASSUME NEW size \in Requests, AllocateFails(size)
      PROVE  Pool!Allocate(size)
  <2>1. {j \in Index \ InUse : GET_LEVEL(j) \in Fits(size)} = {}
    BY <1>2, AvailableLevels DEF AllocateFails
  <2> QED
    BY <2>1, <1>2, SameLayout DEF Pool!Allocate, AllocateFails, InUse
<1>3. ASSUME NEW address \in Addresses, DeallocateBlock(address)
      PROVE  Pool!Deallocate(address)
  <2>1. PICK i : i = TargetIndex(address)
    OBVIOUS
  <2>2. PICK l \in Levels : i \in LevelIndices(l)
    BY <2>1, <1>3, Released DEF DeallocateBlock
  <2>3. /\ Release(i) /\ ~ memory_management[i].free /\ i \in Index
        /\ address \in Bytes(i)
    BY <2>1, <1>3, Released DEF DeallocateBlock
  <2>4. InUse' = InUse \ {i}
    <3>1. memory_management'[i] = [free |-> TRUE, index |-> NULL_INDEX]
      <4>1. CASE memory_control[l].current = NULL_INDEX
        BY <4>1, <2>2, <2>3, ReleaseFirst
      <4>2. CASE memory_control[l].current # NULL_INDEX
        BY <4>2, <2>2, <2>3, ReleaseNext
      <4> QED
        BY <4>1, <4>2
    <3>2. ASSUME NEW j \in Index, j # i
          PROVE  memory_management'[j].free <=> memory_management[j].free
      <4>1. CASE j # memory_control[l].last
        BY <4>1, <3>2, <2>2, <2>3, ReleaseElsewhere
      <4>2. CASE j = memory_control[l].last /\ memory_control[l].current = NULL_INDEX
        <5>1. \A x \in Index : x # i => memory_management'[x] = memory_management[x]
          BY <4>2, <2>2, <2>3, ReleaseFirst
        <5> QED
          BY <5>1, <3>2
      <4>3. CASE j = memory_control[l].last /\ memory_control[l].current # NULL_INDEX
        <5>1. LET tail == memory_control[l].last
              IN  memory_management'[tail] = [free |-> memory_management[tail].free,
                                              index |-> i]
          BY <4>3, <3>2, <2>2, <2>3, ReleaseNext
        <5> QED
          BY <5>1, <4>3
      <4> QED
        BY <4>1, <4>2, <4>3
    <3> QED
      BY <3>1, <3>2 DEF InUse
  <2>5. i \in InUse
    BY <2>3 DEF InUse
  <2>6. reply' = [call |-> "deallocate", arg |-> address, result |-> C_TRUE]
    BY <1>3 DEF DeallocateBlock
  <2> QED
    BY <2>3, <2>4, <2>5, <2>6, SameLayout DEF Pool!Deallocate, InUse
<1>4. ASSUME NEW address \in Addresses, DeallocateRejected(address)
      PROVE  Pool!Deallocate(address)
  <2>1. ASSUME NEW i \in InUse, address \in Bytes(i) PROVE FALSE
    <3>1. i \in Index /\ ~ memory_management[i].free
      BY DEF InUse
    <3>2. Region(address) \in Levels /\ TargetIndex(address) = i
      BY <3>1, <2>1, ContainsIsTarget, CallersAssumption
    <3> QED
      BY <3>1, <3>2, <1>4 DEF DeallocateRejected, Rejected
  <2> QED
    BY <2>1, <1>4, SameLayout DEF Pool!Deallocate, DeallocateRejected, InUse
<1>5. CASE UNCHANGED vars
  BY <1>5 DEF vars, Pool!vars
<1> QED
  BY <1>1, <1>2, <1>3, <1>4, <1>5 DEF Next, Pool!Next

(* The free-list allocator implements the pool: a block is never handed to *)
(* two holders, NULL means exhaustion, and deallocate() frees exactly the  *)
(* block that contains the address.                                        *)
THEOREM Refinement == Spec => PoolSpec
<1>1. Inductive /\ [Next]_vars => [Pool!Next]_(Pool!vars)
  BY NextRefines
<1>2. Init => Pool!Init
  BY InitRefines
<1> QED
  BY <1>1, <1>2, InductiveInvariant, PTL DEF Spec, PoolSpec, Pool!Spec
=============================================================================
